---------------------------- MODULE PatchEngine ----------------------------
(***************************************************************************)
(* Edits of a file and their undoing: write_file and edit_file with the    *)
(* snapshot and rollback around them (ToolExecutor, AIAgentService.run),   *)
(* the hunks they record (DiffStore), the commands that reject a hunk      *)
(* (DiffApplyController), and the user who works in the same file.         *)
(*                                                                         *)
(* One file is modelled: edits of different files share nothing but the    *)
(* list of groups.  A text is a sequence of words, newlines and the marks  *)
(* String.replace takes for patterns, so that lines, offsets and           *)
(* replacements are what they are in the code.  Reading and writing a      *)
(* file are asynchronous: an action is the moment the file is read or      *)
(* written, with the code that follows; a write that fails may leave the   *)
(* file empty.  Every group holds one hunk, as both tools record them.     *)
(* The edits go through one executor, as those of overlapping calls of     *)
(* run() do; hunks are not written to disk, since nothing in the           *)
(* repository calls DiffStore.initialize.                                  *)
(***************************************************************************)
EXTENDS Naturals, Sequences, FiniteSets

CONSTANTS
    Words,     \* stretches of text without a newline or a mark
    Contents,  \* texts of the file at first
    Jobs,      \* tools with their inputs: content, or old_string and new_string
    Typed,     \* texts the user turns the file into
    Edits,     \* calls of an editing tool
    Rejects,   \* commands of the user that reject a hunk
    None,      \* null
    MaxTyped   \* how often the user types

NL == "\n"
Marks == {"$", "&", "backtick", "quote"}
Texts == Seq(Words \cup {NL} \cup Marks)

\* edit_all is edit_file with replace_all; an empty old_string is refused.
Job == [tool : {"write"}, old : {<<>>}, new : Texts]
           \cup [tool : {"edit", "edit_all"}, old : Texts \ {<<>>}, new : Texts]

ASSUME TextAssumption ==
    /\ Words \cap ({NL} \cup Marks) = {}
    /\ Contents \subseteq Texts /\ Typed \subseteq Texts
    /\ \A j \in Jobs : j \in Job
    /\ None \notin Texts \cup Edits
    /\ Edits \cap Rejects = {}
    /\ MaxTyped \in Nat

VARIABLES
    disk,      \* the file: its text, or None
    buffer,    \* the text of a visible editor of the file, or None
    typed,     \* how often the user has typed
    groups,    \* _groups of the diff store, each with its one hunk
    snapshot,  \* _snapshots of the executor
    pc,        \* where each call is suspended
    job,       \* name and input of the tool of each edit
    content,   \* what each call has read
    target,    \* the group each reject is about
    before,    \* history: what each edit under way found in the file at its
               \* snapshot
    meddled,   \* history: edits under way beside which another call or the
               \* user changed the file or the snapshot map
    owner,     \* history: the edit whose write, of a text made from the one
               \* it replaced, is the last change of the file
    undone,    \* history: how often each group has been reversed
    raced      \* history: two rejects were under way at once

files == <<disk, buffer, typed>>
history == <<before, meddled, owner, undone, raced>>
vars == <<files, groups, snapshot, pc, job, content, target, history>>

-----------------------------------------------------------------------------
(* Texts.  Offsets count what precedes a place, as in the code.             *)

\* s.split("\n").length
LineCount(s) == 1 + Cardinality({k \in DOMAIN s : s[k] = NL})

\* The line that the place after the first k elements is on.
LineAt(s, k) == LineCount(SubSeq(s, 1, k))

OccursAt(s, old, k) == k + Len(old) <= Len(s) /\ SubSeq(s, k + 1, k + Len(old)) = old
Occurs(s, old) == \E k \in 0..Len(s) : OccursAt(s, old, k)

\* s.indexOf(old), for an old that occurs
IndexOf(s, old) ==
    CHOOSE k \in 0..Len(s) : /\ OccursAt(s, old, k)
                             /\ \A j \in 0..(k - 1) : ~OccursAt(s, old, j)

\* s.slice(0, from) + new + s.slice(to)
Splice(s, from, to, new) == SubSeq(s, 1, from) \o new \o SubSeq(s, to + 1, Len(s))

\* s from left to right, the next size[k] elements at place k become piece[k]
Offsets(s) == 0..(Len(s) - 1)
Rewritten(s, size, piece) ==
    LET from[k \in 0..Len(s)] ==
            IF k = Len(s) THEN <<>> ELSE piece[k] \o from[k + size[k]]
    IN  from[0]

\* s.split(old).join(new)
ReplaceEach(s, old, new) ==
    Rewritten(s,
        [k \in Offsets(s) |-> IF OccursAt(s, old, k) THEN Len(old) ELSE 1],
        [k \in Offsets(s) |-> IF OccursAt(s, old, k) THEN new ELSE <<s[k + 1]>>])

\* What String.replace puts in for new where it replaces old between left and
\* right: $$ is a dollar, $& what is replaced; a dollar with a backtick or
\* a quote is the text before or behind it.
PatternAt(new, k) == k + 2 <= Len(new) /\ new[k + 1] = "$" /\ new[k + 2] \in Marks
Literal(new) == \A k \in Offsets(new) : ~PatternAt(new, k)
Insertion(mark, left, old, right) ==
    CASE mark = "$" -> <<"$">>
      [] mark = "&" -> old
      [] mark = "backtick" -> left
      [] mark = "quote" -> right
Expanded(new, left, old, right) ==
    Rewritten(new,
        [k \in Offsets(new) |-> IF PatternAt(new, k) THEN 2 ELSE 1],
        [k \in Offsets(new) |-> IF PatternAt(new, k)
                                THEN Insertion(new[k + 2], left, old, right)
                                ELSE <<new[k + 1]>>])

\* s.replace(old, new)
ReplaceFirst(s, old, new) ==
    LET first == IndexOf(s, old)
        last  == first + Len(old)
    IN  IF Occurs(s, old)
        THEN Splice(s, first, last,
                    Expanded(new, SubSeq(s, 1, first), old, SubSeq(s, last + 1, Len(s))))
        ELSE s

\* _offsetForLine, and the clamping of a Range by an editor's model
OffsetForLine(s, line) ==
    LET starts == {k \in DOMAIN s : s[k] = NL /\ LineAt(s, k) = line}
    IN  IF line <= 1 THEN 0
        ELSE IF starts = {} THEN Len(s) ELSE CHOOSE k \in starts : TRUE

-----------------------------------------------------------------------------
(* Tools and hunks.                                                         *)

Matches(j, s) == j.tool = "edit" => Occurs(s, j.old)

NewText(j, s) ==
    CASE j.tool = "write"    -> j.new
      [] j.tool = "edit"     -> ReplaceFirst(s, j.old, j.new)
      [] j.tool = "edit_all" -> ReplaceEach(s, j.old, j.new)

\* modifiedEndLine
LastLineBeyond(first, new) == first + LineCount(new)
LastLine(first, new) == first + LineCount(new) - 1

\* The hunk recorded for an edit of the text s.  A replace_all that finds
\* nothing is recorded at line 0.
Hunk(e, s) ==
    LET j == job[e]
        first == IF j.tool = "write" THEN 1
                 ELSE IF Occurs(s, j.old) THEN LineAt(s, IndexOf(s, j.old)) ELSE 0
    IN  [by |-> e, start |-> first, end |-> LastLine(first, j.new),
         tool |-> j.tool, original |-> IF j.tool = "write" THEN s ELSE j.old,
         modified |-> j.new, status |-> "applied"]

\* _reverseEdit: the lines of the hunk become its original text.
LinesEndBefore(hunk) == hunk.end
LinesEnd(hunk) == hunk.end + 1
Reversed(s, hunk) ==
    Splice(s, OffsetForLine(s, hunk.start), OffsetForLine(s, LinesEnd(hunk)),
           hunk.original)

-----------------------------------------------------------------------------

Calls == Edits \cup Rejects
OnDisk == IF disk = None THEN <<>> ELSE disk
NoJob == [tool |-> "none", old |-> <<>>, new |-> <<>>]

Init ==
    /\ disk \in Contents \cup {None}
    /\ buffer = None /\ typed = 0
    /\ groups = <<>> /\ snapshot = None
    /\ pc = [c \in Calls |-> "idle"]
    /\ job = [e \in Edits |-> NoJob]
    /\ content = [c \in Calls |-> None]
    /\ target = [c \in Rejects |-> 0]
    /\ before = [e \in Edits |-> None]
    /\ meddled = {} /\ owner = None /\ undone = <<>> /\ raced = FALSE

Goto(c, at) == pc' = [pc EXCEPT ![c] = at]

\* Call c changes the file or the snapshot map under these edits.
Over == {"done", "restored"}
UnderWay(c) == {e \in Edits \ {c} : pc[e] \notin Over \cup {"idle"}}
Meddle(c) == meddled' = meddled \cup UnderWay(c)

\* Edit e is over; its locals and what history knows of it are gone.
Finish(e, how) ==
    /\ Goto(e, how)
    /\ job' = [job EXCEPT ![e] = NoJob]
    /\ before' = [before EXCEPT ![e] = None]
    /\ meddled' = (meddled \ {e}) \cup UnderWay(e)

\* What a write that fails can leave.
Broken == {disk, <<>>}

-----------------------------------------------------------------------------
(* An edit: run() around ToolExecutor.execute.                              *)

\* createSnapshot up to its await
Begin(e) ==
    /\ pc[e] = "idle"
    /\ \E j \in Jobs : job' = [job EXCEPT ![e] = j]
    /\ snapshot' = None
    /\ Goto(e, "snapshot")
    /\ Meddle(e)
    /\ UNCHANGED <<files, groups, content, target, before, owner, undone, raced>>

\* the file was read; or it was not, or does not exist, and nothing is kept
TakeSnapshot(e) ==
    /\ pc[e] = "snapshot"
    /\ \/ disk # None /\ snapshot' = disk
       \/ UNCHANGED snapshot
    /\ before' = [before EXCEPT ![e] = disk]
    /\ Goto(e, "read")
    /\ Meddle(e)
    /\ UNCHANGED <<files, groups, job, content, target, owner, undone, raced>>

\* execute returns "Tool execution cancelled", which is no error.
Cancelled(e) ==
    /\ pc[e] = "read"
    /\ snapshot' = None
    /\ Finish(e, "done")
    /\ UNCHANGED <<files, groups, content, target, owner, undone, raced>>

\* execute returns an error before it wrote: the path is refused, edit_file
\* has no file, or the file has no old_string.
Refused(e) ==
    /\ pc[e] = "read"
    /\ Goto(e, "rollback")
    /\ UNCHANGED <<files, groups, snapshot, job, content, target, history>>

\* write_file takes a file that cannot be read for a new one.
ReadFile(e) ==
    /\ pc[e] = "read"
    /\ \/ /\ disk # None
          /\ Matches(job[e], disk)
          /\ content' = [content EXCEPT ![e] = disk]
       \/ /\ job[e].tool = "write"
          /\ content' = [content EXCEPT ![e] = <<>>]
    /\ Goto(e, "write")
    /\ UNCHANGED <<files, groups, snapshot, job, target, history>>

WriteFile(e) ==
    /\ pc[e] = "write"
    /\ disk' = NewText(job[e], content[e])
    /\ owner' = IF content[e] = OnDisk THEN e ELSE None
    /\ Goto(e, "written")
    /\ Meddle(e)
    /\ UNCHANGED <<buffer, typed, groups, snapshot, job, content, target, before,
                   undone, raced>>

WriteFileFails(e) ==
    /\ pc[e] = "write"
    /\ disk' \in Broken /\ owner' = None
    /\ content' = [content EXCEPT ![e] = None]
    /\ Goto(e, "rollback")
    /\ Meddle(e)
    /\ UNCHANGED <<buffer, typed, groups, snapshot, job, target, before, undone, raced>>

\* diffStore.addGroup, commitSnapshot
Record(e) ==
    /\ pc[e] = "written"
    /\ groups' = Append(groups, Hunk(e, content[e]))
    /\ undone' = Append(undone, 0)
    /\ snapshot' = None
    /\ Finish(e, "done")
    /\ UNCHANGED <<files, content, target, owner, raced>>

\* rollbackAll: "Nothing to rollback."
NothingToRollback(e) ==
    /\ pc[e] = "rollback" /\ snapshot = None
    /\ Finish(e, "done")
    /\ UNCHANGED <<files, groups, snapshot, content, target, owner, undone, raced>>

RolledBackNothing == disk
RolledBack == snapshot
Rollback(e) ==
    /\ pc[e] = "rollback" /\ snapshot # None
    /\ \/ disk' = RolledBack /\ Finish(e, "restored")
       \/ disk' \in Broken /\ Finish(e, "done")
    /\ snapshot' = None
    /\ owner' = None
    /\ UNCHANGED <<buffer, typed, groups, content, target, undone, raced>>

-----------------------------------------------------------------------------
(* A reject: the commands of diff.contribution.ts.                          *)

Rejecting(c) == pc[c] \in {"read", "write", "written"}

MarkApplied(n) == "applied"
MarkRejected(n) == "rejected"

\* DiffStore.rejectHunk and rejectAll
SetRejected(n) == groups' = [groups EXCEPT ![n].status = MarkRejected(n)]

Undo(n) == undone' = [undone EXCEPT ![n] = @ + 1]

\* The group is the last, the one under the cursor, or the command's
\* argument; one that was rejected already is left alone.
Choose(c, n) ==
    /\ pc[c] = "idle"
    /\ groups[n].status = "applied"
    /\ raced' = (raced \/ \E d \in Rejects : Rejecting(d))

\* The file is visible: its model is edited, unsaved.
RejectInEditor(c, n) ==
    /\ Choose(c, n)
    /\ buffer # None
    /\ buffer' = Reversed(buffer, groups[n])
    /\ SetRejected(n) /\ Undo(n)
    /\ owner' = None
    /\ Goto(c, "done")
    /\ UNCHANGED <<disk, typed, snapshot, job, content, target, before, meddled>>

RejectOnDisk(c, n) ==
    /\ Choose(c, n)
    /\ buffer = None
    /\ target' = [target EXCEPT ![c] = n]
    /\ Goto(c, "read")
    /\ UNCHANGED <<files, groups, snapshot, job, content, before, meddled, owner, undone>>

\* Reading or writing the file fails: the command rejects.
AfterFailureReject == "written"
AfterFailure == "done"
RejectReads(c) ==
    /\ pc[c] = "read"
    /\ \/ Goto(c, AfterFailure) /\ UNCHANGED content
       \/ /\ disk # None
          /\ Goto(c, "write")
          /\ content' = [content EXCEPT ![c] = disk]
    /\ UNCHANGED <<files, groups, snapshot, job, target, history>>

RejectWrites(c) ==
    /\ pc[c] = "write"
    /\ disk' = Reversed(content[c], groups[target[c]])
    /\ Undo(target[c])
    /\ owner' = None
    /\ content' = [content EXCEPT ![c] = None]
    /\ Goto(c, "written")
    /\ Meddle(c)
    /\ UNCHANGED <<buffer, typed, groups, snapshot, job, target, before, raced>>

RejectFails(c) ==
    /\ pc[c] = "write"
    /\ disk' \in Broken /\ owner' = None
    /\ content' = [content EXCEPT ![c] = None]
    /\ Goto(c, AfterFailure)
    /\ Meddle(c)
    /\ UNCHANGED <<buffer, typed, groups, snapshot, job, target, before, undone, raced>>

RejectSettles(c) ==
    /\ pc[c] = "written"
    /\ SetRejected(target[c])
    /\ Goto(c, "done")
    /\ target' = [target EXCEPT ![c] = 0]
    /\ UNCHANGED <<files, snapshot, job, content, history>>

-----------------------------------------------------------------------------
(* The user and the editor around this code.                                *)

UserLeaves == <<groups, snapshot, pc, job, content, target, before, undone, raced>>

Open ==
    /\ buffer = None /\ disk # None
    /\ buffer' = disk
    /\ UNCHANGED <<disk, typed, meddled, owner, UserLeaves>>

Type ==
    /\ buffer # None /\ typed < MaxTyped
    /\ buffer' \in Typed
    /\ typed' = typed + 1
    /\ owner' = None
    /\ UNCHANGED <<disk, meddled, UserLeaves>>

\* Saving, or the autosave
Save ==
    /\ buffer # None /\ buffer # disk
    /\ disk' = buffer
    /\ owner' = None
    /\ Meddle(None)
    /\ UNCHANGED <<buffer, typed, UserLeaves>>

\* An editor follows a change of its file, some time after it.
Reload ==
    /\ buffer # None /\ disk # None /\ buffer # disk
    /\ buffer' = disk
    /\ UNCHANGED <<disk, typed, meddled, owner, UserLeaves>>

Close ==
    /\ buffer # None /\ buffer = disk
    /\ buffer' = None
    /\ UNCHANGED <<disk, typed, meddled, owner, UserLeaves>>

User == Open \/ Type \/ Save \/ Reload \/ Close

Edit(e) ==
    \/ Begin(e) \/ TakeSnapshot(e) \/ Cancelled(e) \/ Refused(e)
    \/ ReadFile(e) \/ WriteFile(e) \/ WriteFileFails(e) \/ Record(e)
    \/ NothingToRollback(e) \/ Rollback(e)

Reject(c) ==
    \/ \E n \in DOMAIN groups : RejectInEditor(c, n) \/ RejectOnDisk(c, n)
    \/ RejectReads(c) \/ RejectWrites(c) \/ RejectFails(c) \/ RejectSettles(c)

Next == (\E e \in Edits : Edit(e)) \/ (\E c \in Rejects : Reject(c)) \/ User

Spec == Init /\ [][Next]_vars

-----------------------------------------------------------------------------
(* Properties                                                               *)

\* A tool that failed and was rolled back has left the file as it found it,
\* also when its write broke half way, unless somebody else was at work.
RollbackRestores ==
    [][\A e \in Edits \ meddled :
        pc[e] = "rollback" /\ pc'[e] = "restored" => disk' = before[e]]_vars

\* As long as an edit is the last change of the file, its hunk names the
\* lines on which the new text begins and ends: what the decorations show and
\* the commands jump to.  An edit_file without replace_all promises that only
\* for a new_string without a pattern of String.replace: what stands in the
\* file for one with a pattern is another text than the hunk records.
HunkLocatesText ==
    \A n \in DOMAIN groups :
        LET h == groups[n] IN
        owner = h.by /\ h.start > 0 /\ (h.tool = "edit" => Literal(h.modified)) =>
            \E k \in 0..Len(disk) :
                /\ OccursAt(disk, h.modified, k)
                /\ LineAt(disk, k) = h.start
                /\ LineAt(disk, k + Len(h.modified)) = h.end

\* A hunk says "rejected" only after it has been reversed, whatever reads and
\* writes fail: a failed rejection can be tried again.
RejectedWasReversed ==
    \A n \in DOMAIN groups : groups[n].status = "rejected" => undone[n] > 0

\* Rejections that do not overlap reverse no hunk twice.
ReversedOnce == ~raced => \A n \in DOMAIN undone : undone[n] <= 1

\* The text that replaces an edit's when group n is rejected while the edit is
\* still the last change, and an open editor has caught up with it.
RejectRestores(n, text) ==
    /\ undone'[n] # undone[n]
    /\ owner = groups[n].by
    /\ buffer \in {None, disk}
    => text \in {disk', buffer'}

\* Rejecting a write_file gives back the text it overwrote.
WriteUndone ==
    [][\A n \in DOMAIN groups :
        groups[n].tool = "write" => RejectRestores(n, groups[n].original)]_vars

\* diffApplyController.ts:3, "Handles Reject (undo) for individual hunks":
\* rejecting an edit_file gives back the text it edited.  It does not.
EditUndone ==
    [][\A n \in DOMAIN groups :
        groups[n].tool = "edit" => RejectRestores(n, content[groups[n].by])]_vars
=============================================================================
