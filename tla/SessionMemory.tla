--------------------------- MODULE SessionMemory ---------------------------
(***************************************************************************)
(* The two tiers of conversation memory and the path history takes through *)
(* them: ConversationMemory (the turns and their token estimate, shared by *)
(* all calls of AIAgentService.run()) and MemoryStore (one file per saved  *)
(* session, the newest of which the next call loads).                      *)
(*                                                                         *)
(* A call of run() is an element of Calls and an action is what it does    *)
(* between two awaits.  The agent loop itself is module AgentService; here *)
(* a call that is in it may compact the memory, end its turn, leave        *)
(* without one or fail, in any order AgentService allows and some it does  *)
(* not.  The process may crash and be restarted between any two steps.     *)
(*                                                                         *)
(* Abstractions: a turn is the set of calls it stands for, and costs one   *)
(* unit; sessions are named by the clock, which does not run backwards.    *)
(***************************************************************************)
EXTENDS Subsequences, FiniteSets

CONSTANTS
    NumCalls,        \* calls of run() in a behaviour: Calls == 1 .. NumCalls
    MaxLive,         \* calls live at a time
    MaxHistoryFiles, \* MAX_HISTORY_FILES
    MaxUnits,        \* 80% of options.maxContextTokens, in units
    OldStores,       \* contents of the history directory to start from
    Bad              \* a line that does not parse

ASSUME NumCallsAssumption == NumCalls \in Nat \ {0}
ASSUME MaxHistoryFilesAssumption == MaxHistoryFiles \in Nat \ {0}
ASSUME MaxUnitsAssumption == MaxUnits \in Nat

Calls == 1 .. NumCalls

\* Turns before the first call are numbered 0: an older version wrote them,
\* and had not compacted them.
Turn == [summary : BOOLEAN, of : SUBSET (Calls \cup {0})]
Spoken(r) == [summary |-> FALSE, of |-> {r}]

\* A session file.  saveSessionFull writes one line with every turn, the
\* saveSession of earlier versions a line for each.
File == [legacy : BOOLEAN, lines : Seq(Turn \cup {Bad})]
TornFile == [legacy |-> FALSE, lines |-> <<Bad>>]

ASSUME BadAssumption == Bad \notin Turn
ASSUME OldStoresAssumption ==
    \A s \in OldStores :
        /\ DOMAIN s \subseteq {0}
        /\ s \in [DOMAIN s -> [legacy : BOOLEAN,
                              lines  : Seq({Spoken(0), Bad})]]

VARIABLES
    turns,           \* _turns
    estimatedTokens, \* _estimatedTokens
    running,         \* _status is "running"
    files,           \* the .jsonl files of the history directory, by name
    now,             \* the session id handed out last
    pc,              \* where each call is suspended
    reading,         \* the file a call is about to read
    compacted,       \* the turns a call has given to the summarizer
    agentSession,    \* the id and turns a call is saving
    doomed,          \* the files a call has yet to delete
    overlapped,      \* some call started while another was live
    missedLoad,      \* some call went on without the newest session
    blanked          \* the calls whose turns a summary without text replaced

memory == <<turns, estimatedTokens>>
locals == <<reading, compacted, agentSession, doomed>>
vars == <<memory, running, files, now, pc, locals, overlapped, missedLoad,
          blanked>>

InRun == {"loading", "reading", "working", "compacting", "writing",
          "pruning", "deleting", "skipping"}
Ended == {"done", "ignored", "unpruned", "rejected", "hung", "crashed"}
Live(r) == pc[r] \in InRun

TypeOK ==
    /\ turns \in Seq(Turn)
    /\ estimatedTokens \in Nat
    /\ running \in BOOLEAN
    /\ DOMAIN files \subseteq 0 .. now
    /\ \A f \in DOMAIN files : files[f] \in File
    /\ now \in Nat
    /\ pc \in [Calls -> InRun \cup Ended \cup {"idle"}]
    /\ reading \in [Calls -> Nat]
    /\ compacted \in [Calls -> Seq(Turn)]
    /\ agentSession \in [Calls -> [id : 0 .. now, turns : Seq(Turn)]]
    /\ doomed \in [Calls -> SUBSET (0 .. now)]
    /\ overlapped \in BOOLEAN
    /\ missedLoad \in BOOLEAN
    /\ blanked \subseteq Calls \cup {0}

\* The locals of a call are reset where it uses them last.
NoSession == [id |-> 0, turns |-> <<>>]
Init ==
    /\ turns = <<>>
    /\ estimatedTokens = 0
    /\ running = FALSE
    /\ files \in OldStores
    /\ now = 0
    /\ pc = [r \in Calls |-> "idle"]
    /\ reading = [r \in Calls |-> 0]
    /\ compacted = [r \in Calls |-> <<>>]
    /\ agentSession = [r \in Calls |-> NoSession]
    /\ doomed = [r \in Calls |-> {}]
    /\ overlapped = FALSE
    /\ missedLoad = FALSE
    /\ blanked = {}

Goto(r, where) == pc' = [pc EXCEPT ![r] = where]
Covers(s) == UNION {s[i].of : i \in DOMAIN s}
Newest(F) == CHOOSE f \in F : \A g \in F : g <= f

-----------------------------------------------------------------------------
(* ConversationMemory.  A definition named after a slip of the one that     *)
(* follows it is a mutant of that definition: no specification uses it.     *)

ClearTurnsOnly == turns' = <<>> /\ UNCHANGED estimatedTokens
Clear == turns' = <<>> /\ estimatedTokens' = 0

\* addTurn for each turn of s.
AddTurns(s) ==
    /\ turns' = turns \o s
    /\ estimatedTokens' = estimatedTokens + Len(s)

\* What compactWithSummarizer splices out before it awaits the summarizer.
Spliced(s) == [old  |-> SubSeq(s, 1, Len(s) - 2),
               kept |-> SubSeq(s, Len(s) - 1, Len(s))]

\* The summarizer's answer stands for the turns it was given; an answer without
\* text (the provider may report a broken stream as a complete one) is replaced
\* by the sentence "Prior work completed.", which stands for none of them.
SummaryOf(s) == [summary |-> TRUE, of |-> Covers(s)]
NoSummary == [summary |-> TRUE, of |-> {}]

\* The summary goes back in front of whatever the memory holds by then.
RestoreNothing(s, summary) == UNCHANGED turns /\ estimatedTokens' = Len(turns)
RestoreByDifference(s, summary) ==
    /\ turns' = <<summary>> \o turns
    /\ estimatedTokens' = estimatedTokens - Len(s) + 1
RestoreAtTheEnd(s, summary) ==
    /\ turns' = Append(turns, summary)
    /\ estimatedTokens' = Len(turns) + 1
Restore(s, summary) ==
    /\ turns' = <<summary>> \o turns
    /\ estimatedTokens' = Len(turns) + 1

-----------------------------------------------------------------------------
(* MemoryStore                                                              *)

\* _parseSession: nothing when the first line does not parse; in the format
\* of a line for each turn the later lines that do not parse are dropped.
Readable(f) == IF f.lines = <<>> THEN ~f.legacy ELSE f.lines[1] # Bad
Parse(f) == Without(f.lines, {Bad})

\* _pruneOldSessions: all but the MAX_HISTORY_FILES last names.
OutdatedOneLess(F) ==
    {f \in F : Cardinality({g \in F : g > f}) > MaxHistoryFiles}
OutdatedFromTheTop(F) ==
    {f \in F : Cardinality({g \in F : g < f}) >= MaxHistoryFiles}
Outdated(F) == {f \in F : Cardinality({g \in F : g > f}) >= MaxHistoryFiles}

Written(f, content) ==
    [g \in DOMAIN files \cup {f} |-> IF g = f THEN content ELSE files[g]]
Deleted(f) == [g \in DOMAIN files \ {f} |-> files[g]]

-----------------------------------------------------------------------------
(* run()                                                                    *)

NextCall(r) ==
    /\ pc[r] = "idle"
    /\ \A q \in Calls : q < r => pc[q] # "idle"
    /\ Cardinality({q \in Calls : Live(q)}) < MaxLive

\* The entry of run(): guard, clearHistory, status.
Run(r) ==
    /\ NextCall(r)
    /\ ~running
    /\ Clear
    /\ running' = TRUE
    /\ Goto(r, "loading")
    /\ overlapped' = (overlapped \/ \E q \in Calls : Live(q))
    /\ UNCHANGED <<files, now, locals, missedLoad, blanked>>

RunIgnored(r) ==
    /\ NextCall(r)
    /\ running
    /\ Goto(r, "ignored")
    /\ UNCHANGED <<memory, running, files, now, locals, overlapped, missedLoad,
                   blanked>>

\* loadLastSession, first await: resolve lists the directory or throws.
ListSessions(r) ==
    /\ pc[r] = "loading"
    /\ \/ /\ files # <<>>
          /\ reading' = [reading EXCEPT ![r] = Newest(DOMAIN files)]
          /\ Goto(r, "reading")
          /\ UNCHANGED missedLoad
       \/ /\ Goto(r, "working")
          /\ missedLoad' = (missedLoad \/ files # <<>>)
          /\ UNCHANGED reading
    /\ UNCHANGED <<memory, running, files, now, compacted, agentSession, doomed,
                   overlapped, blanked>>

\* Second await: the file may be gone or unreadable by now, and what is read
\* may not parse.  There is no second try with an older file.
ReadSession(r) ==
    /\ pc[r] = "reading"
    /\ Goto(r, "working")
    /\ reading' = [reading EXCEPT ![r] = 0]
    /\ \/ /\ reading[r] \in DOMAIN files
          /\ Readable(files[reading[r]])
          /\ AddTurns(Parse(files[reading[r]]))
          /\ UNCHANGED missedLoad
       \/ /\ missedLoad' = TRUE
          /\ UNCHANGED memory
    /\ UNCHANGED <<running, files, now, compacted, agentSession, doomed,
                   overlapped, blanked>>

\* After a tool: compactWithSummarizer up to its await.
StartCompaction(r) ==
    /\ pc[r] = "working"
    /\ estimatedTokens > MaxUnits
    /\ Len(turns) > 2
    /\ compacted' = [compacted EXCEPT ![r] = Spliced(turns).old]
    /\ turns' = Spliced(turns).kept
    /\ Goto(r, "compacting")
    /\ UNCHANGED <<estimatedTokens, running, files, now, reading, agentSession,
                   doomed, overlapped, missedLoad, blanked>>

CompactionDone(r) ==
    /\ pc[r] = "compacting"
    /\ \/ /\ Restore(compacted[r], SummaryOf(compacted[r]))
          /\ UNCHANGED blanked
       \/ /\ Restore(compacted[r], NoSummary)
          /\ blanked' = blanked \cup Covers(compacted[r])
    /\ compacted' = [compacted EXCEPT ![r] = <<>>]
    /\ Goto(r, "working")
    /\ UNCHANGED <<running, files, now, reading, agentSession, doomed,
                   overlapped, missedLoad>>

\* The call fails in the loop or in the summarizer: it neither saves nor
\* gives the spliced turns back.  Some failures leave the status "running".
Fail(r) ==
    /\ pc[r] \in {"working", "compacting"}
    /\ Goto(r, "rejected")
    /\ running' \in BOOLEAN
    /\ running' => running
    /\ compacted' = [compacted EXCEPT ![r] = <<>>]
    /\ UNCHANGED <<memory, files, now, reading, agentSession, doomed,
                   overlapped, missedLoad, blanked>>

\* The session record, built in one go after the loop with the memory as it
\* is then.  Two calls may build theirs in the same millisecond.
FinishLoop(r, s) ==
    \E id \in {now, now + 1} :
        /\ id = now => \E q \in Calls :
                           pc[q] = "writing" /\ agentSession[q].id = id
        /\ now' = id
        /\ agentSession' = [agentSession EXCEPT ![r] = [id |-> id, turns |-> s]]
        /\ running' = FALSE
        /\ Goto(r, "writing")

\* The model ends its turn.
EndTurn(r) ==
    /\ pc[r] = "working"
    /\ running
    /\ AddTurns(<<Spoken(r)>>)
    /\ FinishLoop(r, Append(turns, Spoken(r)))
    /\ UNCHANGED <<files, reading, compacted, doomed, overlapped, missedLoad,
                   blanked>>

\* The loop ends without one: stopped, out of steps, or the plan rejected.
EndLoop(r) ==
    /\ pc[r] = "working"
    /\ FinishLoop(r, turns)
    /\ UNCHANGED <<memory, files, reading, compacted, doomed, overlapped,
                   missedLoad, blanked>>

\* saveSessionFull: the write succeeds or fails, with or without a torn file.
WriteSession(r) ==
    /\ pc[r] = "writing"
    /\ \/ /\ files' = Written(agentSession[r].id,
                              [legacy |-> FALSE,
                               lines |-> agentSession[r].turns])
          /\ Goto(r, "pruning")
       \/ /\ files' \in {files, Written(agentSession[r].id, TornFile)}
          /\ Goto(r, "unpruned")
    /\ agentSession' = [agentSession EXCEPT ![r] = NoSession]
    /\ UNCHANGED <<memory, running, now, reading, compacted, doomed,
                   overlapped, missedLoad, blanked>>

\* _pruneOldSessions, first await.
ListForPrune(r) ==
    /\ pc[r] = "pruning"
    /\ \/ /\ doomed' = [doomed EXCEPT ![r] = Outdated(DOMAIN files)]
          /\ Goto(r, IF doomed'[r] = {} THEN "done" ELSE "deleting")
       \/ Goto(r, "unpruned") /\ UNCHANGED doomed
    /\ UNCHANGED <<memory, running, files, now, reading, compacted,
                   agentSession, overlapped, missedLoad, blanked>>

\* One file after the other, oldest first; a failed deletion is passed over
\* ("skipping" remembers one), and so is a file that is gone by now.
DeleteOldest(r) ==
    /\ pc[r] \in {"deleting", "skipping"}
    /\ \E f \in doomed[r] :
        LET after(mode) == IF doomed[r] # {f} THEN mode
                           ELSE IF mode = "deleting" THEN "done" ELSE "unpruned"
        IN  /\ \A g \in doomed[r] : f <= g
            /\ doomed' = [doomed EXCEPT ![r] = @ \ {f}]
            /\ \/ files' = Deleted(f) /\ Goto(r, after(pc[r]))
               \/ files' = files /\ Goto(r, after("skipping"))
    /\ UNCHANGED <<memory, running, now, reading, compacted, agentSession,
                   overlapped, missedLoad, blanked>>

-----------------------------------------------------------------------------
\* stop(): the stream a call awaits, if the shared controller is its own,
\* never comes back.
Stop ==
    /\ \E r \in Calls : Live(r) \/ pc[r] = "hung"
    /\ running' = FALSE
    /\ \/ UNCHANGED <<pc, compacted>>
       \/ \E r \in Calls : /\ pc[r] \in {"working", "compacting"}
                          /\ Goto(r, "hung")
                          /\ compacted' = [compacted EXCEPT ![r] = <<>>]
    /\ UNCHANGED <<memory, files, now, reading, agentSession, doomed,
                   overlapped, missedLoad, blanked>>

\* The process dies and is started again.  What was being written may be torn.
Crash ==
    /\ \E r \in Calls : Live(r) \/ pc[r] = "hung"
    /\ \E torn \in SUBSET
                {agentSession[r].id : r \in {q \in Calls : pc[q] = "writing"}} :
        files' = [f \in DOMAIN files \cup torn |->
                     IF f \in torn THEN TornFile ELSE files[f]]
    /\ turns' = <<>>
    /\ estimatedTokens' = 0
    /\ running' = FALSE
    /\ pc' = [r \in Calls |->
                  IF Live(r) \/ pc[r] = "hung" THEN "crashed" ELSE pc[r]]
    /\ reading' = [r \in Calls |-> 0]
    /\ compacted' = [r \in Calls |-> <<>>]
    /\ agentSession' = [r \in Calls |-> NoSession]
    /\ doomed' = [r \in Calls |-> {}]
    /\ UNCHANGED <<now, overlapped, missedLoad, blanked>>

Step(r) ==
    \/ Run(r)
    \/ RunIgnored(r)
    \/ ListSessions(r)
    \/ ReadSession(r)
    \/ StartCompaction(r)
    \/ CompactionDone(r)
    \/ Fail(r)
    \/ EndTurn(r)
    \/ EndLoop(r)
    \/ WriteSession(r)
    \/ ListForPrune(r)
    \/ DeleteOldest(r)

Next == (\E r \in Calls : Step(r)) \/ Stop \/ Crash

Spec == Init /\ [][Next]_vars

-----------------------------------------------------------------------------
(* Properties                                                               *)

\* Calls that do not overlap, and every load got the newest session: the
\* newest readable session stands for every turn any readable session on disk
\* stands for, whatever was compacted, pruned, torn, stopped or crashed since.
\* Only a summary that came back without text loses turns, and those it
\* replaced, no others.
NothingForgotten ==
    LET readable == {f \in DOMAIN files : Readable(files[f])}
    IN  ~overlapped /\ ~missedLoad =>
            \A f \in readable :
                Covers(Parse(files[f])) \subseteq
                    Covers(Parse(files[Newest(readable)])) \cup blanked

\* Calls that do not overlap: the conversation is in the order it was held and
\* has nothing twice, across loads, compactions and restarts; a summary stands
\* first and the two turns before a compaction follow it as they were.
InOrder ==
    ~overlapped =>
        /\ \A i, j \in DOMAIN turns :
               i < j => \A a \in turns[i].of, b \in turns[j].of :
                           a < b \/ (a = 0 /\ b = 0)
        /\ \A i \in DOMAIN turns :
               turns[i].summary => i = 1 /\ Len(turns) >= 3

\* The estimate that triggers compaction is the size of the memory, except
\* while a compaction is under way and after one that never came back.
EstimateIsSize ==
    \/ estimatedTokens = Len(turns)
    \/ /\ estimatedTokens > Len(turns)
       /\ \E r \in Calls : pc[r] \in {"compacting", "rejected", "hung"}

\* Pruning, also by calls that prune at the same time or die in the middle,
\* leaves a file at least as new as any it deletes; so the newest survives.
NewestSurvives ==
    [][\A f \in DOMAIN files : \E g \in DOMAIN files' : g >= f]_vars

\* The history is bounded: beyond MAX_HISTORY_FILES there is at most one file
\* for each call whose pruning has not ended or did not succeed.
HistoryBounded ==
    Cardinality(DOMAIN files) <= MaxHistoryFiles +
        Cardinality({r \in Calls : pc[r] \in
            {"pruning", "deleting", "skipping", "unpruned", "crashed"}})

=============================================================================
