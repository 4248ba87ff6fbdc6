-------------------------- MODULE PatchEngineProofs --------------------------
(***************************************************************************)
(* What hunks, rejects and rollbacks guarantee for any texts, any number   *)
(* of edits and rejects, and any failures of reading and writing: that a   *)
(* rejected hunk was reversed, and once; where a hunk's text stands in the *)
(* file; what rejecting a write_file and rolling back a failed tool give   *)
(* back.  Between them, the lemmas about texts this rests on: the lines of *)
(* a text put together from others, and what the tools make of one.        *)
(***************************************************************************)
EXTENDS PatchEngine, SubsequencesProofs, SequenceTheorems, FunctionTheorems

\* The places a call can be at.
Places == {"idle", "snapshot", "read", "write", "written", "rollback", "done", "restored"}

\* The groups and their history grow together; a hunk has a status; a reject
\* under way is about a group, which it has reversed once it has written.
Shape ==
    /\ \E S : groups \in Seq(S)
    /\ undone \in Seq(Nat)
    /\ Len(undone) = Len(groups)
    /\ \A n \in DOMAIN groups : "status" \in DOMAIN groups[n]
    /\ pc \in [Calls -> Places]
    /\ target \in [Rejects -> Nat]

UnderWayReversed ==
    \A c \in Rejects :
        /\ Rejecting(c) => target[c] \in DOMAIN groups
        /\ pc[c] = "written" => undone[target[c]] > 0

Inv == Shape /\ UnderWayReversed /\ RejectedWasReversed

LEMMA InitInv == Init => Inv
<1> SUFFICES ASSUME Init PROVE Inv
  OBVIOUS
<1>1. groups \in Seq({}) /\ undone \in Seq(Nat) /\ Len(undone) = Len(groups)
  BY DEF Init
<1>2. pc \in [Calls -> Places] /\ target \in [Rejects -> Nat]
  BY DEF Init, Places
<1>3. DOMAIN groups = {}
  BY DEF Init
<1>4. \A c \in Rejects : pc[c] = "idle"
  BY DEF Init, Calls
<1> QED
  BY <1>1, <1>2, <1>3, <1>4 DEF Inv, Shape, UnderWayReversed, RejectedWasReversed,
     Rejecting

\* What most steps are to these variables: a call moves on, and a reject that
\* was not under way, or had not written, has still not written.
LEMMA MoveKeeps ==
    ASSUME Inv, NEW c \in Calls, NEW at \in Places, Goto(c, at),
           UNCHANGED <<groups, undone, target>>,
           c \in Rejects => /\ at # "written"
                            /\ at \in {"read", "write"} => Rejecting(c)
    PROVE  Inv'
<1>1. pc' \in [Calls -> Places]
  BY DEF Inv, Shape, Goto
<1>2. \A d \in Calls : pc'[d] = IF d = c THEN at ELSE pc[d]
  BY DEF Inv, Shape, Goto
<1>3. Shape'
  BY <1>1 DEF Inv, Shape
<1>4. UnderWayReversed'
  BY <1>2 DEF Inv, UnderWayReversed, Rejecting, Calls
<1> QED
  BY <1>3, <1>4 DEF Inv, RejectedWasReversed

\* An edit moves and records nothing.
LEMMA EditKeeps ==
    ASSUME Inv, NEW e \in Edits, Edit(e), ~Record(e)
    PROVE  Inv'
<1>1. e \in Calls /\ e \notin Rejects
  BY TextAssumption DEF Calls
<1>2. UNCHANGED <<groups, undone, target>>
  BY DEF Edit, Begin, TakeSnapshot, Cancelled, Refused, ReadFile, WriteFile,
     WriteFileFails, NothingToRollback, Rollback, history
<1>3. \E at \in Places : Goto(e, at)
  <2>1. CASE Begin(e)
    BY <2>1 DEF Begin, Places
  <2>2. CASE TakeSnapshot(e)
    BY <2>2 DEF TakeSnapshot, Places
  <2>3. CASE Cancelled(e)
    BY <2>3 DEF Cancelled, Finish, Places
  <2>4. CASE Refused(e)
    BY <2>4 DEF Refused, Places
  <2>5. CASE ReadFile(e)
    BY <2>5 DEF ReadFile, Places
  <2>6. CASE WriteFile(e)
    BY <2>6 DEF WriteFile, Places
  <2>7. CASE WriteFileFails(e)
    BY <2>7 DEF WriteFileFails, Places
  <2>8. CASE NothingToRollback(e)
    BY <2>8 DEF NothingToRollback, Finish, Places
  <2>9. CASE Rollback(e)
    BY <2>9 DEF Rollback, Finish, Places
  <2> QED
    BY <2>1, <2>2, <2>3, <2>4, <2>5, <2>6, <2>7, <2>8, <2>9 DEF Edit
<1> QED
  BY <1>1, <1>2, <1>3, MoveKeeps

\* A new group starts as "applied", and moves no other.
LEMMA RecordKeeps ==
    ASSUME Inv, NEW e \in Edits, Record(e)
    PROVE  Inv'
<1> DEFINE h == Hunk(e, content[e])
<1>1. PICK S : groups \in Seq(S)
  BY DEF Inv, Shape
<1>2. groups \in Seq(S \cup {h}) /\ h \in S \cup {h}
  BY <1>1
<1>3. /\ groups' = Append(groups, h)
      /\ undone' = Append(undone, 0)
  BY DEF Record
<1> HIDE DEF h
<1>4. /\ groups' \in Seq(S \cup {h})
      /\ Len(groups') = Len(groups) + 1
      /\ \A n \in DOMAIN groups : groups'[n] = groups[n]
      /\ groups'[Len(groups) + 1] = h
      /\ DOMAIN groups' = DOMAIN groups \cup {Len(groups) + 1}
  BY <1>2, <1>3
<1>5. /\ undone' \in Seq(Nat)
      /\ Len(undone') = Len(undone) + 1
      /\ \A n \in DOMAIN groups : undone'[n] = undone[n]
  BY <1>1, <1>3 DEF Inv, Shape
<1>6. "status" \in DOMAIN h /\ h.status = "applied"
  BY DEF h, Hunk
<1>7. pc' \in [Calls -> Places] /\ target' = target
      /\ \A c \in Rejects : pc'[c] = pc[c]
  BY TextAssumption DEF Inv, Shape, Record, Finish, Goto, Calls, Places
<1>8. Shape'
  BY <1>4, <1>5, <1>6, <1>7 DEF Inv, Shape
<1>9. UnderWayReversed'
  BY <1>4, <1>5, <1>7 DEF Inv, UnderWayReversed, Rejecting
<1>10. RejectedWasReversed'
  BY <1>4, <1>5, <1>6 DEF Inv, RejectedWasReversed
<1> QED
  BY <1>8, <1>9, <1>10 DEF Inv

\* Marking a group that has been reversed.
LEMMA SetRejectedKeeps ==
    ASSUME Shape, NEW n \in DOMAIN groups, SetRejected(n)
    PROVE  /\ \E S : groups' \in Seq(S)
           /\ Len(groups') = Len(groups) /\ DOMAIN groups' = DOMAIN groups
           /\ \A m \in DOMAIN groups : "status" \in DOMAIN groups'[m]
           /\ \A m \in DOMAIN groups \ {n} : groups'[m] = groups[m]
<1> DEFINE h == [groups[n] EXCEPT !.status = "rejected"]
<1>1. PICK S : groups \in Seq(S)
  BY DEF Shape
<1>2. groups' = [groups EXCEPT ![n] = h]
  BY DEF SetRejected, MarkRejected
<1>3. "status" \in DOMAIN h
  BY DEF Shape
<1> HIDE DEF h
<1>4. groups \in Seq(S \cup {h})
  BY <1>1
<1>5. groups' \in Seq(S \cup {h}) /\ Len(groups') = Len(groups)
      /\ DOMAIN groups' = DOMAIN groups
  BY <1>2, <1>4
<1>6. \A m \in DOMAIN groups : groups'[m] = IF m = n THEN h ELSE groups[m]
  BY <1>1, <1>2
<1> QED
  BY <1>3, <1>5, <1>6 DEF Shape

LEMMA UndoCounts ==
    ASSUME Shape, NEW n \in DOMAIN groups, Undo(n)
    PROVE  /\ undone' \in Seq(Nat) /\ Len(undone') = Len(undone)
           /\ undone'[n] > 0
           /\ \A m \in DOMAIN groups : undone[m] > 0 => undone'[m] > 0
<1>1. DOMAIN groups = DOMAIN undone
  BY DEF Shape
<1>2. undone[n] \in Nat
  BY <1>1 DEF Shape
<1> QED
  BY <1>1, <1>2 DEF Undo, Shape

LEMMA RejectKeeps ==
    ASSUME Inv, NEW c \in Rejects, Reject(c)
    PROVE  Inv'
<1>0. c \in Calls /\ pc \in [Calls -> Places] /\ target \in [Rejects -> Nat]
  BY DEF Calls, Inv, Shape
<1>1. ASSUME NEW n \in DOMAIN groups, RejectInEditor(c, n)
      PROVE  Inv'
  <2>1. SetRejected(n) /\ Undo(n) /\ target' = target /\ Goto(c, "done")
    BY <1>1 DEF RejectInEditor
  <2>2. pc' \in [Calls -> Places]
        /\ \A d \in Rejects : pc'[d] = IF d = c THEN "done" ELSE pc[d]
    BY <1>0, <2>1 DEF Goto, Calls, Places
  <2>3. Shape'
    BY <2>1, <2>2, SetRejectedKeeps, UndoCounts DEF Inv, Shape
  <2>4. UnderWayReversed'
    BY <2>1, <2>2, SetRejectedKeeps, UndoCounts DEF Inv, UnderWayReversed, Rejecting
  <2>5. RejectedWasReversed'
    BY <2>1, SetRejectedKeeps, UndoCounts DEF Inv, RejectedWasReversed
  <2> QED
    BY <2>3, <2>4, <2>5 DEF Inv
<1>2. ASSUME NEW n \in DOMAIN groups, RejectOnDisk(c, n)
      PROVE  Inv'
  <2>1. /\ UNCHANGED <<groups, undone>> /\ Goto(c, "read")
        /\ target' = [target EXCEPT ![c] = n]
    BY <1>2 DEF RejectOnDisk
  <2>2. n \in Nat
    BY DEF Inv, Shape
  <2>3. pc' \in [Calls -> Places] /\ target' \in [Rejects -> Nat]
        /\ \A d \in Rejects : /\ pc'[d] = IF d = c THEN "read" ELSE pc[d]
                              /\ target'[d] = IF d = c THEN n ELSE target[d]
    BY <1>0, <2>1, <2>2 DEF Goto, Calls, Places
  <2>4. Shape'
    BY <2>1, <2>3 DEF Inv, Shape
  <2>5. UnderWayReversed'
    BY <2>1, <2>3 DEF Inv, UnderWayReversed, Rejecting
  <2> QED
    BY <2>1, <2>4, <2>5 DEF Inv, RejectedWasReversed
<1>3. CASE RejectReads(c)
  <2>1. UNCHANGED <<groups, undone, target>> /\ Rejecting(c)
    BY <1>3 DEF RejectReads, Rejecting, history
  <2>2. Goto(c, "done") \/ Goto(c, "write")
    BY <1>3 DEF RejectReads, AfterFailure
  <2> QED
    BY <1>0, <2>1, <2>2, MoveKeeps DEF Places
<1>4. CASE RejectWrites(c)
  <2>1. /\ pc[c] = "write" /\ Undo(target[c]) /\ Goto(c, "written")
        /\ UNCHANGED <<groups, target>>
    BY <1>4 DEF RejectWrites
  <2>2. target[c] \in DOMAIN groups
    BY <2>1 DEF Inv, UnderWayReversed, Rejecting
  <2>3. pc' \in [Calls -> Places]
        /\ \A d \in Rejects : pc'[d] = IF d = c THEN "written" ELSE pc[d]
    BY <1>0, <2>1 DEF Goto, Calls, Places
  <2>4. Shape'
    BY <2>1, <2>2, <2>3, UndoCounts DEF Inv, Shape
  <2>5. UnderWayReversed'
    BY <2>1, <2>2, <2>3, UndoCounts DEF Inv, UnderWayReversed, Rejecting
  <2>6. RejectedWasReversed'
    BY <2>1, <2>2, UndoCounts DEF Inv, RejectedWasReversed
  <2> QED
    BY <2>4, <2>5, <2>6 DEF Inv
<1>5. CASE RejectFails(c)
  BY <1>0, <1>5, MoveKeeps DEF RejectFails, AfterFailure, Places
<1>6. CASE RejectSettles(c)
  <2>1. /\ pc[c] = "written" /\ SetRejected(target[c]) /\ Goto(c, "done")
        /\ undone' = undone /\ target' = [target EXCEPT ![c] = 0]
    BY <1>6 DEF RejectSettles, history
  <2>2. target[c] \in DOMAIN groups /\ undone[target[c]] > 0
    BY <2>1 DEF Inv, UnderWayReversed, Rejecting
  <2>3. pc' \in [Calls -> Places] /\ target' \in [Rejects -> Nat]
        /\ pc'[c] = "done"
        /\ \A d \in Rejects \ {c} : pc'[d] = pc[d] /\ target'[d] = target[d]
    BY <1>0, <2>1 DEF Goto, Calls, Places
  <2>4. Shape'
    BY <2>1, <2>2, <2>3, SetRejectedKeeps DEF Inv, Shape
  <2>5. UnderWayReversed'
    BY <2>1, <2>2, <2>3, SetRejectedKeeps DEF Inv, UnderWayReversed, Rejecting
  <2>6. RejectedWasReversed'
    BY <2>1, <2>2, SetRejectedKeeps DEF Inv, RejectedWasReversed
  <2> QED
    BY <2>4, <2>5, <2>6 DEF Inv
<1> QED
  BY <1>1, <1>2, <1>3, <1>4, <1>5, <1>6 DEF Reject

\* The user and the editor touch none of these variables.
LEMMA OthersKeep ==
    ASSUME Inv, User \/ UNCHANGED vars
    PROVE  Inv'
<1>1. UNCHANGED <<groups, undone, target, pc>>
  BY DEF User, Open, Type, Save, Reload, Close, UserLeaves, vars, history
<1> QED
  BY <1>1 DEF Inv, Shape, UnderWayReversed, RejectedWasReversed, Rejecting

LEMMA InvHolds == Spec => []Inv
<1>1. Inv /\ [Next]_vars => Inv'
  BY EditKeeps, RecordKeeps, RejectKeeps, OthersKeep DEF Next
<1> QED
  BY InitInv, <1>1, PTL DEF Spec

\* A hunk says "rejected" only after it has been reversed, for any texts, any
\* overlapping rejects and edits, and any failed reads and writes.
THEOREM RejectedReversed == Spec => []RejectedWasReversed
<1>1. Inv => RejectedWasReversed
  BY DEF Inv
<1> QED
  BY InvHolds, <1>1, PTL

-----------------------------------------------------------------------------
(* Texts: lines of a text put together from others.                         *)

NewLines(s) == {k \in DOMAIN s : s[k] = NL}

LEMMA LineCountIs ==
    ASSUME NEW s \in Texts
    PROVE  /\ IsFiniteSet(NewLines(s))
           /\ Cardinality(NewLines(s)) \in Nat
           /\ LineCount(s) = 1 + Cardinality(NewLines(s))
           /\ LineCount(s) \in Nat \ {0}
<1>1. DOMAIN s = 1 .. Len(s) /\ Len(s) \in Nat
  BY DEF Texts
<1>2. IsFiniteSet(1 .. Len(s))
  BY <1>1, FS_Interval
<1>3. NewLines(s) \in SUBSET (1 .. Len(s))
  BY <1>1 DEF NewLines
<1>4. IsFiniteSet(NewLines(s)) /\ Cardinality(NewLines(s)) \in Nat
  BY <1>2, <1>3, FS_Subset, FS_CardinalityType
<1>5. LineCount(s) = 1 + Cardinality(NewLines(s))
  BY DEF LineCount, NewLines
<1> QED
  BY <1>4, <1>5

LEMMA ConcatText ==
    ASSUME NEW s \in Texts, NEW t \in Texts
    PROVE  /\ s \o t \in Texts
           /\ Len(s \o t) = Len(s) + Len(t)
           /\ \A i \in 1 .. Len(s) + Len(t) :
                  (s \o t)[i] = IF i <= Len(s) THEN s[i] ELSE t[i - Len(s)]
BY ConcatProperties DEF Texts

LEMMA ThreeTexts ==
    ASSUME NEW s \in Texts, NEW t \in Texts, NEW u \in Texts
    PROVE  (s \o t) \o u = s \o (t \o u)
BY ConcatAssociative DEF Texts

\* The lines of two texts put together: the last of one and the first of the
\* other become one.
LEMMA LinesOfConcat ==
    ASSUME NEW s \in Texts, NEW t \in Texts
    PROVE  LineCount(s \o t) = LineCount(s) + LineCount(t) - 1
<1>0. Len(s) \in Nat /\ Len(t) \in Nat
      /\ DOMAIN s = 1 .. Len(s) /\ DOMAIN t = 1 .. Len(t)
  BY DEF Texts
<1>1. PICK u \in Texts : u = s \o t
  BY ConcatText
<1>2. /\ Len(u) = Len(s) + Len(t)
      /\ \A i \in 1 .. Len(s) + Len(t) :
             u[i] = IF i <= Len(s) THEN s[i] ELSE t[i - Len(s)]
  BY <1>1, ConcatText
<1>3. DOMAIN u = 1 .. Len(s) + Len(t)
  BY <1>2 DEF Texts
<1> DEFINE shift == [k \in NewLines(t) |-> k + Len(s)]
           A == NewLines(s)
           B == {k + Len(s) : k \in NewLines(t)}
<1>4. A \subseteq 1 .. Len(s) /\ NewLines(t) \subseteq 1 .. Len(t)
  BY <1>0 DEF NewLines
<1>5. NewLines(u) = A \cup B
  <2>1. ASSUME NEW k \in NewLines(u)
        PROVE  k \in A \cup B
    <3>1. k \in 1 .. Len(s) + Len(t) /\ u[k] = NL
      BY <1>3 DEF NewLines
    <3>2. CASE k <= Len(s)
      BY <1>0, <1>2, <3>1, <3>2 DEF NewLines
    <3>3. CASE k > Len(s)
      <4>1. k - Len(s) \in 1 .. Len(t) /\ t[k - Len(s)] = NL
        BY <1>0, <1>2, <3>1, <3>3
      <4>2. k - Len(s) \in NewLines(t)
        BY <1>0, <4>1 DEF NewLines
      <4>3. k = (k - Len(s)) + Len(s)
        BY <1>0, <3>1
      <4> QED
        BY <4>2, <4>3
    <3> QED
      BY <1>0, <3>1, <3>2, <3>3
  <2>2. ASSUME NEW k \in A
        PROVE  k \in NewLines(u)
    <3>1. k \in 1 .. Len(s) /\ s[k] = NL
      BY <1>0 DEF NewLines
    <3>2. k \in 1 .. Len(s) + Len(t) /\ u[k] = NL
      BY <1>0, <1>2, <3>1
    <3> QED
      BY <1>3, <3>2 DEF NewLines
  <2>3. ASSUME NEW k \in NewLines(t)
        PROVE  k + Len(s) \in NewLines(u)
    <3>1. k \in 1 .. Len(t) /\ t[k] = NL
      BY <1>0 DEF NewLines
    <3>2. k + Len(s) \in 1 .. Len(s) + Len(t) /\ ~(k + Len(s) <= Len(s))
          /\ (k + Len(s)) - Len(s) = k
      BY <1>0, <3>1
    <3>3. u[k + Len(s)] = NL
      BY <1>2, <3>1, <3>2
    <3> QED
      BY <1>3, <3>2, <3>3 DEF NewLines
  <2> QED
    BY <2>1, <2>2, <2>3
<1>6. /\ IsFiniteSet(A) /\ IsFiniteSet(NewLines(t))
      /\ Cardinality(A) \in Nat /\ Cardinality(NewLines(t)) \in Nat
  BY LineCountIs
<1>7. ExistsBijection(NewLines(t), B)
  <2>1. shift \in [NewLines(t) -> B]
    OBVIOUS
  <2>2. \A x, y \in NewLines(t) : shift[x] = shift[y] => x = y
    BY <1>0, <1>4
  <2>3. \A y \in B : \E x \in NewLines(t) : shift[x] = y
    OBVIOUS
  <2>4. shift \in Bijection(NewLines(t), B)
    <3> HIDE DEF shift, B
    <3> QED
      BY <2>1, <2>2, <2>3, Fun_IsBij
  <2> HIDE DEF shift, B
  <2> QED
    BY <2>4, Fun_ExistsBij
<1>8. IsFiniteSet(B) /\ Cardinality(B) = Cardinality(NewLines(t))
  <2> HIDE DEF B
  <2> QED
    BY <1>6, <1>7, FS_Bijection
<1>9. A \cap B = {}
  BY <1>0, <1>4
<1>10. Cardinality(A \cup B) = Cardinality(A) + Cardinality(B)
  <2> HIDE DEF A, B
  <2>1. Cardinality(A \cup B)
          = Cardinality(A) + Cardinality(B) - Cardinality({})
    BY <1>6, <1>8, <1>9, FS_Union
  <2> QED
    BY <1>6, <1>8, <2>1, FS_EmptySet
<1>11. LineCount(u) = 1 + Cardinality(A \cup B)
  BY <1>5, LineCountIs
<1>12. LineCount(s) = 1 + Cardinality(A) /\ LineCount(t) = 1 + Cardinality(NewLines(t))
  BY LineCountIs
<1> HIDE DEF A, B
<1> QED
  BY <1>1, <1>6, <1>8, <1>10, <1>11, <1>12

LEMMA PartOfText ==
    ASSUME NEW s \in Texts, NEW i \in 0 .. Len(s), NEW j \in i .. Len(s)
    PROVE  /\ SubSeq(s, i + 1, j) \in Texts
           /\ Len(SubSeq(s, i + 1, j)) = j - i
           /\ \A k \in 1 .. j - i : SubSeq(s, i + 1, j)[k] = s[i + k]
<1>0. Len(s) \in Nat /\ i + 1 \in Int /\ j \in Int
  BY DEF Texts
<1>1. \A k \in i + 1 .. j : s[k] \in Words \cup {NL} \cup Marks
  BY <1>0 DEF Texts
<1>2. PICK p : p = SubSeq(s, i + 1, j)
  OBVIOUS
<1>3. /\ p \in Seq(Words \cup {NL} \cup Marks)
      /\ Len(p) = IF i + 1 <= j THEN j - (i + 1) + 1 ELSE 0
      /\ \A k \in 1 .. j - (i + 1) + 1 : p[k] = s[(i + 1) + k - 1]
  BY <1>0, <1>1, <1>2, SubSeqProperties
<1>4. Len(p) = j - i /\ j - (i + 1) + 1 = j - i
  BY <1>0, <1>3
<1>5. \A k \in 1 .. j - i : p[k] = s[i + k]
  BY <1>0, <1>3, <1>4
<1> QED
  BY <1>2, <1>3, <1>4, <1>5 DEF Texts

LEMMA Whole ==
    ASSUME NEW s \in Texts
    PROVE  /\ SubSeq(s, 1, Len(s)) = s
           /\ SubSeq(s, 1, 0) = <<>> /\ SubSeq(s, Len(s) + 1, Len(s)) = <<>>
           /\ <<>> \in Texts /\ <<>> \o s = s /\ s \o <<>> = s
<1>1. Len(s) \in Nat
  BY DEF Texts
<1>2. SubSeq(s, 1, Len(s)) = s
  BY SubSeqFull DEF Texts
<1>3. SubSeq(s, 1, 0) = <<>> /\ SubSeq(s, Len(s) + 1, Len(s)) = <<>>
  BY <1>1, SubSeqEmpty
<1>4. <<>> \in Texts /\ <<>> \o s = s /\ s \o <<>> = s
  BY ConcatEmptySeq, EmptySeq DEF Texts
<1> QED
  BY <1>2, <1>3, <1>4

\* A text cut in two at any place.
LEMMA Cut ==
    ASSUME NEW s \in Texts, NEW k \in 0 .. Len(s)
    PROVE  /\ SubSeq(s, 1, k) \in Texts /\ SubSeq(s, k + 1, Len(s)) \in Texts
           /\ SubSeq(s, 1, k) \o SubSeq(s, k + 1, Len(s)) = s
<1>1. Len(s) \in Nat /\ 0 \in 0 .. Len(s) /\ k \in 0 .. Len(s) /\ Len(s) \in k .. Len(s)
  BY DEF Texts
<1>2. SubSeq(s, 1, k) \in Texts /\ SubSeq(s, k + 1, Len(s)) \in Texts
  <2>1. SubSeq(s, 0 + 1, k) \in Texts
    BY <1>1, PartOfText
  <2> QED
    BY <1>1, <2>1, PartOfText
<1>3. 1 \in 1 .. Len(s) + 1 /\ k \in 1 - 1 .. Len(s)
  BY <1>1
<1>4. SubSeq(s, 1, k) \o SubSeq(s, k + 1, Len(s)) = SubSeq(s, 1, Len(s))
  BY <1>1, <1>3, ConcatAdjacentSubSeq DEF Texts
<1> QED
  BY <1>2, <1>4, Whole

\* No place of a text is on a line beyond its last.
LEMMA LineWithin ==
    ASSUME NEW s \in Texts, NEW k \in 0 .. Len(s)
    PROVE  LineAt(s, k) \in Nat \ {0} /\ LineAt(s, k) <= LineCount(s)
<1>1. PICK p \in Texts, r \in Texts : p = SubSeq(s, 1, k) /\ p \o r = s
  BY Cut
<1>2. LineCount(s) = LineCount(p) + LineCount(r) - 1
  BY <1>1, LinesOfConcat
<1>3. LineCount(p) \in Nat \ {0} /\ LineCount(r) \in Nat \ {0}
  BY LineCountIs
<1>4. LineAt(s, k) = LineCount(p)
  BY <1>1 DEF LineAt
<1> QED
  BY <1>2, <1>3, <1>4

\* What stands between two texts is found behind the first, and the lines it
\* begins and ends on follow from the lines of the parts.
Stands(d, p, m) ==
    /\ Len(p) \in 0 .. Len(d) /\ OccursAt(d, m, Len(p))
    /\ LineAt(d, Len(p)) = LineCount(p)
    /\ LineAt(d, Len(p) + Len(m)) = LineCount(p) + LineCount(m) - 1

LEMMA Located ==
    ASSUME NEW p \in Texts, NEW m \in Texts, NEW r \in Texts,
           NEW d, d = (p \o m) \o r
    PROVE  Stands(d, p, m)
<1>0. Len(p) \in Nat /\ Len(m) \in Nat /\ Len(r) \in Nat
  BY DEF Texts
<1>1. PICK q \in Texts : q = p \o m
  BY ConcatText
<1>2. /\ Len(q) = Len(p) + Len(m)
      /\ \A i \in 1 .. Len(p) + Len(m) :
             q[i] = IF i <= Len(p) THEN p[i] ELSE m[i - Len(p)]
  BY <1>1, ConcatText
<1>3. /\ d \in Texts /\ Len(d) = Len(q) + Len(r)
      /\ \A i \in 1 .. Len(q) + Len(r) :
             d[i] = IF i <= Len(q) THEN q[i] ELSE r[i - Len(q)]
  BY <1>1, ConcatText
<1>4. /\ Len(p) \in 0 .. Len(d) /\ 0 \in 0 .. Len(d)
      /\ Len(p) + Len(m) \in 0 .. Len(d) /\ Len(p) + Len(m) \in Len(p) .. Len(d)
      /\ Len(p) + Len(m) <= Len(d)
  BY <1>0, <1>2, <1>3
<1>5. SubSeq(d, 1, Len(p)) = p
  <2>1. PICK x \in Texts : /\ x = SubSeq(d, 0 + 1, Len(p)) /\ Len(x) = Len(p) - 0
                           /\ \A k \in 1 .. Len(p) - 0 : x[k] = d[0 + k]
    BY <1>3, <1>4, PartOfText
  <2>2. Len(x) = Len(p) /\ \A k \in 1 .. Len(x) : x[k] = p[k]
    BY <1>0, <1>2, <1>3, <2>1
  <2>3. x = p
    BY <2>2, SeqEqual DEF Texts
  <2> QED
    BY <2>1, <2>3
<1>6. SubSeq(d, 1, Len(p) + Len(m)) = q
  <2>1. PICK x \in Texts : /\ x = SubSeq(d, 0 + 1, Len(p) + Len(m))
                           /\ Len(x) = (Len(p) + Len(m)) - 0
                           /\ \A k \in 1 .. (Len(p) + Len(m)) - 0 : x[k] = d[0 + k]
    BY <1>3, <1>4, PartOfText
  <2>2. Len(x) = Len(q) /\ \A k \in 1 .. Len(x) : x[k] = q[k]
    BY <1>0, <1>2, <1>3, <2>1
  <2>3. x = q
    BY <2>2, SeqEqual DEF Texts
  <2> QED
    BY <2>1, <2>3
<1>7. SubSeq(d, Len(p) + 1, Len(p) + Len(m)) = m
  <2>1. PICK x \in Texts : /\ x = SubSeq(d, Len(p) + 1, Len(p) + Len(m))
                           /\ Len(x) = (Len(p) + Len(m)) - Len(p)
                           /\ \A k \in 1 .. (Len(p) + Len(m)) - Len(p) :
                                  x[k] = d[Len(p) + k]
    BY <1>3, <1>4, PartOfText
  <2>2. Len(x) = Len(m)
    BY <1>0, <2>1
  <2>3. ASSUME NEW k \in 1 .. Len(m)
        PROVE  x[k] = m[k]
    <3>1. /\ k \in 1 .. (Len(p) + Len(m)) - Len(p)
          /\ Len(p) + k \in 1 .. Len(p) + Len(m)
          /\ Len(p) + k \in 1 .. Len(q) + Len(r)
          /\ ~(Len(p) + k <= Len(p)) /\ (Len(p) + k) - Len(p) = k
          /\ Len(p) + k <= Len(q)
      BY <1>0, <1>2
    <3>2. q[Len(p) + k] = m[k]
      BY <1>2, <3>1
    <3>3. d[Len(p) + k] = q[Len(p) + k]
      BY <1>3, <3>1
    <3> QED
      BY <2>1, <3>1, <3>2, <3>3
  <2>4. x = m
    BY <2>2, <2>3, SeqEqual DEF Texts
  <2> QED
    BY <2>1, <2>4
<1>8. OccursAt(d, m, Len(p))
  BY <1>4, <1>7 DEF OccursAt
<1>9. LineAt(d, Len(p)) = LineCount(p)
  BY <1>5 DEF LineAt
<1>10. LineAt(d, Len(p) + Len(m)) = LineCount(p) + LineCount(m) - 1
  BY <1>1, <1>6, LinesOfConcat DEF LineAt
<1> QED
  BY <1>4, <1>8, <1>9, <1>10 DEF Stands

-----------------------------------------------------------------------------
(* What the tools make of a text.                                           *)

\* indexOf finds the first place.
LEMMA IndexIs ==
    ASSUME NEW s \in Texts, NEW old, Occurs(s, old)
    PROVE  /\ IndexOf(s, old) \in 0 .. Len(s)
           /\ OccursAt(s, old, IndexOf(s, old))
           /\ \A j \in 0 .. (IndexOf(s, old) - 1) : ~OccursAt(s, old, j)
<1> DEFINE P == {k \in 0 .. Len(s) : OccursAt(s, old, k)}
<1>1. PICK n \in P : \A m \in P : n <= m
  <2>1. P \in SUBSET Nat /\ P # {}
    BY DEF Occurs
  <2> HIDE DEF P
  <2> QED
    BY <2>1, LeastNumber
<1>2. Len(s) \in Nat
  BY DEF Texts
<1>3. ASSUME NEW j \in 0 .. (n - 1)
      PROVE  ~OccursAt(s, old, j)
  <2>1. j \in 0 .. Len(s) /\ ~(n <= j)
    BY <1>2
  <2>2. j \notin P
    <3> HIDE DEF P
    <3> QED
      BY <1>1, <2>1
  <2> QED
    BY <2>1, <2>2
<1>4. \E k \in 0 .. Len(s) : /\ OccursAt(s, old, k)
                             /\ \A j \in 0 .. (k - 1) : ~OccursAt(s, old, j)
  BY <1>3
<1> QED
  BY <1>4 DEF IndexOf

\* The function by which Rewritten is defined, from each place to the end.
FromStep(s, size, piece, g, k) ==
    IF k = Len(s) THEN <<>> ELSE piece[k] \o g[k + size[k]]
From(s, size, piece, g) ==
    g = [k \in 0 .. Len(s) |->
            IF k = Len(s) THEN <<>> ELSE piece[k] \o g[k + size[k]]]

\* Each piece is a text, for one or more elements that are there.
Pieces(s, size, piece) ==
    \A k \in Offsets(s) : /\ piece[k] \in Texts
                          /\ size[k] \in Nat /\ k + size[k] \in k + 1 .. Len(s)

LEMMA FromEquations ==
    ASSUME NEW s \in Texts, NEW size, NEW piece, NEW g
    PROVE  From(s, size, piece, g) <=>
               /\ g = [k \in 0 .. Len(s) |-> g[k]]
               /\ \A k \in 0 .. Len(s) : g[k] = FromStep(s, size, piece, g, k)
<1> DEFINE body(k) == FromStep(s, size, piece, g, k)
<1>1. From(s, size, piece, g) <=> g = [k \in 0 .. Len(s) |-> body(k)]
  BY DEF From, FromStep
<1> HIDE DEF body
<1>2. g = [k \in 0 .. Len(s) |-> body(k)]
        <=> /\ g = [k \in 0 .. Len(s) |-> g[k]]
            /\ \A k \in 0 .. Len(s) : g[k] = body(k)
  OBVIOUS
<1> QED
  BY <1>1, <1>2 DEF body

\* A step looks only at places further on.
LEMMA FromLooksAhead ==
    ASSUME NEW s \in Texts, NEW size, NEW piece, Pieces(s, size, piece),
           NEW g, NEW k \in 0 .. Len(s),
           \A j \in k + 1 .. Len(s) : g[j] \in Texts
    PROVE  /\ FromStep(s, size, piece, g, k) \in Texts
           /\ \A h : (\A j \in k + 1 .. Len(s) : h[j] = g[j])
                => FromStep(s, size, piece, h, k) = FromStep(s, size, piece, g, k)
<1>1. Len(s) \in Nat
  BY DEF Texts
<1>2. CASE k = Len(s)
  BY <1>2, Whole DEF FromStep
<1>3. CASE k # Len(s)
  <2>1. k + size[k] \in k + 1 .. Len(s) /\ piece[k] \in Texts
    BY <1>1, <1>3 DEF Pieces, Offsets
  <2>2. piece[k] \o g[k + size[k]] \in Texts
    BY <2>1, ConcatText
  <2> QED
    BY <1>3, <2>1, <2>2 DEF FromStep
<1> QED
  BY <1>2, <1>3

LEMMA FromExists ==
    ASSUME NEW s \in Texts, NEW size, NEW piece, Pieces(s, size, piece)
    PROVE  \E g : From(s, size, piece, g)
<1> DEFINE Good(g, k) == g[k] = FromStep(s, size, piece, g, k)
           P == {k \in 0 .. Len(s) : \E g \in [0 .. Len(s) -> Texts] :
                    \A j \in k .. Len(s) : Good(g, j)}
<1>0. Len(s) \in Nat /\ <<>> \in Texts
  BY Whole DEF Texts
<1>1. Len(s) \in P
  <2>1. [j \in 0 .. Len(s) |-> <<>>] \in [0 .. Len(s) -> Texts]
    BY <1>0
  <2>2. \A j \in Len(s) .. Len(s) : Good([i \in 0 .. Len(s) |-> <<>>], j)
    BY <1>0 DEF FromStep
  <2> HIDE DEF Good
  <2> QED
    BY <1>0, <2>1, <2>2
<1>2. ASSUME NEW k \in 0 .. Len(s), k < Len(s), \A j \in k + 1 .. Len(s) : j \in P
      PROVE  k \in P
  <2>1. k + 1 \in P
    <3>1. k + 1 \in k + 1 .. Len(s)
      BY <1>0, <1>2
    <3> HIDE DEF P
    <3> QED
      BY <1>2, <3>1
  <2>2. PICK g \in [0 .. Len(s) -> Texts] : \A j \in k + 1 .. Len(s) : Good(g, j)
    BY <2>1
  <2> DEFINE h == [g EXCEPT ![k] = FromStep(s, size, piece, g, k)]
  <2>3. \A j \in k + 1 .. Len(s) : j \in 0 .. Len(s) /\ j # k /\ g[j] \in Texts
    BY <1>0
  <2>4. FromStep(s, size, piece, g, k) \in Texts
    BY <2>3, FromLooksAhead
  <2>5. h \in [0 .. Len(s) -> Texts]
    BY <2>4
  <2>6. \A j \in k + 1 .. Len(s) : h[j] = g[j]
    BY <2>3
  <2>7. ASSUME NEW j \in k .. Len(s)
        PROVE  Good(h, j)
    <3>1. j \in 0 .. Len(s) /\ \A i \in j + 1 .. Len(s) : i \in k + 1 .. Len(s)
      BY <1>0
    <3>2. \A i \in j + 1 .. Len(s) : g[i] \in Texts /\ h[i] = g[i]
      BY <2>3, <2>6, <3>1
    <3> HIDE DEF h
    <3>3. FromStep(s, size, piece, h, j) = FromStep(s, size, piece, g, j)
      BY <3>1, <3>2, FromLooksAhead
    <3>4. h[j] = FromStep(s, size, piece, g, j)
      <4>1. CASE j = k
        BY <4>1 DEF h
      <4>2. CASE j # k
        <5>1. j \in k + 1 .. Len(s)
          BY <1>0, <4>2
        <5> QED
          BY <2>2, <2>6, <5>1
      <4> QED
        BY <4>1, <4>2
    <3> QED
      BY <3>3, <3>4
  <2> HIDE DEF h, Good
  <2> QED
    BY <2>5, <2>7
<1>3. P = 0 .. Len(s)
  <2>1. P \in SUBSET (0 .. Len(s))
    OBVIOUS
  <2> HIDE DEF P
  <2> QED
    BY <1>0, <1>1, <1>2, <2>1, Downwards
<1>4. PICK g \in [0 .. Len(s) -> Texts] : \A j \in 0 .. Len(s) : Good(g, j)
  <2>1. 0 \in P
    BY <1>0, <1>3
  <2> HIDE DEF Good
  <2> QED
    BY <2>1
<1>5. g = [k \in 0 .. Len(s) |-> g[k]]
  OBVIOUS
<1> QED
  BY <1>4, <1>5, FromEquations

LEMMA FromTyped ==
    ASSUME NEW s \in Texts, NEW size, NEW piece, Pieces(s, size, piece),
           NEW g, From(s, size, piece, g)
    PROVE  \A k \in 0 .. Len(s) : g[k] \in Texts
<1> DEFINE P == {k \in 0 .. Len(s) : g[k] \in Texts}
<1>0. Len(s) \in Nat /\ \A k \in 0 .. Len(s) : g[k] = FromStep(s, size, piece, g, k)
  BY FromEquations DEF Texts
<1>1. Len(s) \in P
  <2>1. Len(s) \in 0 .. Len(s)
    BY <1>0
  <2>2. g[Len(s)] = <<>>
    BY <1>0, <2>1 DEF FromStep
  <2> QED
    BY <2>1, <2>2, Whole
<1>2. ASSUME NEW k \in 0 .. Len(s), k < Len(s), \A j \in k + 1 .. Len(s) : j \in P
      PROVE  k \in P
  <2>1. \A j \in k + 1 .. Len(s) : g[j] \in Texts
    BY <1>2
  <2> QED
    BY <1>0, <2>1, FromLooksAhead
<1>3. P = 0 .. Len(s)
  <2>1. P \in SUBSET (0 .. Len(s))
    OBVIOUS
  <2> HIDE DEF P
  <2> QED
    BY <1>0, <1>1, <1>2, <2>1, Downwards
<1> QED
  BY <1>3

\* Up to a place before which every element is its own piece, a text stays as
\* it is.
Same(s, size, piece, k) == size[k] = 1 /\ piece[k] = <<s[k + 1]>>
SameUpTo(s, size, piece, i) == \A k \in 0 .. (i - 1) : Same(s, size, piece, k)
Copies(s, g, i) == g[0] = SubSeq(s, 1, i) \o g[i]

LEMMA FromCopies ==
    ASSUME NEW s \in Texts, NEW size, NEW piece, Pieces(s, size, piece),
           NEW i \in 0 .. Len(s), SameUpTo(s, size, piece, i),
           NEW g, From(s, size, piece, g)
    PROVE  Copies(s, g, i)
<1>0. /\ Len(s) \in Nat /\ i \in Nat
      /\ \A k \in 0 .. Len(s) : g[k] = FromStep(s, size, piece, g, k)
  BY FromEquations DEF Texts
<1>1. PICK u \in Texts : u = g[i]
  <2>1. g[i] \in Texts
    BY FromTyped, Zenon
  <2> QED
    BY <2>1
<1> DEFINE P == {k \in 0 .. i : g[k] = SubSeq(s, k + 1, i) \o u}
<1>2. i \in P
  <2>1. SubSeq(s, i + 1, i) = <<>>
    BY <1>0, SubSeqEmpty
  <2>2. <<>> \o u = u
    BY Whole
  <2>3. i \in 0 .. i
    BY <1>0
  <2>4. g[i] = SubSeq(s, i + 1, i) \o u
    BY <1>1, <2>1, <2>2
  <2> QED
    BY <2>3, <2>4
<1>3. ASSUME NEW k \in 0 .. i, k < i, \A j \in k + 1 .. i : j \in P
      PROVE  k \in P
  <2>1. /\ k \in 0 .. Len(s) /\ k # Len(s) /\ Same(s, size, piece, k)
        /\ k + 1 \in k + 1 .. i /\ k + 1 \in 1 .. Len(s) /\ i \in k + 1 .. Len(s)
        /\ k + 1 \in 0 .. Len(s)
    BY <1>0, <1>3 DEF SameUpTo
  <2>2. g[k] = <<s[k + 1]>> \o g[k + 1]
    BY <1>0, <2>1 DEF FromStep, Same
  <2>3. PICK w \in Texts : w = SubSeq(s, k + 1 + 1, i)
    <3>1. k + 1 \in 0 .. Len(s) /\ i \in k + 1 .. Len(s)
      BY <2>1
    <3> QED
      BY <3>1, PartOfText
  <2>4. g[k + 1] = w \o u
    <3>1. k + 1 \in P
      <4> HIDE DEF P
      <4> QED
        BY <1>3, <2>1
    <3> QED
      BY <2>3, <3>1
  <2>5. SubSeq(s, k + 1, i) = <<s[k + 1]>> \o w
    BY <2>1, <2>3, SubSeqRecursiveFirst DEF Texts
  <2>6. PICK x \in Texts : x = <<s[k + 1]>>
    <3>1. <<s[k + 1]>> \in Texts
      BY <2>1 DEF Texts
    <3> QED
      BY <3>1
  <2>7. (x \o w) \o u = x \o (w \o u)
    BY ThreeTexts
  <2> QED
    BY <2>2, <2>4, <2>5, <2>6, <2>7
<1>4. P = 0 .. i
  <2>1. P \in SUBSET (0 .. i)
    OBVIOUS
  <2> HIDE DEF P
  <2> QED
    BY <1>0, <1>2, <1>3, <2>1, Downwards
<1>5. 0 \in P
  <2> HIDE DEF P
  <2> QED
    BY <1>0, <1>4
<1>6. g[0] = SubSeq(s, 0 + 1, i) \o u
  BY <1>5
<1> QED
  BY <1>1, <1>6 DEF Copies

LEMMA RewrittenIs ==
    ASSUME NEW s \in Texts, NEW size, NEW piece, Pieces(s, size, piece)
    PROVE  \E g : From(s, size, piece, g) /\ Rewritten(s, size, piece) = g[0]
<1> DEFINE f == CHOOSE f : From(s, size, piece, f)
<1>1. From(s, size, piece, f)
  BY FromExists
<1>2. Rewritten(s, size, piece) = f[0]
  BY DEF Rewritten, From
<1> QED
  BY <1>1, <1>2

LEMMA RewrittenTyped ==
    ASSUME NEW s \in Texts, NEW size, NEW piece, Pieces(s, size, piece)
    PROVE  Rewritten(s, size, piece) \in Texts
<1>1. PICK g : From(s, size, piece, g) /\ Rewritten(s, size, piece) = g[0]
  BY RewrittenIs
<1>2. Len(s) \in Nat /\ \A k \in 0 .. Len(s) : g[k] \in Texts
  BY <1>1, FromTyped DEF Texts
<1> QED
  BY <1>1, <1>2

LEMMA ReplaceEachIs ==
    ASSUME NEW s \in Texts, NEW old \in Texts \ {<<>>}, NEW new \in Texts
    PROVE  /\ ReplaceEach(s, old, new) \in Texts
           /\ Occurs(s, old)
                => \E r \in Texts :
                      ReplaceEach(s, old, new)
                        = (SubSeq(s, 1, IndexOf(s, old)) \o new) \o r
<1>0. Len(s) \in Nat /\ Len(old) \in Nat \ {0}
  BY EmptySeq DEF Texts
<1> DEFINE size == [k \in Offsets(s) |-> IF OccursAt(s, old, k) THEN Len(old) ELSE 1]
           piece == [k \in Offsets(s) |-> IF OccursAt(s, old, k) THEN new
                                          ELSE <<s[k + 1]>>]
<1>6. ReplaceEach(s, old, new) = Rewritten(s, size, piece)
  BY DEF ReplaceEach
<1>7. \A k \in Offsets(s) :
          /\ OccursAt(s, old, k) => size[k] = Len(old) /\ piece[k] = new
          /\ ~OccursAt(s, old, k) => Same(s, size, piece, k)
  BY DEF Same
<1> HIDE DEF size, piece
<1>8. Pieces(s, size, piece)
  <2> SUFFICES ASSUME NEW k \in Offsets(s)
               PROVE  /\ piece[k] \in Texts
                      /\ size[k] \in Nat /\ k + size[k] \in k + 1 .. Len(s)
    BY DEF Pieces
  <2>1. CASE OccursAt(s, old, k)
    <3>1. k + Len(old) <= Len(s)
      BY <2>1 DEF OccursAt
    <3>2. k \in Nat /\ k + Len(old) \in k + 1 .. Len(s)
      BY <1>0, <3>1 DEF Offsets
    <3> QED
      BY <1>0, <1>7, <2>1, <3>2
  <2>2. CASE ~OccursAt(s, old, k)
    <3>1. k + 1 \in 1 .. Len(s) /\ k \in Nat
      BY <1>0 DEF Offsets
    <3>2. <<s[k + 1]>> \in Texts
      BY <3>1 DEF Texts
    <3> QED
      BY <1>0, <1>7, <2>2, <3>1, <3>2 DEF Same
  <2> QED
    BY <2>1, <2>2
<1>1. PICK g : From(s, size, piece, g) /\ ReplaceEach(s, old, new) = g[0]
  BY <1>6, <1>8, RewrittenIs
<1>2. ReplaceEach(s, old, new) = g[0]
  BY <1>1
<1>3. \A k \in 0 .. Len(s) : g[k] \in Texts
  BY <1>1, <1>8, FromTyped
<1>4. ASSUME Occurs(s, old)
      PROVE  \E r \in Texts :
                 g[0] = (SubSeq(s, 1, IndexOf(s, old)) \o new) \o r
  <2>1. PICK i \in 0 .. Len(s) : /\ i = IndexOf(s, old) /\ OccursAt(s, old, i)
                                 /\ \A j \in 0 .. (i - 1) : ~OccursAt(s, old, j)
    BY <1>4, IndexIs
  <2>2. g[0] = SubSeq(s, 1, i) \o g[i]
    <3>1. \A j \in 0 .. (i - 1) : j \in Offsets(s)
      BY <1>0 DEF Offsets
    <3>2. SameUpTo(s, size, piece, i)
      BY <1>7, <2>1, <3>1 DEF SameUpTo
    <3>3. Copies(s, g, i)
      BY <1>1, <1>8, <3>2, FromCopies
    <3> QED
      BY <3>3 DEF Copies
  <2>3. i # Len(s) /\ i + Len(old) \in 0 .. Len(s) /\ i \in Offsets(s)
    <3>1. i + Len(old) <= Len(s)
      BY <2>1 DEF OccursAt
    <3> QED
      BY <1>0, <3>1 DEF Offsets
  <2>4. g[i] = new \o g[i + Len(old)]
    <3>1. g[i] = FromStep(s, size, piece, g, i)
      BY <1>1, FromEquations
    <3> QED
      BY <1>7, <2>1, <2>3, <3>1 DEF FromStep
  <2>5. PICK p \in Texts : p = SubSeq(s, 1, i)
    BY Cut
  <2>6. PICK r \in Texts : r = g[i + Len(old)]
    BY <1>3, <2>3
  <2>7. (p \o new) \o r = p \o (new \o r)
    BY ThreeTexts
  <2> QED
    BY <2>1, <2>2, <2>4, <2>5, <2>6, <2>7
<1>5. g[0] \in Texts
  BY <1>0, <1>3
<1> QED
  BY <1>2, <1>4, <1>5

\* What replace puts in is a text, and new itself when it has no pattern.
LEMMA ExpandedIs ==
    ASSUME NEW new \in Texts, NEW left \in Texts, NEW old \in Texts, NEW right \in Texts
    PROVE  /\ Expanded(new, left, old, right) \in Texts
           /\ Literal(new) => Expanded(new, left, old, right) = new
<1> DEFINE size == [k \in Offsets(new) |-> IF PatternAt(new, k) THEN 2 ELSE 1]
           piece == [k \in Offsets(new) |-> IF PatternAt(new, k)
                                            THEN Insertion(new[k + 2], left, old, right)
                                            ELSE <<new[k + 1]>>]
<1>0. Len(new) \in Nat
  BY DEF Texts
<1>1. Expanded(new, left, old, right) = Rewritten(new, size, piece)
  BY DEF Expanded
<1>2. \A k \in Offsets(new) :
          /\ PatternAt(new, k)
               => size[k] = 2 /\ piece[k] = Insertion(new[k + 2], left, old, right)
          /\ ~PatternAt(new, k) => Same(new, size, piece, k)
  BY DEF Same
<1> HIDE DEF size, piece
<1>3. Pieces(new, size, piece)
  <2> SUFFICES ASSUME NEW k \in Offsets(new)
               PROVE  /\ piece[k] \in Texts
                      /\ size[k] \in Nat /\ k + size[k] \in k + 1 .. Len(new)
    BY DEF Pieces
  <2>1. CASE PatternAt(new, k)
    <3>1. new[k + 2] \in Marks
      BY <2>1 DEF PatternAt
    <3>2. <<"$">> \in Texts
      BY DEF Texts, Marks
    <3>3. Insertion(new[k + 2], left, old, right) \in Texts
      BY <3>1, <3>2 DEF Insertion, Marks
    <3>4. k + 2 \in k + 1 .. Len(new)
      BY <1>0, <2>1 DEF PatternAt, Offsets
    <3> QED
      BY <1>2, <2>1, <3>3, <3>4
  <2>2. CASE ~PatternAt(new, k)
    <3>1. k + 1 \in 1 .. Len(new) /\ k \in Nat
      BY <1>0 DEF Offsets
    <3>2. <<new[k + 1]>> \in Texts
      BY <3>1 DEF Texts
    <3> QED
      BY <1>0, <1>2, <2>2, <3>1, <3>2 DEF Same
  <2> QED
    BY <2>1, <2>2
<1>4. ASSUME Literal(new)
      PROVE  Expanded(new, left, old, right) = new
  <2>1. PICK g : From(new, size, piece, g) /\ Rewritten(new, size, piece) = g[0]
    BY <1>3, RewrittenIs
  <2>2. SameUpTo(new, size, piece, Len(new))
    BY <1>2, <1>4 DEF SameUpTo, Literal, Offsets
  <2>3. Len(new) \in 0 .. Len(new)
    BY <1>0
  <2>4. Copies(new, g, Len(new))
    BY <1>3, <2>1, <2>2, <2>3, FromCopies
  <2>5. g[Len(new)] = <<>>
    <3>1. g[Len(new)] = FromStep(new, size, piece, g, Len(new))
      BY <2>1, <2>3, FromEquations
    <3> QED
      BY <3>1 DEF FromStep
  <2>6. SubSeq(new, 1, Len(new)) = new /\ new \o <<>> = new
    BY Whole
  <2> QED
    BY <1>1, <2>1, <2>4, <2>5, <2>6 DEF Copies
<1>5. Expanded(new, left, old, right) \in Texts
  BY <1>1, <1>3, RewrittenTyped
<1> QED
  BY <1>4, <1>5

\* The text a tool writes is a text; where the tool replaces something, by a
\* text it takes as it is, it writes that behind what precedes the place in the
\* old one.
Plain(tool, new) == tool = "edit" => Literal(new)
Found(j, s) == j.tool = "write" \/ Occurs(s, j.old)
Place(j, s) == IF j.tool = "write" THEN 0 ELSE IndexOf(s, j.old)

LEMMA NewTextIs ==
    ASSUME NEW j \in Job, NEW s \in Texts, Matches(j, s)
    PROVE  /\ NewText(j, s) \in Texts
           /\ Found(j, s) /\ Plain(j.tool, j.new)
                => /\ Place(j, s) \in 0 .. Len(s)
                   /\ \E r \in Texts :
                         NewText(j, s) = (SubSeq(s, 1, Place(j, s)) \o j.new) \o r
<1>0. /\ Len(s) \in Nat /\ j.new \in Texts
      /\ j.tool \in {"write", "edit", "edit_all"}
      /\ j.tool # "write" => j.old \in Texts \ {<<>>}
  BY DEF Texts, Job
<1>1. CASE j.tool = "write"
  <2>1. SubSeq(s, 1, 0) = <<>> /\ <<>> \in Texts /\ <<>> \o j.new = j.new
        /\ j.new \o <<>> = j.new
    BY <1>0, Whole
  <2>2. NewText(j, s) = j.new /\ Place(j, s) = 0
    BY <1>1 DEF NewText, Place
  <2>3. NewText(j, s) = (SubSeq(s, 1, Place(j, s)) \o j.new) \o <<>>
    BY <2>1, <2>2
  <2>4. NewText(j, s) \in Texts /\ Place(j, s) \in 0 .. Len(s) /\ <<>> \in Texts
    BY <1>0, <2>1, <2>2
  <2> QED
    BY <2>3, <2>4
<1>2. CASE j.tool = "edit"
  <2>1. Occurs(s, j.old) /\ Place(j, s) = IndexOf(s, j.old)
    BY <1>2 DEF Matches, Place
  <2>2. PICK i \in 0 .. Len(s) : i = IndexOf(s, j.old) /\ OccursAt(s, j.old, i)
    BY <2>1, IndexIs
  <2>3. i + Len(j.old) \in 0 .. Len(s)
    BY <1>0, <1>2, <2>2 DEF OccursAt, Texts
  <2>4. PICK p \in Texts : p = SubSeq(s, 1, i)
    BY Cut
  <2>5. PICK r \in Texts : r = SubSeq(s, i + Len(j.old) + 1, Len(s))
    BY <2>3, Cut
  <2>8. PICK x : x = Expanded(j.new, p, j.old, r)
    OBVIOUS
  <2>9. x \in Texts /\ (Literal(j.new) => x = j.new)
    <3>1. j.old \in Texts
      BY <1>0, <1>2
    <3> QED
      BY <1>0, <2>8, <3>1, ExpandedIs
  <2>6. NewText(j, s) = (p \o x) \o r
    BY <1>2, <2>1, <2>2, <2>4, <2>5, <2>8 DEF NewText, ReplaceFirst, Splice
  <2>7. (p \o x) \o r \in Texts
    BY <2>9, ConcatText
  <2> QED
    BY <1>2, <2>1, <2>2, <2>4, <2>6, <2>7, <2>9 DEF Plain
<1>3. CASE j.tool = "edit_all"
  <2>1. NewText(j, s) = ReplaceEach(s, j.old, j.new)
    BY <1>3 DEF NewText
  <2>2. Found(j, s) => Occurs(s, j.old)
    BY <1>3 DEF Found
  <2>3. Place(j, s) = IndexOf(s, j.old)
    BY <1>3 DEF Place
  <2>4. Occurs(s, j.old) => IndexOf(s, j.old) \in 0 .. Len(s)
    BY IndexIs
  <2>5. /\ ReplaceEach(s, j.old, j.new) \in Texts
        /\ Occurs(s, j.old)
             => \E r \in Texts :
                   ReplaceEach(s, j.old, j.new)
                     = (SubSeq(s, 1, IndexOf(s, j.old)) \o j.new) \o r
    <3>1. j.old \in Texts \ {<<>>} /\ j.new \in Texts
      BY <1>0, <1>3
    <3> QED
      BY <3>1, ReplaceEachIs, Zenon
  <2> QED
    BY <2>1, <2>2, <2>3, <2>4, <2>5, Zenon
<1> QED
  BY <1>0, <1>1, <1>2, <1>3

-----------------------------------------------------------------------------
(* What the variables hold.                                                 *)

HunkType == [by : Edits, start : Nat, end : Nat,
             tool : {"write", "edit", "edit_all"}, original : Texts,
             modified : Texts, status : {"applied", "rejected"}]

TypeInv ==
    /\ disk \in Texts \cup {None}
    /\ buffer \in Texts \cup {None}
    /\ snapshot \in Texts \cup {None}
    /\ groups \in Seq(HunkType)
    /\ pc \in [Calls -> Places]
    /\ job \in [Edits -> Job \cup {NoJob}]
    /\ content \in [Calls -> Texts \cup {None}]
    /\ target \in [Rejects -> Nat]
    /\ before \in [Edits -> Texts \cup {None}]
    /\ owner \in Edits \cup {None}

\* An edit under way has a job; once it has read the file, what it read is
\* there and holds what is to be replaced.
Working == {"snapshot", "read", "write", "written", "rollback"}
WorkInv ==
    \A e \in Edits :
        /\ pc[e] \in Working => job[e] \in Job
        /\ pc[e] \in {"write", "written"} => /\ content[e] \in Texts
                                             /\ Matches(job[e], content[e])

\* A reject under way is about a group.
RejectsInv ==
    \A c \in Rejects :
        /\ Rejecting(c) => target[c] \in DOMAIN groups
        /\ pc[c] = "write" => content[c] \in Texts

Base == TypeInv /\ WorkInv /\ RejectsInv

LEMMA InitBase == Init => Base
<1> SUFFICES ASSUME Init PROVE Base
  OBVIOUS
<1>1. /\ disk \in Texts \cup {None} /\ buffer = None /\ snapshot = None
      /\ groups = <<>> /\ owner = None
  BY TextAssumption DEF Init
<1>2. /\ pc \in [Calls -> Places] /\ target \in [Rejects -> Nat]
      /\ \A c \in Calls : pc[c] = "idle"
  BY DEF Init, Places
<1>3. job \in [Edits -> Job \cup {NoJob}]
  BY DEF Init
<1>4. content \in [Calls -> Texts \cup {None}] /\ before \in [Edits -> Texts \cup {None}]
  BY DEF Init
<1>5. groups \in Seq(HunkType)
  BY <1>1
<1>6. TypeInv
  BY <1>1, <1>2, <1>3, <1>4, <1>5 DEF TypeInv
<1>7. WorkInv
  BY <1>2 DEF WorkInv, Working, Calls
<1>8. RejectsInv
  BY <1>2 DEF RejectsInv, Rejecting, Calls
<1> QED
  BY <1>6, <1>7, <1>8 DEF Base

LEMMA SpliceText ==
    ASSUME NEW s \in Texts, NEW new \in Texts,
           NEW from \in 0 .. Len(s), NEW to \in 0 .. Len(s)
    PROVE  Splice(s, from, to, new) \in Texts
<1>1. PICK p \in Texts : p = SubSeq(s, 1, from)
  BY Cut
<1>2. PICK r \in Texts : r = SubSeq(s, to + 1, Len(s))
  BY Cut
<1>3. (p \o new) \o r \in Texts
  BY ConcatText
<1> QED
  BY <1>1, <1>2, <1>3 DEF Splice

LEMMA OffsetWithin ==
    ASSUME NEW s \in Texts, NEW line \in Nat
    PROVE  OffsetForLine(s, line) \in 0 .. Len(s)
<1> DEFINE starts == {k \in DOMAIN s : s[k] = NL /\ LineAt(s, k) = line}
<1>1. starts \subseteq 0 .. Len(s) /\ 0 \in 0 .. Len(s) /\ Len(s) \in 0 .. Len(s)
  BY DEF Texts
<1>2. OffsetForLine(s, line)
        = IF line <= 1 THEN 0
          ELSE IF starts = {} THEN Len(s) ELSE CHOOSE k \in starts : TRUE
  BY DEF OffsetForLine
<1> HIDE DEF starts
<1> QED
  BY <1>1, <1>2

LEMMA ReversedText ==
    ASSUME NEW s \in Texts, NEW h \in HunkType
    PROVE  Reversed(s, h) \in Texts
<1>1. h.start \in Nat /\ LinesEnd(h) \in Nat /\ h.original \in Texts
  BY DEF HunkType, LinesEnd
<1>2. /\ OffsetForLine(s, h.start) \in 0 .. Len(s)
      /\ OffsetForLine(s, LinesEnd(h)) \in 0 .. Len(s)
  BY <1>1, OffsetWithin
<1> QED
  BY <1>1, <1>2, SpliceText DEF Reversed

LEMMA HunkTyped ==
    ASSUME Base, NEW e \in Edits, pc[e] = "written"
    PROVE  /\ Hunk(e, content[e]) \in HunkType
           /\ job[e] \in Job /\ content[e] \in Texts
           /\ Matches(job[e], content[e])
           /\ Hunk(e, content[e]).start
                = IF job[e].tool = "write" THEN 1
                  ELSE IF Occurs(content[e], job[e].old)
                       THEN LineAt(content[e], IndexOf(content[e], job[e].old))
                       ELSE 0
           /\ Hunk(e, content[e]).end
                = Hunk(e, content[e]).start + LineCount(job[e].new) - 1
<1>1. job[e] \in Job /\ content[e] \in Texts /\ Matches(job[e], content[e])
  BY DEF Base, WorkInv, Working
<1> DEFINE s == content[e]
           j == job[e]
           first == IF j.tool = "write" THEN 1
                    ELSE IF Occurs(s, j.old) THEN LineAt(s, IndexOf(s, j.old)) ELSE 0
<1>2. first \in Nat
  <2>1. Occurs(s, j.old) => IndexOf(s, j.old) \in 0 .. Len(s)
    BY <1>1, IndexIs
  <2>2. Occurs(s, j.old) => LineAt(s, IndexOf(s, j.old)) \in Nat
    BY <1>1, <2>1, LineWithin
  <2> QED
    BY <2>2
<1>3. /\ j.new \in Texts /\ j.old \in Texts
      /\ j.tool \in {"write", "edit", "edit_all"}
  BY <1>1, Whole DEF Job
<1>4. LineCount(j.new) \in Nat \ {0}
  BY <1>3, LineCountIs
<1>5. Hunk(e, s) = [by |-> e, start |-> first, end |-> first + LineCount(j.new) - 1,
                    tool |-> j.tool,
                    original |-> IF j.tool = "write" THEN s ELSE j.old,
                    modified |-> j.new, status |-> "applied"]
  BY DEF Hunk, LastLine
<1>6. first + LineCount(j.new) - 1 \in Nat
  BY <1>2, <1>4
<1> HIDE DEF first
<1>7. Hunk(e, s) \in HunkType
  BY <1>1, <1>2, <1>3, <1>5, <1>6 DEF HunkType
<1>8. Hunk(e, s).start = first /\ Hunk(e, s).end = first + LineCount(j.new) - 1
  BY <1>5
<1> QED
  BY <1>1, <1>7, <1>8 DEF first

LEMMA Moves ==
    ASSUME pc \in [Calls -> Places], NEW c \in Calls, NEW at \in Places, Goto(c, at)
    PROVE  /\ pc' \in [Calls -> Places] /\ pc'[c] = at
           /\ \A d \in Calls : d # c => pc'[d] = pc[d]
BY DEF Goto

LEMMA Disjoint ==
    ASSUME NEW e \in Edits, NEW c \in Rejects
    PROVE  e # c /\ e \in Calls /\ c \in Calls /\ e # None
BY TextAssumption DEF Calls

\* A step of edit e leaves the other calls alone.
LEMMA EditFrame ==
    ASSUME Base, NEW e \in Edits, Edit(e)
    PROVE  /\ target' = target /\ buffer' = buffer
           /\ \A d \in Calls : d # e => pc'[d] = pc[d] /\ content'[d] = content[d]
           /\ \A d \in Edits : d # e => /\ pc'[d] = pc[d] /\ job'[d] = job[d]
                                        /\ content'[d] = content[d]
                                        /\ before'[d] = before[d]
<1>0. /\ pc \in [Calls -> Places] /\ job \in [Edits -> Job \cup {NoJob}]
      /\ content \in [Calls -> Texts \cup {None}]
      /\ before \in [Edits -> Texts \cup {None}]
      /\ Edits \subseteq Calls
  BY DEF Base, TypeInv, Calls
<1>1. \A d \in Calls : d # e => pc'[d] = pc[d]
  BY <1>0
     DEF Edit, Begin, TakeSnapshot, Cancelled, Refused, ReadFile, WriteFile,
         WriteFileFails, Record, NothingToRollback, Rollback, Finish, Goto
<1>2. target' = target /\ buffer' = buffer
  BY DEF Edit, Begin, TakeSnapshot, Cancelled, Refused, ReadFile, WriteFile,
     WriteFileFails, Record, NothingToRollback, Rollback, Finish, files, history
<1>3. \A d \in Edits : d # e => job'[d] = job[d]
  BY <1>0
     DEF Edit, Begin, TakeSnapshot, Cancelled, Refused, ReadFile, WriteFile,
         WriteFileFails, Record, NothingToRollback, Rollback, Finish
<1>4. \A d \in Calls : d # e => content'[d] = content[d]
  BY <1>0
     DEF Edit, Begin, TakeSnapshot, Cancelled, Refused, ReadFile, WriteFile,
         WriteFileFails, Record, NothingToRollback, Rollback
<1>5. \A d \in Edits : d # e => before'[d] = before[d]
  BY <1>0
     DEF Edit, Begin, TakeSnapshot, Cancelled, Refused, ReadFile, WriteFile,
         WriteFileFails, Record, NothingToRollback, Rollback, Finish, history
<1> QED
  BY <1>0, <1>1, <1>2, <1>3, <1>4, <1>5

LEMMA EditBase ==
    ASSUME Base, NEW e \in Edits, Edit(e)
    PROVE  Base'
<1>0. /\ e \in Calls /\ pc \in [Calls -> Places] /\ disk \in Texts \cup {None}
      /\ snapshot \in Texts \cup {None}
      /\ job \in [Edits -> Job \cup {NoJob}]
      /\ content \in [Calls -> Texts \cup {None}]
      /\ before \in [Edits -> Texts \cup {None}]
      /\ owner \in Edits \cup {None} /\ <<>> \in Texts
      /\ groups \in Seq(HunkType)
  BY EmptySeq DEF Base, TypeInv, Calls, Texts
<1>1. PICK at \in Places : Goto(e, at)
  BY DEF Edit, Begin, TakeSnapshot, Cancelled, Refused, ReadFile, WriteFile,
     WriteFileFails, Record, NothingToRollback, Rollback, Finish, Places
<1>2. /\ pc' \in [Calls -> Places]
      /\ \A d \in Calls : d # e => pc'[d] = pc[d]
  BY <1>0, <1>1, Moves
<1>3. target' = target /\ buffer' = buffer
  BY DEF Edit, Begin, TakeSnapshot, Cancelled, Refused, ReadFile, WriteFile,
     WriteFileFails, Record, NothingToRollback, Rollback, Finish, files, history
<1>4. job' \in [Edits -> Job \cup {NoJob}]
      /\ \A d \in Edits : d # e => job'[d] = job[d]
  <2>1. CASE job' = job
    BY <1>0, <2>1
  <2>2. CASE \E j \in Job \cup {NoJob} : job' = [job EXCEPT ![e] = j]
    BY <1>0, <2>2
  <2>3. job' = job \/ \E j \in Job \cup {NoJob} : job' = [job EXCEPT ![e] = j]
    BY TextAssumption
       DEF Edit, Begin, TakeSnapshot, Cancelled, Refused, ReadFile, WriteFile,
           WriteFileFails, Record, NothingToRollback, Rollback, Finish
  <2> QED
    BY <2>1, <2>2, <2>3
<1>5. content' \in [Calls -> Texts \cup {None}]
      /\ \A d \in Calls : d # e => content'[d] = content[d]
  <2>1. CASE content' = content
    BY <1>0, <2>1
  <2>2. CASE \E s \in Texts \cup {None} : content' = [content EXCEPT ![e] = s]
    BY <1>0, <2>2
  <2>3. content' = content
          \/ \E s \in Texts \cup {None} : content' = [content EXCEPT ![e] = s]
    BY <1>0
       DEF Edit, Begin, TakeSnapshot, Cancelled, Refused, ReadFile, WriteFile,
           WriteFileFails, Record, NothingToRollback, Rollback, Finish
  <2> QED
    BY <2>1, <2>2, <2>3
<1>6. before' \in [Edits -> Texts \cup {None}]
  <2>1. CASE before' = before
    BY <1>0, <2>1
  <2>2. CASE \E s \in Texts \cup {None} : before' = [before EXCEPT ![e] = s]
    BY <1>0, <2>2
  <2>3. before' = before
          \/ \E s \in Texts \cup {None} : before' = [before EXCEPT ![e] = s]
    BY <1>0
       DEF Edit, Begin, TakeSnapshot, Cancelled, Refused, ReadFile, WriteFile,
           WriteFileFails, Record, NothingToRollback, Rollback, Finish, history
  <2> QED
    BY <2>1, <2>2, <2>3
<1>7. snapshot' \in Texts \cup {None} /\ owner' \in Edits \cup {None}
  BY <1>0
     DEF Edit, Begin, TakeSnapshot, Cancelled, Refused, ReadFile, WriteFile,
         WriteFileFails, Record, NothingToRollback, Rollback, history
<1>8. disk' \in Texts \cup {None}
  <2>1. CASE WriteFile(e)
    <3>1. job[e] \in Job /\ content[e] \in Texts /\ Matches(job[e], content[e])
      BY <2>1 DEF Base, WorkInv, Working, WriteFile
    <3>2. NewText(job[e], content[e]) \in Texts
      BY <3>1, NewTextIs
    <3> QED
      BY <2>1, <3>2 DEF WriteFile
  <2>2. CASE ~WriteFile(e)
    BY <1>0, <2>2
       DEF Edit, Begin, TakeSnapshot, Cancelled, Refused, ReadFile,
           WriteFileFails, Record, NothingToRollback, Rollback, files, Broken,
           RolledBack
  <2> QED
    BY <2>1, <2>2
<1>9. /\ groups' \in Seq(HunkType) /\ DOMAIN groups \subseteq DOMAIN groups'
  <2>1. CASE Record(e)
    <3>1. Hunk(e, content[e]) \in HunkType
      BY <2>1, HunkTyped DEF Record
    <3>2. PICK h \in HunkType : groups' = Append(groups, h)
      BY <2>1, <3>1 DEF Record
    <3> QED
      BY <1>0, <3>2
  <2>2. CASE ~Record(e)
    BY <1>0, <2>2
       DEF Edit, Begin, TakeSnapshot, Cancelled, Refused, ReadFile, WriteFile,
           WriteFileFails, NothingToRollback, Rollback
  <2> QED
    BY <2>1, <2>2
<1>10. TypeInv'
  BY <1>2, <1>3, <1>4, <1>5, <1>6, <1>7, <1>8, <1>9 DEF Base, TypeInv
<1>11. /\ pc'[e] \in Working => job'[e] \in Job
       /\ pc'[e] \in {"write", "written"} => /\ content'[e] \in Texts
                                             /\ Matches(job'[e], content'[e])
  <2>0. /\ pc[e] \in Working => job[e] \in Job
        /\ pc[e] \in {"write", "written"} => /\ content[e] \in Texts
                                             /\ Matches(job[e], content[e])
    BY DEF Base, WorkInv
  <2>1. CASE Begin(e)
    <3>1. PICK j \in Jobs : job' = [job EXCEPT ![e] = j]
      BY <2>1 DEF Begin
    <3>2. job'[e] \in Job /\ pc'[e] = "snapshot"
      BY <1>0, <2>1, <3>1, TextAssumption DEF Begin, Goto
    <3> QED
      BY <3>2
  <2>2. CASE TakeSnapshot(e)
    <3>1. pc[e] = "snapshot" /\ pc'[e] = "read" /\ job' = job
      BY <1>0, <2>2 DEF TakeSnapshot, Goto
    <3> QED
      BY <2>0, <3>1 DEF Working
  <2>3. CASE Cancelled(e) \/ Record(e) \/ NothingToRollback(e) \/ Rollback(e)
    <3>1. pc'[e] \in {"done", "restored"}
      BY <1>0, <2>3 DEF Cancelled, Record, NothingToRollback, Rollback, Finish, Goto
    <3> QED
      BY <3>1 DEF Working
  <2>4. CASE Refused(e) \/ WriteFileFails(e)
    <3>1. pc[e] \in {"read", "write"} /\ pc'[e] = "rollback" /\ job' = job
      BY <1>0, <2>4 DEF Refused, WriteFileFails, Goto
    <3> QED
      BY <2>0, <3>1 DEF Working
  <2>5. CASE ReadFile(e)
    <3>1. pc[e] = "read" /\ pc'[e] = "write" /\ job' = job
      BY <1>0, <2>5 DEF ReadFile, Goto
    <3>2. content'[e] \in Texts /\ Matches(job[e], content'[e])
      <4>1. CASE /\ disk # None /\ Matches(job[e], disk)
                 /\ content' = [content EXCEPT ![e] = disk]
        BY <1>0, <4>1
      <4>2. CASE /\ job[e].tool = "write"
                 /\ content' = [content EXCEPT ![e] = <<>>]
        <5>1. content'[e] = <<>>
          BY <1>0, <4>2
        <5> QED
          BY <1>0, <4>2, <5>1 DEF Matches
      <4> QED
        BY <2>5, <4>1, <4>2 DEF ReadFile
    <3> QED
      BY <2>0, <3>1, <3>2 DEF Working
  <2>6. CASE WriteFile(e)
    <3>1. pc[e] = "write" /\ pc'[e] = "written" /\ job' = job /\ content' = content
      BY <1>0, <2>6 DEF WriteFile, Goto
    <3> QED
      BY <2>0, <3>1 DEF Working
  <2> QED
    BY <2>1, <2>2, <2>3, <2>4, <2>5, <2>6 DEF Edit
<1>12. WorkInv'
  <2> SUFFICES ASSUME NEW d \in Edits, d # e
               PROVE  /\ pc'[d] \in Working => job'[d] \in Job
                      /\ pc'[d] \in {"write", "written"}
                           => /\ content'[d] \in Texts
                              /\ Matches(job'[d], content'[d])
    BY <1>11 DEF WorkInv
  <2>1. d \in Calls
    BY DEF Calls
  <2>2. pc'[d] = pc[d] /\ job'[d] = job[d] /\ content'[d] = content[d]
    BY <1>2, <1>4, <1>5, <2>1
  <2> QED
    BY <2>2 DEF Base, WorkInv
<1>13. RejectsInv'
  <2> SUFFICES ASSUME NEW c \in Rejects
               PROVE  /\ Rejecting(c)' => target'[c] \in DOMAIN groups'
                      /\ pc'[c] = "write" => content'[c] \in Texts
    BY DEF RejectsInv
  <2>1. c \in Calls /\ c # e
    BY Disjoint
  <2>2. pc'[c] = pc[c] /\ content'[c] = content[c] /\ target'[c] = target[c]
    BY <1>2, <1>3, <1>5, <2>1
  <2> QED
    BY <1>9, <2>2 DEF Base, RejectsInv, Rejecting
<1> QED
  BY <1>10, <1>12, <1>13 DEF Base

\* The groups before a step, but for their status, are groups after it.
SameBut(h, g) ==
    /\ h.by = g.by /\ h.start = g.start /\ h.end = g.end
    /\ h.tool = g.tool /\ h.original = g.original /\ h.modified = g.modified
SameHunks ==
    /\ DOMAIN groups' = DOMAIN groups
    /\ \A n \in DOMAIN groups : SameBut(groups'[n], groups[n])

LEMMA RejectedHunks ==
    ASSUME TypeInv, NEW n \in DOMAIN groups, SetRejected(n)
    PROVE  /\ groups' \in Seq(HunkType) /\ SameHunks
           /\ groups'[n].status = "rejected"
           /\ \A m \in DOMAIN groups : m # n => groups'[m] = groups[m]
<1> DEFINE h == [groups[n] EXCEPT !.status = "rejected"]
<1>0. groups \in Seq(HunkType) /\ groups[n] \in HunkType
  BY DEF TypeInv
<1>1. groups' = [groups EXCEPT ![n] = h]
  BY DEF SetRejected, MarkRejected
<1>2. h \in HunkType /\ SameBut(h, groups[n]) /\ h.status = "rejected"
  BY <1>0 DEF HunkType, SameBut
<1> HIDE DEF h
<1>3. /\ groups' \in Seq(HunkType) /\ DOMAIN groups' = DOMAIN groups
      /\ \A m \in DOMAIN groups : groups'[m] = IF m = n THEN h ELSE groups[m]
  BY <1>0, <1>1, <1>2
<1>4. \A m \in DOMAIN groups : SameBut(groups'[m], groups[m])
  BY <1>2, <1>3 DEF SameBut
<1> QED
  BY <1>2, <1>3, <1>4 DEF SameHunks

LEMMA SameGroups ==
    ASSUME groups' = groups
    PROVE  SameHunks
BY DEF SameHunks, SameBut

\* What a step of a reject or of the user leaves alone.
LEMMA RejectFrame ==
    ASSUME Base, NEW c \in Rejects, Reject(c)
    PROVE  /\ c \in Calls /\ job' = job /\ before' = before /\ snapshot' = snapshot
           /\ \A d \in Calls : d # c => pc'[d] = pc[d] /\ content'[d] = content[d]
           /\ \A d \in Rejects : d # c => target'[d] = target[d]
           /\ pc' \in [Calls -> Places]
           /\ content' \in [Calls -> Texts \cup {None}]
           /\ target' \in [Rejects -> Nat]
           /\ groups' \in Seq(HunkType) /\ SameHunks
<1>0. /\ c \in Calls /\ pc \in [Calls -> Places] /\ disk \in Texts \cup {None}
      /\ content \in [Calls -> Texts \cup {None}]
      /\ target \in [Rejects -> Nat] /\ groups \in Seq(HunkType)
  BY DEF Base, TypeInv, Calls
<1>1. PICK at \in Places : Goto(c, at)
  BY DEF Reject, RejectInEditor, RejectOnDisk, RejectReads, RejectWrites,
     RejectFails, RejectSettles, AfterFailure, Places
<1>2. /\ pc' \in [Calls -> Places] /\ \A d \in Calls : d # c => pc'[d] = pc[d]
  BY <1>0, <1>1, Moves
<1>3. job' = job /\ before' = before /\ snapshot' = snapshot
  BY DEF Reject, RejectInEditor, RejectOnDisk, RejectReads, RejectWrites,
     RejectFails, RejectSettles, history
<1>4. content' \in [Calls -> Texts \cup {None}]
      /\ \A d \in Calls : d # c => content'[d] = content[d]
  <2>1. CASE content' = content
    BY <1>0, <2>1
  <2>2. CASE \E s \in Texts \cup {None} : content' = [content EXCEPT ![c] = s]
    BY <1>0, <2>2
  <2>3. content' = content
          \/ \E s \in Texts \cup {None} : content' = [content EXCEPT ![c] = s]
    BY <1>0
       DEF Reject, RejectInEditor, RejectOnDisk, RejectReads, RejectWrites,
           RejectFails, RejectSettles
  <2> QED
    BY <2>1, <2>2, <2>3
<1>5. target' \in [Rejects -> Nat]
      /\ \A d \in Rejects : d # c => target'[d] = target[d]
  <2>1. CASE target' = target
    BY <1>0, <2>1
  <2>2. CASE \E n \in Nat : target' = [target EXCEPT ![c] = n]
    BY <1>0, <2>2
  <2>3. DOMAIN groups \subseteq Nat /\ 0 \in Nat
    BY <1>0
  <2>4. target' = target \/ \E n \in Nat : target' = [target EXCEPT ![c] = n]
    BY <2>3
       DEF Reject, RejectInEditor, RejectOnDisk, RejectReads, RejectWrites,
           RejectFails, RejectSettles
  <2> QED
    BY <2>1, <2>2, <2>4
<1>6. groups' \in Seq(HunkType) /\ SameHunks
  <2>1. CASE groups' = groups
    BY <1>0, <2>1, SameGroups
  <2>2. CASE \E n \in DOMAIN groups : SetRejected(n)
    BY <2>2, RejectedHunks DEF Base
  <2>3. groups' = groups \/ \E n \in DOMAIN groups : SetRejected(n)
    BY DEF Reject, RejectInEditor, RejectOnDisk, RejectReads, RejectWrites,
       RejectFails, RejectSettles, Base, RejectsInv, Rejecting
  <2> QED
    BY <2>1, <2>2, <2>3
<1> QED
  BY <1>0, <1>2, <1>3, <1>4, <1>5, <1>6

LEMMA RejectBase ==
    ASSUME Base, NEW c \in Rejects, Reject(c)
    PROVE  Base'
<1>0. /\ disk \in Texts \cup {None} /\ buffer \in Texts \cup {None}
      /\ snapshot \in Texts \cup {None}
      /\ job \in [Edits -> Job \cup {NoJob}]
      /\ before \in [Edits -> Texts \cup {None}]
      /\ owner \in Edits \cup {None} /\ <<>> \in Texts
      /\ groups \in Seq(HunkType) /\ pc \in [Calls -> Places]
      /\ content \in [Calls -> Texts \cup {None}]
  BY EmptySeq DEF Base, TypeInv, Texts
<1>1. /\ c \in Calls /\ job' = job /\ before' = before /\ snapshot' = snapshot
      /\ \A d \in Calls : d # c => pc'[d] = pc[d] /\ content'[d] = content[d]
      /\ \A d \in Rejects : d # c => target'[d] = target[d]
      /\ pc' \in [Calls -> Places]
      /\ content' \in [Calls -> Texts \cup {None}]
      /\ target' \in [Rejects -> Nat]
      /\ groups' \in Seq(HunkType) /\ SameHunks
  BY RejectFrame
<1>2. disk' \in Texts \cup {None} /\ buffer' \in Texts \cup {None}
  <2>1. ASSUME NEW n \in DOMAIN groups, RejectInEditor(c, n)
        PROVE  disk' \in Texts \cup {None} /\ buffer' \in Texts \cup {None}
    <3>1. groups[n] \in HunkType /\ buffer \in Texts
      BY <1>0, <2>1 DEF RejectInEditor
    <3>2. Reversed(buffer, groups[n]) \in Texts
      BY <3>1, ReversedText
    <3> QED
      BY <1>0, <2>1, <3>2 DEF RejectInEditor
  <2>2. CASE RejectWrites(c)
    <3>1. content[c] \in Texts /\ target[c] \in DOMAIN groups
      BY <2>2 DEF RejectWrites, Base, RejectsInv, Rejecting
    <3>2. groups[target[c]] \in HunkType
      BY <1>0, <3>1
    <3>3. Reversed(content[c], groups[target[c]]) \in Texts
      BY <3>1, <3>2, ReversedText
    <3> QED
      BY <1>0, <2>2, <3>3 DEF RejectWrites
  <2>3. CASE RejectFails(c)
    BY <1>0, <2>3 DEF RejectFails, Broken
  <2>4. ASSUME (\E n \in DOMAIN groups : RejectOnDisk(c, n))
               \/ RejectReads(c) \/ RejectSettles(c)
        PROVE  disk' \in Texts \cup {None} /\ buffer' \in Texts \cup {None}
    BY <1>0, <2>4 DEF RejectOnDisk, RejectReads, RejectSettles, files
  <2> QED
    BY <2>1, <2>2, <2>3, <2>4 DEF Reject
<1>3. owner' \in Edits \cup {None}
  BY <1>0
     DEF Reject, RejectInEditor, RejectOnDisk, RejectReads, RejectWrites,
         RejectFails, RejectSettles, history
<1>4. TypeInv'
  BY <1>0, <1>1, <1>2, <1>3 DEF TypeInv
<1>5. WorkInv'
  <2> SUFFICES ASSUME NEW e \in Edits
               PROVE  /\ pc'[e] \in Working => job'[e] \in Job
                      /\ pc'[e] \in {"write", "written"}
                           => /\ content'[e] \in Texts
                              /\ Matches(job'[e], content'[e])
    BY DEF WorkInv
  <2>1. e \in Calls /\ e # c
    BY Disjoint
  <2>2. pc'[e] = pc[e] /\ content'[e] = content[e] /\ job'[e] = job[e]
    BY <1>1, <2>1
  <2> QED
    BY <2>2 DEF Base, WorkInv
<1>6. /\ Rejecting(c)' => target'[c] \in DOMAIN groups
      /\ pc'[c] = "write" => content'[c] \in Texts
  <2>0. /\ Rejecting(c) => target[c] \in DOMAIN groups
        /\ pc[c] = "write" => content[c] \in Texts
        /\ target \in [Rejects -> Nat]
    BY DEF Base, RejectsInv, TypeInv
  <2>1. ASSUME NEW n \in DOMAIN groups, RejectOnDisk(c, n)
        PROVE  target'[c] \in DOMAIN groups /\ pc'[c] = "read"
    <3>1. target' = [target EXCEPT ![c] = n] /\ Goto(c, "read")
      BY <2>1 DEF RejectOnDisk
    <3> QED
      BY <1>0, <1>1, <2>0, <3>1 DEF Goto
  <2>2. CASE RejectReads(c)
    <3>1. pc[c] = "read" /\ target' = target
      BY <2>2 DEF RejectReads
    <3>2. \/ pc'[c] = "done"
          \/ pc'[c] = "write" /\ content'[c] = disk /\ disk # None
      <4>1. CASE Goto(c, AfterFailure)
        <5>1. pc'[c] = "done"
          BY <1>0, <1>1, <4>1 DEF Goto, AfterFailure
        <5> QED
          BY <5>1
      <4>2. CASE /\ disk # None /\ Goto(c, "write")
                 /\ content' = [content EXCEPT ![c] = disk]
        <5>1. pc'[c] = "write"
          BY <1>0, <1>1, <4>2 DEF Goto
        <5>2. content'[c] = disk
          BY <1>0, <1>1, <4>2
        <5> QED
          BY <4>2, <5>1, <5>2
      <4> QED
        BY <2>2, <4>1, <4>2 DEF RejectReads
    <3> QED
      BY <1>0, <2>0, <3>1, <3>2 DEF Rejecting
  <2>3. CASE RejectWrites(c)
    <3>1. pc[c] = "write" /\ pc'[c] = "written" /\ target' = target
      BY <1>0, <1>1, <2>3 DEF RejectWrites, Goto
    <3> QED
      BY <2>0, <3>1 DEF Rejecting
  <2>4. ASSUME (\E n \in DOMAIN groups : RejectInEditor(c, n))
               \/ RejectFails(c) \/ RejectSettles(c)
        PROVE  pc'[c] = "done"
    BY <1>0, <1>1, <2>4 DEF RejectInEditor, RejectFails, RejectSettles, Goto,
       AfterFailure
  <2> QED
    BY <2>1, <2>2, <2>3, <2>4 DEF Reject, Rejecting
<1>7. RejectsInv'
  <2> SUFFICES ASSUME NEW d \in Rejects, d # c
               PROVE  /\ Rejecting(d)' => target'[d] \in DOMAIN groups
                      /\ pc'[d] = "write" => content'[d] \in Texts
    BY <1>1, <1>6 DEF RejectsInv, SameHunks
  <2>1. d \in Calls
    BY DEF Calls
  <2>2. pc'[d] = pc[d] /\ content'[d] = content[d] /\ target'[d] = target[d]
    BY <1>1, <2>1
  <2> QED
    BY <2>2 DEF Base, RejectsInv, Rejecting
<1> QED
  BY <1>4, <1>5, <1>7 DEF Base

\* The user and the editor change the file and the buffer.
LEMMA UserFrame ==
    ASSUME Base, User \/ UNCHANGED vars
    PROVE  /\ UNCHANGED <<groups, snapshot, pc, job, content, target, before, undone, raced>>
           /\ disk' \in Texts \cup {None} /\ buffer' \in Texts \cup {None}
           /\ owner' \in {owner, None} /\ (disk' # disk => owner' = None)
<1>1. UNCHANGED <<groups, snapshot, pc, job, content, target, before, undone, raced>>
  BY DEF User, Open, Type, Save, Reload, Close, UserLeaves, vars, history
<1>2. disk' \in Texts \cup {None} /\ buffer' \in Texts \cup {None}
  BY TextAssumption
     DEF User, Open, Type, Save, Reload, Close, Base, TypeInv, vars, files
<1>3. owner' \in {owner, None} /\ (disk' # disk => owner' = None)
  BY DEF User, Open, Type, Save, Reload, Close, vars, files, history
<1> QED
  BY <1>1, <1>2, <1>3

LEMMA UserBase ==
    ASSUME Base, User \/ UNCHANGED vars
    PROVE  Base'
BY UserFrame DEF Base, TypeInv, WorkInv, RejectsInv, Rejecting

LEMMA BaseStep ==
    ASSUME Base, [Next]_vars
    PROVE  Base'
BY EditBase, RejectBase, UserBase DEF Next

-----------------------------------------------------------------------------
(* Where a hunk's text is.                                                  *)

\* An edit is recorded once, when it is over; the edit that owns the file has
\* written it, and until it is recorded the file is what it wrote.
OwnerInv ==
    /\ \A n \in DOMAIN groups : pc[groups[n].by] = "done"
    /\ owner # None =>
           /\ pc[owner] \in {"written", "done"}
           /\ pc[owner] = "written" => disk = NewText(job[owner], content[owner])

\* The hunk of a write_file that owns the file is the whole file.
WholeFile ==
    \A n \in DOMAIN groups : groups[n].tool = "write" =>
        /\ groups[n].start = 1
        /\ groups[n].end = LineCount(groups[n].modified)
        /\ owner = groups[n].by => disk = groups[n].modified

\* A reject that has read the file holds what is in it, as long as the edit
\* it reverses owns the file.
FreshInv ==
    \A c \in Rejects :
        pc[c] = "write" /\ owner = groups[target[c]].by => content[c] = disk

HunkInv == OwnerInv /\ HunkLocatesText /\ WholeFile
FileInv == Base /\ HunkInv /\ FreshInv

\* Nothing becomes owned by a recorded edit, and what is owned stays as it is.
Untouched ==
    \/ UNCHANGED <<disk, owner>>
    \/ \A n \in DOMAIN groups : owner' # groups[n].by

LEMMA HunksStay ==
    ASSUME TypeInv, HunkLocatesText, WholeFile, SameHunks, Untouched
    PROVE  HunkLocatesText' /\ WholeFile'
<1>1. ASSUME NEW n \in DOMAIN groups', owner' = groups'[n].by
      PROVE  disk' = disk /\ owner = groups[n].by
  BY <1>1 DEF SameHunks, SameBut, Untouched
<1>2. ASSUME NEW n \in DOMAIN groups', owner' = groups'[n].by, groups'[n].start > 0,
             Plain(groups'[n].tool, groups'[n].modified)
      PROVE  \E k \in 0 .. Len(disk') :
                /\ OccursAt(disk', groups'[n].modified, k)
                /\ LineAt(disk', k) = groups'[n].start
                /\ LineAt(disk', k + Len(groups'[n].modified)) = groups'[n].end
  <2>1. n \in DOMAIN groups /\ SameBut(groups'[n], groups[n])
    BY DEF SameHunks
  <2>2. /\ owner = groups[n].by /\ groups[n].start > 0
        /\ groups[n].tool = "edit" => Literal(groups[n].modified)
    BY <1>1, <1>2, <2>1 DEF SameBut, Plain
  <2>3. \E k \in 0 .. Len(disk) :
            /\ OccursAt(disk, groups[n].modified, k)
            /\ LineAt(disk, k) = groups[n].start
            /\ LineAt(disk, k + Len(groups[n].modified)) = groups[n].end
    BY <2>1, <2>2 DEF HunkLocatesText
  <2> QED
    BY <1>1, <1>2, <2>1, <2>3 DEF SameBut
<1>3. HunkLocatesText'
  BY <1>2 DEF HunkLocatesText, Plain
<1>4. WholeFile'
  BY <1>1 DEF WholeFile, SameHunks, SameBut
<1> QED
  BY <1>3, <1>4

\* Rejects that do nothing keep what they hold.
LEMMA StillFresh ==
    ASSUME TypeInv, RejectsInv, FreshInv, SameHunks, Untouched,
           NEW c \in Rejects, pc'[c] = pc[c], content'[c] = content[c],
           target'[c] = target[c]
    PROVE  pc'[c] = "write" /\ owner' = groups'[target'[c]].by
             => content'[c] = disk'
<1> SUFFICES ASSUME pc'[c] = "write", owner' = groups'[target'[c]].by
             PROVE  content'[c] = disk'
  OBVIOUS
<1>1. target[c] \in DOMAIN groups
  BY DEF RejectsInv, Rejecting
<1>2. owner' = groups[target[c]].by
  BY <1>1 DEF SameHunks, SameBut
<1>3. UNCHANGED <<disk, owner>>
  BY <1>1, <1>2 DEF Untouched
<1> QED
  BY <1>2, <1>3 DEF FreshInv

LEMMA InitFile == Init => FileInv
<1> SUFFICES ASSUME Init PROVE FileInv
  OBVIOUS
<1>1. /\ DOMAIN groups = {} /\ owner = None /\ \A c \in Calls : pc[c] = "idle"
  BY DEF Init
<1>2. HunkInv
  BY <1>1 DEF HunkInv, OwnerInv, HunkLocatesText, WholeFile
<1>3. FreshInv
  BY <1>1 DEF FreshInv, Calls
<1> QED
  BY <1>2, <1>3, InitBase DEF FileInv

\* A recorded edit is over: it takes no step.
LEMMA OwnersDone ==
    ASSUME Base, OwnerInv, NEW n \in DOMAIN groups
    PROVE  groups[n].by \in Edits /\ groups[n].by # None /\ pc[groups[n].by] = "done"
<1>1. groups[n] \in HunkType
  BY DEF Base, TypeInv
<1>2. groups[n].by \in Edits
  BY <1>1 DEF HunkType
<1> QED
  BY <1>2, TextAssumption DEF OwnerInv

LEMMA NoOwner ==
    ASSUME Base, OwnerInv, owner' = None
    PROVE  Untouched
BY OwnersDone DEF Untouched

\* What a step of edit e, other than its write and its record, is to the
\* owner.
LEMMA EditTouches ==
    ASSUME FileInv, NEW e \in Edits, Edit(e), ~Record(e)
    PROVE  /\ pc[e] # "done" /\ pc[e] # "written" /\ groups' = groups
           /\ Untouched /\ SameHunks
           /\ \/ owner' = None
              \/ UNCHANGED <<disk, owner>> /\ owner # e
              \/ WriteFile(e) /\ owner' = e
<1>0. pc \in [Calls -> Places] /\ e \in Calls
  BY DEF FileInv, Base, TypeInv, Calls
<1>1. groups' = groups /\ pc[e] # "done" /\ pc[e] # "written"
  BY <1>0 DEF Edit, Begin, TakeSnapshot, Cancelled, Refused, ReadFile, WriteFile,
     WriteFileFails, NothingToRollback, Rollback
<1>2. owner # e
  BY <1>1, TextAssumption DEF FileInv, HunkInv, OwnerInv
<1>3. \/ owner' = None
      \/ UNCHANGED <<disk, owner>>
      \/ WriteFile(e) /\ owner' = e
  BY DEF Edit, Begin, TakeSnapshot, Cancelled, Refused, ReadFile, WriteFile,
     WriteFileFails, NothingToRollback, Rollback, files, history
<1>4. ASSUME owner' = e
      PROVE  Untouched
  BY <1>1, <1>4, OwnersDone DEF Untouched, FileInv, HunkInv
<1>5. Untouched
  BY <1>3, <1>4, NoOwner DEF FileInv, HunkInv, Untouched
<1> QED
  BY <1>1, <1>2, <1>3, <1>5, SameGroups

LEMMA EditOwner ==
    ASSUME FileInv, NEW e \in Edits, Edit(e), ~Record(e)
    PROVE  OwnerInv'
<1>0. /\ pc \in [Calls -> Places] /\ e \in Calls /\ owner \in Edits \cup {None}
      /\ pc' \in [Calls -> Places]
  BY EditBase DEF FileInv, Base, TypeInv, Calls
<1>1. /\ pc[e] # "done" /\ groups' = groups
      /\ \A d \in Edits : d # e => /\ pc'[d] = pc[d] /\ job'[d] = job[d]
                                   /\ content'[d] = content[d]
  <2>1. /\ pc[e] # "done" /\ groups' = groups
    BY EditTouches DEF Edit, Begin, TakeSnapshot, Cancelled, Refused, ReadFile,
       WriteFile, WriteFileFails, NothingToRollback, Rollback
  <2> QED
    BY <2>1, EditFrame DEF FileInv
<1>2. ASSUME NEW n \in DOMAIN groups'
      PROVE  pc'[groups'[n].by] = "done"
  BY <1>1, OwnersDone DEF FileInv, HunkInv
<1>3. ASSUME owner' # None
      PROVE  /\ pc'[owner'] \in {"written", "done"}
             /\ pc'[owner'] = "written"
                  => disk' = NewText(job'[owner'], content'[owner'])
  <2>1. CASE WriteFile(e) /\ owner' = e
    <3>1. pc'[e] = "written" /\ disk' = NewText(job[e], content[e])
          /\ job' = job /\ content' = content
      BY <1>0, <2>1 DEF WriteFile, Goto
    <3> QED
      BY <2>1, <3>1
  <2>2. CASE UNCHANGED <<disk, owner>> /\ owner # e
    <3>1. owner \in Edits /\ owner # e
      BY <1>0, <1>3, <2>2
    <3>2. /\ pc'[owner] = pc[owner] /\ job'[owner] = job[owner]
          /\ content'[owner] = content[owner]
      BY <1>1, <3>1
    <3> QED
      BY <1>3, <2>2, <3>2 DEF FileInv, HunkInv, OwnerInv
  <2> QED
    BY <1>3, <2>1, <2>2, EditTouches
<1> QED
  BY <1>2, <1>3 DEF OwnerInv

\* The hunk of the edit that has just written the file says where its text is.
LEMMA NewHunk ==
    ASSUME FileInv, NEW e \in Edits, pc[e] = "written", owner = e,
           NEW h, h = Hunk(e, content[e])
    PROVE  /\ h.start > 0 /\ Plain(h.tool, h.modified) =>
                  \E k \in 0 .. Len(disk) :
                      /\ OccursAt(disk, h.modified, k)
                      /\ LineAt(disk, k) = h.start
                      /\ LineAt(disk, k + Len(h.modified)) = h.end
           /\ h.tool = "write" => disk = h.modified
<1> DEFINE s == content[e]
           j == job[e]
<1>0. /\ h \in HunkType /\ j \in Job /\ s \in Texts /\ Matches(j, s)
      /\ h.start = IF j.tool = "write" THEN 1
                   ELSE IF Occurs(s, j.old) THEN LineAt(s, IndexOf(s, j.old)) ELSE 0
      /\ h.end = h.start + LineCount(j.new) - 1
  BY HunkTyped DEF FileInv
<1>1. disk = NewText(j, s)
  BY TextAssumption DEF FileInv, HunkInv, OwnerInv
<1>2. h.modified = j.new /\ h.tool = j.tool /\ j.new \in Texts
  BY <1>0 DEF Hunk, Job
<1>3. ASSUME h.start > 0, Plain(j.tool, j.new)
      PROVE  \E k \in 0 .. Len(disk) :
                 /\ OccursAt(disk, j.new, k)
                 /\ LineAt(disk, k) = h.start
                 /\ LineAt(disk, k + Len(j.new)) = h.start + LineCount(j.new) - 1
  <2>1. Found(j, s)
    BY <1>0, <1>3 DEF Found
  <2>2. Place(j, s) \in 0 .. Len(s)
    BY <1>0, <1>3, <2>1, NewTextIs
  <2>3. PICK r \in Texts :
            NewText(j, s) = (SubSeq(s, 1, Place(j, s)) \o j.new) \o r
    BY <1>0, <1>3, <2>1, NewTextIs
  <2>4. PICK p \in Texts : p = SubSeq(s, 1, Place(j, s))
    BY <1>0, <2>2, Cut
  <2>5. disk = (p \o j.new) \o r
    BY <1>1, <2>3, <2>4
  <2>6. LineCount(p) = h.start
    <3>1. CASE j.tool = "write"
      <4>1. p = <<>>
        BY <1>0, <2>4, <3>1, Whole DEF Place
      <4>2. {k \in DOMAIN p : p[k] = NL} = {}
        BY <4>1
      <4>3. LineCount(p) = 1
        BY <4>2, FS_EmptySet DEF LineCount
      <4> QED
        BY <1>0, <3>1, <4>3
    <3>2. CASE j.tool # "write"
      BY <1>0, <1>3, <2>1, <2>4, <3>2 DEF Place, Found, LineAt
    <3> QED
      BY <3>1, <3>2
  <2>7. /\ Len(p) \in 0 .. Len(disk) /\ OccursAt(disk, j.new, Len(p))
        /\ LineAt(disk, Len(p)) = LineCount(p)
        /\ LineAt(disk, Len(p) + Len(j.new)) = LineCount(p) + LineCount(j.new) - 1
    <3>1. PICK m \in Texts : m = j.new
      BY <1>2
    <3>2. PICK d : d = disk
      OBVIOUS
    <3>3. d = (p \o m) \o r
      BY <2>5, <3>1, <3>2
    <3>4. Stands(d, p, m)
      BY <3>3, Located
    <3> QED
      BY <3>1, <3>2, <3>4 DEF Stands
  <2> QED
    BY <2>6, <2>7
<1>4. h.tool = "write" => disk = h.modified
  BY <1>1, <1>2 DEF NewText
<1> QED
  BY <1>0, <1>2, <1>3, <1>4

LEMMA RecordFile ==
    ASSUME FileInv, NEW e \in Edits, Record(e)
    PROVE  HunkInv' /\ FreshInv'
<1>0. /\ pc \in [Calls -> Places] /\ e \in Calls /\ e # None
      /\ groups \in Seq(HunkType) /\ owner \in Edits \cup {None}
  BY TextAssumption DEF FileInv, Base, TypeInv, Calls
<1>1. PICK h \in HunkType : h = Hunk(e, content[e])
  BY HunkTyped DEF FileInv, Record
<1>2. /\ pc[e] = "written" /\ pc'[e] = "done" /\ disk' = disk /\ owner' = owner
      /\ groups' = Append(groups, h) /\ content' = content /\ target' = target
  BY <1>0, <1>1 DEF Record, Finish, Goto, files
<1>3. /\ DOMAIN groups' = DOMAIN groups \cup {Len(groups) + 1}
      /\ Len(groups) + 1 \notin DOMAIN groups
      /\ groups'[Len(groups) + 1] = h
      /\ \A n \in DOMAIN groups : groups'[n] = groups[n]
  BY <1>0, <1>2
<1>4. h.by = e /\ (h.tool = "write" => h.start = 1)
      /\ h.end = h.start + LineCount(job[e].new) - 1 /\ h.modified = job[e].new
      /\ LineCount(h.modified) \in Nat
  <2>1. h.by = e /\ h.modified = job[e].new /\ h.tool = job[e].tool
    BY <1>1 DEF Hunk
  <2>2. (job[e].tool = "write" => h.start = 1)
        /\ h.end = h.start + LineCount(job[e].new) - 1
    BY <1>1, <1>2, HunkTyped DEF FileInv
  <2>3. h.modified \in Texts
    BY DEF HunkType
  <2> QED
    BY <2>1, <2>2, <2>3, LineCountIs
<1>5. \A d \in Edits : d # e => /\ pc'[d] = pc[d] /\ job'[d] = job[d]
                                /\ content'[d] = content[d]
  BY EditFrame DEF Edit, FileInv
<1>6. OwnerInv'
  <2>1. ASSUME NEW n \in DOMAIN groups'
        PROVE  pc'[groups'[n].by] = "done"
    <3>1. CASE n = Len(groups) + 1
      BY <1>2, <1>3, <1>4, <3>1
    <3>2. CASE n \in DOMAIN groups
      <4>1. groups[n].by \in Edits /\ pc[groups[n].by] = "done"
        BY <3>2, OwnersDone DEF FileInv, HunkInv
      <4> QED
        BY <1>2, <1>3, <1>5, <3>2, <4>1
    <3> QED
      BY <1>3, <3>1, <3>2
  <2>2. ASSUME owner' # None
        PROVE  /\ pc'[owner'] \in {"written", "done"}
               /\ pc'[owner'] = "written"
                    => disk' = NewText(job'[owner'], content'[owner'])
    <3>1. CASE owner = e
      BY <1>2, <3>1
    <3>2. CASE owner # e
      <4>1. owner \in Edits
        BY <1>0, <1>2, <2>2
      <4> QED
        BY <1>2, <1>5, <2>2, <3>2, <4>1 DEF FileInv, HunkInv, OwnerInv
    <3> QED
      BY <3>1, <3>2
  <2> QED
    BY <2>1, <2>2 DEF OwnerInv
<1>7. HunkLocatesText'
  <2> SUFFICES ASSUME NEW n \in DOMAIN groups',
                      owner' = groups'[n].by, groups'[n].start > 0,
                      Plain(groups'[n].tool, groups'[n].modified)
               PROVE  \E k \in 0 .. Len(disk') :
                          /\ OccursAt(disk', groups'[n].modified, k)
                          /\ LineAt(disk', k) = groups'[n].start
                          /\ LineAt(disk', k + Len(groups'[n].modified))
                               = groups'[n].end
    BY DEF HunkLocatesText, Plain
  <2>1. CASE n = Len(groups) + 1
    BY <1>1, <1>2, <1>3, <1>4, <2>1, NewHunk
  <2>2. CASE n \in DOMAIN groups
    BY <1>2, <1>3, <2>2 DEF FileInv, HunkInv, HunkLocatesText, Plain
  <2> QED
    BY <1>3, <2>1, <2>2
<1>8. WholeFile'
  <2> SUFFICES ASSUME NEW n \in DOMAIN groups', groups'[n].tool = "write"
               PROVE  /\ groups'[n].start = 1
                      /\ groups'[n].end = LineCount(groups'[n].modified)
                      /\ owner' = groups'[n].by => disk' = groups'[n].modified
    BY DEF WholeFile
  <2>1. CASE n = Len(groups) + 1
    <3>1. h.tool = "write" /\ groups'[n] = h
      BY <1>3, <2>1
    <3>2. h.start = 1 /\ h.end = LineCount(h.modified)
      BY <1>4, <3>1
    <3>3. owner = e => disk = h.modified
      BY <1>1, <1>2, <3>1, NewHunk
    <3> QED
      BY <1>2, <1>4, <3>1, <3>2, <3>3
  <2>2. CASE n \in DOMAIN groups
    BY <1>2, <1>3, <2>2 DEF FileInv, HunkInv, WholeFile
  <2> QED
    BY <1>3, <2>1, <2>2
<1>9. FreshInv'
  <2> SUFFICES ASSUME NEW c \in Rejects, pc'[c] = "write",
                      owner' = groups'[target'[c]].by
               PROVE  content'[c] = disk'
    BY DEF FreshInv
  <2>1. c \in Calls /\ c # e
    BY Disjoint
  <2>2. pc[c] = "write" /\ content'[c] = content[c] /\ target'[c] = target[c]
    BY <1>0, <1>2, <2>1 DEF Record, Finish, Goto
  <2>3. target[c] \in DOMAIN groups
    BY <2>2 DEF FileInv, Base, RejectsInv, Rejecting
  <2> QED
    BY <1>2, <1>3, <2>2, <2>3 DEF FileInv, FreshInv
<1> QED
  BY <1>6, <1>7, <1>8, <1>9 DEF HunkInv

LEMMA EditFile ==
    ASSUME FileInv, NEW e \in Edits, Edit(e)
    PROVE  HunkInv' /\ FreshInv'
<1>1. CASE Record(e)
  BY <1>1, RecordFile
<1>2. CASE ~Record(e)
  <2>1. Untouched /\ SameHunks
    BY <1>2, EditTouches
  <2>2. HunkLocatesText' /\ WholeFile'
    BY <2>1, HunksStay DEF FileInv, HunkInv, Base
  <2>3. OwnerInv'
    BY <1>2, EditOwner
  <2>4. FreshInv'
    <3> SUFFICES ASSUME NEW c \in Rejects
                 PROVE  pc'[c] = "write" /\ owner' = groups'[target'[c]].by
                          => content'[c] = disk'
      BY DEF FreshInv
    <3>1. c \in Calls /\ c # e
      BY Disjoint
    <3>2. pc'[c] = pc[c] /\ content'[c] = content[c] /\ target'[c] = target[c]
      BY <3>1, EditFrame DEF FileInv
    <3> QED
      BY <2>1, <3>2, StillFresh DEF FileInv, Base
  <2> QED
    BY <2>2, <2>3, <2>4 DEF HunkInv
<1> QED
  BY <1>1, <1>2

LEMMA RejectFile ==
    ASSUME FileInv, NEW c \in Rejects, Reject(c)
    PROVE  HunkInv' /\ FreshInv'
<1>0. /\ pc \in [Calls -> Places] /\ c \in Calls
      /\ content \in [Calls -> Texts \cup {None}]
  BY DEF FileInv, Base, TypeInv, Calls
<1>1. /\ job' = job /\ SameHunks
      /\ \A d \in Calls : d # c => pc'[d] = pc[d] /\ content'[d] = content[d]
      /\ \A d \in Rejects : d # c => target'[d] = target[d]
  BY RejectFrame DEF FileInv
<1>2. owner' = None \/ UNCHANGED <<disk, owner>>
  BY DEF Reject, RejectInEditor, RejectOnDisk, RejectReads, RejectWrites,
     RejectFails, RejectSettles, files, history
<1>3. Untouched
  BY <1>2, NoOwner DEF FileInv, HunkInv, Untouched
<1>4. HunkLocatesText' /\ WholeFile'
  BY <1>1, <1>3, HunksStay DEF FileInv, HunkInv, Base
<1>5. OwnerInv'
  <2>1. ASSUME NEW n \in DOMAIN groups'
        PROVE  pc'[groups'[n].by] = "done"
    <3>1. n \in DOMAIN groups /\ groups'[n].by = groups[n].by
      BY <1>1 DEF SameHunks, SameBut
    <3>2. groups[n].by \in Edits /\ pc[groups[n].by] = "done"
      BY <3>1, OwnersDone DEF FileInv, HunkInv
    <3>3. groups[n].by \in Calls /\ groups[n].by # c
      BY <3>2, Disjoint
    <3> QED
      BY <1>1, <3>1, <3>2, <3>3
  <2>2. ASSUME owner' # None
        PROVE  /\ pc'[owner'] \in {"written", "done"}
               /\ pc'[owner'] = "written"
                    => disk' = NewText(job'[owner'], content'[owner'])
    <3>1. UNCHANGED <<disk, owner>> /\ owner \in Edits
      BY <1>2, <2>2 DEF FileInv, Base, TypeInv
    <3>2. owner \in Calls /\ owner # c
      BY <3>1, Disjoint
    <3> QED
      BY <1>1, <2>2, <3>1, <3>2 DEF FileInv, HunkInv, OwnerInv
  <2> QED
    BY <2>1, <2>2 DEF OwnerInv
<1>6. pc'[c] = "write" => content'[c] = disk'
  <2>1. CASE RejectReads(c)
    <3>1. CASE Goto(c, AfterFailure)
      BY <1>0, <3>1 DEF Goto, AfterFailure
    <3>2. CASE Goto(c, "write") /\ content' = [content EXCEPT ![c] = disk]
      BY <1>0, <2>1, <3>2 DEF RejectReads, files
    <3> QED
      BY <2>1, <3>1, <3>2 DEF RejectReads
  <2>2. CASE ~RejectReads(c)
    BY <1>0, <2>2 DEF Reject, RejectInEditor, RejectOnDisk, RejectWrites,
       RejectFails, RejectSettles, Goto, AfterFailure
  <2> QED
    BY <2>1, <2>2
<1>7. FreshInv'
  <2> SUFFICES ASSUME NEW d \in Rejects, d # c
               PROVE  pc'[d] = "write" /\ owner' = groups'[target'[d]].by
                        => content'[d] = disk'
    BY <1>6 DEF FreshInv
  <2>1. d \in Calls
    BY DEF Calls
  <2>2. pc'[d] = pc[d] /\ content'[d] = content[d] /\ target'[d] = target[d]
    BY <1>1, <2>1
  <2> QED
    BY <1>1, <1>3, <2>2, StillFresh DEF FileInv, Base
<1> QED
  BY <1>4, <1>5, <1>7 DEF HunkInv

LEMMA UserFile ==
    ASSUME FileInv, User \/ UNCHANGED vars
    PROVE  HunkInv' /\ FreshInv'
<1>1. /\ UNCHANGED <<groups, snapshot, pc, job, content, target, before, undone, raced>>
      /\ owner' \in {owner, None} /\ (disk' # disk => owner' = None)
  BY UserFrame DEF FileInv
<1>2. owner' = None \/ UNCHANGED <<disk, owner>>
  BY <1>1
<1>3. Untouched /\ SameHunks
  BY <1>1, <1>2, NoOwner, SameGroups DEF FileInv, HunkInv, Untouched
<1>4. HunkLocatesText' /\ WholeFile'
  BY <1>3, HunksStay DEF FileInv, HunkInv, Base
<1>5. OwnerInv'
  BY <1>1, <1>2 DEF FileInv, HunkInv, OwnerInv
<1>6. FreshInv'
  <2> SUFFICES ASSUME NEW c \in Rejects
               PROVE  pc'[c] = "write" /\ owner' = groups'[target'[c]].by
                        => content'[c] = disk'
    BY DEF FreshInv
  <2> QED
    BY <1>1, <1>3, StillFresh DEF FileInv, Base
<1> QED
  BY <1>4, <1>5, <1>6 DEF HunkInv

LEMMA FileStep ==
    ASSUME FileInv, [Next]_vars
    PROVE  FileInv'
<1>1. Base'
  BY BaseStep DEF FileInv
<1>2. HunkInv' /\ FreshInv'
  BY EditFile, RejectFile, UserFile DEF Next
<1> QED
  BY <1>1, <1>2 DEF FileInv

\* As long as an edit is the last change of the file, its hunk names the lines
\* on which the new text begins and ends, for any texts and any tool: also
\* for the first of the places an edit_file with replace_all has changed, but
\* not for an edit_file without it whose new_string String.replace expands.
THEOREM HunksLocateText == Spec => []HunkLocatesText
<1>1. FileInv => HunkLocatesText
  BY DEF FileInv, HunkInv
<1> QED
  BY InitFile, FileStep, <1>1, PTL DEF Spec

-----------------------------------------------------------------------------
(* What rejecting a write_file gives back.                                  *)

LEMMA WholeReversed ==
    ASSUME NEW s \in Texts, NEW h \in HunkType,
           h.start = 1, h.end = LineCount(s)
    PROVE  Reversed(s, h) = h.original
<1>0. LineCount(s) \in Nat \ {0} /\ h.original \in Texts
  BY LineCountIs DEF HunkType
<1>1. OffsetForLine(s, h.start) = 0
  BY DEF OffsetForLine
<1>2. OffsetForLine(s, LineCount(s) + 1) = Len(s)
  <2> DEFINE starts == {k \in DOMAIN s : s[k] = NL /\ LineAt(s, k) = LineCount(s) + 1}
  <2>1. starts = {}
    <3> SUFFICES ASSUME NEW k \in DOMAIN s, LineAt(s, k) = LineCount(s) + 1
                 PROVE  FALSE
      OBVIOUS
    <3>1. k \in 0 .. Len(s)
      BY DEF Texts
    <3>2. LineAt(s, k) <= LineCount(s)
      BY <3>1, LineWithin
    <3> QED
      BY <1>0, <3>2
  <2>2. ~(LineCount(s) + 1 <= 1)
    BY <1>0
  <2> QED
    BY <2>1, <2>2 DEF OffsetForLine
<1>3. Splice(s, 0, Len(s), h.original) = h.original
  <2>1. SubSeq(s, 1, 0) = <<>> /\ SubSeq(s, Len(s) + 1, Len(s)) = <<>>
    BY Whole
  <2>2. <<>> \o h.original = h.original /\ h.original \o <<>> = h.original
    BY <1>0, Whole
  <2> QED
    BY <2>1, <2>2 DEF Splice
<1> QED
  BY <1>1, <1>2, <1>3 DEF Reversed, LinesEnd

\* Only a reject changes what has been reversed.
LEMMA EditUndoesNothing ==
    ASSUME Shape, NEW e \in Edits, Edit(e), NEW n \in DOMAIN groups
    PROVE  undone'[n] = undone[n]
<1>1. n \in DOMAIN undone /\ undone \in Seq(Nat)
  BY DEF Shape
<1>2. undone' = undone \/ undone' = Append(undone, 0)
  BY DEF Edit, Begin, TakeSnapshot, Cancelled, Refused, ReadFile, WriteFile,
     WriteFileFails, Record, NothingToRollback, Rollback, history
<1> QED
  BY <1>1, <1>2

LEMMA RejectGivesBack ==
    ASSUME FileInv, Shape, NEW c \in Rejects, Reject(c),
           NEW n \in DOMAIN groups, groups[n].tool = "write",
           undone'[n] # undone[n], owner = groups[n].by, buffer \in {None, disk}
    PROVE  groups[n].original \in {disk', buffer'}
<1>0. /\ groups[n] \in HunkType /\ groups[n].modified \in Texts
      /\ n \in DOMAIN undone /\ undone \in Seq(Nat)
  <2>1. groups[n] \in HunkType
    BY DEF FileInv, Base, TypeInv
  <2>2. groups[n].modified \in Texts
    BY <2>1 DEF HunkType
  <2>3. \E S : groups \in Seq(S)
    BY DEF Shape
  <2>4. n \in DOMAIN undone /\ undone \in Seq(Nat)
    BY <2>3 DEF Shape
  <2> QED
    BY <2>1, <2>2, <2>4
<1>1. /\ groups[n].start = 1
      /\ groups[n].end = LineCount(groups[n].modified)
      /\ disk = groups[n].modified
  BY DEF FileInv, HunkInv, WholeFile
<1>2. Reversed(disk, groups[n]) = groups[n].original
  BY <1>0, <1>1, WholeReversed
<1>3. \A m \in DOMAIN groups : Undo(m) => m = n
  BY <1>0 DEF Undo
<1>4. ASSUME NEW m \in DOMAIN groups, RejectInEditor(c, m)
      PROVE  groups[n].original = buffer'
  <2>1. m = n
    BY <1>3, <1>4 DEF RejectInEditor
  <2> QED
    BY <1>2, <1>4, <2>1 DEF RejectInEditor
<1>5. CASE RejectWrites(c)
  <2>1. target[c] \in DOMAIN groups
    BY <1>5 DEF RejectWrites, FileInv, Base, RejectsInv, Rejecting
  <2>2. target[c] = n
    BY <1>3, <1>5, <2>1 DEF RejectWrites
  <2>3. content[c] = disk
    BY <1>5, <2>2 DEF RejectWrites, FileInv, FreshInv
  <2> QED
    BY <1>2, <1>5, <2>2, <2>3 DEF RejectWrites
<1>6. ASSUME \/ \E m \in DOMAIN groups : RejectOnDisk(c, m)
             \/ RejectReads(c) \/ RejectFails(c) \/ RejectSettles(c)
      PROVE  FALSE
  BY <1>6 DEF RejectOnDisk, RejectReads, RejectFails, RejectSettles, history
<1> QED
  BY <1>4, <1>5, <1>6 DEF Reject

\* Rejecting a write_file while it is the last change of the file, with no
\* editor open or with one that shows the file, gives back the text it
\* overwrote: for any texts, whatever calls and failures came before.
THEOREM RejectedWriteGivesBack == Spec => WriteUndone
<1> DEFINE Restores == \A n \in DOMAIN groups :
               groups[n].tool = "write" => RejectRestores(n, groups[n].original)
<1>1. FileInv /\ Shape /\ [Next]_vars => [Restores]_vars
  <2> SUFFICES ASSUME FileInv, Shape, Next,
                      NEW n \in DOMAIN groups, groups[n].tool = "write",
                      undone'[n] # undone[n], owner = groups[n].by,
                      buffer \in {None, disk}
               PROVE  groups[n].original \in {disk', buffer'}
    BY DEF RejectRestores
  <2>1. ASSUME NEW e \in Edits, Edit(e)
        PROVE  FALSE
    BY <2>1, EditUndoesNothing
  <2>2. ASSUME NEW c \in Rejects, Reject(c)
        PROVE  groups[n].original \in {disk', buffer'}
    BY <2>2, RejectGivesBack
  <2>3. CASE User
    BY <2>3, UserFrame DEF FileInv
  <2> QED
    BY <2>1, <2>2, <2>3 DEF Next
<1>2. Spec => []Shape
  BY InvHolds, PTL DEF Inv
<1> QED
  BY InitFile, FileStep, <1>1, <1>2, PTL DEF Spec, WriteUndone

-----------------------------------------------------------------------------
(* No hunk is reversed twice.                                               *)

\* While no two rejects have been under way at once: the one that is has not
\* reversed its hunk before it writes, and a hunk that has been reversed but
\* is still marked as applied is the one of a reject about to settle.
Alone == \A c, d \in Rejects : Rejecting(c) /\ Rejecting(d) => c = d
Settling(n) == \E c \in Rejects : pc[c] = "written" /\ target[c] = n
OnceInv ==
    ~raced =>
        /\ Alone
        /\ \A n \in DOMAIN groups :
               /\ undone[n] <= 1
               /\ groups[n].status = "applied" /\ undone[n] # 0 => Settling(n)
        /\ \A c \in Rejects : pc[c] \in {"read", "write"} => undone[target[c]] = 0

RacedInv == Shape /\ Base /\ raced \in BOOLEAN /\ OnceInv

LEMMA InitRaced == Init => RacedInv
<1> SUFFICES ASSUME Init PROVE RacedInv
  OBVIOUS
<1>1. DOMAIN groups = {} /\ raced = FALSE /\ \A c \in Calls : pc[c] = "idle"
  BY DEF Init
<1>2. OnceInv
  BY <1>1 DEF OnceInv, Alone, Rejecting, Calls
<1> QED
  BY <1>1, <1>2, InitInv, InitBase DEF RacedInv, Inv

LEMMA Counted ==
    ASSUME Shape
    PROVE  /\ undone \in Seq(Nat) /\ DOMAIN undone = DOMAIN groups
           /\ DOMAIN groups = 1 .. Len(groups) /\ Len(groups) \in Nat
           /\ Len(undone) = Len(groups)
           /\ \A n \in DOMAIN groups : undone[n] \in Nat
<1>1. \E S : groups \in Seq(S)
  BY DEF Shape
<1>2. undone \in Seq(Nat) /\ Len(undone) = Len(groups)
  BY DEF Shape
<1> QED
  BY <1>1, <1>2

\* A step that moves no reject, and adds at most a group.
LEMMA OnceFrame ==
    ASSUME RacedInv, raced' = raced, target' = target,
           \A c \in Rejects : pc'[c] = pc[c],
           DOMAIN groups \subseteq DOMAIN groups',
           \A n \in DOMAIN groups :
               groups'[n].status = groups[n].status /\ undone'[n] = undone[n],
           \A n \in DOMAIN groups' \ DOMAIN groups : undone'[n] = 0
    PROVE  OnceInv'
<1> SUFFICES ASSUME ~raced
             PROVE  /\ Alone'
                    /\ \A n \in DOMAIN groups' :
                           /\ undone'[n] <= 1
                           /\ groups'[n].status = "applied" /\ undone'[n] # 0
                                => Settling(n)'
                    /\ \A c \in Rejects : pc'[c] \in {"read", "write"}
                           => undone'[target'[c]] = 0
  BY DEF OnceInv
<1>1. Alone'
  BY DEF RacedInv, OnceInv, Alone, Rejecting
<1>2. ASSUME NEW n \in DOMAIN groups'
      PROVE  /\ undone'[n] <= 1
             /\ groups'[n].status = "applied" /\ undone'[n] # 0 => Settling(n)'
  <2>1. CASE n \in DOMAIN groups
    BY <2>1 DEF RacedInv, OnceInv, Settling
  <2>2. CASE n \notin DOMAIN groups
    BY <2>2
  <2> QED
    BY <2>1, <2>2
<1>3. ASSUME NEW c \in Rejects, pc'[c] \in {"read", "write"}
      PROVE  undone'[target'[c]] = 0
  <2>1. pc[c] \in {"read", "write"} /\ target'[c] = target[c]
    BY <1>3
  <2>2. target[c] \in DOMAIN groups
    BY <2>1 DEF RacedInv, Base, RejectsInv, Rejecting
  <2> QED
    BY <2>1, <2>2 DEF RacedInv, OnceInv
<1> QED
  BY <1>1, <1>2, <1>3

LEMMA EditOnce ==
    ASSUME RacedInv, NEW e \in Edits, Edit(e)
    PROVE  OnceInv' /\ raced' = raced
<1>1. raced' = raced /\ target' = target
  BY DEF Edit, Begin, TakeSnapshot, Cancelled, Refused, ReadFile, WriteFile,
     WriteFileFails, Record, NothingToRollback, Rollback, history
<1>2. \A c \in Rejects : pc'[c] = pc[c]
  BY EditFrame, Disjoint DEF RacedInv
<1>3. /\ undone \in Seq(Nat) /\ Len(undone) = Len(groups)
      /\ DOMAIN groups = 1 .. Len(groups) /\ Len(groups) \in Nat
      /\ DOMAIN undone = DOMAIN groups
  BY Counted DEF RacedInv
<1>4. CASE Record(e)
  <2>1. PICK h \in HunkType : h = Hunk(e, content[e])
    BY <1>4, HunkTyped DEF Record, RacedInv
  <2>2. groups' = Append(groups, h) /\ undone' = Append(undone, 0)
    BY <1>4, <2>1 DEF Record
  <2>3. groups \in Seq(HunkType)
    BY DEF RacedInv, Base, TypeInv
  <2>4. /\ DOMAIN groups' = DOMAIN groups \cup {Len(groups) + 1}
        /\ \A n \in DOMAIN groups : groups'[n] = groups[n]
    BY <1>3, <2>2, <2>3
  <2>5. /\ undone'[Len(groups) + 1] = 0
        /\ \A n \in DOMAIN groups : undone'[n] = undone[n]
    BY <1>3, <2>2
  <2> QED
    BY <1>1, <1>2, <2>4, <2>5, OnceFrame
<1>5. CASE ~Record(e)
  <2>1. groups' = groups /\ undone' = undone
    BY <1>5 DEF Edit, Begin, TakeSnapshot, Cancelled, Refused, ReadFile, WriteFile,
       WriteFileFails, NothingToRollback, Rollback, history
  <2> QED
    BY <1>1, <1>2, <2>1, OnceFrame
<1> QED
  BY <1>4, <1>5, <1>1

LEMMA UserOnce ==
    ASSUME RacedInv, User \/ UNCHANGED vars
    PROVE  OnceInv' /\ raced' = raced
BY UserFrame, OnceFrame DEF RacedInv

\* A reject that was not under way takes a hunk up: no other is, or the race
\* is on.
LEMMA Chosen ==
    ASSUME RacedInv, NEW c \in Rejects, NEW n \in DOMAIN groups, Choose(c, n)
    PROVE  /\ raced' \in BOOLEAN /\ pc[c] = "idle"
           /\ ~raced' => /\ ~raced /\ \A d \in Rejects : ~Rejecting(d)
                         /\ undone[n] = 0
<1>1. raced' \in BOOLEAN /\ pc[c] = "idle" /\ groups[n].status = "applied"
  BY DEF Choose, RacedInv
<1>2. ~raced' => ~raced /\ \A d \in Rejects : ~Rejecting(d)
  BY DEF Choose, RacedInv
<1>3. ASSUME ~raced'
      PROVE  undone[n] = 0
  <2>1. ~Settling(n)
    BY <1>2, <1>3 DEF Settling, Rejecting
  <2> QED
    BY <1>1, <1>2, <1>3, <2>1 DEF RacedInv, OnceInv
<1> QED
  BY <1>1, <1>2, <1>3

LEMMA UndoneOnce ==
    ASSUME Shape, NEW n \in DOMAIN groups, Undo(n)
    PROVE  /\ undone'[n] = undone[n] + 1
           /\ \A m \in DOMAIN groups : m # n => undone'[m] = undone[m]
BY Counted DEF Undo

LEMMA RejectOnce ==
    ASSUME RacedInv, NEW c \in Rejects, Reject(c)
    PROVE  OnceInv' /\ raced' \in BOOLEAN
<1>0. /\ pc \in [Calls -> Places] /\ c \in Calls /\ target \in [Rejects -> Nat]
      /\ raced \in BOOLEAN
      /\ DOMAIN groups' = DOMAIN groups
      /\ \A d \in Rejects : d # c => pc'[d] = pc[d] /\ target'[d] = target[d]
  BY RejectFrame, Disjoint DEF RacedInv, Base, TypeInv, Calls, SameHunks
<1>1. /\ \A n \in DOMAIN groups : undone[n] \in Nat
      /\ \A d \in Rejects : Rejecting(d) => target[d] \in DOMAIN groups
  BY Counted DEF RacedInv, Base, RejectsInv
\* What is left to show once the step is known
<1> DEFINE Goal == /\ \A d \in Rejects : Rejecting(d)' => d = c
                   /\ \A m \in DOMAIN groups :
                          /\ undone'[m] <= 1
                          /\ groups'[m].status = "applied" /\ undone'[m] # 0
                               => pc'[c] = "written" /\ target'[c] = m
                   /\ pc'[c] \in {"read", "write"} => undone'[target'[c]] = 0
<1>2. ASSUME ~raced' => Goal
      PROVE  OnceInv'
  <2> SUFFICES ASSUME Goal
               PROVE  /\ Alone'
                      /\ \A n \in DOMAIN groups' :
                             /\ undone'[n] <= 1
                             /\ groups'[n].status = "applied" /\ undone'[n] # 0
                                  => Settling(n)'
                      /\ \A d \in Rejects : pc'[d] \in {"read", "write"}
                             => undone'[target'[d]] = 0
    BY <1>2 DEF OnceInv
  <2>1. Alone'
    BY DEF Alone
  <2>2. \A n \in DOMAIN groups' :
             /\ undone'[n] <= 1
             /\ groups'[n].status = "applied" /\ undone'[n] # 0 => Settling(n)'
    BY <1>0 DEF Settling
  <2>3. \A d \in Rejects : pc'[d] \in {"read", "write"} => undone'[target'[d]] = 0
    BY DEF Rejecting
  <2> QED
    BY <2>1, <2>2, <2>3
\* What holds before it, unless it races
<1>3. ASSUME ~raced, Rejecting(c)
      PROVE  /\ \A d \in Rejects : d # c => ~Rejecting(d)
             /\ \A m \in DOMAIN groups :
                    /\ undone[m] <= 1
                    /\ groups[m].status = "applied" /\ undone[m] # 0
                         => pc[c] = "written" /\ target[c] = m
             /\ pc[c] \in {"read", "write"} => undone[target[c]] = 0
  <2>1. \A d \in Rejects : d # c => ~Rejecting(d)
    BY <1>3 DEF RacedInv, OnceInv, Alone
  <2>2. \A m \in DOMAIN groups : Settling(m) => pc[c] = "written" /\ target[c] = m
    BY <2>1 DEF Settling, Rejecting
  <2> QED
    BY <1>3, <2>1, <2>2 DEF RacedInv, OnceInv
<1>4. ASSUME NEW n \in DOMAIN groups, Choose(c, n)
      PROVE  /\ raced' \in BOOLEAN
             /\ ~raced' => /\ \A d \in Rejects : ~Rejecting(d)
                           /\ undone[n] = 0
                           /\ \A m \in DOMAIN groups :
                                  /\ undone[m] <= 1
                                  /\ groups[m].status = "applied" => undone[m] = 0
  <2>1. /\ raced' \in BOOLEAN
        /\ ~raced' => /\ ~raced /\ \A d \in Rejects : ~Rejecting(d)
                      /\ undone[n] = 0
    BY <1>4, Chosen
  <2>2. ASSUME ~raced'
        PROVE  \A m \in DOMAIN groups :
                  /\ undone[m] <= 1
                  /\ groups[m].status = "applied" => undone[m] = 0
    <3>1. \A m \in DOMAIN groups : ~Settling(m)
      BY <2>1, <2>2 DEF Settling, Rejecting
    <3> QED
      BY <2>1, <2>2, <3>1 DEF RacedInv, OnceInv
  <2> QED
    BY <2>1, <2>2
<1>5. ASSUME NEW n \in DOMAIN groups, RejectInEditor(c, n)
      PROVE  OnceInv' /\ raced' \in BOOLEAN
  <2>1. /\ Choose(c, n) /\ pc'[c] = "done" /\ SetRejected(n) /\ Undo(n)
        /\ target' = target
    BY <1>0, <1>5 DEF RejectInEditor, Goto
  <2>2. /\ undone'[n] = undone[n] + 1
        /\ \A m \in DOMAIN groups : m # n => undone'[m] = undone[m]
    BY <2>1, UndoneOnce DEF RacedInv
  <2>3. /\ groups'[n].status = "rejected"
        /\ \A m \in DOMAIN groups : m # n => groups'[m] = groups[m]
    BY <2>1, RejectedHunks DEF RacedInv, Base
  <2>4. ASSUME ~raced'
        PROVE  Goal
    <3>1. \A d \in Rejects : ~Rejecting(d)'
      BY <1>0, <1>4, <2>1, <2>4 DEF Rejecting
    <3>2. \A m \in DOMAIN groups :
             /\ undone'[m] <= 1
             /\ groups'[m].status = "applied" => undone'[m] = 0
      BY <1>1, <1>4, <2>1, <2>2, <2>3, <2>4
    <3> QED
      BY <2>1, <3>1, <3>2
  <2> HIDE DEF Goal
  <2> QED
    BY <1>2, <1>4, <2>1, <2>4
<1>6. ASSUME NEW n \in DOMAIN groups, RejectOnDisk(c, n)
      PROVE  OnceInv' /\ raced' \in BOOLEAN
  <2>1. /\ Choose(c, n) /\ pc'[c] = "read" /\ groups' = groups /\ undone' = undone
        /\ target'[c] = n
    BY <1>0, <1>6 DEF RejectOnDisk, Goto
  <2>2. ASSUME ~raced'
        PROVE  Goal
    BY <1>0, <1>4, <2>1, <2>2 DEF Rejecting
  <2> HIDE DEF Goal
  <2> QED
    BY <1>2, <1>4, <2>1, <2>2
<1>7. CASE RejectReads(c)
  <2>1. /\ pc[c] = "read" /\ pc'[c] \in {"done", "write"} /\ raced' = raced
        /\ groups' = groups /\ undone' = undone /\ target' = target
    BY <1>0, <1>7 DEF RejectReads, Goto, AfterFailure, history
  <2>2. ASSUME ~raced'
        PROVE  Goal
    BY <1>0, <1>3, <2>1, <2>2 DEF Rejecting
  <2> HIDE DEF Goal
  <2> QED
    BY <1>0, <1>2, <2>1, <2>2
<1>8. CASE RejectWrites(c)
  <2>1. /\ pc[c] = "write" /\ pc'[c] = "written" /\ raced' = raced
        /\ groups' = groups /\ Undo(target[c]) /\ target' = target
    BY <1>0, <1>8 DEF RejectWrites, Goto
  <2>2. target[c] \in DOMAIN groups
    BY <1>1, <2>1 DEF Rejecting
  <2>3. /\ undone'[target[c]] = undone[target[c]] + 1
        /\ \A m \in DOMAIN groups : m # target[c] => undone'[m] = undone[m]
    BY <2>1, <2>2, UndoneOnce DEF RacedInv
  <2>4. ASSUME ~raced'
        PROVE  Goal
    BY <1>0, <1>1, <1>3, <2>1, <2>2, <2>3, <2>4 DEF Rejecting
  <2> HIDE DEF Goal
  <2> QED
    BY <1>0, <1>2, <2>1, <2>4
<1>9. CASE RejectFails(c)
  <2>1. /\ pc[c] = "write" /\ pc'[c] = "done" /\ raced' = raced
        /\ groups' = groups /\ undone' = undone /\ target' = target
    BY <1>0, <1>9 DEF RejectFails, Goto, AfterFailure
  <2>2. ASSUME ~raced'
        PROVE  Goal
    BY <1>0, <1>3, <2>1, <2>2 DEF Rejecting
  <2> HIDE DEF Goal
  <2> QED
    BY <1>0, <1>2, <2>1, <2>2
<1>10. CASE RejectSettles(c)
  <2>1. /\ pc[c] = "written" /\ pc'[c] = "done" /\ raced' = raced
        /\ undone' = undone /\ SetRejected(target[c])
    BY <1>0, <1>10 DEF RejectSettles, Goto, history
  <2>2. target[c] \in DOMAIN groups
    BY <1>1, <2>1 DEF Rejecting
  <2>3. /\ groups'[target[c]].status = "rejected"
        /\ \A m \in DOMAIN groups : m # target[c] => groups'[m] = groups[m]
    BY <2>1, <2>2, RejectedHunks DEF RacedInv, Base
  <2>4. ASSUME ~raced'
        PROVE  Goal
    BY <1>0, <1>3, <2>1, <2>3, <2>4 DEF Rejecting
  <2> HIDE DEF Goal
  <2> QED
    BY <1>0, <1>2, <2>1, <2>4
<1> QED
  BY <1>5, <1>6, <1>7, <1>8, <1>9, <1>10 DEF Reject

\* Rejections that do not overlap reverse no hunk twice, whatever edits, typing
\* and failures come between them.
THEOREM NoHunkTwice == Spec => []ReversedOnce
<1>1. RacedInv /\ Inv /\ Inv' /\ [Next]_vars => RacedInv'
  <2> SUFFICES ASSUME RacedInv, Inv', [Next]_vars
               PROVE  RacedInv'
    OBVIOUS
  <2>1. Shape' /\ Base'
    BY BaseStep DEF RacedInv, Inv
  <2>2. OnceInv' /\ raced' \in BOOLEAN
    BY EditOnce, RejectOnce, UserOnce DEF RacedInv, Next
  <2> QED
    BY <2>1, <2>2 DEF RacedInv
<1>2. RacedInv => ReversedOnce
  BY Counted DEF RacedInv, OnceInv, ReversedOnce
<1> QED
  BY InitRaced, InvHolds, <1>1, <1>2, PTL DEF Spec

-----------------------------------------------------------------------------
(* What a rollback gives back.                                              *)

\* Beside an edit nobody else has meddled with, the snapshot map holds nothing
\* or what the edit found.
SnapshotInv ==
    \A e \in Edits \ meddled :
        /\ pc[e] = "snapshot" => snapshot = None
        /\ pc[e] \in {"read", "write", "written", "rollback"}
             => snapshot \in {None, before[e]}

\* A step that touches the snapshot map or the file meddles with every other
\* edit under way.
LEMMA EditSnapshot ==
    ASSUME Base, SnapshotInv, NEW e \in Edits, Edit(e)
    PROVE  SnapshotInv'
<1>0. /\ pc \in [Calls -> Places] /\ e \in Calls
      /\ before \in [Edits -> Texts \cup {None}]
      /\ \A d \in Edits : d # e => pc'[d] = pc[d] /\ before'[d] = before[d]
  BY EditFrame DEF Base, TypeInv, Calls
<1>1. ASSUME NEW d \in Edits \ meddled', d # e
      PROVE  /\ pc'[d] = "snapshot" => snapshot' = None
             /\ pc'[d] \in {"read", "write", "written", "rollback"}
                  => snapshot' \in {None, before'[d]}
  <2>1. CASE pc[d] \in Over \cup {"idle"}
    BY <1>0, <1>1, <2>1 DEF Over
  <2>2. CASE pc[d] \notin Over \cup {"idle"}
    <3>1. d \in UnderWay(e)
      BY <1>1, <2>2 DEF UnderWay
    <3>2. ~Meddle(e) /\ \A how : ~Finish(e, how)
      BY <1>1, <3>1 DEF Meddle, Finish
    <3>3. Refused(e) \/ ReadFile(e)
      BY <3>2 DEF Edit, Begin, TakeSnapshot, Cancelled, WriteFile, WriteFileFails,
         Record, NothingToRollback, Rollback
    <3>4. snapshot' = snapshot /\ meddled' = meddled
      BY <3>3 DEF Refused, ReadFile, history
    <3> QED
      BY <1>0, <1>1, <3>4 DEF SnapshotInv
  <2> QED
    BY <2>1, <2>2
<1>2. ASSUME e \notin meddled'
      PROVE  /\ pc'[e] = "snapshot" => snapshot' = None
             /\ pc'[e] \in {"read", "write", "written", "rollback"}
                  => snapshot' \in {None, before'[e]}
  <2>1. CASE Begin(e)
    BY <1>0, <2>1 DEF Begin, Goto
  <2>2. CASE TakeSnapshot(e)
    <3>1. pc'[e] = "read" /\ before'[e] = disk /\ e \notin meddled
          /\ pc[e] = "snapshot"
      BY <1>0, <1>2, <2>2 DEF TakeSnapshot, Goto, Meddle
    <3> QED
      BY <2>2, <3>1 DEF TakeSnapshot, SnapshotInv
  <2>3. CASE Cancelled(e) \/ Record(e) \/ NothingToRollback(e) \/ Rollback(e)
    <3>1. pc'[e] \in {"done", "restored"}
      BY <1>0, <2>3 DEF Cancelled, Record, NothingToRollback, Rollback, Finish, Goto
    <3> QED
      BY <3>1
  <2>4. CASE Refused(e) \/ ReadFile(e) \/ WriteFile(e) \/ WriteFileFails(e)
    <3>1. /\ pc[e] \in {"read", "write"} /\ e \notin meddled
          /\ pc'[e] \in {"rollback", "write", "written"}
          /\ snapshot' = snapshot /\ before' = before
      BY <1>0, <1>2, <2>4 DEF Refused, ReadFile, WriteFile, WriteFileFails, Goto,
         Meddle, history
    <3> QED
      BY <3>1 DEF SnapshotInv
  <2> QED
    BY <2>1, <2>2, <2>3, <2>4 DEF Edit
<1> QED
  BY <1>1, <1>2 DEF SnapshotInv

LEMMA RejectSnapshot ==
    ASSUME Base, SnapshotInv, NEW c \in Rejects, Reject(c)
    PROVE  SnapshotInv'
<1>1. snapshot' = snapshot /\ before' = before
      /\ \A e \in Edits : pc'[e] = pc[e]
  BY RejectFrame, Disjoint
<1>2. meddled \subseteq meddled'
  BY DEF Reject, RejectInEditor, RejectOnDisk, RejectReads, RejectWrites,
     RejectFails, RejectSettles, Meddle, history
<1> QED
  BY <1>1, <1>2 DEF SnapshotInv

LEMMA UserSnapshot ==
    ASSUME Base, SnapshotInv, User \/ UNCHANGED vars
    PROVE  SnapshotInv'
<1>1. meddled \subseteq meddled'
  BY DEF User, Open, Type, Save, Reload, Close, Meddle, vars, history
<1> QED
  BY <1>1, UserFrame DEF SnapshotInv

\* A tool that failed and was rolled back has left the file as it found it,
\* also when its write broke half way, unless another call or the user was at
\* work beside it.
THEOREM RolledBackFile == Spec => RollbackRestores
<1> DEFINE Restores == \A e \in Edits \ meddled :
               pc[e] = "rollback" /\ pc'[e] = "restored" => disk' = before[e]
<1>1. Init => SnapshotInv
  BY DEF Init, SnapshotInv, Calls
<1>2. Base /\ SnapshotInv /\ [Next]_vars => SnapshotInv'
  BY EditSnapshot, RejectSnapshot, UserSnapshot DEF Next
<1>3. Base /\ SnapshotInv /\ [Next]_vars => [Restores]_vars
  <2> SUFFICES ASSUME Base, SnapshotInv, Next, NEW e \in Edits \ meddled,
                      pc[e] = "rollback", pc'[e] = "restored"
               PROVE  disk' = before[e]
    OBVIOUS
  <2>1. ASSUME NEW d \in Edits, d # e, Edit(d)
        PROVE  FALSE
    <3>1. pc'[e] = pc[e]
      BY <2>1, EditFrame
    <3> QED
      BY <3>1
  <2>2. ASSUME NEW c \in Rejects, Reject(c)
        PROVE  FALSE
    <3>1. pc'[e] = pc[e]
      BY <2>2, RejectFrame, Disjoint
    <3> QED
      BY <3>1
  <2>3. ~User
    BY UserFrame
  <2>4. Edit(e)
    BY <2>1, <2>2, <2>3 DEF Next
  <2>5. pc \in [Calls -> Places] /\ e \in Calls
    BY DEF Base, TypeInv, Calls
  <2>6. Rollback(e)
    BY <2>4, <2>5 DEF Edit, Begin, TakeSnapshot, Cancelled, Refused, ReadFile,
       WriteFile, WriteFileFails, Record, NothingToRollback, Finish, Goto
  <2>7. disk' = snapshot /\ snapshot # None
    BY <2>5, <2>6 DEF Rollback, RolledBack, Finish, Goto
  <2> QED
    BY <2>7 DEF SnapshotInv
<1> QED
  BY InitBase, BaseStep, <1>1, <1>2, <1>3, PTL DEF Spec, RollbackRestores

=============================================================================
