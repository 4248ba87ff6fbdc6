------------------------ MODULE SessionMemoryProofs ------------------------
(***************************************************************************)
(* SessionMemory for any number of calls, any limit on the history and any *)
(* overlap of calls, prunes, writes and crashes.                           *)
(***************************************************************************)
EXTENDS SessionMemory, SubsequencesProofs, SequenceTheorems

-----------------------------------------------------------------------------
(* Types.  files is a function too: nothing else says what it is outside    *)
(* the names it has.                                                        *)

TypeInv == TypeOK /\ files = [f \in DOMAIN files |-> files[f]]

LEMMA SeqMonotone ==
    ASSUME NEW S, NEW T, S \subseteq T
    PROVE  Seq(S) \subseteq Seq(T)
<1> SUFFICES ASSUME NEW s \in Seq(S)
             PROVE  s \in Seq(T)
  OBVIOUS
<1>1. \A i \in 1 .. Len(s) : s[i] \in T
  OBVIOUS
<1> QED
  BY <1>1

LEMMA ParseTurns ==
    ASSUME NEW f \in File
    PROVE  Parse(f) \in Seq(Turn)
<1>1. f.lines \in Seq(Turn \cup {Bad})
  BY DEF File
<1>2. (Turn \cup {Bad}) \ {Bad} = Turn
  BY BadAssumption
<1> QED
  BY <1>1, <1>2, WithoutProperties DEF Parse

LEMMA CoversTyped ==
    ASSUME NEW s \in Seq(Turn)
    PROVE  Covers(s) \subseteq Calls \cup {0}
<1>1. \A i \in DOMAIN s : s[i] \in Turn
  OBVIOUS
<1>2. \A i \in DOMAIN s : s[i].of \subseteq Calls \cup {0}
  BY <1>1 DEF Turn
<1> QED
  BY <1>2 DEF Covers

LEMMA SplicedTyped ==
    ASSUME NEW s \in Seq(Turn), Len(s) > 2
    PROVE  /\ Spliced(s).old \in Seq(Turn)
           /\ Spliced(s).kept \in Seq(Turn)
           /\ Len(Spliced(s).kept) = 2
           /\ Spliced(s).kept[1] = s[Len(s) - 1]
           /\ Spliced(s).kept[2] = s[Len(s)]
           /\ s = Spliced(s).old \o Spliced(s).kept
<1>1. Spliced(s).old \in Seq(Turn)
  BY DEF Spliced
<1>2. Spliced(s).kept \in Seq(Turn)
  BY DEF Spliced
<1>3. /\ Len(Spliced(s).kept) = 2
      /\ Spliced(s).kept[1] = s[Len(s) - 1]
      /\ Spliced(s).kept[2] = s[Len(s)]
  BY DEF Spliced
<1>4. s = Spliced(s).old \o Spliced(s).kept
  <2>1. SubSeq(s, 1, Len(s)) = s
    BY SubSeqFull
  <2>2. /\ 1 \in 1 .. Len(s) + 1 /\ Len(s) - 2 \in 1 - 1 .. Len(s)
        /\ Len(s) \in Len(s) - 2 .. Len(s) /\ (Len(s) - 2) + 1 = Len(s) - 1
    BY LenProperties
  <2>3. SubSeq(s, 1, Len(s) - 2) \o SubSeq(s, (Len(s) - 2) + 1, Len(s)) =
            SubSeq(s, 1, Len(s))
    BY <2>2, ConcatAdjacentSubSeq
  <2> QED
    BY <2>1, <2>2, <2>3 DEF Spliced
<1> QED
  BY <1>1, <1>2, <1>3, <1>4

LEMMA SummaryTyped ==
    ASSUME NEW s \in Seq(Turn)
    PROVE  SummaryOf(s) \in Turn /\ NoSummary \in Turn
BY CoversTyped DEF SummaryOf, NoSummary, Turn

\* A nonempty set of numbers that has a bound has a greatest one.
LEMMA GreatestNumber ==
    ASSUME NEW n \in Nat, NEW P \in SUBSET (0 .. n), P # {}
    PROVE  \E m \in P : \A k \in P : k <= m
<1> DEFINE Q == {n - k : k \in P}
<1>1. Q \in SUBSET Nat /\ Q # {}
  <2>1. \A k \in P : n - k \in Nat
    OBVIOUS
  <2> QED
    BY <2>1
<1>2. PICK q \in Q : \A k \in Q : q <= k
  <2> HIDE DEF Q
  <2> QED
    BY <1>1, LeastNumber
<1>3. PICK m \in P : q = n - m
  OBVIOUS
<1>4. ASSUME NEW k \in P
      PROVE  k <= m
  <2>1. n - k \in Q
    OBVIOUS
  <2> QED
    BY <1>2, <1>3, <2>1
<1> QED
  BY <1>4

LEMMA NewestIsGreatest ==
    ASSUME NEW n \in Nat, NEW F \in SUBSET (0 .. n), F # {}
    PROVE  Newest(F) \in F /\ \A g \in F : g <= Newest(F)
BY GreatestNumber DEF Newest

LEMMA InitTypes == Init => TypeInv
<1> SUFFICES ASSUME Init
             PROVE  TypeInv
  OBVIOUS
<1>1. Spoken(0) \in Turn
  BY DEF Spoken, Turn
<1>2. Seq({Spoken(0), Bad}) \subseteq Seq(Turn \cup {Bad})
  BY <1>1, SeqMonotone
<1>3. \A f \in DOMAIN files : files[f] \in File
  BY <1>2, OldStoresAssumption DEF Init, File
<1>4. DOMAIN files \subseteq 0 .. now /\ files = [f \in DOMAIN files |-> files[f]]
  BY OldStoresAssumption DEF Init
<1>5. NoSession \in [id : 0 .. now, turns : Seq(Turn)]
  BY DEF Init, NoSession
<1>6. /\ turns \in Seq(Turn) /\ estimatedTokens \in Nat
      /\ now \in Nat
  BY DEF Init
<1>9. /\ running \in BOOLEAN
      /\ overlapped \in BOOLEAN /\ missedLoad \in BOOLEAN
      /\ blanked \subseteq Calls \cup {0}
  BY Zenon DEF Init
<1>7. /\ pc \in [Calls -> InRun \cup Ended \cup {"idle"}]
      /\ reading \in [Calls -> Nat]
      /\ compacted \in [Calls -> Seq(Turn)]
      /\ doomed \in [Calls -> SUBSET (0 .. now)]
  BY DEF Init
<1>8. agentSession \in [Calls -> [id : 0 .. now, turns : Seq(Turn)]]
  BY <1>5 DEF Init
<1> QED
  BY <1>3, <1>4, <1>6, <1>7, <1>8, <1>9 DEF TypeInv, TypeOK

LEMMA StepTypes ==
    ASSUME TypeInv, NEW r \in Calls, Step(r)
    PROVE  TypeInv'
<1> USE DEF TypeInv, TypeOK, Goto, InRun, Ended
<1>1. CASE Run(r)
  BY <1>1 DEF Run, Clear, locals
<1>2. CASE RunIgnored(r)
  BY <1>2 DEF RunIgnored, memory, locals
<1>3. CASE ListSessions(r)
  <2>1. reading' \in [Calls -> Nat]
    <3>1. CASE files # <<>>
      <4>1. DOMAIN files # {}
        <5> SUFFICES ASSUME DOMAIN files = {}
                     PROVE  files = <<>>
          BY <3>1
        <5>1. files = [f \in {} |-> files[f]]
          OBVIOUS
        <5> QED
          BY <5>1
      <4>2. Newest(DOMAIN files) \in Nat
        <5>1. Newest(DOMAIN files) \in DOMAIN files
          BY <4>1, NewestIsGreatest
        <5> QED
          BY <5>1
      <4> QED
        BY <1>3, <4>2 DEF ListSessions
    <3>2. CASE files = <<>>
      BY <1>3, <3>2 DEF ListSessions
    <3> QED
      BY <3>1, <3>2
  <2> QED
    BY <1>3, <2>1 DEF ListSessions, memory
<1>4. CASE ReadSession(r)
  <2>1. turns' \in Seq(Turn) /\ estimatedTokens' \in Nat
    <3>1. CASE reading[r] \in DOMAIN files /\ AddTurns(Parse(files[reading[r]]))
      <4>1. Parse(files[reading[r]]) \in Seq(Turn)
        BY <3>1, ParseTurns
      <4> QED
        BY <3>1, <4>1 DEF AddTurns
    <3> QED
      BY <1>4, <3>1 DEF ReadSession, memory
  <2> QED
    BY <1>4, <2>1 DEF ReadSession
<1>5. CASE StartCompaction(r)
  BY <1>5, SplicedTyped DEF StartCompaction
<1>6. CASE CompactionDone(r)
  <2>1. /\ SummaryOf(compacted[r]) \in Turn /\ NoSummary \in Turn
        /\ Covers(compacted[r]) \subseteq Calls \cup {0}
    BY SummaryTyped, CoversTyped
  <2>2. turns' \in Seq(Turn) /\ estimatedTokens' \in Nat
    <3>1. PICK t \in Turn : Restore(compacted[r], t)
      BY <1>6, <2>1 DEF CompactionDone
    <3> QED
      BY <3>1 DEF Restore
  <2>3. blanked' \subseteq Calls \cup {0}
    BY <1>6, <2>1 DEF CompactionDone
  <2> QED
    BY <1>6, <2>2, <2>3 DEF CompactionDone
<1>7. CASE Fail(r)
  BY <1>7 DEF Fail, memory
<1>8. ASSUME NEW s \in Seq(Turn), FinishLoop(r, s)
      PROVE  /\ now' \in {now, now + 1}
             /\ running' \in BOOLEAN
             /\ pc' \in [Calls -> InRun \cup Ended \cup {"idle"}]
             /\ agentSession' \in [Calls -> [id : 0 .. now', turns : Seq(Turn)]]
  <2>1. PICK id \in {now, now + 1} :
            /\ now' = id
            /\ agentSession' =
                   [agentSession EXCEPT ![r] = [id |-> id, turns |-> s]]
    BY <1>8 DEF FinishLoop
  <2>2. /\ id \in 0 .. now'
        /\ 0 .. now \subseteq 0 .. now'
    BY <2>1
  <2>3. [id |-> id, turns |-> s] \in [id : 0 .. now', turns : Seq(Turn)]
    BY <2>2
  <2>4. [id : 0 .. now, turns : Seq(Turn)]
            \subseteq [id : 0 .. now', turns : Seq(Turn)]
    BY <2>2
  <2>5. agentSession' \in [Calls -> [id : 0 .. now', turns : Seq(Turn)]]
    BY <2>1, <2>3, <2>4
  <2> QED
    BY <1>8, <2>1, <2>5 DEF FinishLoop
<1>9. ASSUME NEW s \in Seq(Turn), FinishLoop(r, s),
             turns' \in Seq(Turn), estimatedTokens' \in Nat,
             UNCHANGED <<files, reading, compacted, doomed, overlapped,
                         missedLoad, blanked>>
      PROVE  TypeInv'
  <2>1. now' \in {now, now + 1}
    BY <1>8, <1>9
  <2>3. now' \in Nat /\ 0 .. now \subseteq 0 .. now'
    BY <2>1
  <2>2. DOMAIN files' \subseteq 0 .. now' /\ doomed' \in [Calls -> SUBSET (0 .. now')]
    BY <1>9, <2>3
  <2> QED
    BY <1>8, <1>9, <2>2, <2>3
<1>10. CASE EndTurn(r)
  <2>1. Spoken(r) \in Turn
    BY DEF Spoken, Turn
  <2>2. /\ Append(turns, Spoken(r)) \in Seq(Turn)
        /\ turns' \in Seq(Turn) /\ estimatedTokens' \in Nat
    BY <1>10, <2>1 DEF EndTurn, AddTurns
  <2> QED
    BY <1>9, <1>10, <2>2 DEF EndTurn
<1>11. CASE EndLoop(r)
  BY <1>9, <1>11 DEF EndLoop, memory
<1>12. CASE WriteSession(r)
  <2>1. agentSession[r].id \in 0 .. now /\ agentSession[r].turns \in Seq(Turn)
    OBVIOUS
  <2>2. /\ [legacy |-> FALSE, lines |-> agentSession[r].turns] \in File
        /\ TornFile \in File
    <3>1. Seq(Turn) \subseteq Seq(Turn \cup {Bad}) /\ <<Bad>> \in Seq(Turn \cup {Bad})
      BY SeqMonotone
    <3> QED
      BY <2>1, <3>1 DEF File, TornFile
  <2>3. ASSUME NEW c \in File
        PROVE  LET F == Written(agentSession[r].id, c)
               IN  /\ DOMAIN F \subseteq 0 .. now
                   /\ \A f \in DOMAIN F : F[f] \in File
                   /\ F = [f \in DOMAIN F |-> F[f]]
    BY <2>1 DEF Written
  <2>4. /\ DOMAIN files' \subseteq 0 .. now
        /\ \A f \in DOMAIN files' : files'[f] \in File
        /\ files' = [f \in DOMAIN files' |-> files'[f]]
    BY <1>12, <2>2, <2>3 DEF WriteSession
  <2>5. NoSession \in [id : 0 .. now, turns : Seq(Turn)]
    BY DEF NoSession
  <2> QED
    BY <1>12, <2>4, <2>5 DEF WriteSession, memory
<1>13. CASE ListForPrune(r)
  <2>1. Outdated(DOMAIN files) \in SUBSET (0 .. now)
    BY DEF Outdated
  <2> QED
    BY <1>13, <2>1 DEF ListForPrune, memory
<1>14. CASE DeleteOldest(r)
  <2>1. PICK f \in doomed[r] :
            /\ doomed' = [doomed EXCEPT ![r] = @ \ {f}]
            /\ files' = Deleted(f) \/ files' = files
    BY <1>14 DEF DeleteOldest
  <2>2. /\ DOMAIN files' \subseteq 0 .. now
        /\ \A g \in DOMAIN files' : files'[g] \in File
        /\ files' = [g \in DOMAIN files' |-> files'[g]]
    BY <2>1 DEF Deleted
  <2>3. doomed' \in [Calls -> SUBSET (0 .. now)]
    BY <2>1
  <2>4. pc' \in [Calls -> InRun \cup Ended \cup {"idle"}]
    BY <1>14 DEF DeleteOldest
  <2> QED
    BY <1>14, <2>2, <2>3, <2>4 DEF DeleteOldest, memory
<1> QED
  BY <1>1, <1>2, <1>3, <1>4, <1>5, <1>6, <1>7, <1>10, <1>11, <1>12, <1>13,
     <1>14 DEF Step

LEMMA CrashTypes ==
    ASSUME TypeInv, Crash
    PROVE  TypeInv'
<1> USE DEF TypeInv, TypeOK
<1>1. PICK torn \in SUBSET
          {agentSession[r].id : r \in {q \in Calls : pc[q] = "writing"}} :
        files' = [f \in DOMAIN files \cup torn |->
                     IF f \in torn THEN TornFile ELSE files[f]]
  BY DEF Crash
<1>2. torn \subseteq 0 .. now
  OBVIOUS
<1>3. TornFile \in File
  <2>1. <<Bad>> \in Seq(Turn \cup {Bad})
    OBVIOUS
  <2> QED
    BY <2>1 DEF TornFile, File
<1>4. /\ DOMAIN files' \subseteq 0 .. now
      /\ \A g \in DOMAIN files' : files'[g] \in File
      /\ files' = [g \in DOMAIN files' |-> files'[g]]
  BY <1>1, <1>2, <1>3
<1>5. NoSession \in [id : 0 .. now, turns : Seq(Turn)]
  BY DEF NoSession
<1>6. pc' \in [Calls -> InRun \cup Ended \cup {"idle"}]
  BY DEF Crash, Ended
<1>7. agentSession' \in [Calls -> [id : 0 .. now', turns : Seq(Turn)]]
  BY <1>5 DEF Crash
<1>8. /\ turns' \in Seq(Turn) /\ estimatedTokens' \in Nat
      /\ now' \in Nat /\ now' = now
  BY DEF Crash
<1>9. /\ running' \in BOOLEAN
      /\ overlapped' \in BOOLEAN /\ missedLoad' \in BOOLEAN
      /\ blanked' \subseteq Calls \cup {0}
  BY DEF Crash
<1>10. /\ reading' \in [Calls -> Nat] /\ compacted' \in [Calls -> Seq(Turn)]
       /\ doomed' \in [Calls -> SUBSET (0 .. now')]
  BY DEF Crash
<1> QED
  BY <1>4, <1>6, <1>7, <1>8, <1>9, <1>10

LEMMA TypesKept ==
    ASSUME TypeInv, [Next]_vars
    PROVE  TypeInv'
<1>1. CASE Stop
  <2>1. /\ pc' \in [Calls -> InRun \cup Ended \cup {"idle"}]
        /\ compacted' \in [Calls -> Seq(Turn)]
    <3>1. CASE UNCHANGED <<pc, compacted>>
      BY <3>1 DEF TypeInv, TypeOK
    <3>2. ASSUME NEW r \in Calls, Goto(r, "hung"),
                 compacted' = [compacted EXCEPT ![r] = <<>>]
          PROVE  /\ pc' \in [Calls -> InRun \cup Ended \cup {"idle"}]
                 /\ compacted' \in [Calls -> Seq(Turn)]
      BY <3>2 DEF Goto, TypeInv, TypeOK, Ended
    <3> QED
      BY <1>1, <3>1, <3>2 DEF Stop
  <2>2. running' \in BOOLEAN
    BY <1>1 DEF Stop
  <2> QED
    BY <1>1, <2>1, <2>2 DEF Stop, memory, TypeInv, TypeOK
<1>2. CASE UNCHANGED vars
  BY <1>2 DEF vars, memory, locals, TypeInv, TypeOK
<1> QED
  BY <1>1, <1>2, StepTypes, CrashTypes DEF Next

\* Every value keeps its type, so nothing but turns and lines that do not
\* parse is ever loaded, compacted, written or pruned.
THEOREM TypeCorrect == Spec => []TypeOK
<1>1. TypeInv => TypeOK
  BY DEF TypeInv
<1> QED
  BY <1>1, InitTypes, TypesKept, PTL DEF Spec

-----------------------------------------------------------------------------
(* The newest session survives.                                             *)

\* Why it holds: a file chosen for deletion has a newer one beside it for as
\* long as it is chosen.  A prune that deletes the newer one has in its turn
\* chosen it, so a newer one still stands beside that.
HasNewer(d) == \E f \in DOMAIN files : f > d

IInv ==
    /\ now \in Nat
    /\ DOMAIN files \subseteq 0 .. now
    /\ agentSession = [r \in Calls |-> agentSession[r]]
    /\ \A r \in Calls : agentSession[r].id \in 0 .. now
    /\ doomed \in [Calls -> SUBSET Nat]
    /\ \A r \in Calls : \A d \in doomed[r] : HasNewer(d)

\* Whatever _pruneOldSessions picks has a newer file in the same listing.
LEMMA OutdatedHasNewer ==
    ASSUME NEW F \in SUBSET Nat, NEW d \in Outdated(F)
    PROVE  d \in F /\ \E f \in F : f > d
<1>1. d \in F /\ Cardinality({g \in F : g > d}) >= MaxHistoryFiles
    BY DEF Outdated
<1>2. {g \in F : g > d} # {}
    BY <1>1, FS_EmptySet, MaxHistoryFilesAssumption
<1> QED
    BY <1>1, <1>2

LEMMA InitIInv == Init => IInv
BY OldStoresAssumption DEF Init, IInv, NoSession, HasNewer

\* Steps that leave the files, the clock and the record of prunes alone.
LEMMA OtherSteps ==
    ASSUME IInv, UNCHANGED <<files, now, agentSession, doomed>>
    PROVE  IInv' /\ \A f \in DOMAIN files : \E g \in DOMAIN files' : g >= f
<1>1. DOMAIN files \subseteq Nat
    BY DEF IInv
<1> QED
    BY <1>1 DEF IInv, HasNewer

\* Building a session record moves the clock only.
LEMMA FinishStep ==
    ASSUME IInv, NEW r \in Calls, NEW s, FinishLoop(r, s),
           UNCHANGED <<files, doomed>>
    PROVE  IInv' /\ \A f \in DOMAIN files : \E g \in DOMAIN files' : g >= f
<1>1. PICK id \in {now, now + 1} :
        /\ now' = id
        /\ agentSession' =
               [agentSession EXCEPT ![r] = [id |-> id, turns |-> s]]
    BY DEF FinishLoop
<1>2. DOMAIN files \subseteq Nat /\ now' \in Nat /\ now' >= now
    BY <1>1 DEF IInv
<1>3. /\ agentSession' = [q \in Calls |-> agentSession'[q]]
      /\ \A q \in Calls : agentSession'[q].id \in 0 .. now'
    <2>1. \A q \in Calls : agentSession'[q] =
              IF q = r THEN [id |-> id, turns |-> s] ELSE agentSession[q]
        BY <1>1 DEF IInv
    <2>2. agentSession' = [q \in Calls |-> agentSession'[q]]
        BY <1>1 DEF IInv
    <2>3. \A q \in Calls : agentSession[q].id \in 0 .. now
        BY DEF IInv
    <2> QED
        BY <1>1, <1>2, <2>1, <2>2, <2>3 DEF IInv
<1>4. DOMAIN files' \subseteq 0 .. now'
    BY <1>2 DEF IInv
<1>5. (\A q \in Calls : \A d \in doomed[q] : HasNewer(d))'
    BY DEF IInv, HasNewer
<1> QED
    BY <1>2, <1>3, <1>4, <1>5 DEF IInv

\* Writing adds a file or replaces one.
LEMMA WriteStep ==
    ASSUME IInv, NEW r \in Calls, WriteSession(r)
    PROVE  IInv' /\ \A f \in DOMAIN files : \E g \in DOMAIN files' : g >= f
<1>1. /\ DOMAIN files \subseteq DOMAIN files'
      /\ DOMAIN files' \subseteq DOMAIN files \cup {agentSession[r].id}
    BY DEF WriteSession, Written
<1>2. agentSession' = [agentSession EXCEPT ![r] = NoSession]
    BY DEF WriteSession
<1>3. UNCHANGED <<now, doomed>>
    BY DEF WriteSession
<1>4. DOMAIN files \subseteq Nat /\ DOMAIN files' \subseteq 0 .. now'
    BY <1>1, <1>3 DEF IInv
<1>5. /\ agentSession' = [q \in Calls |-> agentSession'[q]]
      /\ \A q \in Calls : agentSession'[q].id \in 0 .. now'
    BY <1>2, <1>3 DEF IInv, NoSession
<1>6. (\A q \in Calls : \A d \in doomed[q] : HasNewer(d))'
    BY <1>1, <1>3 DEF IInv, HasNewer
<1> QED
    BY <1>1, <1>3, <1>4, <1>5, <1>6 DEF IInv

\* Listing the directory chooses files that have newer ones.
LEMMA ListStep ==
    ASSUME IInv, NEW r \in Calls, ListForPrune(r)
    PROVE  IInv' /\ \A f \in DOMAIN files : \E g \in DOMAIN files' : g >= f
<1>1. UNCHANGED <<files, now, agentSession>>
    BY DEF ListForPrune
<1>2. DOMAIN files \in SUBSET Nat
    BY DEF IInv
<1>3. CASE UNCHANGED doomed
    BY <1>1, <1>3, OtherSteps
<1>4. CASE doomed' = [doomed EXCEPT ![r] = Outdated(DOMAIN files)]
    <2>1. \A d \in Outdated(DOMAIN files) : d \in Nat /\ HasNewer(d)
        BY <1>2, OutdatedHasNewer DEF HasNewer
    <2>2. doomed' \in [Calls -> SUBSET Nat]
        BY <1>4, <2>1 DEF IInv
    <2>3. \A q \in Calls : \A d \in doomed'[q] : HasNewer(d)
        BY <1>4, <2>1 DEF IInv
    <2> QED
        BY <1>1, <1>2, <2>2, <2>3 DEF IInv, HasNewer
<1> QED
    BY <1>3, <1>4 DEF ListForPrune

\* Deleting the file f: whoever had f as a newer file has the newer one of f.
LEMMA DeleteStep ==
    ASSUME IInv, NEW r \in Calls, DeleteOldest(r)
    PROVE  IInv' /\ \A f \in DOMAIN files : \E g \in DOMAIN files' : g >= f
<1>1. PICK f \in doomed[r] : /\ doomed' = [doomed EXCEPT ![r] = @ \ {f}]
                             /\ files' = Deleted(f) \/ files' = files
    BY DEF DeleteOldest
<1>2. UNCHANGED <<now, agentSession>>
    BY DEF DeleteOldest
<1>3. DOMAIN files \subseteq Nat /\ f \in Nat
    BY DEF IInv
<1>4. PICK newer \in DOMAIN files : newer > f
    BY DEF IInv, HasNewer
<1>5. /\ DOMAIN files' \subseteq DOMAIN files
      /\ DOMAIN files \ {f} \subseteq DOMAIN files'
    BY <1>1 DEF Deleted
<1>6. newer \in DOMAIN files'
    BY <1>3, <1>4, <1>5
<1>7. /\ doomed' \in [Calls -> SUBSET Nat]
      /\ \A q \in Calls : doomed'[q] \subseteq doomed[q]
    BY <1>1 DEF IInv
<1>8. ASSUME NEW q \in Calls, NEW d \in doomed'[q]
      PROVE  HasNewer(d)'
    <2>1. d \in Nat /\ HasNewer(d)
        BY <1>7, <1>8 DEF IInv
    <2>2. PICK g \in DOMAIN files : g > d
        BY <2>1 DEF HasNewer
    <2>3. CASE g = f
        BY <1>3, <1>4, <1>6, <2>1, <2>2, <2>3 DEF HasNewer
    <2>4. CASE g # f
        BY <1>5, <2>2, <2>4 DEF HasNewer
    <2> QED
        BY <2>3, <2>4
<1>9. \A h \in DOMAIN files : \E g \in DOMAIN files' : g >= h
    BY <1>3, <1>4, <1>5, <1>6
<1> QED
    BY <1>2, <1>5, <1>7, <1>8, <1>9 DEF IInv

\* A crash loses the locals and tears at most a file that has a name.
LEMMA CrashStep ==
    ASSUME IInv, Crash
    PROVE  IInv' /\ \A f \in DOMAIN files : \E g \in DOMAIN files' : g >= f
<1>1. PICK torn \in SUBSET
          {agentSession[r].id : r \in {q \in Calls : pc[q] = "writing"}} :
        files' = [f \in DOMAIN files \cup torn |->
                     IF f \in torn THEN TornFile ELSE files[f]]
    BY DEF Crash
<1>2. /\ UNCHANGED now
      /\ agentSession' = [r \in Calls |-> NoSession]
      /\ doomed' = [r \in Calls |-> {}]
    BY DEF Crash
<1>3. DOMAIN files' = DOMAIN files \cup torn
    BY <1>1
<1>4. torn \subseteq 0 .. now
    BY DEF IInv
<1>5. DOMAIN files \subseteq 0 .. now /\ now \in Nat
    BY DEF IInv
<1>6. IInv'
    BY <1>2, <1>3, <1>4, <1>5 DEF IInv, NoSession
<1> QED
    BY <1>3, <1>5, <1>6

LEMMA NextStep ==
    ASSUME IInv, [Next]_vars
    PROVE  IInv' /\ \A f \in DOMAIN files : \E g \in DOMAIN files' : g >= f
<1> USE DEF memory, locals
<1>1. CASE UNCHANGED vars
    BY <1>1, OtherSteps DEF vars
<1>2. CASE Stop
    BY <1>2, OtherSteps DEF Stop
<1>3. CASE Crash
    BY <1>3, CrashStep
<1>4. ASSUME NEW r \in Calls, Step(r)
      PROVE  IInv' /\ \A f \in DOMAIN files : \E g \in DOMAIN files' : g >= f
    <2>1. CASE Run(r)
        BY <2>1, OtherSteps DEF Run
    <2>2. CASE RunIgnored(r)
        BY <2>2, OtherSteps DEF RunIgnored
    <2>3. CASE ListSessions(r)
        BY <2>3, OtherSteps DEF ListSessions
    <2>4. CASE ReadSession(r)
        BY <2>4, OtherSteps DEF ReadSession
    <2>5. CASE StartCompaction(r)
        BY <2>5, OtherSteps DEF StartCompaction
    <2>6. CASE CompactionDone(r)
        BY <2>6, OtherSteps DEF CompactionDone
    <2>7. CASE Fail(r)
        BY <2>7, OtherSteps DEF Fail
    <2>8. CASE EndTurn(r)
        BY <2>8, FinishStep DEF EndTurn
    <2>9. CASE EndLoop(r)
        BY <2>9, FinishStep DEF EndLoop
    <2>10. CASE WriteSession(r)
        BY <2>10, WriteStep
    <2>11. CASE ListForPrune(r)
        BY <2>11, ListStep
    <2>12. CASE DeleteOldest(r)
        BY <2>12, DeleteStep
    <2> QED
        BY <1>4, <2>1, <2>2, <2>3, <2>4, <2>5, <2>6, <2>7, <2>8, <2>9, <2>10,
           <2>11, <2>12 DEF Step
<1> QED
    BY <1>1, <1>2, <1>3, <1>4 DEF Next

\* MemoryStore: the newest session file outlives every prune.
THEOREM PruningKeepsNewest == Spec => NewestSurvives
<1>1. Init => IInv
    BY InitIInv
<1>2. IInv /\ [Next]_vars => IInv'
    BY NextStep
<1>3. IInv /\ [Next]_vars =>
          [\A f \in DOMAIN files : \E g \in DOMAIN files' : g >= f]_vars
    BY NextStep
<1> QED
    BY <1>1, <1>2, <1>3, PTL DEF Spec, NewestSurvives

-----------------------------------------------------------------------------
(* The estimate.                                                            *)

\* Where the estimate may exceed the size.
Lost == {"compacting", "rejected", "hung"}

\* The memory grows by as much as the estimate, and no call leaves Lost.
LEMMA SameSlack ==
    ASSUME TypeInv, TypeInv', EstimateIsSize,
           estimatedTokens' - Len(turns') = estimatedTokens - Len(turns),
           \A q \in Calls : pc[q] \in Lost => pc'[q] \in Lost
    PROVE  EstimateIsSize'
<1>1. /\ Len(turns) \in Nat /\ Len(turns') \in Nat
      /\ estimatedTokens \in Nat /\ estimatedTokens' \in Nat
  BY DEF TypeInv, TypeOK
<1>2. CASE estimatedTokens = Len(turns)
  BY <1>1, <1>2 DEF EstimateIsSize
<1>3. CASE /\ estimatedTokens > Len(turns)
           /\ \E r \in Calls : pc[r] \in Lost
  BY <1>1, <1>3 DEF EstimateIsSize, Lost
<1> QED
  BY <1>2, <1>3 DEF EstimateIsSize, Lost

\* A call goes from anywhere outside Lost to anywhere, the memory stays.
LEMMA OutsideLost ==
    ASSUME TypeInv, TypeInv', EstimateIsSize, NEW r \in Calls,
           NEW where, Goto(r, where), pc[r] \notin Lost \/ where \in Lost,
           UNCHANGED memory
    PROVE  EstimateIsSize'
<1>1. \A q \in Calls : pc[q] \in Lost => pc'[q] \in Lost
  BY DEF Goto, TypeInv, TypeOK
<1> QED
  BY <1>1, SameSlack DEF memory

LEMMA EstimateStep ==
    ASSUME TypeInv, TypeInv', EstimateIsSize, NEW r \in Calls, Step(r)
    PROVE  EstimateIsSize'
<1> USE DEF Lost
<1>1. CASE Run(r)
  BY <1>1 DEF Run, Clear, EstimateIsSize
<1>2. CASE RunIgnored(r)
  BY <1>2, OutsideLost DEF RunIgnored, NextCall
<1>3. CASE ListSessions(r)
  <2>1. PICK where \in {"reading", "working"} : Goto(r, where)
    BY <1>3 DEF ListSessions
  <2> QED
    BY <1>3, <2>1, OutsideLost DEF ListSessions
<1>4. CASE ReadSession(r)
  <2>1. CASE UNCHANGED memory
    BY <1>4, <2>1, OutsideLost DEF ReadSession
  <2>2. CASE reading[r] \in DOMAIN files /\ AddTurns(Parse(files[reading[r]]))
    <3>1. Parse(files[reading[r]]) \in Seq(Turn)
      BY <2>2, ParseTurns DEF TypeInv, TypeOK
    <3>2. turns \in Seq(Turn) /\ estimatedTokens \in Nat
      BY DEF TypeInv, TypeOK
    <3>3. /\ Len(turns') = Len(turns) + Len(Parse(files[reading[r]]))
          /\ estimatedTokens' =
                 estimatedTokens + Len(Parse(files[reading[r]]))
      BY <2>2, <3>1, <3>2, ConcatProperties DEF AddTurns
    <3>4. estimatedTokens' - Len(turns') = estimatedTokens - Len(turns)
      BY <3>1, <3>2, <3>3, LenProperties
    <3>5. \A q \in Calls : pc[q] \in Lost => pc'[q] \in Lost
      BY <1>4 DEF ReadSession, Goto, TypeInv, TypeOK
    <3> QED
      BY <3>4, <3>5, SameSlack
  <2> QED
    BY <1>4, <2>1, <2>2 DEF ReadSession
<1>5. CASE StartCompaction(r)
  <2>1. Len(turns') = 2 /\ pc'[r] = "compacting"
    BY <1>5, SplicedTyped DEF StartCompaction, Goto, TypeInv, TypeOK
  <2>2. estimatedTokens' > 2
    BY <1>5 DEF StartCompaction, EstimateIsSize, TypeInv, TypeOK
  <2> QED
    BY <2>1, <2>2 DEF EstimateIsSize
<1>6. CASE CompactionDone(r)
  <2>1. /\ SummaryOf(compacted[r]) \in Turn /\ NoSummary \in Turn
        /\ turns \in Seq(Turn)
    BY SummaryTyped DEF TypeInv, TypeOK
  <2>2. Len(turns') = Len(turns) + 1
    BY <1>6, <2>1 DEF CompactionDone, Restore
  <2> QED
    BY <1>6, <2>2 DEF CompactionDone, Restore, EstimateIsSize
<1>7. CASE Fail(r)
  BY <1>7, OutsideLost DEF Fail
<1>8. CASE EndTurn(r)
  <2>1. Len(turns') = Len(turns) + 1 /\ estimatedTokens' = estimatedTokens + 1
    BY <1>8 DEF EndTurn, AddTurns, TypeInv, TypeOK
  <2>2. \A q \in Calls : pc[q] \in Lost => pc'[q] \in Lost
    BY <1>8 DEF EndTurn, FinishLoop, Goto, TypeInv, TypeOK
  <2>3. estimatedTokens' - Len(turns') = estimatedTokens - Len(turns)
    BY <2>1 DEF TypeInv, TypeOK
  <2> QED
    BY <2>2, <2>3, SameSlack
<1>9. CASE EndLoop(r)
  BY <1>9, OutsideLost DEF EndLoop, FinishLoop
<1>10. CASE WriteSession(r)
  <2>1. PICK where \in {"pruning", "unpruned"} : Goto(r, where)
    BY <1>10 DEF WriteSession
  <2> QED
    BY <1>10, <2>1, OutsideLost DEF WriteSession
<1>11. CASE ListForPrune(r)
  <2>1. PICK where \in {"done", "deleting", "unpruned"} : Goto(r, where)
    BY <1>11 DEF ListForPrune
  <2> QED
    BY <1>11, <2>1, OutsideLost DEF ListForPrune
<1>12. CASE DeleteOldest(r)
  <2>1. PICK where : Goto(r, where)
    BY <1>12 DEF DeleteOldest
  <2> QED
    BY <1>12, <2>1, OutsideLost DEF DeleteOldest
<1> QED
  BY <1>1, <1>2, <1>3, <1>4, <1>5, <1>6, <1>7, <1>8, <1>9, <1>10, <1>11,
     <1>12 DEF Step

LEMMA EstimateKept ==
    ASSUME TypeInv, EstimateIsSize, [Next]_vars
    PROVE  EstimateIsSize'
<1>1. TypeInv'
  BY TypesKept
<1>2. CASE Stop
  <2>1. CASE UNCHANGED pc
    BY <1>2, <2>1 DEF Stop, EstimateIsSize, memory
  <2>2. CASE \E r \in Calls : Goto(r, "hung")
    BY <1>1, <1>2, <2>2, OutsideLost DEF Stop, Lost
  <2> QED
    BY <1>2, <2>1, <2>2 DEF Stop
<1>3. CASE Crash
  BY <1>3 DEF Crash, EstimateIsSize
<1>4. CASE UNCHANGED vars
  BY <1>4 DEF vars, memory, EstimateIsSize
<1> QED
  BY <1>1, <1>2, <1>3, <1>4, EstimateStep DEF Next

\* ConversationMemory: the estimate that decides on compaction is never below
\* the size of the memory, and above it only when a compaction took turns out
\* and has not come back.
THEOREM EstimateHolds == Spec => []EstimateIsSize
<1>1. Init => EstimateIsSize
  BY DEF Init, EstimateIsSize
<1> QED
  BY <1>1, InitTypes, TypesKept, EstimateKept, PTL DEF Spec

-----------------------------------------------------------------------------
(* The bound on the history.                                                *)

\* Calls that may have a file more to answer for, and those of them that have
\* chosen what to delete and have deleted all they came to.
Counted == {r \in Calls : pc[r] \in
               {"pruning", "deleting", "skipping", "unpruned", "crashed"}}
Deleting == {r \in Calls : pc[r] = "deleting"}

\* What is left when the calls in D have deleted what they chose.
Left(D) == DOMAIN files \ UNION {doomed[q] : q \in D}

\* The bound also holds for what any of the calls under way will leave, the
\* ones that leave it not counted.
Bounded ==
    \A D \in SUBSET Deleting :
        Cardinality(Left(D)) <= MaxHistoryFiles + Cardinality(Counted \ D)

LEMMA FilesFinite ==
    ASSUME TypeInv
    PROVE  /\ IsFiniteSet(DOMAIN files)
           /\ \A S \in SUBSET Calls : IsFiniteSet(S) /\ Cardinality(S) \in Nat
           /\ \A S \in SUBSET DOMAIN files :
                  IsFiniteSet(S) /\ Cardinality(S) \in Nat
<1>1. IsFiniteSet(Calls)
  BY NumCallsAssumption, FS_Interval DEF Calls
<1>2. IsFiniteSet(DOMAIN files)
  <2>1. IsFiniteSet(0 .. now)
    <3>1. 0 \in Int /\ now \in Int
      BY DEF TypeInv, TypeOK
    <3> QED
      BY <3>1, FS_Interval
  <2> QED
    BY <2>1, FS_Subset DEF TypeInv, TypeOK
<1> QED
  BY <1>1, <1>2, FS_Subset, FS_CardinalityType

\* All but the outdated names are at most MAX_HISTORY_FILES.
LEMMA KeptAreFew ==
    ASSUME NEW n \in Nat, NEW F \in SUBSET (0 .. n)
    PROVE  Cardinality(F \ Outdated(F)) <= MaxHistoryFiles
<1> DEFINE K == F \ Outdated(F)
<1>1. IsFiniteSet(F)
  <2>1. IsFiniteSet(0 .. n)
    BY FS_Interval
  <2> QED
    BY <2>1, FS_Subset
<1>4. F \subseteq Nat
  OBVIOUS
<1>2. CASE K = {}
  BY <1>2, FS_EmptySet, MaxHistoryFilesAssumption
<1>3. CASE K # {}
  <2>1. PICK m \in K : \A k \in K : m <= k
    <3>1. K \in SUBSET Nat
      BY <1>4
    <3> HIDE DEF K
    <3> QED
      BY <1>3, <3>1, LeastNumber
  <2> DEFINE newer == {g \in F : g > m}
  <2>2. IsFiniteSet(newer) /\ Cardinality(newer) \in Nat
    BY <1>1, FS_Subset, FS_CardinalityType
  <2>3. Cardinality(newer) < MaxHistoryFiles
    <3>1. ~(Cardinality(newer) >= MaxHistoryFiles)
      BY DEF Outdated
    <3> QED
      BY <2>2, <3>1, MaxHistoryFilesAssumption
  <2>4. K \subseteq newer \cup {m}
    <3> SUFFICES ASSUME NEW k \in K
                 PROVE  k \in newer \/ k = m
      OBVIOUS
    <3>1. k \in F /\ k \in Nat /\ m \in Nat
      BY <1>4
    <3>2. m <= k
      BY <2>1
    <3>3. k > m \/ k = m
      BY <3>1, <3>2
    <3> QED
      BY <3>1, <3>3
  <2>5. /\ IsFiniteSet(newer \cup {m})
        /\ Cardinality(newer \cup {m}) = Cardinality(newer) + 1
    <3>1. m \notin newer
      OBVIOUS
    <3> QED
      BY <2>2, <3>1, FS_AddElement
  <2> HIDE DEF K, newer
  <2>6. Cardinality(K) <= Cardinality(newer) + 1 /\ Cardinality(K) \in Nat
    BY <2>4, <2>5, FS_Subset, FS_CardinalityType
  <2> QED
    BY <2>2, <2>3, <2>6, MaxHistoryFilesAssumption DEF K
<1> QED
  BY <1>2, <1>3

LEMMA InitBounded == Init => Bounded
<1> SUFFICES ASSUME Init, NEW D \in SUBSET Deleting
             PROVE  Cardinality(Left(D)) <=
                        MaxHistoryFiles + Cardinality(Counted \ D)
  BY DEF Bounded
<1>1. TypeInv
  BY InitTypes
<1>2. Left(D) \subseteq {0}
  BY OldStoresAssumption DEF Init, Left
<1>3. Cardinality(Left(D)) <= 1
  <2>1. IsFiniteSet({0}) /\ Cardinality({0}) = 1
    BY FS_Singleton
  <2> QED
    BY <1>2, <2>1, FS_Subset
<1>4. Cardinality(Counted \ D) \in Nat /\ Cardinality(Left(D)) \in Nat
  BY <1>1, FilesFinite DEF Counted, Left
<1> QED
  BY <1>3, <1>4, MaxHistoryFilesAssumption

\* No file is added, no choice forgotten and no call stops being counted.
LEMMA NothingAdded ==
    ASSUME TypeInv, TypeInv', Bounded, DOMAIN files' \subseteq DOMAIN files,
           Deleting' \subseteq Deleting, Counted \subseteq Counted',
           \A q \in Deleting' : \A f \in doomed[q] :
               f \in doomed'[q] \/ f \notin DOMAIN files'
    PROVE  Bounded'
<1> SUFFICES ASSUME NEW D \in SUBSET Deleting'
             PROVE  Cardinality(Left(D)') <=
                        MaxHistoryFiles + Cardinality(Counted' \ D)
  BY DEF Bounded
<1>1. Left(D)' \subseteq Left(D)
  BY DEF Left
<1>2. Cardinality(Left(D)') <= Cardinality(Left(D))
  <2>1. IsFiniteSet(Left(D))
    BY FilesFinite DEF Left
  <2> QED
    BY <1>1, <2>1, FS_Subset
<1>3. Cardinality(Counted \ D) <= Cardinality(Counted' \ D)
  <2>1. IsFiniteSet(Counted' \ D)
    BY FilesFinite DEF Counted
  <2> QED
    BY <2>1, FS_Subset
<1>4. Cardinality(Left(D)) <= MaxHistoryFiles + Cardinality(Counted \ D)
  BY DEF Bounded
<1>5. /\ Cardinality(Left(D)) \in Nat /\ Cardinality(Counted \ D) \in Nat
      /\ Left(D)' \in SUBSET DOMAIN files'
      /\ Counted' \ D \in SUBSET Calls
  BY FilesFinite DEF Left, Counted
<1>6. Cardinality(Left(D)') \in Nat /\ Cardinality(Counted' \ D) \in Nat
  <2>1. Left(D)' \in SUBSET DOMAIN files
    BY <1>5
  <2> QED
    BY <1>5, <2>1, FilesFinite
<1> QED
  BY <1>2, <1>3, <1>4, <1>5, <1>6, MaxHistoryFilesAssumption

\* A call moves among the places where it is not counted, or to one where it
\* is, and the files and what is to be deleted stay.
LEMMA FilesStay ==
    ASSUME TypeInv, TypeInv', Bounded, NEW r \in Calls, NEW where,
           Goto(r, where), r \notin Counted \/ where = "unpruned",
           where # "deleting", UNCHANGED <<files, doomed>>
    PROVE  Bounded'
<1>1. /\ Deleting' \subseteq Deleting
      /\ Counted \subseteq Counted'
  BY DEF Goto, Deleting, Counted, TypeInv, TypeOK
<1> QED
  BY <1>1, NothingAdded

LEMMA WriteBounded ==
    ASSUME TypeInv, TypeInv', Bounded, NEW r \in Calls, WriteSession(r)
    PROVE  Bounded'
<1> SUFFICES ASSUME NEW D \in SUBSET Deleting'
             PROVE  Cardinality(Left(D)') <=
                        MaxHistoryFiles + Cardinality(Counted' \ D)
  BY DEF Bounded
<1>1. /\ Deleting' = Deleting
      /\ Counted' = Counted \cup {r}
      /\ r \notin Counted /\ r \notin Deleting
  BY DEF WriteSession, Goto, Deleting, Counted, TypeInv, TypeOK
<1>2. Left(D)' \subseteq Left(D) \cup {agentSession[r].id}
  BY DEF WriteSession, Written, Left
<1>3. /\ IsFiniteSet(Left(D)) /\ Cardinality(Left(D)) \in Nat
      /\ IsFiniteSet(Counted \ D) /\ Cardinality(Counted \ D) \in Nat
  BY FilesFinite DEF Left, Counted
<1>4. /\ Cardinality(Left(D)') <= Cardinality(Left(D)) + 1
      /\ Cardinality(Left(D)') \in Nat
  <2> DEFINE S == Left(D) \cup {agentSession[r].id}
  <2>1. IsFiniteSet(S) /\ Cardinality(S) <= Cardinality(Left(D)) + 1
    <3>1. /\ IsFiniteSet(S)
          /\ Cardinality(S) = IF agentSession[r].id \in Left(D)
                              THEN Cardinality(Left(D))
                              ELSE Cardinality(Left(D)) + 1
      BY <1>3, FS_AddElement
    <3> QED
      BY <1>3, <3>1
  <2> HIDE DEF S
  <2>2. /\ IsFiniteSet(Left(D)') /\ Cardinality(Left(D)') <= Cardinality(S)
        /\ Cardinality(S) \in Nat /\ Cardinality(Left(D)') \in Nat
    <3>1. Left(D)' \in SUBSET S
      BY <1>2 DEF S
    <3> QED
      BY <2>1, <3>1, FS_Subset, FS_CardinalityType
  <2> QED
    BY <1>3, <2>1, <2>2
<1>5. Cardinality(Counted' \ D) = Cardinality(Counted \ D) + 1
  <2>1. Counted' \ D = (Counted \ D) \cup {r} /\ r \notin Counted \ D
    BY <1>1
  <2> QED
    BY <1>3, <2>1, FS_AddElement
<1>6. Cardinality(Left(D)) <= MaxHistoryFiles + Cardinality(Counted \ D)
  BY <1>1 DEF Bounded
<1> QED
  BY <1>3, <1>4, <1>5, <1>6, MaxHistoryFilesAssumption

\* What a listing does not choose is within the limit by itself.
LEMMA ListBounded ==
    ASSUME TypeInv, TypeInv', Bounded, NEW r \in Calls, ListForPrune(r)
    PROVE  Bounded'
<1>1. CASE Goto(r, "unpruned") /\ UNCHANGED doomed
  BY <1>1, FilesStay DEF ListForPrune
<1>2. CASE /\ doomed' = [doomed EXCEPT ![r] = Outdated(DOMAIN files)]
           /\ Goto(r, IF doomed'[r] = {} THEN "done" ELSE "deleting")
  <2> SUFFICES ASSUME NEW D \in SUBSET Deleting'
               PROVE  Cardinality(Left(D)') <=
                          MaxHistoryFiles + Cardinality(Counted' \ D)
    BY DEF Bounded
  <2>1. files' = files /\ doomed'[r] = Outdated(DOMAIN files)
    BY <1>2 DEF ListForPrune, TypeInv, TypeOK
  <2>2. Cardinality(DOMAIN files \ Outdated(DOMAIN files)) <= MaxHistoryFiles
    BY KeptAreFew DEF TypeInv, TypeOK
  <2>3. Cardinality(Counted' \ D) \in Nat
    <3>1. Counted' \ D \in SUBSET Calls
      BY DEF Counted
    <3> QED
      BY <3>1, FilesFinite
  <2>4. CASE \/ r \in D
             \/ Outdated(DOMAIN files) = {}
    <3>1. Left(D)' \subseteq DOMAIN files \ Outdated(DOMAIN files)
      BY <2>1, <2>4 DEF Left
    <3>2. /\ Cardinality(Left(D)') <=
                 Cardinality(DOMAIN files \ Outdated(DOMAIN files))
          /\ Cardinality(DOMAIN files \ Outdated(DOMAIN files)) \in Nat
      <4>1. IsFiniteSet(DOMAIN files \ Outdated(DOMAIN files))
        BY FilesFinite
      <4> QED
        BY <3>1, <4>1, FS_Subset, FS_CardinalityType
    <3>3. Cardinality(Left(D)') \in Nat
      BY <3>1, FilesFinite
    <3> QED
      BY <2>2, <2>3, <3>2, <3>3, MaxHistoryFilesAssumption
  <2>5. CASE r \notin D /\ Outdated(DOMAIN files) # {}
    <3>1. pc[r] = "pruning" /\ pc' = [pc EXCEPT ![r] = "deleting"]
      BY <1>2, <2>1, <2>5 DEF ListForPrune, Goto
    <3>2. Counted' = Counted /\ D \subseteq Deleting
      BY <2>5, <3>1 DEF Counted, Deleting, TypeInv, TypeOK
    <3>3. Left(D)' = Left(D)
      <4>1. \A q \in D : doomed'[q] = doomed[q]
        BY <1>2, <2>5, <3>2 DEF Deleting, TypeInv, TypeOK
      <4> QED
        BY <2>1, <4>1 DEF Left
    <3> QED
      BY <3>2, <3>3 DEF Bounded
  <2> QED
    BY <2>4, <2>5
<1> QED
  BY <1>1, <1>2 DEF ListForPrune

\* The last of a call's deletions, all done: what it leaves is what the bound
\* said it would leave.
LEMMA PruneEnds ==
    ASSUME TypeInv, TypeInv', Bounded, NEW r \in Calls, r \in Deleting,
           pc' = [pc EXCEPT ![r] = "done"],
           NEW f, doomed[r] = {f}, files' = Deleted(f),
           \A q \in Calls : q # r => doomed'[q] = doomed[q]
    PROVE  Bounded'
<1> SUFFICES ASSUME NEW D \in SUBSET Deleting'
             PROVE  Cardinality(Left(D)') <=
                        MaxHistoryFiles + Cardinality(Counted' \ D)
  BY DEF Bounded
<1>1. r \notin D /\ D \cup {r} \subseteq Deleting
  BY DEF Deleting, TypeInv, TypeOK
<1>2. Left(D)' = Left(D \cup {r})
  <2>1. \A q \in D : doomed'[q] = doomed[q]
    BY <1>1 DEF Deleting
  <2>2. DOMAIN files' = DOMAIN files \ doomed[r]
    BY DEF Deleted
  <2> QED
    BY <2>1, <2>2 DEF Left
<1>3. Counted' \ D = Counted \ (D \cup {r})
  BY DEF Counted, TypeInv, TypeOK
<1> QED
  BY <1>1, <1>2, <1>3 DEF Bounded

LEMMA DeleteBounded ==
    ASSUME TypeInv, TypeInv', Bounded, NEW r \in Calls, DeleteOldest(r)
    PROVE  Bounded'
<1>1. PICK f \in doomed[r] :
        /\ doomed' = [doomed EXCEPT ![r] = @ \ {f}]
        /\ \/ files' = Deleted(f)
           \/ /\ files' = files
              /\ Goto(r, "skipping") \/ Goto(r, "unpruned")
        /\ \/ Goto(r, pc[r])
           \/ Goto(r, "skipping")
           \/ Goto(r, "unpruned")
           \/ /\ pc[r] = "deleting" /\ doomed[r] = {f}
              /\ Goto(r, "done")
    BY DEF DeleteOldest
<1>2. \A q \in Calls : doomed'[q] = IF q = r THEN doomed[r] \ {f} ELSE doomed[q]
  BY <1>1 DEF TypeInv, TypeOK
<1>3. /\ pc[r] \in {"deleting", "skipping"}
      /\ DOMAIN files' \subseteq DOMAIN files
  BY <1>1 DEF DeleteOldest, Deleted
<1>4. CASE Goto(r, "done") /\ files' = Deleted(f)
  <2>1. pc[r] = "deleting" /\ doomed[r] = {f}
    BY <1>1, <1>3, <1>4 DEF Goto, TypeInv, TypeOK
  <2> QED
    BY <1>2, <1>4, <2>1, PruneEnds DEF Goto, Deleting
<1>5. CASE /\ Goto(r, "skipping") \/ Goto(r, "unpruned")
  <2>1. /\ Deleting' \subseteq Deleting
        /\ r \notin Deleting'
        /\ Counted \subseteq Counted'
    BY <1>3, <1>5 DEF Goto, Deleting, Counted, TypeInv, TypeOK
  <2>2. \A q \in Deleting' : doomed'[q] = doomed[q]
    BY <1>2, <2>1 DEF Deleting
  <2> QED
    BY <1>3, <2>1, <2>2, NothingAdded
<1>6. CASE Goto(r, pc[r]) /\ files' = Deleted(f)
  <2>1. Deleting' \subseteq Deleting /\ Counted \subseteq Counted'
    BY <1>6 DEF Goto, Deleting, Counted, TypeInv, TypeOK
  <2>2. f \notin DOMAIN files'
    BY <1>6 DEF Deleted
  <2>3. \A q \in Deleting' : \A g \in doomed[q] :
            g \in doomed'[q] \/ g \notin DOMAIN files'
    BY <1>2, <2>2 DEF Deleting
  <2> QED
    BY <1>3, <2>1, <2>3, NothingAdded
<1> QED
  BY <1>1, <1>3, <1>4, <1>5, <1>6 DEF Goto, TypeInv, TypeOK

\* A crash leaves at most one file more for each call that was writing, and
\* these are counted from then on.
LEMMA CrashBounded ==
    ASSUME TypeInv, TypeInv', Bounded, Crash
    PROVE  Bounded'
<1> DEFINE W == {q \in Calls : pc[q] = "writing"}
           Ids == {agentSession[r].id : r \in W}
<1>1. PICK torn \in SUBSET Ids : DOMAIN files' = DOMAIN files \cup torn
  BY DEF Crash
<1>2. /\ IsFiniteSet(W) /\ Cardinality(W) \in Nat
      /\ IsFiniteSet(Counted) /\ Cardinality(Counted) \in Nat
      /\ IsFiniteSet(DOMAIN files) /\ Cardinality(DOMAIN files) \in Nat
  BY FilesFinite DEF Counted
<1>3. /\ IsFiniteSet(torn) /\ Cardinality(torn) \in Nat
      /\ Cardinality(torn) <= Cardinality(W)
  <2> DEFINE id == [r \in W |-> agentSession[r].id]
  <2>1. id \in Surjection(W, Ids)
    BY DEF Surjection
  <2>2. IsFiniteSet(Ids) /\ Cardinality(Ids) <= Cardinality(W)
    BY <1>2, <2>1, FS_Surjection
  <2> HIDE DEF Ids, W
  <2>3. /\ IsFiniteSet(torn) /\ Cardinality(torn) <= Cardinality(Ids)
        /\ Cardinality(torn) \in Nat /\ Cardinality(Ids) \in Nat
    BY <2>2, FS_Subset, FS_CardinalityType
  <2> QED
    BY <1>2, <2>2, <2>3
<1>4. /\ Counted \cup W \subseteq Counted'
      /\ Counted \cap W = {}
      /\ Deleting' = {}
  BY DEF Crash, Counted, Deleting, Live, InRun
<1>5. Cardinality(DOMAIN files) <= MaxHistoryFiles + Cardinality(Counted)
  <2>1. Left({}) = DOMAIN files /\ Counted \ {} = Counted
    BY DEF Left
  <2> QED
    BY <2>1 DEF Bounded
<1>6. /\ Cardinality(DOMAIN files') <=
             Cardinality(DOMAIN files) + Cardinality(torn)
      /\ Cardinality(DOMAIN files') \in Nat
  <2> HIDE DEF Ids, W
  <2>1. Cardinality(DOMAIN files \cap torn) \in Nat
    BY <1>2, FS_Intersection, FS_CardinalityType
  <2>2. /\ IsFiniteSet(DOMAIN files')
        /\ Cardinality(DOMAIN files') =
               Cardinality(DOMAIN files) + Cardinality(torn)
                   - Cardinality(DOMAIN files \cap torn)
    BY <1>1, <1>2, <1>3, FS_Union
  <2>3. Cardinality(DOMAIN files') \in Nat
    BY <2>2, FS_CardinalityType
  <2> QED
    BY <1>2, <1>3, <2>1, <2>2, <2>3
<1>7. /\ Cardinality(Counted) + Cardinality(W) <= Cardinality(Counted')
      /\ Cardinality(Counted') \in Nat
  <2> HIDE DEF W
  <2>1. Cardinality(Counted \cup W) = Cardinality(Counted) + Cardinality(W)
    <3>1. Cardinality(Counted \cup W) =
              Cardinality(Counted) + Cardinality(W) - Cardinality(Counted \cap W)
      BY <1>2, FS_Union
    <3>2. Cardinality(Counted \cap W) = 0
      BY <1>4, FS_EmptySet
    <3> QED
      BY <1>2, <3>1, <3>2
  <2>2. Counted' \in SUBSET Calls
    BY DEF Counted
  <2>3. IsFiniteSet(Counted') /\ Cardinality(Counted') \in Nat
    BY <2>2, FilesFinite
  <2> QED
    BY <1>4, <2>1, <2>3, FS_Subset
<1> SUFFICES ASSUME NEW D \in SUBSET Deleting'
             PROVE  Cardinality(Left(D)') <=
                        MaxHistoryFiles + Cardinality(Counted' \ D)
  BY DEF Bounded
<1>8. D = {} /\ Left(D)' = DOMAIN files' /\ Counted' \ D = Counted'
  BY <1>4 DEF Left
<1> HIDE DEF W
<1> QED
  BY <1>2, <1>3, <1>5, <1>6, <1>7, <1>8, MaxHistoryFilesAssumption

LEMMA BoundedKept ==
    ASSUME TypeInv, Bounded, [Next]_vars
    PROVE  Bounded'
<1>1. TypeInv'
  BY TypesKept
<1>2. CASE Stop
  <2>1. CASE UNCHANGED pc
    BY <1>2, <2>1 DEF Stop, Bounded, Left, Deleting, Counted
  <2>2. ASSUME NEW r \in Calls, pc[r] \in {"working", "compacting"},
               Goto(r, "hung")
        PROVE  Bounded'
    BY <1>1, <1>2, <2>2, FilesStay DEF Stop, Counted
  <2> QED
    BY <1>2, <2>1, <2>2 DEF Stop
<1>3. CASE UNCHANGED vars
  BY <1>3 DEF vars, locals, Bounded, Left, Deleting, Counted
<1>4. ASSUME NEW r \in Calls, Step(r)
      PROVE  Bounded'
  <2> DEFINE Quiet == /\ UNCHANGED <<files, doomed>>
                      /\ r \notin Counted
                      /\ \E where \in {"loading", "ignored", "reading",
                             "working", "compacting", "rejected", "writing"} :
                             Goto(r, where)
  <2>1. CASE Run(r)
    <3>1. Quiet
      BY <2>1 DEF Run, NextCall, Counted, locals
    <3> QED
      BY <1>1, <3>1, FilesStay
  <2>2. CASE RunIgnored(r)
    <3>1. Quiet
      BY <2>2 DEF RunIgnored, NextCall, Counted, locals
    <3> QED
      BY <1>1, <3>1, FilesStay
  <2>3. CASE ListSessions(r)
    <3>1. Quiet
      BY <2>3 DEF ListSessions, Counted
    <3> QED
      BY <1>1, <3>1, FilesStay
  <2>4. CASE ReadSession(r)
    <3>1. Quiet
      BY <2>4 DEF ReadSession, Counted
    <3> QED
      BY <1>1, <3>1, FilesStay
  <2>5. CASE StartCompaction(r)
    <3>1. Quiet
      BY <2>5 DEF StartCompaction, Counted
    <3> QED
      BY <1>1, <3>1, FilesStay
  <2>6. CASE CompactionDone(r)
    <3>1. Quiet
      BY <2>6 DEF CompactionDone, Counted
    <3> QED
      BY <1>1, <3>1, FilesStay
  <2>7. CASE Fail(r)
    <3>1. Quiet
      BY <2>7 DEF Fail, Counted
    <3> QED
      BY <1>1, <3>1, FilesStay
  <2>8. CASE EndTurn(r)
    <3>1. Quiet
      BY <2>8 DEF EndTurn, FinishLoop, Counted
    <3> QED
      BY <1>1, <3>1, FilesStay
  <2>9. CASE EndLoop(r)
    <3>1. Quiet
      BY <2>9 DEF EndLoop, FinishLoop, Counted
    <3> QED
      BY <1>1, <3>1, FilesStay
  <2> QED
    BY <1>1, <1>4, <2>1, <2>2, <2>3, <2>4, <2>5, <2>6, <2>7, <2>8, <2>9,
       WriteBounded, ListBounded, DeleteBounded DEF Step
<1> QED
  BY <1>1, <1>2, <1>3, <1>4, CrashBounded DEF Next

\* MemoryStore: _pruneOldSessions keeps the history within its limit, also
\* when several calls prune one listing, when deletions fail and when the
\* process dies: each file beyond the limit has a call to answer for it.
THEOREM HistoryStaysBounded == Spec => []HistoryBounded
<1>1. TypeInv /\ Bounded => HistoryBounded
  <2> SUFFICES ASSUME Bounded
               PROVE  HistoryBounded
    OBVIOUS
  <2>1. Left({}) = DOMAIN files /\ Counted \ {} = Counted
    BY DEF Left
  <2> QED
    BY <2>1 DEF Bounded, HistoryBounded, Counted
<1> QED
  BY <1>1, InitTypes, InitBounded, TypesKept, BoundedKept, PTL DEF Spec

-----------------------------------------------------------------------------
(* What a sequence of turns covers, and its order.                          *)

Chronological(s) ==
    \A i, j \in DOMAIN s :
        i < j => \A a \in s[i].of, b \in s[j].of : a < b \/ (a = 0 /\ b = 0)
SummaryFirst(s) == \A i \in DOMAIN s : s[i].summary => i = 1 /\ Len(s) >= 3

LEMMA CoversConcat ==
    ASSUME NEW a \in Seq(Turn), NEW b \in Seq(Turn)
    PROVE  Covers(a \o b) = Covers(a) \cup Covers(b)
<1>1. /\ DOMAIN (a \o b) = 1 .. Len(a) + Len(b)
      /\ DOMAIN a = 1 .. Len(a) /\ DOMAIN b = 1 .. Len(b)
      /\ Len(a) \in Nat /\ Len(b) \in Nat
  BY ConcatProperties, LenProperties
<1>2. \A i \in 1 .. Len(a) + Len(b) :
          (a \o b)[i] = IF i <= Len(a) THEN a[i] ELSE b[i - Len(a)]
  BY ConcatProperties
<1>3. ASSUME NEW x \in Covers(a \o b)
      PROVE  x \in Covers(a) \/ x \in Covers(b)
  <2>1. PICK i \in 1 .. Len(a) + Len(b) : x \in (a \o b)[i].of
    BY <1>1 DEF Covers
  <2>2. CASE i <= Len(a)
    BY <1>1, <1>2, <2>1, <2>2 DEF Covers
  <2>3. CASE ~(i <= Len(a))
    <3>1. i - Len(a) \in 1 .. Len(b)
      BY <1>1, <2>3
    <3> QED
      BY <1>1, <1>2, <2>1, <2>3, <3>1 DEF Covers
  <2> QED
    BY <2>2, <2>3
<1>4. ASSUME NEW x \in Covers(a)
      PROVE  x \in Covers(a \o b)
  <2>1. PICK i \in 1 .. Len(a) : x \in a[i].of
    BY <1>1 DEF Covers
  <2>2. i \in 1 .. Len(a) + Len(b) /\ (a \o b)[i] = a[i]
    BY <1>1, <1>2
  <2> QED
    BY <1>1, <2>1, <2>2 DEF Covers
<1>5. ASSUME NEW x \in Covers(b)
      PROVE  x \in Covers(a \o b)
  <2>1. PICK i \in 1 .. Len(b) : x \in b[i].of
    BY <1>1 DEF Covers
  <2>2. i + Len(a) \in 1 .. Len(a) + Len(b) /\ (a \o b)[i + Len(a)] = b[i]
    BY <1>1, <1>2
  <2> QED
    BY <1>1, <2>1, <2>2 DEF Covers
<1> QED
  BY <1>3, <1>4, <1>5

LEMMA CoversAppend ==
    ASSUME NEW a \in Seq(Turn), NEW t \in Turn
    PROVE  Covers(Append(a, t)) = Covers(a) \cup t.of
<1>1. /\ DOMAIN Append(a, t) = 1 .. Len(a) + 1
      /\ DOMAIN a = 1 .. Len(a) /\ Len(a) \in Nat
      /\ Append(a, t)[Len(a) + 1] = t
      /\ \A i \in 1 .. Len(a) : Append(a, t)[i] = a[i]
  OBVIOUS
<1>2. ASSUME NEW x \in Covers(Append(a, t))
      PROVE  x \in Covers(a) \/ x \in t.of
  <2>1. PICK i \in 1 .. Len(a) + 1 : x \in Append(a, t)[i].of
    BY <1>1 DEF Covers
  <2>2. CASE i = Len(a) + 1
    BY <1>1, <2>1, <2>2
  <2>3. CASE i \in 1 .. Len(a)
    BY <1>1, <2>1, <2>3 DEF Covers
  <2> QED
    BY <1>1, <2>2, <2>3
<1>3. ASSUME NEW x \in Covers(a)
      PROVE  x \in Covers(Append(a, t))
  <2>1. PICK i \in 1 .. Len(a) : x \in a[i].of
    BY <1>1 DEF Covers
  <2>2. i \in 1 .. Len(a) + 1 /\ Append(a, t)[i] = a[i]
    BY <1>1
  <2> QED
    BY <1>1, <2>1, <2>2 DEF Covers
<1>4. ASSUME NEW x \in t.of
      PROVE  x \in Covers(Append(a, t))
  <2>1. Len(a) + 1 \in 1 .. Len(a) + 1
    BY <1>1
  <2> QED
    BY <1>1, <2>1 DEF Covers
<1> QED
  BY <1>2, <1>3, <1>4

LEMMA CoversEmpty == Covers(<<>>) = {}
BY DEF Covers

LEMMA EmptyHeld == Chronological(<<>>) /\ SummaryFirst(<<>>)
BY DEF Chronological, SummaryFirst

\* A turn put in front adds what it stands for: a summary of a what a covers,
\* a summary without text nothing.
LEMMA CoversInFront ==
    ASSUME NEW t \in Turn, NEW b \in Seq(Turn)
    PROVE  Covers(<<t>> \o b) = t.of \cup Covers(b)
<1>1. <<t>> \in Seq(Turn)
  OBVIOUS
<1>2. Covers(<<t>>) = t.of
  BY DEF Covers
<1>3. Covers(<<t>> \o b) = Covers(<<t>>) \cup Covers(b)
  BY <1>1, CoversConcat
<1> QED
  BY <1>2, <1>3

\* What a compaction that ends puts in front of the memory.
LEMMA RestoredSummary ==
    ASSUME TypeInv, NEW r \in Calls, CompactionDone(r)
    PROVE  \E t \in Turn :
               /\ t.summary
               /\ turns' = <<t>> \o turns
               /\ t.of \subseteq Covers(compacted[r])
               /\ \/ t.of = Covers(compacted[r]) /\ blanked' = blanked
                  \/ blanked' = blanked \cup Covers(compacted[r])
<1>1. compacted[r] \in Seq(Turn)
  BY DEF TypeInv, TypeOK
<1>2. /\ SummaryOf(compacted[r]) \in Turn /\ NoSummary \in Turn
      /\ SummaryOf(compacted[r]).of = Covers(compacted[r])
      /\ SummaryOf(compacted[r]).summary
      /\ NoSummary.of = {} /\ NoSummary.summary
  BY <1>1, SummaryTyped DEF SummaryOf, NoSummary
<1>3. CASE /\ turns' = <<SummaryOf(compacted[r])>> \o turns
           /\ blanked' = blanked
  BY <1>2, <1>3
<1>4. CASE /\ turns' = <<NoSummary>> \o turns
           /\ blanked' = blanked \cup Covers(compacted[r])
  BY <1>2, <1>4
<1> QED
  BY <1>3, <1>4 DEF CompactionDone, Restore

\* A conversation in order is in order in its parts, and across them.
LEMMA OrderInParts ==
    ASSUME NEW a \in Seq(Turn), NEW b \in Seq(Turn), Chronological(a \o b)
    PROVE  /\ Chronological(b)
           /\ \A x \in Covers(a) : \A j \in DOMAIN b : \A y \in b[j].of :
                  x < y \/ (x = 0 /\ y = 0)
<1>1. /\ DOMAIN (a \o b) = 1 .. Len(a) + Len(b)
      /\ DOMAIN a = 1 .. Len(a) /\ DOMAIN b = 1 .. Len(b)
      /\ Len(a) \in Nat /\ Len(b) \in Nat
  BY ConcatProperties, LenProperties
<1>2. \A i \in 1 .. Len(a) :
          i \in DOMAIN (a \o b) /\ (a \o b)[i] = a[i]
  BY <1>1, ConcatProperties
<1>3. \A j \in 1 .. Len(b) :
          j + Len(a) \in DOMAIN (a \o b) /\ (a \o b)[j + Len(a)] = b[j]
  <2> SUFFICES ASSUME NEW j \in 1 .. Len(b)
               PROVE  /\ j + Len(a) \in DOMAIN (a \o b)
                      /\ (a \o b)[j + Len(a)] = b[j]
    OBVIOUS
  <2>1. /\ j + Len(a) \in 1 .. Len(a) + Len(b)
        /\ ~(j + Len(a) <= Len(a)) /\ (j + Len(a)) - Len(a) = j
    BY <1>1
  <2> QED
    BY <1>1, <2>1, ConcatProperties
<1>4. Chronological(b)
  <2> SUFFICES ASSUME NEW i \in 1 .. Len(b), NEW j \in 1 .. Len(b), i < j,
                      NEW x \in b[i].of, NEW y \in b[j].of
               PROVE  x < y \/ (x = 0 /\ y = 0)
    BY <1>1 DEF Chronological
  <2>1. i + Len(a) < j + Len(a)
    BY <1>1
  <2> QED
    BY <1>3, <2>1 DEF Chronological
<1>5. ASSUME NEW x \in Covers(a), NEW j \in 1 .. Len(b), NEW y \in b[j].of
      PROVE  x < y \/ (x = 0 /\ y = 0)
  <2>1. PICK i \in 1 .. Len(a) : x \in a[i].of
    BY <1>1 DEF Covers
  <2>2. i < j + Len(a)
    BY <1>1
  <2> QED
    BY <1>2, <1>3, <2>1, <2>2 DEF Chronological
<1> QED
  BY <1>1, <1>4, <1>5

\* One turn before a conversation that comes after all it stands for.
LEMMA OrderBehind ==
    ASSUME NEW t \in Turn, NEW b \in Seq(Turn), Chronological(b),
           \A x \in t.of : \A j \in DOMAIN b : \A y \in b[j].of :
               x < y \/ (x = 0 /\ y = 0)
    PROVE  Chronological(<<t>> \o b)
<1>1. /\ DOMAIN (<<t>> \o b) = 1 .. Len(b) + 1
      /\ DOMAIN b = 1 .. Len(b) /\ Len(b) \in Nat
      /\ (<<t>> \o b)[1] = t
      /\ \A i \in 2 .. Len(b) + 1 : (<<t>> \o b)[i] = b[i - 1]
  OBVIOUS
<1> SUFFICES ASSUME NEW i \in 1 .. Len(b) + 1, NEW j \in 1 .. Len(b) + 1,
                    i < j, NEW x \in (<<t>> \o b)[i].of,
                    NEW y \in (<<t>> \o b)[j].of
             PROVE  x < y \/ (x = 0 /\ y = 0)
  BY <1>1 DEF Chronological
<1>2. j \in 2 .. Len(b) + 1 /\ j - 1 \in 1 .. Len(b)
  BY <1>1
<1>3. y \in b[j - 1].of
  BY <1>1, <1>2
<1>4. CASE i = 1
  BY <1>1, <1>2, <1>3, <1>4
<1>5. CASE i # 1
  <2>1. i \in 2 .. Len(b) + 1 /\ i - 1 \in 1 .. Len(b) /\ i - 1 < j - 1
    BY <1>1, <1>2, <1>5
  <2>2. x \in b[i - 1].of
    BY <1>1, <2>1
  <2> QED
    BY <1>1, <1>2, <1>3, <2>1, <2>2 DEF Chronological
<1> QED
  BY <1>4, <1>5

\* The turn of the call after all that a conversation covers.
LEMMA OrderAhead ==
    ASSUME NEW a \in Seq(Turn), NEW r \in Calls, Chronological(a),
           Covers(a) \subseteq 0 .. r - 1
    PROVE  Chronological(Append(a, Spoken(r)))
<1>1. Spoken(r) \in Turn /\ Spoken(r).of = {r}
  BY DEF Spoken, Turn
<1> DEFINE t == Spoken(r)
<1>2. /\ DOMAIN Append(a, t) = 1 .. Len(a) + 1
      /\ DOMAIN a = 1 .. Len(a) /\ Len(a) \in Nat
      /\ Append(a, t)[Len(a) + 1] = t
      /\ \A i \in 1 .. Len(a) : Append(a, t)[i] = a[i]
  BY <1>1
<1> HIDE DEF t
<1> SUFFICES ASSUME NEW i \in 1 .. Len(a) + 1, NEW j \in 1 .. Len(a) + 1,
                    i < j, NEW x \in Append(a, t)[i].of,
                    NEW y \in Append(a, t)[j].of
             PROVE  x < y \/ (x = 0 /\ y = 0)
  BY <1>2 DEF Chronological, t
<1>3. i \in 1 .. Len(a) /\ x \in a[i].of
  BY <1>2
<1>4. CASE j = Len(a) + 1
  <2>1. x \in Covers(a)
    BY <1>2, <1>3 DEF Covers
  <2>2. y = r /\ x \in 0 .. r - 1 /\ r \in Nat
    BY <1>1, <1>2, <1>4, <2>1 DEF t, Calls
  <2> QED
    BY <2>2
<1>5. CASE j \in 1 .. Len(a)
  BY <1>2, <1>3, <1>5 DEF Chronological
<1> QED
  BY <1>2, <1>4, <1>5

-----------------------------------------------------------------------------
(* What the parser makes of the files there can be.                         *)

LEMMA ParseSaved ==
    ASSUME NEW s \in Seq(Turn)
    PROVE  Parse([legacy |-> FALSE, lines |-> s]) = s
<1>1. \A a \in DOMAIN s : s[a] \notin {Bad}
  BY BadAssumption
<1> QED
  BY <1>1, WithoutNothing DEF Parse

LEMMA ParseTorn == Parse(TornFile) = <<>> /\ ~Readable(TornFile)
<1>1. <<Bad>> \in Seq({Bad})
  OBVIOUS
<1>2. Without(<<Bad>>, {Bad}) \in Seq({Bad} \ {Bad})
  BY <1>1, WithoutProperties
<1>3. Without(<<Bad>>, {Bad}) = <<>>
  BY <1>2
<1>4. TornFile.lines = <<Bad>> /\ TornFile.lines[1] = Bad
  BY DEF TornFile
<1> QED
  BY <1>3, <1>4 DEF Parse, Readable

\* What an older version wrote.
LEMMA ParseOld ==
    ASSUME NEW f, f.lines \in Seq({Spoken(0), Bad})
    PROVE  /\ Chronological(Parse(f)) /\ SummaryFirst(Parse(f))
           /\ Covers(Parse(f)) \subseteq {0}
<1> DEFINE s == Parse(f)
<1>1. s \in Seq({Spoken(0), Bad} \ {Bad})
  BY WithoutProperties DEF Parse
<1> HIDE DEF s
<1>2. \A i \in DOMAIN s : s[i] = Spoken(0)
  BY <1>1
<1>3. \A i \in DOMAIN s : s[i].of = {0} /\ s[i].summary = FALSE
  BY <1>2 DEF Spoken
<1> QED
  BY <1>3 DEF Chronological, SummaryFirst, Covers, s

-----------------------------------------------------------------------------
(* The order of the conversation.                                           *)

InLoop == {"loading", "reading", "working", "compacting"}

\* Calls start in the order of their numbers, and without overlap one is live.
CallsInTurn ==
    /\ \A q, r \in Calls : q < r /\ pc[r] # "idle" => pc[q] # "idle"
    /\ ~overlapped => \A q, r \in Calls : Live(q) /\ Live(r) => q = r

Begun == {0} \cup {q \in Calls : pc[q] # "idle"}

\* Whatever can still be loaded is in order and of calls that have begun.
FilesInOrder ==
    \A f \in DOMAIN files :
        /\ Chronological(Parse(files[f])) /\ SummaryFirst(Parse(files[f]))
        /\ Covers(Parse(files[f])) \subseteq Begun

\* A call in the loop adds to what is older than itself, turns that are with
\* the summarizer included.
LoopInOrder(r) ==
    /\ pc[r] \in InLoop =>
         /\ \A f \in DOMAIN files : Covers(Parse(files[f])) \subseteq 0 .. r - 1
         /\ Covers(compacted[r] \o turns) \subseteq 0 .. r - 1
         /\ Chronological(compacted[r] \o turns)
    /\ pc[r] \in {"loading", "reading"} => turns = <<>>
    /\ pc[r] # "compacting" => compacted[r] = <<>>
    /\ pc[r] = "compacting" =>
         Len(turns) = 2 /\ ~turns[1].summary /\ ~turns[2].summary

SavedInOrder(r) ==
    pc[r] = "writing" =>
        /\ Chronological(agentSession[r].turns)
        /\ SummaryFirst(agentSession[r].turns)
        /\ Covers(agentSession[r].turns) \subseteq 0 .. r

TurnsInOrder == Chronological(turns) /\ SummaryFirst(turns)

OrderInv ==
    /\ CallsInTurn
    /\ ~overlapped =>
         /\ FilesInOrder
         /\ TurnsInOrder
         /\ \A r \in Calls : LoopInOrder(r) /\ SavedInOrder(r)

LEMMA InitOrder == Init => OrderInv
<1> SUFFICES ASSUME Init
             PROVE  OrderInv
  OBVIOUS
<1>1. \A f \in DOMAIN files : files[f].lines \in Seq({Spoken(0), Bad})
  BY OldStoresAssumption DEF Init
<1>2. FilesInOrder
  BY <1>1, ParseOld DEF FilesInOrder, Begun
<1>3. CallsInTurn
  BY DEF Init, CallsInTurn, Live, InRun
<1>4. \A r \in Calls : LoopInOrder(r) /\ SavedInOrder(r)
  BY DEF Init, LoopInOrder, SavedInOrder, InLoop
<1>5. TurnsInOrder
  BY EmptyHeld DEF Init, TurnsInOrder
<1> QED
  BY <1>2, <1>3, <1>4, <1>5 DEF OrderInv

\* A call begins: everything there is comes from earlier ones.
LEMMA BegunBefore ==
    ASSUME TypeInv, CallsInTurn, NEW r \in Calls, NextCall(r)
    PROVE  Begun = 0 .. r - 1
<1>1. \A q \in Calls : q > r => pc[q] = "idle"
  BY DEF CallsInTurn, NextCall, Calls
<1>2. \A q \in Calls : q < r => pc[q] # "idle"
  BY DEF NextCall
<1>3. pc[r] = "idle"
  BY DEF NextCall
<1>4. \A x : x \in Begun <=> x = 0 \/ (x \in Calls /\ x < r)
  BY <1>1, <1>2, <1>3 DEF Begun, Calls
<1>5. \A x : x \in 0 .. r - 1 <=> x = 0 \/ (x \in Calls /\ x < r)
  BY NumCallsAssumption DEF Calls
<1> QED
  BY <1>4, <1>5

\* A call that has begun has begun after the ones before it.
LEMMA BegunUpTo ==
    ASSUME TypeInv, CallsInTurn, NEW r \in Calls, pc[r] # "idle"
    PROVE  0 .. r \subseteq Begun
<1> SUFFICES ASSUME NEW q \in 0 .. r, q # 0
             PROVE  q \in Begun
  BY DEF Begun
<1>1. q \in Calls /\ (q = r \/ q < r)
  BY NumCallsAssumption DEF Calls
<1> QED
  BY <1>1 DEF CallsInTurn, Begun

\* How a step of one call leaves the order of the calls.
LEMMA CallsStay ==
    ASSUME TypeInv, CallsInTurn, NEW r \in Calls, NEW where, Goto(r, where),
           Live(r) \/ where \notin InRun, where # "idle",
           pc[r] # "idle", overlapped' = overlapped
    PROVE  CallsInTurn' /\ Begun' = Begun
<1>1. \A q \in Calls : pc'[q] = IF q = r THEN where ELSE pc[q]
  BY DEF Goto, TypeInv, TypeOK
<1>2. \A q \in Calls : Live(q)' => Live(q)
  BY <1>1 DEF Live
<1>3. \A q \in Calls : pc'[q] = "idle" <=> pc[q] = "idle"
  BY <1>1
<1>4. CallsInTurn'
  BY <1>2, <1>3 DEF CallsInTurn
<1> QED
  BY <1>3, <1>4 DEF Begun

LEMMA CallsInTurnStep ==
    ASSUME TypeInv, CallsInTurn, NEW r \in Calls, Step(r)
    PROVE  /\ CallsInTurn'
           /\ Begun' = IF pc[r] = "idle" THEN Begun \cup {r} ELSE Begun
<1>1. ASSUME NextCall(r),
             \/ Goto(r, "ignored") /\ overlapped' = overlapped
             \/ /\ Goto(r, "loading")
                /\ overlapped' = (overlapped \/ \E q \in Calls : Live(q))
      PROVE  /\ CallsInTurn'
             /\ Begun' = IF pc[r] = "idle" THEN Begun \cup {r} ELSE Begun
  <2>1. /\ \A q \in Calls : q # r => pc'[q] = pc[q]
        /\ pc[r] = "idle" /\ pc'[r] \in {"ignored", "loading"}
    BY <1>1 DEF Goto, NextCall, TypeInv, TypeOK
  <2>2. \A q, p \in Calls : q < p /\ pc'[p] # "idle" => pc'[q] # "idle"
    BY <1>1, <2>1 DEF NextCall, CallsInTurn
  <2>3. ~overlapped' => \A q, p \in Calls : Live(q)' /\ Live(p)' => q = p
    <3>1. CASE overlapped' = overlapped /\ pc'[r] = "ignored"
      <4>1. \A q \in Calls : Live(q)' => Live(q)
        BY <2>1, <3>1 DEF Live, InRun
      <4> QED
        BY <3>1, <4>1 DEF CallsInTurn
    <3>2. CASE overlapped' = (overlapped \/ \E q \in Calls : Live(q))
      <4>1. \A q \in Calls : ~overlapped' /\ Live(q)' => q = r
        BY <2>1, <3>2 DEF Live
      <4> QED
        BY <4>1
    <3> QED
      BY <1>1, <3>1, <3>2 DEF Goto, TypeInv, TypeOK
  <2> QED
    BY <2>1, <2>2, <2>3 DEF CallsInTurn, Begun
<1>2. CASE Run(r)
  BY <1>1, <1>2 DEF Run
<1>3. CASE RunIgnored(r)
  BY <1>1, <1>3 DEF RunIgnored
<1>4. CASE ListSessions(r)
  BY <1>4, CallsStay DEF ListSessions, Live, InRun
<1>5. CASE ReadSession(r)
  BY <1>5, CallsStay DEF ReadSession, Live, InRun
<1>6. CASE StartCompaction(r)
  BY <1>6, CallsStay DEF StartCompaction, Live, InRun
<1>7. CASE CompactionDone(r)
  BY <1>7, CallsStay DEF CompactionDone, Live, InRun
<1>8. CASE Fail(r)
  BY <1>8, CallsStay DEF Fail, Live, InRun
<1>9. CASE EndTurn(r)
  BY <1>9, CallsStay DEF EndTurn, FinishLoop, Live, InRun
<1>10. CASE EndLoop(r)
  BY <1>10, CallsStay DEF EndLoop, FinishLoop, Live, InRun
<1>11. CASE WriteSession(r)
  BY <1>11, CallsStay DEF WriteSession, Live, InRun
<1>12. CASE ListForPrune(r)
  BY <1>12, CallsStay DEF ListForPrune, Live, InRun
<1>13. CASE DeleteOldest(r)
  BY <1>13, CallsStay DEF DeleteOldest, Live, InRun
<1> QED
  BY <1>2, <1>3, <1>4, <1>5, <1>6, <1>7, <1>8, <1>9, <1>10, <1>11, <1>12,
     <1>13 DEF Step

\* Without overlap a step of one call leaves nothing to say of the others.
LEMMA OthersQuiet ==
    ASSUME OrderInv, ~overlapped, NEW r \in Calls, Live(r),
           NEW q \in Calls, q # r, pc'[q] = pc[q],
           compacted'[q] = compacted[q]
    PROVE  LoopInOrder(q)' /\ SavedInOrder(q)'
<1>1. ~Live(q)
  BY DEF OrderInv, CallsInTurn
<1>2. pc[q] \notin InLoop /\ pc[q] # "writing"
  BY <1>1 DEF Live, InRun, InLoop
<1>3. compacted[q] = <<>>
  BY <1>2 DEF OrderInv, LoopInOrder, InLoop
<1> QED
  BY <1>2, <1>3 DEF LoopInOrder, SavedInOrder, InLoop

\* So it is enough to look at the call itself.
LEMMA OneCallStep ==
    ASSUME TypeInv, OrderInv, ~overlapped, NEW r \in Calls, Step(r), Live(r),
           \A q \in Calls : q # r => pc'[q] = pc[q] /\ compacted'[q] = compacted[q],
           FilesInOrder', TurnsInOrder', LoopInOrder(r)', SavedInOrder(r)'
    PROVE  OrderInv'
<1>1. CallsInTurn'
  BY CallsInTurnStep DEF OrderInv
<1>2. ASSUME NEW q \in Calls
      PROVE  LoopInOrder(q)' /\ SavedInOrder(q)'
  BY OthersQuiet
<1> QED
  BY <1>1, <1>2 DEF OrderInv

LEMMA RunOrder ==
    ASSUME TypeInv, OrderInv, ~overlapped', NEW r \in Calls, Run(r)
    PROVE  OrderInv'
<1>1. ~overlapped /\ \A q \in Calls : ~Live(q)
  BY DEF Run
<1>2. /\ pc' = [pc EXCEPT ![r] = "loading"] /\ pc[r] = "idle"
      /\ turns' = <<>> /\ files' = files
      /\ compacted' = compacted /\ agentSession' = agentSession
  BY DEF Run, Goto, Clear, locals, NextCall
<1>3. CallsInTurn' /\ Begun' = Begun \cup {r}
  BY <1>2, CallsInTurnStep DEF OrderInv, Step
<1>4. Begun = 0 .. r - 1
  BY BegunBefore DEF OrderInv, Run
<1>5. FilesInOrder'
  BY <1>1, <1>2, <1>3 DEF OrderInv, FilesInOrder
<1>6. TurnsInOrder'
  BY <1>2, EmptyHeld DEF TurnsInOrder
<1>7. \A q \in Calls : compacted[q] = <<>>
  BY <1>1 DEF OrderInv, LoopInOrder, Live, InRun
<1>8. LoopInOrder(r)' /\ SavedInOrder(r)'
  <2>1. compacted'[r] \o turns' = <<>>
    BY <1>2, <1>7
  <2>2. \A f \in DOMAIN files' : Covers(Parse(files'[f])) \subseteq 0 .. r - 1
    BY <1>1, <1>2, <1>4 DEF OrderInv, FilesInOrder
  <2>3. pc'[r] = "loading"
    BY <1>2 DEF TypeInv, TypeOK
  <2> QED
    BY <1>2, <1>7, <2>1, <2>2, <2>3, EmptyHeld, CoversEmpty
       DEF LoopInOrder, SavedInOrder
<1>9. ASSUME NEW q \in Calls, q # r
      PROVE  LoopInOrder(q)' /\ SavedInOrder(q)'
  <2>1. pc'[q] = pc[q] /\ pc[q] \notin InRun
    BY <1>1, <1>2, <1>9 DEF TypeInv, TypeOK, Live
  <2> QED
    BY <1>2, <1>7, <2>1 DEF LoopInOrder, SavedInOrder, InRun, InLoop
<1> QED
  BY <1>3, <1>5, <1>6, <1>8, <1>9 DEF OrderInv

LEMMA IgnoredOrder ==
    ASSUME TypeInv, OrderInv, ~overlapped', NEW r \in Calls, RunIgnored(r)
    PROVE  OrderInv'
<1>1. /\ pc' = [pc EXCEPT ![r] = "ignored"] /\ pc[r] = "idle"
      /\ UNCHANGED <<turns, files, compacted, agentSession, overlapped>>
  BY DEF RunIgnored, Goto, memory, locals, NextCall
<1>2. CallsInTurn' /\ Begun \subseteq Begun'
  BY <1>1, CallsInTurnStep DEF OrderInv, Step
<1>3. FilesInOrder' /\ TurnsInOrder'
  BY <1>1, <1>2 DEF OrderInv, FilesInOrder, TurnsInOrder
<1>4. ASSUME NEW q \in Calls
      PROVE  LoopInOrder(q)' /\ SavedInOrder(q)'
  <2>1. pc'[q] = IF q = r THEN "ignored" ELSE pc[q]
    BY <1>1 DEF TypeInv, TypeOK
  <2> QED
    BY <1>1, <2>1 DEF OrderInv, LoopInOrder, SavedInOrder, InLoop
<1> QED
  BY <1>2, <1>3, <1>4 DEF OrderInv

\* A call in the loop takes a step that leaves the files.
LEMMA FilesAlone ==
    ASSUME TypeInv, OrderInv, ~overlapped, NEW r \in Calls, Step(r), Live(r),
           files' = files
    PROVE  FilesInOrder'
<1>1. Begun' = Begun
  BY CallsInTurnStep DEF OrderInv, Live, InRun
<1> QED
  BY <1>1 DEF OrderInv, FilesInOrder

LEMMA ListOrder ==
    ASSUME TypeInv, OrderInv, ~overlapped, NEW r \in Calls, ListSessions(r)
    PROVE  OrderInv'
<1>1. /\ pc[r] = "loading"
      /\ UNCHANGED <<turns, files, compacted, agentSession>>
  BY DEF ListSessions, memory
<1>2. \A q \in Calls : pc'[q] = IF q = r THEN pc'[r] ELSE pc[q]
  BY DEF ListSessions, Goto, TypeInv, TypeOK
<1>3. pc'[r] \in {"reading", "working"}
  BY DEF ListSessions, Goto, TypeInv, TypeOK
<1>4. Step(r) /\ Live(r)
  BY <1>1 DEF Step, Live, InRun
<1>5. LoopInOrder(r)' /\ SavedInOrder(r)' /\ TurnsInOrder'
  BY <1>1, <1>3 DEF OrderInv, LoopInOrder, SavedInOrder, InLoop, TurnsInOrder
<1> QED
  BY <1>1, <1>2, <1>4, <1>5, FilesAlone, OneCallStep

LEMMA ReadOrder ==
    ASSUME TypeInv, OrderInv, ~overlapped, NEW r \in Calls, ReadSession(r)
    PROVE  OrderInv'
<1>1. /\ pc[r] = "reading"
      /\ UNCHANGED <<files, compacted, agentSession>>
  BY DEF ReadSession
<1>2. \A q \in Calls : pc'[q] = IF q = r THEN "working" ELSE pc[q]
  BY DEF ReadSession, Goto, TypeInv, TypeOK
<1>3. Step(r) /\ Live(r)
  BY <1>1 DEF Step, Live, InRun
<1>4. turns = <<>> /\ compacted[r] = <<>>
  BY <1>1 DEF OrderInv, LoopInOrder
<1>5. \/ turns' = <<>>
      \/ \E f \in DOMAIN files : turns' = Parse(files[f])
  <2>1. CASE UNCHANGED memory
    BY <1>4, <2>1 DEF memory
  <2>2. CASE /\ reading[r] \in DOMAIN files
             /\ AddTurns(Parse(files[reading[r]]))
    <3>1. Parse(files[reading[r]]) \in Seq(Turn)
      BY <2>2, ParseTurns DEF TypeInv, TypeOK
    <3> QED
      BY <1>4, <2>2, <3>1, ConcatEmptySeq DEF AddTurns
  <2> QED
    BY <2>1, <2>2 DEF ReadSession
<1>6. /\ Chronological(turns') /\ SummaryFirst(turns')
      /\ Covers(turns') \subseteq 0 .. r - 1
  BY <1>1, <1>5, EmptyHeld, CoversEmpty
     DEF OrderInv, FilesInOrder, LoopInOrder, InLoop
<1>7. compacted'[r] \o turns' = turns'
  <2>1. turns' \in Seq(Turn)
    BY <1>3, StepTypes DEF TypeInv, TypeOK
  <2> QED
    BY <1>1, <1>4, <2>1, ConcatEmptySeq
<1>8. LoopInOrder(r)' /\ SavedInOrder(r)' /\ TurnsInOrder'
  BY <1>1, <1>2, <1>4, <1>6, <1>7
     DEF OrderInv, LoopInOrder, SavedInOrder, InLoop, TurnsInOrder
<1> QED
  BY <1>1, <1>2, <1>3, <1>8, FilesAlone, OneCallStep

LEMMA CompactOrder ==
    ASSUME TypeInv, OrderInv, ~overlapped, NEW r \in Calls, StartCompaction(r)
    PROVE  OrderInv'
<1>1. /\ pc[r] = "working" /\ Len(turns) > 2
      /\ UNCHANGED <<files, agentSession>>
      /\ turns' = Spliced(turns).kept
  BY DEF StartCompaction
<1>2. \A q \in Calls :
          /\ pc'[q] = IF q = r THEN "compacting" ELSE pc[q]
          /\ compacted'[q] = IF q = r THEN Spliced(turns).old ELSE compacted[q]
  BY DEF StartCompaction, Goto, TypeInv, TypeOK
<1>3. Step(r) /\ Live(r)
  BY <1>1 DEF Step, Live, InRun
<1>4. turns \in Seq(Turn)
  BY DEF TypeInv, TypeOK
<1>5. /\ compacted'[r] \in Seq(Turn) /\ turns' \in Seq(Turn)
      /\ Len(turns') = 2
      /\ turns'[1] = turns[Len(turns) - 1] /\ turns'[2] = turns[Len(turns)]
      /\ compacted'[r] \o turns' = turns
  BY <1>1, <1>2, <1>4, SplicedTyped
<1>6. ~turns'[1].summary /\ ~turns'[2].summary
  <2>1. /\ Len(turns) - 1 \in DOMAIN turns /\ Len(turns) - 1 # 1
        /\ Len(turns) \in DOMAIN turns /\ Len(turns) # 1
    BY <1>1, <1>4
  <2> QED
    BY <1>5, <2>1 DEF OrderInv, TurnsInOrder, SummaryFirst
<1>7. compacted[r] \o turns = turns
  <2>1. compacted[r] = <<>>
    BY <1>1 DEF OrderInv, LoopInOrder
  <2> QED
    BY <1>4, <2>1, ConcatEmptySeq
<1>8. /\ Chronological(compacted'[r] \o turns')
      /\ Covers(compacted'[r] \o turns') \subseteq 0 .. r - 1
      /\ \A f \in DOMAIN files : Covers(Parse(files[f])) \subseteq 0 .. r - 1
  BY <1>1, <1>5, <1>7 DEF OrderInv, LoopInOrder, InLoop
<1>9. LoopInOrder(r)' /\ SavedInOrder(r)'
  BY <1>1, <1>2, <1>5, <1>6, <1>8 DEF LoopInOrder, SavedInOrder
<1>10. TurnsInOrder'
  <2>1. Chronological(turns')
    BY <1>5, <1>8, OrderInParts
  <2>2. DOMAIN turns' = {1, 2}
    BY <1>5
  <2>3. SummaryFirst(turns')
    BY <1>6, <2>2 DEF SummaryFirst
  <2> QED
    BY <2>1, <2>3 DEF TurnsInOrder
<1> QED
  BY <1>1, <1>2, <1>3, <1>9, <1>10, FilesAlone, OneCallStep

LEMMA CompactedOrder ==
    ASSUME TypeInv, OrderInv, ~overlapped, NEW r \in Calls, CompactionDone(r)
    PROVE  OrderInv'
<1>0. PICK t \in Turn :
          /\ t.summary
          /\ turns' = <<t>> \o turns
          /\ t.of \subseteq Covers(compacted[r])
  BY RestoredSummary
<1>1. /\ pc[r] = "compacting"
      /\ UNCHANGED <<files, agentSession>>
  BY DEF CompactionDone
<1>2. \A q \in Calls :
          /\ pc'[q] = IF q = r THEN "working" ELSE pc[q]
          /\ compacted'[q] = IF q = r THEN <<>> ELSE compacted[q]
  BY DEF CompactionDone, Goto, TypeInv, TypeOK
<1>3. Step(r) /\ Live(r)
  BY <1>1 DEF Step, Live, InRun
<1>4. turns \in Seq(Turn) /\ compacted[r] \in Seq(Turn)
  BY DEF TypeInv, TypeOK
<1>5. /\ Len(turns) = 2 /\ ~turns[1].summary /\ ~turns[2].summary
      /\ Covers(compacted[r] \o turns) \subseteq 0 .. r - 1
      /\ Chronological(compacted[r] \o turns)
      /\ \A f \in DOMAIN files : Covers(Parse(files[f])) \subseteq 0 .. r - 1
  BY <1>1 DEF OrderInv, LoopInOrder, InLoop
<1>7. Chronological(turns')
  <2>1. /\ Chronological(turns)
        /\ \A x \in Covers(compacted[r]) : \A j \in DOMAIN turns :
               \A y \in turns[j].of : x < y \/ (x = 0 /\ y = 0)
    BY <1>4, <1>5, OrderInParts
  <2>2. \A x \in t.of : \A j \in DOMAIN turns :
            \A y \in turns[j].of : x < y \/ (x = 0 /\ y = 0)
    BY <1>0, <2>1
  <2> QED
    BY <1>0, <1>4, <2>1, <2>2, OrderBehind
<1>8. Covers(turns') \subseteq 0 .. r - 1
  <2>1. Covers(compacted[r] \o turns) = Covers(compacted[r]) \cup Covers(turns)
    BY <1>4, CoversConcat
  <2>2. Covers(turns') = t.of \cup Covers(turns)
    BY <1>0, <1>4, CoversInFront
  <2> QED
    BY <1>0, <1>5, <2>1, <2>2
<1>9. SummaryFirst(turns')
  <2>1. /\ DOMAIN turns' = 1 .. 3 /\ Len(turns') = 3
        /\ turns'[2] = turns[1] /\ turns'[3] = turns[2]
    <3> DEFINE a == <<t>>
    <3>1. a \in Seq(Turn) /\ Len(a) = 1
      OBVIOUS
    <3> HIDE DEF a
    <3>2. /\ a \o turns \in Seq(Turn) /\ Len(a \o turns) = 3
          /\ (a \o turns)[2] = turns[1] /\ (a \o turns)[3] = turns[2]
      <4>1. /\ a \o turns \in Seq(Turn)
            /\ Len(a \o turns) = Len(a) + Len(turns)
            /\ \A i \in 1 .. Len(a) + Len(turns) :
                   (a \o turns)[i] = IF i <= Len(a) THEN a[i]
                                     ELSE turns[i - Len(a)]
        BY <1>4, <3>1, ConcatProperties
      <4> QED
        BY <1>5, <3>1, <4>1
    <3>3. turns' = a \o turns
      BY <1>0 DEF a
    <3> QED
      BY <3>2, <3>3
  <2> QED
    BY <1>5, <2>1 DEF SummaryFirst
<1>10. compacted'[r] \o turns' = turns'
  <2>1. turns' \in Seq(Turn)
    BY <1>3, StepTypes DEF TypeInv, TypeOK
  <2> QED
    BY <1>2, <2>1, ConcatEmptySeq
<1>11. LoopInOrder(r)' /\ SavedInOrder(r)' /\ TurnsInOrder'
  BY <1>1, <1>2, <1>5, <1>7, <1>8, <1>9, <1>10
     DEF LoopInOrder, SavedInOrder, TurnsInOrder
<1> QED
  BY <1>1, <1>2, <1>3, <1>11, FilesAlone, OneCallStep

LEMMA FailOrder ==
    ASSUME TypeInv, OrderInv, ~overlapped, NEW r \in Calls, Fail(r)
    PROVE  OrderInv'
<1>1. /\ pc[r] \in {"working", "compacting"}
      /\ UNCHANGED <<turns, files, agentSession>>
  BY DEF Fail, memory
<1>2. \A q \in Calls :
          /\ pc'[q] = IF q = r THEN "rejected" ELSE pc[q]
          /\ compacted'[q] = IF q = r THEN <<>> ELSE compacted[q]
  BY DEF Fail, Goto, TypeInv, TypeOK
<1>3. Step(r) /\ Live(r)
  BY <1>1 DEF Step, Live, InRun
<1>4. LoopInOrder(r)' /\ SavedInOrder(r)' /\ TurnsInOrder'
  BY <1>1, <1>2 DEF OrderInv, LoopInOrder, SavedInOrder, InLoop, TurnsInOrder
<1> QED
  BY <1>1, <1>2, <1>3, <1>4, FilesAlone, OneCallStep

\* What both ends of the loop save.
LEMMA FinishOrder ==
    ASSUME TypeInv, OrderInv, ~overlapped, NEW r \in Calls, Step(r),
           pc[r] = "working", NEW s \in Seq(Turn), FinishLoop(r, s),
           turns' = s, UNCHANGED <<files, compacted>>,
           Chronological(s), SummaryFirst(s), Covers(s) \subseteq 0 .. r
    PROVE  OrderInv'
<1>1. /\ \A q \in Calls : pc'[q] = IF q = r THEN "writing" ELSE pc[q]
      /\ agentSession'[r].turns = s
  BY DEF FinishLoop, Goto, TypeInv, TypeOK
<1>2. Live(r) /\ compacted[r] = <<>>
  BY DEF Live, InRun, OrderInv, LoopInOrder
<1>3. LoopInOrder(r)' /\ SavedInOrder(r)' /\ TurnsInOrder'
  BY <1>1, <1>2 DEF LoopInOrder, SavedInOrder, InLoop, TurnsInOrder
<1> QED
  BY <1>1, <1>2, <1>3, FilesAlone, OneCallStep

LEMMA EndOrder ==
    ASSUME TypeInv, OrderInv, ~overlapped, NEW r \in Calls,
           EndTurn(r) \/ EndLoop(r)
    PROVE  OrderInv'
<1>1. /\ pc[r] = "working" /\ Step(r)
      /\ turns \in Seq(Turn) /\ r \in Nat
  BY DEF EndTurn, EndLoop, Step, TypeInv, TypeOK, Calls
<1>2. compacted[r] \o turns = turns
  <2>1. compacted[r] = <<>>
    BY <1>1 DEF OrderInv, LoopInOrder
  <2> QED
    BY <1>1, <2>1, ConcatEmptySeq
<1>3. /\ Covers(turns) \subseteq 0 .. r - 1
      /\ Chronological(turns) /\ SummaryFirst(turns)
  BY <1>1, <1>2 DEF OrderInv, LoopInOrder, InLoop, TurnsInOrder
<1>4. 0 .. r - 1 \subseteq 0 .. r /\ r \in 0 .. r
  BY <1>1
<1>5. CASE EndLoop(r)
  <2>1. Covers(turns) \subseteq 0 .. r
    BY <1>3, <1>4
  <2>2. turns' = turns /\ FinishLoop(r, turns) /\ UNCHANGED <<files, compacted>>
    BY <1>5 DEF EndLoop, memory
  <2> QED
    BY <1>1, <1>3, <2>1, <2>2, FinishOrder
<1>6. CASE EndTurn(r)
  <2> DEFINE s == Append(turns, Spoken(r))
  <2>1. Spoken(r) \in Turn /\ Spoken(r).of = {r} /\ Spoken(r).summary = FALSE
    BY DEF Spoken, Turn
  <2>2. turns' = s /\ FinishLoop(r, s) /\ UNCHANGED <<files, compacted>>
    <3>1. turns \o <<Spoken(r)>> = s
      BY <1>1, <2>1
    <3> QED
      BY <1>6, <3>1 DEF EndTurn, AddTurns
  <2>3. s \in Seq(Turn)
    BY <1>1, <2>1
  <2>4. Chronological(s)
    BY <1>1, <1>3, OrderAhead
  <2>5. Covers(s) \subseteq 0 .. r
    <3>1. Covers(s) = Covers(turns) \cup {r}
      BY <1>1, <2>1, CoversAppend
    <3> QED
      BY <1>3, <1>4, <3>1
  <2>6. SummaryFirst(s)
    <3>1. /\ DOMAIN s = 1 .. Len(turns) + 1 /\ Len(s) = Len(turns) + 1
          /\ s[Len(turns) + 1] = Spoken(r)
          /\ \A i \in 1 .. Len(turns) : s[i] = turns[i]
          /\ DOMAIN turns = 1 .. Len(turns) /\ Len(turns) \in Nat
      BY <1>1, <2>1
    <3> HIDE DEF s
    <3> SUFFICES ASSUME NEW i \in 1 .. Len(turns) + 1, s[i].summary
                 PROVE  i = 1 /\ Len(turns) + 1 >= 3
      BY <3>1 DEF SummaryFirst
    <3>2. i \in 1 .. Len(turns)
      BY <2>1, <3>1
    <3>3. turns[i].summary
      BY <3>1, <3>2
    <3>4. i = 1 /\ Len(turns) >= 3
      BY <1>3, <3>1, <3>2, <3>3 DEF SummaryFirst
    <3> QED
      BY <3>1, <3>4
  <2> HIDE DEF s
  <2> QED
    BY <1>1, <2>2, <2>3, <2>4, <2>5, <2>6, FinishOrder
<1> QED
  BY <1>5, <1>6

\* Files that are written, torn or deleted.
LEMMA WriteOrder ==
    ASSUME TypeInv, OrderInv, ~overlapped, NEW r \in Calls, WriteSession(r)
    PROVE  OrderInv'
<1>1. /\ pc[r] = "writing" /\ UNCHANGED <<turns, compacted>>
      /\ \A q \in Calls : pc'[q] = IF q = r THEN pc'[r] ELSE pc[q]
      /\ pc'[r] \in {"pruning", "unpruned"}
  BY DEF WriteSession, Goto, memory, TypeInv, TypeOK
<1>2. Step(r) /\ Live(r) /\ pc[r] # "idle"
  BY <1>1 DEF Step, Live, InRun
<1> DEFINE saved == [legacy |-> FALSE, lines |-> agentSession[r].turns]
<1>3. \A f \in DOMAIN files' :
          \/ f \in DOMAIN files /\ files'[f] = files[f]
          \/ files'[f] \in {saved, TornFile}
  BY DEF WriteSession, Written
<1>4. /\ Chronological(agentSession[r].turns)
      /\ SummaryFirst(agentSession[r].turns)
      /\ Covers(agentSession[r].turns) \subseteq 0 .. r
  BY <1>1 DEF OrderInv, SavedInOrder
<1>5. Parse(saved) = agentSession[r].turns
  BY ParseSaved DEF TypeInv, TypeOK
<1>6. Begun' = Begun /\ 0 .. r \subseteq Begun
  BY <1>2, CallsInTurnStep, BegunUpTo DEF OrderInv
<1>7. FilesInOrder'
  <2> SUFFICES ASSUME NEW f \in DOMAIN files'
               PROVE  /\ Chronological(Parse(files'[f]))
                      /\ SummaryFirst(Parse(files'[f]))
                      /\ Covers(Parse(files'[f])) \subseteq Begun
    BY <1>6 DEF FilesInOrder
  <2>1. CASE f \in DOMAIN files /\ files'[f] = files[f]
    BY <2>1 DEF OrderInv, FilesInOrder
  <2>2. CASE files'[f] = saved
    <3> HIDE DEF saved
    <3> QED
      BY <1>4, <1>5, <1>6, <2>2
  <2>3. CASE files'[f] = TornFile
    BY <2>3, ParseTorn, EmptyHeld, CoversEmpty
  <2> QED
    BY <1>3, <2>1, <2>2, <2>3
<1>8. LoopInOrder(r)' /\ SavedInOrder(r)' /\ TurnsInOrder'
  BY <1>1 DEF OrderInv, LoopInOrder, SavedInOrder, InLoop, TurnsInOrder
<1> QED
  BY <1>1, <1>2, <1>7, <1>8, OneCallStep

LEMMA PruneOrder ==
    ASSUME TypeInv, OrderInv, ~overlapped, NEW r \in Calls,
           ListForPrune(r) \/ DeleteOldest(r)
    PROVE  OrderInv'
<1>1. /\ pc[r] \in {"pruning", "deleting", "skipping"}
      /\ UNCHANGED <<turns, compacted>>
      /\ \A q \in Calls : pc'[q] = IF q = r THEN pc'[r] ELSE pc[q]
      /\ pc'[r] \in {"deleting", "skipping", "done", "unpruned"}
  BY DEF ListForPrune, DeleteOldest, Goto, memory, TypeInv, TypeOK
<1>2. Step(r) /\ Live(r) /\ pc[r] # "idle"
  BY <1>1 DEF Step, Live, InRun
<1>3. \A f \in DOMAIN files' : f \in DOMAIN files /\ files'[f] = files[f]
  BY DEF ListForPrune, DeleteOldest, Deleted
<1>4. Begun' = Begun
  BY <1>2, CallsInTurnStep DEF OrderInv
<1>5. FilesInOrder'
  BY <1>3, <1>4 DEF OrderInv, FilesInOrder
<1>6. LoopInOrder(r)' /\ SavedInOrder(r)' /\ TurnsInOrder'
  BY <1>1 DEF OrderInv, LoopInOrder, SavedInOrder, InLoop, TurnsInOrder
<1> QED
  BY <1>1, <1>2, <1>5, <1>6, OneCallStep

LEMMA StopOrder ==
    ASSUME TypeInv, OrderInv, Stop
    PROVE  OrderInv'
<1>1. CASE UNCHANGED <<pc, compacted>>
  BY <1>1 DEF Stop, memory, OrderInv, CallsInTurn, Live, FilesInOrder,
              LoopInOrder, SavedInOrder, TurnsInOrder, Begun
<1>2. ASSUME NEW r \in Calls, pc[r] \in {"working", "compacting"},
             Goto(r, "hung"), compacted' = [compacted EXCEPT ![r] = <<>>]
      PROVE  OrderInv'
  <2>1. UNCHANGED <<turns, files, agentSession, overlapped>>
    BY DEF Stop, memory
  <2>2. CallsInTurn' /\ Begun' = Begun
    BY <1>2, <2>1, CallsStay DEF OrderInv, InRun
  <2>3. \A q \in Calls :
            /\ pc'[q] = IF q = r THEN "hung" ELSE pc[q]
            /\ compacted'[q] = IF q = r THEN <<>> ELSE compacted[q]
    BY <1>2 DEF Goto, TypeInv, TypeOK
  <2>4. ASSUME ~overlapped
        PROVE  FilesInOrder' /\ TurnsInOrder'
    BY <2>1, <2>2, <2>4 DEF OrderInv, FilesInOrder, TurnsInOrder
  <2>5. ASSUME ~overlapped, NEW q \in Calls
        PROVE  LoopInOrder(q)' /\ SavedInOrder(q)'
    BY <2>1, <2>3, <2>5 DEF OrderInv, LoopInOrder, SavedInOrder, InLoop
  <2> QED
    BY <2>1, <2>2, <2>4, <2>5 DEF OrderInv
<1> QED
  BY <1>1, <1>2 DEF Stop

LEMMA CrashOrder ==
    ASSUME TypeInv, OrderInv, Crash
    PROVE  OrderInv'
<1>1. \A q \in Calls :
          /\ pc'[q] = IF Live(q) \/ pc[q] = "hung" THEN "crashed" ELSE pc[q]
          /\ compacted'[q] = <<>>
  BY DEF Crash
<1>2. turns' = <<>> /\ overlapped' = overlapped
  BY DEF Crash
<1>3. \A q \in Calls : ~Live(q)' /\ (pc'[q] = "idle" <=> pc[q] = "idle")
  BY <1>1 DEF Live, InRun
<1>4. CallsInTurn' /\ Begun' = Begun
  BY <1>3 DEF OrderInv, CallsInTurn, Begun
<1>5. \A q \in Calls : LoopInOrder(q)' /\ SavedInOrder(q)'
  BY <1>1, <1>3 DEF Live, InRun, LoopInOrder, SavedInOrder, InLoop
<1>6. \A f \in DOMAIN files' :
          \/ f \in DOMAIN files /\ files'[f] = files[f]
          \/ files'[f] = TornFile
  BY DEF Crash
<1>7. ASSUME ~overlapped
      PROVE  FilesInOrder'
  <2> SUFFICES ASSUME NEW f \in DOMAIN files'
               PROVE  /\ Chronological(Parse(files'[f]))
                      /\ SummaryFirst(Parse(files'[f]))
                      /\ Covers(Parse(files'[f])) \subseteq Begun
    BY <1>4 DEF FilesInOrder
  <2>1. CASE f \in DOMAIN files /\ files'[f] = files[f]
    BY <1>7, <2>1 DEF OrderInv, FilesInOrder
  <2>2. CASE files'[f] = TornFile
    BY <2>2, ParseTorn, EmptyHeld, CoversEmpty
  <2> QED
    BY <1>6, <2>1, <2>2
<1>8. TurnsInOrder'
  BY <1>2, EmptyHeld DEF TurnsInOrder
<1> QED
  BY <1>2, <1>4, <1>5, <1>7, <1>8 DEF OrderInv

LEMMA OrderKept ==
    ASSUME TypeInv, OrderInv, [Next]_vars
    PROVE  OrderInv'
<1>1. CASE UNCHANGED vars
  BY <1>1 DEF vars, memory, locals, OrderInv, CallsInTurn, Live, FilesInOrder,
              LoopInOrder, SavedInOrder, TurnsInOrder, Begun
<1>2. ASSUME NEW r \in Calls, Step(r)
      PROVE  OrderInv'
  <2>1. CASE overlapped'
    BY <1>2, <2>1, CallsInTurnStep DEF OrderInv
  <2>2. CASE ~overlapped'
    <3>1. ~overlapped
      BY <1>2, <2>2 DEF Step, Run, RunIgnored, ListSessions, ReadSession,
         StartCompaction, CompactionDone, Fail, EndTurn, EndLoop, WriteSession,
         ListForPrune, DeleteOldest
    <3> QED
      BY <1>2, <2>2, <3>1, RunOrder, IgnoredOrder, ListOrder, ReadOrder,
         CompactOrder, CompactedOrder, FailOrder, EndOrder, WriteOrder,
         PruneOrder DEF Step
  <2> QED
    BY <2>1, <2>2
<1> QED
  BY <1>1, <1>2, StopOrder, CrashOrder DEF Next

\* Conversation memory: without overlapping calls, no load, compaction,
\* restart or failure puts turns out of their order or into memory twice, and
\* a summary stands in front of turns that were kept as they were.
THEOREM ConversationInOrder == Spec => []InOrder
<1>1. OrderInv => InOrder
  BY DEF OrderInv, TurnsInOrder, Chronological, SummaryFirst, InOrder
<1> QED
  BY <1>1, InitTypes, InitOrder, TypesKept, OrderKept, PTL DEF Spec

-----------------------------------------------------------------------------
(* Nothing is forgotten.                                                    *)

\* S has all that a readable session stands for, but for what summaries without
\* text have lost.
Full(S) ==
    \A f \in DOMAIN files :
        Readable(files[f]) => Covers(Parse(files[f])) \subseteq S \cup blanked

\* One readable session has it all, and it is the newest.
NewestFull ==
    \A f \in DOMAIN files : Readable(files[f]) =>
        \E g \in DOMAIN files :
            /\ Readable(files[g]) /\ Full(Covers(Parse(files[g])))
            /\ \A h \in DOMAIN files : Readable(files[h]) => h <= g

\* A call on its way from the newest session to the next one carries it all:
\* in memory, with the summarizer, in the record it saves, in the file it has
\* written and will not delete.
Carries(r) ==
    /\ pc[r] = "reading" =>
         /\ reading[r] \in DOMAIN files
         /\ \A f \in DOMAIN files : f <= reading[r]
    /\ pc[r] \in {"working", "compacting"} => Full(Covers(compacted[r] \o turns))
    /\ pc[r] = "writing" =>
         /\ Full(Covers(agentSession[r].turns))
         /\ agentSession[r].id = now
         /\ now \notin DOMAIN files
    /\ pc[r] \in {"pruning", "deleting", "skipping"} =>
         /\ now \in DOMAIN files
         /\ Readable(files[now])
         /\ Full(Covers(Parse(files[now])))

RememberInv ==
    ~overlapped /\ ~missedLoad =>
        NewestFull /\ \A r \in Calls : Carries(r)

\* All of what the steps below start from.
Known == TypeInv /\ OrderInv /\ IInv /\ RememberInv

LEMMA InitRemember == Init => RememberInv
<1> SUFFICES ASSUME Init
             PROVE  NewestFull /\ \A r \in Calls : Carries(r)
  BY DEF RememberInv
<1>1. \A f, g \in DOMAIN files : f = 0 /\ g = 0
  BY OldStoresAssumption DEF Init
<1>2. NewestFull
  BY <1>1 DEF NewestFull, Full
<1>3. \A r \in Calls : Carries(r)
  BY DEF Init, Carries
<1> QED
  BY <1>2, <1>3

\* Without overlap the calls that take no step carry nothing.
LEMMA OthersCarryNothing ==
    ASSUME OrderInv, ~overlapped, NEW r \in Calls, Live(r),
           NEW q \in Calls, q # r, pc'[q] = pc[q]
    PROVE  Carries(q)'
<1>1. ~Live(q)
  BY DEF OrderInv, CallsInTurn
<1> QED
  BY <1>1 DEF Live, InRun, Carries

LEMMA OneCarries ==
    ASSUME OrderInv, ~overlapped, NEW r \in Calls, Live(r),
           \A q \in Calls : q # r => pc'[q] = pc[q],
           NewestFull', Carries(r)'
    PROVE  RememberInv'
BY OthersCarryNothing DEF RememberInv

LEMMA BeginRemember ==
    ASSUME Known, ~overlapped', ~missedLoad', NEW r \in Calls,
           Run(r) \/ RunIgnored(r)
    PROVE  RememberInv'
<1>1. /\ files' = files /\ ~overlapped /\ ~missedLoad /\ blanked' = blanked
      /\ UNCHANGED <<now, reading, compacted, agentSession>>
      /\ pc[r] = "idle"
  <2>1. CASE Run(r)
    BY <2>1 DEF Run, locals, NextCall
  <2>2. CASE RunIgnored(r)
    BY <2>2 DEF RunIgnored, locals, NextCall
  <2> QED
    BY <2>1, <2>2
<1>2. NewestFull'
  BY <1>1 DEF Known, RememberInv, NewestFull, Full
<1>3. CASE Run(r)
  <2>1. \A q \in Calls : ~Live(q)
    BY <1>1, <1>3 DEF Run
  <2>2. \A q \in Calls : pc'[q] = IF q = r THEN "loading" ELSE pc[q]
    BY <1>3 DEF Run, Goto, Known, TypeInv, TypeOK
  <2>3. \A q \in Calls : Carries(q)'
    BY <2>1, <2>2 DEF Live, InRun, Carries
  <2> QED
    BY <1>2, <2>3 DEF RememberInv
<1>4. CASE RunIgnored(r)
  <2>1. turns' = turns
    BY <1>4 DEF RunIgnored, memory
  <2>2. \A q \in Calls : pc'[q] = IF q = r THEN "ignored" ELSE pc[q]
    BY <1>4 DEF RunIgnored, Goto, Known, TypeInv, TypeOK
  <2>3. \A q \in Calls : Carries(q)'
    BY <1>1, <2>1, <2>2 DEF Known, RememberInv, Carries, Full
  <2> QED
    BY <1>2, <2>3 DEF RememberInv
<1> QED
  BY <1>3, <1>4

LEMMA ListRemember ==
    ASSUME Known, ~overlapped, ~missedLoad', NEW r \in Calls, ListSessions(r)
    PROVE  RememberInv'
<1>1. /\ pc[r] = "loading" /\ files' = files /\ ~missedLoad
      /\ blanked' = blanked
      /\ \A q \in Calls : pc'[q] = IF q = r THEN pc'[r] ELSE pc[q]
      /\ Live(r)
  BY DEF ListSessions, Goto, Known, TypeInv, TypeOK, Live, InRun
<1>2. NewestFull'
  BY <1>1 DEF Known, RememberInv, NewestFull, Full
<1>3. CASE files # <<>> /\ reading'[r] = Newest(DOMAIN files)
           /\ pc'[r] = "reading"
  <2>1. DOMAIN files # {}
    <3> SUFFICES ASSUME DOMAIN files = {}
                 PROVE  files = <<>>
      BY <1>3
    <3>1. files = [f \in {} |-> files[f]]
      BY DEF Known, TypeInv
    <3> QED
      BY <3>1
  <2>2. now \in Nat /\ DOMAIN files \in SUBSET (0 .. now)
    BY DEF Known, TypeInv, TypeOK
  <2>3. /\ Newest(DOMAIN files) \in DOMAIN files
        /\ \A g \in DOMAIN files : g <= Newest(DOMAIN files)
    BY <2>1, <2>2, NewestIsGreatest
  <2>4. Carries(r)'
    BY <1>1, <1>3, <2>3 DEF Carries
  <2> QED
    BY <1>1, <1>2, <2>4, OneCarries DEF Known
<1>4. CASE files = <<>> /\ pc'[r] = "working"
  <2>1. DOMAIN files = {}
    BY <1>4
  <2>2. Carries(r)'
    BY <1>1, <1>4, <2>1 DEF Carries, Full
  <2> QED
    BY <1>1, <1>2, <2>2, OneCarries DEF Known
<1>5. \/ files # <<>> /\ reading'[r] = Newest(DOMAIN files)
         /\ pc'[r] = "reading"
      \/ files = <<>> /\ pc'[r] = "working"
  BY DEF ListSessions, Goto, Known, TypeInv, TypeOK
<1> QED
  BY <1>3, <1>4, <1>5

LEMMA ReadRemember ==
    ASSUME Known, ~overlapped, ~missedLoad', NEW r \in Calls, ReadSession(r)
    PROVE  RememberInv'
<1>1. /\ pc[r] = "reading" /\ files' = files /\ ~missedLoad
      /\ blanked' = blanked
      /\ \A q \in Calls : pc'[q] = IF q = r THEN "working" ELSE pc[q]
      /\ Live(r) /\ compacted'[r] = compacted[r]
  BY DEF ReadSession, Goto, Known, TypeInv, TypeOK, Live, InRun
<1>2. NewestFull'
  BY <1>1 DEF Known, RememberInv, NewestFull, Full
<1> DEFINE f == reading[r]
<1>3. /\ f \in DOMAIN files /\ Readable(files[f])
      /\ AddTurns(Parse(files[f]))
  BY DEF ReadSession
<1>4. \A g \in DOMAIN files : g <= f
  BY <1>1 DEF Known, RememberInv, Carries
<1>5. Full(Covers(Parse(files[f])))
  <2>1. PICK g \in DOMAIN files :
          /\ Readable(files[g]) /\ Full(Covers(Parse(files[g])))
          /\ \A h \in DOMAIN files : Readable(files[h]) => h <= g
    BY <1>1, <1>3 DEF Known, RememberInv, NewestFull
  <2>2. f <= g /\ g <= f /\ f \in Nat /\ g \in Nat
    BY <1>3, <1>4, <2>1 DEF Known, TypeInv, TypeOK
  <2>3. g = f
    BY <2>2
  <2> QED
    BY <2>1, <2>3
<1>6. compacted'[r] \o turns' = Parse(files[f])
  <2>1. turns = <<>> /\ compacted[r] = <<>>
    BY <1>1 DEF Known, OrderInv, LoopInOrder
  <2>2. Parse(files[f]) \in Seq(Turn)
    BY <1>3, ParseTurns DEF Known, TypeInv, TypeOK
  <2>3. turns' = Parse(files[f])
    BY <1>3, <2>1, <2>2, ConcatEmptySeq DEF AddTurns
  <2> QED
    BY <1>1, <2>1, <2>2, <2>3, ConcatEmptySeq
<1>7. Carries(r)'
  BY <1>1, <1>5, <1>6 DEF Carries, Full
<1> QED
  BY <1>1, <1>2, <1>7, OneCarries DEF Known

LEMMA CompactRemember ==
    ASSUME Known, ~overlapped, ~missedLoad', NEW r \in Calls,
           StartCompaction(r) \/ CompactionDone(r)
    PROVE  RememberInv'
<1>1. /\ pc[r] \in {"working", "compacting"} /\ files' = files /\ ~missedLoad
      /\ \A q \in Calls : pc'[q] = IF q = r THEN pc'[r] ELSE pc[q]
      /\ pc'[r] \in {"working", "compacting"} /\ Live(r)
      /\ blanked \subseteq blanked'
  BY DEF StartCompaction, CompactionDone, Goto, Known, TypeInv, TypeOK, Live,
         InRun
<1>2. NewestFull'
  BY <1>1 DEF Known, RememberInv, NewestFull, Full
<1>3. /\ turns \in Seq(Turn) /\ compacted[r] \in Seq(Turn)
      /\ turns' \in Seq(Turn)
  BY StepTypes DEF Step, Known, TypeInv, TypeOK
<1>4. Full(Covers(compacted[r] \o turns))
  BY <1>1 DEF Known, RememberInv, Carries
<1>5. Covers(compacted[r] \o turns) \subseteq
          Covers(compacted'[r] \o turns') \cup blanked'
  <2>1. CASE StartCompaction(r)
    <3>1. compacted[r] = <<>>
      BY <2>1 DEF StartCompaction, Known, OrderInv, LoopInOrder
    <3>2. /\ compacted'[r] = Spliced(turns).old
          /\ turns' = Spliced(turns).kept /\ Len(turns) > 2
      BY <2>1 DEF StartCompaction, Known, TypeInv, TypeOK
    <3>3. turns = compacted'[r] \o turns'
      BY <1>3, <3>2, SplicedTyped
    <3>4. compacted[r] \o turns = turns
      BY <1>3, <3>1, ConcatEmptySeq
    <3> QED
      BY <3>3, <3>4
  <2>2. CASE CompactionDone(r)
    <3>1. compacted'[r] = <<>>
      BY <2>2 DEF CompactionDone, Known, TypeInv, TypeOK
    <3>2. compacted'[r] \o turns' = turns'
      BY <1>3, <3>1, ConcatEmptySeq
    <3>3. PICK t \in Turn :
              /\ turns' = <<t>> \o turns
              /\ \/ t.of = Covers(compacted[r])
                 \/ blanked' = blanked \cup Covers(compacted[r])
      BY <2>2, RestoredSummary DEF Known
    <3>4. Covers(turns') = t.of \cup Covers(turns)
      BY <1>3, <3>3, CoversInFront
    <3>5. Covers(compacted[r] \o turns) = Covers(compacted[r]) \cup Covers(turns)
      BY <1>3, CoversConcat
    <3> QED
      BY <3>2, <3>3, <3>4, <3>5
  <2> QED
    BY <2>1, <2>2
<1>6. Carries(r)'
  BY <1>1, <1>4, <1>5 DEF Carries, Full
<1> QED
  BY <1>1, <1>2, <1>6, OneCarries DEF Known

LEMMA FailRemember ==
    ASSUME Known, ~overlapped, ~missedLoad', NEW r \in Calls, Fail(r)
    PROVE  RememberInv'
<1>1. /\ pc[r] \in {"working", "compacting"} /\ files' = files /\ ~missedLoad
      /\ blanked' = blanked
      /\ \A q \in Calls : pc'[q] = IF q = r THEN "rejected" ELSE pc[q]
      /\ Live(r)
  BY DEF Fail, Goto, Known, TypeInv, TypeOK, Live, InRun
<1>2. NewestFull'
  BY <1>1 DEF Known, RememberInv, NewestFull, Full
<1>3. Carries(r)'
  BY <1>1 DEF Carries
<1> QED
  BY <1>1, <1>2, <1>3, OneCarries DEF Known

LEMMA EndRemember ==
    ASSUME Known, ~overlapped, ~missedLoad', NEW r \in Calls,
           EndTurn(r) \/ EndLoop(r)
    PROVE  RememberInv'
<1>1. /\ pc[r] = "working" /\ files' = files /\ ~missedLoad
      /\ blanked' = blanked
      /\ turns \in Seq(Turn) /\ Live(r)
  BY DEF EndTurn, EndLoop, Known, TypeInv, TypeOK, Live, InRun
<1>2. PICK s \in {turns, Append(turns, Spoken(r))} : FinishLoop(r, s)
  BY DEF EndTurn, EndLoop
<1>3. \A q \in Calls : pc'[q] = IF q = r THEN "writing" ELSE pc[q]
  BY <1>2 DEF FinishLoop, Goto, Known, TypeInv, TypeOK
<1>4. NewestFull'
  BY <1>1 DEF Known, RememberInv, NewestFull, Full
<1>5. PICK id \in {now, now + 1} :
        /\ id = now => \E q \in Calls :
                           pc[q] = "writing" /\ agentSession[q].id = id
        /\ now' = id /\ agentSession'[r] = [id |-> id, turns |-> s]
  BY <1>2 DEF FinishLoop, Known, TypeInv, TypeOK
<1>6. id = now + 1
  <2>1. \A q \in Calls : pc[q] # "writing"
    BY <1>1 DEF Known, OrderInv, CallsInTurn, Live, InRun
  <2> QED
    BY <1>5, <2>1
<1>7. now' \notin DOMAIN files'
  BY <1>1, <1>5, <1>6 DEF Known, TypeInv, TypeOK
<1>8. Full(Covers(s))
  <2>1. compacted[r] \o turns = turns
    BY <1>1, ConcatEmptySeq DEF Known, OrderInv, LoopInOrder
  <2>2. Full(Covers(turns))
    BY <1>1, <2>1 DEF Known, RememberInv, Carries
  <2>3. Covers(turns) \subseteq Covers(s)
    <3>1. Spoken(r) \in Turn
      BY DEF Spoken, Turn
    <3> QED
      BY <1>1, <1>2, <3>1, CoversAppend
  <2> QED
    BY <2>2, <2>3 DEF Full
<1>9. Carries(r)'
  BY <1>1, <1>3, <1>5, <1>7, <1>8 DEF Carries, Full
<1> QED
  BY <1>1, <1>3, <1>4, <1>9, OneCarries DEF Known

LEMMA WriteRemember ==
    ASSUME Known, ~overlapped, ~missedLoad', NEW r \in Calls, WriteSession(r)
    PROVE  RememberInv'
<1>1. /\ pc[r] = "writing" /\ now' = now /\ ~missedLoad /\ Live(r)
      /\ blanked' = blanked
      /\ \A q \in Calls : pc'[q] = IF q = r THEN pc'[r] ELSE pc[q]
  BY DEF WriteSession, Goto, Known, TypeInv, TypeOK, Live, InRun
<1>6. PICK s : s = agentSession[r].turns
  OBVIOUS
<1>2. /\ Full(Covers(s)) /\ agentSession[r].id = now
      /\ now \notin DOMAIN files /\ s \in Seq(Turn)
  BY <1>1, <1>6 DEF Known, RememberInv, Carries, TypeInv, TypeOK
<1>3. CASE /\ files' = Written(now, [legacy |-> FALSE, lines |-> s])
           /\ pc'[r] = "pruning"
  <2>1. /\ DOMAIN files' = DOMAIN files \cup {now}
        /\ files'[now] = [legacy |-> FALSE, lines |-> s]
        /\ \A f \in DOMAIN files : files'[f] = files[f]
    BY <1>2, <1>3 DEF Written
  <2>2. Parse(files'[now]) = s
    BY <1>2, <2>1, ParseSaved
  <2>3. Readable(files'[now])
    BY <1>2, <2>1, BadAssumption DEF Readable
  <2>4. Full(Covers(s))'
    <3> SUFFICES ASSUME NEW f \in DOMAIN files', Readable(files'[f])
                 PROVE  Covers(Parse(files'[f])) \subseteq Covers(s) \cup blanked
      BY <1>1, <1>2, <2>1 DEF Full
    <3> QED
      BY <1>2, <2>1, <2>2 DEF Full
  <2>5. NewestFull'
    <3>1. \A h \in DOMAIN files' : h <= now
      BY <2>1 DEF Known, TypeInv, TypeOK
    <3>2. \A f \in DOMAIN files' : Readable(files'[f]) =>
              Covers(Parse(files'[f])) \subseteq
                  Covers(Parse(files'[now])) \cup blanked'
      BY <2>2, <2>4 DEF Full
    <3>3. now \in DOMAIN files'
      BY <2>1
    <3> QED
      BY <2>3, <3>1, <3>2, <3>3 DEF NewestFull, Full
  <2>6. Carries(r)'
    BY <1>1, <1>3, <2>1, <2>2, <2>3, <2>4 DEF Carries, Full
  <2> QED
    BY <1>1, <2>5, <2>6, OneCarries DEF Known
<1>4. CASE /\ files' \in {files, Written(now, TornFile)}
           /\ pc'[r] = "unpruned"
  <2>1. /\ \A f \in DOMAIN files : f \in DOMAIN files' /\ files'[f] = files[f]
        /\ \A f \in DOMAIN files' :
               Readable(files'[f]) => f \in DOMAIN files
    BY <1>2, <1>4, ParseTorn DEF Written
  <2>2. NewestFull'
    BY <1>1, <2>1 DEF Known, RememberInv, NewestFull, Full
  <2>3. Carries(r)'
    BY <1>4 DEF Carries
  <2> QED
    BY <1>1, <2>2, <2>3, OneCarries DEF Known
<1>5. \/ files' = Written(now, [legacy |-> FALSE, lines |-> s])
         /\ pc'[r] = "pruning"
      \/ files' \in {files, Written(now, TornFile)} /\ pc'[r] = "unpruned"
  BY <1>2, <1>6 DEF WriteSession, Goto, Known, TypeInv, TypeOK
<1> QED
  BY <1>3, <1>4, <1>5

LEMMA PruneRemember ==
    ASSUME Known, ~overlapped, ~missedLoad', NEW r \in Calls,
           ListForPrune(r) \/ DeleteOldest(r)
    PROVE  RememberInv'
<1>1. /\ pc[r] \in {"pruning", "deleting", "skipping"}
      /\ now' = now /\ ~missedLoad /\ Live(r) /\ blanked' = blanked
      /\ \A q \in Calls : pc'[q] = IF q = r THEN pc'[r] ELSE pc[q]
      /\ pc'[r] \in {"deleting", "skipping", "done", "unpruned"}
  BY DEF ListForPrune, DeleteOldest, Goto, Known, TypeInv, TypeOK, Live, InRun
<1>2. /\ now \in DOMAIN files /\ Readable(files[now])
      /\ Full(Covers(Parse(files[now])))
  BY <1>1 DEF Known, RememberInv, Carries
<1>3. \A f \in DOMAIN files' : f \in DOMAIN files /\ files'[f] = files[f]
  BY DEF ListForPrune, DeleteOldest, Deleted
<1>4. now \in DOMAIN files'
  <2>1. CASE files' = files
    BY <1>2, <2>1
  <2>2. ASSUME NEW d \in doomed[r], files' = Deleted(d)
        PROVE  now \in DOMAIN files'
    <3>1. PICK g \in DOMAIN files : g > d
      BY DEF Known, IInv, HasNewer
    <3>2. g <= now /\ g \in Nat /\ now \in Nat /\ d \in Nat
      BY DEF Known, IInv, TypeInv, TypeOK
    <3>3. d # now
      BY <3>1, <3>2
    <3> QED
      BY <1>2, <2>2, <3>3 DEF Deleted
  <2> QED
    BY <2>1, <2>2 DEF ListForPrune, DeleteOldest
<1>8. PICK S : S = Covers(Parse(files[now]))
  OBVIOUS
<1>5. /\ Readable(files'[now]) /\ Covers(Parse(files'[now])) = S
      /\ Full(S)'
  <2>1. files'[now] = files[now]
    BY <1>3, <1>4
  <2>2. \A f \in DOMAIN files' : Readable(files'[f]) =>
            Covers(Parse(files'[f])) \subseteq S \cup blanked
    BY <1>2, <1>3, <1>8 DEF Full
  <2> QED
    BY <1>1, <1>2, <1>8, <2>1, <2>2 DEF Full
<1>6. NewestFull'
  <2>1. \A h \in DOMAIN files' : h <= now
    BY <1>3 DEF Known, TypeInv, TypeOK
  <2> QED
    BY <1>4, <1>5, <2>1 DEF NewestFull
<1>7. Carries(r)'
  BY <1>1, <1>4, <1>5 DEF Carries
<1> QED
  BY <1>1, <1>6, <1>7, OneCarries DEF Known

LEMMA StopRemember ==
    ASSUME Known, Stop
    PROVE  RememberInv'
<1>1. UNCHANGED <<turns, files, now, reading, agentSession, overlapped,
                  missedLoad, blanked>>
  BY DEF Stop, memory
<1>2. CASE UNCHANGED <<pc, compacted>>
  BY <1>1, <1>2 DEF Known, RememberInv, NewestFull, Full, Carries
<1>3. ASSUME NEW r \in Calls, Goto(r, "hung"),
             compacted' = [compacted EXCEPT ![r] = <<>>]
      PROVE  RememberInv'
  <2>1. \A q \in Calls :
            /\ pc'[q] = IF q = r THEN "hung" ELSE pc[q]
            /\ q # r => compacted'[q] = compacted[q]
    BY <1>3 DEF Goto, Known, TypeInv, TypeOK
  <2>2. ASSUME ~overlapped, ~missedLoad, NEW q \in Calls
        PROVE  Carries(q)'
    <3>1. Carries(q)
      BY <2>2 DEF Known, RememberInv
    <3>2. CASE q = r
      BY <2>1, <3>2 DEF Carries
    <3>3. CASE q # r
      BY <1>1, <2>1, <3>1, <3>3 DEF Carries, Full
    <3> QED
      BY <3>2, <3>3
  <2>3. ASSUME ~overlapped, ~missedLoad
        PROVE  NewestFull'
    BY <1>1, <2>3 DEF Known, RememberInv, NewestFull, Full
  <2> QED
    BY <1>1, <2>2, <2>3 DEF RememberInv
<1> QED
  BY <1>2, <1>3 DEF Stop

LEMMA CrashRemember ==
    ASSUME Known, Crash
    PROVE  RememberInv'
<1> SUFFICES ASSUME ~overlapped, ~missedLoad
             PROVE  NewestFull' /\ \A r \in Calls : Carries(r)'
  BY DEF Crash, RememberInv
<1>1. PICK torn \in SUBSET
          {agentSession[r].id : r \in {q \in Calls : pc[q] = "writing"}} :
        files' = [f \in DOMAIN files \cup torn |->
                     IF f \in torn THEN TornFile ELSE files[f]]
  BY DEF Crash
<1>2. \A f \in torn : f \notin DOMAIN files
  BY DEF Known, RememberInv, Carries
<1>3. /\ \A f \in DOMAIN files : f \in DOMAIN files' /\ files'[f] = files[f]
      /\ \A f \in DOMAIN files' : Readable(files'[f]) => f \in DOMAIN files
      /\ blanked' = blanked
  BY <1>1, <1>2, ParseTorn DEF Crash
<1>4. NewestFull'
  BY <1>3 DEF Known, RememberInv, NewestFull, Full
<1>5. \A r \in Calls : pc'[r] \notin InRun
  BY DEF Crash, Live, InRun
<1> QED
  BY <1>4, <1>5 DEF Carries, InRun

LEMMA RememberKept ==
    ASSUME Known, [Next]_vars
    PROVE  RememberInv'
<1>1. CASE UNCHANGED vars
  BY <1>1 DEF vars, memory, locals, Known, RememberInv, NewestFull, Full,
              Carries
<1>2. ASSUME NEW r \in Calls, Step(r)
      PROVE  RememberInv'
  <2> SUFFICES ASSUME ~overlapped', ~missedLoad'
               PROVE  RememberInv'
    BY DEF RememberInv
  <2>1. ~overlapped
    BY <1>2 DEF Step, Run, RunIgnored, ListSessions, ReadSession,
       StartCompaction, CompactionDone, Fail, EndTurn, EndLoop, WriteSession,
       ListForPrune, DeleteOldest
  <2> QED
    BY <1>2, <2>1, BeginRemember, ListRemember, ReadRemember, CompactRemember,
       FailRemember, EndRemember, WriteRemember, PruneRemember DEF Step
<1> QED
  BY <1>1, <1>2, StopRemember, CrashRemember DEF Next

LEMMA RememberNothingForgotten ==
    ASSUME TypeInv, RememberInv
    PROVE  NothingForgotten
<1> DEFINE readable == {f \in DOMAIN files : Readable(files[f])}
<1> SUFFICES ASSUME ~overlapped, ~missedLoad, NEW f \in readable
             PROVE  Covers(Parse(files[f])) \subseteq
                        Covers(Parse(files[Newest(readable)])) \cup blanked
  BY DEF NothingForgotten
<1>1. PICK g \in readable : /\ Full(Covers(Parse(files[g])))
                            /\ \A h \in readable : h <= g
  BY DEF RememberInv, NewestFull
<1>2. Newest(readable) = g
  <2>1. now \in Nat /\ readable \in SUBSET (0 .. now) /\ readable # {}
    BY DEF TypeInv, TypeOK
  <2>4. readable \subseteq Nat
    BY <2>1
  <2> HIDE DEF readable
  <2>2. /\ Newest(readable) \in readable
        /\ \A h \in readable : h <= Newest(readable)
    BY <2>1, NewestIsGreatest
  <2>3. /\ Newest(readable) <= g /\ g <= Newest(readable)
        /\ g \in Nat /\ Newest(readable) \in Nat
    BY <1>1, <2>2, <2>4
  <2> QED
    BY <2>3
<1> QED
  BY <1>1, <1>2 DEF Full

\* The two tiers of memory together: without overlapping calls, and as long
\* as every load got the newest session, a turn that any session on disk
\* stands for is one the newest of them stands for, unless a compaction got a
\* summary without text for it.  Compaction with a text, pruning, failed and
\* torn writes, stop() and crashes lose nothing.
THEOREM NothingIsForgotten == Spec => []NothingForgotten
<1>1. Init => Known
  BY InitTypes, InitOrder, InitIInv, InitRemember DEF Known
<1>2. Known /\ [Next]_vars => Known'
  BY TypesKept, OrderKept, NextStep, RememberKept DEF Known
<1>3. Known => NothingForgotten
  BY RememberNothingForgotten DEF Known
<1> QED
  BY <1>1, <1>2, <1>3, PTL DEF Spec

=============================================================================
