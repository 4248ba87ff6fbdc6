--------------------------- MODULE SubAgentsProofs ---------------------------
(***************************************************************************)
(* Routing by name is right for any calls of execute, any names and any    *)
(* number of agents: who is listed is under way, and who is under way is   *)
(* listed unless a name was used by two calls.                             *)
(*                                                                         *)
(* An agent deletes its name without looking at who is listed under it.    *)
(* That is harmless as long as agents under way with one name are all in   *)
(* "clashed" (NamesClash): the deduplication gives the agents of one call  *)
(* different names, which is the lemma DedupeDistinct, and Clash collects  *)
(* those of different calls.                                               *)
(***************************************************************************)
EXTENDS SubAgents, FiniteSetTheorems, TLAPS

NamesClash ==
    \A a \in InFlight : \A c \in InFlight :
        a # c /\ NameOf(a) = NameOf(c) => a \in clashed /\ c \in clashed

AbortedStarted == \A a \in aborted : pc[a] # "idle"

IInv ==
    /\ TypeOK
    /\ ListedIsLive
    /\ Reachable
    /\ NamesClash
    /\ AbortedStarted

LEMMA AgentType ==
    ASSUME NEW a \in Agents
    PROVE  /\ a[1] \in Batches
           /\ a[2] \in DOMAIN Configs[a[1]]
           /\ a[2] \in Nat \ {0}
           /\ a = <<a[1], a[2]>>
           /\ Configs[a[1]] \in Seq([name : Name, isolated : BOOLEAN])
           /\ Given(a) \in Name
           /\ Isolated(a) \in BOOLEAN
<1>1. PICK b \in Batches : \E i \in DOMAIN Configs[b] : a = <<b, i>>
  BY DEF Agents
<1>2. PICK i \in DOMAIN Configs[b] : a = <<b, i>>
  BY <1>1
<1>3. Configs[b] \in Seq([name : Name, isolated : BOOLEAN])
  BY ConfigsAssumption
<1>4. Configs[b][i] \in [name : Name, isolated : BOOLEAN] /\ i \in Nat \ {0}
  <2> DEFINE Config == [name : Name, isolated : BOOLEAN]
  <2>1. Configs[b] \in Seq(Config)
    BY <1>3
  <2> HIDE DEF Config
  <2>2. Configs[b][i] \in Config /\ i \in Nat \ {0}
    BY <1>2, <2>1
  <2> QED BY <2>2 DEF Config
<1> QED BY <1>2, <1>3, <1>4 DEF Given, Isolated

\* How often the name of an agent was used before it in its call.
Before(a) == {j \in 1 .. a[2] - 1 : Configs[a[1]][j].name = Given(a)}

LEMMA BeforeFinite ==
    ASSUME NEW a \in Agents
    PROVE  IsFiniteSet(Before(a)) /\ Cardinality(Before(a)) \in Nat
<1>1. IsFiniteSet(1 .. a[2] - 1)
  BY AgentType, FS_Interval
<1>2. Before(a) \in SUBSET (1 .. a[2] - 1)
  BY DEF Before
<1>3. IsFiniteSet(Before(a))
  BY <1>1, <1>2, FS_Subset
<1> QED BY <1>3, FS_CardinalityType

LEMMA NameOfCases ==
    ASSUME NEW a \in Agents
    PROVE  /\ NameOf(a) \in Name
           /\ NameOf(a).base = Given(a).base
           /\ NameOf(a).numbers =
                  IF Cardinality(Before(a)) = 0 THEN Given(a).numbers
                  ELSE Append(Given(a).numbers, Cardinality(Before(a)) + 1)
<1>1. NameOf(a) = IF Cardinality(Before(a)) = 0 THEN Given(a)
                  ELSE [Given(a) EXCEPT
                            !.numbers = Append(@, Cardinality(Before(a)) + 1)]
  BY DEF NameOf, Before
<1> HIDE DEF NameOf
<1>2. Given(a) \in Name /\ Cardinality(Before(a)) \in Nat
  BY AgentType, BeforeFinite
<1>3. Given(a).numbers \in Seq(Nat) /\ Given(a).base \in Bases
      /\ Given(a) = [base |-> Given(a).base, numbers |-> Given(a).numbers]
  BY <1>2 DEF Name
<1>4. Append(Given(a).numbers, Cardinality(Before(a)) + 1) \in Seq(Nat)
  BY <1>2, <1>3
<1> QED BY <1>1, <1>2, <1>3, <1>4 DEF Name

\* The deduplication of execute: two agents of one call whose names were given
\* without a number have different names.
LEMMA DedupeDistinct ==
    ASSUME NEW a \in Agents, NEW c \in Agents, a # c, a[1] = c[1],
           Given(a).numbers = <<>>, Given(c).numbers = <<>>
    PROVE  NameOf(a) # NameOf(c)
<1>1. ASSUME NEW x \in Agents, NEW y \in Agents, x[1] = y[1], x[2] < y[2],
             Given(x).numbers = <<>>, Given(y).numbers = <<>>,
             NameOf(x) = NameOf(y)
      PROVE  FALSE
  <2>1. Given(x) = Given(y)
    <3>1. Given(x) \in Name /\ Given(y) \in Name
      BY AgentType
    <3>2. Given(x).base = Given(y).base /\ Given(x).numbers = Given(y).numbers
      BY <1>1, NameOfCases
    <3> QED BY <3>1, <3>2 DEF Name
  <2>2. Before(x) \subseteq Before(y) /\ x[2] \in Before(y)
        /\ x[2] \notin Before(x)
    BY <1>1, <2>1, AgentType DEF Before, Given
  <2>3. Cardinality(Before(x)) < Cardinality(Before(y))
    BY <2>2, BeforeFinite, FS_Subset
  <2>4. NameOf(x).numbers # NameOf(y).numbers
    <3>1. Cardinality(Before(x)) \in Nat /\ Cardinality(Before(y)) \in Nat
      BY BeforeFinite
    <3> DEFINE n(k) == IF k = 0 THEN <<>> ELSE Append(<<>>, k + 1)
    <3>2. \A j, k \in Nat : j < k => n(j) # n(k)
      OBVIOUS
    <3>3. /\ NameOf(x).numbers = n(Cardinality(Before(x)))
          /\ NameOf(y).numbers = n(Cardinality(Before(y)))
      BY <1>1, NameOfCases
    <3> QED BY <2>3, <3>1, <3>2, <3>3
  <2> QED BY <1>1, <2>4
<1>2. a[2] < c[2] \/ c[2] < a[2]
  BY AgentType
<1> QED BY <1>1, <1>2

-----------------------------------------------------------------------------
LEMMA InitIInv == Init => IInv
BY MaxStepsAssumption, MaxMessagesAssumption
   DEF Init, IInv, TypeOK, ListedIsLive, Reachable, NamesClash, AbortedStarted,
       InFlight

\* The return of an agent that is under way, and every other step of one.
LEMMA SettleInv ==
    ASSUME IInv, NEW a \in InFlight, Settle(a),
           UNCHANGED <<aborted, clashed>>
    PROVE  /\ DOMAIN running' \subseteq Name
           /\ \A n \in DOMAIN running' : running'[n] \in Agents
           /\ ListedIsLive' /\ Reachable' /\ NamesClash' /\ AbortedStarted'
<1>1. /\ DOMAIN running' = DOMAIN running \ {NameOf(a)}
      /\ \A n \in DOMAIN running' : running'[n] = running[n]
  BY DEF Settle, Without
<1>2. /\ a \in Agents /\ pc'[a] = "settled"
      /\ \A c \in Agents : c # a => pc'[c] = pc[c]
  BY DEF Settle, IInv, TypeOK, InFlight
<1>3. InFlight' = InFlight \ {a}
  BY <1>2 DEF InFlight
<1>4. ListedIsLive'
  BY <1>1, <1>3 DEF IInv, ListedIsLive
<1>5. Reachable'
  BY <1>1, <1>3 DEF IInv, Reachable, NamesClash
<1>6. NamesClash' /\ AbortedStarted'
  BY <1>2, <1>3 DEF IInv, NamesClash, AbortedStarted, TypeOK
<1> QED BY <1>1, <1>4, <1>5, <1>6 DEF IInv, TypeOK

LEMMA StayInv ==
    ASSUME IInv, NEW a \in InFlight,
           NEW s \in {"calling", "tool", "cleanup"},
           pc' = [pc EXCEPT ![a] = s],
           UNCHANGED <<running, aborted, clashed>>
    PROVE  /\ DOMAIN running' \subseteq Name
           /\ \A n \in DOMAIN running' : running'[n] \in Agents
           /\ ListedIsLive' /\ Reachable' /\ NamesClash' /\ AbortedStarted'
<1>1. InFlight' = InFlight
  BY DEF InFlight, IInv, TypeOK
<1>2. ListedIsLive' /\ Reachable' /\ NamesClash'
  BY <1>1 DEF IInv, ListedIsLive, Reachable, NamesClash
<1>3. AbortedStarted'
  BY DEF IInv, TypeOK, AbortedStarted
<1> QED BY <1>2, <1>3 DEF IInv, TypeOK

LEMMA ReturnInv ==
    ASSUME IInv, NEW a \in InFlight, NEW s \in {"completed", "error", "aborted"},
           NEW isolated \in BOOLEAN, Return(a, s, isolated),
           UNCHANGED <<step, aborted, memory, sent, clashed>>
    PROVE  IInv'
<1>1. /\ status' \in [Agents -> {"none", "completed", "error", "aborted"}]
      /\ pc' \in [Agents -> {"idle", "creating", "calling", "tool", "cleanup",
                             "settled"}]
  BY DEF Return, Settle, IInv, TypeOK
<1>2. /\ DOMAIN running' \subseteq Name
      /\ \A n \in DOMAIN running' : running'[n] \in Agents
      /\ ListedIsLive' /\ Reachable' /\ NamesClash' /\ AbortedStarted'
  BY SettleInv, StayInv DEF Return
<1> QED BY <1>1, <1>2 DEF IInv, TypeOK

LEMMA LoopHeadInv ==
    ASSUME IInv, NEW a \in InFlight, LoopHead(a),
           UNCHANGED <<aborted, memory, sent, clashed>>
    PROVE  IInv'
<1>a. a \in Agents /\ Isolated(a) \in BOOLEAN
  BY AgentType DEF InFlight
<1>1. ASSUME NEW s \in {"aborted", "completed"}, Finish(a, s)
      PROVE  IInv'
  BY <1>1, <1>a, ReturnInv DEF Finish
<1>2. CASE step[a] < MaxSteps /\ Call(a)
  <2>1. step' \in [Agents -> 0 .. MaxSteps]
    BY <1>2, <1>a, MaxStepsAssumption DEF Call, IInv, TypeOK
  <2>2. pc' \in [Agents -> {"idle", "creating", "calling", "tool", "cleanup",
                            "settled"}]
    BY <1>2 DEF Call, IInv, TypeOK
  <2>3. /\ DOMAIN running' \subseteq Name
        /\ \A n \in DOMAIN running' : running'[n] \in Agents
        /\ ListedIsLive' /\ Reachable' /\ NamesClash' /\ AbortedStarted'
    BY <1>2, StayInv DEF Call
  <2> QED BY <1>2, <2>1, <2>2, <2>3 DEF Call, IInv, TypeOK
<1> QED BY <1>1, <1>2 DEF LoopHead

LEMMA ResumeInv ==
    ASSUME IInv, NEW a \in Agents, Resume(a)
    PROVE  IInv'
<1>1. a \in InFlight /\ Isolated(a) \in BOOLEAN
  BY AgentType DEF Resume, WorktreeCreated, Answered, ToolReturned,
       WorktreeRemoved, InFlight
<1>2. CASE WorktreeCreated(a)
  BY <1>1, <1>2, LoopHeadInv, ReturnInv DEF WorktreeCreated
<1>3. CASE Answered(a)
  <2>1. CASE Finish(a, "completed") \/ Finish(a, "error")
    BY <1>1, <1>3, <2>1, ReturnInv DEF Answered, Finish
  <2>2. CASE LoopHead(a)
    BY <1>1, <1>3, <2>2, LoopHeadInv DEF Answered
  <2>3. CASE /\ pc' = [pc EXCEPT ![a] = "tool"]
             /\ UNCHANGED <<running, step, status>>
    <3>1. /\ DOMAIN running' \subseteq Name
          /\ \A n \in DOMAIN running' : running'[n] \in Agents
          /\ ListedIsLive' /\ Reachable' /\ NamesClash' /\ AbortedStarted'
      BY <1>1, <1>3, <2>3, StayInv DEF Answered
    <3> QED BY <1>3, <2>3, <3>1 DEF Answered, IInv, TypeOK
  <2> QED BY <1>3, <2>1, <2>2, <2>3 DEF Answered
<1>4. CASE ToolReturned(a)
  BY <1>1, <1>4, LoopHeadInv DEF ToolReturned
<1>5. CASE WorktreeRemoved(a)
  <2>1. /\ DOMAIN running' \subseteq Name
        /\ \A n \in DOMAIN running' : running'[n] \in Agents
        /\ ListedIsLive' /\ Reachable' /\ NamesClash' /\ AbortedStarted'
    BY <1>1, <1>5, SettleInv DEF WorktreeRemoved
  <2> QED BY <1>5, <2>1 DEF WorktreeRemoved, Settle, IInv, TypeOK
<1> QED BY <1>2, <1>3, <1>4, <1>5 DEF Resume

\* A call joins: its agents take names that no agent under way has, or all of
\* them are clashed.
LEMMA ExecuteInv ==
    ASSUME IInv, NEW b \in Batches, Execute(b)
    PROVE  IInv'
<1> DEFINE names == {NameOf(a) : a \in Of(b)}
<1>1. /\ running' \in [DOMAIN running \cup names -> Agents]
      /\ \A n \in DOMAIN running \ names : running'[n] = running[n]
      /\ \A n \in names : running'[n] \in Of(b) /\ NameOf(running'[n]) = n
  BY DEF Execute, With
<1>2. InFlight' = InFlight \cup Of(b) /\ Of(b) \subseteq Agents
  BY DEF Execute, InFlight, Of, IInv, TypeOK
<1>3. Of(b) \cap InFlight = {} /\ clashed' = clashed \cup Clash(b)
      /\ \A a \in Of(b) : a[1] = b
  BY DEF Execute, InFlight, Of
<1>4. \A a \in Agents : NameOf(a) \in Name
  BY NameOfCases
<1> HIDE DEF names
<1>5. TypeOK'
  <2>1. DOMAIN running' \subseteq Name
    BY <1>1, <1>2, <1>4 DEF names, IInv, TypeOK
  <2>2. \A n \in DOMAIN running' : running'[n] \in Agents
    BY <1>1
  <2>3. /\ pc' \in [Agents -> {"idle", "creating", "calling", "tool", "cleanup",
                               "settled"}]
        /\ step' \in [Agents -> 0 .. MaxSteps]
    BY MaxStepsAssumption DEF Execute, IInv, TypeOK
  <2>4. clashed' \subseteq Agents
    BY <1>2, <1>3 DEF Clash, InFlight, IInv, TypeOK
  <2> QED BY <2>1, <2>2, <2>3, <2>4 DEF Execute, IInv, TypeOK
<1>6. ListedIsLive'
  BY <1>1, <1>2 DEF IInv, ListedIsLive
\* Two agents that share a name are both in Clash, or were clashed before.
<1>7. ASSUME NEW a \in InFlight', NEW c \in InFlight', a # c,
             NameOf(a) = NameOf(c), a \notin InFlight \/ c \notin InFlight
      PROVE  a \in Clash(b) /\ c \in Clash(b)
  <2>1. a \in Agents /\ c \in Agents
    BY DEF InFlight
  <2>2. CASE a[1] # c[1]
    BY <1>2, <1>7, <2>2 DEF Clash
  <2>3. CASE a[1] = c[1]
    BY <1>2, <1>7, <2>1, <2>3, DedupeDistinct DEF Clash
  <2> QED BY <2>2, <2>3
<1>8. NamesClash'
  BY <1>3, <1>7 DEF IInv, NamesClash
<1>9. Reachable'
  <2> SUFFICES ASSUME NEW a \in InFlight', a \notin clashed'
               PROVE  NameOf(a) \in DOMAIN running' /\ running'[NameOf(a)] = a
    BY DEF Reachable
  <2>1. CASE a \in Of(b)
    <3>1. NameOf(a) \in names
      BY <2>1 DEF names
    <3>2. running'[NameOf(a)] \in InFlight'
          /\ NameOf(running'[NameOf(a)]) = NameOf(a)
      BY <1>1, <1>2, <3>1
    <3> QED BY <1>1, <1>3, <1>7, <2>1, <3>1, <3>2
  <2>2. CASE a \in InFlight
    <3>1. NameOf(a) \in DOMAIN running /\ running[NameOf(a)] = a
      BY <1>3, <2>2 DEF IInv, Reachable
    <3>2. NameOf(a) \notin names
      <4> SUFFICES ASSUME NEW c \in Of(b), NameOf(c) = NameOf(a) PROVE FALSE
        BY DEF names
      <4> QED BY <1>2, <1>3, <1>7, <2>2
    <3> QED BY <1>1, <3>1, <3>2
  <2> QED BY <1>2, <2>1, <2>2
<1>10. AbortedStarted'
  BY DEF Execute, IInv, TypeOK, AbortedStarted
<1> QED BY <1>5, <1>6, <1>8, <1>9, <1>10 DEF IInv

LEMMA TargetsType ==
    ASSUME IInv, NEW to \in Receivers
    PROVE  Targets(to) \subseteq InFlight /\ InFlight \subseteq Agents
BY DEF IInv, ListedIsLive, Targets, InFlight

LEMMA MessageInv ==
    ASSUME IInv, NEW to \in Receivers, Message(to)
    PROVE  IInv'
<1>1. InFlight' = InFlight
  BY DEF Message, InFlight
<1>2. sent' \in 0 .. MaxMessages
  BY MaxMessagesAssumption DEF Message, IInv, TypeOK
<1>3. memory' \in [Agents -> 0 .. sent']
  BY DEF Message, IInv, TypeOK
<1> QED
  BY <1>1, <1>2, <1>3 DEF Message, IInv, TypeOK, ListedIsLive, Reachable,
       NamesClash, AbortedStarted

LEMMA ShutdownInv ==
    ASSUME IInv, NEW to \in Receivers, SendShutdown(to)
    PROVE  IInv'
<1> DEFINE ended == {a \in Targets(to) : pc[a] = "calling"}
<1> DEFINE gone == {e \in ended : ~Isolated(e)}
<1>1. /\ Targets(to) \subseteq InFlight /\ InFlight \subseteq Agents
      /\ aborted' = aborted \cup Targets(to) /\ clashed' = clashed
      /\ status' = [a \in Agents |-> IF a \in ended THEN "error" ELSE status[a]]
      /\ pc' = [a \in Agents |-> IF a \notin ended THEN pc[a]
                                 ELSE IF Isolated(a) THEN "cleanup"
                                 ELSE "settled"]
      /\ running' = Without({NameOf(a) : a \in gone})
      /\ UNCHANGED <<step, memory>> /\ sent' = sent + 1 /\ sent < MaxMessages
  BY TargetsType DEF SendShutdown, Shutdown
<1>2. InFlight' = InFlight \ gone /\ gone \subseteq InFlight
  BY <1>1 DEF InFlight, IInv, TypeOK
<1>3. /\ DOMAIN running' = DOMAIN running \ {NameOf(a) : a \in gone}
      /\ \A n \in DOMAIN running' : running'[n] = running[n]
  BY <1>1 DEF Without
<1>4. TypeOK'
  <2>1. sent' \in 0 .. MaxMessages
    BY <1>1, MaxMessagesAssumption DEF IInv, TypeOK
  <2>2. memory' \in [Agents -> 0 .. sent']
    BY <1>1 DEF IInv, TypeOK
  <2> QED
    BY <1>1, <1>3, <2>1, <2>2 DEF IInv, TypeOK
<1> HIDE DEF gone, ended
<1>5. ListedIsLive'
  <2> SUFFICES ASSUME NEW n \in DOMAIN running'
               PROVE  running'[n] \in InFlight' /\ NameOf(running'[n]) = n
    BY DEF ListedIsLive
  <2>1. running[n] \in InFlight /\ NameOf(running[n]) = n
    BY <1>3 DEF IInv, ListedIsLive
  <2> QED BY <1>2, <1>3, <2>1
<1>6. NamesClash'
  BY <1>1, <1>2 DEF IInv, NamesClash
<1>7. Reachable'
  <2> SUFFICES ASSUME NEW a \in InFlight', a \notin clashed
               PROVE  NameOf(a) \in DOMAIN running' /\ running'[NameOf(a)] = a
    BY <1>1 DEF Reachable
  <2>1. NameOf(a) \in DOMAIN running /\ running[NameOf(a)] = a
    BY <1>2 DEF IInv, Reachable
  <2>2. \A e \in gone : NameOf(e) # NameOf(a)
    BY <1>2 DEF IInv, NamesClash
  <2> QED BY <1>3, <2>1, <2>2
<1>8. AbortedStarted'
  BY <1>1 DEF IInv, AbortedStarted, InFlight, TypeOK
<1> QED BY <1>4, <1>5, <1>6, <1>7, <1>8 DEF IInv

LEMMA StepIInv == IInv /\ [Next]_vars => IInv'
<1>1. ASSUME IInv, UNCHANGED vars PROVE IInv'
  BY <1>1 DEF vars, IInv, TypeOK, ListedIsLive, Reachable, NamesClash,
       AbortedStarted, InFlight
<1> QED
  BY <1>1, ExecuteInv, ResumeInv, MessageInv, ShutdownInv DEF Next

\* The variables keep their types, the step counter its limit.
THEOREM TypeCorrect == Spec => []TypeOK
<1>1. IInv => TypeOK
  BY DEF IInv
<1> QED BY InitIInv, StepIInv, <1>1, PTL DEF Spec

\* No message and no shutdown goes to an agent that has ended, and an agent
\* under way whose name no other call has used is listed under it.
THEOREM RoutingRight == Spec => []RoutesToLive
<1>1. IInv => RoutesToLive
  BY DEF IInv, RoutesToLive
<1> QED BY InitIInv, StepIInv, <1>1, PTL DEF Spec

\* What a step does to the counter and the status of an agent.
LEMMA LoopHeadAborted ==
    ASSUME TypeOK, NEW a \in Agents, LoopHead(a), NEW c \in aborted
    PROVE  /\ step'[c] = step[c]
           /\ status[c] = "none" /\ status'[c] = "completed" =>
                  step[c] = MaxSteps
<1>1. c \in Agents
  BY DEF TypeOK
<1>2. CASE a \notin aborted /\ Call(a)
  BY <1>1, <1>2 DEF Call, TypeOK
<1>3. CASE step[a] = MaxSteps /\ Finish(a, "completed")
  BY <1>1, <1>3 DEF Finish, Return, TypeOK
<1>4. CASE Finish(a, "aborted")
  BY <1>1, <1>4 DEF Finish, Return, TypeOK
<1> QED BY <1>2, <1>3, <1>4 DEF LoopHead

LEMMA StepAborted ==
    ASSUME IInv, [Next]_vars, NEW c \in aborted
    PROVE  /\ step'[c] = step[c]
           /\ status[c] = "none" /\ status'[c] = "completed" =>
                  step[c] = MaxSteps
<1>1. c \in Agents /\ pc[c] # "idle" /\ TypeOK
  BY DEF IInv, TypeOK, AbortedStarted
<1>2. ASSUME NEW b \in Batches, Execute(b)
      PROVE  step'[c] = step[c] /\ status' = status
  BY <1>1, <1>2 DEF Execute
<1>3. ASSUME NEW to \in Receivers, Message(to) \/ SendShutdown(to)
      PROVE  step' = step /\ status'[c] \in {status[c], "error"}
  BY <1>1, <1>3 DEF Message, SendShutdown, Shutdown
<1>4. ASSUME NEW a \in Agents, Resume(a)
      PROVE  /\ step'[c] = step[c]
             /\ status[c] = "none" /\ status'[c] = "completed" =>
                    step[c] = MaxSteps
  <2>1. CASE WorktreeCreated(a)
    <3>1. CASE Return(a, "error", FALSE) /\ UNCHANGED step
      BY <1>1, <3>1 DEF Return, TypeOK
    <3> QED BY <1>1, <2>1, <3>1, LoopHeadAborted DEF WorktreeCreated
  <2>2. CASE Answered(a)
    <3>1. a # c
      BY <2>2 DEF Answered
    <3>2. CASE Finish(a, "completed") \/ Finish(a, "error")
      BY <1>1, <3>1, <3>2 DEF Finish, Return, TypeOK
    <3> QED BY <1>1, <2>2, <3>2, LoopHeadAborted DEF Answered
  <2>3. CASE ToolReturned(a)
    BY <1>1, <2>3, LoopHeadAborted DEF ToolReturned
  <2>4. CASE WorktreeRemoved(a)
    BY <2>4 DEF WorktreeRemoved
  <2> QED BY <1>4, <2>1, <2>2, <2>3, <2>4 DEF Resume
<1> QED BY <1>2, <1>3, <1>4, MaxStepsAssumption DEF Next, vars

\* After its shutdown an agent asks the model for nothing any more, and the
\* shutdown shows in its status, unless its last step was over.
THEOREM ShutdownIsHeeded == Spec => ShutdownHeeded
<1>1. IInv /\ [Next]_vars =>
        [\A a \in aborted :
             /\ step'[a] = step[a]
             /\ status[a] = "none" /\ status'[a] = "completed" =>
                    step[a] = MaxSteps]_vars
  BY StepAborted
<1> QED BY InitIInv, StepIInv, <1>1, PTL DEF Spec, ShutdownHeeded

=============================================================================
