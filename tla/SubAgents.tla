------------------------------ MODULE SubAgents ------------------------------
(***************************************************************************)
(* SubAgentManager: batches of sub-agents that run side by side, the map   *)
(* _running that messages and shutdowns are routed by, and the loop of one *)
(* sub-agent with its optional worktree.                                   *)
(*                                                                         *)
(* Agent <<b, i>> is the one of the i-th config of the call b of execute.  *)
(* It awaits its worktree, an answer of the model, a tool that runs in the *)
(* worktree, and the removal of the worktree; what follows an await runs   *)
(* in one step up to the next.                                             *)
(*                                                                         *)
(* Abstractions: a name is a base and the numbers appended to it, those of *)
(* "x-2" being <<2>>; the texts are left out.  The commands of a worktree  *)
(* change nothing here: _execShell sends them as "cmd", the main process   *)
(* runs "command", and so an empty one.                                    *)
(***************************************************************************)
EXTENDS Naturals, Sequences, FiniteSets

CONSTANTS
    Bases,       \* names without a number
    Batches,     \* calls of execute
    Configs,     \* Configs[b]: what is passed to the call b
    MaxSteps,    \* answers a sub-agent may ask for, 10 in the code
    MaxMessages  \* bound: messages sent by the parent

Name == [base : Bases, numbers : Seq(Nat)]

ASSUME MaxStepsAssumption == MaxSteps \in Nat \ {0}
ASSUME MaxMessagesAssumption == MaxMessages \in Nat
ASSUME ConfigsAssumption ==
    /\ DOMAIN Configs = Batches
    /\ \A b \in Batches : Configs[b] \in Seq([name : Name, isolated : BOOLEAN])

Agents == UNION {{<<b, i>> : i \in DOMAIN Configs[b]} : b \in Batches}

VARIABLES
    running,  \* _running: names to agents
    pc,       \* where each agent is
    step,     \* answers asked for
    status,   \* the status of its result, "none" before it has one
    aborted,  \* agents whose signal is aborted
    memory,   \* how many turns were added to its ConversationMemory
    sent,     \* messages sent so far
    clashed   \* agents that have shared their name with one of another call

vars == <<running, pc, step, status, aborted, memory, sent, clashed>>

InFlight == {a \in Agents : pc[a] \notin {"idle", "settled"}}

TypeOK ==
    /\ DOMAIN running \subseteq Name
    /\ \A n \in DOMAIN running : running[n] \in Agents
    /\ pc \in [Agents -> {"idle", "creating", "calling", "tool", "cleanup",
                          "settled"}]
    /\ step \in [Agents -> 0 .. MaxSteps]
    /\ status \in [Agents -> {"none", "completed", "error", "aborted"}]
    /\ aborted \subseteq Agents
    /\ memory \in [Agents -> 0 .. sent]
    /\ sent \in 0 .. MaxMessages
    /\ clashed \subseteq Agents

Init ==
    /\ running = <<>>
    /\ pc = [a \in Agents |-> "idle"]
    /\ step = [a \in Agents |-> 0]
    /\ status = [a \in Agents |-> "none"]
    /\ aborted = {}
    /\ memory = [a \in Agents |-> 0]
    /\ sent = 0
    /\ clashed = {}

-----------------------------------------------------------------------------
Of(b) == {a \in Agents : a[1] = b}
Isolated(a) == Configs[a[1]][a[2]].isolated
Given(a) == Configs[a[1]][a[2]].name

\* The deduplication of execute: the number of a repeated name is appended,
\* whether or not the caller has used the result as a name.
NameAsGiven(a) == Given(a)
NameOf(a) ==
    LET count == Cardinality({j \in 1 .. a[2] - 1 :
                                  Configs[a[1]][j].name = Given(a)})
    IN  IF count = 0 THEN Given(a)
        ELSE [Given(a) EXCEPT !.numbers = Append(@, count + 1)]

\* Map.delete, and the sets of a call: the last agent of a name is listed.
Without(names) == [n \in DOMAIN running \ names |-> running[n]]
With(b) ==
    LET names == {NameOf(a) : a \in Of(b)}
    IN  {r \in [DOMAIN running \cup names -> Agents] :
            /\ \A n \in DOMAIN running \ names : r[n] = running[n]
            /\ \A n \in names : r[n] \in Of(b) /\ NameOf(r[n]) = n
            /\ \A a \in Of(b) : a[2] <= r[NameOf(a)][2]}

\* Agents that share a name when a call b joins those in flight: with an agent
\* of another call, or in their own through a name given with a number.
Clash(b) ==
    {a \in Of(b) \cup InFlight :
        \E other \in Of(b) \cup InFlight :
            /\ other # a
            /\ NameOf(other) = NameOf(a)
            /\ \/ other[1] # a[1]
               \/ Given(a).numbers # <<>>
               \/ Given(other).numbers # <<>>}

-----------------------------------------------------------------------------
\* The return of _runSingle with status s: the worktree is removed first, and
\* the name is deleted in the end, whoever is listed under it.
Settle(a) ==
    /\ pc' = [pc EXCEPT ![a] = "settled"]
    /\ running' = Without({NameOf(a)})

Return(a, s, isolated) ==
    /\ status' = [status EXCEPT ![a] = s]
    /\ IF isolated
       THEN pc' = [pc EXCEPT ![a] = "cleanup"] /\ UNCHANGED running
       ELSE Settle(a)

\* The head of the loop.
Call(a) ==
    /\ step' = [step EXCEPT ![a] = @ + 1]
    /\ pc' = [pc EXCEPT ![a] = "calling"]
    /\ UNCHANGED <<status, running>>

Finish(a, s) == Return(a, s, Isolated(a)) /\ UNCHANGED step

LoopHeadBreak(a) ==
    \/ step[a] < MaxSteps /\ a \notin aborted /\ Call(a)
    \/ (step[a] = MaxSteps \/ a \in aborted) /\ Finish(a, "completed")
LoopHead(a) ==
    \/ step[a] < MaxSteps /\ a \notin aborted /\ Call(a)
    \/ step[a] < MaxSteps /\ a \in aborted /\ Finish(a, "aborted")
    \/ step[a] = MaxSteps /\ Finish(a, "completed")

\* execute: every _runSingle up to its first await, in the order of configs.
Execute(b) ==
    /\ \A a \in Of(b) : pc[a] = "idle"
    /\ running' \in With(b)
    /\ pc' = [a \in Agents |-> IF a \notin Of(b) THEN pc[a]
                               ELSE IF Isolated(a) THEN "creating"
                               ELSE "calling"]
    /\ step' = [a \in Agents |-> IF a \in Of(b) /\ ~Isolated(a)
                                 THEN 1 ELSE step[a]]
    /\ clashed' = clashed \cup Clash(b)
    /\ UNCHANGED <<status, aborted, memory, sent>>

\* _createWorktree returns, whatever became of its command, or throws without
\* a workspace folder: then there is nothing to remove.
WorktreeCreated(a) ==
    /\ pc[a] = "creating"
    /\ LoopHead(a) \/ (Return(a, "error", FALSE) /\ UNCHANGED step)
    /\ UNCHANGED <<aborted, memory, sent, clashed>>

\* The model answers, asks for a tool, or fails; a stream that was aborted does
\* none of this.  Only an isolated agent has an executor to await.
Answered(a) ==
    /\ pc[a] = "calling"
    /\ a \notin aborted
    /\ \/ Finish(a, "completed")
       \/ Finish(a, "error")
       \/ IF Isolated(a)
          THEN /\ pc' = [pc EXCEPT ![a] = "tool"]
               /\ UNCHANGED <<running, step, status>>
          ELSE LoopHead(a)
    /\ UNCHANGED <<aborted, memory, sent, clashed>>

\* The tool of an isolated agent ended, with an error or without.
ToolReturned(a) ==
    /\ pc[a] = "tool"
    /\ LoopHead(a)
    /\ UNCHANGED <<aborted, memory, sent, clashed>>

\* _cleanupWorktree ended; its failure is only logged.
WorktreeRemoved(a) ==
    /\ pc[a] = "cleanup"
    /\ Settle(a)
    /\ UNCHANGED <<step, status, aborted, memory, sent, clashed>>

-----------------------------------------------------------------------------
\* Whom sendMessage from the parent reaches: one name, or all of them.
Targets(to) == {running[n] : n \in DOMAIN running \cap to}
Parent == [base |-> "parent", numbers |-> <<>>]
Receivers == {{n} : n \in DOMAIN running} \cup {DOMAIN running \ {Parent}}

\* A message, plain or of the protocol, becomes a turn in a memory.
Message(to) ==
    /\ sent < MaxMessages
    /\ sent' = sent + 1
    /\ memory' = [a \in Agents |-> IF a \in Targets(to) THEN memory[a] + 1
                                   ELSE memory[a]]
    /\ UNCHANGED <<running, pc, step, status, aborted, clashed>>

\* An approved shutdown aborts its targets, and rejects the answer that they
\* wait for, which ends them.
ShutdownSilently(to) ==
    /\ aborted' = aborted \cup Targets(to)
    /\ UNCHANGED <<pc, status, running>>
Shutdown(to) ==
    LET ended == {a \in Targets(to) : pc[a] = "calling"}
    IN  /\ aborted' = aborted \cup Targets(to)
        /\ status' = [a \in Agents |-> IF a \in ended THEN "error"
                                       ELSE status[a]]
        /\ pc' = [a \in Agents |-> IF a \notin ended THEN pc[a]
                                   ELSE IF Isolated(a) THEN "cleanup"
                                   ELSE "settled"]
        /\ running' = Without({NameOf(a) : a \in {e \in ended : ~Isolated(e)}})

SendShutdown(to) ==
    /\ sent < MaxMessages
    /\ sent' = sent + 1
    /\ Shutdown(to)
    /\ UNCHANGED <<step, memory, clashed>>

-----------------------------------------------------------------------------
Resume(a) ==
    WorktreeCreated(a) \/ Answered(a) \/ ToolReturned(a) \/ WorktreeRemoved(a)

Next ==
    \/ \E b \in Batches : Execute(b)
    \/ \E a \in Agents : Resume(a)
    \/ \E to \in Receivers : Message(to) \/ SendShutdown(to)

Spec == Init /\ [][Next]_vars

\* A stream, a tool and a command end or fail, and their awaits resume.
FairSpec == Spec /\ \A a \in Agents : WF_vars(Resume(a))

-----------------------------------------------------------------------------
\* Who is listed is under way and listed under its own name, although an agent
\* deletes its name without looking: no message goes to one that has ended.
ListedIsLive ==
    \A n \in DOMAIN running : running[n] \in InFlight /\ NameOf(running[n]) = n

\* An agent under way can be reached and shut down under its name, however
\* many agents its call has started, unless another call has used the name.
Reachable ==
    \A a \in InFlight \ clashed :
        NameOf(a) \in DOMAIN running /\ running[NameOf(a)] = a

\* The map that messages are routed by is right in both directions.
RoutesToLive == ListedIsLive /\ Reachable

\* After its shutdown an agent asks the model for nothing any more and is not
\* reported as completed, unless its last step was over: the loop then ends
\* without looking at the signal.
ShutdownHeeded ==
    [][\A a \in aborted :
            /\ step'[a] = step[a]
            /\ status[a] = "none" /\ status'[a] = "completed" =>
                   step[a] = MaxSteps]_vars

\* execute always returns: each agent of a call settles.
ExecuteReturns == \A a \in Agents : a \in InFlight ~> pc[a] = "settled"

=============================================================================
