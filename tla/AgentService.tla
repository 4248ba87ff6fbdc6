---------------------------- MODULE AgentService ----------------------------
(***************************************************************************)
(* The agent runtime of AI Studio: AIAgentService.run(), stop(),           *)
(* approvePlan() and answerQuestion(), with the callbacks its ToolExecutor *)
(* gets and the chat surface that calls them (AIStudioChatAgent._invoke).  *)
(*                                                                         *)
(* run() is an async function on a single-threaded event loop.  Each call  *)
(* of it is a member of Runs; an action is the code one such call executes *)
(* between two awaits that can suspend it, and pc[r] names the await at    *)
(* which call r is suspended.  Everything written with `this.' in the      *)
(* source is one variable shared by all calls; what the source declares    *)
(* with let/const is a function of the call.                               *)
(*                                                                         *)
(* Abstractions: message and step texts, token counts and tool inputs are  *)
(* left out; the model's answers, tool outcomes and the user are           *)
(* nondeterministic; an abort controller is named by the call and          *)
(* iteration that created it and a ToolExecutor by its controller; the     *)
(* step list is reduced to the set of calls that appended to it.           *)
(***************************************************************************)
EXTENDS Naturals

CONSTANTS
    Runs,            \* the calls of run(), one per chat request
    None,            \* null
    MaxSteps,        \* this.maxSteps (20, or ai.agent.maxSteps)
    MaxErrors,       \* the literal 5 of the retry loop
    OverlappingRuns, \* TRUE: a request may start while another call is live
    Compaction       \* TRUE: the conversation may exceed the context limit

ASSUME NoneAssumption == None \notin Runs
ASSUME BoundsAssumption == MaxSteps \in Nat \ {0} /\ MaxErrors \in Nat \ {0}
ASSUME FlagsAssumption == OverlappingRuns \in BOOLEAN /\ Compaction \in BOOLEAN

VARIABLES
    status,               \* _status
    steps,                \* calls that appended to _steps since it was cleared
    planMode,             \* _planMode
    planAwaitingApproval, \* _planAwaitingApproval
    planApprovalResolve,  \* call whose promise _planApprovalResolve settles
    questionResolve,      \* call whose promise _questionResolve settles
    abortController,      \* call whose latest stream _abortController aborts
    toolAbortController,  \* _toolAbortController
    toolExecutor,         \* _toolExecutor, named by its abort signal
    aborted,              \* tool controllers that have been aborted
    prompt,               \* the QuickPick on screen: kind and asking call
    dismissed,            \* calls whose question no user answered
    cancelled,            \* calls whose chat request was cancelled
    pc, step, consecutiveErrors, offered, tool, executor, session

planVars == <<planMode, planAwaitingApproval, planApprovalResolve>>
askVars  == <<questionResolve, prompt, dismissed>>
toolVars == <<toolAbortController, toolExecutor, aborted>>
loopVars == <<step, offered, session>>
callVars == <<consecutiveErrors, tool, executor>>
vars == <<status, steps, planVars, askVars, toolVars, abortController,
          cancelled, pc, loopVars, callVars>>

-----------------------------------------------------------------------------
Status == {"idle", "running", "waiting_for_approval", "stopped", "error"}

\* Tools by what the loop tells apart.  "read" stands for every tool that is
\* neither an edit, nor hidden in plan mode, nor a callback into the service;
\* "run_command" also stands for Agent.
EditingTools == {"edit_file", "write_file"}
Tools == EditingTools \cup {"read", "run_command", "AskUserQuestion",
                            "EnterPlanMode", "ExitPlanMode"}

\* READ_ONLY_TOOLS and PLAN_AGENT_TOOLS: what a request offers in plan mode.
PlanTools == Tools \ {"edit_file", "run_command"}
AdvertisedInFull(inPlanMode) == Tools
Advertised(inPlanMode) == IF inPlanMode THEN PlanTools ELSE Tools

Controllers == Runs \X (0 .. MaxSteps)

\* Where a call is suspended.  "refused" awaits the promise that rejected
\* because no provider was initialized; "hung" awaits a promise that nobody
\* will settle: the providers swallow AbortError without calling back.
Suspended == {"loading", "context", "streaming", "refused", "backoff",
              "snapshot", "tool", "question", "compacting", "approval",
              "saving"}
Settled == {"done", "rejected"}
PC == Suspended \cup Settled \cup {"idle", "hung"}

Live(r) == pc[r] \in Suspended

\* _invoke of r has not returned: its event listeners are still registered.
Listening(r) == pc[r] \in Suspended \cup {"hung"}

Session == [status : Status, steps : SUBSET Runs]
Prompt == [kind : {"plan", "question"}, run : Runs]

\* null is no controller, executor or prompt.
ASSUME NullAssumption == None \notin Controllers \cup Prompt

TypeOK ==
    /\ status \in Status
    /\ steps \subseteq Runs
    /\ planMode \in BOOLEAN
    /\ planAwaitingApproval \in BOOLEAN
    /\ planApprovalResolve \in Runs \cup {None}
    /\ questionResolve \in Runs \cup {None}
    /\ abortController \in Runs \cup {None}
    /\ toolAbortController \in Controllers \cup {None}
    /\ toolExecutor \in Controllers \cup {None}
    /\ aborted \subseteq Controllers
    /\ prompt \in Prompt \cup {None}
    /\ dismissed \subseteq Runs
    /\ cancelled \subseteq Runs
    /\ pc \in [Runs -> PC]
    /\ step \in [Runs -> 0 .. MaxSteps]
    /\ consecutiveErrors \in [Runs -> 0 .. MaxErrors]
    /\ offered \in [Runs -> BOOLEAN]
    /\ tool \in [Runs -> Tools \cup {"none", "cancelled"}]
    /\ executor \in [Runs -> Controllers \cup {None}]
    /\ session \in [Runs -> Session \cup {None}]

Init ==
    /\ status = "idle"
    /\ steps = {}
    /\ planMode = FALSE
    /\ planAwaitingApproval = FALSE
    /\ planApprovalResolve = None
    /\ questionResolve = None
    /\ abortController = None
    /\ toolAbortController = None
    /\ toolExecutor = None
    /\ aborted = {}
    /\ prompt = None
    /\ dismissed = {}
    /\ cancelled = {}
    /\ pc = [r \in Runs |-> "idle"]
    /\ step = [r \in Runs |-> 0]
    /\ consecutiveErrors = [r \in Runs |-> 0]
    /\ offered = [r \in Runs |-> FALSE]
    /\ tool = [r \in Runs |-> "none"]
    /\ executor = [r \in Runs |-> None]
    /\ session = [r \in Runs |-> None]

Goto(r, where) == pc' = [pc EXCEPT ![r] = where]

-----------------------------------------------------------------------------
(* The pieces of run() that several awaits lead to.  A definition named     *)
(* after a slip of the one that follows it is a mutant of that definition:  *)
(* no specification uses it.                                                *)

KeepHistory == UNCHANGED steps
ClearHistory == steps' = {}

\* The status a call leaves behind once its loop is over.
FinalStatusUnset(st) == st
FinalStatus(st) == IF st = "running" THEN "stopped" ELSE st

\* After the while loop: settle the status, build the session record and
\* suspend in saveSessionFull.  st is the status and S the step owners at
\* that point of the synchronous code.
FinishLoop(r, st, S) ==
    LET owners == IF step[r] >= MaxSteps THEN S \cup {r} ELSE S
    IN  /\ status' = FinalStatus(st)
        /\ steps' = owners
        /\ session' = [session EXCEPT ![r] =
                           [status |-> FinalStatus(st), steps |-> owners]]
        /\ Goto(r, "saving")
        /\ UNCHANGED <<step, offered, abortController>>

LoopGoesOnWhenStopped(r, st) == step[r] < MaxSteps
LoopGoesOn(r, st) == step[r] < MaxSteps /\ st = "running"

ForgetStep(r) == UNCHANGED step
CountStep(r) == step' = [step EXCEPT ![r] = @ + 1]

\* The head of the while loop: choose the tools from the current plan mode,
\* count the step and open the stream, or leave the loop.
ContinueLoop(r, st, inPlanMode, S) ==
    \/ /\ LoopGoesOn(r, st)
       /\ CountStep(r)
       /\ offered' = [offered EXCEPT ![r] = inPlanMode]
       /\ status' = st
       /\ steps' = S
       /\ UNCHANGED session
       /\ \/ Goto(r, "streaming") /\ abortController' = r
          \/ Goto(r, "refused") /\ UNCHANGED abortController
    \/ /\ ~LoopGoesOn(r, st)
       /\ FinishLoop(r, st, S)

\* The finally block.
Cleanup ==
    /\ toolExecutor' = None
    /\ toolAbortController' = None
    /\ UNCHANGED aborted

\* An exception leaves the try block: run() rejects and the status stays.
Reject(r) ==
    /\ Goto(r, "rejected")
    /\ Cleanup
    /\ UNCHANGED <<status, loopVars, abortController>>

\* Pause until approvePlan or stop settles the promise.
AwaitApprovalSilently(r) ==
    planApprovalResolve' = r /\ Goto(r, "approval") /\ UNCHANGED status
AwaitApproval(r) ==
    planApprovalResolve' = r /\ Goto(r, "approval")
        /\ status' = "waiting_for_approval"

\* Pause for plan approval, or go round the loop.
AfterCompactionNoPause(r, awaiting, S) ==
    UNCHANGED planApprovalResolve /\ ContinueLoop(r, status, planMode, S)
AfterCompaction(r, awaiting, S) ==
    \/ /\ awaiting
       /\ AwaitApproval(r)
       /\ steps' = S
       /\ UNCHANGED <<loopVars, abortController>>
    \/ /\ ~awaiting
       /\ UNCHANGED planApprovalResolve
       /\ ContinueLoop(r, status, planMode, S)

\* A tool has returned: record the result, compact the memory when it is over
\* the limit (a second LLM stream, which may be refused), then go on.
AfterTool(r, awaiting) ==
    LET S == steps \cup {r}
    IN  \/ /\ Compaction
           /\ steps' = S
           /\ \/ /\ Goto(r, "compacting")
                 /\ abortController' = r
                 /\ UNCHANGED <<status, toolVars, loopVars>>
              \/ Reject(r)
           /\ UNCHANGED planApprovalResolve
        \/ AfterCompaction(r, awaiting, S) /\ UNCHANGED toolVars

\* The approval promise is settled.
SettleApprovalKeepFlag ==
    planApprovalResolve' = None /\ planMode' = FALSE
        /\ UNCHANGED planAwaitingApproval
SettleApproval ==
    planApprovalResolve' = None /\ planMode' = FALSE
        /\ planAwaitingApproval' = FALSE

\* approvePlan(false).
PlanRejectedKeepStatus(r) ==
    SettleApproval /\ FinishLoop(r, status, steps \cup {r})
PlanRejected(r) ==
    SettleApproval /\ FinishLoop(r, "stopped", steps \cup {r})

\* approvePlan(true): full tool set, fresh controller and executor.
PlanApprovedNoExecutor(r) ==
    /\ SettleApproval
    /\ toolAbortController' = <<r, step[r]>>
    /\ toolExecutor' = None
    /\ ContinueLoop(r, "running", FALSE, steps)
PlanApproved(r) ==
    /\ SettleApproval
    /\ toolAbortController' = <<r, step[r]>>
    /\ toolExecutor' = <<r, step[r]>>
    /\ ContinueLoop(r, "running", FALSE, steps)

\* Showing a QuickPick hides the one on screen, which counts as its negative
\* answer.  Calls that overlap open none over a prompt whose negative answer
\* would resume another call; calls that do not overlap cannot.
SparesOtherPlan ==
    ~(prompt # None /\ prompt.kind = "plan" /\ planApprovalResolve # None)
SparesOthers == planApprovalResolve = None /\ questionResolve = None

\* The question of r is dismissed at once: another _invoke is listening too and
\* shows the same question, or an older question is still on screen.  Hiding
\* it calls answerQuestion, which by then settles the promise of r.
CrowdedNeverDisposed(r) == \E q \in Runs \ {r} : pc[q] # "idle"
Crowded(r) ==
    \/ \E q \in Runs \ {r} : Listening(q)
    \/ prompt # None /\ prompt.kind = "question"

\* onAskUserQuestion: register the resolver and fire onDidAskQuestion.
AskQuestion(r) ==
    /\ SparesOtherPlan
    /\ prompt' = [kind |-> "question", run |-> r]
    /\ \/ /\ ~Crowded(r)
          /\ questionResolve' = r
          /\ Goto(r, "question")
          /\ UNCHANGED dismissed
       \/ /\ Crowded(r)
          /\ questionResolve' = None
          /\ dismissed' = dismissed \cup {r}
          /\ Goto(r, "tool")

\* ToolExecutor.execute up to its first suspension: nothing happens once the
\* signal is aborted; AskUserQuestion and EnterPlanMode call back at once.
BeginExecute(r, k, e) ==
    \/ /\ e \in aborted
       /\ tool' = [tool EXCEPT ![r] = "cancelled"]
       /\ Goto(r, "tool")
       /\ UNCHANGED <<planMode, askVars>>
    \/ /\ e \notin aborted
       /\ tool' = [tool EXCEPT ![r] = k]
       /\ planMode' = (planMode \/ k = "EnterPlanMode")
       /\ \/ k = "AskUserQuestion" /\ AskQuestion(r)
          \/ k # "AskUserQuestion" /\ Goto(r, "tool") /\ UNCHANGED askVars

-----------------------------------------------------------------------------
(* run(), one action per stretch of code between two awaits.                *)

\* The entry of run(): guard, clearHistory, status, controller.
Run(r) ==
    /\ pc[r] = "idle"
    /\ OverlappingRuns \/ \A q \in Runs : ~Live(q)
    /\ status # "running"
    /\ ClearHistory
    /\ status' = "running"
    /\ toolAbortController' = <<r, 0>>
    /\ Goto(r, "loading")
    /\ UNCHANGED <<planVars, askVars, toolExecutor, aborted, abortController,
                   cancelled, loopVars, callVars>>

\* run() returns at its first line while the status says "running".
RunIgnored(r) ==
    /\ pc[r] = "idle"
    /\ OverlappingRuns \/ \A q \in Runs : ~Live(q)
    /\ status = "running"
    /\ Goto(r, "done")
    /\ UNCHANGED <<status, steps, planVars, askVars, toolVars, abortController,
                   cancelled, loopVars, callVars>>

\* loadLastSession returned.  The executor reads the shared controller's
\* signal: a TypeError, outside the try block, when stop() has nulled it.
SessionLoaded(r) ==
    /\ pc[r] = "loading"
    /\ \/ /\ toolAbortController = None
          /\ Goto(r, "rejected")
          /\ UNCHANGED <<steps, toolExecutor>>
       \/ /\ toolAbortController # None
          /\ toolExecutor' = toolAbortController
          /\ steps' = steps \cup {r}
          /\ Goto(r, "context")
    /\ UNCHANGED <<status, planVars, askVars, toolAbortController, aborted,
                   abortController, cancelled, loopVars, callVars>>

\* buildContext and the index search returned.
ContextBuilt(r) ==
    /\ pc[r] = "context"
    /\ ContinueLoop(r, status, planMode, steps)
    /\ UNCHANGED <<planVars, askVars, toolVars, cancelled, callVars>>

\* Whether a failure, the n-th in a row, ends the call.
GivesUp(retryable, n) == ~retryable \/ n >= MaxErrors

\* The stream failed.  "AI provider not initialized" counts as retryable.
StreamError(r) ==
    /\ pc[r] \in {"streaming", "refused"}
    /\ consecutiveErrors' = [consecutiveErrors EXCEPT ![r] = @ + 1]
    /\ steps' = steps \cup {r}
    /\ \E retryable \in BOOLEAN :
        /\ pc[r] = "refused" => retryable
        /\ \/ /\ GivesUp(retryable, consecutiveErrors'[r])
              /\ status' = "error"
              /\ Goto(r, "done")
              /\ Cleanup
           \/ /\ ~GivesUp(retryable, consecutiveErrors'[r])
              /\ Goto(r, "backoff")
              /\ UNCHANGED <<status, toolVars>>
    /\ UNCHANGED <<planVars, askVars, abortController, cancelled, loopVars,
                   tool, executor>>

BackoffElapsed(r) ==
    /\ pc[r] = "backoff"
    /\ ContinueLoop(r, status, planMode, steps)
    /\ UNCHANGED <<planVars, askVars, toolVars, cancelled, callVars>>

\* The stream completed, but the status is no longer "running".
StreamIgnored(r) ==
    /\ pc[r] = "streaming"
    /\ status # "running"
    /\ FinishLoop(r, status, steps)
    /\ UNCHANGED <<planVars, askVars, toolVars, cancelled, callVars>>

EndTurn(r) ==
    /\ pc[r] = "streaming"
    /\ status = "running"
    /\ consecutiveErrors' = [consecutiveErrors EXCEPT ![r] = 0]
    /\ FinishLoop(r, status, steps \cup {r})
    /\ UNCHANGED <<planVars, askVars, toolVars, cancelled, tool, executor>>

\* The model asks for tool k.  The executor is read from the shared field; a
\* null one makes the next call on it throw inside the try block.  An edit that
\* names a path first suspends in createSnapshot.
ToolUse(r, k) ==
    /\ pc[r] = "streaming"
    /\ status = "running"
    /\ k \in Advertised(offered[r])
    /\ consecutiveErrors' = [consecutiveErrors EXCEPT ![r] = 0]
    /\ steps' = steps \cup {r}
    /\ executor' = [executor EXCEPT ![r] = toolExecutor]
    /\ \/ /\ toolExecutor = None
          /\ Reject(r)
          /\ UNCHANGED <<planMode, askVars, tool>>
       \/ /\ toolExecutor # None
          /\ \/ /\ k \in EditingTools
                /\ tool' = [tool EXCEPT ![r] = k]
                /\ Goto(r, "snapshot")
                /\ UNCHANGED <<planMode, askVars>>
             \/ BeginExecute(r, k, toolExecutor)
          /\ UNCHANGED <<status, toolVars, loopVars, abortController>>
    /\ UNCHANGED <<planAwaitingApproval, planApprovalResolve, cancelled>>

SnapshotTaken(r) ==
    /\ pc[r] = "snapshot"
    /\ BeginExecute(r, tool[r], executor[r])
    /\ UNCHANGED <<status, steps, planAwaitingApproval, planApprovalResolve,
                   toolVars, abortController, cancelled, loopVars,
                   consecutiveErrors, executor>>

\* execute returned and rollback, commit, re-indexing and spilling are over.
ToolReturned(r) ==
    /\ pc[r] = "tool"
    /\ AfterTool(r, planAwaitingApproval)
    /\ UNCHANGED <<planMode, planAwaitingApproval, askVars, cancelled, callVars>>

\* The plan file was read: onExitPlanMode appends the plan, raises the flag
\* and fires onDidEnterPlanMode; then the tool returns.
PlanPresented(r) ==
    /\ pc[r] = "tool"
    /\ tool[r] = "ExitPlanMode"
    /\ SparesOthers
    /\ planAwaitingApproval' = TRUE
    /\ prompt' = [kind |-> "plan", run |-> r]
    /\ AfterTool(r, TRUE)
    /\ UNCHANGED <<planMode, questionResolve, dismissed, cancelled, callVars>>

CompactionDone(r) ==
    /\ pc[r] = "compacting"
    /\ AfterCompaction(r, planAwaitingApproval, steps)
    /\ UNCHANGED <<planMode, planAwaitingApproval, askVars, toolVars, cancelled,
                   callVars>>

\* The summarizer's stream failed; nothing in run() catches it.
CompactionFailed(r) ==
    /\ pc[r] = "compacting"
    /\ Reject(r)
    /\ UNCHANGED <<steps, planVars, askVars, cancelled, callVars>>

\* saveSessionFull returned (it reports no failure); finally.
SessionSaved(r) ==
    /\ pc[r] = "saving"
    /\ Goto(r, "done")
    /\ Cleanup
    /\ UNCHANGED <<status, steps, planVars, askVars, abortController, cancelled,
                   loopVars, callVars>>

-----------------------------------------------------------------------------
(* What the chat surface does.                                              *)

\* stop(), called once, when the chat request of r is cancelled.  An aborted
\* stream never completes.  A pending approval is settled negatively and its
\* call resumes in the microtask that follows.
Stop(r) ==
    LET hangs(q) == q = abortController /\ pc[q] \in {"streaming", "compacting"}
    IN  /\ Listening(r)
        /\ r \notin cancelled
        /\ cancelled' = cancelled \cup {r}
        /\ aborted' = aborted \cup ({toolAbortController} \ {None})
        /\ toolAbortController' = None
        /\ \/ /\ planApprovalResolve = None
              /\ status' = "stopped"
              /\ pc' = [q \in Runs |-> IF hangs(q) THEN "hung" ELSE pc[q]]
              /\ abortController' = None
              /\ UNCHANGED <<steps, planVars, loopVars>>
           \/ \E w \in Runs :
                /\ planApprovalResolve = w
                /\ SettleApproval
                /\ status' = "stopped"
                /\ steps' = steps \cup {w}
                /\ session' = [session EXCEPT ![w] =
                       [status |-> "stopped", steps |-> steps \cup {w}]]
                /\ pc' = [q \in Runs |-> IF q = w THEN "saving"
                                         ELSE IF hangs(q) THEN "hung"
                                         ELSE pc[q]]
                /\ abortController' = None
                /\ UNCHANGED <<step, offered>>
        /\ UNCHANGED <<askVars, toolExecutor, callVars>>

\* The plan QuickPick is answered or hidden: approvePlan.
ApprovePlan(approved) ==
    /\ prompt # None
    /\ prompt.kind = "plan"
    /\ prompt' = None
    /\ \/ /\ planApprovalResolve = None
          /\ UNCHANGED <<status, steps, planVars, toolVars, abortController, pc,
                         loopVars>>
       \/ \E w \in Runs :
          /\ planApprovalResolve = w
          /\ \/ approved /\ PlanApproved(w)
             \/ ~approved /\ PlanRejected(w)
                          /\ UNCHANGED <<toolAbortController, toolExecutor>>
          /\ UNCHANGED aborted
    /\ UNCHANGED <<questionResolve, dismissed, cancelled, callVars>>

\* The question QuickPick is answered or hidden: answerQuestion.
AnswerQuestion ==
    /\ prompt # None
    /\ prompt.kind = "question"
    /\ prompt' = None
    /\ questionResolve' = None
    /\ pc' = [q \in Runs |-> IF q = questionResolve THEN "tool" ELSE pc[q]]
    /\ UNCHANGED <<status, steps, planVars, dismissed, toolVars, abortController,
                   cancelled, loopVars, callVars>>

-----------------------------------------------------------------------------
\* What run() does by itself: its awaits are I/O, timers and streams that
\* complete or fail.  Only the user settles "approval" and "question".
Resume(r) ==
    \/ SessionLoaded(r)
    \/ ContextBuilt(r)
    \/ StreamError(r)
    \/ BackoffElapsed(r)
    \/ StreamIgnored(r)
    \/ EndTurn(r)
    \/ \E k \in Tools : ToolUse(r, k)
    \/ SnapshotTaken(r)
    \/ ToolReturned(r)
    \/ PlanPresented(r)
    \/ CompactionDone(r)
    \/ CompactionFailed(r)
    \/ SessionSaved(r)

User ==
    \/ \E r \in Runs : Run(r) \/ RunIgnored(r) \/ Stop(r)
    \/ \E approved \in BOOLEAN : ApprovePlan(approved)
    \/ AnswerQuestion

Next == User \/ \E r \in Runs : Resume(r)

Spec == Init /\ [][Next]_vars

\* The event loop delivers every completed await.
FairSpec == Spec /\ \A r \in Runs : WF_vars(Resume(r))

-----------------------------------------------------------------------------
(* Properties                                                               *)

\* Steps and retries are bounded together: a call never runs more iterations
\* than maxSteps, every retry has used one of them, and a call that is still
\* going has fewer than MaxErrors consecutive failures behind it.
RetriesWithinBudget ==
    \A r \in Runs :
        /\ consecutiveErrors[r] <= step[r]
        /\ Live(r) => consecutiveErrors[r] < MaxErrors

\* While the status asks for approval, approvePlan reaches a suspended call:
\* the resolver is registered and belongs to a call waiting for it.
ApprovalReachesWaiter ==
    status = "waiting_for_approval" =>
        \E r \in Runs : planApprovalResolve = r /\ pc[r] = "approval"

\* The status says "running" only while some call is live, or after a call
\* whose promise rejected and left the status behind.
RunningHasRunner ==
    status = "running" => \E r \in Runs : Live(r) \/ pc[r] = "rejected"

\* Calls that do not overlap: no call waits for an approval or an answer that
\* cannot be delivered to it, and the status shows the approval being awaited.
NoOrphanWaiter ==
    \A r \in Runs :
        /\ pc[r] = "approval" => /\ planApprovalResolve = r
                                 /\ status = "waiting_for_approval"
        /\ pc[r] = "question" => questionResolve = r

\* Calls that do not overlap: from the moment a plan is on screen until the
\* user decides, the call that presented it asks for no further answer and runs
\* no tool.  All it may do is to have its memory summarized, in a stream that
\* offers no tools, and then it still has to wait for the decision.
PlanGatesWork ==
    \A r \in Runs :
        prompt = [kind |-> "plan", run |-> r] =>
            /\ pc[r] \notin {"streaming", "refused", "backoff", "snapshot", "tool",
                             "question"}
            /\ pc[r] = "compacting" => planAwaitingApproval

\* Calls that do not overlap: in plan mode no call is executing edit_file or
\* run_command (systemPrompt.ts: "You cannot edit existing files (edit_file)
\* or run commands (run_command) while in plan mode").
NoEditsInPlanMode ==
    \A r \in Runs :
        /\ pc[r] \in {"snapshot", "tool"}
        /\ tool[r] \in {"edit_file", "run_command"}
        => ~planMode

\* Calls that do not overlap: the session a call saves holds exactly the steps
\* of that call, whatever calls were stopped, hung or rejected before it.
SessionIsOwn ==
    \A r \in Runs : session[r] # None => session[r].steps = {r}

\* Calls that do not overlap: once the request of r is cancelled, r asks the
\* model for no further answer, unless r presents a plan after all and the user
\* approves it (the approval installs the only controller that can exist by
\* then).  It may still open a summarizer's stream: after the tool that was
\* running, memory is compacted before the loop looks at the status.
NoNewAnswerAfterStop ==
    [][\A r \in Runs : r \in cancelled /\ step'[r] # step[r] =>
            \/ pc[r] = "approval"
            \/ toolAbortController \in {r} \X (1 .. MaxSteps)]_vars

\* Calls that do not overlap and conversations below the context limit: an
\* awaited approval always has its QuickPick on screen, so the decision the
\* user takes is the one the waiting call gets.
ApprovalIsAsked ==
    status = "waiting_for_approval" =>
        \E r \in Runs : /\ prompt = [kind |-> "plan", run |-> r]
                        /\ planApprovalResolve = r

\* Calls that do not overlap: a call that has its tools advertised finds an
\* executor (aiAgentService.ts:256, `this._toolExecutor!').
ExecutorPresent ==
    \A r \in Runs :
        pc[r] = "streaming" /\ status = "running" => toolExecutor # None

\* Calls that do not overlap: a question is answered "(user cancelled)" without
\* the user only after a call was left hanging, its listeners registered.
OnlyHangsDismiss == dismissed # {} => \E q \in Runs : pc[q] = "hung"

\* Every call ends, except where it waits for the user or for a stream that
\* stop() aborted.
RunEnds ==
    \A r \in Runs :
        Live(r) ~> (~Live(r) \/ pc[r] \in {"approval", "question"})

-----------------------------------------------------------------------------
\* Calls that do not overlap: the service is a RequestLifecycle, a hung call
\* being over.
PhaseOf(p) ==
    CASE p = "idle" -> "new"
      [] p = "question" -> "asking"
      [] p = "approval" -> "approving"
      [] p \in Settled \cup {"hung"} -> "over"
      [] OTHER -> "working"

Lifecycle == INSTANCE RequestLifecycle WITH
    Requests <- Runs,
    Limit <- MaxSteps,
    phase <- [r \in Runs |-> PhaseOf(pc[r])],
    answers <- step,
    approvalShown <- status = "waiting_for_approval"

ImplementsLifecycle == Lifecycle!Spec

-----------------------------------------------------------------------------
\* The documented behaviour below is not what the code does.

\* memoryStore.ts:4, "Sessions auto-save on stop/error".
SavedOnStop ==
    \A r \in Runs : r \in cancelled /\ step[r] > 0 ~>
                        \/ session[r] # None
                        \/ pc[r] \in {"done", "approval", "question"}

=============================================================================
