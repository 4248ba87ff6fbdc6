------------------------- MODULE AgentServiceProofs -------------------------
(***************************************************************************)
(* What the agent runtime guarantees for any number of calls of run(), any *)
(* step limit and any retry limit.                                         *)
(***************************************************************************)
EXTENDS AgentService, TLAPS

-----------------------------------------------------------------------------
(* Types, with the retry budget: consecutiveErrors stays within MaxErrors   *)
(* only because a call that reaches the limit gives up.                     *)

Budget ==
    \A r \in Runs :
        /\ consecutiveErrors[r] <= step[r]
        /\ pc[r] \in Suspended \cup {"idle"} => consecutiveErrors[r] < MaxErrors
        /\ pc[r] \in {"streaming", "refused"} => consecutiveErrors[r] < step[r]

\* What the loop head leaves, in types and in the budget of the call.
LoopTypes(r) ==
    /\ status' \in Status
    /\ steps' \subseteq Runs
    /\ abortController' \in Runs \cup {None}
    /\ pc' \in [Runs -> PC]
    /\ step' \in [Runs -> 0 .. MaxSteps]
    /\ offered' \in [Runs -> BOOLEAN]
    /\ session' \in [Runs -> Session \cup {None}]
    /\ \A q \in Runs \ {r} : pc'[q] = pc[q] /\ step'[q] = step[q]
    /\ \/ pc'[r] \in {"streaming", "refused"} /\ step'[r] = step[r] + 1
       \/ pc'[r] = "saving" /\ step' = step

LEMMA FinishLoopTypes ==
    ASSUME TypeOK, NEW r \in Runs, NEW st \in Status, NEW S \in SUBSET Runs,
           FinishLoop(r, st, S)
    PROVE  LoopTypes(r)
BY DEF TypeOK, FinishLoop, FinalStatus, LoopTypes, Goto, Status, Session, PC,
       Suspended

LEMMA ContinueLoopTypes ==
    ASSUME TypeOK, NEW r \in Runs, NEW st \in Status, NEW m \in BOOLEAN,
           NEW S \in SUBSET Runs, ContinueLoop(r, st, m, S)
    PROVE  LoopTypes(r)
<1>1. CASE LoopGoesOn(r, st)
  <2>1. step \in [Runs -> 0 .. MaxSteps] /\ step[r] < MaxSteps
    BY <1>1 DEF TypeOK, LoopGoesOn
  <2>2. step' = [step EXCEPT ![r] = step[r] + 1]
    BY <1>1 DEF ContinueLoop, CountStep
  <2>3. /\ step' \in [Runs -> 0 .. MaxSteps]
        /\ step'[r] = step[r] + 1
        /\ \A q \in Runs \ {r} : step'[q] = step[q]
    BY <2>1, <2>2, BoundsAssumption
  <2>4. offered' \in [Runs -> BOOLEAN]
    BY <1>1 DEF ContinueLoop, TypeOK
  <2>5. pc' = [pc EXCEPT ![r] = "streaming"] \/ pc' = [pc EXCEPT ![r] = "refused"]
    BY <1>1 DEF ContinueLoop, Goto
  <2>6. /\ pc' \in [Runs -> PC]
        /\ pc'[r] \in {"streaming", "refused"}
        /\ \A q \in Runs \ {r} : pc'[q] = pc[q]
    BY <2>5 DEF TypeOK, PC, Suspended
  <2>7. /\ status' \in Status
        /\ steps' \subseteq Runs
        /\ abortController' \in Runs \cup {None}
        /\ session' \in [Runs -> Session \cup {None}]
    BY <1>1 DEF ContinueLoop, TypeOK
  <2> QED
    BY <2>3, <2>4, <2>6, <2>7 DEF LoopTypes
<1>2. CASE ~LoopGoesOn(r, st)
  BY <1>2, FinishLoopTypes DEF ContinueLoop
<1> QED
  BY <1>1, <1>2

\* What a stretch of run() by r leaves: the loop variables and the tools.
StretchTypes(r) ==
    /\ status' \in Status
    /\ steps' \subseteq Runs
    /\ planApprovalResolve' \in Runs \cup {None}
    /\ abortController' \in Runs \cup {None}
    /\ toolAbortController' \in Controllers \cup {None}
    /\ toolExecutor' \in Controllers \cup {None}
    /\ aborted' \subseteq Controllers
    /\ pc' \in [Runs -> PC]
    /\ step' \in [Runs -> 0 .. MaxSteps]
    /\ offered' \in [Runs -> BOOLEAN]
    /\ session' \in [Runs -> Session \cup {None}]

\* Who moved, and at what price.
StretchBudget(r) ==
    /\ \A q \in Runs \ {r} : pc'[q] = pc[q] /\ step'[q] = step[q]
    /\ \/ pc'[r] \in {"streaming", "refused"} /\ step'[r] = step[r] + 1
       \/ pc'[r] \notin {"streaming", "refused"} /\ step' = step

LEMMA LoopStretch ==
    ASSUME TypeOK, NEW r \in Runs, LoopTypes(r),
           planApprovalResolve' \in Runs \cup {None},
           toolAbortController' \in Controllers \cup {None},
           toolExecutor' \in Controllers \cup {None},
           aborted' \subseteq Controllers
    PROVE  StretchTypes(r) /\ StretchBudget(r)
<1>1. StretchTypes(r)
  BY DEF LoopTypes, StretchTypes
<1>2. StretchBudget(r)
  BY DEF LoopTypes, StretchBudget
<1> QED
  BY <1>1, <1>2

LEMMA AfterCompactionTypes ==
    ASSUME TypeOK, NEW r \in Runs, NEW awaiting \in BOOLEAN,
           NEW S \in SUBSET Runs, AfterCompaction(r, awaiting, S),
           UNCHANGED toolVars
    PROVE  StretchTypes(r) /\ StretchBudget(r)
<1>0. /\ toolAbortController' \in Controllers \cup {None}
      /\ toolExecutor' \in Controllers \cup {None}
      /\ aborted' \subseteq Controllers
  BY DEF toolVars, TypeOK
<1>1. CASE awaiting
  <2>1. /\ status' = "waiting_for_approval"
        /\ planApprovalResolve' = r
        /\ pc' = [pc EXCEPT ![r] = "approval"]
        /\ steps' = S
        /\ UNCHANGED <<step, offered, session, abortController>>
    BY <1>1 DEF AfterCompaction, AwaitApproval, Goto, loopVars
  <2>2. StretchTypes(r)
    BY <1>0, <2>1 DEF StretchTypes, TypeOK, Status, PC, Suspended
  <2>3. StretchBudget(r)
    BY <2>1 DEF StretchBudget, TypeOK
  <2> QED
    BY <2>2, <2>3
<1>2. CASE ~awaiting
  <2>1. ContinueLoop(r, status, planMode, S)
        /\ planApprovalResolve' \in Runs \cup {None}
    BY <1>2 DEF AfterCompaction, TypeOK
  <2>2. LoopTypes(r)
    BY <2>1, ContinueLoopTypes DEF TypeOK
  <2> QED
    BY <1>0, <2>1, <2>2, LoopStretch
<1> QED
  BY <1>1, <1>2

LEMMA RejectTypes ==
    ASSUME TypeOK, NEW r \in Runs, Reject(r), steps' \subseteq Runs,
           UNCHANGED planApprovalResolve
    PROVE  StretchTypes(r) /\ StretchBudget(r)
<1>1. StretchTypes(r)
  BY DEF Reject, Cleanup, Goto, loopVars, StretchTypes, TypeOK, PC, Settled
<1>2. StretchBudget(r)
  BY DEF Reject, Goto, loopVars, StretchBudget, TypeOK
<1> QED
  BY <1>1, <1>2

LEMMA AfterToolTypes ==
    ASSUME TypeOK, NEW r \in Runs, NEW awaiting \in BOOLEAN,
           AfterTool(r, awaiting)
    PROVE  StretchTypes(r) /\ StretchBudget(r)
<1> DEFINE S == steps \cup {r}
<1>0. S \in SUBSET Runs
  BY DEF TypeOK
<1>1. CASE AfterCompaction(r, awaiting, S) /\ UNCHANGED toolVars
  BY <1>0, <1>1, AfterCompactionTypes
<1>2. CASE steps' = S /\ UNCHANGED planApprovalResolve /\ Reject(r)
  BY <1>0, <1>2, RejectTypes
<1>3. CASE /\ steps' = S
           /\ Goto(r, "compacting")
           /\ abortController' = r
           /\ UNCHANGED <<status, toolVars, loopVars, planApprovalResolve>>
  <2>1. StretchTypes(r)
    BY <1>0, <1>3
       DEF Goto, toolVars, loopVars, StretchTypes, TypeOK, PC, Suspended
  <2>2. StretchBudget(r)
    BY <1>3 DEF Goto, loopVars, StretchBudget, TypeOK
  <2> QED
    BY <2>1, <2>2
<1> QED
  BY <1>1, <1>2, <1>3 DEF AfterTool

\* What executing a tool up to its first suspension leaves.
ExecuteTypes(r) ==
    /\ planMode' \in BOOLEAN
    /\ questionResolve' \in Runs \cup {None}
    /\ prompt' \in Prompt \cup {None}
    /\ dismissed' \subseteq Runs
    /\ tool' \in [Runs -> Tools \cup {"none", "cancelled"}]
    /\ \/ pc' = [pc EXCEPT ![r] = "tool"]
       \/ pc' = [pc EXCEPT ![r] = "question"]

LEMMA BeginExecuteTypes ==
    ASSUME TypeOK, NEW r \in Runs, NEW k \in Tools \cup {"none", "cancelled"},
           NEW e, BeginExecute(r, k, e)
    PROVE  ExecuteTypes(r)
<1>1. planMode' \in BOOLEAN
  BY DEF BeginExecute, TypeOK
<1>2. tool' \in [Runs -> Tools \cup {"none", "cancelled"}]
  BY DEF BeginExecute, TypeOK
<1>3. CASE UNCHANGED askVars /\ Goto(r, "tool")
  <2>1. UNCHANGED <<questionResolve, prompt, dismissed>>
    BY <1>3 DEF askVars
  <2> QED
    BY <1>1, <1>2, <1>3, <2>1 DEF TypeOK, ExecuteTypes, Goto
<1>4. CASE AskQuestion(r)
  BY <1>1, <1>2, <1>4 DEF AskQuestion, ExecuteTypes, TypeOK, Prompt, Goto
<1> QED
  BY <1>3, <1>4 DEF BeginExecute

\* The retry budget survives a stretch of run(), whoever moves.
LEMMA BudgetKept ==
    ASSUME TypeOK, Budget, NEW r \in Runs, StretchBudget(r),
           pc[r] \in Suspended \cup {"idle"},
           consecutiveErrors' \in {consecutiveErrors,
                                   [consecutiveErrors EXCEPT ![r] = 0]}
    PROVE  Budget'
<1> SUFFICES ASSUME NEW q \in Runs
             PROVE  /\ consecutiveErrors'[q] <= step'[q]
                    /\ pc'[q] \in Suspended \cup {"idle"} =>
                           consecutiveErrors'[q] < MaxErrors
                    /\ pc'[q] \in {"streaming", "refused"} =>
                           consecutiveErrors'[q] < step'[q]
  BY DEF Budget
<1>1. /\ consecutiveErrors[q] \in Nat /\ consecutiveErrors'[q] \in Nat
      /\ consecutiveErrors'[q] <= consecutiveErrors[q]
      /\ step[q] \in Nat
      /\ q # r => consecutiveErrors'[q] = consecutiveErrors[q]
  BY DEF TypeOK
<1>2. /\ consecutiveErrors[q] <= step[q]
      /\ pc[q] \in Suspended \cup {"idle"} => consecutiveErrors[q] < MaxErrors
      /\ pc[q] \in {"streaming", "refused"} => consecutiveErrors[q] < step[q]
  BY DEF Budget
<1>3. CASE q # r
  <2>1. pc'[q] = pc[q] /\ step'[q] = step[q]
    BY <1>3 DEF StretchBudget
  <2> QED
    BY <1>1, <1>2, <1>3, <2>1
<1>4. CASE q = r
  <2>1. consecutiveErrors[q] < MaxErrors
    BY <1>2, <1>4
  <2>2. CASE pc'[q] \in {"streaming", "refused"} /\ step'[q] = step[q] + 1
    BY <1>1, <1>2, <2>1, <2>2, BoundsAssumption
  <2>3. CASE pc'[q] \notin {"streaming", "refused"} /\ step' = step
    BY <1>1, <1>2, <2>1, <2>3, BoundsAssumption
  <2> QED
    BY <1>4, <2>2, <2>3 DEF StretchBudget
<1> QED
  BY <1>3, <1>4

\* The variables outside a stretch, when it leaves them alone.
LEMMA TypeFromStretch ==
    ASSUME TypeOK, NEW r \in Runs, StretchTypes(r),
           planMode' \in BOOLEAN, planAwaitingApproval' \in BOOLEAN,
           questionResolve' \in Runs \cup {None},
           prompt' \in Prompt \cup {None}, dismissed' \subseteq Runs,
           cancelled' \subseteq Runs,
           consecutiveErrors' \in [Runs -> 0 .. MaxErrors],
           tool' \in [Runs -> Tools \cup {"none", "cancelled"}],
           executor' \in [Runs -> Controllers \cup {None}]
    PROVE  TypeOK'
BY DEF StretchTypes, TypeOK

LEMMA StretchKeeps ==
    ASSUME TypeOK, Budget, NEW r \in Runs, StretchTypes(r), StretchBudget(r),
           pc[r] \in Suspended \cup {"idle"},
           UNCHANGED <<planMode, planAwaitingApproval, askVars, cancelled,
                       callVars>>
    PROVE  TypeOK' /\ Budget'
<1>1. UNCHANGED <<planMode, planAwaitingApproval, questionResolve, prompt,
                  dismissed, cancelled, consecutiveErrors, tool, executor>>
  BY DEF askVars, callVars
<1>2. TypeOK'
  BY <1>1, TypeFromStretch DEF TypeOK
<1>3. Budget'
  BY <1>1, BudgetKept
<1> QED
  BY <1>2, <1>3

\* The actions that are a loop head or a loop end.
LEMMA LoopKeeps ==
    ASSUME TypeOK, Budget, NEW r \in Runs, LoopTypes(r), pc[r] \in Suspended,
           UNCHANGED <<planVars, askVars, toolVars, cancelled, callVars>>
    PROVE  TypeOK' /\ Budget'
<1>1. UNCHANGED <<planMode, planAwaitingApproval, planApprovalResolve,
                  toolAbortController, toolExecutor, aborted>>
  BY DEF planVars, toolVars
<1>2. StretchTypes(r) /\ StretchBudget(r)
  BY <1>1, LoopStretch DEF TypeOK
<1> QED
  BY <1>1, <1>2, StretchKeeps

LEMMA RunKeeps ==
    ASSUME TypeOK, Budget, NEW r \in Runs, Run(r) \/ RunIgnored(r)
    PROVE  TypeOK' /\ Budget'
<1>1. <<r, 0>> \in Controllers
  BY BoundsAssumption DEF Controllers
<1>2. StretchTypes(r)
  BY <1>1 DEF Run, RunIgnored, ClearHistory, StretchTypes, TypeOK, Goto,
              planVars, toolVars, loopVars, PC, Suspended, Settled, Status
<1>3. StretchBudget(r)
  BY DEF Run, RunIgnored, Goto, loopVars, StretchBudget, TypeOK
<1>4. pc[r] = "idle"
  BY DEF Run, RunIgnored
<1>5. UNCHANGED <<planMode, planAwaitingApproval, askVars, cancelled, callVars>>
  BY DEF Run, RunIgnored, planVars
<1> QED
  BY <1>2, <1>3, <1>4, <1>5, StretchKeeps

LEMMA SessionLoadedKeeps ==
    ASSUME TypeOK, Budget, NEW r \in Runs, SessionLoaded(r)
    PROVE  TypeOK' /\ Budget'
<1>1. StretchTypes(r)
  BY DEF SessionLoaded, StretchTypes, TypeOK, Goto, planVars, loopVars, PC,
         Suspended, Settled
<1>2. StretchBudget(r)
  BY DEF SessionLoaded, Goto, loopVars, StretchBudget, TypeOK
<1>3. pc[r] \in Suspended
  BY DEF SessionLoaded, Suspended
<1>4. UNCHANGED <<planMode, planAwaitingApproval, askVars, cancelled, callVars>>
  BY DEF SessionLoaded, planVars
<1> QED
  BY <1>1, <1>2, <1>3, <1>4, StretchKeeps

LEMMA LoopHeadKeeps ==
    ASSUME TypeOK, Budget, NEW r \in Runs,
           ContextBuilt(r) \/ BackoffElapsed(r)
    PROVE  TypeOK' /\ Budget'
<1>1. ContinueLoop(r, status, planMode, steps) /\ pc[r] \in Suspended
  BY DEF ContextBuilt, BackoffElapsed, Suspended
<1>2. LoopTypes(r)
  BY <1>1, ContinueLoopTypes DEF TypeOK
<1>3. UNCHANGED <<planVars, askVars, toolVars, cancelled, callVars>>
  BY DEF ContextBuilt, BackoffElapsed
<1> QED
  BY <1>1, <1>2, <1>3, LoopKeeps

LEMMA StreamIgnoredKeeps ==
    ASSUME TypeOK, Budget, NEW r \in Runs, StreamIgnored(r)
    PROVE  TypeOK' /\ Budget'
<1>1. FinishLoop(r, status, steps) /\ pc[r] \in Suspended
  BY DEF StreamIgnored, Suspended
<1>2. LoopTypes(r)
  BY <1>1, FinishLoopTypes DEF TypeOK
<1>3. UNCHANGED <<planVars, askVars, toolVars, cancelled, callVars>>
  BY DEF StreamIgnored
<1> QED
  BY <1>1, <1>2, <1>3, LoopKeeps

LEMMA EndTurnKeeps ==
    ASSUME TypeOK, Budget, NEW r \in Runs, EndTurn(r)
    PROVE  TypeOK' /\ Budget'
<1>1. /\ FinishLoop(r, status, steps \cup {r})
      /\ pc[r] \in Suspended
      /\ consecutiveErrors' = [consecutiveErrors EXCEPT ![r] = 0]
      /\ UNCHANGED <<planMode, planAwaitingApproval, planApprovalResolve,
                     questionResolve, prompt, dismissed, toolAbortController,
                     toolExecutor, aborted, cancelled, tool, executor>>
  BY DEF EndTurn, Suspended, planVars, askVars, toolVars
<1>2. LoopTypes(r)
  BY <1>1, FinishLoopTypes DEF TypeOK
<1>3. StretchTypes(r) /\ StretchBudget(r)
  BY <1>1, <1>2, LoopStretch DEF TypeOK
<1>4. consecutiveErrors' \in [Runs -> 0 .. MaxErrors]
  BY <1>1, BoundsAssumption DEF TypeOK
<1>5. TypeOK'
  BY <1>1, <1>3, <1>4, TypeFromStretch DEF TypeOK
<1>6. Budget'
  BY <1>1, <1>3, BudgetKept
<1> QED
  BY <1>5, <1>6

\* The one action that spends the budget.
LEMMA StreamErrorKeeps ==
    ASSUME TypeOK, Budget, NEW r \in Runs, StreamError(r)
    PROVE  TypeOK' /\ Budget'
<1> DEFINE n == consecutiveErrors[r] + 1
<1>1. /\ pc[r] \in {"streaming", "refused"}
      /\ consecutiveErrors' = [consecutiveErrors EXCEPT ![r] = n]
      /\ steps' = steps \cup {r}
      /\ UNCHANGED <<planMode, planAwaitingApproval, planApprovalResolve,
                     questionResolve, prompt, dismissed, abortController,
                     cancelled, step, offered, session, tool, executor>>
  BY DEF StreamError, planVars, askVars, loopVars
<1>2. /\ consecutiveErrors[r] \in Nat
      /\ consecutiveErrors[r] < MaxErrors
      /\ consecutiveErrors[r] < step[r]
  BY <1>1 DEF Budget, TypeOK, Suspended
<1>3. consecutiveErrors' \in [Runs -> 0 .. MaxErrors] /\ consecutiveErrors'[r] = n
  BY <1>1, <1>2, BoundsAssumption DEF TypeOK
<1>4. \/ /\ status' = "error" /\ pc' = [pc EXCEPT ![r] = "done"]
         /\ toolExecutor' = None /\ toolAbortController' = None
         /\ aborted' = aborted
      \/ /\ pc' = [pc EXCEPT ![r] = "backoff"] /\ n < MaxErrors
         /\ UNCHANGED <<status, toolAbortController, toolExecutor, aborted>>
  BY <1>2, <1>3, BoundsAssumption
     DEF StreamError, GivesUp, Cleanup, Goto, toolVars
<1>5. StretchTypes(r)
  BY <1>1, <1>4 DEF StretchTypes, TypeOK, Status, PC, Suspended, Settled
<1>6. TypeOK'
  BY <1>1, <1>3, <1>5, TypeFromStretch DEF TypeOK
<1>7. ASSUME NEW q \in Runs
      PROVE  /\ consecutiveErrors'[q] <= step'[q]
             /\ pc'[q] \in Suspended \cup {"idle"} =>
                    consecutiveErrors'[q] < MaxErrors
             /\ pc'[q] \in {"streaming", "refused"} =>
                    consecutiveErrors'[q] < step'[q]
  <2>1. CASE q = r
    BY <1>1, <1>2, <1>3, <1>4, <2>1 DEF TypeOK, Suspended
  <2>2. CASE q # r
    BY <1>1, <1>4, <2>2 DEF TypeOK, Budget
  <2> QED
    BY <2>1, <2>2
<1> QED
  BY <1>6, <1>7 DEF Budget

LEMMA ToolUseKeeps ==
    ASSUME TypeOK, Budget, NEW r \in Runs, NEW k \in Tools, ToolUse(r, k)
    PROVE  TypeOK' /\ Budget'
<1>1. /\ pc[r] \in Suspended
      /\ consecutiveErrors' = [consecutiveErrors EXCEPT ![r] = 0]
      /\ steps' = steps \cup {r}
      /\ executor' = [executor EXCEPT ![r] = toolExecutor]
      /\ UNCHANGED <<planAwaitingApproval, planApprovalResolve, cancelled>>
  BY DEF ToolUse, Suspended
<1>2. /\ consecutiveErrors' \in [Runs -> 0 .. MaxErrors]
      /\ executor' \in [Runs -> Controllers \cup {None}]
      /\ steps' \subseteq Runs
  BY <1>1, BoundsAssumption DEF TypeOK
<1>3. CASE toolExecutor = None
  <2>1. Reject(r) /\ UNCHANGED <<planMode, questionResolve, prompt, dismissed,
                                 tool>>
    BY <1>3 DEF ToolUse, askVars
  <2>2. StretchTypes(r) /\ StretchBudget(r)
    BY <1>1, <1>2, <2>1, RejectTypes
  <2>3. TypeOK'
    BY <1>1, <1>2, <2>1, <2>2, TypeFromStretch DEF TypeOK
  <2> QED
    BY <1>1, <2>2, <2>3, BudgetKept
<1>4. CASE toolExecutor # None
  <2>1. \/ ExecuteTypes(r)
        \/ /\ pc' = [pc EXCEPT ![r] = "snapshot"]
           /\ tool' = [tool EXCEPT ![r] = k]
           /\ UNCHANGED <<planMode, askVars>>
    <3>1. CASE BeginExecute(r, k, toolExecutor)
      BY <3>1, BeginExecuteTypes
    <3> QED
      BY <1>4, <3>1 DEF ToolUse, Goto
  <2>2. UNCHANGED <<status, toolAbortController, toolExecutor, aborted, step,
                    offered, session, abortController>>
    BY <1>4 DEF ToolUse, toolVars, loopVars
  <2>3. \E where \in {"tool", "question", "snapshot"} :
            pc' = [pc EXCEPT ![r] = where]
    BY <2>1 DEF ExecuteTypes
  <2>4. StretchTypes(r)
    BY <1>1, <1>2, <2>2, <2>3 DEF StretchTypes, TypeOK, PC, Suspended
  <2>5. StretchBudget(r)
    BY <2>2, <2>3 DEF StretchBudget, TypeOK
  <2>6. /\ planMode' \in BOOLEAN
        /\ questionResolve' \in Runs \cup {None}
        /\ prompt' \in Prompt \cup {None}
        /\ dismissed' \subseteq Runs
        /\ tool' \in [Runs -> Tools \cup {"none", "cancelled"}]
    <3>1. CASE ExecuteTypes(r)
      BY <3>1 DEF ExecuteTypes
    <3>2. CASE tool' = [tool EXCEPT ![r] = k] /\ UNCHANGED <<planMode, askVars>>
      BY <3>2 DEF askVars, TypeOK
    <3> QED
      BY <2>1, <3>1, <3>2
  <2>7. TypeOK'
    BY <1>1, <1>2, <2>4, <2>6, TypeFromStretch DEF TypeOK
  <2> QED
    BY <1>1, <2>5, <2>7, BudgetKept
<1> QED
  BY <1>3, <1>4

LEMMA SnapshotTakenKeeps ==
    ASSUME TypeOK, Budget, NEW r \in Runs, SnapshotTaken(r)
    PROVE  TypeOK' /\ Budget'
<1>1. /\ pc[r] \in Suspended
      /\ BeginExecute(r, tool[r], executor[r])
      /\ UNCHANGED <<status, steps, planAwaitingApproval, planApprovalResolve,
                     toolAbortController, toolExecutor, aborted,
                     abortController, cancelled, step, offered, session,
                     consecutiveErrors, executor>>
  BY DEF SnapshotTaken, Suspended, toolVars, loopVars
<1>2. tool[r] \in Tools \cup {"none", "cancelled"}
  BY DEF TypeOK
<1>3. ExecuteTypes(r)
  BY <1>1, <1>2, BeginExecuteTypes
<1>4. \E where \in {"tool", "question"} : pc' = [pc EXCEPT ![r] = where]
  BY <1>3 DEF ExecuteTypes
<1>5. StretchTypes(r)
  BY <1>1, <1>4 DEF StretchTypes, TypeOK, PC, Suspended
<1>6. StretchBudget(r)
  BY <1>1, <1>4 DEF StretchBudget, TypeOK
<1>7. TypeOK'
  BY <1>1, <1>3, <1>5, TypeFromStretch DEF TypeOK, ExecuteTypes
<1> QED
  BY <1>1, <1>6, <1>7, BudgetKept

LEMMA ToolReturnedKeeps ==
    ASSUME TypeOK, Budget, NEW r \in Runs, ToolReturned(r)
    PROVE  TypeOK' /\ Budget'
<1>1. pc[r] \in Suspended /\ AfterTool(r, planAwaitingApproval)
  BY DEF ToolReturned, Suspended
<1>2. StretchTypes(r) /\ StretchBudget(r)
  BY <1>1, AfterToolTypes DEF TypeOK
<1>3. UNCHANGED <<planMode, planAwaitingApproval, askVars, cancelled, callVars>>
  BY DEF ToolReturned
<1> QED
  BY <1>1, <1>2, <1>3, StretchKeeps

LEMMA PlanPresentedKeeps ==
    ASSUME TypeOK, Budget, NEW r \in Runs, PlanPresented(r)
    PROVE  TypeOK' /\ Budget'
<1>1. /\ pc[r] \in Suspended
      /\ AfterTool(r, TRUE)
      /\ planAwaitingApproval' = TRUE
      /\ prompt' \in Prompt
      /\ UNCHANGED <<planMode, questionResolve, dismissed, cancelled,
                     consecutiveErrors, tool, executor>>
  BY DEF PlanPresented, Suspended, callVars, Prompt
<1>2. StretchTypes(r) /\ StretchBudget(r)
  BY <1>1, AfterToolTypes
<1>3. TypeOK'
  BY <1>1, <1>2, TypeFromStretch DEF TypeOK
<1> QED
  BY <1>1, <1>2, <1>3, BudgetKept

LEMMA CompactionKeeps ==
    ASSUME TypeOK, Budget, NEW r \in Runs,
           CompactionDone(r) \/ CompactionFailed(r)
    PROVE  TypeOK' /\ Budget'
<1>1. pc[r] \in Suspended
  BY DEF CompactionDone, CompactionFailed, Suspended
<1>2. UNCHANGED <<planMode, planAwaitingApproval, askVars, cancelled, callVars>>
  BY DEF CompactionDone, CompactionFailed, planVars
<1>3. CASE CompactionDone(r)
  <2>1. /\ AfterCompaction(r, planAwaitingApproval, steps)
        /\ UNCHANGED toolVars
    BY <1>3 DEF CompactionDone
  <2>2. StretchTypes(r) /\ StretchBudget(r)
    BY <2>1, AfterCompactionTypes DEF TypeOK
  <2> QED
    BY <1>1, <1>2, <2>2, StretchKeeps
<1>4. CASE CompactionFailed(r)
  <2>1. Reject(r) /\ UNCHANGED <<steps, planApprovalResolve>>
    BY <1>4 DEF CompactionFailed, planVars
  <2>2. StretchTypes(r) /\ StretchBudget(r)
    BY <2>1, RejectTypes DEF TypeOK
  <2> QED
    BY <1>1, <1>2, <2>2, StretchKeeps
<1> QED
  BY <1>3, <1>4

LEMMA SessionSavedKeeps ==
    ASSUME TypeOK, Budget, NEW r \in Runs, SessionSaved(r)
    PROVE  TypeOK' /\ Budget'
<1>1. StretchTypes(r)
  BY DEF SessionSaved, Cleanup, StretchTypes, TypeOK, Goto, planVars, loopVars,
         PC, Settled
<1>2. StretchBudget(r)
  BY DEF SessionSaved, Goto, loopVars, StretchBudget, TypeOK
<1>3. pc[r] \in Suspended
  BY DEF SessionSaved, Suspended
<1>4. UNCHANGED <<planMode, planAwaitingApproval, askVars, cancelled, callVars>>
  BY DEF SessionSaved, planVars
<1> QED
  BY <1>1, <1>2, <1>3, <1>4, StretchKeeps

\* A registered resolver belongs to a call that is waiting for it.  Resolving
\* it therefore resumes a call that is within its budget.
Resolvers ==
    /\ planApprovalResolve # None => pc[planApprovalResolve] = "approval"
    /\ questionResolve # None => pc[questionResolve] = "question"

LEMMA StopKeeps ==
    ASSUME TypeOK, Budget, Resolvers, NEW r \in Runs, Stop(r)
    PROVE  TypeOK' /\ Budget'
<1>1. /\ status' = "stopped"
      /\ steps' \subseteq Runs
      /\ cancelled' \subseteq Runs
      /\ abortController' = None
      /\ toolAbortController' = None
      /\ aborted' \subseteq Controllers
      /\ UNCHANGED <<questionResolve, prompt, dismissed, toolExecutor,
                     consecutiveErrors, tool, executor, step, offered>>
  BY DEF Stop, TypeOK, askVars, callVars, loopVars
<1>2. /\ planMode' \in BOOLEAN
      /\ planAwaitingApproval' \in BOOLEAN
      /\ planApprovalResolve' \in Runs \cup {None}
  BY DEF Stop, TypeOK, SettleApproval, planVars
<1>3. session' \in [Runs -> Session \cup {None}]
  BY DEF Stop, TypeOK, loopVars, Session, Status
<1>4. /\ pc' \in [Runs -> PC]
      /\ \A q \in Runs : \/ pc'[q] = pc[q] \/ pc'[q] = "hung"
                         \/ pc'[q] = "saving" /\ pc[q] = "approval"
  BY NoneAssumption DEF Stop, TypeOK, Resolvers, PC, Suspended
<1>5. StretchTypes(r)
  BY <1>1, <1>2, <1>3, <1>4 DEF StretchTypes, TypeOK, Status
<1>6. TypeOK'
  BY <1>1, <1>2, <1>5, TypeFromStretch DEF TypeOK
<1>7. Budget'
  BY <1>1, <1>4 DEF Budget, Suspended
<1> QED
  BY <1>6, <1>7

LEMMA ApprovePlanKeeps ==
    ASSUME TypeOK, Budget, Resolvers, NEW approved \in BOOLEAN,
           ApprovePlan(approved)
    PROVE  TypeOK' /\ Budget'
<1>1. /\ prompt' = None
      /\ UNCHANGED <<questionResolve, dismissed, cancelled, consecutiveErrors,
                     tool, executor>>
  BY DEF ApprovePlan, callVars
<1>2. CASE UNCHANGED <<status, steps, planVars, toolVars, abortController, pc,
                       loopVars>>
  <2>1. TypeOK'
    BY <1>1, <1>2 DEF TypeOK, planVars, toolVars, loopVars
  <2>2. Budget'
    BY <1>1, <1>2 DEF Budget, loopVars
  <2> QED
    BY <2>1, <2>2
<1>3. ASSUME NEW w \in Runs, planApprovalResolve = w,
             \/ PlanApproved(w)
             \/ /\ PlanRejected(w)
                /\ UNCHANGED <<toolAbortController, toolExecutor>>,
             UNCHANGED aborted
      PROVE  TypeOK' /\ Budget'
  <2>1. SettleApproval
    BY <1>3 DEF PlanApproved, PlanRejected
  <2>2. /\ planMode' = FALSE
        /\ planAwaitingApproval' = FALSE
        /\ planApprovalResolve' = None
    BY <2>1 DEF SettleApproval
  <2>3. LoopTypes(w)
    <3>1. CASE PlanApproved(w)
      BY <3>1, ContinueLoopTypes DEF PlanApproved, Status, TypeOK
    <3>2. CASE PlanRejected(w)
      BY <3>2, FinishLoopTypes DEF PlanRejected, Status, TypeOK
    <3> QED
      BY <1>3, <3>1, <3>2
  <2>4. <<w, step[w]>> \in Controllers
    BY DEF TypeOK, Controllers
  <2>5. /\ toolAbortController' \in Controllers \cup {None}
        /\ toolExecutor' \in Controllers \cup {None}
        /\ aborted' \subseteq Controllers
    BY <1>3, <2>4 DEF PlanApproved, TypeOK
  <2>6. StretchTypes(w) /\ StretchBudget(w)
    BY <2>2, <2>3, <2>5, LoopStretch
  <2>7. TypeOK'
    BY <1>1, <2>2, <2>6, TypeFromStretch DEF TypeOK
  <2>8. pc[w] \in Suspended
    BY <1>3, NoneAssumption DEF Resolvers, Suspended
  <2> QED
    BY <1>1, <2>6, <2>7, <2>8, BudgetKept
<1>4. CASE planApprovalResolve = None
  <2>1. UNCHANGED <<status, steps, planVars, toolVars, abortController, pc,
                    loopVars>>
    BY <1>4, NoneAssumption DEF ApprovePlan
  <2> QED
    BY <1>2, <2>1
<1>5. CASE planApprovalResolve # None
  <2>1. PICK w \in Runs :
            /\ planApprovalResolve = w
            /\ \/ approved /\ PlanApproved(w)
               \/ ~approved /\ PlanRejected(w)
                            /\ UNCHANGED <<toolAbortController, toolExecutor>>
            /\ UNCHANGED aborted
    BY <1>5 DEF ApprovePlan
  <2> QED
    BY <1>3, <2>1
<1> QED
  BY <1>4, <1>5

LEMMA AnswerQuestionKeeps ==
    ASSUME TypeOK, Budget, Resolvers, AnswerQuestion
    PROVE  TypeOK' /\ Budget'
<1>1. /\ prompt' = None
      /\ questionResolve' = None
      /\ pc' = [q \in Runs |-> IF q = questionResolve THEN "tool" ELSE pc[q]]
      /\ UNCHANGED <<status, steps, planMode, planAwaitingApproval,
                     planApprovalResolve, dismissed, toolAbortController,
                     toolExecutor, aborted, abortController, cancelled, step,
                     offered, session, consecutiveErrors, tool, executor>>
  BY DEF AnswerQuestion, planVars, toolVars, loopVars, callVars
<1>2. /\ pc' \in [Runs -> PC]
      /\ \A q \in Runs : \/ pc'[q] = pc[q]
                         \/ pc'[q] = "tool" /\ pc[q] = "question"
  BY <1>1, NoneAssumption DEF TypeOK, Resolvers, PC, Suspended
<1>3. TypeOK'
  BY <1>1, <1>2 DEF TypeOK
<1>4. Budget'
  BY <1>1, <1>2 DEF Budget, Suspended
<1> QED
  BY <1>3, <1>4

-----------------------------------------------------------------------------
(* What any stretch of run() does to the state the user interface reads.    *)

\* Where a call keeps the status "running" honest: it will still write one.
Busy == (Suspended \ {"saving"}) \cup {"rejected"}

LoopEffect(r, st) ==
    /\ \A q \in Runs \ {r} : pc'[q] = pc[q]
    /\ pc'[r] \in {"streaming", "refused", "saving"}
    /\ status' = "running" => st = "running" /\ pc'[r] # "saving"
    /\ status' = "waiting_for_approval" => st = "waiting_for_approval"

LEMMA FinishLoopEffect ==
    ASSUME TypeOK, NEW r \in Runs, NEW st, NEW S, FinishLoop(r, st, S)
    PROVE  LoopEffect(r, st)
BY DEF FinishLoop, FinalStatus, Goto, LoopEffect, TypeOK

LEMMA ContinueLoopEffect ==
    ASSUME TypeOK, NEW r \in Runs, NEW st, NEW m, NEW S,
           ContinueLoop(r, st, m, S)
    PROVE  LoopEffect(r, st)
<1>1. CASE LoopGoesOn(r, st)
  BY <1>1 DEF ContinueLoop, LoopGoesOn, Goto, LoopEffect, TypeOK
<1>2. CASE ~LoopGoesOn(r, st)
  BY <1>2, FinishLoopEffect DEF ContinueLoop
<1> QED
  BY <1>1, <1>2

\* Others stay where they are; an approval is awaited with its resolver and
\* the status set; a question is awaited with its resolver set; the status
\* becomes "running" by no stretch, and stays so only while r is busy.
CallEffect(r) ==
    /\ pc[r] \in Suspended \ {"approval", "question"}
    /\ \A q \in Runs \ {r} : pc'[q] = pc[q]
    /\ \/ planApprovalResolve' = planApprovalResolve
       \/ planApprovalResolve' = r /\ pc'[r] = "approval"
    /\ \/ questionResolve' \in {questionResolve, None}
       \/ questionResolve' = r /\ pc'[r] = "question"
    /\ pc'[r] = "approval" => /\ planApprovalResolve' = r
                              /\ status' = "waiting_for_approval"
    /\ pc'[r] = "question" => questionResolve' = r
    /\ status' = "waiting_for_approval" =>
           status = "waiting_for_approval" \/ planApprovalResolve' = r
    /\ status' = "running" => /\ status = "running"
                              /\ pc'[r] \in Busy \/ pc[r] = "saving"

LEMMA AfterCompactionEffect ==
    ASSUME TypeOK, NEW r \in Runs, NEW awaiting \in BOOLEAN, NEW S,
           pc[r] \in {"tool", "compacting"}, AfterCompaction(r, awaiting, S),
           UNCHANGED questionResolve
    PROVE  CallEffect(r)
<1>1. CASE awaiting
  BY <1>1 DEF AfterCompaction, AwaitApproval, Goto, CallEffect, Suspended, TypeOK
<1>2. CASE ~awaiting
  <2>1. LoopEffect(r, status) /\ UNCHANGED planApprovalResolve
    BY <1>2, ContinueLoopEffect DEF AfterCompaction
  <2> QED
    BY <2>1 DEF LoopEffect, CallEffect, Suspended, Busy
<1> QED
  BY <1>1, <1>2

LEMMA RejectEffect ==
    ASSUME TypeOK, NEW r \in Runs, Reject(r),
           pc[r] \in Suspended \ {"approval", "question"},
           UNCHANGED <<planApprovalResolve, questionResolve>>
    PROVE  CallEffect(r)
BY DEF Reject, Goto, CallEffect, Busy, TypeOK

LEMMA AfterToolEffect ==
    ASSUME TypeOK, NEW r \in Runs, NEW awaiting \in BOOLEAN, pc[r] = "tool",
           AfterTool(r, awaiting), UNCHANGED questionResolve
    PROVE  CallEffect(r)
<1>1. CASE AfterCompaction(r, awaiting, steps \cup {r})
  BY <1>1, AfterCompactionEffect
<1>2. CASE Reject(r) /\ UNCHANGED planApprovalResolve
  BY <1>2, RejectEffect DEF Suspended
<1>3. CASE Goto(r, "compacting") /\ UNCHANGED <<status, planApprovalResolve>>
  BY <1>3 DEF Goto, CallEffect, Suspended, Busy, TypeOK
<1> QED
  BY <1>1, <1>2, <1>3 DEF AfterTool

LEMMA BeginExecuteEffect ==
    ASSUME TypeOK, NEW r \in Runs, NEW k, NEW e, BeginExecute(r, k, e),
           pc[r] \in {"streaming", "snapshot"},
           UNCHANGED <<status, planApprovalResolve>>
    PROVE  CallEffect(r)
<1>1. CASE UNCHANGED askVars /\ Goto(r, "tool")
  BY <1>1 DEF Goto, askVars, CallEffect, Suspended, Busy, TypeOK
<1>2. CASE AskQuestion(r)
  BY <1>2 DEF AskQuestion, Goto, CallEffect, Suspended, Busy, TypeOK
<1> QED
  BY <1>1, <1>2 DEF BeginExecute

LEMMA ResumeEffect ==
    ASSUME TypeOK, NEW r \in Runs, Resume(r)
    PROVE  CallEffect(r)
<1>1. CASE SessionLoaded(r)
  BY <1>1 DEF SessionLoaded, Goto, planVars, askVars, CallEffect, Suspended,
              Busy, TypeOK
<1>2. CASE ContextBuilt(r) \/ BackoffElapsed(r) \/ StreamIgnored(r)
  <2>1. LoopEffect(r, status)
    BY <1>2, ContinueLoopEffect, FinishLoopEffect
       DEF ContextBuilt, BackoffElapsed, StreamIgnored
  <2>2. /\ UNCHANGED <<planApprovalResolve, questionResolve>>
        /\ pc[r] \in {"context", "backoff", "streaming"}
    BY <1>2 DEF ContextBuilt, BackoffElapsed, StreamIgnored, planVars, askVars
  <2> QED
    BY <2>1, <2>2 DEF LoopEffect, CallEffect, Suspended, Busy
<1>3. CASE StreamError(r)
  BY <1>3 DEF StreamError, Goto, planVars, askVars, CallEffect, Suspended,
              Busy, TypeOK
<1>4. CASE EndTurn(r)
  <2>1. LoopEffect(r, status)
    BY <1>4, FinishLoopEffect DEF EndTurn
  <2>2. /\ UNCHANGED <<planApprovalResolve, questionResolve>>
        /\ pc[r] = "streaming"
    BY <1>4 DEF EndTurn, planVars, askVars
  <2> QED
    BY <2>1, <2>2 DEF LoopEffect, CallEffect, Suspended, Busy
<1>5. ASSUME NEW k \in Tools, ToolUse(r, k)
      PROVE  CallEffect(r)
  <2>1. pc[r] = "streaming" /\ UNCHANGED planApprovalResolve
    BY <1>5 DEF ToolUse
  <2>2. CASE toolExecutor = None
    BY <1>5, <2>1, <2>2, RejectEffect DEF ToolUse, askVars, Suspended
  <2>3. CASE /\ Goto(r, "snapshot")
             /\ UNCHANGED <<status, planMode, askVars>>
    BY <2>1, <2>3 DEF askVars, Goto, CallEffect, Suspended, Busy, TypeOK
  <2>4. CASE BeginExecute(r, k, toolExecutor) /\ UNCHANGED status
    BY <2>1, <2>4, BeginExecuteEffect
  <2> QED
    BY <1>5, <2>2, <2>3, <2>4 DEF ToolUse
<1>6. CASE SnapshotTaken(r)
  BY <1>6, BeginExecuteEffect DEF SnapshotTaken
<1>7. CASE ToolReturned(r)
  BY <1>7, AfterToolEffect DEF ToolReturned, askVars, TypeOK
<1>8. CASE PlanPresented(r)
  BY <1>8, AfterToolEffect DEF PlanPresented
<1>9. CASE CompactionDone(r)
  BY <1>9, AfterCompactionEffect DEF CompactionDone, askVars, TypeOK
<1>10. CASE CompactionFailed(r)
  BY <1>10, RejectEffect DEF CompactionFailed, planVars, askVars, Suspended
<1>11. CASE SessionSaved(r)
  BY <1>11 DEF SessionSaved, Goto, planVars, askVars, CallEffect, Suspended,
               TypeOK
<1> QED
  BY <1>1, <1>2, <1>3, <1>4, <1>5, <1>6, <1>7, <1>8, <1>9, <1>10, <1>11
     DEF Resume

-----------------------------------------------------------------------------
(* The inductive invariant and the theorems.                                *)

LEMMA ResolversKept ==
    ASSUME TypeOK, Resolvers, [Next]_vars
    PROVE  Resolvers'
<1>1. ASSUME NEW r \in Runs, Run(r) \/ RunIgnored(r)
      PROVE  Resolvers'
  <2>1. /\ pc[r] = "idle"
        /\ \A q \in Runs \ {r} : pc'[q] = pc[q]
        /\ UNCHANGED <<planApprovalResolve, questionResolve>>
    BY <1>1 DEF Run, RunIgnored, Goto, planVars, askVars, TypeOK
  <2> QED
    BY <2>1 DEF Resolvers, TypeOK
<1>2. ASSUME NEW r \in Runs, Stop(r)
      PROVE  Resolvers'
  BY <1>2, NoneAssumption
     DEF Stop, SettleApproval, planVars, askVars, Resolvers, TypeOK
<1>3. ASSUME NEW approved \in BOOLEAN, ApprovePlan(approved)
      PROVE  Resolvers'
  <2>1. UNCHANGED questionResolve
    BY <1>3 DEF ApprovePlan
  <2>2. CASE planApprovalResolve = None
    BY <1>3, <2>1, <2>2, NoneAssumption DEF ApprovePlan, planVars, Resolvers
  <2>3. CASE planApprovalResolve # None
    <3>1. PICK w \in Runs : planApprovalResolve = w
                            /\ (PlanApproved(w) \/ PlanRejected(w))
      BY <1>3, <2>3 DEF ApprovePlan
    <3>2. planApprovalResolve' = None
      BY <3>1 DEF PlanApproved, PlanRejected, SettleApproval
    <3>3. \E st : LoopEffect(w, st)
      BY <3>1, ContinueLoopEffect, FinishLoopEffect
         DEF PlanApproved, PlanRejected
    <3> QED
      BY <2>1, <2>3, <3>1, <3>2, <3>3 DEF LoopEffect, Resolvers, TypeOK
  <2> QED
    BY <2>2, <2>3
<1>4. CASE AnswerQuestion
  BY <1>4 DEF AnswerQuestion, planVars, Resolvers, TypeOK
<1>5. ASSUME NEW r \in Runs, Resume(r)
      PROVE  Resolvers'
  <2>1. CallEffect(r)
    BY <1>5, ResumeEffect
  <2> QED
    BY <2>1 DEF CallEffect, Resolvers, TypeOK
<1>6. CASE UNCHANGED vars
  BY <1>6 DEF vars, planVars, askVars, Resolvers
<1> QED
  BY <1>1, <1>2, <1>3, <1>4, <1>5, <1>6 DEF Next, User

\* The inductive invariant behind type correctness.
TypeInv == TypeOK /\ Budget /\ Resolvers

LEMMA TypeInvKept ==
    ASSUME TypeInv, [Next]_vars
    PROVE  TypeInv'
<1> USE DEF TypeInv
<1>1. ASSUME NEW r \in Runs, Run(r) \/ RunIgnored(r) \/ Stop(r)
      PROVE  TypeOK' /\ Budget'
  BY <1>1, RunKeeps, StopKeeps
<1>2. ASSUME NEW approved \in BOOLEAN, ApprovePlan(approved)
      PROVE  TypeOK' /\ Budget'
  BY <1>2, ApprovePlanKeeps
<1>3. ASSUME AnswerQuestion
      PROVE  TypeOK' /\ Budget'
  BY <1>3, AnswerQuestionKeeps
<1>4. ASSUME NEW r \in Runs, Resume(r)
      PROVE  TypeOK' /\ Budget'
  BY <1>4, SessionLoadedKeeps, LoopHeadKeeps, StreamErrorKeeps,
     StreamIgnoredKeeps, EndTurnKeeps, ToolUseKeeps, SnapshotTakenKeeps,
     ToolReturnedKeeps, PlanPresentedKeeps, CompactionKeeps, SessionSavedKeeps
     DEF Resume
<1>5. ASSUME UNCHANGED vars
      PROVE  TypeOK' /\ Budget'
  <2>1. TypeOK'
    BY <1>5 DEF vars, planVars, askVars, toolVars, loopVars, callVars, TypeOK
  <2>2. Budget'
    BY <1>5 DEF vars, loopVars, callVars, Budget
  <2> QED
    BY <2>1, <2>2
<1>6. TypeOK' /\ Budget'
  BY <1>1, <1>2, <1>3, <1>4, <1>5 DEF Next, User
<1> QED
  BY <1>6, ResolversKept

LEMMA TypeInvHolds == Spec => []TypeInv
<1>1. Init => TypeInv
  <2> SUFFICES ASSUME Init PROVE TypeInv
    OBVIOUS
  <2>1. TypeOK
    <3>1. 0 \in 0 .. MaxSteps /\ 0 \in 0 .. MaxErrors
      BY BoundsAssumption
    <3>2. offered \in [Runs -> BOOLEAN]
      BY DEF Init
    <3> QED
      BY <3>1, <3>2 DEF Init, TypeOK, Status, PC
  <2>2. Budget
    <3>1. 0 < MaxErrors /\ 0 <= 0
      BY BoundsAssumption
    <3>2. \A r \in Runs : /\ pc[r] = "idle"
                          /\ consecutiveErrors[r] = 0
                          /\ step[r] = 0
      BY DEF Init
    <3> QED
      BY <3>1, <3>2 DEF Budget
  <2>3. Resolvers
    BY DEF Init, Resolvers
  <2> QED
    BY <2>1, <2>2, <2>3 DEF TypeInv
<1>2. TypeInv /\ [Next]_vars => TypeInv'
  BY TypeInvKept
<1> QED
  BY <1>1, <1>2, PTL DEF Spec

\* Type correctness of the runtime: in particular the step counter stays
\* within maxSteps and the retry counter within the literal of the retry
\* loop, for any overlap of calls.
THEOREM TypeCorrect == Spec => []TypeOK
<1>1. TypeInv => TypeOK
  BY DEF TypeInv
<1> QED
  BY <1>1, TypeInvHolds, PTL

\* Retries are paid from the step budget, for every step and retry limit.
THEOREM RetriesBounded == Spec => []RetriesWithinBudget
<1>1. TypeInv => RetriesWithinBudget
  BY DEF TypeInv, Budget, RetriesWithinBudget, Live
<1> QED
  BY <1>1, TypeInvHolds, PTL

\* What ApprovePlan does, in the terms of LoopEffect.
LEMMA ApprovePlanEffect ==
    ASSUME TypeOK, NEW approved \in BOOLEAN, ApprovePlan(approved)
    PROVE  \/ UNCHANGED <<status, planApprovalResolve, questionResolve, pc>>
           \/ /\ planApprovalResolve \in Runs
              /\ planApprovalResolve' = None
              /\ UNCHANGED questionResolve
              /\ \E st : LoopEffect(planApprovalResolve, st)
              /\ status' # "waiting_for_approval"
<1>1. CASE planApprovalResolve = None
  BY <1>1, NoneAssumption DEF ApprovePlan, planVars
<1>2. CASE planApprovalResolve # None
  <2>1. PICK w \in Runs : planApprovalResolve = w
                          /\ (PlanApproved(w) \/ PlanRejected(w))
    BY <1>2 DEF ApprovePlan
  <2>2. planApprovalResolve' = None /\ UNCHANGED questionResolve
    BY <2>1 DEF PlanApproved, PlanRejected, SettleApproval, ApprovePlan
  <2>3. LoopEffect(w, "running") \/ LoopEffect(w, "stopped")
    BY <2>1, ContinueLoopEffect, FinishLoopEffect DEF PlanApproved, PlanRejected
  <2> QED
    BY <2>1, <2>2, <2>3 DEF LoopEffect
<1> QED
  BY <1>1, <1>2

\* While the status asks for approval, the resolver is there.
Asking == status = "waiting_for_approval" => planApprovalResolve # None

LEMMA AskingKept ==
    ASSUME TypeOK, Asking, [Next]_vars
    PROVE  Asking'
<1>1. ASSUME NEW r \in Runs, Run(r) \/ RunIgnored(r)
      PROVE  Asking'
  BY <1>1 DEF Run, RunIgnored, planVars, Asking
<1>2. ASSUME NEW r \in Runs, Stop(r)
      PROVE  Asking'
  BY <1>2 DEF Stop, Asking
<1>3. ASSUME NEW approved \in BOOLEAN, ApprovePlan(approved)
      PROVE  Asking'
  BY <1>3, ApprovePlanEffect DEF Asking
<1>4. CASE AnswerQuestion
  BY <1>4 DEF AnswerQuestion, planVars, Asking
<1>5. ASSUME NEW r \in Runs, Resume(r)
      PROVE  Asking'
  BY <1>5, ResumeEffect, NoneAssumption DEF CallEffect, Asking
<1>6. CASE UNCHANGED vars
  BY <1>6 DEF vars, planVars, Asking
<1> QED
  BY <1>1, <1>2, <1>3, <1>4, <1>5, <1>6 DEF Next, User

\* While the status is "waiting_for_approval", approvePlan() resumes a call
\* that is suspended in the approval await, even when calls overlap, stop and
\* compact in any order: the user is never asked for a decision nobody takes.
THEOREM ApprovalDelivered == Spec => []ApprovalReachesWaiter
<1>1. Init => Asking
  BY DEF Init, Asking
<1>2. TypeInv /\ Asking /\ [Next]_vars => Asking'
  BY AskingKept DEF TypeInv
<1>3. TypeInv /\ Asking => ApprovalReachesWaiter
  BY DEF TypeInv, TypeOK, Resolvers, Asking, ApprovalReachesWaiter
<1> QED
  BY <1>1, <1>2, <1>3, TypeInvHolds, PTL DEF Spec

\* The status "running" is backed by a call that will still write the status,
\* or by one that rejected.
Backed == status = "running" => \E r \in Runs : pc[r] \in Busy

LEMMA BackedKept ==
    ASSUME TypeOK, Resolvers, Backed, [Next]_vars
    PROVE  Backed'
<1>1. ASSUME NEW r \in Runs, Run(r) \/ RunIgnored(r)
      PROVE  Backed'
  BY <1>1 DEF Run, RunIgnored, Goto, Backed, Busy, Suspended, TypeOK
<1>2. ASSUME NEW r \in Runs, Stop(r)
      PROVE  Backed'
  BY <1>2 DEF Stop, Backed
<1>3. ASSUME NEW approved \in BOOLEAN, ApprovePlan(approved)
      PROVE  Backed'
  BY <1>3, ApprovePlanEffect DEF LoopEffect, Backed, Busy, Suspended
<1>4. CASE AnswerQuestion
  BY <1>4 DEF AnswerQuestion, Backed, Busy, Suspended, TypeOK
<1>5. ASSUME NEW r \in Runs, Resume(r)
      PROVE  Backed'
  <2>1. CallEffect(r)
    BY <1>5, ResumeEffect
  <2> QED
    BY <2>1 DEF CallEffect, Backed, Busy
<1>6. CASE UNCHANGED vars
  BY <1>6 DEF vars, Backed
<1> QED
  BY <1>1, <1>2, <1>3, <1>4, <1>5, <1>6 DEF Next, User

\* The status "running", which makes run() ignore requests, is never left
\* behind by a call that returned: a live call is there to reset it, or a call
\* rejected.
THEOREM RunningBacked == Spec => []RunningHasRunner
<1>1. Init => Backed
  BY DEF Init, Backed
<1>2. TypeInv /\ Backed /\ [Next]_vars => Backed'
  BY BackedKept DEF TypeInv
<1>3. Backed => RunningHasRunner
  BY DEF Backed, Busy, RunningHasRunner, Live
<1> QED
  BY <1>1, <1>2, <1>3, TypeInvHolds, PTL DEF Spec

\* Calls that do not overlap: at most one is live.
OneLive == \A q, r \in Runs : Live(q) /\ Live(r) => q = r

LEMMA OneLiveKept ==
    ASSUME ~OverlappingRuns, TypeOK, Resolvers, OneLive, [Next]_vars
    PROVE  OneLive'
<1>1. ASSUME NEW r \in Runs, Run(r) \/ RunIgnored(r)
      PROVE  OneLive'
  <2>1. /\ \A q \in Runs : ~Live(q)
        /\ \A q \in Runs \ {r} : pc'[q] = pc[q]
    BY <1>1 DEF Run, RunIgnored, Goto, TypeOK
  <2> QED
    BY <2>1 DEF OneLive, Live
<1>2. ASSUME NEW r \in Runs, Stop(r)
      PROVE  OneLive'
  <2>1. \A q \in Runs : \/ pc'[q] = pc[q] \/ pc'[q] = "hung"
                        \/ pc'[q] = "saving" /\ pc[q] = "approval"
    BY <1>2, NoneAssumption DEF Stop, Resolvers, TypeOK
  <2>2. \A q \in Runs : Live(q)' => Live(q)
    BY <2>1 DEF Live, Suspended
  <2> QED
    BY <2>2 DEF OneLive
<1>3. ASSUME NEW approved \in BOOLEAN, ApprovePlan(approved)
      PROVE  OneLive'
  <2>1. CASE UNCHANGED pc
    BY <2>1 DEF OneLive, Live
  <2>2. CASE /\ planApprovalResolve \in Runs
             /\ \E st : LoopEffect(planApprovalResolve, st)
    <3>1. Live(planApprovalResolve)
      BY <2>2, NoneAssumption DEF Resolvers, Live, Suspended
    <3>2. \A q \in Runs \ {planApprovalResolve} : pc'[q] = pc[q]
      BY <2>2 DEF LoopEffect
    <3> QED
      BY <2>2, <3>1, <3>2 DEF OneLive, Live
  <2> QED
    BY <1>3, <2>1, <2>2, ApprovePlanEffect
<1>4. CASE AnswerQuestion
  <2>1. \A q \in Runs : Live(q)' => Live(q)
    BY <1>4, NoneAssumption
       DEF AnswerQuestion, Resolvers, Live, Suspended, TypeOK
  <2> QED
    BY <2>1 DEF OneLive
<1>5. ASSUME NEW r \in Runs, Resume(r)
      PROVE  OneLive'
  <2>1. CallEffect(r)
    BY <1>5, ResumeEffect
  <2>2. Live(r) /\ \A q \in Runs \ {r} : pc'[q] = pc[q]
    BY <2>1 DEF CallEffect, Live
  <2> QED
    BY <2>2 DEF OneLive, Live
<1>6. CASE UNCHANGED vars
  BY <1>6 DEF vars, OneLive, Live
<1> QED
  BY <1>1, <1>2, <1>3, <1>4, <1>5, <1>6 DEF Next, User

LEMMA NoOrphanKept ==
    ASSUME ~OverlappingRuns, TypeOK, Resolvers, OneLive, NoOrphanWaiter,
           [Next]_vars
    PROVE  NoOrphanWaiter'
<1>1. ASSUME NEW r \in Runs, Run(r) \/ RunIgnored(r)
      PROVE  NoOrphanWaiter'
  <2>1. \A q \in Runs : pc'[q] \notin {"approval", "question"}
    BY <1>1 DEF Run, RunIgnored, Goto, Live, Suspended, TypeOK
  <2> QED
    BY <2>1 DEF NoOrphanWaiter
<1>2. ASSUME NEW r \in Runs, Stop(r)
      PROVE  NoOrphanWaiter'
  <2>1. UNCHANGED questionResolve
    BY <1>2 DEF Stop, askVars
  <2>2. \A q \in Runs : /\ pc'[q] # "approval"
                        /\ pc'[q] = "question" => pc[q] = "question"
    BY <1>2, NoneAssumption DEF Stop, NoOrphanWaiter, TypeOK
  <2> QED
    BY <2>1, <2>2 DEF NoOrphanWaiter
<1>3. ASSUME NEW approved \in BOOLEAN, ApprovePlan(approved)
      PROVE  NoOrphanWaiter'
  <2>1. CASE UNCHANGED <<status, planApprovalResolve, questionResolve, pc>>
    BY <2>1 DEF NoOrphanWaiter
  <2>2. CASE /\ planApprovalResolve \in Runs
             /\ UNCHANGED questionResolve
             /\ \E st : LoopEffect(planApprovalResolve, st)
    <3>1. \A q \in Runs : /\ pc'[q] # "approval"
                          /\ pc'[q] = "question" => pc[q] = "question"
      BY <2>2 DEF LoopEffect, NoOrphanWaiter
    <3> QED
      BY <2>2, <3>1 DEF NoOrphanWaiter
  <2> QED
    BY <1>3, <2>1, <2>2, ApprovePlanEffect
<1>4. CASE AnswerQuestion
  <2>1. \A q \in Runs : /\ pc'[q] # "question"
                        /\ pc'[q] = "approval" => pc[q] = "approval"
    BY <1>4 DEF AnswerQuestion, NoOrphanWaiter, TypeOK
  <2> QED
    BY <1>4, <2>1 DEF AnswerQuestion, planVars, NoOrphanWaiter
<1>5. ASSUME NEW r \in Runs, Resume(r)
      PROVE  NoOrphanWaiter'
  <2>1. CallEffect(r)
    BY <1>5, ResumeEffect
  <2>2. \A q \in Runs \ {r} : pc'[q] \notin {"approval", "question"}
    BY <2>1 DEF CallEffect, OneLive, Live, Suspended
  <2> QED
    BY <2>1, <2>2 DEF CallEffect, NoOrphanWaiter
<1>6. CASE UNCHANGED vars
  BY <1>6 DEF vars, planVars, askVars, NoOrphanWaiter
<1> QED
  BY <1>1, <1>2, <1>3, <1>4, <1>5, <1>6 DEF Next, User

\* Calls that do not overlap: every suspended approval or question is the one
\* the service's resolver settles, whatever was stopped or left hung before.
THEOREM NoOrphans ==
    ASSUME ~OverlappingRuns
    PROVE  Spec => []NoOrphanWaiter
<1>1. Init => OneLive /\ NoOrphanWaiter
  BY DEF Init, OneLive, NoOrphanWaiter, Live, Suspended
<1>2. TypeInv /\ OneLive /\ NoOrphanWaiter /\ [Next]_vars
          => OneLive' /\ NoOrphanWaiter'
  BY OneLiveKept, NoOrphanKept DEF TypeInv
<1> QED
  BY <1>1, <1>2, TypeInvHolds, PTL DEF Spec

-----------------------------------------------------------------------------
(* Calls of run() that do not overlap: the runtime implements               *)
(* RequestLifecycle.  The fields of the service are shared by all calls,    *)
(* and a call that was stopped, left hanging or rejected leaves them as     *)
(* they are.  The proofs show what the one live call finds in them: its own *)
(* steps, session and executor, the mode its tools were offered in, its own *)
(* prompt, and after stop() no controller but one it got by an approval.    *)

\* What holds of the calls that await the user, and that one call is live.
Serial == TypeInv /\ OneLive /\ NoOrphanWaiter

LEMMA SerialHolds ==
    ASSUME ~OverlappingRuns
    PROVE  Spec => []Serial
<1>1. Init => OneLive /\ NoOrphanWaiter
  BY DEF Init, OneLive, NoOrphanWaiter, Live, Suspended
<1>2. TypeInv /\ OneLive /\ NoOrphanWaiter /\ [Next]_vars
          => OneLive' /\ NoOrphanWaiter'
  BY OneLiveKept, NoOrphanKept DEF TypeInv
<1> QED
  BY <1>1, <1>2, TypeInvHolds, PTL DEF Spec, Serial

\* When a call resumes no other one is live, before or after.
LEMMA OthersOver ==
    ASSUME Serial, NEW r \in Runs, Resume(r)
    PROVE  /\ pc[r] \in Suspended \ {"approval", "question"}
           /\ \A q \in Runs \ {r} : pc'[q] = pc[q] /\ pc[q] \notin Suspended
BY ResumeEffect DEF Serial, TypeInv, CallEffect, OneLive, Live

\* What Stop, in calls that do not overlap, does to where calls are.
LEMMA StopMoves ==
    ASSUME Serial, NEW r \in Runs, Stop(r)
    PROVE  \A q \in Runs : \/ pc'[q] = pc[q] /\ pc[q] # "approval"
                           \/ /\ pc'[q] = "hung"
                              /\ pc[q] \in {"streaming", "compacting"}
                           \/ /\ pc'[q] = "saving"
                              /\ pc[q] = "approval"
                              /\ planApprovalResolve = q
<1> USE NoneAssumption DEF Serial, TypeInv, TypeOK
<1>1. CASE planApprovalResolve = None
  BY <1>1 DEF Stop, NoOrphanWaiter
<1>2. CASE planApprovalResolve # None
  BY <1>2 DEF Stop, NoOrphanWaiter, Resolvers
<1> QED
  BY <1>1, <1>2

\* What an answer to the plan does, in calls that do not overlap.
LEMMA ApproveCases ==
    ASSUME Serial, NEW approved \in BOOLEAN, ApprovePlan(approved)
    PROVE  \/ /\ planApprovalResolve = None
              /\ \A q \in Runs : pc[q] # "approval"
              /\ UNCHANGED <<status, steps, planVars, toolVars,
                             abortController, pc, loopVars>>
           \/ \E w \in Runs :
                 /\ planApprovalResolve = w
                 /\ pc[w] = "approval"
                 /\ \A q \in Runs \ {w} : pc[q] \notin Suspended
                 /\ SettleApproval
                 /\ \/ PlanApproved(w)
                    \/ PlanRejected(w) /\ UNCHANGED toolExecutor
<1>1. CASE planApprovalResolve = None
  BY <1>1, NoneAssumption DEF ApprovePlan, Serial, NoOrphanWaiter
<1>2. CASE planApprovalResolve # None
  <2>1. PICK w \in Runs :
            /\ planApprovalResolve = w
            /\ \/ PlanApproved(w)
               \/ PlanRejected(w) /\ UNCHANGED toolExecutor
    BY <1>2 DEF ApprovePlan
  <2>2. pc[w] = "approval"
    BY <1>2, <2>1 DEF Serial, TypeInv, Resolvers
  <2>3. \A q \in Runs \ {w} : pc[q] \notin Suspended
    BY <2>2 DEF Serial, OneLive, Live, Suspended
  <2> QED
    BY <2>1, <2>2, <2>3 DEF PlanApproved, PlanRejected
<1> QED
  BY <1>1, <1>2

-----------------------------------------------------------------------------
(* The step list and the executor belong to the live call.                  *)

OwnWork ==
    \A r \in Runs :
        /\ pc[r] = "loading" => steps = {}
        /\ pc[r] \in Suspended \ {"loading"} =>
               steps = {r} /\ toolExecutor # None

OwnSession(r) ==
    \A q \in Runs : \/ session'[q] = session[q]
                    \/ q = r /\ session'[q].steps = {r}

LEMMA FinishLoopOwn ==
    ASSUME TypeOK, NEW r \in Runs, NEW st, FinishLoop(r, st, {r})
    PROVE  steps' = {r} /\ OwnSession(r) /\ pc'[r] = "saving"
BY DEF FinishLoop, Goto, OwnSession, TypeOK

LEMMA ContinueLoopOwn ==
    ASSUME TypeOK, NEW r \in Runs, NEW st, NEW m,
           ContinueLoop(r, st, m, {r})
    PROVE  /\ steps' = {r}
           /\ OwnSession(r)
           /\ pc'[r] \in {"streaming", "refused", "saving"}
<1>1. CASE LoopGoesOn(r, st)
  BY <1>1 DEF ContinueLoop, Goto, OwnSession, TypeOK
<1>2. CASE ~LoopGoesOn(r, st)
  BY <1>2, FinishLoopOwn DEF ContinueLoop
<1> QED
  BY <1>1, <1>2

\* What any stretch of r leaves, unless r has ended.
OwnEffect(r) ==
    /\ OwnSession(r)
    /\ pc'[r] # "loading"
    /\ pc'[r] \in Suspended => steps' = {r} /\ toolExecutor' # None

LEMMA AfterCompactionOwn ==
    ASSUME TypeOK, NEW r \in Runs, NEW awaiting, toolExecutor # None,
           AfterCompaction(r, awaiting, {r}), UNCHANGED toolExecutor
    PROVE  OwnEffect(r)
BY ContinueLoopOwn
   DEF AfterCompaction, AwaitApproval, Goto, loopVars, OwnSession, OwnEffect,
       TypeOK

LEMMA ResumeOwn ==
    ASSUME Serial, OwnWork, NEW r \in Runs, Resume(r)
    PROVE  OwnEffect(r)
<1> USE DEF Serial, TypeInv
<1>1. /\ pc[r] = "loading" => steps = {}
      /\ pc[r] # "loading" => /\ steps = {r} /\ steps \cup {r} = {r}
                              /\ toolExecutor # None
  BY OthersOver DEF OwnWork
<1>2. CASE SessionLoaded(r)
  BY <1>1, <1>2 DEF SessionLoaded, Goto, loopVars, OwnSession, OwnEffect,
     Suspended, TypeOK
<1>3. CASE ContextBuilt(r) \/ BackoffElapsed(r)
  BY <1>1, <1>3, ContinueLoopOwn
     DEF ContextBuilt, BackoffElapsed, toolVars, OwnEffect
<1>4. CASE StreamIgnored(r) \/ EndTurn(r)
  BY <1>1, <1>4, FinishLoopOwn
     DEF StreamIgnored, EndTurn, toolVars, OwnEffect
<1>5. CASE StreamError(r)
  BY <1>1, <1>5 DEF StreamError, Goto, loopVars, toolVars, OwnSession,
     OwnEffect, Suspended, TypeOK
<1>6. ASSUME NEW k \in Tools, ToolUse(r, k)
      PROVE  OwnEffect(r)
  BY <1>1, <1>6 DEF ToolUse, BeginExecute, AskQuestion, Goto, loopVars,
     toolVars, OwnSession, OwnEffect, TypeOK
<1>7. CASE SnapshotTaken(r)
  BY <1>1, <1>7 DEF SnapshotTaken, BeginExecute, AskQuestion, Goto, loopVars,
     toolVars, OwnSession, OwnEffect, TypeOK
<1>8. ASSUME NEW awaiting, pc[r] = "tool", AfterTool(r, awaiting)
      PROVE  OwnEffect(r)
  <2>1. CASE Reject(r)
    BY <2>1 DEF Reject, Goto, loopVars, OwnSession, OwnEffect, Suspended,
       TypeOK
  <2>2. CASE Goto(r, "compacting") /\ steps' = steps \cup {r}
             /\ UNCHANGED <<toolVars, loopVars>>
    BY <1>1, <1>8, <2>2 DEF Goto, toolVars, loopVars, OwnSession, OwnEffect,
       TypeOK
  <2>3. CASE AfterCompaction(r, awaiting, steps \cup {r})
             /\ UNCHANGED toolVars
    BY <1>1, <1>8, <2>3, AfterCompactionOwn DEF toolVars
  <2> QED
    BY <1>8, <2>1, <2>2, <2>3 DEF AfterTool
<1>9. CASE ToolReturned(r) \/ PlanPresented(r)
  BY <1>8, <1>9 DEF ToolReturned, PlanPresented
<1>10. CASE CompactionDone(r)
  BY <1>1, <1>10, AfterCompactionOwn DEF CompactionDone, toolVars
<1>11. CASE CompactionFailed(r) \/ SessionSaved(r)
  BY <1>11 DEF CompactionFailed, SessionSaved, Reject, Goto, loopVars,
     OwnSession, OwnEffect, Suspended, TypeOK
<1> QED
  BY <1>2, <1>3, <1>4, <1>5, <1>6, <1>7, <1>9, <1>10, <1>11 DEF Resume

LEMMA OwnWorkKept ==
    ASSUME ~OverlappingRuns, Serial, OwnWork, SessionIsOwn, [Next]_vars
    PROVE  OwnWork' /\ SessionIsOwn'
<1> USE DEF Serial, TypeInv
<1>1. ASSUME NEW r \in Runs, Run(r) \/ RunIgnored(r)
      PROVE  OwnWork' /\ SessionIsOwn'
  <2>1. /\ \A q \in Runs : pc[q] \notin Suspended
        /\ \A q \in Runs \ {r} : pc'[q] = pc[q]
        /\ UNCHANGED session
        /\ \/ pc'[r] = "loading" /\ steps' = {}
           \/ pc'[r] = "done"
    BY <1>1 DEF Run, RunIgnored, ClearHistory, Goto, Live, loopVars, TypeOK
  <2> QED
    BY <2>1 DEF OwnWork, SessionIsOwn, Suspended
<1>2. ASSUME NEW r \in Runs, Stop(r)
      PROVE  OwnWork' /\ SessionIsOwn'
  <2>1. UNCHANGED toolExecutor
    BY <1>2 DEF Stop
  <2>2. CASE planApprovalResolve = None
    <3>1. UNCHANGED <<steps, session>>
      BY <1>2, <2>2, NoneAssumption DEF Stop, loopVars
    <3> QED
      BY <1>2, <2>1, <2>2, <3>1, StopMoves, NoneAssumption
         DEF OwnWork, SessionIsOwn, Suspended
  <2>3. CASE planApprovalResolve # None
    <3>1. PICK w \in Runs :
              /\ planApprovalResolve = w
              /\ steps' = steps \cup {w}
              /\ session' = [session EXCEPT ![w] =
                     [status |-> "stopped", steps |-> steps \cup {w}]]
      BY <1>2, <2>3 DEF Stop
    <3>2. pc[w] = "approval" /\ \A q \in Runs \ {w} : pc[q] \notin Suspended
      BY <2>3, <3>1 DEF Resolvers, OneLive, Live, Suspended
    <3>3. steps = {w} /\ steps \cup {w} = {w} /\ toolExecutor # None
      BY <3>2 DEF OwnWork, Suspended
    <3>4. SessionIsOwn'
      BY <3>1, <3>3 DEF SessionIsOwn, TypeOK
    <3>5. OwnWork'
      BY <1>2, <2>1, <3>1, <3>2, <3>3, StopMoves DEF OwnWork, Suspended
    <3> QED
      BY <3>4, <3>5
  <2> QED
    BY <2>2, <2>3
<1>3. ASSUME NEW approved \in BOOLEAN, ApprovePlan(approved)
      PROVE  OwnWork' /\ SessionIsOwn'
  <2>1. CASE UNCHANGED <<status, steps, planVars, toolVars, abortController,
                         pc, loopVars>>
    BY <2>1 DEF toolVars, loopVars, OwnWork, SessionIsOwn
  <2>2. ASSUME NEW w \in Runs, pc[w] = "approval",
               \A q \in Runs \ {w} : pc[q] \notin Suspended,
               \/ PlanApproved(w)
               \/ PlanRejected(w) /\ UNCHANGED toolExecutor
        PROVE  OwnWork' /\ SessionIsOwn'
    <3>1. steps = {w} /\ steps \cup {w} = {w} /\ toolExecutor # None
      BY <2>2 DEF OwnWork, Suspended
    <3>2. toolExecutor' # None
      <4>1. <<w, step[w]>> \in Controllers
        BY DEF TypeOK, Controllers
      <4> QED
        BY <2>2, <3>1, <4>1, NullAssumption DEF PlanApproved
    <3>3. /\ steps' = {w} /\ OwnSession(w)
          /\ pc'[w] \in {"streaming", "refused", "saving"}
      BY <2>2, <3>1, ContinueLoopOwn, FinishLoopOwn
         DEF PlanApproved, PlanRejected
    <3>4. \A q \in Runs \ {w} : pc'[q] = pc[q]
      BY <2>2, ContinueLoopEffect, FinishLoopEffect
         DEF PlanApproved, PlanRejected, LoopEffect
    <3> QED
      BY <2>2, <3>2, <3>3, <3>4
         DEF OwnSession, OwnWork, SessionIsOwn, Suspended
  <2> QED
    BY <1>3, <2>1, <2>2, ApproveCases
<1>4. CASE AnswerQuestion
  <2>1. /\ UNCHANGED <<steps, toolExecutor, session>>
        /\ \A q \in Runs : \/ pc'[q] = pc[q]
                           \/ pc[q] = "question" /\ pc'[q] = "tool"
    BY <1>4, NoneAssumption
       DEF AnswerQuestion, toolVars, loopVars, Resolvers, TypeOK
  <2> QED
    BY <2>1 DEF OwnWork, SessionIsOwn, Suspended
<1>5. ASSUME NEW r \in Runs, Resume(r)
      PROVE  OwnWork' /\ SessionIsOwn'
  BY <1>5, OthersOver, ResumeOwn
     DEF OwnEffect, OwnSession, OwnWork, SessionIsOwn, Suspended
<1>6. CASE UNCHANGED vars
  BY <1>6 DEF vars, toolVars, loopVars, OwnWork, SessionIsOwn
<1> QED
  BY <1>1, <1>2, <1>3, <1>4, <1>5, <1>6 DEF Next, User

\* Calls that do not overlap: the session a call saves holds the steps of that
\* call and of no other, although the step list is one field that every call
\* clears and appends to.
THEOREM SessionsOwned ==
    ASSUME ~OverlappingRuns
    PROVE  Spec => []SessionIsOwn
<1>1. Init => OwnWork /\ SessionIsOwn
  BY DEF Init, OwnWork, SessionIsOwn, Suspended
<1>2. Serial /\ OwnWork /\ SessionIsOwn /\ [Next]_vars
          => OwnWork' /\ SessionIsOwn'
  BY OwnWorkKept
<1> QED
  BY <1>1, <1>2, SerialHolds, PTL DEF Spec

\* Calls that do not overlap: `this._toolExecutor!' is never null when the
\* loop asks it for a tool, although stop() and every finally block null it.
THEOREM ExecutorFound ==
    ASSUME ~OverlappingRuns
    PROVE  Spec => []ExecutorPresent
<1>1. Init => OwnWork /\ SessionIsOwn
  BY DEF Init, OwnWork, SessionIsOwn, Suspended
<1>2. Serial /\ OwnWork /\ SessionIsOwn /\ [Next]_vars
          => OwnWork' /\ SessionIsOwn'
  BY OwnWorkKept
<1>3. OwnWork => ExecutorPresent
  BY DEF OwnWork, ExecutorPresent, Suspended
<1> QED
  BY <1>1, <1>2, <1>3, SerialHolds, PTL DEF Spec

-----------------------------------------------------------------------------
(* Plan mode: a call knows the mode its tools were offered in.              *)

\* The last stream was opened in the current mode, and a call that asks the
\* user is running the tool that asks.
ModeFits ==
    \A r \in Runs :
        /\ pc[r] = "streaming" /\ planMode => offered[r]
        /\ pc[r] = "question" => tool[r] = "AskUserQuestion"

ModeEffect(r) ==
    /\ pc'[r] = "streaming" /\ planMode' => offered'[r]
    /\ pc'[r] = "question" => tool'[r] = "AskUserQuestion"
    /\ pc'[r] \in {"snapshot", "tool"} /\ tool'[r] \in {"edit_file", "run_command"}
           => ~planMode'

LEMMA ContinueLoopMode ==
    ASSUME TypeOK, NEW r \in Runs, NEW st, NEW m \in BOOLEAN, NEW S,
           ContinueLoop(r, st, m, S), planMode' = m
    PROVE  ModeEffect(r)
<1>1. CASE LoopGoesOn(r, st)
  <2>1. offered'[r] = m
    BY <1>1 DEF ContinueLoop, TypeOK
  <2>2. pc'[r] \in {"streaming", "refused"}
    BY <1>1 DEF ContinueLoop, Goto, TypeOK
  <2> QED
    BY <2>1, <2>2 DEF ModeEffect
<1>2. CASE ~LoopGoesOn(r, st)
  BY <1>2 DEF ContinueLoop, FinishLoop, Goto, ModeEffect, TypeOK
<1> QED
  BY <1>1, <1>2

LEMMA AfterCompactionMode ==
    ASSUME TypeOK, NEW r \in Runs, NEW awaiting, NEW S,
           AfterCompaction(r, awaiting, S), UNCHANGED planMode
    PROVE  ModeEffect(r)
<1>1. CASE AwaitApproval(r)
  BY <1>1 DEF AwaitApproval, Goto, ModeEffect, TypeOK
<1>2. CASE ContinueLoop(r, status, planMode, S)
  BY <1>2, ContinueLoopMode DEF TypeOK
<1> QED
  BY <1>1, <1>2 DEF AfterCompaction

\* A tool that edits, or runs a command, begins in a mode that offers it.
LEMMA BeginExecuteMode ==
    ASSUME TypeOK, NEW r \in Runs, NEW k, NEW e, BeginExecute(r, k, e),
           k \in {"edit_file", "run_command"} => ~planMode
    PROVE  ModeEffect(r)
<1>1. CASE e \in aborted
  BY <1>1 DEF BeginExecute, Goto, ModeEffect, TypeOK
<1>2. CASE e \notin aborted
  BY <1>2 DEF BeginExecute, AskQuestion, Goto, ModeEffect, TypeOK
<1> QED
  BY <1>1, <1>2

LEMMA ResumeMode ==
    ASSUME TypeOK, ModeFits, NoEditsInPlanMode, NEW r \in Runs, Resume(r)
    PROVE  ModeEffect(r)
<1>1. CASE SessionLoaded(r) \/ StreamError(r)
  BY <1>1 DEF SessionLoaded, StreamError, Goto, ModeEffect, TypeOK
<1>2. CASE ContextBuilt(r) \/ BackoffElapsed(r)
  BY <1>2, ContinueLoopMode DEF ContextBuilt, BackoffElapsed, planVars, TypeOK
<1>3. CASE StreamIgnored(r) \/ EndTurn(r)
  BY <1>3 DEF StreamIgnored, EndTurn, FinishLoop, Goto, ModeEffect, TypeOK
<1>4. ASSUME NEW k \in Tools, ToolUse(r, k)
      PROVE  ModeEffect(r)
  <2>1. k \in {"edit_file", "run_command"} => ~planMode
    BY <1>4 DEF ToolUse, Advertised, PlanTools, ModeFits, TypeOK
  <2>2. CASE toolExecutor = None
    BY <1>4, <2>2 DEF ToolUse, Reject, Goto, ModeEffect, TypeOK
  <2>3. CASE BeginExecute(r, k, toolExecutor)
    BY <2>1, <2>3, BeginExecuteMode
  <2>4. CASE /\ tool' = [tool EXCEPT ![r] = k] /\ Goto(r, "snapshot")
             /\ UNCHANGED planMode
    BY <2>1, <2>4 DEF Goto, ModeEffect, TypeOK
  <2> QED
    BY <1>4, <2>2, <2>3, <2>4 DEF ToolUse
<1>5. CASE SnapshotTaken(r)
  BY <1>5, BeginExecuteMode DEF SnapshotTaken, NoEditsInPlanMode
<1>6. ASSUME NEW awaiting, AfterTool(r, awaiting), UNCHANGED planMode
      PROVE  ModeEffect(r)
  BY <1>6, AfterCompactionMode DEF AfterTool, Reject, Goto, ModeEffect, TypeOK
<1>7. CASE ToolReturned(r) \/ PlanPresented(r)
  BY <1>6, <1>7 DEF ToolReturned, PlanPresented
<1>8. CASE CompactionDone(r)
  BY <1>8, AfterCompactionMode DEF CompactionDone
<1>9. CASE CompactionFailed(r) \/ SessionSaved(r)
  BY <1>9 DEF CompactionFailed, SessionSaved, Reject, Goto, ModeEffect, TypeOK
<1> QED
  BY <1>1, <1>2, <1>3, <1>4, <1>5, <1>7, <1>8, <1>9 DEF Resume

LEMMA ModeKept ==
    ASSUME ~OverlappingRuns, Serial, ModeFits, NoEditsInPlanMode, [Next]_vars
    PROVE  ModeFits' /\ NoEditsInPlanMode'
<1> USE DEF Serial, TypeInv
<1>1. ASSUME NEW r \in Runs, Run(r) \/ RunIgnored(r)
      PROVE  ModeFits' /\ NoEditsInPlanMode'
  <2>1. \A q \in Runs : pc'[q] \notin {"streaming", "question", "snapshot", "tool"}
    BY <1>1 DEF Run, RunIgnored, Goto, Live, Suspended, TypeOK
  <2> QED
    BY <2>1 DEF ModeFits, NoEditsInPlanMode
<1>2. ASSUME NEW r \in Runs, Stop(r)
      PROVE  ModeFits' /\ NoEditsInPlanMode'
  <2>1. UNCHANGED <<tool, offered>> /\ (planMode' => planMode)
    BY <1>2 DEF Stop, SettleApproval, planVars, loopVars, callVars
  <2> QED
    BY <1>2, <2>1, StopMoves DEF ModeFits, NoEditsInPlanMode
<1>3. ASSUME NEW approved \in BOOLEAN, ApprovePlan(approved)
      PROVE  ModeFits' /\ NoEditsInPlanMode'
  <2>1. UNCHANGED tool
    BY <1>3 DEF ApprovePlan, callVars
  <2>2. CASE UNCHANGED <<status, steps, planVars, toolVars, abortController,
                         pc, loopVars>>
    BY <2>1, <2>2 DEF planVars, loopVars, ModeFits, NoEditsInPlanMode
  <2>3. ASSUME NEW w \in Runs, \A q \in Runs \ {w} : pc[q] \notin Suspended,
               PlanApproved(w) \/ PlanRejected(w)
        PROVE  ModeFits' /\ NoEditsInPlanMode'
    <3>1. /\ pc'[w] \in {"streaming", "refused", "saving"}
          /\ \A q \in Runs \ {w} : pc'[q] = pc[q]
      BY <2>3, ContinueLoopEffect, FinishLoopEffect
         DEF PlanApproved, PlanRejected, LoopEffect
    <3>2. planMode' = FALSE
      BY <2>3 DEF PlanApproved, PlanRejected, SettleApproval
    <3> QED
      BY <2>3, <3>1, <3>2 DEF ModeFits, NoEditsInPlanMode, Suspended
  <2> QED
    BY <1>3, <2>2, <2>3, ApproveCases
<1>4. CASE AnswerQuestion
  <2>1. /\ UNCHANGED <<tool, offered, planMode>>
        /\ \A q \in Runs : \/ pc'[q] = pc[q]
                           \/ pc[q] = "question" /\ pc'[q] = "tool"
    BY <1>4, NoneAssumption
       DEF AnswerQuestion, planVars, loopVars, callVars, Resolvers, TypeOK
  <2> QED
    BY <2>1 DEF ModeFits, NoEditsInPlanMode
<1>5. ASSUME NEW r \in Runs, Resume(r)
      PROVE  ModeFits' /\ NoEditsInPlanMode'
  BY <1>5, OthersOver, ResumeMode
     DEF ModeEffect, ModeFits, NoEditsInPlanMode, Suspended
<1>6. CASE UNCHANGED vars
  BY <1>6 DEF vars, planVars, loopVars, callVars, ModeFits, NoEditsInPlanMode
<1> QED
  BY <1>1, <1>2, <1>3, <1>4, <1>5, <1>6 DEF Next, User

\* Calls that do not overlap: no edit and no command runs in plan mode, though
\* the tools were offered before the model answered and the mode may be
\* entered by a tool, left by the user and reset by stop() in between.
THEOREM PlanModeReadsOnly ==
    ASSUME ~OverlappingRuns
    PROVE  Spec => []NoEditsInPlanMode
<1>1. Init => ModeFits /\ NoEditsInPlanMode
  BY DEF Init, ModeFits, NoEditsInPlanMode
<1>2. Serial /\ ModeFits /\ NoEditsInPlanMode /\ [Next]_vars
          => ModeFits' /\ NoEditsInPlanMode'
  BY ModeKept
<1> QED
  BY <1>1, <1>2, SerialHolds, PTL DEF Spec

-----------------------------------------------------------------------------
(* The prompt on screen outlives the call that caused it in two ways only:  *)
(* the plan of a call that is over, and the question of a call that is not. *)

AfterPlan == {"compacting", "approval", "saving", "hung"} \cup Settled

SomeHung == \E q \in Runs : pc[q] = "hung"

PlanStands ==
    prompt # None /\ prompt.kind = "plan" =>
        /\ pc[prompt.run] \in AfterPlan
        /\ pc[prompt.run] = "compacting" => planAwaitingApproval

QuestionStands ==
    prompt # None /\ prompt.kind = "question" =>
        pc[prompt.run] = "question" \/ SomeHung

PromptInv == PlanStands /\ QuestionStands /\ OnlyHangsDismiss

\* What a stretch of r does to the screen.
PromptEffect(r) ==
    \/ /\ UNCHANGED <<prompt, dismissed, planAwaitingApproval>>
       /\ prompt = [kind |-> "plan", run |-> r] => pc'[r] \in AfterPlan \ {"compacting"}
    \/ /\ prompt' = [kind |-> "plan", run |-> r]
       /\ planAwaitingApproval'
       /\ pc'[r] \in AfterPlan
       /\ UNCHANGED dismissed
    \/ /\ prompt' = [kind |-> "question", run |-> r]
       /\ \/ pc'[r] = "question" /\ UNCHANGED dismissed
          \/ SomeHung
       /\ UNCHANGED planAwaitingApproval

LEMMA AskQuestionPrompt ==
    ASSUME Serial, PromptInv, NEW r \in Runs, AskQuestion(r),
           pc[r] \in {"streaming", "snapshot"},
           UNCHANGED planAwaitingApproval
    PROVE  PromptEffect(r)
<1> USE DEF Serial, TypeInv, TypeOK
<1>1. CASE ~Crowded(r)
  BY <1>1 DEF AskQuestion, Goto, PromptEffect
<1>2. CASE Crowded(r)
  <2>1. \A q \in Runs \ {r} : pc[q] \notin Suspended
    BY DEF OneLive, Live, Suspended
  <2>2. SomeHung
    <3>1. CASE \E q \in Runs \ {r} : Listening(q)
      BY <2>1, <3>1 DEF Listening, SomeHung
    <3>2. CASE prompt # None /\ prompt.kind = "question"
      <4>1. prompt.run \in Runs
        BY <3>2 DEF Prompt
      <4>2. pc[prompt.run] # "question"
        BY <2>1, <4>1 DEF Suspended
      <4> QED
        BY <3>2, <4>2 DEF PromptInv, QuestionStands
    <3> QED
      BY <1>2, <3>1, <3>2 DEF Crowded
  <2> QED
    BY <1>2, <2>2 DEF AskQuestion, PromptEffect
<1> QED
  BY <1>1, <1>2

LEMMA ResumePrompt ==
    ASSUME Serial, PromptInv, NEW r \in Runs, Resume(r)
    PROVE  PromptEffect(r)
<1> USE DEF Serial, TypeInv, TypeOK
<1>1. prompt = [kind |-> "plan", run |-> r] =>
          /\ pc[r] \in {"compacting", "saving"}
          /\ pc[r] = "compacting" => planAwaitingApproval
  <2> HAVE prompt = [kind |-> "plan", run |-> r]
  <2>1. prompt # None /\ prompt.kind = "plan" /\ prompt.run = r
    BY NullAssumption DEF Prompt
  <2> QED
    BY <2>1, OthersOver DEF PromptInv, PlanStands, AfterPlan, Suspended, Settled
<1>2. CASE SessionLoaded(r) \/ ContextBuilt(r) \/ StreamError(r)
           \/ BackoffElapsed(r) \/ StreamIgnored(r) \/ EndTurn(r)
  BY <1>1, <1>2 DEF SessionLoaded, ContextBuilt, StreamError, BackoffElapsed,
     StreamIgnored, EndTurn, planVars, askVars, PromptEffect
<1>3. ASSUME NEW k, NEW e, BeginExecute(r, k, e),
             pc[r] \in {"streaming", "snapshot"},
             UNCHANGED planAwaitingApproval
      PROVE  PromptEffect(r)
  BY <1>1, <1>3, AskQuestionPrompt DEF BeginExecute, askVars, PromptEffect
<1>4. ASSUME NEW k \in Tools, ToolUse(r, k)
      PROVE  PromptEffect(r)
  BY <1>1, <1>3, <1>4 DEF ToolUse, askVars, PromptEffect
<1>5. CASE SnapshotTaken(r)
  BY <1>3, <1>5 DEF SnapshotTaken
<1>6. CASE ToolReturned(r)
  BY <1>1, <1>6 DEF ToolReturned, askVars, PromptEffect
<1>7. CASE PlanPresented(r)
  <2>1. \/ pc'[r] \in {"compacting", "rejected"}
        \/ pc'[r] = "approval"
    BY <1>7 DEF PlanPresented, AfterTool, AfterCompaction, AwaitApproval,
       Reject, Goto
  <2> QED
    BY <1>7, <2>1 DEF PlanPresented, PromptEffect, AfterPlan, Settled
<1>8. CASE CompactionDone(r)
  <2>1. prompt = [kind |-> "plan", run |-> r] => pc'[r] = "approval"
    BY <1>1, <1>8 DEF CompactionDone, AfterCompaction, AwaitApproval, Goto
  <2> QED
    BY <1>8, <2>1 DEF CompactionDone, askVars, PromptEffect, AfterPlan
<1>9. CASE CompactionFailed(r) \/ SessionSaved(r)
  BY <1>9 DEF CompactionFailed, SessionSaved, Reject, Goto, planVars, askVars,
     PromptEffect, AfterPlan, Settled
<1> QED
  BY <1>2, <1>4, <1>5, <1>6, <1>7, <1>8, <1>9 DEF Resume

LEMMA PromptKept ==
    ASSUME ~OverlappingRuns, Serial, PromptInv, [Next]_vars
    PROVE  PromptInv'
<1> USE DEF Serial, TypeInv, TypeOK
<1>0. prompt # None => /\ prompt.run \in Runs
                       /\ prompt = [kind |-> prompt.kind, run |-> prompt.run]
                       /\ prompt.kind \in {"plan", "question"}
  BY DEF Prompt
<1>1. ASSUME NEW r \in Runs, Run(r) \/ RunIgnored(r)
      PROVE  PromptInv'
  <2>1. /\ pc[r] = "idle"
        /\ \A q \in Runs : pc[q] \notin Suspended
        /\ \A q \in Runs \ {r} : pc'[q] = pc[q]
        /\ UNCHANGED <<prompt, dismissed, planAwaitingApproval>>
    BY <1>1 DEF Run, RunIgnored, Goto, Live, planVars, askVars
  <2>2. SomeHung => SomeHung'
    BY <2>1 DEF SomeHung
  <2> QED
    BY <1>0, <2>1, <2>2 DEF PromptInv, PlanStands, QuestionStands, SomeHung,
       OnlyHangsDismiss, AfterPlan, Suspended, Settled
<1>2. ASSUME NEW r \in Runs, Stop(r)
      PROVE  PromptInv'
  <2>1. UNCHANGED <<prompt, dismissed>>
    BY <1>2 DEF Stop, askVars
  <2>2. SomeHung => SomeHung'
    BY <1>2, StopMoves DEF SomeHung
  <2>3. QuestionStands' /\ OnlyHangsDismiss'
    BY <1>0, <1>2, <2>1, <2>2, StopMoves
       DEF PromptInv, QuestionStands, OnlyHangsDismiss, SomeHung
  <2>4. ASSUME NEW q \in Runs, pc'[q] = "compacting"
        PROVE  pc[q] = "compacting" /\ UNCHANGED planAwaitingApproval
    <3>1. pc[q] = "compacting"
      BY <1>2, <2>4, StopMoves
    <3>2. planApprovalResolve = None
      BY <3>1 DEF Resolvers, OneLive, Live, Suspended
    <3> QED
      BY <1>2, <3>1, <3>2, NoneAssumption DEF Stop, planVars
  <2>5. PlanStands'
    BY <1>0, <1>2, <2>1, <2>4, StopMoves DEF PromptInv, PlanStands, AfterPlan
  <2> QED
    BY <2>3, <2>5 DEF PromptInv
<1>3. ASSUME NEW approved \in BOOLEAN, ApprovePlan(approved)
      PROVE  PromptInv'
  <2>1. prompt' = None /\ UNCHANGED dismissed
    BY <1>3 DEF ApprovePlan
  <2>2. SomeHung => SomeHung'
    <3>1. CASE UNCHANGED pc
      BY <3>1 DEF SomeHung
    <3>2. ASSUME NEW w \in Runs, pc[w] = "approval",
                 PlanApproved(w) \/ PlanRejected(w)
          PROVE  \A q \in Runs : pc[q] = "hung" => pc'[q] = "hung"
      BY <3>2, ContinueLoopEffect, FinishLoopEffect
         DEF PlanApproved, PlanRejected, LoopEffect
    <3> QED
      BY <1>3, <3>1, <3>2, ApproveCases DEF SomeHung
  <2> QED
    BY <2>1, <2>2 DEF PromptInv, PlanStands, QuestionStands, SomeHung,
       OnlyHangsDismiss
<1>4. CASE AnswerQuestion
  <2>1. prompt' = None /\ UNCHANGED dismissed
    BY <1>4 DEF AnswerQuestion
  <2>2. SomeHung => SomeHung'
    BY <1>4, NoneAssumption DEF AnswerQuestion, Resolvers, SomeHung
  <2> QED
    BY <2>1, <2>2 DEF PromptInv, PlanStands, QuestionStands, SomeHung,
       OnlyHangsDismiss
<1>5. ASSUME NEW r \in Runs, Resume(r)
      PROVE  PromptInv'
  <2>1. /\ pc[r] \in Suspended \ {"approval", "question"}
        /\ \A q \in Runs \ {r} : pc'[q] = pc[q] /\ pc[q] \notin Suspended
    BY <1>5, OthersOver
  <2>2. SomeHung => SomeHung'
    BY <2>1 DEF SomeHung, Suspended
  <2>3. CASE /\ UNCHANGED <<prompt, dismissed, planAwaitingApproval>>
             /\ prompt = [kind |-> "plan", run |-> r] =>
                    pc'[r] \in AfterPlan \ {"compacting"}
    <3>1. PlanStands'
      BY <1>0, <2>1, <2>3 DEF PromptInv, PlanStands, Suspended
    <3>2. QuestionStands' /\ OnlyHangsDismiss'
      BY <1>0, <2>1, <2>2, <2>3
         DEF PromptInv, QuestionStands, OnlyHangsDismiss, SomeHung, Suspended
    <3> QED
      BY <3>1, <3>2 DEF PromptInv
  <2>4. CASE /\ prompt' = [kind |-> "plan", run |-> r]
             /\ planAwaitingApproval'
             /\ pc'[r] \in AfterPlan
             /\ UNCHANGED dismissed
    BY <2>2, <2>4 DEF PromptInv, PlanStands, QuestionStands, OnlyHangsDismiss,
       SomeHung
  <2>5. CASE /\ prompt' = [kind |-> "question", run |-> r]
             /\ \/ pc'[r] = "question" /\ UNCHANGED dismissed
                \/ SomeHung
    BY <2>2, <2>5 DEF PromptInv, PlanStands, QuestionStands, OnlyHangsDismiss,
       SomeHung
  <2> QED
    BY <1>5, <2>3, <2>4, <2>5, ResumePrompt DEF PromptEffect
<1>6. CASE UNCHANGED vars
  BY <1>6 DEF vars, planVars, askVars, PromptInv, PlanStands, QuestionStands,
     OnlyHangsDismiss, SomeHung
<1> QED
  BY <1>1, <1>2, <1>3, <1>4, <1>5, <1>6 DEF Next, User

LEMMA PromptInvHolds ==
    ASSUME ~OverlappingRuns
    PROVE  Spec => []PromptInv
<1>1. Init => PromptInv
  BY DEF Init, PromptInv, PlanStands, QuestionStands, OnlyHangsDismiss
<1>2. Serial /\ PromptInv /\ [Next]_vars => PromptInv'
  BY PromptKept
<1> QED
  BY <1>1, <1>2, SerialHolds, PTL DEF Spec

\* Calls that do not overlap: between presenting a plan and the decision of
\* the user the call asks for no answer and runs no tool, also when the request
\* is cancelled or the call fails in between; while it has the memory
\* summarized, the approval stays pending.
THEOREM PlanWaitsForUser ==
    ASSUME ~OverlappingRuns
    PROVE  Spec => []PlanGatesWork
<1>1. PromptInv => PlanGatesWork
  <2> SUFFICES ASSUME PromptInv, NEW r \in Runs,
                      prompt = [kind |-> "plan", run |-> r]
               PROVE  /\ pc[r] \in AfterPlan
                      /\ pc[r] = "compacting" => planAwaitingApproval
    BY DEF PlanGatesWork, AfterPlan, Settled
  <2>1. prompt # None /\ prompt.kind = "plan" /\ prompt.run = r
    BY NullAssumption DEF Prompt
  <2> QED
    BY <2>1 DEF PromptInv, PlanStands
<1> QED
  BY <1>1, PromptInvHolds, PTL

\* Calls that do not overlap: a question is answered without the user only if
\* an aborted stream left a call, and its listeners, behind for good.
THEOREM DismissedByHangs ==
    ASSUME ~OverlappingRuns
    PROVE  Spec => []OnlyHangsDismiss
<1>1. PromptInv => OnlyHangsDismiss
  BY DEF PromptInv
<1> QED
  BY <1>1, PromptInvHolds, PTL

-----------------------------------------------------------------------------
(* stop() lasts: the status it writes is overwritten only by an approval,   *)
(* which also installs a controller of the call's own.                      *)

Stepped == {"streaming", "refused", "backoff", "snapshot", "tool", "question",
            "compacting", "approval"}

OwnController(r) == toolAbortController \in {r} \X (1 .. MaxSteps)

StopLasts ==
    \A r \in Runs :
        /\ pc[r] \in Stepped => step[r] > 0
        /\ r \in cancelled => pc[r] # "idle"
        /\ r \in cancelled /\ Live(r) /\ status = "running" => OwnController(r)

\* A stretch of r that counts a step began with the status "running".
StopEffect(r) ==
    /\ pc'[r] \in Stepped => step'[r] > 0
    /\ pc'[r] # "idle"
    /\ step' # step => status = "running"
    /\ \A q \in Runs \ {r} : step'[q] = step[q]
    /\ status' = "running" => status = "running"
    /\ pc'[r] \in Suspended /\ status' = "running" /\ pc[r] # "loading" =>
           UNCHANGED toolAbortController
    /\ pc[r] = "loading" => pc'[r] = "rejected" \/ UNCHANGED toolAbortController

LEMMA ContinueLoopStop ==
    ASSUME TypeOK, NEW r \in Runs, NEW st, NEW m, NEW S,
           ContinueLoop(r, st, m, S)
    PROVE  /\ pc'[r] \in Stepped => step'[r] > 0
           /\ step' # step => st = "running"
           /\ \A q \in Runs \ {r} : step'[q] = step[q]
           /\ pc'[r] \in {"streaming", "refused", "saving"}
           /\ status' = "running" => st = "running"
<1>1. CASE LoopGoesOn(r, st)
  BY <1>1 DEF ContinueLoop, LoopGoesOn, CountStep, Goto, TypeOK
<1>2. CASE ~LoopGoesOn(r, st)
  BY <1>2 DEF ContinueLoop, FinishLoop, FinalStatus, Goto, Stepped, TypeOK
<1> QED
  BY <1>1, <1>2

LEMMA ResumeStop ==
    ASSUME TypeOK, StopLasts, NEW r \in Runs, Resume(r)
    PROVE  StopEffect(r)
<1>1. CASE SessionLoaded(r) \/ SessionSaved(r) \/ CompactionFailed(r)
  BY <1>1 DEF SessionLoaded, SessionSaved, CompactionFailed, Reject, Goto,
     loopVars, StopEffect, Stepped, Suspended, TypeOK
<1>2. CASE ContextBuilt(r) \/ BackoffElapsed(r)
  BY <1>2, ContinueLoopStop
     DEF ContextBuilt, BackoffElapsed, toolVars, StopEffect
<1>3. CASE StreamIgnored(r) \/ EndTurn(r)
  BY <1>3 DEF StreamIgnored, EndTurn, FinishLoop, FinalStatus, Goto, toolVars,
     StopEffect, Stepped, TypeOK
<1>4. CASE StreamError(r)
  BY <1>4 DEF StreamError, StopLasts, Goto, loopVars, toolVars, StopEffect,
     Stepped, Suspended, TypeOK
<1>5. ASSUME NEW k \in Tools, ToolUse(r, k)
      PROVE  StopEffect(r)
  BY <1>5 DEF ToolUse, BeginExecute, AskQuestion, StopLasts, Reject, Goto,
     loopVars, toolVars, StopEffect, Stepped, Suspended, TypeOK
<1>6. CASE SnapshotTaken(r)
  BY <1>6 DEF SnapshotTaken, BeginExecute, AskQuestion, StopLasts, Goto,
     loopVars, toolVars, StopEffect, Stepped, TypeOK
<1>7. ASSUME NEW awaiting, NEW S, AfterCompaction(r, awaiting, S),
             UNCHANGED toolVars, pc[r] \in {"tool", "compacting"}
      PROVE  StopEffect(r)
  <2>1. CASE AwaitApproval(r) /\ UNCHANGED loopVars
    BY <1>7, <2>1 DEF AwaitApproval, Goto, StopLasts, loopVars, toolVars,
       StopEffect, Stepped, TypeOK
  <2>2. CASE ContinueLoop(r, status, planMode, S)
    BY <1>7, <2>2, ContinueLoopStop DEF toolVars, StopEffect
  <2> QED
    BY <1>7, <2>1, <2>2 DEF AfterCompaction
<1>8. ASSUME NEW awaiting, AfterTool(r, awaiting), pc[r] = "tool"
      PROVE  StopEffect(r)
  <2>1. CASE Reject(r)
    BY <1>8, <2>1 DEF Reject, Goto, loopVars, StopEffect, Stepped, Suspended,
       TypeOK
  <2>2. CASE Goto(r, "compacting") /\ UNCHANGED <<status, toolVars, loopVars>>
    BY <1>8, <2>2 DEF Goto, StopLasts, loopVars, toolVars, StopEffect, Stepped,
       TypeOK
  <2> QED
    BY <1>7, <1>8, <2>1, <2>2 DEF AfterTool
<1>9. CASE ToolReturned(r) \/ PlanPresented(r)
  BY <1>8, <1>9 DEF ToolReturned, PlanPresented
<1>10. CASE CompactionDone(r)
  BY <1>7, <1>10 DEF CompactionDone
<1> QED
  BY <1>1, <1>2, <1>3, <1>4, <1>5, <1>6, <1>9, <1>10 DEF Resume

\* No further answer for a cancelled call, but after its plan was approved.
NoAnswer ==
    \A r \in Runs : r \in cancelled /\ step'[r] # step[r] =>
        pc[r] = "approval" \/ OwnController(r)

LEMMA StopKept ==
    ASSUME ~OverlappingRuns, Serial, StopLasts, [Next]_vars
    PROVE  StopLasts' /\ NoAnswer
<1> USE DEF Serial, TypeInv
<1>1. ASSUME NEW r \in Runs, Run(r) \/ RunIgnored(r)
      PROVE  StopLasts' /\ NoAnswer
  <2>1. /\ pc[r] = "idle"
        /\ \A q \in Runs : pc[q] \notin Suspended
        /\ \A q \in Runs \ {r} : pc'[q] = pc[q]
        /\ pc'[r] \in {"loading", "done"}
        /\ UNCHANGED <<step, cancelled>>
    BY <1>1 DEF Run, RunIgnored, Goto, Live, loopVars, TypeOK
  <2> QED
    BY <2>1 DEF StopLasts, NoAnswer, Live, Stepped, Suspended
<1>2. ASSUME NEW r \in Runs, Stop(r)
      PROVE  StopLasts' /\ NoAnswer
  <2>1. /\ UNCHANGED step
        /\ status' = "stopped"
        /\ cancelled' = cancelled \cup {r}
        /\ pc[r] # "idle"
    BY <1>2 DEF Stop, Listening, loopVars, Suspended
  <2> QED
    BY <1>2, <2>1, StopMoves DEF StopLasts, NoAnswer, Stepped
<1>3. ASSUME NEW approved \in BOOLEAN, ApprovePlan(approved)
      PROVE  StopLasts' /\ NoAnswer
  <2>1. UNCHANGED cancelled
    BY <1>3 DEF ApprovePlan
  <2>2. CASE UNCHANGED <<status, steps, planVars, toolVars, abortController,
                         pc, loopVars>>
    BY <2>1, <2>2 DEF toolVars, loopVars, StopLasts, NoAnswer, Live,
       OwnController
  <2>3. ASSUME NEW w \in Runs, pc[w] = "approval",
               \A q \in Runs \ {w} : pc[q] \notin Suspended,
               PlanApproved(w) \/ PlanRejected(w)
        PROVE  StopLasts' /\ NoAnswer
    <3>1. \A q \in Runs \ {w} : pc'[q] = pc[q]
      BY <2>3, ContinueLoopEffect, FinishLoopEffect
         DEF PlanApproved, PlanRejected, LoopEffect
    <3>2. /\ pc'[w] \in {"streaming", "refused", "saving"}
          /\ pc'[w] \in Stepped => step'[w] > 0
          /\ \A q \in Runs \ {w} : step'[q] = step[q]
      BY <2>3, ContinueLoopStop
         DEF PlanApproved, PlanRejected, FinishLoop, Goto, Stepped, TypeOK
    <3>3. step[w] \in 1 .. MaxSteps
      BY <2>3 DEF StopLasts, Stepped, TypeOK
    <3>4. status' = "running" => OwnController(w)'
      BY <2>3, <3>3
         DEF PlanApproved, PlanRejected, FinishLoop, FinalStatus, OwnController
    <3> QED
      BY <2>1, <2>3, <3>1, <3>2, <3>4
         DEF StopLasts, NoAnswer, Live, Stepped, Suspended
  <2> QED
    BY <1>3, <2>2, <2>3, ApproveCases
<1>4. CASE AnswerQuestion
  <2>1. /\ UNCHANGED <<status, cancelled, step, toolAbortController>>
        /\ \A q \in Runs : \/ pc'[q] = pc[q]
                           \/ pc[q] = "question" /\ pc'[q] = "tool"
    BY <1>4, NoneAssumption
       DEF AnswerQuestion, toolVars, loopVars, Resolvers, TypeOK
  <2> QED
    BY <2>1 DEF StopLasts, NoAnswer, Live, Stepped, Suspended, OwnController
<1>5. ASSUME NEW r \in Runs, Resume(r)
      PROVE  StopLasts' /\ NoAnswer
  <2>1. /\ pc[r] \in Suspended \ {"approval", "question"}
        /\ \A q \in Runs \ {r} : pc'[q] = pc[q] /\ pc[q] \notin Suspended
    BY <1>5, OthersOver
  <2>2. StopEffect(r)
    BY <1>5, ResumeStop
  <2>3. UNCHANGED cancelled
    BY <1>5 DEF Resume, SessionLoaded, ContextBuilt, StreamError,
       BackoffElapsed, StreamIgnored, EndTurn, ToolUse, SnapshotTaken,
       ToolReturned, PlanPresented, CompactionDone, CompactionFailed,
       SessionSaved
  <2>4. StopLasts'
    BY <2>1, <2>2, <2>3
       DEF StopEffect, StopLasts, Live, Stepped, Suspended, OwnController
  <2>5. NoAnswer
    BY <2>1, <2>2 DEF StopEffect, StopLasts, NoAnswer, Live
  <2> QED
    BY <2>4, <2>5
<1>6. CASE UNCHANGED vars
  BY <1>6 DEF vars, toolVars, loopVars, StopLasts, NoAnswer, Live, OwnController
<1> QED
  BY <1>1, <1>2, <1>3, <1>4, <1>5, <1>6 DEF Next, User

\* Calls that do not overlap: a cancelled request asks for no further answer of
\* the model, through any retry, compaction, tool or question still under way;
\* only the user can let it go on, by approving a plan it had presented.  The
\* streams of the summarizer are not counted.
THEOREM StopIsFinal ==
    ASSUME ~OverlappingRuns
    PROVE  Spec => NoNewAnswerAfterStop
<1>1. Init => StopLasts
  BY DEF Init, StopLasts, Live, Stepped, Suspended
<1>2. Serial /\ StopLasts /\ [Next]_vars => StopLasts'
  BY StopKept
<1>3. Serial /\ StopLasts /\ [Next]_vars =>
          [\A r \in Runs : r \in cancelled /\ step'[r] # step[r] =>
               \/ pc[r] = "approval"
               \/ toolAbortController \in {r} \X (1 .. MaxSteps)]_vars
  BY StopKept DEF NoAnswer, OwnController
<1> QED
  BY <1>1, <1>2, <1>3, SerialHolds, PTL DEF Spec, NoNewAnswerAfterStop

-----------------------------------------------------------------------------
(* Without compaction the flag, the prompt and the approval await come and  *)
(* go together.                                                             *)

PlanShown ==
    /\ planAwaitingApproval => \E r \in Runs : pc[r] = "approval"
    /\ \A r \in Runs :
           pc[r] = "approval" => prompt = [kind |-> "plan", run |-> r]

LEMMA ResumeShown ==
    ASSUME ~Compaction, TypeOK, ~planAwaitingApproval, NEW r \in Runs,
           Resume(r)
    PROVE  \/ pc'[r] = "approval" /\ prompt' = [kind |-> "plan", run |-> r]
           \/ pc'[r] # "approval" /\ ~planAwaitingApproval'
<1>1. ASSUME NEW S, AfterCompaction(r, FALSE, S)
      PROVE  pc'[r] # "approval"
  BY <1>1, ContinueLoopEffect DEF AfterCompaction, LoopEffect
<1>2. CASE ContextBuilt(r) \/ BackoffElapsed(r)
  BY <1>2, ContinueLoopEffect
     DEF ContextBuilt, BackoffElapsed, LoopEffect, planVars
<1>3. CASE StreamIgnored(r) \/ EndTurn(r)
  BY <1>3, FinishLoopEffect DEF StreamIgnored, EndTurn, LoopEffect, planVars
<1>4. CASE SessionLoaded(r) \/ StreamError(r) \/ CompactionFailed(r)
           \/ SessionSaved(r)
  BY <1>4 DEF SessionLoaded, StreamError, CompactionFailed, SessionSaved,
     Reject, Goto, planVars, TypeOK
<1>5. ASSUME NEW k \in Tools, ToolUse(r, k)
      PROVE  pc'[r] # "approval" /\ ~planAwaitingApproval'
  BY <1>5 DEF ToolUse, Reject, BeginExecute, AskQuestion, Goto, TypeOK
<1>6. CASE SnapshotTaken(r)
  BY <1>6 DEF SnapshotTaken, BeginExecute, AskQuestion, Goto, TypeOK
<1>7. CASE ToolReturned(r)
  <2>1. planAwaitingApproval = FALSE
    BY DEF TypeOK
  <2> QED
    BY <1>1, <1>7, <2>1 DEF ToolReturned, AfterTool
<1>8. CASE PlanPresented(r)
  BY <1>8 DEF PlanPresented, AfterTool, AfterCompaction, AwaitApproval, Goto,
     TypeOK
<1>9. CASE CompactionDone(r)
  <2>1. planAwaitingApproval = FALSE
    BY DEF TypeOK
  <2> QED
    BY <1>1, <1>9, <2>1 DEF CompactionDone
<1> QED
  BY <1>2, <1>3, <1>4, <1>5, <1>6, <1>7, <1>8, <1>9 DEF Resume

LEMMA PlanShownKept ==
    ASSUME ~OverlappingRuns, ~Compaction, Serial, PlanShown, [Next]_vars
    PROVE  PlanShown'
<1> USE DEF Serial, TypeInv, TypeOK
<1>1. ASSUME NEW r \in Runs, Run(r) \/ RunIgnored(r)
      PROVE  PlanShown'
  <2>1. /\ \A q \in Runs : pc[q] \notin Suspended
        /\ \A q \in Runs : pc'[q] # "approval"
        /\ UNCHANGED planAwaitingApproval
    BY <1>1 DEF Run, RunIgnored, Goto, Live, planVars, Suspended
  <2> QED
    BY <2>1 DEF PlanShown, Suspended
<1>2. ASSUME NEW r \in Runs, Stop(r)
      PROVE  PlanShown'
  <2>1. \A q \in Runs : pc'[q] # "approval"
    BY <1>2, StopMoves
  <2>2. CASE planApprovalResolve = None
    BY <1>2, <2>1, <2>2, NoneAssumption
       DEF Stop, NoOrphanWaiter, planVars, PlanShown
  <2>3. CASE planApprovalResolve # None
    BY <1>2, <2>1, <2>3 DEF Stop, SettleApproval, PlanShown
  <2> QED
    BY <2>2, <2>3
<1>3. ASSUME NEW approved \in BOOLEAN, ApprovePlan(approved)
      PROVE  PlanShown'
  <2>1. CASE /\ \A q \in Runs : pc[q] # "approval"
             /\ UNCHANGED <<planVars, pc>>
    BY <2>1 DEF planVars, PlanShown
  <2>2. ASSUME NEW w \in Runs, pc[w] = "approval",
               \A q \in Runs \ {w} : pc[q] \notin Suspended,
               PlanApproved(w) \/ PlanRejected(w)
        PROVE  PlanShown'
    <3>1. \A q \in Runs : pc'[q] # "approval"
      BY <2>2, ContinueLoopEffect, FinishLoopEffect
         DEF PlanApproved, PlanRejected, LoopEffect, Suspended
    <3>2. planAwaitingApproval' = FALSE
      BY <2>2 DEF PlanApproved, PlanRejected, SettleApproval
    <3> QED
      BY <3>1, <3>2 DEF PlanShown
  <2> QED
    BY <1>3, <2>1, <2>2, ApproveCases
<1>4. CASE AnswerQuestion
  <2>1. \A q \in Runs : pc[q] # "approval"
    BY <1>4 DEF AnswerQuestion, PlanShown
  <2> QED
    BY <1>4, <2>1 DEF AnswerQuestion, planVars, PlanShown
<1>5. ASSUME NEW r \in Runs, Resume(r)
      PROVE  PlanShown'
  <2>1. /\ pc[r] # "approval"
        /\ \A q \in Runs \ {r} : pc'[q] = pc[q] /\ pc[q] # "approval"
    BY <1>5, OthersOver DEF Suspended
  <2>2. ~planAwaitingApproval
    BY <2>1 DEF PlanShown
  <2> QED
    BY <1>5, <2>1, <2>2, ResumeShown DEF PlanShown
<1>6. CASE UNCHANGED vars
  BY <1>6 DEF vars, planVars, askVars, PlanShown
<1> QED
  BY <1>1, <1>2, <1>3, <1>4, <1>5, <1>6 DEF Next, User

\* Calls that do not overlap, no compaction: whenever the service asks for an
\* approval the question is on screen and its answer reaches the call that
\* asked.
THEOREM ApprovalAsked ==
    ASSUME ~OverlappingRuns, ~Compaction
    PROVE  Spec => []ApprovalIsAsked
<1>1. Init => PlanShown
  BY DEF Init, PlanShown
<1>2. Serial /\ PlanShown /\ [Next]_vars => PlanShown'
  BY PlanShownKept
<1>3. PlanShown /\ ApprovalReachesWaiter => ApprovalIsAsked
  BY DEF PlanShown, ApprovalReachesWaiter, ApprovalIsAsked
<1> QED
  BY <1>1, <1>2, <1>3, SerialHolds, ApprovalDelivered, PTL DEF Spec

-----------------------------------------------------------------------------
(* The service implements RequestLifecycle.  The phase of a request is a    *)
(* function of its own pc, but the status is one field that all calls and   *)
(* stop() write.  That it asks for an approval exactly while a call waits   *)
(* for one (StatusFits) is what NoOrphanWaiter and ApprovalReachesWaiter    *)
(* say together; with it, a step is simulated as soon as its effect on pc   *)
(* and step is known.                                                       *)

SerialInv == Serial /\ ApprovalReachesWaiter

Phase(r) == PhaseOf(pc[r])

StatusFits ==
    status = "waiting_for_approval" <=> \E r \in Runs : pc[r] = "approval"

LEMMA StatusFitsSerial == SerialInv => StatusFits
BY DEF SerialInv, Serial, NoOrphanWaiter, ApprovalReachesWaiter, StatusFits

LEMMA StatusFitsPrimed == SerialInv' => StatusFits'
BY DEF SerialInv, Serial, NoOrphanWaiter, ApprovalReachesWaiter, StatusFits

LEMMA PhaseCases ==
    ASSUME NEW p \in PC
    PROVE  /\ PhaseOf(p) = "new" <=> p = "idle"
           /\ PhaseOf(p) = "asking" <=> p = "question"
           /\ PhaseOf(p) = "approving" <=> p = "approval"
           /\ PhaseOf(p) = "over" <=> p \in {"done", "rejected", "hung"}
           /\ PhaseOf(p) = "working" <=> p \in Suspended \ {"question", "approval"}
           /\ PhaseOf(p) \in {"working", "asking", "approving"} <=> p \in Suspended
BY DEF PhaseOf, PC, Suspended, Settled

\* The effect of the stretches of run() on the steps.
StepEffect(r) ==
    \/ step' = step
    \/ /\ step[r] < MaxSteps
       /\ step' = [step EXCEPT ![r] = @ + 1]
       /\ pc'[r] \in {"streaming", "refused"}

LEMMA ContinueLoopSteps ==
    ASSUME TypeOK, NEW r \in Runs, NEW st, NEW m, NEW S,
           ContinueLoop(r, st, m, S)
    PROVE  StepEffect(r)
BY DEF ContinueLoop, LoopGoesOn, CountStep, Goto, FinishLoop, StepEffect, TypeOK

LEMMA AfterToolSteps ==
    ASSUME TypeOK, NEW r \in Runs, NEW awaiting, NEW S,
           AfterTool(r, awaiting) \/ AfterCompaction(r, awaiting, S)
    PROVE  StepEffect(r)
<1>1. ASSUME NEW T, AfterCompaction(r, awaiting, T)
      PROVE  StepEffect(r)
  BY <1>1, ContinueLoopSteps DEF AfterCompaction, loopVars, StepEffect
<1>2. CASE AfterTool(r, awaiting)
  BY <1>1, <1>2 DEF AfterTool, Reject, loopVars, StepEffect
<1> QED BY <1>1, <1>2

LEMMA ResumeSteps ==
    ASSUME TypeOK, NEW r \in Runs, Resume(r)
    PROVE  StepEffect(r)
<1>1. CASE ContextBuilt(r) \/ BackoffElapsed(r)
  BY <1>1, ContinueLoopSteps DEF ContextBuilt, BackoffElapsed
<1>2. CASE ToolReturned(r) \/ PlanPresented(r) \/ CompactionDone(r)
  BY <1>2, AfterToolSteps DEF ToolReturned, PlanPresented, CompactionDone
<1>3. CASE StreamIgnored(r) \/ EndTurn(r)
  BY <1>3 DEF StreamIgnored, EndTurn, FinishLoop, StepEffect
<1>4. CASE SessionLoaded(r) \/ StreamError(r) \/ SnapshotTaken(r)
           \/ CompactionFailed(r) \/ SessionSaved(r)
  BY <1>4 DEF SessionLoaded, StreamError, SnapshotTaken, CompactionFailed,
       SessionSaved, Reject, loopVars, StepEffect
<1>5. ASSUME NEW k \in Tools, ToolUse(r, k)
      PROVE  StepEffect(r)
  BY <1>5 DEF ToolUse, Reject, loopVars, StepEffect
<1> QED BY <1>1, <1>2, <1>3, <1>4, <1>5 DEF Resume

-----------------------------------------------------------------------------
\* A step that moves one request at most is a step of the lifecycle.
Moves(r) ==
    /\ r \in Runs
    /\ \A q \in Runs \ {r} : pc'[q] = pc[q]
    /\ StepEffect(r)
    /\ pc[r] \in Suspended
    /\ pc'[r] # "idle"
    /\ pc[r] \in {"approval", "question"} => pc'[r] \in Suspended
    /\ pc[r] = "question" =>
           step' = step /\ pc'[r] \notin {"question", "approval"}
    /\ pc[r] = "approval" => pc'[r] \notin {"question", "approval"}

LEMMA MovesSimulated ==
    ASSUME SerialInv, SerialInv', NEW r \in Runs, Moves(r)
    PROVE  Lifecycle!Next \/ UNCHANGED Lifecycle!vars
<1> DEFINE phase == [q \in Runs |-> PhaseOf(pc[q])]
<1>1. pc \in [Runs -> PC] /\ pc' \in [Runs -> PC]
  BY DEF SerialInv, Serial, TypeInv, TypeOK
<1>2. phase' = [phase EXCEPT ![r] = PhaseOf(pc'[r])]
  BY <1>1 DEF Moves
<1>3. \A q \in Runs : q # r => pc[q] # "approval" /\ pc'[q] # "approval"
  BY DEF SerialInv, Serial, OneLive, Live, Moves, Suspended
<1>4. /\ (status = "waiting_for_approval") <=> pc[r] = "approval"
      /\ (status' = "waiting_for_approval") <=> pc'[r] = "approval"
  BY <1>3, StatusFitsSerial, StatusFitsPrimed DEF StatusFits
<1>5. (status' = "waiting_for_approval") = (PhaseOf(pc'[r]) = "approving")
  BY <1>1, <1>4, PhaseCases
<1>6. Lifecycle!To(r, PhaseOf(pc'[r]))
  BY <1>2, <1>5 DEF Lifecycle!To
<1>7. phase[r] = PhaseOf(pc[r])
  OBVIOUS
<1>8. CASE step' # step
  <2>1. /\ step[r] < MaxSteps /\ step' = [step EXCEPT ![r] = @ + 1]
        /\ PhaseOf(pc'[r]) = "working"
    BY <1>1, <1>8, PhaseCases DEF Moves, StepEffect, Suspended
  <2>2. PhaseOf(pc[r]) \in {"working", "approving"}
    BY <1>1, <1>8, PhaseCases DEF Moves, Suspended
  <2>3. Lifecycle!Ask(r)
    BY <1>6, <2>1, <2>2 DEF Lifecycle!Ask
  <2> QED BY <2>3 DEF Lifecycle!Next
<1>9. CASE step' = step
  <2>1. CASE PhaseOf(pc'[r]) = PhaseOf(pc[r])
    <3>1. phase' = phase
      BY <1>2, <2>1
    <3>2. (status' = "waiting_for_approval") = (status = "waiting_for_approval")
      BY <1>1, <1>4, <2>1, PhaseCases
    <3> QED BY <1>9, <3>1, <3>2 DEF Lifecycle!vars
  <2>2. CASE PhaseOf(pc[r]) = "working" /\ PhaseOf(pc'[r]) = "over"
    BY <1>6, <1>9, <2>2 DEF Lifecycle!End, Lifecycle!Next
  <2>3. CASE PhaseOf(pc[r]) = "working"
             /\ PhaseOf(pc'[r]) \in {"asking", "approving"}
    BY <1>6, <1>9, <2>3 DEF Lifecycle!Pause, Lifecycle!Next
  <2>4. CASE PhaseOf(pc[r]) \in {"asking", "approving"}
             /\ PhaseOf(pc'[r]) = "working"
    BY <1>6, <1>9, <2>4 DEF Lifecycle!Continue, Lifecycle!Next
  <2> QED
    BY <1>1, <2>1, <2>2, <2>3, <2>4, PhaseCases DEF Moves, PC, Suspended, Settled
<1> QED BY <1>8, <1>9

\* No request moves, whatever happens to the fields of the service.
LEMMA StillSimulated ==
    ASSUME SerialInv, SerialInv', UNCHANGED <<pc, step>>
    PROVE  UNCHANGED Lifecycle!vars
<1>1. (status' = "waiting_for_approval") = (status = "waiting_for_approval")
  BY StatusFitsSerial, StatusFitsPrimed DEF StatusFits
<1> QED BY <1>1 DEF Lifecycle!vars

LEMMA RunSimulated ==
    ASSUME SerialInv, SerialInv', ~OverlappingRuns, NEW r \in Runs,
           Run(r) \/ RunIgnored(r)
    PROVE  Lifecycle!Next
<1> DEFINE phase == [q \in Runs |-> PhaseOf(pc[q])]
<1>1. pc \in [Runs -> PC]
  BY DEF SerialInv, Serial, TypeInv, TypeOK
<1>2. /\ pc[r] = "idle" /\ \A q \in Runs : pc[q] \notin Suspended
      /\ step' = step
      /\ \E p \in {"loading", "done"} : pc' = [pc EXCEPT ![r] = p]
  BY DEF Run, RunIgnored, Goto, Live, loopVars
<1>3. \A q \in Runs : pc'[q] # "approval"
  BY <1>1, <1>2 DEF Suspended
<1>4. status' # "waiting_for_approval"
  BY <1>3, StatusFitsPrimed DEF StatusFits
<1>5. phase[r] = "new" /\ \A q \in Runs : ~Lifecycle!UnderWay(q)
  BY <1>1, <1>2, PhaseCases DEF Lifecycle!UnderWay
<1>6. \E p \in {"working", "over"} : phase' = [phase EXCEPT ![r] = p]
  <2>1. PICK p \in {"loading", "done"} : pc' = [pc EXCEPT ![r] = p]
    BY <1>2
  <2>2. phase' = [phase EXCEPT ![r] = PhaseOf(p)]
    BY <1>1, <2>1
  <2> QED BY <2>2 DEF PhaseOf, Settled
<1>7. Lifecycle!To(r, "working") \/ Lifecycle!To(r, "over")
  BY <1>4, <1>6 DEF Lifecycle!To
<1> QED BY <1>2, <1>5, <1>7 DEF Lifecycle!Begin, Lifecycle!Next

\* stop() moves the one request under way, or none.
LEMMA StopSimulated ==
    ASSUME SerialInv, SerialInv', NEW r \in Runs, Stop(r)
    PROVE  Lifecycle!Next \/ UNCHANGED Lifecycle!vars
<1> DEFINE hangs(q) == q = abortController /\ pc[q] \in {"streaming", "compacting"}
<1>1. pc \in [Runs -> PC] /\ step' = step
  BY DEF SerialInv, Serial, TypeInv, TypeOK, Stop, loopVars
<1>2. CASE planApprovalResolve = None
  <2>1. pc' = [q \in Runs |-> IF hangs(q) THEN "hung" ELSE pc[q]]
    BY <1>2, NoneAssumption DEF Stop
  <2>2. CASE \E w \in Runs : hangs(w)
    <3>1. PICK w \in Runs : hangs(w)
      BY <2>2
    <3>2. Moves(w)
      BY <1>1, <2>1, <3>1 DEF Moves, StepEffect, Suspended
    <3> QED BY <3>2, MovesSimulated
  <2>3. CASE \A w \in Runs : ~hangs(w)
    <3>1. pc' = pc
      BY <1>1, <2>1, <2>3
    <3> QED BY <1>1, <3>1, StillSimulated
  <2> QED BY <2>2, <2>3
<1>3. CASE planApprovalResolve # None
  <2>1. PICK w \in Runs :
          /\ planApprovalResolve = w
          /\ pc' = [q \in Runs |-> IF q = w THEN "saving"
                                   ELSE IF hangs(q) THEN "hung" ELSE pc[q]]
    BY <1>3 DEF Stop
  <2>2. pc[w] = "approval"
    BY <1>3, <2>1 DEF SerialInv, Serial, TypeInv, Resolvers
  <2>3. \A q \in Runs \ {w} : ~hangs(q)
    BY <2>2 DEF SerialInv, Serial, OneLive, Live, Suspended
  <2>4. Moves(w)
    BY <1>1, <2>1, <2>2, <2>3 DEF Moves, StepEffect, Suspended
  <2> QED BY <2>4, MovesSimulated
<1> QED BY <1>2, <1>3

LEMMA ApprovePlanSimulated ==
    ASSUME SerialInv, SerialInv', NEW approved \in BOOLEAN,
           ApprovePlan(approved)
    PROVE  Lifecycle!Next \/ UNCHANGED Lifecycle!vars
<1>1. TypeOK
  BY DEF SerialInv, Serial, TypeInv
<1>2. CASE planApprovalResolve = None
  BY <1>2, StillSimulated, NoneAssumption DEF ApprovePlan, loopVars
<1>3. CASE planApprovalResolve # None
  <2>1. PICK w \in Runs : planApprovalResolve = w
                          /\ (PlanApproved(w) \/ PlanRejected(w))
    BY <1>3 DEF ApprovePlan
  <2>2. pc[w] = "approval"
    BY <1>3, <2>1 DEF SerialInv, Serial, TypeInv, Resolvers
  <2>3. StepEffect(w)
    BY <1>1, <2>1, ContinueLoopSteps
       DEF PlanApproved, PlanRejected, FinishLoop, StepEffect
  <2>4. LoopEffect(w, "running") \/ LoopEffect(w, "stopped")
    BY <1>1, <2>1, ContinueLoopEffect, FinishLoopEffect
       DEF PlanApproved, PlanRejected
  <2>5. Moves(w)
    BY <2>2, <2>3, <2>4 DEF LoopEffect, Moves, Suspended
  <2> QED BY <2>5, MovesSimulated
<1> QED BY <1>2, <1>3

LEMMA AnswerQuestionSimulated ==
    ASSUME SerialInv, SerialInv', AnswerQuestion
    PROVE  Lifecycle!Next \/ UNCHANGED Lifecycle!vars
<1>1. /\ pc \in [Runs -> PC] /\ step' = step
      /\ pc' = [q \in Runs |-> IF q = questionResolve THEN "tool" ELSE pc[q]]
  BY DEF SerialInv, Serial, TypeInv, TypeOK, AnswerQuestion, loopVars
<1>2. CASE questionResolve = None
  <2>1. pc' = pc
    BY <1>1, <1>2, NoneAssumption
  <2> QED BY <1>1, <2>1, StillSimulated
<1>3. CASE questionResolve # None
  <2>1. questionResolve \in Runs /\ pc[questionResolve] = "question"
    BY <1>3 DEF SerialInv, Serial, TypeInv, TypeOK, Resolvers
  <2>2. Moves(questionResolve)
    BY <1>1, <2>1 DEF Moves, StepEffect, Suspended
  <2> QED BY <2>1, <2>2, MovesSimulated
<1> QED BY <1>2, <1>3

\* A call never goes back to where it has not started.
LEMMA ResumeStarted ==
    ASSUME TypeOK, NEW r \in Runs, Resume(r)
    PROVE  pc'[r] # "idle"
<1>1. ASSUME NEW awaiting, NEW S, AfterCompaction(r, awaiting, S)
      PROVE  pc'[r] # "idle"
  BY <1>1, ContinueLoopEffect
     DEF AfterCompaction, AwaitApproval, Goto, LoopEffect, TypeOK
<1>2. ASSUME NEW awaiting, AfterTool(r, awaiting)
      PROVE  pc'[r] # "idle"
  BY <1>1, <1>2 DEF AfterTool, Reject, Goto, TypeOK
<1>3. CASE ContextBuilt(r) \/ BackoffElapsed(r)
  BY <1>3, ContinueLoopEffect DEF ContextBuilt, BackoffElapsed, LoopEffect
<1>4. CASE StreamIgnored(r) \/ EndTurn(r)
  BY <1>4, FinishLoopEffect DEF StreamIgnored, EndTurn, LoopEffect
<1>5. CASE SessionLoaded(r) \/ StreamError(r) \/ CompactionFailed(r)
           \/ SessionSaved(r)
  BY <1>5 DEF SessionLoaded, StreamError, CompactionFailed, SessionSaved,
       Reject, Goto, TypeOK
<1>6. ASSUME NEW k \in Tools, ToolUse(r, k)
      PROVE  pc'[r] # "idle"
  BY <1>6 DEF ToolUse, Reject, BeginExecute, AskQuestion, Goto, TypeOK
<1>7. CASE SnapshotTaken(r)
  BY <1>7 DEF SnapshotTaken, BeginExecute, AskQuestion, Goto, TypeOK
<1>8. CASE ToolReturned(r) \/ PlanPresented(r) \/ CompactionDone(r)
  BY <1>1, <1>2, <1>8 DEF ToolReturned, PlanPresented, CompactionDone
<1> QED BY <1>3, <1>4, <1>5, <1>6, <1>7, <1>8 DEF Resume

LEMMA ResumeSimulated ==
    ASSUME SerialInv, SerialInv', NEW r \in Runs, Resume(r)
    PROVE  Lifecycle!Next \/ UNCHANGED Lifecycle!vars
<1>1. TypeOK
  BY DEF SerialInv, Serial, TypeInv
<1>2. Moves(r)
  BY <1>1, ResumeEffect, ResumeSteps, ResumeStarted DEF CallEffect, Moves
<1> QED BY <1>2, MovesSimulated

\* Calls of run() that do not overlap implement the lifecycle.
THEOREM LifecycleImplemented ==
    ASSUME ~OverlappingRuns
    PROVE  Spec => ImplementsLifecycle
<1>1. Init => Lifecycle!Init
  <2> SUFFICES ASSUME Init PROVE Lifecycle!Init
    OBVIOUS
  <2>1. pc = [r \in Runs |-> "idle"] /\ step = [r \in Runs |-> 0]
    BY DEF Init
  <2>2. [r \in Runs |-> PhaseOf(pc[r])] = [r \in Runs |-> "new"]
    <3>1. ASSUME NEW r \in Runs
          PROVE  PhaseOf(pc[r]) = "new"
      BY <2>1, PhaseCases DEF PC
    <3> QED BY <3>1
  <2>3. (status = "waiting_for_approval") = FALSE
    BY DEF Init
  <2> QED BY <2>1, <2>2, <2>3 DEF Lifecycle!Init
<1>2. SerialInv /\ SerialInv' /\ [Next]_vars => [Lifecycle!Next]_(Lifecycle!vars)
  <2> SUFFICES ASSUME SerialInv, SerialInv', [Next]_vars
               PROVE  Lifecycle!Next \/ UNCHANGED Lifecycle!vars
    OBVIOUS
  <2>1. CASE UNCHANGED vars
    BY <2>1, StillSimulated DEF vars, loopVars
  <2>2. CASE Next
    BY <2>2, RunSimulated, StopSimulated, ApprovePlanSimulated,
       AnswerQuestionSimulated, ResumeSimulated DEF Next, User
  <2> QED BY <2>1, <2>2
<1>3. Spec => []SerialInv
  BY SerialHolds, ApprovalDelivered, PTL DEF SerialInv
<1>4. Lifecycle!Init /\ [][Lifecycle!Next]_(Lifecycle!vars) => ImplementsLifecycle
  BY PTL DEF ImplementsLifecycle, Lifecycle!Spec
<1> QED
  BY <1>1, <1>2, <1>3, <1>4, PTL DEF Spec

=============================================================================
