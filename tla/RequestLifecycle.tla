-------------------------- MODULE RequestLifecycle --------------------------
(***************************************************************************)
(* What the agent runtime promises to the chat surface, which shows one    *)
(* request after the other: a request is at work, waits for its user, or   *)
(* is over for good; it asks the model for a bounded number of answers,    *)
(* none of them while its user has something to decide; and the status     *)
(* asks for an approval exactly while a request waits for one.             *)
(***************************************************************************)
EXTENDS Naturals

CONSTANTS
    Requests,
    Limit      \* answers a request may ask the model for

VARIABLES
    phase,         \* where each request is
    answers,       \* answers it has asked for
    approvalShown  \* the status asks the user to approve a plan

vars == <<phase, answers, approvalShown>>

Phases == {"new", "working", "asking", "approving", "over"}
UnderWay(r) == phase[r] \in {"working", "asking", "approving"}

Init ==
    /\ phase = [r \in Requests |-> "new"]
    /\ answers = [r \in Requests |-> 0]
    /\ approvalShown = FALSE

To(r, p) ==
    /\ phase' = [phase EXCEPT ![r] = p]
    /\ approvalShown' = (p = "approving")

\* A request starts, or is turned away, while no other is under way.
Begin(r) ==
    /\ phase[r] = "new"
    /\ \A q \in Requests : ~UnderWay(q)
    /\ To(r, "working") \/ To(r, "over")
    /\ UNCHANGED answers

\* It asks the model for an answer: at work, or with its plan just approved.
Ask(r) ==
    /\ phase[r] \in {"working", "approving"}
    /\ answers[r] < Limit
    /\ answers' = [answers EXCEPT ![r] = @ + 1]
    /\ To(r, "working")

\* It stops to let the user answer a question or decide on its plan.
Pause(r) ==
    /\ phase[r] = "working"
    /\ To(r, "asking") \/ To(r, "approving")
    /\ UNCHANGED answers

\* The user has answered.
Continue(r) ==
    /\ phase[r] \in {"asking", "approving"}
    /\ To(r, "working")
    /\ UNCHANGED answers

End(r) ==
    /\ phase[r] = "working"
    /\ To(r, "over")
    /\ UNCHANGED answers

Next ==
    \E r \in Requests : Begin(r) \/ Ask(r) \/ Pause(r) \/ Continue(r) \/ End(r)

Spec == Init /\ [][Next]_vars

=============================================================================
