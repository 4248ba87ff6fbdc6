-------------------------- MODULE InlineCompletion --------------------------
(***************************************************************************)
(* AICompletionService on top of AIModelService: inline completions with a *)
(* debounce delay, a context of neighbour files, one stream and a          *)
(* controller that lets the next request cancel the pending one.           *)
(*                                                                         *)
(* A request waits in three places: for the delay, for the context and for *)
(* the stream.  abort() runs the listeners registered so far, at once:     *)
(* during the delay it ends the wait, during the stream it resolves null;  *)
(* while the context is awaited there is nothing left to hear it.          *)
(*                                                                         *)
(* Abstractions: an answer is text or null; the context of neighbours is   *)
(* how long it takes to read; the delay is always positive.                *)
(***************************************************************************)
EXTENDS ModelService

CONSTANT Requests  \* calls of provideInlineCompletion

ASSUME NoneIsNoRequest == None \notin Requests

VARIABLES
    pc,                 \* where each request is, or how it settled
    aborted,            \* requests whose signal is aborted
    pendingController,  \* the request that _pendingController belongs to
    strays              \* requests that stream although they were aborted

requestVars == <<pc, aborted, pendingController, strays>>
vars == <<modelVars, requestVars>>

Waiting == {"delay", "context", "streaming"}
Settled == {"text", "null", "rejected"}
Live == {q \in Requests : pc[q] \in Waiting}

TypeOK ==
    /\ ModelTypeOK
    /\ pc \in [Requests -> {"idle"} \cup Waiting \cup Settled]
    /\ aborted \subseteq Requests
    /\ pendingController \in Requests \cup {None}
    /\ strays \subseteq aborted

Init ==
    /\ ModelInit
    /\ pc = [q \in Requests |-> "idle"]
    /\ aborted = {}
    /\ pendingController = None
    /\ strays = {}

-----------------------------------------------------------------------------
\* What abort() does to the request it belongs to: the listener of the delay
\* or that of the stream runs, and a request that awaits its context has none.
HeardByNoTimer(q) == [pc EXCEPT ![q] = IF pc[q] = "streaming"
                                       THEN "null" ELSE @]
HeardByNoStream(q) == [pc EXCEPT ![q] = IF pc[q] = "delay" THEN "null" ELSE @]
Heard(q) == [pc EXCEPT ![q] = IF pc[q] \in {"delay", "streaming"}
                              THEN "null" ELSE @]

\* cancelCurrentCompletion, up to what the caller then does with the field.
Cancelled ==
    IF pendingController = None THEN pc ELSE Heard(pendingController)
Aborted == aborted \cup ({pendingController} \ {None})

CancelCurrentCompletion ==
    /\ pendingController # None
    /\ pc' = Cancelled
    /\ aborted' = Aborted
    /\ pendingController' = None
    /\ UNCHANGED <<modelVars, strays>>

\* provideInlineCompletion up to its first await.
ProvideBeside(q) ==
    /\ pc[q] = "idle"
    /\ pc' = [pc EXCEPT ![q] = "delay"]
    /\ pendingController' = q
    /\ UNCHANGED <<modelVars, aborted, strays>>
Provide(q) ==
    /\ pc[q] = "idle"
    /\ pc' = [Cancelled EXCEPT ![q] = "delay"]
    /\ aborted' = Aborted
    /\ pendingController' = q
    /\ UNCHANGED <<modelVars, strays>>

\* The feature is switched off: the request answers null and cancels nothing.
ProvideDisabled(q) ==
    /\ pc[q] = "idle"
    /\ pc' = [pc EXCEPT ![q] = "null"]
    /\ UNCHANGED <<modelVars, aborted, pendingController, strays>>

\* The delay is over; abort() has cleared the timer.
DelayElapsed(q) ==
    /\ pc[q] = "delay"
    /\ q \notin aborted
    /\ pc' = [pc EXCEPT ![q] = "context"]
    /\ UNCHANGED <<modelVars, aborted, pendingController, strays>>

\* The context is there: the stream starts, aborted or not, or
\* streamCompletion throws and the promise rejects.
StartStream(q) ==
    /\ pc[q] = "context"
    /\ IF provider = None
       THEN pc' = [pc EXCEPT ![q] = "rejected"] /\ UNCHANGED strays
       ELSE /\ pc' = [pc EXCEPT ![q] = "streaming"]
            /\ strays' = strays \cup ({q} \cap aborted)
    /\ UNCHANGED <<modelVars, aborted, pendingController>>

\* onDone or onError: the field is cleared, whoever it belongs to by now.
StreamEnd(q) ==
    /\ pc[q] = "streaming"
    /\ \E answer \in {"text", "null"} : pc' = [pc EXCEPT ![q] = answer]
    /\ pendingController' = None
    /\ UNCHANGED <<modelVars, aborted, strays>>

-----------------------------------------------------------------------------
Resume(q) == DelayElapsed(q) \/ StartStream(q) \/ StreamEnd(q)

Next ==
    \/ \E q \in Requests : Provide(q) \/ ProvideDisabled(q) \/ Resume(q)
    \/ CancelCurrentCompletion
    \/ (ModelStep \/ ModelUser) /\ UNCHANGED requestVars

Spec == Init /\ [][Next]_vars

\* Timers fire, files are read or fail, and a stream ends, fails or is aborted.
FairSpec == Spec /\ \A q \in Requests : WF_vars(Resume(q))

-----------------------------------------------------------------------------
\* A request that nobody cancelled can be cancelled: it is the one behind
\* _pendingController, unless an aborted request went on to stream and cleared
\* the field of its successor.
NewestCancellable ==
    strays = {} => \A q \in Live \ aborted : pendingController = q

\* A cancelled request never answers with text, unless it is a stray: a reply
\* for an old keystroke is not shown.
NoStaleText ==
    \A q \in aborted \ strays : pc[q] # "text"

\* A request is refused only while the provider is being made anew, or when
\* there is none to make: no interleaving of settings and keys leaves a
\* configured service without a provider.
RefusedOnlyUnready ==
    [][\A q \in Requests :
        pc'[q] = "rejected" /\ pc[q] # "rejected" =>
            \/ Gets # {}
            \/ lastKey # "read"
            \/ Made(settings.apiType, Key(secret, settings), settings) = None]_vars

\* Every request settles, cancelled or not.
RequestsSettle == \A q \in Requests : pc[q] \in Waiting ~> pc[q] \in Settled

=============================================================================
