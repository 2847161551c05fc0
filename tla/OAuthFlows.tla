----------------------------- MODULE OAuthFlows -----------------------------
(***************************************************************************)
(* Sign-in flows of the daemon (internal/oauth/callback.go, broker.go, the *)
(* IPC handlers that start, complete and cancel them, and the HTTP handler *)
(* the browser is sent back to).  A flow is named by its state token.  It  *)
(* is in the registry until a request takes it, and its channel is in the  *)
(* broker until the browser comes back or somebody unregisters it.         *)
(***************************************************************************)
EXTENDS Naturals

CONSTANTS
    Flows,      \* state tokens
    Requests    \* requests to complete a flow

Kinds == {"google", "microsoft"}

VARIABLES
    kind,       \* kind[f]: the provider of a started flow, "none" before
    registry,   \* FlowRegistry.flows
    pending,    \* CallbackBroker.pending
    buffer,     \* buffer[f]: what the flow's channel holds: "none", "code", "denied"
    closed,     \* the flows whose channel is closed
    broken,     \* a channel was closed, or sent to, after it had been closed
    pc,         \* pc[r]: the next step of a request
    flow,       \* flow[r]: the flow it has asked for
    cancelling, \* the flows that Cancel has taken and not yet closed
    stopped,    \* the flows that Cancel answered it had found
    consented,  \* the flows whose browser was told "Authorization received" for a code
    added       \* the flows that have added an account

vars == <<kind, registry, pending, buffer, closed, broken, pc, flow, cancelling,
          stopped, consented, added>>

PCs == {"idle", "wait", "exchange", "finish", "done"}

TypeOK ==
    /\ kind \in [Flows -> Kinds \cup {"none"}]
    /\ registry \subseteq Flows /\ pending \subseteq Flows
    /\ buffer \in [Flows -> {"none", "code", "denied"}]
    /\ closed \subseteq Flows
    /\ broken \in BOOLEAN
    /\ pc \in [Requests -> PCs]
    /\ flow \in [Requests -> Flows]
    /\ \A r \in Requests : pc[r] # "idle" => flow[r] \notin registry
    /\ {cancelling, stopped, consented, added} \subseteq SUBSET Flows

Init ==
    /\ kind = [f \in Flows |-> "none"]
    /\ registry = {} /\ pending = {}
    /\ buffer = [f \in Flows |-> "none"]
    /\ closed = {}
    /\ broken = FALSE
    /\ pc = [r \in Requests |-> "idle"]
    /\ flow \in [Requests -> Flows]
    /\ cancelling = {} /\ stopped = {} /\ consented = {} /\ added = {}

-----------------------------------------------------------------------------
(* The channel *)

CloseChannel(f) ==
    /\ closed' = closed \cup {f}
    /\ broken' = (broken \/ f \in closed)

\* CallbackBroker.Unregister
Unregister(f) ==
    IF f \in pending
    THEN pending' = pending \ {f} /\ CloseChannel(f)
    ELSE UNCHANGED <<pending, closed, broken>>

\* Faulty: the channel stays pending for the browser's next visit.
DeliverAgain(f, payload) ==
    /\ buffer' = [buffer EXCEPT ![f] = payload]
    /\ UNCHANGED pending
    /\ CloseChannel(f)

\* CallbackBroker.Deliver, for a state that is pending
Deliver(f, payload) ==
    /\ buffer' = [buffer EXCEPT ![f] = payload]
    /\ pending' = pending \ {f}
    /\ CloseChannel(f)

-----------------------------------------------------------------------------
(* The handlers *)

\* The channel is registered before the auth URL leaves the daemon.
StartFlow(f, k) ==
    /\ kind[f] = "none"
    /\ kind' = [kind EXCEPT ![f] = k]
    /\ pending' = pending \cup {f}
    /\ registry' = registry \cup {f}
    /\ UNCHANGED <<buffer, closed, broken, pc, flow, cancelling, stopped, consented, added>>

\* The browser comes back.  Without a pending channel it is told that there is no
\* such flow, and nothing changes.
Callback(f, payload) ==
    /\ f \in pending
    /\ Deliver(f, payload)
    /\ consented' = IF payload = "code" THEN consented \cup {f} ELSE consented
    /\ UNCHANGED <<kind, registry, pc, flow, cancelling, stopped, added>>

\* Faulty: the flow stays in the registry while the request has it.
Lookup(r, f, k) ==
    /\ pc[r] = "idle" /\ kind[f] # "none"
    /\ flow' = [flow EXCEPT ![r] = f]
    /\ pc' = [pc EXCEPT ![r] = IF f \in registry /\ kind[f] = k THEN "wait" ELSE "done"]
    /\ UNCHANGED <<kind, registry, pending, buffer, closed, broken, cancelling, stopped,
                   consented, added>>

\* A request takes the flow out of the registry.  One for the other provider
\* answers with an error, and has taken it all the same.
Take(r, f, k) ==
    /\ pc[r] = "idle" /\ kind[f] # "none"
    /\ flow' = [flow EXCEPT ![r] = f]
    /\ registry' = registry \ {f}
    /\ pc' = [pc EXCEPT ![r] = IF f \in registry /\ kind[f] = k THEN "wait" ELSE "done"]
    /\ UNCHANGED <<kind, pending, buffer, closed, broken, cancelling, stopped, consented, added>>

\* Faulty: the answer's error is not looked at.
ReceiveAny(r) ==
    LET f == flow[r] IN
    /\ pc[r] = "wait" /\ f \in closed
    /\ pc' = [pc EXCEPT ![r] = IF buffer[f] = "none" THEN "done" ELSE "exchange"]
    /\ buffer' = [buffer EXCEPT ![f] = "none"]
    /\ Unregister(f)
    /\ UNCHANGED <<kind, registry, flow, cancelling, stopped, consented, added>>

\* Wait returns what the channel holds, or that it is closed.
Receive(r) ==
    LET f == flow[r] IN
    /\ pc[r] = "wait" /\ f \in closed
    /\ pc' = [pc EXCEPT ![r] = IF buffer[f] = "code" THEN "exchange" ELSE "done"]
    /\ buffer' = [buffer EXCEPT ![f] = "none"]
    /\ Unregister(f)
    /\ UNCHANGED <<kind, registry, flow, cancelling, stopped, consented, added>>

\* Faulty: only the client ends the wait, never a timer.
NeverGivesUp(r) == FALSE

\* The timer fires or the client is gone, whether or not the channel holds a
\* payload: a select with two ready cases takes either.
GiveUp(r) ==
    /\ pc[r] = "wait"
    /\ pc' = [pc EXCEPT ![r] = "done"]
    /\ Unregister(flow[r])
    /\ UNCHANGED <<kind, registry, buffer, flow, cancelling, stopped, consented, added>>

\* The code is exchanged for a token, and the flow closed.
Exchange(r) ==
    /\ pc[r] = "exchange"
    /\ pc' \in {[pc EXCEPT ![r] = "finish"], [pc EXCEPT ![r] = "done"]}
    /\ Unregister(flow[r])
    /\ UNCHANGED <<kind, registry, buffer, flow, cancelling, stopped, consented, added>>

\* FinishGoogle or FinishMicrosoft, which may fail.
Finish(r) ==
    /\ pc[r] = "finish"
    /\ pc' = [pc EXCEPT ![r] = "done"]
    /\ added' \in {added, added \cup {flow[r]}}
    /\ UNCHANGED <<kind, registry, pending, buffer, closed, broken, flow, cancelling,
                   stopped, consented>>

\* Faulty: the flow leaves the registry only after it was closed.
CancelKeeps(f) ==
    /\ kind[f] # "none"
    /\ cancelling' = IF f \in registry THEN cancelling \cup {f} ELSE cancelling
    /\ stopped' = IF f \in registry THEN stopped \cup {f} ELSE stopped
    /\ UNCHANGED <<kind, registry, pending, buffer, closed, broken, pc, flow, consented, added>>

\* FlowRegistry.Cancel takes the flow and closes it without the lock.
Cancel(f) ==
    /\ kind[f] # "none"
    /\ registry' = registry \ {f}
    /\ cancelling' = IF f \in registry THEN cancelling \cup {f} ELSE cancelling
    /\ stopped' = IF f \in registry THEN stopped \cup {f} ELSE stopped
    /\ UNCHANGED <<kind, pending, buffer, closed, broken, pc, flow, consented, added>>

CancelClose(f) ==
    /\ f \in cancelling
    /\ cancelling' = cancelling \ {f}
    /\ Unregister(f)
    /\ UNCHANGED <<kind, registry, buffer, pc, flow, stopped, consented, added>>

\* A request runs to its end.
RequestStep(r) == Receive(r) \/ GiveUp(r) \/ Exchange(r) \/ Finish(r)

Next ==
    \/ \E f \in Flows, k \in Kinds : StartFlow(f, k)
    \/ \E f \in Flows, payload \in {"code", "denied"} : Callback(f, payload)
    \/ \E r \in Requests, f \in Flows, k \in Kinds : Take(r, f, k)
    \/ \E r \in Requests : RequestStep(r)
    \/ \E f \in Flows : Cancel(f) \/ CancelClose(f)

Fairness ==
    /\ \A r \in Requests : WF_vars(RequestStep(r))
    /\ \A f \in Flows : WF_vars(CancelClose(f))

Spec == Init /\ [][Next]_vars /\ Fairness

-----------------------------------------------------------------------------
(* Properties *)

\* Close of a closed channel and a send to one both panic, and would take the
\* daemon with them: Deliver, Wait's timeout, Close and Cancel race for the same
\* channel (broker.go), and exactly one of them closes it.
NoPanic == ~broken

\* Once Cancel has answered that it found the flow, no account comes of it,
\* although the browser may have come back before and its answer may be waiting
\* in the channel for a complete that is on its way.
StoppedAddsNothing == \A f \in Flows : f \in stopped => f \notin added

\* Somebody will wait for the flow, or close it, or its answer is still unread.
Open(f) ==
    \/ f \in registry \cup pending \cup cancelling
    \/ buffer[f] # "none"
    \/ \E r \in Requests : flow[r] = f /\ pc[r] \notin {"idle", "done"}

Fate == [f \in Flows |->
    IF kind[f] = "none" THEN "none"
    ELSE IF f \in added THEN "added"
    ELSE IF Open(f) THEN "offered" ELSE "ended"]

Abstract == INSTANCE FlowFate WITH fate <- Fate

\* Registry, broker and requests together implement one flow with one fate: an
\* account is added once at most, only for a consent that was accepted while the
\* flow was open, and never after the flow has ended.
Refines == Abstract!Spec

\* A request that waits for the browser is answered: the browser comes back, the
\* flow is closed under it, or its five minutes pass.
EachEnds == \A r \in Requests : pc[r] = "wait" ~> pc[r] = "done"
=============================================================================
