-------------------------- MODULE OAuthFlows_proofs --------------------------
(***************************************************************************)
(* Proofs about OAuthFlows, for any flows and requests: no channel is      *)
(* closed twice, a flow that was stopped adds nothing, and the registry,   *)
(* the broker and the requests implement FlowFate.                         *)
(***************************************************************************)
EXTENDS OAuthFlows, TLAPS

\* The request has a flow.
Live(r) == pc[r] \in {"wait", "exchange", "finish"}

\* Nothing is known of a flow before it starts.
Unstarted ==
    \A f \in Flows : kind[f] = "none" =>
        /\ f \notin registry \cup pending \cup cancelling \cup closed \cup consented \cup added
        /\ buffer[f] = "none" /\ f \notin stopped
        /\ \A r \in Requests : flow[r] = f => pc[r] = "idle"

\* A pending channel is open, and its flow has neither consent nor account.
Pending == \A f \in pending : f \notin closed \cup consented \cup added

\* At most one request has a flow.
OneTaker == \A r, s \in Requests : Live(r) /\ Live(s) /\ flow[r] = flow[s] => r = s

\* A code is on its way only with consent.
Consented ==
    /\ \A f \in Flows : buffer[f] = "code" => f \in consented
    /\ \A r \in Requests : pc[r] \in {"exchange", "finish"} => flow[r] \in consented

\* A flow that has added an account is with nobody, and so is one that was stopped.
AddedIsEnd ==
    /\ \A f \in added : f \notin registry
    /\ \A r \in Requests : Live(r) => flow[r] \notin added

Stopped ==
    \A f \in Flows : f \in stopped =>
        /\ f \notin registry \cup added
        /\ \A r \in Requests : Live(r) => flow[r] # f

IInv ==
    /\ TypeOK /\ NoPanic
    /\ Unstarted /\ Pending /\ OneTaker /\ Consented /\ AddedIsEnd /\ Stopped

-----------------------------------------------------------------------------
LEMMA InitInv == Init => IInv
  BY DEF Init, IInv, TypeOK, NoPanic, Unstarted, Pending, OneTaker, Consented, AddedIsEnd,
         Stopped, Live, Kinds, PCs

LEMMA NextInv == IInv /\ [Next]_vars => IInv'
<1> SUFFICES ASSUME IInv, [Next]_vars PROVE IInv'
  OBVIOUS
<1> USE DEF IInv, TypeOK, NoPanic, Unstarted, Pending, OneTaker, Consented, AddedIsEnd,
            Stopped, Live, PCs
<1>1. ASSUME NEW f \in Flows, NEW k \in Kinds, StartFlow(f, k) PROVE IInv'
  BY <1>1 DEF StartFlow, Kinds
<1>2. ASSUME NEW f \in Flows, NEW payload \in {"code", "denied"}, Callback(f, payload)
      PROVE  IInv'
  BY <1>2 DEF Callback, Deliver, CloseChannel
<1>3. ASSUME NEW r \in Requests, NEW f \in Flows, NEW k \in Kinds, Take(r, f, k) PROVE IInv'
  BY <1>3 DEF Take
<1>4. ASSUME NEW r \in Requests, Receive(r) PROVE IInv'
  BY <1>4 DEF Receive, Unregister, CloseChannel
<1>5. ASSUME NEW r \in Requests, GiveUp(r) PROVE IInv'
  BY <1>5 DEF GiveUp, Unregister, CloseChannel
<1>6. ASSUME NEW r \in Requests, Exchange(r) PROVE IInv'
  BY <1>6 DEF Exchange, Unregister, CloseChannel
<1>7. ASSUME NEW r \in Requests, Finish(r) PROVE IInv'
  <2>1. /\ Live(r) /\ flow[r] \in consented /\ flow[r] \notin registry
        /\ pc' = [pc EXCEPT ![r] = "done"]
        /\ added' \subseteq added \cup {flow[r]}
    BY <1>7 DEF Finish
  <2> QED
    BY <1>7, <2>1 DEF Finish
<1>8. ASSUME NEW f \in Flows, Cancel(f) PROVE IInv'
  BY <1>8 DEF Cancel
<1>9. ASSUME NEW f \in Flows, CancelClose(f) PROVE IInv'
  BY <1>9 DEF CancelClose, Unregister, CloseChannel
<1>10. CASE UNCHANGED vars
  BY <1>10 DEF vars
<1> QED
  BY <1>1, <1>2, <1>3, <1>4, <1>5, <1>6, <1>7, <1>8, <1>9, <1>10 DEF Next, RequestStep

LEMMA Invariance == Spec => []IInv
  BY InitInv, NextInv, PTL DEF Spec

\* The type invariant, with the fact that a request's flow has left the registry.
THEOREM TypeCorrect == Spec => []TypeOK
<1>1. IInv => TypeOK
  BY DEF IInv
<1> QED
  BY <1>1, Invariance, PTL

\* The daemon never closes a closed channel, nor sends to one (broker.go): every
\* one who closes it removes it from the broker in the same critical section.
THEOREM NoPanicHolds == Spec => []NoPanic
<1>1. IInv => NoPanic
  BY DEF IInv
<1> QED
  BY <1>1, Invariance, PTL

\* A flow that Cancel found adds no account, whatever came before or comes after.
THEOREM StoppedAddsNothingHolds == Spec => []StoppedAddsNothing
<1>1. IInv => StoppedAddsNothing
  BY DEF IInv, Stopped, StoppedAddsNothing
<1> QED
  BY <1>1, Invariance, PTL

-----------------------------------------------------------------------------
(* Refinement *)

\* A step that changes nothing of other flows, and takes f along its fate.
LEMMA OneFlow ==
  ASSUME IInv, NEW f \in Flows,
         \A g \in Flows \ {f} : Fate'[g] = Fate[g],
         \/ Fate'[f] = Fate[f] /\ consented' = consented
         \/ Fate[f] = "none" /\ Fate'[f] = "offered" /\ consented' = consented
         \/ /\ Fate[f] = "offered" /\ Fate'[f] = "offered"
            /\ f \notin consented /\ consented' = consented \cup {f}
         \/ Fate[f] = "offered" /\ Fate'[f] = "added" /\ f \in consented /\ consented' = consented
         \/ Fate[f] = "offered" /\ Fate'[f] = "ended" /\ consented' = consented
  PROVE  [Abstract!Next]_(Abstract!vars)
<1> DEFINE F == Fate
<1>1. F = [g \in Flows |-> F[g]] /\ F' = [g \in Flows |-> F'[g]]
  BY DEF Fate
<1>2. F' = [F EXCEPT ![f] = F'[f]]
  BY <1>1
<1> HIDE DEF F
<1> QED
  BY <1>1, <1>2 DEF Abstract!Next, Abstract!vars, Abstract!Offer, Abstract!Consent, Abstract!Add, Abstract!End, F

LEMMA StepRefines == IInv /\ [Next]_vars => [Abstract!Next]_(Abstract!vars)
<1> SUFFICES ASSUME IInv, [Next]_vars PROVE [Abstract!Next]_(Abstract!vars)
  OBVIOUS
<1> USE DEF IInv, TypeOK, PCs, Live, Open, Fate
<1>1. ASSUME NEW f \in Flows, NEW k \in Kinds, StartFlow(f, k)
      PROVE  [Abstract!Next]_(Abstract!vars)
  BY <1>1, OneFlow DEF StartFlow, Kinds, Unstarted
<1>2. ASSUME NEW f \in Flows, NEW payload \in {"code", "denied"}, Callback(f, payload)
      PROVE  [Abstract!Next]_(Abstract!vars)
  BY <1>2, OneFlow DEF Callback, Deliver, CloseChannel, Unstarted, Pending
<1>3. ASSUME NEW r \in Requests, NEW f \in Flows, NEW k \in Kinds, Take(r, f, k)
      PROVE  [Abstract!Next]_(Abstract!vars)
  BY <1>3, OneFlow DEF Take
<1>4. ASSUME NEW r \in Requests, Receive(r) PROVE [Abstract!Next]_(Abstract!vars)
  BY <1>4, OneFlow DEF Receive, Unregister, CloseChannel, Unstarted, AddedIsEnd
<1>5. ASSUME NEW r \in Requests, GiveUp(r) PROVE [Abstract!Next]_(Abstract!vars)
  BY <1>5, OneFlow DEF GiveUp, Unregister, CloseChannel, Unstarted, AddedIsEnd
<1>6. ASSUME NEW r \in Requests, Exchange(r) PROVE [Abstract!Next]_(Abstract!vars)
  BY <1>6, OneFlow DEF Exchange, Unregister, CloseChannel, Unstarted, AddedIsEnd
<1>7. ASSUME NEW r \in Requests, Finish(r) PROVE [Abstract!Next]_(Abstract!vars)
  BY <1>7, OneFlow DEF Finish, Unstarted, AddedIsEnd, Consented
<1>8. ASSUME NEW f \in Flows, Cancel(f) PROVE [Abstract!Next]_(Abstract!vars)
  BY <1>8, OneFlow DEF Cancel
<1>9. ASSUME NEW f \in Flows, CancelClose(f) PROVE [Abstract!Next]_(Abstract!vars)
  BY <1>9, OneFlow DEF CancelClose, Unregister, CloseChannel, Unstarted
<1>10. CASE UNCHANGED vars
  BY <1>10 DEF vars, Abstract!vars
<1> QED
  BY <1>1, <1>2, <1>3, <1>4, <1>5, <1>6, <1>7, <1>8, <1>9, <1>10 DEF Next, RequestStep

\* Whatever the browser, the timers, the clients and cancel do, and in whichever
\* order: a flow has one fate, and adds an account only by the user's consent.
THEOREM RefinesHolds == Spec => Refines
<1>1. Init => Abstract!Init
  BY DEF Init, Abstract!Init, Fate
<1> QED
  BY <1>1, StepRefines, Invariance, PTL DEF Spec, Refines, Abstract!Spec
=============================================================================
