------------------------------ MODULE FlowFate ------------------------------
(***************************************************************************)
(* What a sign-in flow promises.  It is offered once and meets one fate:   *)
(* an account is added, or the flow ends without one.  An account is added *)
(* only after the browser came back with the user's consent, and consent   *)
(* is accepted only while the flow is offered, and only once.              *)
(***************************************************************************)
CONSTANT Flows      \* the flows, named by their state tokens

VARIABLES
    fate,       \* fate[f]: "none", "offered", "added" or "ended"
    consented   \* the flows whose consent was accepted

vars == <<fate, consented>>

Init ==
    /\ fate = [f \in Flows |-> "none"]
    /\ consented = {}

Offer(f) ==
    /\ fate[f] = "none"
    /\ fate' = [fate EXCEPT ![f] = "offered"]
    /\ UNCHANGED consented

Consent(f) ==
    /\ fate[f] = "offered" /\ f \notin consented
    /\ consented' = consented \cup {f}
    /\ UNCHANGED fate

Add(f) ==
    /\ fate[f] = "offered" /\ f \in consented
    /\ fate' = [fate EXCEPT ![f] = "added"]
    /\ UNCHANGED consented

End(f) ==
    /\ fate[f] = "offered"
    /\ fate' = [fate EXCEPT ![f] = "ended"]
    /\ UNCHANGED consented

Next == \E f \in Flows : Offer(f) \/ Consent(f) \/ Add(f) \/ End(f)

Spec == Init /\ [][Next]_vars
=============================================================================
