--------------------------- MODULE SecretRegister ---------------------------
(***************************************************************************)
(* What the callers of the secret store rely on: a regular register.  A    *)
(* read gives the value of the last write that ended before it, or of one  *)
(* that was going on beside it.  It may say that it cannot tell (the       *)
(* keyring is locked, or fails).  It may find nothing only while a write   *)
(* is going on, which moves the secret from one store to another, or when  *)
(* it looked into a store that was locked and took it for an open one.     *)
(* Nothing is promised of a secret that was never written, or deleted,     *)
(* until it is written again.                                              *)
(***************************************************************************)
EXTENDS Integers

CONSTANTS
    Clients,    \* who reads and writes
    MaxValue    \* bound: values are 1 .. MaxValue, in the order of their writing

VARIABLES
    value,      \* the secret, 0 when there is none
    replaced,   \* replaced[c]: the value that the write of c is replacing, Done
                \* when c is not writing
    seen,       \* seen[c]: the values that c's read may give
    moved,      \* moved[c]: a write was going on since c began to read
    blind,      \* the readers that a locked store has shown nothing
    answer      \* answer[c]: what c's last read gave

vars == <<value, replaced, seen, moved, blind, answer>>

Done == -1

NoAnswer == [got |-> "none", value |-> 0, seen |-> {}]

Answers ==
    [got : {"none", "value", "missing", "locked", "error"}, value : 0 .. MaxValue,
     seen : SUBSET (0 .. MaxValue)]

\* A read that c has begun may end with this.
MayAnswer(c, got, v) ==
    \/ 0 \in seen[c]
    \/ got = "value" /\ v \in seen[c]
    \/ got = "missing" /\ (moved[c] \/ c \in blind)
    \/ got \in {"locked", "error"}

Init ==
    /\ value \in 0 .. MaxValue
    /\ replaced = [c \in Clients |-> Done]
    /\ seen = [c \in Clients |-> {}]
    /\ moved = [c \in Clients |-> FALSE]
    /\ blind = {}
    /\ answer = [c \in Clients |-> NoAnswer]

BeingReplaced == {replaced[c] : c \in Clients} \ {Done}

BeginRead(c) ==
    /\ seen[c] = {}
    /\ seen' = [seen EXCEPT ![c] = {value} \cup BeingReplaced]
    /\ moved' = [moved EXCEPT ![c] = BeingReplaced # {}]
    /\ answer' = [answer EXCEPT ![c] = NoAnswer]
    /\ UNCHANGED <<value, replaced, blind>>

EndRead(c) ==
    /\ seen[c] # {}
    /\ \E got \in {"value", "missing", "locked", "error"}, v \in 0 .. MaxValue :
         /\ MayAnswer(c, got, v)
         /\ answer' = [answer EXCEPT ![c] = [got |-> got, value |-> v, seen |-> seen[c]]]
    /\ seen' = [seen EXCEPT ![c] = {}]
    /\ moved' = [moved EXCEPT ![c] = FALSE]
    /\ blind' = blind \ {c}
    /\ UNCHANGED <<value, replaced>>

\* A locked store shows c nothing, or c is told that it is locked.
Look(c) ==
    /\ seen[c] # {}
    /\ blind' \in {blind \cup {c}, blind \ {c}}
    /\ UNCHANGED <<value, replaced, seen, moved, answer>>

\* The register takes a value, and 0 when it is deleted.
Take(v) ==
    /\ value' = v
    /\ seen' = [c \in Clients |-> IF seen[c] = {} THEN {} ELSE seen[c] \cup {v}]

Write(c) ==
    /\ \E v \in 1 .. MaxValue : Take(v)
    /\ replaced' \in {replaced, [replaced EXCEPT ![c] = value]}
    /\ moved' = [d \in Clients |-> moved[d] \/ seen[d] # {}]
    /\ UNCHANGED <<blind, answer>>

EndWrite(c) ==
    /\ replaced' = [replaced EXCEPT ![c] = Done]
    /\ UNCHANGED <<value, seen, moved, blind, answer>>

Delete ==
    /\ Take(0)
    /\ UNCHANGED <<replaced, moved, blind, answer>>

\* The processes of some clients end.
Crash(C) ==
    /\ replaced' = [c \in Clients |-> IF c \in C THEN Done ELSE replaced[c]]
    /\ seen' = [c \in Clients |-> IF c \in C THEN {} ELSE seen[c]]
    /\ moved' = [c \in Clients |-> c \notin C /\ moved[c]]
    /\ blind' = blind \ C
    /\ UNCHANGED <<value, answer>>

Next ==
    \/ \E c \in Clients : BeginRead(c) \/ Look(c) \/ EndRead(c) \/ Write(c) \/ EndWrite(c)
    \/ Delete
    \/ \E C \in SUBSET Clients : Crash(C)

Spec == Init /\ [][Next]_vars
=============================================================================
