--------------------------- MODULE MCInvitations ---------------------------
(* Instances of Invitations for TLC. *)
EXTENDS Invitations

CONSTANTS e1, e2, p1, p2
=============================================================================
