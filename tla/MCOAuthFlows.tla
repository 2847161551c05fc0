---------------------------- MODULE MCOAuthFlows ----------------------------
(* Instances of OAuthFlows for TLC. *)
EXTENDS OAuthFlows

CONSTANTS f1, f2, r1, r2
=============================================================================
