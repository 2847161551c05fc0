---------------------------- MODULE MCSyncScheduler ----------------------------
(* SyncScheduler on small instances.                                       *)
EXTENDS SyncScheduler, TLC

Symmetry == Permutations(Accounts)

================================================================================
