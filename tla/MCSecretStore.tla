---------------------------- MODULE MCSecretStore ----------------------------
(* Instances of SecretStore for TLC. *)
EXTENDS SecretStore, TLC

CONSTANTS login, main, daemon, cli, c1, c2

\* A goroutine of the daemon and a command beside it.
TwoProcesses == (c1 :> daemon) @@ (c2 :> cli)

\* The daemon and a command beside it.
Shared ==
    { [machine |-> m, procs |-> {daemon, cli}, legacy |-> 0, many |-> 3,
       troubles |-> {"appear", "lock", "stop", "fail", "delete"}] : m \in {"plain", "flatpak"} }

\* The daemon, with troubles of any sort but a default collection that changes.
Troubled ==
    { [machine |-> m, procs |-> {daemon}, legacy |-> 0, many |-> 6,
       troubles |-> TroubleKinds \ {"move", "overtake"}] : m \in {"plain", "bare", "flatpak"} }

\* The daemon, with a secret in the login collection and a default that changes.
Migrated ==
    { [machine |-> "plain", procs |-> {daemon}, legacy |-> 1, many |-> 5,
       troubles |-> {"appear", "move", "stop", "crash", "keep", "delete"}] }

MCWorlds == Shared \cup Troubled \cup Migrated
=============================================================================
