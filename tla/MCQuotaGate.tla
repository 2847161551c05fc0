----------------------------- MODULE MCQuotaGate -----------------------------
(* Instances of QuotaGate for TLC. *)
EXTENDS QuotaGate, TLC

CONSTANTS sync, user, events, tasks, c1, c2

\* A sync beside a user's request.
MCProviderOf == (c1 :> sync) @@ (c2 :> user)

\* The backoff doubles, the jitter adds up to one, and a Retry-After may be longer.
MCRetryDelays == [a \in 0 .. MaxReadRetries |-> {2 * 2 ^ a, 5}]

\* The two gates are alike.
Symmetry == Permutations(Gates)
=============================================================================
