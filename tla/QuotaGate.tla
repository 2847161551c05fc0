------------------------------ MODULE QuotaGate ------------------------------
(***************************************************************************)
(* The pacing of one account's calls to Google's APIs (quota.go): a gate   *)
(* for the Calendar API and one for the Tasks API, shared by all that the  *)
(* process does for the account.  A caller passes the gate, makes its call *)
(* and, told to slow down, closes the gate for everybody and tries again,  *)
(* as long as that does not keep it waiting.  Each sync, IPC request and   *)
(* reply has a Provider of its own, with a budget for such waits.          *)
(***************************************************************************)
EXTENDS Integers

CONSTANTS
    Gates,              \* the account's gates
    Callers,            \* goroutines
    Providers,          \* short-lived: one for each sync cycle or request
    ProviderOf,         \* [Callers -> Providers]
    Pace,               \* the time that one call costs
    MaxInlineDelay,     \* the longest that a call may wait at a gate
    MaxInlineRetryWait, \* how long a provider may wait for cooldowns, in all
    MaxReadRetries,
    RetryDelays,        \* RetryDelays[a]: what readRetryDelay and the jitter may
                        \* give after a former attempts
    Horizon,            \* bound: the clock stops there, but for those who sleep
    MaxCalls            \* bound: calls

ASSUME ConstantsAssumption ==
    /\ ProviderOf \in [Callers -> Providers]
    /\ {Pace, MaxInlineDelay, MaxInlineRetryWait, MaxReadRetries, Horizon, MaxCalls} \subseteq Nat
    /\ RetryDelays \in [0 .. MaxReadRetries -> SUBSET Nat]

VARIABLES
    now,            \* the clock
    next,           \* next[g]: when the gate's next call may start
    blockedUntil,   \* blockedUntil[g]: when its cooldown ends
    retryWait,      \* retryWait[p]: how much of its budget p has used
    pc,             \* pc[c]: what c is doing
    call,           \* call[c]: the gate c wants to pass, and whether it only reads
    attempt,        \* attempt[c]: how often c was told to try again
    started,        \* started[c]: when its present wait began
    wakeAt,         \* wakeAt[c]: when its sleep ends
    sent,           \* sent[c]: how often it has made its call
    lastStart,      \* lastStart[g]: when a call last passed
    told,           \* told[g]: the latest time before which Google asked for no call
    calls           \* how many calls there were

gates == <<next, blockedUntil, lastStart, told>>
callers == <<pc, call, attempt, started, wakeAt, sent>>
vars == <<now, next, blockedUntil, retryWait, pc, call, attempt, started, wakeAt, sent,
          lastStart, told, calls>>

TypeOK ==
    /\ now \in Nat
    /\ next \in [Gates -> Nat] /\ blockedUntil \in [Gates -> Nat]
    /\ retryWait \in [Providers -> 0 .. MaxInlineRetryWait]
    /\ pc \in [Callers -> {"idle", "wait", "sleep", "call"}]
    /\ call \in [Callers -> [gate : Gates \cup {"none"}, read : BOOLEAN]]
    /\ \A c \in Callers : pc[c] # "idle" => call[c].gate \in Gates
    /\ attempt \in [Callers -> 0 .. MaxReadRetries]
    /\ started \in [Callers -> Nat] /\ wakeAt \in [Callers -> Nat]
    /\ sent \in [Callers -> Nat]
    /\ lastStart \in [Gates -> Int] /\ told \in [Gates -> Nat]
    /\ calls \in 0 .. MaxCalls

\* What a caller without a call holds.
NoCall == [gate |-> "none", read |-> TRUE]

Init ==
    /\ now = 0
    /\ next = [g \in Gates |-> 0] /\ blockedUntil = [g \in Gates |-> 0]
    /\ retryWait = [p \in Providers |-> 0]
    /\ pc = [c \in Callers |-> "idle"]
    /\ call = [c \in Callers |-> NoCall]
    /\ attempt = [c \in Callers |-> 0]
    /\ started = [c \in Callers |-> 0] /\ wakeAt = [c \in Callers |-> 0]
    /\ sent = [c \in Callers |-> 0]
    /\ lastStart = [g \in Gates |-> -Pace] /\ told = [g \in Gates |-> 0]
    /\ calls = 0

Later(s, t) == IF s < t THEN t ELSE s

\* c returns to its caller.
Return(c) ==
    /\ pc' = [pc EXCEPT ![c] = "idle"]
    /\ call' = [call EXCEPT ![c] = NoCall]
    /\ attempt' = [attempt EXCEPT ![c] = 0]
    /\ started' = [started EXCEPT ![c] = 0]
    /\ wakeAt' = [wakeAt EXCEPT ![c] = 0]
    /\ sent' = [sent EXCEPT ![c] = 0]

Goto(c, label) == pc' = [pc EXCEPT ![c] = label]

-----------------------------------------------------------------------------
(* wait *)

Gate(c) == call[c].gate

\* A caller has something to ask of Google.
Request(c) ==
    /\ pc[c] = "idle" /\ calls < MaxCalls /\ now <= Horizon
    /\ \E g \in Gates, r \in BOOLEAN : call' = [call EXCEPT ![c] = [gate |-> g, read |-> r]]
    /\ Goto(c, "wait")
    /\ started' = [started EXCEPT ![c] = now]
    /\ calls' = calls + 1
    /\ UNCHANGED <<now, gates, retryWait, attempt, wakeAt, sent>>

\* How long until c may pass, and how much of that is a cooldown.
Delay(c) == Later(next[Gate(c)], blockedUntil[Gate(c)]) - now
Cooldown(c) == Later(0, blockedUntil[Gate(c)] - now)

\* Faulty: each sleep is short enough, however many there were.
InlineEach(c) == Delay(c) <= MaxInlineDelay

\* Would this sleep keep the wait short?
Inline(c) == now - started[c] + Delay(c) <= MaxInlineDelay

\* Faulty: a cooldown is held against the whole budget.
AffordsEach(c) == Cooldown(c) <= MaxInlineRetryWait

\* The provider's budget, of which a cooldown takes its length.
Affords(c) == Cooldown(c) <= MaxInlineRetryWait - retryWait[ProviderOf[c]]

\* The caller gets a deferredRetry instead.
Defer(c) ==
    /\ pc[c] = "wait" /\ Delay(c) > 0
    /\ ~Inline(c) \/ (Cooldown(c) > 0 /\ ~Affords(c))
    /\ Return(c)
    /\ UNCHANGED <<now, gates, retryWait, calls>>

Sleep(c) ==
    /\ pc[c] = "wait" /\ Delay(c) > 0
    /\ Inline(c) /\ (Cooldown(c) > 0 => Affords(c))
    /\ Goto(c, "sleep")
    /\ wakeAt' = [wakeAt EXCEPT ![c] = now + Delay(c)]
    /\ retryWait' = [retryWait EXCEPT ![ProviderOf[c]] = @ + Cooldown(c)]
    /\ UNCHANGED <<now, gates, call, attempt, started, sent, calls>>

\* c makes its call, and the gate closes behind it.
Starts(c) ==
    /\ Goto(c, "call")
    /\ next' = [next EXCEPT ![Gate(c)] = now + Pace]
    /\ sent' = [sent EXCEPT ![c] = @ + 1]
    /\ lastStart' = [lastStart EXCEPT ![Gate(c)] = now]
    /\ UNCHANGED <<now, blockedUntil, told, retryWait, call, attempt, started, wakeAt, calls>>

\* Faulty: who has slept does not look again.
WakeAndGo(c) == pc[c] = "sleep" /\ wakeAt[c] <= now /\ Starts(c)

\* Who has slept looks again: others may have passed, or closed the gate for longer.
WakeUp(c) ==
    /\ pc[c] = "sleep" /\ wakeAt[c] <= now
    /\ Goto(c, "wait")
    /\ wakeAt' = [wakeAt EXCEPT ![c] = 0]
    /\ UNCHANGED <<now, gates, retryWait, call, attempt, started, sent, calls>>

Reserve(c) == pc[c] = "wait" /\ Delay(c) <= 0 /\ Starts(c)

\* The request is cancelled.
Cancel(c) ==
    /\ pc[c] \in {"wait", "sleep"}
    /\ Return(c)
    /\ UNCHANGED <<now, gates, retryWait, calls>>

-----------------------------------------------------------------------------
(* quotaCall *)

\* Faulty: the last response decides.
CooldownLast(g, until) ==
    /\ blockedUntil' = [blockedUntil EXCEPT ![g] = until]
    /\ told' = [told EXCEPT ![g] = Later(@, until)]

\* cooldown: the gate's cooldown is extended, never cut.
Extend(g, until) ==
    /\ blockedUntil' = [blockedUntil EXCEPT ![g] = Later(@, until)]
    /\ told' = [told EXCEPT ![g] = Later(@, until)]

\* Google answers, with success or an error that is not worth another try.
Respond(c) ==
    /\ pc[c] = "call"
    /\ Return(c)
    /\ UNCHANGED <<now, gates, retryWait, calls>>

\* Faulty: what changes something is tried again as well.
RetriesAll(c) == attempt[c] < MaxReadRetries

\* Only a read is tried again.
Retries(c) == call[c].read /\ attempt[c] < MaxReadRetries

\* Google answers that it was too much, or that it has a problem.
Throttled(c) ==
    /\ pc[c] = "call"
    /\ \E d \in RetryDelays[attempt[c]] : Extend(Gate(c), now + d)
    /\ IF Retries(c)
       THEN /\ Goto(c, "wait")
            /\ attempt' = [attempt EXCEPT ![c] = @ + 1]
            /\ started' = [started EXCEPT ![c] = now]
            /\ UNCHANGED <<call, wakeAt, sent>>
       ELSE Return(c)
    /\ UNCHANGED <<now, next, lastStart, retryWait, calls>>

-----------------------------------------------------------------------------

\* The next sync or request builds a Provider of its own.
Build(p) ==
    /\ \A c \in Callers : ProviderOf[c] = p => pc[c] = "idle"
    /\ retryWait[p] # 0
    /\ retryWait' = [retryWait EXCEPT ![p] = 0]
    /\ UNCHANGED <<now, gates, callers, calls>>

\* A timer wakes its caller when it fires; a call takes its time.
Pass ==
    /\ \A c \in Callers : pc[c] # "wait" /\ (pc[c] = "sleep" => now < wakeAt[c])
    /\ now < Horizon \/ \E c \in Callers : pc[c] = "sleep"
    /\ now' = now + 1
    /\ UNCHANGED <<gates, retryWait, callers, calls>>

Next ==
    \/ \E c \in Callers :
         \/ Request(c) \/ Defer(c) \/ Sleep(c) \/ WakeUp(c) \/ Reserve(c) \/ Cancel(c)
         \/ Respond(c) \/ Throttled(c)
    \/ \E p \in Providers : Build(p)
    \/ Pass

Spec == Init /\ [][Next]_vars

-----------------------------------------------------------------------------
(* Properties *)

\* c passes its gate in this step.
Passes(c) == pc[c] # "call" /\ pc'[c] = "call"

\* Two calls through a gate start at least Pace apart, however many callers wake
\* at the same time ("Waiters re-check shared cooldowns", quota.go, wait).
Paced ==
    [][\A c \in Callers : Passes(c) => now >= lastStart[Gate(c)] + Pace]_pc

\* No call starts in a cooldown that Google has asked any caller of the gate for,
\* not after a shorter one, and not from a sleep that began before it.
CooldownKept ==
    [][\A c \in Callers : Passes(c) => now >= told[Gate(c)]]_pc

\* Nobody waits at a gate for longer than MaxInlineDelay, whoever passes it first
\* and whatever cooldowns begin meanwhile: a user's action gets its answer.
WaitsBounded ==
    \A c \in Callers : pc[c] \in {"wait", "sleep"} => now <= started[c] + MaxInlineDelay

\* A call that changes something is made once ("inserts must not create
\* duplicates", quota.go, quotaCall); one that reads, no more often than it may.
SentOnce ==
    \A c \in Callers : sent[c] <= IF call[c].read THEN MaxReadRetries + 1 ELSE 1
=============================================================================
