----------------------------- MODULE SyncScheduler -----------------------------
(***************************************************************************)
(* When the sync engine syncs which account: its loop, which parks until   *)
(* the soonest account is due, the goroutines that sync accounts on demand *)
(* beside it, and the schedule, the keyring flags and the accounts' auth   *)
(* state that all of them write.  What a sync does to a calendar is the    *)
(* subject of CalendarSync; here it has an outcome.                        *)
(*                                                                         *)
(* Deadlines are kept as the time left until they are reached, so that the *)
(* clock needs no bound.                                                   *)
(***************************************************************************)
EXTENDS Integers, FiniteSets, FiniteSetsExt, Functions

CONSTANTS
  Accounts,     \* account ids
  Loop,         \* the engine's loop
  Manual,       \* goroutines of accounts.refresh, accounts.add, ...
  MaxWake,      \* maxWake (1 hour in the code)
  MinInterval,  \* minInterval, keyringLockedRetry (1 minute)
  Intervals,    \* what the poll interval setting may be
  Hints,        \* what a provider's RetryAfter may be, 0 for none
  MaxUsed       \* bound: how many of Budgets happen in a behaviour

\* What the environment does a bounded number of times: accounts that are added
\* or deleted, manual syncs, credentials that die or are renewed, the keyring
\* locked or unlocked, syncs that fail for another reason, failed database reads
\* or writes, other changes of an account's row.
Budgets == {"accounts", "kicks", "credentials", "keyring", "errors", "database", "touches"}

ASSUME ConstantsAssumption ==
  /\ Loop \notin Manual
  /\ {MaxWake, MinInterval} \cup Intervals \subseteq Nat \ {0}
  /\ Hints \subseteq Nat
  /\ Intervals # {} /\ Hints # {}
  /\ MaxUsed \in Nat

Syncers == Manual \cup {Loop}

VARIABLES
  accounts,  \* the account rows
  flag,      \* flag[a]: the row's needs_reauth
  dead,      \* dead[a]: have a's credentials been revoked?
  keyring,   \* is the keyring locked?
  nextDue,   \* nextDue[a]: time left until a is due, Unscheduled without an entry
  deferred,  \* keyringLocked, the accounts whose last sync met a locked keyring
  pc,        \* where the loop is
  listed,    \* the accounts the loop has read in this pass
  timer,     \* time left until the loop's timer fires
  wake,      \* is there a token in the wake channel?
  queue,     \* queue[s]: the accounts s has still to sync, as s has read them
  sync,      \* sync[s]: the account s is syncing, if any
  popups,    \* popups[a]: notifications that a needs to sign in, since it was clear
  since,     \* since[a]: time since the loop last began to sync a
  used       \* how much of each budget is spent

rowVars   == <<accounts, flag>>
credVars  == <<dead, keyring>>
schedVars == <<nextDue, deferred>>
loopVars  == <<pc, listed, timer>>
syncVars  == <<queue, sync, popups, since>>
vars      == <<rowVars, credVars, schedVars, loopVars, wake, syncVars, used>>

Unscheduled == -1

\* An account as a syncer has read it, and one that it syncs.
Reads == [acc : Accounts, flag : BOOLEAN]
Outcomes == {"ok", "failed", "reauth", "locked"}
Syncs == [acc : Accounts, flag : BOOLEAN, outcome : Outcomes, recorded : BOOLEAN]

Read(S) == { [acc |-> a, flag |-> flag[a]] : a \in S }

Spend(b) == FoldFunction(+, 0, used) < MaxUsed /\ used' = [used EXCEPT ![b] = @ + 1]

\* Faulty: the token is lost unless the loop waits for it.
WakeWaiting == wake' = (wake \/ pc = "select")

\* WatchMutations: every write of an account's row wakes the loop.
Wake == wake' = TRUE

----------------------------------------------------------------------------
Init ==
  /\ accounts \in SUBSET Accounts
  /\ flag = [a \in Accounts |-> FALSE]
  /\ dead = [a \in Accounts |-> FALSE] /\ keyring = FALSE
  /\ nextDue = [a \in Accounts |-> Unscheduled] /\ deferred = {}
  /\ pc = "select" /\ listed = {} /\ timer = 0
  /\ wake = TRUE      \* SetIntervalFunc
  /\ queue = [s \in Syncers |-> {}]
  /\ sync = [s \in Syncers |-> {}]
  /\ popups = [a \in Accounts |-> 0]
  /\ since = [a \in Accounts |-> MinInterval]
  /\ used = [b \in Budgets |-> 0]

----------------------------------------------------------------------------
\* The loop

\* case <-e.wake
TakeWake ==
  /\ pc = "select" /\ wake
  /\ wake' = FALSE
  /\ pc' = "list"
  /\ UNCHANGED <<rowVars, credVars, schedVars, listed, timer, syncVars, used>>

\* case <-timer.C
TimerFires ==
  /\ pc = "select" /\ timer = 0
  /\ pc' = "list"
  /\ UNCHANGED <<rowVars, credVars, schedVars, listed, timer, wake, syncVars, used>>

\* Faulty: an account without an entry is not due.
DueIfScheduled(a) == nextDue[a] = 0

\* due
Due(a) == nextDue[a] <= 0

\* runDue reads the accounts and the time.  Whether an account is due is asked
\* when its turn comes, with the time read here: it is if it is due now and
\* nobody reschedules it before (see Schedule).
ListAccounts ==
  /\ pc = "list"
  /\ pc' = "pass"
  /\ listed' = accounts
  /\ queue' = [queue EXCEPT ![Loop] = Read({ a \in accounts : Due(a) })]
  /\ UNCHANGED <<rowVars, credVars, schedVars, timer, wake, sync, popups, since, used>>

ListFails ==
  /\ pc = "list"
  /\ Spend("database")
  /\ pc' = "reset"
  /\ UNCHANGED <<rowVars, credVars, schedVars, listed, timer, wake, syncVars>>

\* pruneSchedule, with the accounts as the pass has read them
PruneSchedule ==
  /\ pc = "pass" /\ queue[Loop] = {} /\ sync[Loop] = {}
  /\ nextDue' = [a \in Accounts |-> IF a \in listed THEN nextDue[a] ELSE Unscheduled]
  /\ deferred' = deferred \ { a \in Accounts \ listed : nextDue[a] # Unscheduled }
  /\ pc' = "reset"
  /\ listed' = {}
  /\ UNCHANGED <<rowVars, credVars, timer, wake, syncVars, used>>

Scheduled == { a \in Accounts : nextDue[a] # Unscheduled }

\* Faulty: the cap is for an empty schedule only.
UntilNextUncapped ==
  IF Scheduled = {} THEN MaxWake ELSE Min({ nextDue[a] : a \in Scheduled })

\* untilNext
UntilNext == Min({MaxWake} \cup { nextDue[a] : a \in Scheduled })

ResetTimer ==
  /\ pc = "reset"
  /\ timer' = UntilNext
  /\ pc' = "select"
  /\ UNCHANGED <<rowVars, credVars, schedVars, listed, wake, syncVars, used>>

----------------------------------------------------------------------------
\* SyncAccount, by the loop or by a goroutine

\* registry.Build reads the credentials; the provider's answer follows from them,
\* unless the sync fails for a reason of its own.
Outcome(a) == IF keyring THEN "locked" ELSE IF dead[a] THEN "reauth" ELSE "ok"

StartSync(s, q, o) ==
  /\ s = Loop => pc = "pass"
  /\ q \in queue[s] /\ sync[s] = {}
  /\ \/ o = Outcome(q.acc) /\ UNCHANGED used
     \/ o = "failed" /\ Spend("errors")
  /\ queue' = [queue EXCEPT ![s] = @ \ {q}]
  /\ sync' = [sync EXCEPT ![s] = {[acc |-> q.acc, flag |-> q.flag, outcome |-> o, recorded |-> FALSE]}]
  /\ since' = IF s = Loop THEN [since EXCEPT ![q.acc] = 0] ELSE since
  /\ UNCHANGED <<rowVars, credVars, schedVars, loopVars, wake, popups>>

RecordedBy(s, j) == sync' = [sync EXCEPT ![s] = {[j EXCEPT !.recorded = TRUE]}]

\* Faulty: the flag is set, and left for the sign-in to clear.
RecordOnlyDead(s) ==
  \E j \in sync[s] :
    /\ ~j.recorded
    /\ IF j.outcome = "reauth" /\ ~j.flag /\ j.acc \in accounts
       THEN /\ flag' = [flag EXCEPT ![j.acc] = TRUE]
            /\ popups' = [popups EXCEPT ![j.acc] = @ + 1]
            /\ Wake
       ELSE UNCHANGED <<flag, popups, wake>>
    /\ RecordedBy(s, j)
    /\ UNCHANGED <<accounts, credVars, schedVars, loopVars, queue, since, used>>

\* Faulty: every failure is written and told, whatever the account's state.
RecordAlways(s) ==
  \E j \in sync[s] :
    LET needs == j.outcome = "reauth" IN
    /\ ~j.recorded
    /\ IF j.acc \in accounts
       THEN /\ flag' = [flag EXCEPT ![j.acc] = needs]
            /\ popups' = [popups EXCEPT ![j.acc] = IF needs THEN @ + 1 ELSE 0]
            /\ Wake
       ELSE UNCHANGED <<flag, popups, wake>>
    /\ RecordedBy(s, j)
    /\ UNCHANGED <<accounts, credVars, schedVars, loopVars, queue, since, used>>

\* recordAuthState compares with the account as the syncer has read it; the row
\* may be gone.  A write of the row wakes the loop.
RecordAuthState(s) ==
  \E j \in sync[s] :
    LET needs == j.outcome = "reauth" IN
    /\ ~j.recorded
    /\ IF needs # j.flag /\ j.acc \in accounts
       THEN /\ flag' = [flag EXCEPT ![j.acc] = needs]
            /\ popups' = [popups EXCEPT ![j.acc] = IF needs THEN @ + 1 ELSE 0]
            /\ Wake
       ELSE UNCHANGED <<flag, popups, wake>>
    /\ RecordedBy(s, j)
    /\ UNCHANGED <<accounts, credVars, schedVars, loopVars, queue, since, used>>

RecordAuthStateFails(s) ==
  \E j \in sync[s] :
    /\ ~j.recorded
    /\ Spend("database")
    /\ RecordedBy(s, j)
    /\ UNCHANGED <<rowVars, credVars, schedVars, loopVars, wake, queue, popups, since>>

\* Faulty: the provider's hint is taken as it is.
AfterAsTold(o, hint, interval) ==
  IF o = "locked" THEN MinInterval
  ELSE IF hint > 0 THEN hint ELSE Max({interval, MinInterval})

\* How long until the account is due again
After(o, hint, interval) ==
  IF o = "locked" THEN MinInterval
  ELSE Max({MinInterval, IF hint > 0 THEN hint ELSE interval})

\* recordKeyringLocked and schedule.  An account that the loop has still to sync
\* in this pass is then due later than the pass began.
Schedule(s) ==
  \E j \in sync[s], hint \in Hints, interval \in Intervals :
    /\ j.recorded
    /\ deferred' = IF j.outcome = "locked" THEN deferred \cup {j.acc} ELSE deferred \ {j.acc}
    /\ nextDue' = [nextDue EXCEPT ![j.acc] = After(j.outcome, hint, interval)]
    /\ sync' = [sync EXCEPT ![s] = {}]
    /\ queue' = [queue EXCEPT ![Loop] = { q \in @ : q.acc # j.acc }]
    /\ UNCHANGED <<rowVars, credVars, loopVars, wake, popups, since, used>>

----------------------------------------------------------------------------
\* Users, providers and the clock

AddAccount(a) ==
  /\ a \notin accounts
  /\ Spend("accounts")
  /\ accounts' = accounts \cup {a}
  /\ flag' = [flag EXCEPT ![a] = FALSE]
  /\ dead' = [dead EXCEPT ![a] = FALSE]
  /\ popups' = [popups EXCEPT ![a] = 0]
  /\ since' = [since EXCEPT ![a] = MinInterval]
  /\ Wake
  /\ UNCHANGED <<keyring, schedVars, loopVars, queue, sync>>

DeleteAccount(a) ==
  /\ a \in accounts
  /\ Spend("accounts")
  /\ accounts' = accounts \ {a}
  /\ Wake
  /\ UNCHANGED <<flag, credVars, schedVars, loopVars, syncVars>>

\* A notice is stored, a name edited.
TouchAccount ==
  /\ accounts # {}
  /\ Spend("touches")
  /\ Wake
  /\ UNCHANGED <<rowVars, credVars, schedVars, loopVars, syncVars>>

\* SyncAccount or SyncAll in a goroutine of its own
Kick(m, S) ==
  /\ queue[m] = {} /\ sync[m] = {}
  /\ S # {} /\ S \subseteq accounts
  /\ Spend("kicks")
  /\ queue' = [queue EXCEPT ![m] = Read(S)]
  /\ UNCHANGED <<rowVars, credVars, schedVars, loopVars, wake, sync, popups, since>>

Revoke(a) ==
  /\ a \in accounts /\ ~dead[a]
  /\ Spend("credentials")
  /\ dead' = [dead EXCEPT ![a] = TRUE]
  /\ UNCHANGED <<rowVars, keyring, schedVars, loopVars, wake, syncVars>>

\* FinishGoogle, FinishMicrosoft: the user signs in again
SignIn(a) ==
  /\ a \in accounts /\ dead[a]
  /\ Spend("credentials")
  /\ dead' = [dead EXCEPT ![a] = FALSE]
  /\ flag' = [flag EXCEPT ![a] = FALSE]
  /\ popups' = [popups EXCEPT ![a] = 0]
  /\ Wake
  /\ UNCHANGED <<accounts, keyring, schedVars, loopVars, queue, sync, since>>

LockKeyring ==
  /\ Spend("keyring")
  /\ keyring' = ~keyring
  /\ UNCHANGED <<rowVars, dead, schedVars, loopVars, wake, syncVars>>

Less(n) == Max({n - 1, 0})

\* Time passes while the loop is parked and while syncs run.
Pass ==
  /\ pc = "select" => ~wake /\ timer > 0
  /\ pc \in {"select", "pass"}
  /\ timer' = Less(timer)
  /\ nextDue' = [a \in Accounts |-> IF nextDue[a] = Unscheduled THEN Unscheduled ELSE Less(nextDue[a])]
  /\ since' = [a \in Accounts |-> Min({since[a] + 1, MinInterval})]
  /\ UNCHANGED <<rowVars, credVars, deferred, pc, listed, wake, queue, sync, popups, used>>

SyncStep(s) ==
  \/ \E q \in queue[s], o \in Outcomes : StartSync(s, q, o)
  \/ RecordAuthState(s)
  \/ Schedule(s)

LoopStep == TakeWake \/ TimerFires \/ ListAccounts \/ PruneSchedule \/ ResetTimer \/ SyncStep(Loop)

Next ==
  \/ LoopStep \/ ListFails \/ Pass
  \/ \E m \in Manual : SyncStep(m) \/ \E S \in SUBSET Accounts : Kick(m, S)
  \/ \E s \in Syncers : RecordAuthStateFails(s)
  \/ \E a \in Accounts : AddAccount(a) \/ DeleteAccount(a) \/ Revoke(a) \/ SignIn(a)
  \/ TouchAccount \/ LockKeyring

Spec == Init /\ [][Next]_vars

\* The goroutines are scheduled, every call they make returns, time passes.
Fairness ==
  /\ WF_vars(LoopStep) /\ WF_vars(Pass)
  /\ \A m \in Manual : WF_vars(SyncStep(m))

FairSpec == Spec /\ Fairness

----------------------------------------------------------------------------
\* Properties

\* Type invariant
TypeOK ==
  /\ accounts \subseteq Accounts /\ flag \in [Accounts -> BOOLEAN]
  /\ dead \in [Accounts -> BOOLEAN] /\ keyring \in BOOLEAN
  /\ nextDue \in [Accounts -> Nat \cup {Unscheduled}] /\ deferred \subseteq Accounts
  /\ pc \in {"select", "list", "pass", "reset"}
  /\ listed \subseteq Accounts
  /\ timer \in 0..MaxWake /\ wake \in BOOLEAN
  /\ queue \in [Syncers -> SUBSET Reads]
  /\ sync \in [Syncers -> SUBSET Syncs]
  /\ popups \in [Accounts -> Nat]
  /\ since \in [Accounts -> 0..MinInterval]
  /\ used \in [Budgets -> Nat]

\* No account is forgotten: when the loop sleeps, every account has a place in
\* the schedule, whenever it was added, and although a pass prunes the schedule
\* with a list of accounts that may be old by then.
NoAccountForgotten ==
  pc = "select" /\ ~wake /\ timer > 0 /\ used["database"] = 0 => accounts \subseteq Scheduled

\* The loop leaves at least minInterval between two syncs of an account,
\* whatever the provider hints, and however many wakes, manual syncs and
\* failures there are.
Floored ==
  [][\A j \in sync'[Loop] : sync[Loop] = {} => since[j.acc] = MinInterval]_sync

\* A revoked account does not spam the user every cycle: between two times that
\* its flag is clear, each syncer tells at most once.
PopupsBounded == \A a \in Accounts : popups[a] <= Cardinality(Syncers)

\* Every account is synced again and again, for as long as it exists.
AlwaysPolled ==
  \A a \in Accounts : []<>(a \notin accounts \/ \E s \in Syncers : \E j \in sync[s] : j.acc = a)

\* The stored flag settles on the truth, once the credentials are left alone.
FlagSettles ==
  <>[](\A a \in accounts : flag[a] = (dead[a] /\ ~keyring))

\* The flag of an account with dead credentials is cleared by a sign-in only,
\* as recordAuthState's comment has it: "(or recovers)".
ClearedByRecovery ==
  [][\A a \in Accounts : dead[a] /\ flag[a] /\ ~flag'[a] => ~dead'[a]]_vars

================================================================================
