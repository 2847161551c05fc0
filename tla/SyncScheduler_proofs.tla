-------------------------- MODULE SyncScheduler_proofs --------------------------
(***************************************************************************)
(* Proofs about SyncScheduler for every value of its constants.            *)
(***************************************************************************)
EXTENDS SyncScheduler, OrderLemmas, FiniteSetTheorems

----------------------------------------------------------------------------
\* Operators

LEMMA LessType ==
  ASSUME NEW n \in Nat PROVE Less(n) = IF n = 0 THEN 0 ELSE n - 1
BY MaxOfTwo DEF Less

\* A deadline that is set is never nearer than minInterval.
LEMMA AfterFloor ==
  ASSUME NEW o, NEW hint \in Hints, NEW interval \in Intervals
  PROVE  After(o, hint, interval) \in Nat /\ After(o, hint, interval) >= MinInterval
<1>1. hint \in Nat /\ interval \in Nat /\ MinInterval \in Nat
  BY ConstantsAssumption
<1>2. QED
  BY <1>1, MaxOfTwo DEF After

\* The loop never parks for longer than maxWake.
LEMMA UntilNextCap ==
  ASSUME TypeOK PROVE UntilNext \in 0..MaxWake
<1> DEFINE S == {MaxWake} \cup { nextDue[a] : a \in Scheduled }
<1>1. S \subseteq Nat
  BY ConstantsAssumption DEF TypeOK, Scheduled
<1>2. Min(S) \in S /\ Min(S) <= MaxWake
  BY <1>1, MinOfNaturals
<1>3. QED
  BY <1>1, <1>2, ConstantsAssumption DEF UntilNext

LEMMA SpendStep ==
  ASSUME NEW b, Spend(b) PROVE used' = [used EXCEPT ![b] = @ + 1]
BY DEF Spend

LEMMA ReadType ==
  ASSUME TypeOK, NEW S \in SUBSET Accounts PROVE Read(S) \subseteq Reads
BY DEF TypeOK, Read, Reads

----------------------------------------------------------------------------
\* Types

LEMMA SyncRecorded ==
  ASSUME TypeOK, NEW s \in Syncers, NEW j \in sync[s]
  PROVE  j \in Syncs /\ [j EXCEPT !.recorded = TRUE] \in Syncs
<1>1. j \in Syncs
  BY DEF TypeOK
<1>2. [j EXCEPT !.recorded = TRUE] \in Syncs
  BY <1>1 DEF Syncs
<1>3. QED
  BY <1>1, <1>2

\* One step of a sync, by the loop or by a goroutine.
LEMMA SyncType ==
  ASSUME TypeOK, NEW s \in Syncers, SyncStep(s) PROVE TypeOK'
<1> USE DEF rowVars, credVars, schedVars, loopVars, syncVars
<1>1. CASE \E q \in queue[s], o \in Outcomes : StartSync(s, q, o)
  <2>1. PICK q \in queue[s], o \in Outcomes : StartSync(s, q, o)
    BY <1>1
  <2>2. q \in Reads /\ q.acc \in Accounts /\ q.flag \in BOOLEAN
    BY DEF TypeOK, Reads
  <2>3. used' \in [Budgets -> Nat]
    BY <2>1, SpendStep DEF StartSync, TypeOK, Budgets
  <2>4. queue' \in [Syncers -> SUBSET Reads]
    BY <2>1 DEF StartSync, TypeOK
  <2>5. sync' \in [Syncers -> SUBSET Syncs]
    BY <2>1, <2>2 DEF StartSync, TypeOK, Syncs
  <2>6. since' \in [Accounts -> 0..MinInterval]
    BY <2>1, <2>2, ConstantsAssumption DEF StartSync, TypeOK
  <2>7. QED
    BY <2>1, <2>3, <2>4, <2>5, <2>6 DEF StartSync, TypeOK
<1>2. CASE RecordAuthState(s)
  <2>1. PICK j \in sync[s] :
          /\ IF (j.outcome = "reauth") # j.flag /\ j.acc \in accounts
             THEN /\ flag' = [flag EXCEPT ![j.acc] = (j.outcome = "reauth")]
                  /\ popups' = [popups EXCEPT ![j.acc] = IF j.outcome = "reauth" THEN @ + 1 ELSE 0]
                  /\ Wake
             ELSE UNCHANGED <<flag, popups, wake>>
          /\ RecordedBy(s, j)
    BY <1>2 DEF RecordAuthState
  <2>2. j \in Syncs /\ [j EXCEPT !.recorded = TRUE] \in Syncs
    BY SyncRecorded
  <2>3. sync' \in [Syncers -> SUBSET Syncs]
    BY <2>1, <2>2 DEF RecordedBy, TypeOK
  <2>4. flag' \in [Accounts -> BOOLEAN] /\ wake' \in BOOLEAN
    BY <2>1, Zenon DEF TypeOK, Wake
  <2>5. popups' \in [Accounts -> Nat]
    BY <2>1 DEF TypeOK
  <2>6. QED
    BY <1>2, <2>3, <2>4, <2>5 DEF RecordAuthState, TypeOK
<1>3. CASE Schedule(s)
  <2>1. PICK j \in sync[s], hint \in Hints, interval \in Intervals :
          /\ deferred' = IF j.outcome = "locked" THEN deferred \cup {j.acc} ELSE deferred \ {j.acc}
          /\ nextDue' = [nextDue EXCEPT ![j.acc] = After(j.outcome, hint, interval)]
          /\ sync' = [sync EXCEPT ![s] = {}]
          /\ queue' = [queue EXCEPT ![Loop] = { q \in @ : q.acc # j.acc }]
    BY <1>3 DEF Schedule
  <2>2. j.acc \in Accounts
    BY DEF TypeOK, Syncs
  <2>3. nextDue' \in [Accounts -> Nat \cup {Unscheduled}]
    BY <2>1, AfterFloor DEF TypeOK
  <2>4. deferred' \subseteq Accounts
    BY <2>1, <2>2 DEF TypeOK
  <2>5. queue' \in [Syncers -> SUBSET Reads] /\ sync' \in [Syncers -> SUBSET Syncs]
    BY <2>1 DEF TypeOK
  <2>6. QED
    BY <1>3, <2>3, <2>4, <2>5 DEF Schedule, TypeOK
<1>4. QED
  BY <1>1, <1>2, <1>3 DEF SyncStep

\* The other steps of the loop
LEMMA LoopType ==
  ASSUME TypeOK, TakeWake \/ TimerFires \/ ListAccounts \/ ListFails \/ PruneSchedule \/ ResetTimer
  PROVE  TypeOK'
<1> USE DEF rowVars, credVars, schedVars, loopVars, syncVars
<1>1. CASE TakeWake \/ TimerFires
  BY <1>1 DEF TakeWake, TimerFires, TypeOK
<1>2. CASE ListAccounts
  <2>1. Read({ a \in accounts : Due(a) }) \subseteq Reads
    BY ReadType DEF TypeOK
  <2>2. QED
    BY <1>2, <2>1 DEF ListAccounts, TypeOK
<1>3. CASE ListFails
  BY <1>3, SpendStep DEF ListFails, TypeOK, Budgets
<1>4. CASE PruneSchedule
  BY <1>4 DEF PruneSchedule, TypeOK
<1>5. CASE ResetTimer
  BY <1>5, UntilNextCap DEF ResetTimer, TypeOK
<1>6. QED
  BY <1>1, <1>2, <1>3, <1>4, <1>5

\* Users, providers and the clock
LEMMA EnvironmentType ==
  ASSUME TypeOK,
         \/ Pass \/ TouchAccount \/ LockKeyring
         \/ \E m \in Manual, S \in SUBSET Accounts : Kick(m, S)
         \/ \E s \in Syncers : RecordAuthStateFails(s)
         \/ \E a \in Accounts : AddAccount(a) \/ DeleteAccount(a) \/ Revoke(a) \/ SignIn(a)
  PROVE  TypeOK'
<1> USE DEF rowVars, credVars, schedVars, loopVars, syncVars
<1>1. CASE Pass
  <2>1. timer' \in 0..MaxWake
    <3>1. timer \in 0..MaxWake /\ timer \in Nat /\ MaxWake \in Nat
      BY ConstantsAssumption DEF TypeOK
    <3>2. timer' = IF timer = 0 THEN 0 ELSE timer - 1
      BY <1>1, <3>1, LessType DEF Pass
    <3>3. QED
      BY <3>1, <3>2
  <2>2. nextDue' \in [Accounts -> Nat \cup {Unscheduled}]
    BY <1>1, LessType DEF Pass, TypeOK
  <2>3. since' \in [Accounts -> 0..MinInterval]
    <3>1. MinInterval \in Nat
      BY ConstantsAssumption
    <3>2. ASSUME NEW a \in Accounts PROVE Min({since[a] + 1, MinInterval}) \in 0..MinInterval
      BY <3>1, MinOfNaturals DEF TypeOK
    <3>3. QED
      BY <1>1, <3>2 DEF Pass, TypeOK
  <2>4. UNCHANGED <<rowVars, credVars, deferred, pc, listed, wake, queue, sync, popups, used>>
    BY <1>1 DEF Pass
  <2>5. QED
    BY <2>1, <2>2, <2>3, <2>4 DEF TypeOK
<1>2. CASE TouchAccount \/ LockKeyring
  <2>1. used' \in [Budgets -> Nat]
    BY <1>2, SpendStep DEF TouchAccount, LockKeyring, TypeOK, Budgets
  <2>2. CASE TouchAccount
    BY <2>1, <2>2 DEF TouchAccount, Wake, TypeOK
  <2>3. CASE LockKeyring
    <3>1. keyring' \in BOOLEAN
      BY <2>3, Zenon DEF LockKeyring
    <3>2. QED
      BY <2>1, <2>3, <3>1 DEF LockKeyring, TypeOK
  <2>4. QED
    BY <1>2, <2>2, <2>3
<1>3. CASE \E m \in Manual, S \in SUBSET Accounts : Kick(m, S)
  <2>1. PICK m \in Manual, S \in SUBSET Accounts : Kick(m, S)
    BY <1>3
  <2>2. used' \in [Budgets -> Nat]
    BY <2>1, SpendStep DEF Kick, TypeOK, Budgets
  <2>3. queue' \in [Syncers -> SUBSET Reads]
    BY <2>1, ReadType DEF Kick, TypeOK
  <2>4. QED
    BY <2>1, <2>2, <2>3 DEF Kick, TypeOK
<1>4. CASE \E s \in Syncers : RecordAuthStateFails(s)
  <2>1. PICK s \in Syncers : RecordAuthStateFails(s)
    BY <1>4
  <2>2. PICK j \in sync[s] : Spend("database") /\ RecordedBy(s, j)
    BY <2>1 DEF RecordAuthStateFails
  <2>3. [j EXCEPT !.recorded = TRUE] \in Syncs
    BY SyncRecorded
  <2>4. used' \in [Budgets -> Nat] /\ sync' \in [Syncers -> SUBSET Syncs]
    BY <2>2, <2>3, SpendStep DEF RecordedBy, TypeOK, Budgets
  <2>5. QED
    BY <2>1, <2>4 DEF RecordAuthStateFails, TypeOK
<1>5. CASE \E a \in Accounts : AddAccount(a) \/ DeleteAccount(a) \/ Revoke(a) \/ SignIn(a)
  <2>1. PICK a \in Accounts : AddAccount(a) \/ DeleteAccount(a) \/ Revoke(a) \/ SignIn(a)
    BY <1>5
  <2>2. used' \in [Budgets -> Nat]
    BY <2>1, SpendStep DEF AddAccount, DeleteAccount, Revoke, SignIn, TypeOK, Budgets
  <2>3. MinInterval \in 0..MinInterval
    BY ConstantsAssumption
  <2>4. CASE AddAccount(a)
    BY <2>2, <2>3, <2>4 DEF AddAccount, Wake, TypeOK
  <2>5. CASE DeleteAccount(a)
    BY <2>2, <2>5 DEF DeleteAccount, Wake, TypeOK
  <2>6. CASE Revoke(a)
    BY <2>2, <2>6 DEF Revoke, TypeOK
  <2>7. CASE SignIn(a)
    BY <2>2, <2>7 DEF SignIn, Wake, TypeOK
  <2>8. QED
    BY <2>1, <2>4, <2>5, <2>6, <2>7
<1>6. QED
  BY <1>1, <1>2, <1>3, <1>4, <1>5

\* Every step is one of these.
LEMMA Steps ==
  ASSUME Next
  PROVE  \/ \E s \in Syncers : SyncStep(s)
         \/ TakeWake \/ TimerFires \/ ListAccounts \/ ListFails \/ PruneSchedule \/ ResetTimer
         \/ Pass \/ TouchAccount \/ LockKeyring
         \/ \E m \in Manual, S \in SUBSET Accounts : Kick(m, S)
         \/ \E s \in Syncers : RecordAuthStateFails(s)
         \/ \E a \in Accounts : AddAccount(a) \/ DeleteAccount(a) \/ Revoke(a) \/ SignIn(a)
BY DEF Next, LoopStep, Syncers

LEMMA InitType == Init => TypeOK
<1> SUFFICES ASSUME Init PROVE TypeOK
  OBVIOUS
<1>1. 0 \in 0..MaxWake /\ MinInterval \in 0..MinInterval
  BY ConstantsAssumption
<1>2. QED
  BY <1>1 DEF Init, TypeOK

LEMMA NextType == TypeOK /\ [Next]_vars => TypeOK'
<1> SUFFICES ASSUME TypeOK, [Next]_vars PROVE TypeOK'
  OBVIOUS
<1>1. CASE Next
  BY <1>1, Steps, SyncType, LoopType, EnvironmentType
<1>2. CASE UNCHANGED vars
  BY <1>2 DEF vars, rowVars, credVars, schedVars, loopVars, syncVars, TypeOK
<1>3. QED
  BY <1>1, <1>2

\* The schedule, the accounts' rows, the loop and the syncs hold values of their
\* kinds; the loop's timer is never set beyond maxWake.
THEOREM TypeCorrect == Spec => []TypeOK
BY InitType, NextType, PTL DEF Spec

----------------------------------------------------------------------------
\* The inductive invariant

\* A syncer is busy with one account at most; the loop only in a pass.
OneSync ==
  /\ \A s \in Syncers : \A j, k \in sync[s] : j = k
  /\ queue[Loop] \cup sync[Loop] # {} => pc = "pass"

\* What the loop has still to sync in this pass is listed, once, and what it is
\* syncing is no longer queued.
QueueInv ==
  /\ \A q \in queue[Loop] : q.acc \in listed /\ \A j \in sync[Loop] : j.acc # q.acc
  /\ \A q, r \in queue[Loop] : q.acc = r.acc => q = r
  /\ \A j \in sync[Loop] : j.acc \in listed

\* An account that was added since the loop read the list has left a token in
\* the channel, and the loop has not synced it.
AddedSince ==
  pc = "pass" => \A a \in accounts \ listed : wake /\ since[a] = MinInterval

\* The loop has still to sync a in this pass.
InPass(a) == \E q \in queue[Loop] \cup sync[Loop] : q.acc = a

\* An account without a place in the schedule is one that the loop will come to.
Awaited ==
  used["database"] = 0 =>
    \A a \in accounts \ Scheduled :
      wake \/ pc = "list" \/ (pc = "select" /\ timer = 0) \/ (pc = "pass" /\ InPass(a))

\* Until minInterval has passed since the loop has synced an account, the account
\* is not due.
Spaced ==
  /\ \A q \in queue[Loop] : since[q.acc] = MinInterval
  /\ \A a \in accounts :
       \/ since[a] = MinInterval
       \/ \E j \in sync[Loop] : j.acc = a
       \/ nextDue[a] # Unscheduled /\ nextDue[a] + since[a] >= MinInterval

IInv == TypeOK /\ OneSync /\ QueueInv /\ AddedSince /\ Awaited /\ Spaced

LEMMA InitIInv == Init => IInv
<1> SUFFICES ASSUME Init PROVE IInv
  OBVIOUS
<1>1. TypeOK
  BY InitType
<1>2. OneSync /\ QueueInv /\ AddedSince
  BY DEF Init, OneSync, QueueInv, AddedSince, Syncers
<1>3. Awaited /\ Spaced
  BY DEF Init, Awaited, Spaced, Syncers
<1>4. QED
  BY <1>1, <1>2, <1>3 DEF IInv

\* A sync that starts leaves the queue; the loop's was not synced of late.
LEMMA StartKeepsIInv ==
  ASSUME IInv, TypeOK', NEW s \in Syncers, NEW q \in queue[s], NEW o \in Outcomes, StartSync(s, q, o)
  PROVE  IInv'
<1> USE DEF IInv, rowVars, credVars, schedVars, loopVars
<1> DEFINE k == [acc |-> q.acc, flag |-> q.flag, outcome |-> o, recorded |-> FALSE]
<1>1. /\ s = Loop => pc = "pass"
      /\ sync[s] = {}
      /\ queue' = [queue EXCEPT ![s] = @ \ {q}]
      /\ sync' = [sync EXCEPT ![s] = {k}]
      /\ since' = IF s = Loop THEN [since EXCEPT ![q.acc] = 0] ELSE since
      /\ UNCHANGED <<accounts, nextDue, pc, listed, timer, wake>>
  BY DEF StartSync
<1>2. k.acc = q.acc
  OBVIOUS
<1>3. q.acc \in Accounts /\ Loop \in Syncers
  BY DEF TypeOK, Reads, Syncers
<1>4. used'["database"] = 0 => used["database"] = 0
  BY SpendStep DEF StartSync, TypeOK, Budgets
<1> HIDE DEF k
<1>5. OneSync'
  BY <1>1, <1>3 DEF OneSync, TypeOK
<1>6. CASE s # Loop
  <2>1. UNCHANGED <<queue[Loop], sync[Loop], since>>
    BY <1>1, <1>3, <1>6 DEF TypeOK
  <2>2. QueueInv' /\ AddedSince' /\ Spaced'
    BY <1>1, <2>1 DEF QueueInv, AddedSince, Spaced
  <2>3. Awaited'
    BY <1>1, <1>4, <2>1 DEF Awaited, InPass, Scheduled
  <2>4. QED
    BY <1>5, <2>2, <2>3
<1>7. CASE s = Loop
  <2>1. queue'[Loop] = queue[Loop] \ {q} /\ sync'[Loop] = {k} /\ sync[Loop] = {}
    BY <1>1, <1>3, <1>7 DEF TypeOK
  <2>2. since' = [since EXCEPT ![q.acc] = 0]
    BY <1>1, <1>7
  <2>3. QueueInv'
    BY <1>1, <1>2, <1>7, <2>1 DEF QueueInv
  <2>4. AddedSince'
    BY <1>1, <1>7, <2>2 DEF AddedSince, QueueInv, TypeOK
  <2>5. Awaited'
    BY <1>1, <1>2, <1>4, <1>7, <2>1 DEF Awaited, InPass, Scheduled
  <2>6. Spaced'
    BY <1>1, <1>2, <1>3, <1>7, <2>1, <2>2 DEF Spaced, QueueInv, TypeOK
  <2>7. QED
    BY <1>5, <2>3, <2>4, <2>5, <2>6
<1>8. QED
  BY <1>6, <1>7

\* A sync that records its auth state is the same sync, and may wake the loop.
LEMMA RecordKeepsIInv ==
  ASSUME IInv, TypeOK', NEW s \in Syncers, RecordAuthState(s) \/ RecordAuthStateFails(s)
  PROVE  IInv'
<1> USE DEF IInv, rowVars, credVars, schedVars, loopVars
<1>1. PICK j \in sync[s] : RecordedBy(s, j)
  BY DEF RecordAuthState, RecordAuthStateFails
<1>2. /\ UNCHANGED <<accounts, nextDue, pc, listed, timer, queue, since>>
      /\ wake => wake'
      /\ used'["database"] = 0 => used["database"] = 0
  BY SpendStep DEF RecordAuthState, RecordAuthStateFails, Wake, TypeOK, Budgets
<1> DEFINE k == [j EXCEPT !.recorded = TRUE]
<1>3. sync' = [sync EXCEPT ![s] = {k}]
  BY <1>1 DEF RecordedBy
<1>4. k.acc = j.acc
  BY DEF TypeOK, Syncs
<1>5. Loop \in Syncers
  BY DEF Syncers
<1> HIDE DEF k
<1>6. sync[s] = {j}
  BY DEF OneSync
<1>7. OneSync'
  BY <1>2, <1>3, <1>5, <1>6 DEF OneSync, TypeOK
<1>8. \A a : (\E x \in sync'[Loop] : x.acc = a) <=> (\E x \in sync[Loop] : x.acc = a)
  BY <1>3, <1>4, <1>5, <1>6 DEF TypeOK
<1>9. QueueInv' /\ AddedSince' /\ Spaced'
  BY <1>2, <1>8 DEF QueueInv, AddedSince, Spaced
<1>10. Awaited'
  BY <1>2, <1>8 DEF Awaited, InPass, Scheduled
<1>11. QED
  BY <1>7, <1>9, <1>10

\* An account that has been synced is scheduled, at least minInterval ahead.
LEMMA ScheduleKeepsIInv ==
  ASSUME IInv, TypeOK', NEW s \in Syncers, Schedule(s)
  PROVE  IInv'
<1> USE DEF IInv, rowVars, credVars, loopVars
<1>1. PICK j \in sync[s], hint \in Hints, interval \in Intervals :
        /\ nextDue' = [nextDue EXCEPT ![j.acc] = After(j.outcome, hint, interval)]
        /\ sync' = [sync EXCEPT ![s] = {}]
        /\ queue' = [queue EXCEPT ![Loop] = { q \in @ : q.acc # j.acc }]
  BY DEF Schedule
<1>2. UNCHANGED <<accounts, pc, listed, timer, wake, since, used>>
  BY DEF Schedule
<1>3. j.acc \in Accounts /\ Loop \in Syncers
  BY DEF TypeOK, Syncs, Syncers
<1>4. nextDue'[j.acc] \in Nat /\ nextDue'[j.acc] >= MinInterval
  BY <1>1, <1>3, AfterFloor DEF TypeOK
<1>5. queue'[Loop] = { q \in queue[Loop] : q.acc # j.acc } /\ sync'[Loop] \subseteq sync[Loop]
  BY <1>1, <1>3 DEF TypeOK
<1>6. \A x \in sync[Loop] : x.acc # j.acc => x \in sync'[Loop]
  <2>1. CASE s = Loop
    BY <2>1 DEF OneSync
  <2>2. CASE s # Loop
    BY <1>1, <1>3, <2>2 DEF TypeOK
  <2>3. QED
    BY <2>1, <2>2
<1>7. OneSync'
  BY <1>1, <1>2, <1>5 DEF OneSync, TypeOK
<1>8. QueueInv' /\ AddedSince'
  BY <1>2, <1>5 DEF QueueInv, AddedSince
<1>9. \A a \in Accounts : a # j.acc => nextDue'[a] = nextDue[a]
  BY <1>1 DEF TypeOK
<1>10. Awaited'
  <2> SUFFICES ASSUME used["database"] = 0, NEW a \in accounts \ Scheduled'
               PROVE  wake \/ pc = "list" \/ (pc = "select" /\ timer = 0) \/ (pc = "pass" /\ InPass(a)')
    BY <1>2 DEF Awaited
  <2>1. a \in Accounts /\ a # j.acc
    BY <1>4 DEF Scheduled, Unscheduled, TypeOK
  <2>2. a \notin Scheduled
    BY <1>9, <2>1 DEF Scheduled
  <2>3. InPass(a) => InPass(a)'
    BY <1>5, <1>6, <2>1 DEF InPass
  <2>4. QED
    BY <2>2, <2>3 DEF Awaited
<1>11. Spaced'
  <2>1. \A q \in queue'[Loop] : since'[q.acc] = MinInterval
    BY <1>2, <1>5 DEF Spaced
  <2>2. ASSUME NEW a \in accounts
        PROVE  \/ since[a] = MinInterval
               \/ \E x \in sync'[Loop] : x.acc = a
               \/ nextDue'[a] # Unscheduled /\ nextDue'[a] + since[a] >= MinInterval
    <3>1. CASE a = j.acc
      <4>1. since[a] \in Nat /\ MinInterval \in Nat
        BY <1>3, <3>1, ConstantsAssumption DEF TypeOK
      <4>2. nextDue'[a] \in Nat /\ nextDue'[a] >= MinInterval
        BY <1>4, <3>1
      <4>3. QED
        BY <4>1, <4>2 DEF Unscheduled
    <3>2. CASE a # j.acc
      BY <1>6, <1>9, <3>2 DEF Spaced, TypeOK
    <3>3. QED
      BY <3>1, <3>2
  <2>3. QED
    BY <1>2, <2>1, <2>2 DEF Spaced
<1>12. QED
  BY <1>7, <1>8, <1>10, <1>11

\* The loop reads the list, prunes the schedule and parks.
LEMMA LoopKeepsIInv ==
  ASSUME IInv, TypeOK',
         TakeWake \/ TimerFires \/ ListAccounts \/ ListFails \/ PruneSchedule \/ ResetTimer
  PROVE  IInv'
<1> USE DEF IInv, rowVars, credVars, schedVars, syncVars
<1>0. Loop \in Syncers
  BY DEF Syncers
<1>1. CASE TakeWake \/ TimerFires
  BY <1>1 DEF TakeWake, TimerFires, OneSync, QueueInv, AddedSince, Awaited, InPass, Scheduled, Spaced
<1>2. CASE ListAccounts
  <2> DEFINE S == { a \in accounts : Due(a) }
  <2>1. /\ pc = "list" /\ pc' = "pass" /\ listed' = accounts
        /\ queue' = [queue EXCEPT ![Loop] = Read(S)]
        /\ UNCHANGED <<accounts, nextDue, timer, wake, sync, since, used>>
    BY <1>2 DEF ListAccounts
  <2>2. queue'[Loop] = Read(S) /\ sync[Loop] = {}
    BY <1>0, <2>1 DEF OneSync, TypeOK
  <2>3. OneSync' /\ AddedSince'
    BY <2>1 DEF OneSync, AddedSince
  <2>4. QueueInv'
    BY <2>1, <2>2 DEF QueueInv, Read
  <2>5. Awaited'
    <3> SUFFICES ASSUME NEW a \in accounts \ Scheduled PROVE InPass(a)'
      BY <2>1 DEF Awaited, Scheduled
    <3>1. a \in S
      BY DEF Scheduled, Due, Unscheduled, TypeOK
    <3>2. [acc |-> a, flag |-> flag[a]] \in queue'[Loop]
      BY <2>2, <3>1 DEF Read
    <3>3. QED
      BY <3>2 DEF InPass
  <2>6. Spaced'
    <3>1. ASSUME NEW a \in S PROVE since[a] = MinInterval
      <4>1. a \in Accounts /\ nextDue[a] \in {0, Unscheduled}
        BY DEF Due, TypeOK
      <4>2. since[a] \in 0..MinInterval /\ MinInterval \in Nat
        BY <4>1, ConstantsAssumption DEF TypeOK
      <4>3. nextDue[a] # Unscheduled => nextDue[a] = 0
        BY <4>1
      <4>4. QED
        BY <2>2, <4>2, <4>3 DEF Spaced
    <3>2. \A q \in queue'[Loop] : q.acc \in S
      BY <2>2 DEF Read
    <3>3. QED
      BY <2>1, <3>1, <3>2 DEF Spaced
  <2>7. QED
    BY <2>3, <2>4, <2>5, <2>6
<1>3. CASE ListFails
  <2>1. used'["database"] # 0
    BY <1>3, SpendStep DEF ListFails, TypeOK, Budgets
  <2>2. QED
    BY <1>3, <2>1 DEF ListFails, OneSync, QueueInv, AddedSince, Awaited, Spaced
<1>4. CASE PruneSchedule
  <2>1. /\ pc = "pass" /\ queue[Loop] = {} /\ sync[Loop] = {}
        /\ nextDue' = [a \in Accounts |-> IF a \in listed THEN nextDue[a] ELSE Unscheduled]
        /\ pc' = "reset"
        /\ UNCHANGED <<accounts, wake, queue, sync, since, used>>
    BY <1>4 DEF PruneSchedule
  <2>2. OneSync' /\ QueueInv' /\ AddedSince'
    BY <2>1 DEF OneSync, QueueInv, AddedSince
  <2>3. Awaited'
    BY <2>1 DEF Awaited, InPass, Scheduled, AddedSince, TypeOK
  <2>4. Spaced'
    BY <2>1 DEF Spaced, AddedSince, TypeOK
  <2>5. QED
    BY <2>2, <2>3, <2>4
<1>5. CASE ResetTimer
  BY <1>5 DEF ResetTimer, OneSync, QueueInv, AddedSince, Awaited, InPass, Scheduled, Spaced
<1>6. QED
  BY <1>1, <1>2, <1>3, <1>4, <1>5

\* Time brings an account's deadline nearer as it takes its last sync away.
LEMMA PassKeepsIInv ==
  ASSUME IInv, TypeOK', Pass PROVE IInv'
<1> USE DEF IInv, rowVars
<1>1. /\ pc = "select" => timer > 0
      /\ timer' = Less(timer)
      /\ nextDue' = [a \in Accounts |-> IF nextDue[a] = Unscheduled THEN Unscheduled ELSE Less(nextDue[a])]
      /\ since' = [a \in Accounts |-> Min({since[a] + 1, MinInterval})]
      /\ UNCHANGED <<accounts, pc, listed, wake, queue, sync, used>>
  BY DEF Pass
<1>2. MinInterval \in Nat
  BY ConstantsAssumption
<1>3. ASSUME NEW a \in Accounts
      PROVE  since'[a] = IF since[a] = MinInterval THEN MinInterval ELSE since[a] + 1
  <2>1. since[a] \in 0..MinInterval
    BY DEF TypeOK
  <2> DEFINE S == {since[a] + 1, MinInterval}
  <2>2. Min(S) \in S /\ \A n \in S : Min(S) <= n
    BY <1>2, <2>1, MinOfNaturals
  <2>3. QED
    BY <1>1, <1>2, <2>1, <2>2
<1>4. ASSUME NEW a \in Accounts, nextDue[a] # Unscheduled
      PROVE  nextDue'[a] = IF nextDue[a] = 0 THEN 0 ELSE nextDue[a] - 1
  BY <1>1, <1>4, LessType DEF TypeOK
<1>5. Scheduled' = Scheduled
  <2>1. \A a \in Accounts : nextDue'[a] = Unscheduled <=> nextDue[a] = Unscheduled
    BY <1>1, <1>4 DEF TypeOK, Unscheduled
  <2>2. QED
    BY <2>1 DEF Scheduled
<1>6. OneSync' /\ QueueInv'
  BY <1>1 DEF OneSync, QueueInv
<1>7. AddedSince'
  BY <1>1, <1>3 DEF AddedSince, TypeOK
<1>8. Awaited'
  <2>1. pc = "select" => timer # 0
    BY <1>1
  <2>2. QED
    BY <1>1, <1>5, <2>1 DEF Awaited, InPass
<1>9. Spaced'
  <2>1. \A q \in queue[Loop] : q.acc \in Accounts
    BY DEF TypeOK, Reads, Syncers
  <2>2. \A q \in queue'[Loop] : since'[q.acc] = MinInterval
    BY <1>1, <1>3, <2>1 DEF Spaced
  <2>3. ASSUME NEW a \in accounts, since[a] # MinInterval, nextDue[a] # Unscheduled,
               nextDue[a] + since[a] >= MinInterval
        PROVE  nextDue'[a] # Unscheduled /\ nextDue'[a] + since'[a] >= MinInterval
    <3>1. a \in Accounts /\ since[a] \in 0..MinInterval /\ nextDue[a] \in Nat
      BY <2>3 DEF TypeOK
    <3>2. QED
      BY <1>2, <1>3, <1>4, <2>3, <3>1 DEF Unscheduled
  <2>4. \A a \in accounts : since[a] = MinInterval => since'[a] = MinInterval
    BY <1>3 DEF TypeOK
  <2>5. QED
    BY <1>1, <2>2, <2>3, <2>4 DEF Spaced
<1>10. QED
  BY <1>6, <1>7, <1>8, <1>9

\* Users and providers: whoever adds or deletes an account wakes the loop.
LEMMA UserKeepsIInv ==
  ASSUME IInv, TypeOK',
         \/ TouchAccount \/ LockKeyring
         \/ \E m \in Manual, S \in SUBSET Accounts : Kick(m, S)
         \/ \E a \in Accounts : AddAccount(a) \/ DeleteAccount(a) \/ Revoke(a) \/ SignIn(a)
  PROVE  IInv'
<1> USE DEF IInv, rowVars, schedVars, loopVars, syncVars
<1>1. CASE TouchAccount \/ LockKeyring \/ \E a \in Accounts : DeleteAccount(a) \/ Revoke(a) \/ SignIn(a)
  <2>1. /\ accounts' \subseteq accounts /\ (wake => wake')
        /\ UNCHANGED <<nextDue, pc, listed, timer, queue, sync, since>>
        /\ used'["database"] = 0 => used["database"] = 0
    BY <1>1, SpendStep
       DEF TouchAccount, LockKeyring, DeleteAccount, Revoke, SignIn, Wake, TypeOK, Budgets
  <2>2. OneSync' /\ QueueInv' /\ AddedSince' /\ Spaced'
    BY <2>1 DEF OneSync, QueueInv, AddedSince, Spaced
  <2>3. Awaited'
    BY <2>1 DEF Awaited, InPass, Scheduled
  <2>4. QED
    BY <2>2, <2>3
<1>2. CASE \E m \in Manual, S \in SUBSET Accounts : Kick(m, S)
  <2>1. /\ queue'[Loop] = queue[Loop]
        /\ UNCHANGED <<accounts, nextDue, pc, listed, timer, wake, sync, since>>
        /\ used'["database"] = 0 => used["database"] = 0
    BY <1>2, SpendStep, ConstantsAssumption DEF Kick, TypeOK, Budgets, Syncers
  <2>2. OneSync' /\ QueueInv' /\ AddedSince' /\ Spaced'
    BY <2>1 DEF OneSync, QueueInv, AddedSince, Spaced
  <2>3. Awaited'
    BY <2>1 DEF Awaited, InPass, Scheduled
  <2>4. QED
    BY <2>2, <2>3
<1>3. CASE \E a \in Accounts : AddAccount(a)
  <2>1. PICK a \in Accounts : AddAccount(a)
    BY <1>3
  <2>2. /\ accounts' = accounts \cup {a} /\ wake' = TRUE
        /\ since' = [since EXCEPT ![a] = MinInterval]
        /\ UNCHANGED <<nextDue, pc, listed, timer, queue, sync>>
    BY <2>1 DEF AddAccount, Wake
  <2>3. OneSync' /\ QueueInv' /\ Awaited'
    BY <2>2 DEF OneSync, QueueInv, Awaited
  <2>4. since'[a] = MinInterval /\ \A b \in Accounts : since'[b] \in {since[b], MinInterval}
    BY <2>2 DEF TypeOK
  <2>5. AddedSince'
    BY <2>2, <2>4 DEF AddedSince, TypeOK
  <2>6. Spaced'
    <3>1. \A b \in Accounts : b # a => since'[b] = since[b]
      BY <2>2 DEF TypeOK
    <3>2. \A q \in queue[Loop] : q.acc \in Accounts
      BY DEF TypeOK, Reads, Syncers
    <3>3. QED
      BY <2>2, <2>4, <3>1, <3>2 DEF Spaced, TypeOK
  <2>7. QED
    BY <2>3, <2>5, <2>6
<1>4. QED
  BY <1>1, <1>2, <1>3

LEMMA IInvStep == IInv /\ [Next]_vars => IInv'
<1> SUFFICES ASSUME IInv, [Next]_vars PROVE IInv'
  OBVIOUS
<1>1. TypeOK'
  BY NextType DEF IInv
<1>2. CASE \E s \in Syncers : SyncStep(s)
  BY <1>1, <1>2, StartKeepsIInv, RecordKeepsIInv, ScheduleKeepsIInv DEF SyncStep
<1>3. CASE UNCHANGED vars
  BY <1>3 DEF vars, rowVars, credVars, schedVars, loopVars, syncVars, IInv, TypeOK, OneSync, QueueInv,
              AddedSince, Awaited, InPass, Scheduled, Spaced
<1>4. QED
  BY <1>1, <1>2, <1>3, Steps, RecordKeepsIInv, LoopKeepsIInv, PassKeepsIInv, UserKeepsIInv

----------------------------------------------------------------------------
\* What follows from it

\* No account is forgotten (pruneSchedule and the wake channel), for any number
\* of accounts and manual syncs.
THEOREM NoAccountForgottenHolds == Spec => []NoAccountForgotten
<1>1. IInv => NoAccountForgotten
  BY DEF IInv, Awaited, NoAccountForgotten, TypeOK
<1>2. QED
  BY <1>1, InitIInv, IInvStep, PTL DEF Spec

\* The loop leaves at least minInterval between two syncs of an account
\* (schedule's floor), whatever hints, wakes and manual syncs there are.
THEOREM FlooredHolds == Spec => Floored
<1>1. IInv /\ [Next]_vars =>
        [\A j \in sync'[Loop] : sync[Loop] = {} => since[j.acc] = MinInterval]_sync
  <2> SUFFICES ASSUME IInv, [Next]_vars, sync' # sync, sync[Loop] = {}, NEW j \in sync'[Loop]
               PROVE  since[j.acc] = MinInterval
    OBVIOUS
  <2>1. Next /\ Loop \in Syncers /\ sync \in [Syncers -> SUBSET Syncs]
    BY DEF vars, syncVars, Syncers, IInv, TypeOK
  <2>2. \E s \in Syncers : SyncStep(s) \/ RecordAuthStateFails(s)
    BY <2>1, Steps DEF TakeWake, TimerFires, ListAccounts, ListFails, PruneSchedule, ResetTimer, Pass,
                       TouchAccount, LockKeyring, Kick, AddAccount, DeleteAccount, Revoke, SignIn, syncVars
  <2>3. PICK s \in Syncers : SyncStep(s) \/ RecordAuthStateFails(s)
    BY <2>2
  <2>4. CASE \E q \in queue[s], o \in Outcomes : StartSync(s, q, o)
    <3>1. PICK q \in queue[s], o \in Outcomes : StartSync(s, q, o)
      BY <2>4
    <3>2. s = Loop /\ j.acc = q.acc
      BY <2>1, <3>1 DEF StartSync
    <3>3. QED
      BY <3>1, <3>2 DEF IInv, Spaced
  <2>5. CASE RecordAuthState(s) \/ RecordAuthStateFails(s)
    BY <2>1, <2>5 DEF RecordAuthState, RecordAuthStateFails, RecordedBy
  <2>6. CASE Schedule(s)
    BY <2>1, <2>6 DEF Schedule
  <2>7. QED
    BY <2>3, <2>4, <2>5, <2>6 DEF SyncStep
<1>2. QED
  BY <1>1, InitIInv, IInvStep, PTL DEF Spec, Floored

----------------------------------------------------------------------------
\* How often the user is told to sign in

\* A syncer has read each account once, and not the one it is syncing again.
ReadOnce ==
  \A s \in Syncers :
    /\ \A q, r \in queue[s] : q.acc = r.acc => q = r
    /\ \A q \in queue[s], j \in sync[s] : q.acc # j.acc

\* s has read a with a clear flag, and has not yet compared that with an outcome:
\* it may still tell the user.
Holds(s, a) ==
  \/ \E q \in queue[s] : q.acc = a /\ ~q.flag
  \/ \E j \in sync[s] : j.acc = a /\ ~j.flag /\ ~j.recorded

Holders(a) == { s \in Syncers : Holds(s, a) }

\* While the flag is set nobody reads it clear, and those who had read it clear
\* before are the only ones who may tell.
PopupsInv ==
  \A a \in Accounts :
    /\ ~flag[a] => popups[a] = 0
    /\ popups[a] + Cardinality(Holders(a)) <= Cardinality(Syncers)

PInv == IInv /\ ReadOnce /\ PopupsInv

LEMMA HoldersFinite ==
  ASSUME IsFiniteSet(Manual), NEW a
  PROVE  /\ IsFiniteSet(Syncers) /\ Cardinality(Syncers) \in Nat
         /\ IsFiniteSet(Holders(a)) /\ Cardinality(Holders(a)) \in Nat
         /\ Cardinality(Holders(a)) <= Cardinality(Syncers)
<1>1. IsFiniteSet(Syncers)
  BY FS_AddElement DEF Syncers
<1>2. Holders(a) \subseteq Syncers
  BY DEF Holders
<1>3. QED
  BY <1>1, <1>2, FS_Subset, FS_CardinalityType

\* Fewer holders and no further notification keep the bound.
LEMMA FewerHolders ==
  ASSUME IsFiniteSet(Manual), TypeOK, TypeOK', PopupsInv, NEW a \in Accounts,
         \A s \in Syncers : Holds(s, a)' => Holds(s, a),
         popups'[a] = popups[a]
  PROVE  popups'[a] + Cardinality(Holders(a)') <= Cardinality(Syncers)
<1>1. Holders(a)' \subseteq Holders(a)
  BY DEF Holders
<1>2. Cardinality(Holders(a)') \in Nat /\ Cardinality(Holders(a)') <= Cardinality(Holders(a))
  BY <1>1, HoldersFinite, FS_Subset, FS_CardinalityType
<1>3. QED
  BY <1>2, HoldersFinite DEF PopupsInv, TypeOK

\* Without notifications since the flag was clear, any number of holders is within
\* the bound.
LEMMA NoPopups ==
  ASSUME IsFiniteSet(Manual), NEW a \in Accounts, popups'[a] = 0
  PROVE  popups'[a] + Cardinality(Holders(a)') <= Cardinality(Syncers)
<1>1. Holders(a)' \subseteq Syncers
  BY DEF Holders
<1>2. QED
  BY <1>1, HoldersFinite, FS_Subset, FS_CardinalityType

LEMMA StartKeepsPopups ==
  ASSUME IsFiniteSet(Manual), PInv, TypeOK', NEW s \in Syncers, NEW q \in queue[s],
         NEW o \in Outcomes, StartSync(s, q, o)
  PROVE  ReadOnce' /\ PopupsInv'
<1> USE DEF PInv, IInv, rowVars
<1> DEFINE k == [acc |-> q.acc, flag |-> q.flag, outcome |-> o, recorded |-> FALSE]
<1>1. /\ sync[s] = {}
      /\ queue' = [queue EXCEPT ![s] = @ \ {q}]
      /\ sync' = [sync EXCEPT ![s] = {k}]
      /\ UNCHANGED <<flag, popups>>
  BY DEF StartSync
<1>2. k.acc = q.acc /\ k.flag = q.flag
  OBVIOUS
<1> HIDE DEF k
<1>3. queue'[s] = queue[s] \ {q} /\ sync'[s] = {k}
      /\ \A t \in Syncers \ {s} : queue'[t] = queue[t] /\ sync'[t] = sync[t]
  BY <1>1 DEF TypeOK
<1>4. ReadOnce'
  BY <1>1, <1>2, <1>3 DEF ReadOnce
<1>5. ASSUME NEW a \in Accounts, NEW t \in Syncers, Holds(t, a)' PROVE Holds(t, a)
  BY <1>2, <1>3, <1>5 DEF Holds
<1>6. PopupsInv'
  BY <1>1, <1>5, FewerHolders DEF PopupsInv
<1>7. QED
  BY <1>4, <1>6

LEMMA RecordKeepsPopups ==
  ASSUME IsFiniteSet(Manual), PInv, TypeOK', NEW s \in Syncers,
         RecordAuthState(s) \/ RecordAuthStateFails(s)
  PROVE  ReadOnce' /\ PopupsInv'
<1> USE DEF PInv, IInv, rowVars, syncVars
<1>1. PICK j \in sync[s] :
        /\ ~j.recorded /\ RecordedBy(s, j)
        /\ \/ UNCHANGED <<flag, popups>>
           \/ /\ (j.outcome = "reauth") # j.flag
              /\ flag' = [flag EXCEPT ![j.acc] = (j.outcome = "reauth")]
              /\ popups' = [popups EXCEPT ![j.acc] = IF j.outcome = "reauth" THEN @ + 1 ELSE 0]
  BY DEF RecordAuthState, RecordAuthStateFails
<1> DEFINE k == [j EXCEPT !.recorded = TRUE]
<1>2. sync' = [sync EXCEPT ![s] = {k}] /\ queue' = queue
  BY <1>1 DEF RecordedBy, RecordAuthState, RecordAuthStateFails
<1>3. j \in Syncs /\ k.acc = j.acc /\ k.recorded /\ j.acc \in Accounts
  BY DEF TypeOK, Syncs
<1> HIDE DEF k
<1>4. sync[s] = {j} /\ sync'[s] = {k} /\ \A t \in Syncers \ {s} : sync'[t] = sync[t]
  BY <1>2 DEF OneSync, TypeOK
<1>5. ReadOnce'
  BY <1>2, <1>3, <1>4 DEF ReadOnce
<1>6. ASSUME NEW a \in Accounts, NEW t \in Syncers, Holds(t, a)'
      PROVE  Holds(t, a) /\ (t = s => a # j.acc)
  <2>1. CASE t = s
    BY <1>2, <1>3, <1>4, <1>6, <2>1 DEF Holds, ReadOnce
  <2>2. CASE t # s
    BY <1>2, <1>4, <1>6, <2>2 DEF Holds
  <2>3. QED
    BY <2>1, <2>2
<1>7. CASE UNCHANGED <<flag, popups>>
  BY <1>5, <1>6, <1>7, FewerHolders DEF PopupsInv
<1>8. CASE ~(UNCHANGED <<flag, popups>>)
  <2>1. /\ (j.outcome = "reauth") # j.flag
        /\ flag' = [flag EXCEPT ![j.acc] = (j.outcome = "reauth")]
        /\ popups' = [popups EXCEPT ![j.acc] = IF j.outcome = "reauth" THEN @ + 1 ELSE 0]
    BY <1>1, <1>8
  <2>2. ASSUME NEW a \in Accounts, a # j.acc
        PROVE  /\ ~flag'[a] => popups'[a] = 0
               /\ popups'[a] + Cardinality(Holders(a)') <= Cardinality(Syncers)
    <3>1. flag'[a] = flag[a] /\ popups'[a] = popups[a]
      BY <2>1, <2>2 DEF TypeOK
    <3>2. QED
      BY <1>6, <3>1, FewerHolders DEF PopupsInv
  <2>3. CASE j.outcome # "reauth"
    <3>1. popups'[j.acc] = 0
      BY <1>3, <2>1, <2>3 DEF TypeOK
    <3>2. QED
      BY <1>3, <1>5, <2>2, <3>1, NoPopups DEF PopupsInv
  <2>4. CASE j.outcome = "reauth"
    <3> DEFINE a == j.acc
    <3>1. flag'[a] = TRUE /\ popups'[a] = popups[a] + 1 /\ ~j.flag
      BY <1>3, <2>1, <2>4 DEF TypeOK, Syncs
    <3>2. s \in Holders(a) /\ Holders(a)' \subseteq Holders(a) \ {s}
      BY <1>1, <1>3, <1>4, <1>6, <3>1 DEF Holders, Holds
    <3>3. /\ Cardinality(Holders(a) \ {s}) = Cardinality(Holders(a)) - 1
          /\ IsFiniteSet(Holders(a) \ {s})
      BY <3>2, HoldersFinite, FS_RemoveElement
    <3>4. Cardinality(Holders(a)') <= Cardinality(Holders(a)) - 1 /\ Cardinality(Holders(a)') \in Nat
      BY <3>2, <3>3, FS_Subset, FS_CardinalityType
    <3>5. popups'[a] + Cardinality(Holders(a)') <= Cardinality(Syncers)
      BY <1>3, <3>1, <3>4, HoldersFinite DEF PopupsInv, TypeOK
    <3>6. QED
      BY <1>3, <1>5, <2>2, <3>1, <3>5 DEF PopupsInv
  <2>5. QED
    BY <2>3, <2>4
<1>9. QED
  BY <1>7, <1>8

LEMMA ScheduleKeepsPopups ==
  ASSUME IsFiniteSet(Manual), PInv, TypeOK', NEW s \in Syncers, Schedule(s)
  PROVE  ReadOnce' /\ PopupsInv'
<1> USE DEF PInv, IInv, rowVars
<1>1. PICK j \in sync[s] :
        /\ sync' = [sync EXCEPT ![s] = {}]
        /\ queue' = [queue EXCEPT ![Loop] = { q \in @ : q.acc # j.acc }]
        /\ UNCHANGED <<flag, popups>>
  BY DEF Schedule
<1>2. \A t \in Syncers : queue'[t] \subseteq queue[t] /\ sync'[t] \subseteq sync[t]
  BY <1>1 DEF TypeOK
<1>3. ReadOnce'
  BY <1>2 DEF ReadOnce
<1>4. \A a \in Accounts : \A t \in Syncers : Holds(t, a)' => Holds(t, a)
  BY <1>2 DEF Holds
<1>5. QED
  BY <1>1, <1>3, <1>4, FewerHolders DEF PopupsInv

\* A syncer that reads the accounts reads their flags as they are.
LEMMA ReadKeepsPopups ==
  ASSUME IsFiniteSet(Manual), PInv, TypeOK', NEW s \in Syncers, NEW S \in SUBSET Accounts,
         sync[s] = {}, queue' = [queue EXCEPT ![s] = Read(S)], UNCHANGED <<flag, popups, sync>>
  PROVE  ReadOnce' /\ PopupsInv'
<1> USE DEF PInv, IInv
<1>1. queue'[s] = Read(S) /\ \A t \in Syncers \ {s} : queue'[t] = queue[t]
  BY DEF TypeOK
<1>2. ReadOnce'
  BY <1>1 DEF ReadOnce, Read
<1>3. ASSUME NEW a \in Accounts
      PROVE  popups'[a] + Cardinality(Holders(a)') <= Cardinality(Syncers)
  <2>1. CASE flag[a]
    <3>1. \A q \in queue'[s] : q.acc = a => q.flag
      BY <1>1, <2>1 DEF Read
    <3>2. \A t \in Syncers : Holds(t, a)' => Holds(t, a)
      BY <1>1, <3>1 DEF Holds
    <3>3. QED
      BY <3>2, FewerHolders
  <2>2. CASE ~flag[a]
    BY <2>2, NoPopups DEF PopupsInv
  <2>3. QED
    BY <2>1, <2>2
<1>4. QED
  BY <1>2, <1>3 DEF PopupsInv

\* An account that is added, or signed in to, has been told of no more.
LEMMA ClearKeepsPopups ==
  ASSUME IsFiniteSet(Manual), PInv, TypeOK', UNCHANGED <<queue, sync>>,
         \/ UNCHANGED <<flag, popups>>
         \/ \E a \in Accounts : /\ flag' = [flag EXCEPT ![a] = FALSE]
                               /\ popups' = [popups EXCEPT ![a] = 0]
  PROVE  ReadOnce' /\ PopupsInv'
<1> USE DEF PInv, IInv
<1>1. ReadOnce'
  BY DEF ReadOnce
<1>2. \A b \in Accounts : \A t \in Syncers : Holds(t, b)' => Holds(t, b)
  BY DEF Holds
<1>3. CASE UNCHANGED <<flag, popups>>
  BY <1>1, <1>2, <1>3, FewerHolders DEF PopupsInv
<1>4. ASSUME NEW a \in Accounts,
             flag' = [flag EXCEPT ![a] = FALSE], popups' = [popups EXCEPT ![a] = 0]
      PROVE  ReadOnce' /\ PopupsInv'
  <2>1. ASSUME NEW b \in Accounts
        PROVE  /\ ~flag'[b] => popups'[b] = 0
               /\ popups'[b] + Cardinality(Holders(b)') <= Cardinality(Syncers)
    <3>1. CASE b = a
      BY <1>4, <3>1, NoPopups DEF TypeOK
    <3>2. CASE b # a
      BY <1>2, <1>4, <3>2, FewerHolders DEF PopupsInv, TypeOK
    <3>3. QED
      BY <3>1, <3>2
  <2>2. QED
    BY <1>1, <2>1 DEF PopupsInv
<1>5. QED
  BY <1>3, <1>4

LEMMA InitPInv == IsFiniteSet(Manual) /\ Init => PInv
<1> SUFFICES ASSUME IsFiniteSet(Manual), Init PROVE PInv
  OBVIOUS
<1>1. IInv
  BY InitIInv
<1>2. ReadOnce
  BY DEF Init, ReadOnce
<1>3. PopupsInv
  BY HoldersFinite DEF Init, PopupsInv
<1>4. QED
  BY <1>1, <1>2, <1>3 DEF PInv

LEMMA PInvStep == IsFiniteSet(Manual) /\ PInv /\ [Next]_vars => PInv'
<1> SUFFICES ASSUME IsFiniteSet(Manual), PInv, [Next]_vars PROVE ReadOnce' /\ PopupsInv'
  BY IInvStep DEF PInv
<1> USE DEF rowVars, credVars, schedVars, loopVars, syncVars
<1>1. TypeOK' /\ TypeOK /\ OneSync
  BY NextType DEF PInv, IInv
<1>2. CASE \E s \in Syncers : SyncStep(s)
  BY <1>1, <1>2, StartKeepsPopups, RecordKeepsPopups, ScheduleKeepsPopups DEF SyncStep
<1>3. CASE \E s \in Syncers : RecordAuthStateFails(s)
  BY <1>1, <1>3, RecordKeepsPopups
<1>4. CASE ListAccounts
  <2>1. Loop \in Syncers /\ sync[Loop] = {}
    BY <1>1, <1>4 DEF ListAccounts, OneSync, Syncers
  <2>2. { a \in accounts : Due(a) } \in SUBSET Accounts
    BY <1>1 DEF TypeOK
  <2>3. QED
    BY <1>1, <1>4, <2>1, <2>2, ReadKeepsPopups DEF ListAccounts
<1>5. CASE \E m \in Manual, S \in SUBSET Accounts : Kick(m, S)
  BY <1>1, <1>5, ReadKeepsPopups DEF Kick, Syncers
<1>6. CASE \/ TakeWake \/ TimerFires \/ ListFails \/ PruneSchedule \/ ResetTimer \/ Pass
           \/ TouchAccount \/ LockKeyring \/ \E a \in Accounts : DeleteAccount(a) \/ Revoke(a)
  <2>1. UNCHANGED <<queue, sync, flag, popups>>
    BY <1>6 DEF TakeWake, TimerFires, ListFails, PruneSchedule, ResetTimer, Pass, TouchAccount,
                LockKeyring, DeleteAccount, Revoke
  <2>2. QED
    BY <1>1, <2>1, ClearKeepsPopups
<1>7. CASE \E a \in Accounts : AddAccount(a) \/ SignIn(a)
  BY <1>1, <1>7, ClearKeepsPopups DEF AddAccount, SignIn
<1>8. CASE UNCHANGED vars
  BY <1>1, <1>8, ClearKeepsPopups DEF vars
<1>9. QED
  BY <1>2, <1>3, <1>4, <1>5, <1>6, <1>7, <1>8, Steps

\* A revoked account does not spam the user (recordAuthState): with any finite
\* number of manual syncs, each syncer tells once at most while the flag is set.
THEOREM PopupsBoundedHolds ==
  ASSUME IsFiniteSet(Manual)  PROVE Spec => []PopupsBounded
<1>1. PInv => PopupsBounded
  <2> SUFFICES ASSUME PInv, NEW a \in Accounts
               PROVE  popups[a] <= Cardinality(Syncers)
    BY DEF PopupsBounded
  <2>1. /\ popups[a] \in Nat
        /\ popups[a] + Cardinality(Holders(a)) <= Cardinality(Syncers)
    BY DEF PInv, IInv, TypeOK, PopupsInv
  <2>2. Cardinality(Holders(a)) \in Nat /\ Cardinality(Syncers) \in Nat
    BY HoldersFinite
  <2>3. QED
    BY <2>1, <2>2
<1>2. Init => PInv
  BY InitPInv
<1>3. PInv /\ [Next]_vars => PInv'
  BY PInvStep
<1>4. QED
  BY <1>1, <1>2, <1>3, PTL DEF Spec

================================================================================
