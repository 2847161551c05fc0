---------------------------- MODULE Reminders_proofs ----------------------------
(***************************************************************************)
(* Proofs about Reminders for every value of its constants.                *)
(***************************************************************************)
EXTENDS Reminders, OrderLemmas, FiniteSetTheorems

----------------------------------------------------------------------------
\* Operators

LEMMA KeyType ==
  ASSUME NEW k \in Keys
  PROVE  k.start \in Nat /\ k.at \in Nat /\ k.task \in BOOLEAN
<1>1. PICK i \in Items, p \in Plans : k = Key(i, p)
  BY DEF Keys
<1>2. p.start \in Nat /\ p.at \in Nat
  BY ConstantsAssumption DEF Plan
<1>3. IsTask(p) \in BOOLEAN
  BY DEF IsTask
<1>4. k.start = p.start /\ k.at = p.at /\ k.task = IsTask(p)
  BY <1>1 DEF Key
<1>5. QED
  BY <1>2, <1>3, <1>4

\* The items a pass looks at have plans.
LEMMA CandidateKey ==
  ASSUME TypeOK, NEW i \in Items, NEW t, Candidate(plan[i], t)
  PROVE  plan[i] \in Plans /\ Key(i, plan[i]) \in Keys
BY DEF TypeOK, Candidate, Keys

LEMMA RowType ==
  ASSUME NEW rows \in [Keys -> Rows], NEW k \in Keys, NEW t
  PROVE  Row(rows, k, t) \in Rows
BY DEF Row, Unseen, Rows

LEMMA FireSetType ==
  ASSUME TypeOK, NEW tasks, NEW rows, NEW t
  PROVE  FireSet(tasks, rows, t) \subseteq Keys
BY CandidateKey DEF FireSet

\* Whatever Upcoming expects is ahead.
LEMMA UpcomingAhead ==
  ASSUME TypeOK, NEW t \in Nat
  PROVE  \A d \in Upcoming(t) : d \in Nat /\ t < d
<1> SUFFICES ASSUME NEW d \in Upcoming(t) PROVE d \in Nat /\ t < d
  OBVIOUS
<1>1. PICK i \in Items : Candidate(plan[i], t) /\ d \in Deadline(Key(i, plan[i]), t)
  BY DEF Upcoming
<1> DEFINE k == Key(i, plan[i])
<1>2. k \in Keys
  BY <1>1, CandidateKey
<1>3. k.at \in Nat /\ Row(states, k, t) \in Rows
  BY <1>2, KeyType, RowType DEF TypeOK
<1> HIDE DEF k
<1>4. d \in Deadline(k, t)
  BY <1>1 DEF k
<1>5. Row(states, k, t).until \in Nat
  BY <1>3 DEF Rows
<1>6. QED
  BY <1>3, <1>4, <1>5 DEF Deadline

\* The loop never parks for longer than maxWake.
LEMMA UntilNextCap ==
  ASSUME TypeOK, NEW t \in Nat PROVE UntilNext(t) \in 0..MaxWake
<1>1. MaxWake \in Nat
  BY ConstantsAssumption
<1>2. CASE ~enabled \/ Upcoming(t) = {}
  BY <1>1, <1>2 DEF UntilNext
<1>3. CASE enabled /\ Upcoming(t) # {}
  <2>1. Upcoming(t) \in SUBSET Nat
    BY UpcomingAhead
  <2>2. Min(Upcoming(t)) \in Upcoming(t)
    BY <1>3, <2>1, MinOfNaturals
  <2> DEFINE d == Min(Upcoming(t)) - t
  <2>3. d \in Nat
    BY <2>2, UpcomingAhead
  <2> HIDE DEF d
  <2>4. Min({d, MaxWake}) \in {d, MaxWake} /\ Min({d, MaxWake}) <= MaxWake
    BY <1>1, <2>3, MinOfNaturals
  <2>5. UntilNext(t) = Min({d, MaxWake})
    BY <1>3 DEF UntilNext, d
  <2>6. QED
    BY <1>1, <2>3, <2>4, <2>5
<1>4. QED
  BY <1>2, <1>3

Ids == { n.id : n \in pending \cup open \cup closing }

\* Among more ids than are in use there is a fresh one.
LEMMA FreshIdIsFresh ==
  ASSUME IsFiniteSet(Ids) PROVE FreshId \in Nat /\ FreshId \notin Ids
<1> DEFINE n == Cardinality(Ids) + 1
<1>1. Cardinality(Ids) \in Nat
  BY FS_CardinalityType
<1>2. IsFiniteSet(1..n) /\ Cardinality(1..n) = n
  BY <1>1, FS_Interval
<1>3. ~(1..n \subseteq Ids)
  BY <1>1, <1>2, FS_Subset
<1>4. \E id \in 1..n : id \notin Ids
  BY <1>3
<1>5. FreshId = CHOOSE id \in 1..n : id \notin Ids
  BY DEF FreshId, Ids
<1>6. QED
  BY <1>1, <1>4, <1>5

LEMMA SpendStep ==
  ASSUME NEW b, Spend(b) PROVE used' = [used EXCEPT ![b] = @ + 1]
BY DEF Spend

LEMMA SpendType ==
  ASSUME TypeOK, NEW b \in Budgets, Spend(b) PROVE used' \in [Budgets -> Nat]
BY SpendStep DEF TypeOK

----------------------------------------------------------------------------
\* Types

\* What the rest of the system remembers of notifications is finite, so that
\* there is always a fresh id.
TypeInv == TypeOK /\ IsFiniteSet(Ids)

LEMMA InitType == Init => TypeInv
<1> SUFFICES ASSUME Init PROVE TypeInv
  OBVIOUS
<1>1. Ids = {}
  BY DEF Init, Ids
<1>2. [k \in Keys |-> Unseen] \in [Keys -> Rows]
  BY DEF Unseen, Rows
<1>3. TypeOK
  BY <1>2 DEF Init, TypeOK
<1>4. QED
  BY <1>1, <1>3, FS_EmptySet DEF TypeInv

\* The loop between two notifications
LEMMA LoopType ==
  ASSUME TypeOK,
         Start \/ TakeWake \/ Tick \/ TickFails \/ TickTasks \/ TickDone \/ Park \/ ParkBlind \/ Crash
  PROVE  TypeOK'
<1> USE DEF noteVars
<1>1. Unseen \in Rows /\ [k \in Keys |-> Unseen] \in [Keys -> Rows]
  BY DEF Unseen, Rows
<1>2. now \in Nat /\ MaxWake \in Nat /\ Coalesce \in Nat
  BY ConstantsAssumption DEF TypeOK
<1>3. CASE Start
  <2>1. states' \in [Keys -> Rows]
    BY <1>1, <1>3 DEF Start, TypeOK
  <2>2. QED
    BY <1>2, <1>3, <2>1 DEF Start, TypeOK
<1>4. CASE TakeWake
  <2>1. /\ wake' = FALSE /\ timer' = now + Coalesce
        /\ UNCHANGED <<now, enabled, plan, states, pc, tickNow, view, todo, current, noteVars, used>>
    BY <1>4 DEF TakeWake
  <2>2. timer' \in Nat /\ timer' <= now' + MaxWake
    BY <1>2, <2>1, ConstantsAssumption
  <2>3. QED
    BY <2>1, <2>2 DEF TypeOK
<1>5. CASE Tick
  <2>1. todo' \subseteq Keys
    <3>1. FireSet(FALSE, states, now) \subseteq Keys /\ todo \subseteq Keys
      BY FireSetType DEF TypeOK
    <3>2. todo' \in {FireSet(FALSE, states, now), todo}
      BY <1>5 DEF Tick
    <3>3. QED
      BY <3>1, <3>2
  <2>2. view' \in [Keys -> Rows] /\ tickNow' \in Nat /\ pc' \in {"events", "park"}
    BY <1>5 DEF Tick, TypeOK
  <2>3. QED
    BY <1>5, <2>1, <2>2 DEF Tick, TypeOK
<1>6. CASE TickFails
  <2>1. used' \in [Budgets -> Nat]
    BY <1>6, SpendType DEF TickFails, Budgets
  <2>2. QED
    BY <1>6, <2>1 DEF TickFails, TypeOK
<1>7. CASE TickTasks
  BY <1>7, FireSetType DEF TickTasks, TypeOK
<1>8. CASE TickDone
  BY <1>8 DEF TickDone, TypeOK
<1>9. CASE Park \/ ParkBlind
  <2>1. timer' \in Nat /\ timer' <= now + MaxWake
    BY <1>2, <1>9, UntilNextCap DEF Park, ParkBlind
  <2>2. used' \in [Budgets -> Nat]
    BY <1>9, SpendType DEF Park, ParkBlind, Budgets, TypeOK
  <2>3. QED
    BY <1>1, <1>9, <2>1, <2>2 DEF Park, ParkBlind, TypeOK
<1>10. CASE Crash
  <2>1. used' \in [Budgets -> Nat]
    BY <1>10, SpendType DEF Crash, Budgets
  <2>2. QED
    BY <1>1, <1>10, <2>1 DEF Crash, TypeOK
<1>11. QED
  BY <1>3, <1>4, <1>5, <1>6, <1>7, <1>8, <1>9, <1>10

LEMMA CurrentType ==
  ASSUME TypeOK, NEW c \in current
  PROVE  c.note \in Notes /\ [c EXCEPT !.recorded = TRUE] \in [note : Notes, recorded : BOOLEAN]
<1>1. c \in [note : Notes, recorded : BOOLEAN]
  BY DEF TypeOK
<1>2. QED
  BY <1>1

\* A notification
LEMMA NotificationType ==
  ASSUME TypeInv,
         \/ \E k \in Keys : Send(k) \/ SendFails(k) \/ SetReminderFired(k) \/ SetReminderFiredFails(k)
         \/ \E c \in current : Remember(c)
  PROVE  TypeOK'
<1> USE DEF noteVars, TypeInv
<1>1. CASE \E k \in Keys : Send(k)
  <2>1. PICK k \in Keys : Send(k)
    BY <1>1
  <2> DEFINE n == [id |-> FreshId, key |-> k]
  <2>2. n \in Notes
    BY FreshIdIsFresh DEF Notes
  <2>3. [note |-> n, recorded |-> FALSE] \in [note : Notes, recorded : BOOLEAN]
    BY <2>2
  <2>4. /\ todo' = todo \ {k}
        /\ current' = {[note |-> n, recorded |-> FALSE]}
        /\ open' = open \cup {n}
        /\ sent' = [sent EXCEPT ![k] = @ + 1]
        /\ UNCHANGED <<now, enabled, plan, states, pc, timer, wake, tickNow, view, pending, closing, used>>
    BY <2>1 DEF Send
  <2> HIDE DEF n
  <2>5. QED
    BY <2>2, <2>3, <2>4 DEF TypeOK
<1>2. CASE \E k \in Keys : SendFails(k)
  <2>1. used' \in [Budgets -> Nat]
    BY <1>2, SpendType DEF SendFails, Budgets
  <2>2. QED
    BY <1>2, <2>1 DEF SendFails, TypeOK
<1>3. CASE \E k \in Keys : SetReminderFired(k)
  <2>1. current' \subseteq [note : Notes, recorded : BOOLEAN]
    BY <1>3, CurrentType DEF SetReminderFired, Recorded
  <2>2. states' \in [Keys -> Rows]
    BY <1>3 DEF SetReminderFired, TypeOK, Fired, Rows
  <2>3. QED
    BY <1>3, <2>1, <2>2 DEF SetReminderFired, TypeOK
<1>4. CASE \E k \in Keys : SetReminderFiredFails(k)
  <2>1. current' \subseteq [note : Notes, recorded : BOOLEAN]
    BY <1>4, CurrentType DEF SetReminderFiredFails, Recorded
  <2>2. used' \in [Budgets -> Nat]
    BY <1>4, SpendType DEF SetReminderFiredFails, Budgets
  <2>3. QED
    BY <1>4, <2>1, <2>2 DEF SetReminderFiredFails, TypeOK
<1>5. CASE \E c \in current : Remember(c)
  BY <1>5, CurrentType DEF Remember, TypeOK
<1>6. QED
  BY <1>1, <1>2, <1>3, <1>4, <1>5

\* The user and the world
LEMMA UserType ==
  ASSUME TypeOK,
         \/ \E n \in open : Snooze(n) \/ SnoozeStart(n) \/ Close(n)
         \/ \E n \in closing : HandleClosed(n)
         \/ \E i \in Items, p \in Plans \cup {NoPlan} : Change(i, p)
         \/ \E b \in BOOLEAN : SetEnabled(b)
         \/ \E d \in 1..MaxTime : Pass(d)
         \/ End
  PROVE  TypeOK'
<1> USE DEF loopVars, noteVars
<1>1. CASE \E n \in open : Snooze(n) \/ SnoozeStart(n)
  <2>1. PICK n \in open : Snooze(n) \/ SnoozeStart(n)
    BY <1>1
  <2>2. n.key \in Keys /\ n \in Notes
    BY DEF TypeOK, Notes
  <2>3. now + SnoozeLength \in Nat /\ n.key.start \in Nat
    BY <2>2, KeyType, ConstantsAssumption DEF TypeOK
  <2>4. used' \in [Budgets -> Nat]
    BY <2>1, SpendType DEF Snooze, SnoozeStart, Budgets
  <2>5. \A t \in Nat : SnoozeReminder(n.key, t) => states' \in [Keys -> Rows] /\ sent' \in [Keys -> Nat]
    BY <2>2 DEF SnoozeReminder, Snoozed, Rows, TypeOK
  <2>6. states' \in [Keys -> Rows] /\ sent' \in [Keys -> Nat]
    BY <2>1, <2>3, <2>5 DEF Snooze, SnoozeStart, TypeOK
  <2>7. QED
    BY <2>1, <2>2, <2>4, <2>6 DEF Snooze, SnoozeStart, Dismiss, TypeOK
<1>2. CASE \E n \in open : Close(n)
  BY <1>2 DEF Close, TypeOK
<1>3. CASE \E n \in closing : HandleClosed(n)
  BY <1>3 DEF HandleClosed, TypeOK
<1>4. CASE \E i \in Items, p \in Plans \cup {NoPlan} : Change(i, p)
  <2>1. used' \in [Budgets -> Nat]
    BY <1>4, SpendType DEF Change, Budgets
  <2>2. wake' \in BOOLEAN
    BY <1>4, Zenon DEF Change
  <2>3. QED
    BY <1>4, <2>1, <2>2 DEF Change, TypeOK
<1>5. CASE \E b \in BOOLEAN : SetEnabled(b)
  <2>1. used' \in [Budgets -> Nat]
    BY <1>5, SpendType DEF SetEnabled, Budgets
  <2>2. QED
    BY <1>5, <2>1 DEF SetEnabled, TypeOK
<1>6. CASE \E d \in 1..MaxTime : Pass(d)
  <2>1. used' \in [Budgets -> Nat]
    BY <1>6, SpendType DEF Pass, Budgets, TypeOK
  <2>2. now' \in Nat /\ now' >= now /\ MaxWake \in Nat
    BY <1>6, ConstantsAssumption DEF Pass, TypeOK
  <2>3. QED
    BY <1>6, <2>1, <2>2 DEF Pass, TypeOK
<1>7. CASE End
  BY <1>7 DEF End, vars, TypeOK
<1>8. QED
  BY <1>1, <1>2, <1>3, <1>4, <1>5, <1>6, <1>7

\* Every step is one of these.
LEMMA Steps ==
  ASSUME Next
  PROVE  \/ Start \/ TakeWake \/ Tick \/ TickFails \/ TickTasks \/ TickDone \/ Park \/ ParkBlind \/ Crash
         \/ \E k \in Keys : Send(k) \/ SendFails(k) \/ SetReminderFired(k) \/ SetReminderFiredFails(k)
         \/ \E c \in current : Remember(c)
         \/ \E n \in open : Snooze(n) \/ SnoozeStart(n) \/ Close(n)
         \/ \E n \in closing : HandleClosed(n)
         \/ \E i \in Items, p \in Plans \cup {NoPlan} : Change(i, p)
         \/ \E b \in BOOLEAN : SetEnabled(b)
         \/ \E d \in 1..MaxTime : Pass(d)
         \/ End
BY DEF Next, LoopStep

\* A step adds one id at most to those in use.
LEMMA NewIds ==
  ASSUME TypeOK, [Next]_vars PROVE \E id : Ids' \subseteq Ids \cup {id}
<1> USE DEF loopVars, noteVars, Ids
<1>1. CASE \E k \in Keys : Send(k)
  BY <1>1 DEF Send
<1>2. CASE \E c \in current : Remember(c)
  BY <1>2 DEF Remember
<1>3. CASE Crash
  BY <1>3 DEF Crash
<1>4. CASE \E n \in open : Snooze(n) \/ SnoozeStart(n) \/ Close(n)
  BY <1>4 DEF Snooze, SnoozeStart, Close, Dismiss
<1>5. CASE \E n \in closing : HandleClosed(n)
  BY <1>5 DEF HandleClosed
<1>6. CASE UNCHANGED <<pending, open, closing>>
  BY <1>6
<1>7. QED
  <2>1. CASE Next
    BY <1>1, <1>2, <1>3, <1>4, <1>5, <1>6, <2>1, Steps
       DEF Start, TakeWake, Tick, TickFails, TickTasks, TickDone, Park, ParkBlind, SendFails,
           SetReminderFired, SetReminderFiredFails, Change, SetEnabled, Pass, End, vars
  <2>2. QED
    BY <1>6, <2>1 DEF vars

LEMMA NextType == TypeInv /\ [Next]_vars => TypeInv'
<1> SUFFICES ASSUME TypeInv, [Next]_vars PROVE TypeInv'
  OBVIOUS
<1>1. TypeOK'
  <2>1. CASE Next
    BY <2>1, Steps, LoopType, NotificationType, UserType DEF TypeInv
  <2>2. CASE UNCHANGED vars
    BY <2>2 DEF vars, loopVars, noteVars, TypeOK, TypeInv
  <2>3. QED
    BY <2>1, <2>2
<1>2. IsFiniteSet(Ids')
  <2>1. PICK id : Ids' \subseteq Ids \cup {id}
    BY NewIds DEF TypeInv
  <2>2. IsFiniteSet(Ids \cup {id})
    BY FS_AddElement DEF TypeInv
  <2>3. QED
    BY <2>1, <2>2, FS_Subset
<1>3. QED
  BY <1>1, <1>2 DEF TypeInv

\* The reminders' rows, the loop and the notifications hold values of their
\* kinds; a parked loop never sleeps for longer than maxWake.
THEOREM TypeCorrect == Spec => []TypeOK
<1>1. TypeInv => TypeOK
  BY DEF TypeInv
<1>2. QED
  BY <1>1, InitType, NextType, PTL DEF Spec

----------------------------------------------------------------------------
\* The inductive invariant

\* Times that a notification was shown and its row not written: a crash between
\* the two, or a write that failed.
Excess == used["crashes"] + used["records"]

IsFired(row) == row.seen /\ row.until = 0

RowsInv ==
  /\ \A k \in Keys : ~states[k].seen => states[k].until = 0
  /\ \A k \in Keys : ~view[k].seen => view[k].until = 0
  /\ pc = "down" /\ Excess = 0 => \A k \in Keys : states[k].until = 0

\* A pass records one notification at a time, and has done with the events when
\* it comes to the tasks.
PassInv ==
  /\ \A c, d \in current : c = d
  /\ \A c \in current : c.note.key \notin todo /\ c.note \notin pending
  /\ pc \notin {"events", "tasks"} => current = {} /\ todo = {}
  /\ pc = "events" => \A k \in todo : ~k.task
  /\ pc = "events" => \A c \in current : ~c.note.key.task

\* May the loop still send k, if the rows stay as they are?
Fireable(k) ==
  \/ pc = "down"
  \/ k \in todo
  \/ ~IsFired(states[k]) /\ ~Recording(k)
  \/ pc = "events" /\ k.task /\ ~IsFired(view[k])

SentInv ==
  \A k \in Keys : Remembered(k) =>
    /\ sent[k] <= 1 + Excess
    /\ Fireable(k) => sent[k] <= Excess

\* A notification that was closed is off the screen for good; one that is on the
\* screen is pending, or about to be.
Noted == \A n \in open : used["crashes"] = 0 => n \in pending \/ \E c \in current : c.note = n

NotesInv == open \cap closing = {} /\ Noted

\* The reminders that a pass fires, or has still to record.
Firing(k) ==
  \/ k \in todo
  \/ Recording(k)
  \/ pc = "events" /\ k.task /\ ~IsFired(view[k]) /\ view[k].until <= tickNow

\* While nothing is lost: a reminder has one notification at most on the screen,
\* which is the one being recorded if there is one; it has none while a snooze
\* of it is running, and no pass fires it then.
SnoozeInv ==
  Excess = 0 =>
    /\ \A n \in open : Remembered(n.key) => sent[n.key] >= 1 /\ states[n.key].until <= now
    /\ \A n, m \in open : Remembered(n.key) /\ n.key = m.key => n = m
    /\ \A n \in open : \A c \in current : Remembered(n.key) /\ c.note.key = n.key => c.note = n
    /\ \A k \in Keys : Remembered(k) /\ Firing(k) => states[k].until <= now

FiringInv == RowsInv /\ PassInv /\ SentInv /\ NotesInv /\ SnoozeInv
IInv == TypeInv /\ tickNow <= now /\ FiringInv

----------------------------------------------------------------------------
\* What the steps have in common

LEMMA SpendOther ==
  ASSUME TypeOK, NEW b, b \notin {"crashes", "records"}, Spend(b)
  PROVE  Excess' = Excess /\ used'["crashes"] = used["crashes"]
BY SpendStep DEF TypeOK, Excess, Budgets

LEMMA SpendExcess ==
  ASSUME TypeOK, Spend("crashes") \/ Spend("records")
  PROVE  Excess' = Excess + 1 /\ Excess \in Nat
<1>1. used \in [Budgets -> Nat] /\ "crashes" \in Budgets /\ "records" \in Budgets
  BY DEF TypeOK, Budgets
<1>2. CASE Spend("crashes")
  BY <1>1, <1>2, SpendStep DEF Excess
<1>3. CASE Spend("records")
  BY <1>1, <1>3, SpendStep DEF Excess
<1>4. QED
  BY <1>2, <1>3

LEMMA ExcessType ==
  ASSUME TypeOK PROVE Excess \in Nat /\ used["crashes"] \in Nat
BY DEF TypeOK, Excess, Budgets

\* A pass fires nothing whose row is fired, or snoozed beyond the time of the
\* pass: the window of rows that it loads has every row of a due reminder.
LEMMA FireSetRows ==
  ASSUME TypeOK, NEW tasks \in BOOLEAN, NEW rows \in [Keys -> Rows], NEW t \in Nat,
         \A k \in Keys : ~rows[k].seen => rows[k].until = 0,
         NEW k \in FireSet(tasks, rows, t)
  PROVE  /\ k \in Keys /\ k.task = tasks
         /\ Remembered(k) => ~IsFired(rows[k]) /\ rows[k].until <= t
<1>1. PICK i \in Items : /\ k = Key(i, plan[i]) /\ IsTask(plan[i]) = tasks
                         /\ Candidate(plan[i], t)
                         /\ ToFire(plan[i], k, rows, t)
  BY DEF FireSet
<1>2. k \in Keys /\ plan[i] \in Plans
  BY <1>1, CandidateKey
<1>3. k.task = tasks
  BY <1>1 DEF Key
<1>4. ASSUME Remembered(k) PROVE ~IsFired(rows[k]) /\ rows[k].until <= t
  <2>1. CASE Row(rows, k, t) = rows[k]
    BY <1>1, <1>2, <2>1 DEF ToFire, IsFired, Rows
  <2>2. CASE Row(rows, k, t) # rows[k]
    <3>1. Row(rows, k, t) = Unseen /\ ~(t <= k.start + StateFloor /\ k.start <= t + Lookahead)
      BY <2>2 DEF Row
    <3>2. Due(plan[i], t)
      BY <1>1, <3>1 DEF ToFire, Unseen
    <3>3. k.start = plan[i].start /\ k.at = plan[i].at
      BY <1>1 DEF Key
    <3>4. k.start \in Nat /\ k.at \in Nat
      BY <1>2, KeyType
    <3>5. k.at <= t /\ (t < k.start + StartGrace \/ t < k.at + AllDayLate \/ t < k.at + StartGrace)
      BY <3>2, <3>3 DEF Due
    <3>6. QED
      BY <1>4, <3>1, <3>4, <3>5, ConstantsAssumption DEF Remembered
  <2>3. QED
    BY <2>1, <2>2
<1>5. QED
  BY <1>2, <1>3, <1>4

----------------------------------------------------------------------------
\* The steps

LEMMA InitFiring == Init => tickNow <= now /\ FiringInv
<1> SUFFICES ASSUME Init PROVE tickNow <= now /\ FiringInv
  OBVIOUS
<1>1. Excess = 0
  BY DEF Init, Excess, Budgets
<1>2. QED
  BY <1>1 DEF Init, FiringInv, RowsInv, PassInv, SentInv, NotesInv, SnoozeInv, Noted,
              Unseen, Firing, Recording

\* Steps of others that touch neither rows nor notifications
LEMMA QuietStep ==
  ASSUME IInv, TypeOK',
         UNCHANGED <<states, pc, tickNow, view, todo, current, noteVars>>,
         now <= now', Excess' = Excess, used'["crashes"] = used["crashes"]
  PROVE  FiringInv'
<1> USE DEF IInv, TypeInv, FiringInv, noteVars
<1>1. RowsInv' /\ PassInv'
  BY DEF RowsInv, PassInv
<1>2. \A k : /\ Fireable(k)' <=> Fireable(k)
             /\ Firing(k)' <=> Firing(k)
             /\ Remembered(k)' <=> Remembered(k)
  BY DEF Fireable, Firing, Recording, Remembered
<1>3. SentInv'
  BY <1>2 DEF SentInv
<1>4. NotesInv'
  BY DEF NotesInv, Noted
<1>5. \A k \in Keys : states[k].until <= now => states'[k].until <= now'
  BY DEF TypeOK, Rows
<1>6. \A n \in open : n.key \in Keys
  BY DEF TypeOK, Notes
<1>7. SnoozeInv'
  BY <1>2, <1>5, <1>6 DEF SnoozeInv
<1>8. QED
  BY <1>1, <1>3, <1>4, <1>7

\* The loop ends a pass, or does without one.
LEMMA PassEnds ==
  ASSUME IInv, TypeOK', TickFails \/ TickDone \/ Park \/ ParkBlind
  PROVE  FiringInv'
<1> USE DEF IInv, TypeInv, FiringInv, noteVars
<1>1. /\ UNCHANGED <<now, states, todo, current, noteVars>>
      /\ view' \in {view, [k \in Keys |-> Unseen]}
      /\ pc' \in {"park", "parked"} /\ pc # "down"
      /\ todo = {} /\ current = {}
  BY DEF TickFails, TickDone, Park, ParkBlind, PassInv
<1>2. Excess' = Excess /\ used'["crashes"] = used["crashes"]
  BY SpendOther DEF TickFails, TickDone, Park, ParkBlind, Excess
<1>3. RowsInv'
  BY <1>1, <1>2 DEF RowsInv, Unseen
<1>4. PassInv'
  BY <1>1 DEF PassInv
<1>5. SentInv'
  BY <1>1, <1>2 DEF SentInv, Fireable, Recording, Remembered
<1>6. NotesInv'
  BY <1>1, <1>2 DEF NotesInv, Noted
<1>7. SnoozeInv'
  BY <1>1, <1>2 DEF SnoozeInv, Firing, Recording, Remembered
<1>8. QED
  BY <1>3, <1>4, <1>5, <1>6, <1>7

\* The loop comes back with the rows that were not pruned: nothing is sent that
\* the crash has not been counted for.
LEMMA StartStep ==
  ASSUME IInv, TypeOK', Start PROVE FiringInv'
<1> USE DEF IInv, TypeInv, FiringInv, noteVars
<1>1. /\ UNCHANGED <<now, view, todo, current, noteVars, used>>
      /\ states' = [k \in Keys |-> IF k.start + PruneAfter < now THEN Unseen ELSE states[k]]
      /\ pc = "down" /\ pc' = "parked" /\ todo = {} /\ current = {}
  BY DEF Start, PassInv
<1>2. Excess' = Excess
  BY <1>1 DEF Excess
<1>3. \A k \in Keys : states'[k] \in {Unseen, states[k]}
  BY <1>1
<1>4. RowsInv'
  BY <1>1, <1>2, <1>3 DEF RowsInv, Unseen
<1>5. PassInv'
  BY <1>1 DEF PassInv
<1>6. SentInv'
  BY <1>1, <1>2 DEF SentInv, Fireable, Remembered
<1>7. NotesInv'
  BY <1>1 DEF NotesInv, Noted
<1>8. SnoozeInv'
  <2>1. \A n \in open : n.key \in Keys
    BY DEF TypeOK, Notes
  <2>2. \A k \in Keys : Excess = 0 => states'[k].until <= now
    BY <1>1, <1>3 DEF RowsInv, Unseen, TypeOK
  <2>3. QED
    BY <1>1, <1>2, <2>1, <2>2 DEF SnoozeInv, Firing, Recording, Remembered
<1>9. QED
  BY <1>4, <1>5, <1>6, <1>7, <1>8

LEMMA CrashStep ==
  ASSUME IInv, TypeOK', Crash PROVE FiringInv'
<1> USE DEF IInv, TypeInv, FiringInv
<1>1. /\ view' = [k \in Keys |-> Unseen] /\ todo' = {} /\ current' = {} /\ closing' = {}
      /\ UNCHANGED <<states, open, sent>>
      /\ Spend("crashes") /\ pc' = "down"
  BY DEF Crash
<1>2. Excess' = Excess + 1 /\ Excess \in Nat /\ Excess' # 0
  BY <1>1, SpendExcess
<1>3. RowsInv'
  BY <1>1, <1>2 DEF RowsInv, Unseen
<1>4. PassInv'
  BY <1>1 DEF PassInv
<1>5. SentInv'
  BY <1>1, <1>2 DEF SentInv, Remembered, TypeOK
<1>6. NotesInv'
  <2>1. used["crashes"] \in Nat /\ used'["crashes"] = used["crashes"] + 1
    BY <1>1, SpendStep, ExcessType DEF TypeOK, Budgets
  <2>2. QED
    BY <1>1, <2>1 DEF NotesInv, Noted
<1>7. SnoozeInv'
  BY <1>2 DEF SnoozeInv
<1>8. QED
  BY <1>3, <1>4, <1>5, <1>6, <1>7

\* The pass reads the rows: what it fires is not fired and not snoozed.
LEMMA TickStep ==
  ASSUME IInv, TypeOK', Tick PROVE FiringInv'
<1> USE DEF IInv, TypeInv, FiringInv, noteVars
<1>1. /\ UNCHANGED <<now, states, current, noteVars, used>>
      /\ pc = "parked" /\ pc' \in {"events", "park"} /\ current = {} /\ todo = {}
      /\ pc' = "events" => tickNow' = now /\ view' = states /\ todo' = FireSet(FALSE, states, now)
      /\ pc' = "park" => UNCHANGED <<tickNow, view, todo>>
  BY DEF Tick, PassInv
<1>2. Excess' = Excess
  BY <1>1 DEF Excess
<1>3. \A k \in todo' : /\ pc' = "events" /\ k \in Keys /\ ~k.task
                       /\ Remembered(k) => ~IsFired(states[k]) /\ states[k].until <= now
  <2>1. \A k \in FireSet(FALSE, states, now) :
          /\ k \in Keys /\ k.task = FALSE
          /\ Remembered(k) => ~IsFired(states[k]) /\ states[k].until <= now
    BY FireSetRows DEF TypeOK, RowsInv
  <2>2. QED
    BY <1>1, <2>1
<1>4. RowsInv'
  BY <1>1, <1>2 DEF RowsInv
<1>5. PassInv'
  BY <1>1, <1>3 DEF PassInv
<1>6. SentInv'
  BY <1>1, <1>2, <1>3 DEF SentInv, Fireable, Recording, Remembered
<1>7. NotesInv'
  BY <1>1 DEF NotesInv, Noted
<1>8. SnoozeInv'
  BY <1>1, <1>2, <1>3 DEF SnoozeInv, Firing, Recording, Remembered
<1>9. QED
  BY <1>4, <1>5, <1>6, <1>7, <1>8

\* The tasks are told by the rows of the beginning of the pass.
LEMMA TickTasksStep ==
  ASSUME IInv, TypeOK', TickTasks PROVE FiringInv'
<1> USE DEF IInv, TypeInv, FiringInv, noteVars
<1>1. /\ UNCHANGED <<now, states, view, current, noteVars, used>>
      /\ pc = "events" /\ pc' = "tasks" /\ current = {} /\ todo = {}
      /\ todo' = FireSet(TRUE, view, tickNow)
  BY DEF TickTasks
<1>2. Excess' = Excess
  BY <1>1 DEF Excess
<1>3. \A k \in todo' : /\ k \in Keys /\ k.task
                       /\ Remembered(k) => ~IsFired(view[k]) /\ view[k].until <= tickNow
  BY <1>1, FireSetRows DEF TypeOK, RowsInv
<1>4. RowsInv'
  BY <1>1, <1>2 DEF RowsInv
<1>5. PassInv'
  BY <1>1 DEF PassInv
<1>6. SentInv'
  BY <1>1, <1>2, <1>3 DEF SentInv, Fireable, Recording, Remembered
<1>7. NotesInv'
  BY <1>1 DEF NotesInv, Noted
<1>8. SnoozeInv'
  BY <1>1, <1>2, <1>3 DEF SnoozeInv, Firing, Recording, Remembered
<1>9. QED
  BY <1>4, <1>5, <1>6, <1>7, <1>8

\* A reminder that the pass has still to fire goes out under an id that is new.
LEMMA SendStep ==
  ASSUME IInv, TypeOK', NEW k \in Keys, Send(k) PROVE FiringInv'
<1> USE DEF IInv, TypeInv, FiringInv
<1> DEFINE n == [id |-> FreshId, key |-> k]
<1>1. /\ UNCHANGED <<now, states, pc, tickNow, view, pending, closing, used>>
      /\ pc \in {"events", "tasks"} /\ current = {} /\ k \in todo
      /\ todo' = todo \ {k}
      /\ current' = {[note |-> n, recorded |-> FALSE]}
      /\ open' = open \cup {n}
      /\ sent' = [sent EXCEPT ![k] = @ + 1]
  BY DEF Send
<1>2. n.key = k /\ n \notin pending \cup open \cup closing
  BY FreshIdIsFresh DEF Ids
<1> HIDE DEF n
<1>3. Excess' = Excess /\ Excess \in Nat
  BY <1>1, ExcessType DEF Excess
<1>4. \A c \in current' : c.note = n
  BY <1>1
<1>5. /\ Recording(k)'
      /\ \A j : ~Recording(j) /\ (Recording(j)' => j = k)
  BY <1>1, <1>2 DEF Recording
<1>6. /\ sent[k] \in Nat /\ sent'[k] = sent[k] + 1
      /\ \A j \in Keys : j # k => sent'[j] = sent[j]
  BY <1>1 DEF TypeOK
<1>7. Remembered(k) => sent[k] <= Excess
  BY <1>1 DEF SentInv, Fireable
<1>8. RowsInv'
  BY <1>1, <1>3 DEF RowsInv
<1>9. PassInv'
  BY <1>1, <1>2, <1>4 DEF PassInv
<1>10. SentInv'
  <2>1. ~Fireable(k)'
    BY <1>1, <1>5 DEF Fireable, PassInv
  <2>2. \A j \in Keys : j # k /\ Fireable(j)' => Fireable(j)
    BY <1>1, <1>5 DEF Fireable
  <2>3. QED
    BY <1>3, <1>6, <1>7, <2>1, <2>2 DEF SentInv, Remembered, TypeOK
<1>11. NotesInv'
  <2>1. \E c \in current' : c.note = n
    BY <1>1
  <2>2. QED
    BY <1>1, <1>2, <2>1 DEF NotesInv, Noted
<1>12. SnoozeInv'
  <2> SUFFICES ASSUME Excess = 0 PROVE SnoozeInv'
    BY <1>3 DEF SnoozeInv
  <2>1. \A m \in open : m.key \in Keys
    BY DEF TypeOK, Notes
  <2>2. Remembered(k) => \A m \in open : m.key # k
    BY <1>6, <1>7 DEF SnoozeInv
  <2>3. Firing(k) /\ \A j \in Keys : Firing(j)' => Firing(j)
    BY <1>1, <1>5 DEF Firing
  <2>4. Remembered(k) => states[k].until <= now
    BY <2>3 DEF SnoozeInv
  <2>5. \A m \in open' : Remembered(m.key)' => sent'[m.key] >= 1 /\ states'[m.key].until <= now'
    BY <1>1, <1>2, <1>6, <2>1, <2>2, <2>4 DEF SnoozeInv, Remembered
  <2>6. \A m, o \in open' : Remembered(m.key)' /\ m.key = o.key => m = o
    BY <1>1, <1>2, <2>2 DEF SnoozeInv, Remembered
  <2>7. \A m \in open' : \A c \in current' : Remembered(m.key)' /\ c.note.key = m.key => c.note = m
    BY <1>1, <1>2, <1>4, <2>2 DEF Remembered
  <2>8. \A j \in Keys : Remembered(j)' /\ Firing(j)' => states'[j].until <= now'
    BY <1>1, <2>3 DEF SnoozeInv, Remembered
  <2>9. QED
    BY <2>5, <2>6, <2>7, <2>8 DEF SnoozeInv
<1>13. QED
  BY <1>8, <1>9, <1>10, <1>11, <1>12

LEMMA SendFailsStep ==
  ASSUME IInv, TypeOK', NEW k \in Keys, SendFails(k) PROVE FiringInv'
<1> USE DEF IInv, TypeInv, FiringInv, noteVars
<1>1. /\ UNCHANGED <<now, states, pc, tickNow, view, current, noteVars>>
      /\ todo' = todo \ {k} /\ pc \in {"events", "tasks"}
  BY DEF SendFails
<1>2. Excess' = Excess /\ used'["crashes"] = used["crashes"]
  BY SpendOther DEF SendFails
<1>3. \A j : (Fireable(j)' => Fireable(j)) /\ (Firing(j)' => Firing(j))
  BY <1>1 DEF Fireable, Firing, Recording
<1>4. RowsInv' /\ PassInv'
  BY <1>1, <1>2 DEF RowsInv, PassInv
<1>5. SentInv'
  BY <1>1, <1>2, <1>3 DEF SentInv, Remembered
<1>6. NotesInv'
  BY <1>1, <1>2 DEF NotesInv, Noted
<1>7. SnoozeInv'
  BY <1>1, <1>2, <1>3 DEF SnoozeInv, Remembered
<1>8. QED
  BY <1>4, <1>5, <1>6, <1>7

\* What a write of the row makes of the notification being recorded
LEMMA RecordedNotes ==
  ASSUME IInv, Recorded
  PROVE  /\ \A d \in current' : d.recorded /\ \E c \in current : d.note = c.note
         /\ \A c \in current : \E d \in current' : d.note = c.note
         /\ \A c, d \in current' : c = d
         /\ \A j : ~Recording(j)'
<1> USE DEF IInv, TypeInv, FiringInv
<1>1. current' = { [c EXCEPT !.recorded = TRUE] : c \in current }
  BY DEF Recorded
<1>2. \A c \in current : /\ [c EXCEPT !.recorded = TRUE].recorded
                         /\ [c EXCEPT !.recorded = TRUE].note = c.note
  BY DEF TypeOK
<1>3. \A d \in current' : d.recorded /\ \E c \in current : d.note = c.note
  BY <1>1, <1>2
<1>4. \A c \in current : \E d \in current' : d.note = c.note
  BY <1>1, <1>2
<1>5. \A c, d \in current' : c = d
  BY <1>1 DEF PassInv
<1>6. QED
  BY <1>3, <1>4, <1>5 DEF Recording

\* The row is fired before the pass goes on.
LEMMA SetReminderFiredStep ==
  ASSUME IInv, TypeOK', NEW k \in Keys, SetReminderFired(k) PROVE FiringInv'
<1> USE DEF IInv, TypeInv, FiringInv, noteVars
<1>1. /\ UNCHANGED <<now, pc, tickNow, view, todo, noteVars, used>>
      /\ states' = [states EXCEPT ![k] = Fired]
      /\ Recorded /\ Recording(k)
  BY DEF SetReminderFired
<1>2. Excess' = Excess
  BY <1>1 DEF Excess
<1>3. /\ pc \in {"events", "tasks"}
      /\ \A j : Recording(j) => j = k
  BY <1>1 DEF Recording, PassInv
<1>4. /\ states'[k] = Fired
      /\ \A j \in Keys : j # k => states'[j] = states[j]
  BY <1>1 DEF TypeOK
<1>5. \A j : ~Recording(j)'
  BY <1>1, RecordedNotes
<1>6. \A j \in Keys : (Fireable(j)' => Fireable(j)) /\ (Firing(j)' => Firing(j))
  BY <1>1, <1>3, <1>4, <1>5 DEF Fireable, Firing, IsFired, Fired
<1>7. RowsInv'
  BY <1>1, <1>3, <1>4 DEF RowsInv, Fired
<1>8. PassInv'
  BY <1>1, <1>3, RecordedNotes DEF PassInv
<1>9. SentInv'
  BY <1>1, <1>2, <1>6 DEF SentInv, Remembered
<1>10. NotesInv'
  BY <1>1, RecordedNotes DEF NotesInv, Noted
<1>11. SnoozeInv'
  <2>1. \A n \in open : n.key \in Keys
    BY DEF TypeOK, Notes
  <2>2. \A j \in Keys : states[j].until <= now => states'[j].until <= now'
    BY <1>1, <1>4 DEF Fired, TypeOK
  <2>3. QED
    BY <1>1, <1>2, <1>6, <2>1, <2>2, RecordedNotes DEF SnoozeInv, Remembered
<1>12. QED
  BY <1>7, <1>8, <1>9, <1>10, <1>11

LEMMA SetReminderFiredFailsStep ==
  ASSUME IInv, TypeOK', NEW k \in Keys, SetReminderFiredFails(k) PROVE FiringInv'
<1> USE DEF IInv, TypeInv, FiringInv, noteVars
<1>1. /\ UNCHANGED <<now, states, pc, tickNow, view, todo, noteVars>>
      /\ Recorded /\ Recording(k) /\ Spend("records")
  BY DEF SetReminderFiredFails
<1>2. Excess' = Excess + 1 /\ Excess \in Nat /\ Excess' # 0
  BY <1>1, SpendExcess
<1>3. pc \in {"events", "tasks"}
  BY <1>1 DEF Recording, PassInv
<1>4. RowsInv'
  BY <1>1, <1>3 DEF RowsInv
<1>5. PassInv'
  BY <1>1, <1>3, RecordedNotes DEF PassInv
<1>6. SentInv'
  BY <1>1, <1>2 DEF SentInv, Remembered, TypeOK
<1>7. NotesInv'
  <2>1. used'["crashes"] = used["crashes"]
    BY <1>1, SpendStep DEF TypeOK, Budgets
  <2>2. QED
    BY <1>1, <2>1, RecordedNotes DEF NotesInv, Noted
<1>8. SnoozeInv'
  BY <1>2 DEF SnoozeInv
<1>9. QED
  BY <1>4, <1>5, <1>6, <1>7, <1>8

LEMMA RememberStep ==
  ASSUME IInv, TypeOK', NEW c \in current, Remember(c) PROVE FiringInv'
<1> USE DEF IInv, TypeInv, FiringInv
<1>1. /\ UNCHANGED <<now, states, pc, tickNow, view, todo, open, closing, sent, used>>
      /\ pending' = pending \cup {c.note}
      /\ current' = {} /\ c.recorded
      /\ \A d \in current : d = c
  BY DEF Remember, PassInv
<1>2. Excess' = Excess
  BY <1>1 DEF Excess
<1>3. \A j : ~Recording(j) /\ ~Recording(j)'
  BY <1>1 DEF Recording
<1>4. \A j : (Fireable(j)' <=> Fireable(j)) /\ (Firing(j)' <=> Firing(j))
  BY <1>1, <1>3 DEF Fireable, Firing
<1>5. RowsInv' /\ PassInv'
  BY <1>1, <1>2 DEF RowsInv, PassInv
<1>6. SentInv'
  BY <1>1, <1>2, <1>4 DEF SentInv, Remembered
<1>7. NotesInv'
  BY <1>1 DEF NotesInv, Noted
<1>8. SnoozeInv'
  BY <1>1, <1>2, <1>4 DEF SnoozeInv, Remembered
<1>9. QED
  BY <1>5, <1>6, <1>7, <1>8

\* The user snoozes the one notification on screen: no pass is about to fire it.
LEMMA SnoozeStep ==
  ASSUME IInv, TypeOK', NEW n \in open, NEW until \in Nat, SnoozeReminder(n.key, until),
         Dismiss(n), Answered(n), pc # "down", Excess' = Excess,
         UNCHANGED <<now, used["crashes"], loopVars, pending>>
  PROVE  FiringInv'
<1> USE DEF IInv, TypeInv, FiringInv, loopVars
<1> DEFINE k == n.key
<1>1. k \in Keys /\ \A m \in open : m.key \in Keys
  BY DEF TypeOK, Notes
<1>2. /\ states'[k] = Snoozed(until) /\ sent'[k] = 0
      /\ \A j \in Keys : j # k => states'[j] = states[j] /\ sent'[j] = sent[j]
  BY <1>1 DEF SnoozeReminder, TypeOK
<1>3. open' = open \ {n} /\ closing' = closing \cup {n} /\ n \in pending
  BY DEF Dismiss, Answered
<1> HIDE DEF k
<1>4. Excess \in Nat
  BY ExcessType
<1>5. \A j \in Keys : j # k => (Fireable(j)' <=> Fireable(j)) /\ (Firing(j)' <=> Firing(j))
  BY <1>2 DEF Fireable, Firing, Recording
<1>6. RowsInv'
  BY <1>2 DEF RowsInv, Snoozed
<1>7. PassInv'
  BY DEF PassInv
<1>8. SentInv'
  BY <1>2, <1>4, <1>5 DEF SentInv, Remembered
<1>9. NotesInv'
  BY <1>3 DEF NotesInv, Noted
<1>10. SnoozeInv'
  <2> SUFFICES ASSUME Excess = 0 PROVE SnoozeInv'
    BY DEF SnoozeInv
  <2>1. ASSUME Remembered(k) PROVE ~Firing(k)'
    <3>1. ~Fireable(k)
      BY <1>1, <2>1 DEF SentInv, SnoozeInv, TypeOK, k
    <3>2. ~Recording(k)
      BY <1>3, <2>1 DEF Recording, SnoozeInv, PassInv, k
    <3>3. QED
      BY <3>1, <3>2 DEF Firing, Fireable, Recording
  <2>2. \A m \in open' : Remembered(m.key) => m.key # k
    BY <1>3 DEF SnoozeInv, k
  <2>3. \A m \in open' : Remembered(m.key)' => sent'[m.key] >= 1 /\ states'[m.key].until <= now'
    BY <1>1, <1>2, <1>3, <2>2 DEF SnoozeInv, Remembered
  <2>4. /\ \A m, o \in open' : Remembered(m.key)' /\ m.key = o.key => m = o
        /\ \A m \in open' : \A c \in current' : Remembered(m.key)' /\ c.note.key = m.key => c.note = m
    BY <1>3 DEF SnoozeInv, Remembered
  <2>5. \A j \in Keys : Remembered(j)' /\ Firing(j)' => states'[j].until <= now'
    BY <1>2, <1>5, <2>1 DEF SnoozeInv, Remembered
  <2>6. QED
    BY <2>3, <2>4, <2>5 DEF SnoozeInv
<1>11. QED
  BY <1>6, <1>7, <1>8, <1>9, <1>10

\* A notification leaves the screen.
LEMMA CloseStep ==
  ASSUME IInv, TypeOK', NEW n \in open,
         open' = open \ {n}, closing' \subseteq closing \cup {n},
         Excess' = Excess, used'["crashes"] = used["crashes"],
         UNCHANGED <<now, states, loopVars, pending, sent>>
  PROVE  FiringInv'
<1> USE DEF IInv, TypeInv, FiringInv, loopVars
<1>1. RowsInv' /\ PassInv'
  BY DEF RowsInv, PassInv
<1>2. SentInv'
  BY DEF SentInv, Fireable, Recording, Remembered
<1>3. NotesInv'
  BY DEF NotesInv, Noted
<1>4. SnoozeInv'
  BY DEF SnoozeInv, Firing, Recording, Remembered
<1>5. QED
  BY <1>1, <1>2, <1>3, <1>4

\* What is closed is not on the screen, so the engine may forget it.
LEMMA HandleClosedStep ==
  ASSUME IInv, TypeOK', NEW n \in closing, HandleClosed(n) PROVE FiringInv'
<1> USE DEF IInv, TypeInv, FiringInv, loopVars
<1>1. /\ UNCHANGED <<now, states, loopVars, open, sent, used>>
      /\ closing' = closing \ {n} /\ pending' = pending \ {n}
  BY DEF HandleClosed
<1>2. Excess' = Excess
  BY <1>1 DEF Excess
<1>3. RowsInv' /\ PassInv'
  BY <1>1, <1>2 DEF RowsInv, PassInv
<1>4. SentInv'
  BY <1>1, <1>2 DEF SentInv, Fireable, Recording, Remembered
<1>5. NotesInv'
  BY <1>1 DEF NotesInv, Noted
<1>6. SnoozeInv'
  BY <1>1, <1>2 DEF SnoozeInv, Firing, Recording, Remembered
<1>7. QED
  BY <1>3, <1>4, <1>5, <1>6

LEMMA UserStep ==
  ASSUME IInv, TypeOK', NEW n \in open, Snooze(n) \/ SnoozeStart(n) \/ Close(n)
  PROVE  FiringInv'
<1> USE DEF IInv, TypeInv
<1>1. ASSUME Snooze(n) \/ SnoozeStart(n)
      PROVE  Excess' = Excess /\ used'["crashes"] = used["crashes"]
  BY <1>1, SpendOther DEF Snooze, SnoozeStart
<1>2. CASE Snooze(n)
  <2>1. now + SnoozeLength \in Nat
    BY ConstantsAssumption DEF TypeOK
  <2>2. QED
    BY <1>1, <1>2, <2>1, SnoozeStep DEF Snooze
<1>3. CASE SnoozeStart(n) /\ now < n.key.start
  <2>1. n.key.start \in Nat
    BY KeyType DEF TypeOK, Notes
  <2>2. QED
    BY <1>1, <1>3, <2>1, SnoozeStep DEF SnoozeStart
<1>4. CASE SnoozeStart(n) /\ ~(now < n.key.start)
  BY <1>1, <1>4, CloseStep DEF SnoozeStart, Dismiss
<1>5. CASE Close(n)
  <2>1. /\ open' = open \ {n}
        /\ closing' = IF pc = "down" THEN closing ELSE closing \cup {n}
        /\ UNCHANGED <<now, states, loopVars, pending, sent, used>>
    BY <1>5 DEF Close
  <2>2. QED
    BY <2>1, CloseStep DEF Excess
<1>6. QED
  BY <1>2, <1>3, <1>4, <1>5

\* The clock does not go back while a pass runs.
LEMMA TickNowStep ==
  ASSUME IInv, Next PROVE tickNow' <= now'
<1> USE DEF IInv, TypeInv, TypeOK
<1>1. CASE Tick
  <2>1. now' = now /\ now \in Nat /\ tickNow' \in {now, tickNow}
    BY <1>1 DEF Tick
  <2>2. QED
    BY <2>1
<1>2. CASE Park \/ ParkBlind \/ Crash
  <2>1. tickNow' = 0 /\ now' = now /\ now \in Nat
    BY <1>2 DEF Park, ParkBlind, Crash
  <2>2. QED
    BY <2>1
<1>3. CASE UNCHANGED <<now, tickNow>>
  BY <1>3
<1>4. CASE \E d \in 1..MaxTime : Pass(d)
  <2>1. PICK d \in 1..MaxTime : Pass(d)
    BY <1>4
  <2>2. /\ d \in Nat /\ now \in Nat /\ tickNow \in Nat /\ tickNow <= now
        /\ now' = now + d /\ tickNow' = tickNow
    BY <2>1, ConstantsAssumption DEF Pass, loopVars
  <2>3. QED
    BY <2>2
<1>5. QED
  BY <1>1, <1>2, <1>3, <1>4, Steps
     DEF Start, TakeWake, TickFails, TickTasks, TickDone, Send, SendFails, SetReminderFired,
         SetReminderFiredFails, Remember, Snooze, SnoozeStart, Close, HandleClosed, Change,
         SetEnabled, End, vars, loopVars

LEMMA NextFiring == IInv /\ TypeOK' /\ [Next]_vars => FiringInv'
<1> SUFFICES ASSUME IInv, TypeOK', [Next]_vars PROVE FiringInv'
  OBVIOUS
<1> USE DEF loopVars, noteVars
<1>1. now \in Nat /\ TypeOK
  BY DEF IInv, TypeInv, TypeOK
<1>2. CASE TakeWake \/ UNCHANGED vars
  <2>1. now <= now' /\ UNCHANGED used
    BY <1>1, <1>2 DEF TakeWake, vars
  <2>2. QED
    BY <1>2, <2>1, QuietStep DEF TakeWake, vars, Excess
<1>3. CASE \/ \E i \in Items, p \in Plans \cup {NoPlan} : Change(i, p)
           \/ \E b \in BOOLEAN : SetEnabled(b)
  <2>1. now <= now' /\ Excess' = Excess /\ used'["crashes"] = used["crashes"]
    BY <1>1, <1>3, SpendOther DEF Change, SetEnabled
  <2>2. QED
    BY <1>3, <2>1, QuietStep DEF Change, SetEnabled
<1>4. CASE \E d \in 1..MaxTime : Pass(d)
  <2>1. PICK d \in 1..MaxTime : Pass(d)
    BY <1>4
  <2>2. now <= now'
    BY <1>1, <2>1, ConstantsAssumption DEF Pass
  <2>3. Excess' = Excess /\ used'["crashes"] = used["crashes"]
    BY <1>1, <2>1, SpendOther DEF Pass, Excess
  <2>4. QED
    BY <2>1, <2>2, <2>3, QuietStep DEF Pass
<1>5. CASE Next
  BY <1>2, <1>3, <1>4, <1>5, Steps, PassEnds, StartStep, CrashStep, TickStep, TickTasksStep,
     SendStep, SendFailsStep, SetReminderFiredStep, SetReminderFiredFailsStep, RememberStep,
     UserStep, HandleClosedStep DEF End
<1>6. QED
  BY <1>2, <1>5

LEMMA Inductive == IInv /\ [Next]_vars => IInv'
<1> SUFFICES ASSUME IInv, [Next]_vars PROVE IInv'
  OBVIOUS
<1>1. TypeInv'
  BY NextType DEF IInv
<1>2. FiringInv'
  BY <1>1, NextFiring DEF TypeInv
<1>3. tickNow' <= now'
  BY TickNowStep DEF vars, loopVars, IInv
<1>4. QED
  BY <1>1, <1>2, <1>3 DEF IInv

LEMMA Invariant == Spec => []IInv
<1>1. Init => IInv
  BY InitType, InitFiring DEF IInv
<1>2. QED
  BY <1>1, Inductive, PTL DEF Spec

----------------------------------------------------------------------------
\* The theorems

\* Each trigger whose row the window of a pass holds fires once, and once more
\* after each snooze, but for crashes and failed writes between the notification
\* and its row; whatever happens to the calendar, the settings, the clock and
\* the notifications.
THEOREM FiredOnceHolds == Spec => []FiredOnce
<1>1. IInv => FiredOnce
  BY DEF IInv, TypeInv, TypeOK, Budgets, FiringInv, SentInv, FiredOnce, Excess
<1>2. QED
  BY <1>1, Invariant, PTL

\* Between passes the engine can answer the buttons of every notification that is on
\* the screen, as long as the daemon that sent it runs; in a pass, of all but the one
\* sent last, whose id it has still to note.
THEOREM ButtonsWorkHolds == Spec => []ButtonsWork
<1>1. IInv => ButtonsWork
  BY DEF IInv, FiringInv, PassInv, NotesInv, Noted, ButtonsWork
<1>2. QED
  BY <1>1, Invariant, PTL

\* No step cuts a running snooze short: neither a pass that read the rows before
\* the user snoozed, nor another notification of the same reminder.
THEOREM SnoozeKeptHolds == Spec => SnoozeKept
<1> DEFINE Kept == Untroubled({"crashes", "records"}) =>
             \A k \in Keys : Remembered(k) /\ now < states[k].until => states'[k].until >= states[k].until
<1>1. IInv /\ [Next]_vars => [Kept]_states
  <2> SUFFICES ASSUME IInv, Next, states' # states, Excess = 0,
                      NEW k \in Keys, Remembered(k), now < states[k].until
               PROVE  states'[k].until >= states[k].until
    BY DEF Untroubled, vars, Excess
  <2> USE DEF IInv, TypeInv, FiringInv
  <2>1. now \in Nat /\ states[k].until \in Nat /\ states \in [Keys -> Rows]
    BY DEF TypeOK, Rows
  <2>2. CASE Start
    BY <2>1, <2>2 DEF Start, RowsInv
  <2>3. CASE \E j \in Keys : SetReminderFired(j)
    <3>1. PICK j \in Keys : SetReminderFired(j)
      BY <2>3
    <3>2. Recording(j) /\ states' = [states EXCEPT ![j] = Fired]
      BY <3>1 DEF SetReminderFired
    <3>3. j # k
      BY <2>1, <3>2 DEF SnoozeInv, Firing
    <3>4. QED
      BY <2>1, <3>2, <3>3
  <2>4. CASE \E n \in open : Snooze(n) \/ SnoozeStart(n)
    <3>1. PICK n \in open : Snooze(n) \/ SnoozeStart(n)
      BY <2>4
    <3>2. PICK t : states' = [states EXCEPT ![n.key] = Snoozed(t)]
      BY <3>1 DEF Snooze, SnoozeStart, SnoozeReminder
    <3>3. n.key # k
      BY <2>1 DEF SnoozeInv
    <3>4. QED
      BY <2>1, <3>2, <3>3
  <2>5. QED
    BY <2>2, <2>3, <2>4, Steps
       DEF TakeWake, Tick, TickFails, TickTasks, TickDone, Park, ParkBlind, Crash, Send, SendFails,
           SetReminderFiredFails, Remember, Close, HandleClosed, Change, SetEnabled, Pass, End, vars
<1>2. QED
  BY <1>1, Invariant, PTL DEF Spec, SnoozeKept

----------------------------------------------------------------------------
\* What the loop knows while it sleeps

Troubles == {"slow", "sends", "records", "reads", "settings"}

\* A trigger that is due and has not fired.
Pressing(i) ==
  /\ Candidate(plan[i], now) /\ Due(plan[i], now)
  /\ ~states[Key(i, plan[i])].seen

\* The pass is at it, or the tasks are still to come.
Owed(i) ==
  LET k == Key(i, plan[i]) IN k \in todo \/ Recording(k) \/ (pc = "events" /\ k.task)

PassServes == pc \in {"events", "tasks", "park"} => \A i \in Items : Pressing(i) => Owed(i)

\* The timer fires before the trigger is due, or it is too late for it.
Known(i) == timer <= plan[i].at \/ (plan[i].at <= now /\ ~Due(plan[i], now))

TimerKnows ==
  pc = "parked" /\ now + Coalesce < timer =>
    \A i \in Items :
      plan[i] # NoPlan /\ ~states[Key(i, plan[i])].seen /\ Foreseen(Key(i, plan[i])) => Known(i)

\* What changed since the pass began, or since the loop went to sleep, has left a
\* token in the wake channel.
AwakeInv ==
  /\ used["settings"] = 0 => enabled
  /\ pc = "events" => \A k \in Keys : view[k].seen => states[k].seen
  /\ used["slow"] = 0 /\ pc \in {"events", "tasks"} => tickNow = now
  /\ Untroubled(Troubles) /\ ~wake => PassServes /\ TimerKnows

\* A trigger that has been missed stays so.
LEMMA MissedStays ==
  ASSUME NEW p \in Plans, NEW t \in Nat, NEW u \in Nat, t <= u, p.at <= t, ~Due(p, t)
  PROVE  p.at <= u /\ ~Due(p, u)
<1>1. p \in Plan /\ StartGrace \in Nat /\ AllDayLate \in Nat
  BY ConstantsAssumption
<1>2. p.at \in Nat /\ p.start \in Nat /\ p.end \in Nat
  BY <1>1 DEF Plan
<1>3. QED
  BY <1>1, <1>2 DEF Due

\* No step returns what was spent.
LEMMA Spending ==
  ASSUME TypeOK, NEW b, Spend(b) \/ UNCHANGED used
  PROVE  /\ \A c \in Budgets : used'[c] = 0 => used[c] = 0
         /\ Untroubled(Troubles)' => Untroubled(Troubles)
         /\ Spend(b) /\ b \in Budgets => used'[b] # 0
<1>1. used \in [Budgets -> Nat]
  BY DEF TypeOK
<1>2. Spend(b) => used' = [used EXCEPT ![b] = @ + 1]
  BY SpendStep
<1>3. \A c \in Budgets : used'[c] = 0 => used[c] = 0
  BY <1>1, <1>2
<1>4. Troubles \subseteq Budgets
  BY DEF Troubles, Budgets
<1>5. QED
  BY <1>1, <1>2, <1>3, <1>4 DEF Untroubled

LEMMA SpentTrouble ==
  ASSUME TypeOK, NEW b \in Troubles, Spend(b) PROVE ~Untroubled(Troubles)'
BY Spending DEF Untroubled, Troubles, Budgets

LEMMA InitAwake == Init => AwakeInv
BY DEF Init, AwakeInv, PassServes, TimerKnows

\* Reminders are only marked, and nothing else happens.
LEMMA MarkedAwake ==
  ASSUME TypeOK, AwakeInv,
         UNCHANGED <<now, enabled, plan, wake, pc, timer, tickNow, view, todo, current>>,
         \A k \in Keys : states[k].seen => states'[k].seen,
         NEW b, Spend(b) \/ UNCHANGED used
  PROVE  AwakeInv'
<1>1. \A c \in Budgets : used'[c] = 0 => used[c] = 0
  BY Spending
<1>2. Untroubled(Troubles)' => Untroubled(Troubles)
  BY Spending
<1>3. \A i \in Items : plan[i] # NoPlan => Key(i, plan[i]) \in Keys
  BY DEF TypeOK, Keys
<1>4. \A i \in Items : /\ Pressing(i)' => Pressing(i)
                       /\ Owed(i)' <=> Owed(i)
                       /\ Known(i)' <=> Known(i)
  BY <1>3 DEF Pressing, Owed, Known, Recording, Candidate
<1>5. PassServes => PassServes'
  BY <1>4 DEF PassServes
<1>6. TimerKnows => TimerKnows'
  BY <1>3, <1>4 DEF TimerKnows, Foreseen
<1>7. QED
  BY <1>1, <1>2, <1>5, <1>6 DEF AwakeInv, Budgets

\* The user, and what closes notifications
LEMMA UserAwake ==
  ASSUME TypeOK, AwakeInv,
         \/ \E n \in open : Snooze(n) \/ SnoozeStart(n) \/ Close(n)
         \/ \E n \in closing : HandleClosed(n)
  PROVE  AwakeInv'
<1> USE DEF loopVars
<1>1. CASE \E n \in open : Snooze(n) \/ SnoozeStart(n)
  <2>1. PICK n \in open : Snooze(n) \/ SnoozeStart(n)
    BY <1>1
  <2>2. \A t : SnoozeReminder(n.key, t) => \A k \in Keys : states[k].seen => states'[k].seen
    BY DEF SnoozeReminder, Snoozed, TypeOK
  <2>3. \A k \in Keys : states[k].seen => states'[k].seen
    BY <2>1, <2>2 DEF Snooze, SnoozeStart
  <2>4. QED
    BY <2>1, <2>3, MarkedAwake DEF Snooze, SnoozeStart
<1>2. CASE \E n \in open : Close(n)
  BY <1>2, MarkedAwake DEF Close
<1>3. CASE \E n \in closing : HandleClosed(n)
  BY <1>3, MarkedAwake DEF HandleClosed
<1>4. QED
  BY <1>1, <1>2, <1>3

\* The calendar wakes the loop; the settings do not.
LEMMA ChangeAwake ==
  ASSUME TypeOK, AwakeInv,
         \/ \E i \in Items, p \in Plans \cup {NoPlan} : Change(i, p)
         \/ \E b \in BOOLEAN : SetEnabled(b)
  PROVE  AwakeInv'
<1> USE DEF loopVars
<1>1. CASE \E i \in Items, p \in Plans \cup {NoPlan} : Change(i, p)
  <2>1. /\ Spend("changes") /\ wake' = (pc # "down")
        /\ UNCHANGED <<now, enabled, states, pc, timer, tickNow, view, todo, current>>
    BY <1>1 DEF Change
  <2>2. \A c \in Budgets : used'[c] = 0 => used[c] = 0
    BY <2>1, Spending
  <2>3. ~wake' => PassServes' /\ TimerKnows'
    BY <2>1 DEF PassServes, TimerKnows
  <2>4. QED
    BY <2>1, <2>2, <2>3 DEF AwakeInv, Budgets
<1>2. CASE \E b \in BOOLEAN : SetEnabled(b)
  <2>1. /\ Spend("settings")
        /\ UNCHANGED <<now, plan, states, wake, pc, timer, tickNow, view, todo, current>>
    BY <1>2 DEF SetEnabled
  <2>2. /\ \A c \in Budgets : used'[c] = 0 => used[c] = 0
        /\ used'["settings"] # 0
    BY <2>1, Spending DEF Budgets
  <2>3. ~Untroubled(Troubles)'
    BY <2>1, SpentTrouble DEF Troubles
  <2>4. QED
    BY <2>1, <2>2, <2>3 DEF AwakeInv, Budgets
<1>3. QED
  BY <1>1, <1>2

\* While the loop sleeps time only makes triggers late for good.
LEMMA PassAwake ==
  ASSUME TypeOK, TypeOK', AwakeInv, NEW d \in 1..MaxTime, Pass(d)
  PROVE  AwakeInv'
<1> USE DEF loopVars
<1>1. /\ now' = now + d /\ now \in Nat /\ d \in Nat
      /\ UNCHANGED <<enabled, plan, states, wake, pc, timer, tickNow, view, todo, current>>
      /\ UNCHANGED used \/ Spend("slow")
  BY DEF Pass, TypeOK
<1>2. \A c \in Budgets : used'[c] = 0 => used[c] = 0
  BY <1>1, Spending
<1>3. CASE Idle
  <2>1. pc \in {"down", "parked"}
    BY <1>3 DEF Idle
  <2>2. Untroubled(Troubles)' => Untroubled(Troubles)
    BY <1>1, Spending
  <2>3. ASSUME TimerKnows PROVE TimerKnows'
    <3> SUFFICES ASSUME pc = "parked", now' + Coalesce < timer, NEW i \in Items,
                        plan[i] # NoPlan, ~states[Key(i, plan[i])].seen,
                        Foreseen(Key(i, plan[i]))
                 PROVE  Known(i)'
      BY <1>1 DEF TimerKnows, Foreseen
    <3>1. now + Coalesce < timer
      BY <1>1, ConstantsAssumption DEF TypeOK
    <3>2. Known(i) /\ plan[i] \in Plans
      BY <2>3, <3>1 DEF TimerKnows, TypeOK
    <3>3. plan[i].at \in Nat
      BY <3>2, ConstantsAssumption DEF Plan
    <3>4. now' \in Nat /\ now <= now'
      BY <1>1
    <3>5. QED
      BY <1>1, <3>2, <3>3, <3>4, MissedStays DEF Known
  <2>4. QED
    BY <1>1, <1>2, <2>1, <2>2, <2>3 DEF AwakeInv, PassServes, Budgets
<1>4. CASE ~Idle
  <2>1. Spend("slow") /\ pc \notin {"down", "parked"}
    BY <1>4 DEF Pass
  <2>2. ~Untroubled(Troubles)' /\ used'["slow"] # 0
    BY <2>1, SpentTrouble, Spending DEF Troubles, Budgets
  <2>3. QED
    BY <1>1, <1>2, <2>2 DEF AwakeInv, Budgets
<1>5. QED
  BY <1>3, <1>4

\* Between two passes
LEMMA BetweenAwake ==
  ASSUME IInv, TypeOK', AwakeInv, Start \/ TakeWake \/ TickFails \/ ParkBlind \/ Crash
  PROVE  AwakeInv'
<1> USE DEF IInv, TypeInv
<1>1. CASE Start \/ TakeWake
  <2>1. /\ pc' = "parked" /\ timer' \in {now, now + Coalesce}
        /\ UNCHANGED <<now, enabled, used>>
    BY <1>1 DEF Start, TakeWake
  <2>2. ~(now' + Coalesce < timer')
    BY <2>1, ConstantsAssumption DEF TypeOK
  <2>3. QED
    BY <2>1, <2>2 DEF AwakeInv, PassServes, TimerKnows
<1>2. CASE TickFails \/ ParkBlind
  <2>1. Spend("reads") /\ pc' \in {"park", "parked"} /\ UNCHANGED enabled
    BY <1>2 DEF TickFails, ParkBlind
  <2>2. ~Untroubled(Troubles)'
    BY <2>1, SpentTrouble DEF Troubles
  <2>3. used'["settings"] = 0 => used["settings"] = 0
    BY <2>1, Spending DEF Budgets
  <2>4. QED
    BY <2>1, <2>2, <2>3 DEF AwakeInv
<1>3. CASE Crash
  <2>1. Spend("crashes") /\ pc' = "down" /\ UNCHANGED enabled
    BY <1>3 DEF Crash
  <2>2. used'["settings"] = 0 => used["settings"] = 0
    BY <2>1, Spending DEF Budgets
  <2>3. QED
    BY <2>1, <2>2 DEF AwakeInv, PassServes, TimerKnows
<1>4. QED
  BY <1>1, <1>2, <1>3

\* What is due and not yet seen, a pass fires: the window of rows hides none.
LEMMA FireSetServes ==
  ASSUME TypeOK, NEW rows, NEW i \in Items, Pressing(i), ~rows[Key(i, plan[i])].seen
  PROVE  Key(i, plan[i]) \in FireSet(IsTask(plan[i]), rows, now)
<1> DEFINE k == Key(i, plan[i])
<1>1. ~Row(rows, k, now).seen
  BY DEF Row, Unseen
<1> HIDE DEF k
<1>2. ToFire(plan[i], k, rows, now)
  BY <1>1 DEF ToFire, Pressing
<1>3. QED
  BY <1>2 DEF FireSet, Pressing, k

\* The pass begins with all that is due, in its list or among the tasks.
LEMMA TickAwake ==
  ASSUME IInv, TypeOK', AwakeInv, Tick \/ TickTasks \/ TickDone
  PROVE  AwakeInv'
<1> USE DEF IInv, TypeInv, noteVars
<1>1. /\ UNCHANGED <<now, enabled, plan, states, wake, current, used>>
      /\ pc' \in {"events", "tasks", "park"} /\ current = {}
  BY DEF Tick, TickTasks, TickDone, FiringInv, PassInv
<1>2. TimerKnows'
  BY <1>1 DEF TimerKnows
<1>3. \A i \in Items : Pressing(i)' <=> Pressing(i)
  BY <1>1 DEF Pressing, Candidate
<1>4. Untroubled(Troubles)' <=> Untroubled(Troubles)
  BY <1>1 DEF Untroubled
<1>5. Untroubled(Troubles) => used["slow"] = 0 /\ used["settings"] = 0
  BY DEF Untroubled, Troubles
<1>6. CASE Tick
  <2>1. enabled => pc' = "events" /\ tickNow' = now /\ view' = states /\ todo' = FireSet(FALSE, states, now)
    BY <1>6 DEF Tick
  <2>2. ~enabled => pc' = "park"
    BY <1>6 DEF Tick
  <2>3. ASSUME enabled PROVE PassServes'
    <3> SUFFICES ASSUME NEW i \in Items, Pressing(i) PROVE Owed(i)'
      BY <1>3 DEF PassServes
    <3> DEFINE k == Key(i, plan[i])
    <3>1. k.task = IsTask(plan[i])
      BY DEF Key
    <3>2. k \in FireSet(IsTask(plan[i]), states, now)
      BY FireSetServes DEF Pressing
    <3>3. IsTask(plan[i]) \in BOOLEAN
      BY DEF IsTask
    <3> HIDE DEF k
    <3>4. k \in todo' \/ (pc' = "events" /\ k.task)
      BY <2>1, <2>3, <3>1, <3>2, <3>3
    <3>5. QED
      BY <1>1, <3>4 DEF Owed, k
  <2>4. QED
    BY <1>1, <1>2, <1>4, <1>5, <2>1, <2>2, <2>3 DEF AwakeInv
<1>7. CASE TickTasks
  <2>1. /\ pc = "events" /\ pc' = "tasks" /\ todo = {}
        /\ todo' = FireSet(TRUE, view, tickNow) /\ UNCHANGED tickNow
    BY <1>7 DEF TickTasks
  <2>2. ASSUME Untroubled(Troubles), ~wake PROVE PassServes'
    <3> SUFFICES ASSUME NEW i \in Items, Pressing(i) PROVE Owed(i)'
      BY <1>3 DEF PassServes
    <3> DEFINE k == Key(i, plan[i])
    <3>1. tickNow = now /\ Owed(i)
      BY <1>5, <2>1, <2>2 DEF AwakeInv, PassServes
    <3>2. IsTask(plan[i])
      BY <1>1, <2>1, <3>1 DEF Owed, Recording, Key
    <3>3. k \in Keys
      BY CandidateKey DEF Pressing
    <3>4. ~view[k].seen
      BY <2>1, <3>3 DEF AwakeInv, Pressing
    <3>5. k \in FireSet(IsTask(plan[i]), view, now)
      BY <3>4, FireSetServes
    <3>6. IsTask(plan[i]) = TRUE
      BY <3>2 DEF IsTask
    <3> HIDE DEF k
    <3>7. k \in todo'
      BY <2>1, <3>1, <3>5, <3>6
    <3>8. QED
      BY <1>1, <3>7 DEF Owed, k
  <2>3. QED
    BY <1>1, <1>2, <1>4, <2>1, <2>2 DEF AwakeInv
<1>8. CASE TickDone
  <2>1. pc = "tasks" /\ pc' = "park" /\ todo = {} /\ UNCHANGED todo
    BY <1>8 DEF TickDone
  <2>2. PassServes => PassServes'
    BY <1>1, <1>3, <2>1 DEF PassServes, Owed, Recording
  <2>3. QED
    BY <1>1, <1>2, <1>4, <2>1, <2>2 DEF AwakeInv
<1>9. QED
  BY <1>6, <1>7, <1>8

\* A notification keeps what it is for owed until its row is written.
LEMMA NotificationAwake ==
  ASSUME IInv, TypeOK', AwakeInv,
         \/ \E k \in Keys : Send(k) \/ SendFails(k) \/ SetReminderFired(k) \/ SetReminderFiredFails(k)
         \/ \E c \in current : Remember(c)
  PROVE  AwakeInv'
<1> USE DEF IInv, TypeInv, noteVars
<1>1. UNCHANGED <<now, enabled, plan, pc, timer, wake, tickNow, view>>
  BY DEF Send, SendFails, SetReminderFired, SetReminderFiredFails, Remember
<1>2. \A i \in Items : Pressing(i) => Key(i, plan[i]) \in Keys
  BY CandidateKey DEF Pressing
<1>3. CASE \E k \in Keys : Send(k)
  <2>1. PICK k \in Keys : Send(k)
    BY <1>3
  <2>2. /\ UNCHANGED <<states, used>> /\ pc \in {"events", "tasks"}
        /\ \A j : j \in todo => j \in todo' \/ Recording(j)'
        /\ current = {}
    BY <2>1 DEF Send, Recording
  <2>3. \A i \in Items : (Pressing(i)' => Pressing(i)) /\ (Owed(i) => Owed(i)')
    BY <1>1, <2>2 DEF Pressing, Owed, Recording, Candidate
  <2>4. PassServes => PassServes'
    BY <1>1, <2>3 DEF PassServes
  <2>5. QED
    BY <1>1, <2>2, <2>4 DEF AwakeInv, TimerKnows, Untroubled
<1>4. CASE \E k \in Keys : SendFails(k) \/ SetReminderFiredFails(k)
  <2>1. PICK b \in {"sends", "records"} : Spend(b) /\ UNCHANGED states
    BY <1>4 DEF SendFails, SetReminderFiredFails
  <2>2. ~Untroubled(Troubles)'
    BY <2>1, SpentTrouble DEF Troubles
  <2>3. \A c \in Budgets : used'[c] = 0 => used[c] = 0
    BY <2>1, Spending
  <2>4. QED
    BY <1>1, <2>1, <2>2, <2>3 DEF AwakeInv, Budgets
<1>5. CASE \E k \in Keys : SetReminderFired(k)
  <2>1. PICK k \in Keys : SetReminderFired(k)
    BY <1>5
  <2>2. /\ Recording(k) /\ states' = [states EXCEPT ![k] = Fired]
        /\ current' = { [c EXCEPT !.recorded = TRUE] : c \in current }
        /\ UNCHANGED <<todo, used>>
    BY <2>1 DEF SetReminderFired, Recorded
  <2>3. \A j \in Keys : /\ states[j].seen => states'[j].seen
                        /\ states'[k].seen
    BY <2>2 DEF Fired, TypeOK
  <2>4. \A j : Recording(j) => j = k
    BY <2>2 DEF Recording, FiringInv, PassInv
  <2>5. \A i \in Items : Pressing(i)' => Pressing(i) /\ Key(i, plan[i]) # k
    BY <1>1, <1>2, <2>3, CandidateKey DEF Pressing, Candidate, TypeOK, Keys
  <2>6. PassServes => PassServes'
    BY <1>1, <2>2, <2>4, <2>5 DEF PassServes, Owed
  <2>7. pc \in {"events", "tasks"}
    BY <2>2 DEF Recording, FiringInv, PassInv
  <2>8. QED
    BY <1>1, <2>2, <2>3, <2>6, <2>7 DEF AwakeInv, TimerKnows, Untroubled
<1>6. CASE \E c \in current : Remember(c)
  <2>1. /\ UNCHANGED <<states, todo, used>> /\ current' = {}
        /\ \E c \in current : c.recorded
    BY <1>6 DEF Remember
  <2>2. \A j : ~Recording(j)
    BY <2>1 DEF Recording, FiringInv, PassInv
  <2>3. pc \in {"events", "tasks"}
    BY <2>1 DEF FiringInv, PassInv
  <2>4. \A i \in Items : (Pressing(i)' => Pressing(i)) /\ (Owed(i) => Owed(i)')
    BY <1>1, <2>1, <2>2 DEF Pressing, Owed, Candidate
  <2>5. PassServes => PassServes'
    BY <1>1, <2>4 DEF PassServes
  <2>6. QED
    BY <1>1, <2>1, <2>3, <2>5 DEF AwakeInv, TimerKnows, Untroubled
<1>7. QED
  BY <1>3, <1>4, <1>5, <1>6

\* The timer that the loop sets is no later than any trigger that is ahead; what
\* is not ahead has been served.
LEMMA ParkAwake ==
  ASSUME IInv, TypeOK', AwakeInv, Park PROVE AwakeInv'
<1> USE DEF IInv, TypeInv, noteVars
<1>1. /\ pc = "park" /\ pc' = "parked" /\ timer' = now + UntilNext(now)
      /\ UNCHANGED <<now, enabled, plan, states, wake, todo, current, used>>
      /\ todo = {} /\ current = {}
  BY DEF Park, FiringInv, PassInv
<1>2. ASSUME Untroubled(Troubles), ~wake PROVE TimerKnows'
  <2> SUFFICES ASSUME NEW i \in Items, plan[i] # NoPlan, ~states[Key(i, plan[i])].seen,
                      Foreseen(Key(i, plan[i]))
               PROVE  Known(i)'
    BY <1>1 DEF TimerKnows, Foreseen
  <2> DEFINE p == plan[i]
             k == Key(i, p)
  <2>1. p \in Plans /\ p.at \in Nat /\ p.start \in Nat /\ k.at = p.at /\ k.start = p.start /\ k \in Keys
    BY ConstantsAssumption DEF TypeOK, Plan, Key, Keys
  <2>2. enabled
    BY <1>2 DEF AwakeInv, Untroubled, Troubles
  <2>3. UntilNext(now) \in 0..MaxWake /\ now \in Nat
    BY UntilNextCap DEF TypeOK
  <2>4. MaxWake \in Nat /\ Lookahead \in Nat
    BY ConstantsAssumption
  <2> HIDE DEF k
  <2>5. CASE p.at <= now
    <3>1. ~Pressing(i)
      BY <1>1, <1>2 DEF AwakeInv, PassServes, Owed, Recording
    <3>2. CASE Due(p, now)
      <4>1. ~Candidate(p, now)
        BY <3>1, <3>2 DEF Pressing
      <4>2. ~(p.start <= now + Lookahead)
        BY <4>1 DEF Candidate
      <4>3. k.start + MaxWake <= k.at + Lookahead
        BY DEF Foreseen, k
      <4>4. QED
        BY <2>1, <2>3, <2>4, <2>5, <4>2, <4>3
    <3>3. CASE ~Due(p, now)
      BY <1>1, <2>5, <3>3 DEF Known
    <3>4. QED
      BY <3>2, <3>3
  <2>6. CASE now < p.at /\ Candidate(p, now)
    <3>1. p.at \in Upcoming(now)
      <4>1. ~Row(states, k, now).seen
        BY DEF Row, Unseen, k
      <4>2. p.at \in Deadline(k, now)
        BY <2>1, <2>6, <4>1 DEF Deadline
      <4>3. QED
        BY <2>6, <4>2 DEF Upcoming, k
    <3>2. Upcoming(now) \in SUBSET Nat /\ \A d \in Upcoming(now) : d \in Nat /\ now < d
      BY <2>3, UpcomingAhead
    <3>3. Min(Upcoming(now)) \in Nat /\ now < Min(Upcoming(now)) /\ Min(Upcoming(now)) <= p.at
      BY <3>1, <3>2, MinOfNaturals
    <3> DEFINE d == Min(Upcoming(now)) - now
    <3>4. d \in Nat
      BY <2>3, <3>3
    <3>5. UntilNext(now) = Min({d, MaxWake})
      BY <2>2, <3>1 DEF UntilNext
    <3> HIDE DEF d
    <3>6. Min({d, MaxWake}) <= d
      BY <2>4, <3>4, MinOfNaturals
    <3>7. UntilNext(now) <= Min(Upcoming(now)) - now
      BY <3>5, <3>6 DEF d
    <3>8. now + UntilNext(now) <= p.at
      BY <2>1, <2>3, <3>3, <3>7
    <3>9. QED
      BY <1>1, <3>8 DEF Known
  <2>7. CASE now < p.at /\ ~Candidate(p, now)
    <3>1. ~(p.start <= now + Lookahead)
      BY <2>7 DEF Candidate
    <3>2. k.start + MaxWake <= k.at + Lookahead
      BY DEF Foreseen, k
    <3>3. now + UntilNext(now) <= p.at
      BY <2>1, <2>3, <2>4, <3>1, <3>2
    <3>4. QED
      BY <1>1, <3>3 DEF Known
  <2>8. QED
    BY <2>1, <2>3, <2>5, <2>6, <2>7
<1>3. PassServes'
  BY <1>1 DEF PassServes
<1>4. QED
  BY <1>1, <1>2, <1>3 DEF AwakeInv, Untroubled

LEMMA NextAwake == IInv /\ IInv' /\ AwakeInv /\ [Next]_vars => AwakeInv'
<1> SUFFICES ASSUME IInv, TypeOK', AwakeInv, [Next]_vars PROVE AwakeInv'
  BY DEF IInv, TypeInv
<1>1. CASE UNCHANGED vars
  BY <1>1, MarkedAwake DEF vars, loopVars, noteVars, IInv, TypeInv
<1>2. CASE End
  BY <1>2, MarkedAwake DEF End, vars, loopVars, noteVars, IInv, TypeInv
<1>3. CASE Next
  BY <1>2, <1>3, Steps, UserAwake, ChangeAwake, PassAwake, BetweenAwake, TickAwake, NotificationAwake,
     ParkAwake DEF IInv, TypeInv
<1>4. QED
  BY <1>1, <1>3

\* When the loop sleeps no trigger is due that has not fired, however the calendar
\* was changed and the daemon restarted before, but for a pass that took time or
\* failed, settings changed in the file, and offsets of about the lookahead.
THEOREM NothingDueAsleepHolds == Spec => []NothingDueAsleep
<1>1. TypeOK /\ AwakeInv => NothingDueAsleep
  <2> SUFFICES ASSUME TypeOK, AwakeInv, Asleep, Untroubled(Troubles), NEW i \in Items,
                      plan[i] # NoPlan, ~states[Key(i, plan[i])].seen,
                      Foreseen(Key(i, plan[i])), Due(plan[i], now)
               PROVE  FALSE
    BY DEF NothingDueAsleep, Troubles
  <2>1. Known(i)
    BY DEF AwakeInv, TimerKnows, Asleep
  <2>2. timer <= plan[i].at /\ plan[i].at <= now
    BY <2>1 DEF Known, Due
  <2>3. now + Coalesce < timer
    BY DEF Asleep
  <2>4. plan[i].at \in Nat /\ now \in Nat /\ timer \in Nat /\ Coalesce \in Nat
    BY ConstantsAssumption DEF TypeOK, Plan
  <2>5. QED
    BY <2>2, <2>3, <2>4
<1>2. IInv => TypeOK
  BY DEF IInv, TypeInv
<1>3. QED
  BY <1>1, <1>2, InitAwake, NextAwake, Invariant, PTL DEF Spec

================================================================================
