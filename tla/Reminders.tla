------------------------------- MODULE Reminders -------------------------------
(***************************************************************************)
(* The reminders engine: a loop that parks until the next trigger is due,  *)
(* evaluates the triggers of the calendar's events and tasks, sends a      *)
(* desktop notification for each that is due, and remembers in the         *)
(* database that it did.  The notification server, the user who snoozes or *)
(* closes notifications, and the handlers and syncs that change the        *)
(* calendar, act between any two steps of the loop.                        *)
(*                                                                         *)
(* Time is a counter; only the order of the engine's durations matters.    *)
(* Whoever has something to do does it before time passes, except in a     *)
(* pass of the loop, whose database and D-Bus calls take their time.       *)
(***************************************************************************)
EXTENDS Naturals, FiniteSets, FiniteSetsExt, Functions

CONSTANTS
  Items,        \* events (occurrences) and tasks, each with one alarm
  Plans,        \* when and what an item may be, see Plan below
  StartGrace,   \* startGrace (5 minutes in the code)
  AllDayLate,   \* allDayLate (24 hours)
  Lookahead,    \* lookahead (28 days)
  StateFloor,   \* stateFloor (35 days)
  PruneAfter,   \* pruneAfter (60 days)
  MaxWake,      \* the longest park (1 hour)
  Coalesce,     \* coalesce (2 seconds)
  SnoozeLength, \* the user's snoozeMinutes
  MaxTime,      \* bound: the time at which the model ends
  MaxUsed       \* bound: how many of Budgets happen in a behaviour

\* What the environment does a bounded number of times: calendar changes,
\* settings changes, crashes of the daemon, failed reads of the database, failed
\* sends, failed writes of a state row, snoozes, time that passes in a pass.
Budgets == {"changes", "settings", "crashes", "reads", "sends", "records", "snoozes", "slow"}

Kinds == {"event", "day", "task", "daytask"}

\* A timed or all-day event or task: when it starts (a task: its date), when its
\* alarm is due, and when it ends.
Plan == [kind : Kinds, start : Nat, at : Nat, end : Nat]

ASSUME ConstantsAssumption ==
  /\ Plans \subseteq Plan
  /\ {StartGrace, AllDayLate, Lookahead, StateFloor, PruneAfter, MaxTime, MaxUsed} \subseteq Nat
  /\ Coalesce <= MaxWake /\ StartGrace <= AllDayLate /\ AllDayLate <= StateFloor
  /\ {MaxWake, Coalesce, SnoozeLength} \subseteq Nat \ {0}

VARIABLES
  now,        \* the clock
  enabled,    \* the settings file's remindersEnabled
  plan,       \* plan[i]: what item i is, NoPlan if it is gone, cancelled or hidden
  states,     \* the ReminderState rows
  pc,         \* where the loop is
  timer,      \* when the loop's timer fires
  wake,       \* is there a token in the wake channel?
  tickNow,    \* the time Tick works with
  view,       \* the rows as Tick has read them
  todo,       \* the reminders Tick still has to fire
  current,    \* the notification being recorded, at most one
  pending,    \* the notifications whose actions the engine answers
  open,       \* the notifications on the user's screen
  closing,    \* NotificationClosed signals the engine has not handled
  sent,       \* sent[k]: notifications for k since it was last snoozed
  used        \* how much of each budget is spent

loopVars == <<pc, timer, tickNow, view, todo, current>>
noteVars == <<pending, open, closing, sent>>
vars     == <<now, enabled, plan, states, wake, loopVars, noteVars, used>>

----------------------------------------------------------------------------
\* Keys and rows

NoPlan == [kind |-> "none", start |-> 0, at |-> 0, end |-> 0]

IsTask(p) == p.kind \in {"task", "daytask"}

\* stateKey: the uid of an event or a task (they share none), the start of the
\* occurrence, and the offset of its alarm, here the time it is due.
Key(i, p) == [item |-> i, task |-> IsTask(p), start |-> p.start, at |-> p.at]

Keys == { Key(i, p) : i \in Items, p \in Plans }

Notes == [id : Nat, key : Keys]

\* A ReminderState row: fired if seen and not snoozed.
Rows == [seen : BOOLEAN, until : Nat]
Unseen == [seen |-> FALSE, until |-> 0]
Fired  == [seen |-> TRUE, until |-> 0]
Snoozed(t) == [seen |-> TRUE, until |-> t]

\* due and taskDue
Due(p, t) ==
  /\ p.at <= t
  /\ CASE p.kind = "event" -> t < p.start + StartGrace
       [] p.kind = "day"   -> t < p.at + AllDayLate /\ t < p.end
       [] p.kind = "task"  -> t < p.at + StartGrace
       [] OTHER            -> t < p.at + AllDayLate

\* candidates expands events up to the lookahead; taskCandidates has no window.
Candidate(p, t) == p # NoPlan /\ (IsTask(p) \/ p.start <= t + Lookahead)

\* stateMap loads the rows of occurrences around t only.
Row(rows, k, t) ==
  IF t <= k.start + StateFloor /\ k.start <= t + Lookahead THEN rows[k] ELSE Unseen

\* Faulty: a snooze still running counts as due.
DueOnceSeen(p, k, rows, t) ==
  LET st == Row(rows, k, t) IN
  \/ ~st.seen /\ Due(p, t)
  \/ st.seen /\ st.until # 0 /\ (IsTask(p) \/ t < p.end)

\* Does Tick fire k, given the rows it has read?
ToFire(p, k, rows, t) ==
  LET st == Row(rows, k, t) IN
  \/ ~st.seen /\ Due(p, t)
  \/ st.seen /\ st.until # 0 /\ st.until <= t /\ (IsTask(p) \/ t < p.end)

\* The reminders of events, or of tasks, that Tick fires.
FireSet(tasks, rows, t) ==
  { Key(i, plan[i]) : i \in { i \in Items :
      /\ Candidate(plan[i], t) /\ IsTask(plan[i]) = tasks
      /\ ToFire(plan[i], Key(i, plan[i]), rows, t) } }

\* When Upcoming expects k: the end of its snooze, or its trigger if it is ahead.
Deadline(k, t) ==
  LET st == Row(states, k, t) IN
  CASE st.seen /\ t < st.until -> {st.until}
    [] ~st.seen /\ t < k.at    -> {k.at}
    [] OTHER                   -> {}

Upcoming(t) == UNION { Deadline(Key(i, plan[i]), t) : i \in { i \in Items : Candidate(plan[i], t) } }

\* Faulty: the cap is applied only when nothing is ahead.
UntilNextUncapped(t) ==
  IF ~enabled \/ Upcoming(t) = {} THEN MaxWake ELSE Min(Upcoming(t)) - t

\* Faulty: the last of the deadlines instead of the soonest.
UntilNextLast(t) ==
  IF ~enabled \/ Upcoming(t) = {} THEN MaxWake ELSE Min({Max(Upcoming(t)) - t, MaxWake})

\* untilNext; minWake is below the resolution of this clock.
UntilNext(t) ==
  IF ~enabled \/ Upcoming(t) = {} THEN MaxWake ELSE Min({Min(Upcoming(t)) - t, MaxWake})

----------------------------------------------------------------------------
Init ==
  /\ now = 0 /\ enabled = TRUE
  /\ plan \in [Items -> Plans \cup {NoPlan}]
  /\ states = [k \in Keys |-> Unseen]
  /\ pc = "down" /\ timer = 0 /\ wake = FALSE
  /\ tickNow = 0 /\ view = states /\ todo = {} /\ current = {}
  /\ pending = {} /\ open = {} /\ closing = {}
  /\ sent = [k \in Keys |-> 0]
  /\ used = [b \in Budgets |-> 0]

Spend(b) == FoldFunction(+, 0, used) < MaxUsed /\ used' = [used EXCEPT ![b] = @ + 1]

----------------------------------------------------------------------------
\* The loop

\* The daemon starts the loop: PruneReminderStates, then a timer of 0.
Start ==
  /\ pc = "down"
  /\ states' = [k \in Keys |-> IF k.start + PruneAfter < now THEN Unseen ELSE states[k]]
  /\ pc' = "parked" /\ timer' = now
  /\ UNCHANGED <<now, enabled, plan, wake, tickNow, view, todo, current, noteVars, used>>

\* case <-e.wake
TakeWake ==
  /\ pc = "parked" /\ wake
  /\ wake' = FALSE
  /\ timer' = now + Coalesce
  /\ UNCHANGED <<now, enabled, plan, states, pc, tickNow, view, todo, current, noteVars, used>>

\* case <-timer.C: Tick reads the events and the rows
Tick ==
  /\ pc = "parked" /\ timer <= now
  /\ IF enabled
     THEN /\ pc' = "events"
          /\ tickNow' = now /\ view' = states
          /\ todo' = FireSet(FALSE, states, now)
     ELSE /\ pc' = "park"
          /\ UNCHANGED <<tickNow, view, todo>>
  /\ UNCHANGED <<now, enabled, plan, states, timer, wake, current, noteVars, used>>

\* ... or fails to, then or when it comes to the tasks.
TickFails ==
  /\ \/ pc = "parked" /\ timer <= now /\ enabled
     \/ pc = "events" /\ todo = {} /\ current = {}
  /\ Spend("reads")
  /\ pc' = "park"
  /\ UNCHANGED <<now, enabled, plan, states, timer, wake, tickNow, view, todo, current, noteVars>>

\* The server gives a notification an id that no other has, as long as anyone
\* remembers it.
FreshId ==
  LET ids == { n.id : n \in pending \cup open \cup closing }
  IN  CHOOSE id \in 1..Cardinality(ids) + 1 : id \notin ids

\* fire and fireTask: the notification server shows it ...
Send(k) ==
  LET n == [id |-> FreshId, key |-> k] IN
  /\ pc \in {"events", "tasks"} /\ current = {} /\ k \in todo
  /\ todo' = todo \ {k}
  /\ current' = {[note |-> n, recorded |-> FALSE]}
  /\ open' = open \cup {n}
  /\ sent' = [sent EXCEPT ![k] = @ + 1]
  /\ UNCHANGED <<now, enabled, plan, states, pc, timer, wake, tickNow, view, pending, closing, used>>

\* ... or rejects it.
SendFails(k) ==
  /\ pc \in {"events", "tasks"} /\ current = {} /\ k \in todo
  /\ Spend("sends")
  /\ todo' = todo \ {k}
  /\ UNCHANGED <<now, enabled, plan, states, pc, timer, wake, tickNow, view, current, noteVars>>

Recording(k) == \E c \in current : ~c.recorded /\ c.note.key = k

Recorded == current' = { [c EXCEPT !.recorded = TRUE] : c \in current }

\* Faulty: a row that is there is left as it is.
RecordNewOnly(k) ==
  /\ Recording(k)
  /\ states' = IF states[k].seen THEN states ELSE [states EXCEPT ![k] = Fired]
  /\ Recorded
  /\ UNCHANGED <<now, enabled, plan, pc, timer, wake, tickNow, view, todo, noteVars, used>>

\* SetReminderFired
SetReminderFired(k) ==
  /\ Recording(k)
  /\ states' = [states EXCEPT ![k] = Fired]
  /\ Recorded
  /\ UNCHANGED <<now, enabled, plan, pc, timer, wake, tickNow, view, todo, noteVars, used>>

SetReminderFiredFails(k) ==
  /\ Recording(k)
  /\ Spend("records")
  /\ Recorded
  /\ UNCHANGED <<now, enabled, plan, states, pc, timer, wake, tickNow, view, todo, noteVars>>

\* Faulty: an item has one notification, a later one keeps the former's id.
RememberFirst(c) ==
  /\ c \in current /\ c.recorded
  /\ pending' = IF \E n \in pending : n.key = c.note.key THEN pending ELSE pending \cup {c.note}
  /\ current' = {}
  /\ UNCHANGED <<now, enabled, plan, states, pc, timer, wake, tickNow, view, todo,
                 open, closing, sent, used>>

\* e.pending[id] = ...
Remember(c) ==
  /\ c \in current /\ c.recorded
  /\ pending' = pending \cup {c.note}
  /\ current' = {}
  /\ UNCHANGED <<now, enabled, plan, states, pc, timer, wake, tickNow, view, todo,
                 open, closing, sent, used>>

\* The events are done; the tasks are read, the rows are still those of before.
TickTasks ==
  /\ pc = "events" /\ todo = {} /\ current = {}
  /\ pc' = "tasks"
  /\ todo' = FireSet(TRUE, view, tickNow)
  /\ UNCHANGED <<now, enabled, plan, states, timer, wake, tickNow, view, current, noteVars, used>>

TickDone ==
  /\ pc = "tasks" /\ todo = {} /\ current = {}
  /\ pc' = "park"
  /\ UNCHANGED <<now, enabled, plan, states, timer, wake, tickNow, view, todo, current, noteVars, used>>

\* timer.Reset(e.untilNext(ctx)); what Tick has read is forgotten.
Park ==
  /\ pc = "park"
  /\ pc' = "parked"
  /\ timer' = now + UntilNext(now)
  /\ tickNow' = 0 /\ view' = [k \in Keys |-> Unseen]
  /\ UNCHANGED <<now, enabled, plan, states, wake, todo, current, noteVars, used>>

\* untilNext cannot read the calendar.
ParkBlind ==
  /\ pc = "park" /\ enabled
  /\ Spend("reads")
  /\ pc' = "parked"
  /\ timer' = now + MaxWake
  /\ tickNow' = 0 /\ view' = [k \in Keys |-> Unseen]
  /\ UNCHANGED <<now, enabled, plan, states, wake, todo, current, noteVars>>

\* The daemon ends, or crashes, anywhere.
Crash ==
  /\ pc # "down"
  /\ Spend("crashes")
  /\ pc' = "down" /\ timer' = 0 /\ wake' = FALSE
  /\ tickNow' = 0 /\ view' = [k \in Keys |-> Unseen] /\ todo' = {} /\ current' = {}
  /\ pending' = {} /\ closing' = {}
  /\ UNCHANGED <<now, enabled, plan, states, open, sent>>

----------------------------------------------------------------------------
\* The notification server and the user

Answered(n) == n \in open /\ n \in pending

Dismiss(n) == open' = open \ {n} /\ closing' = closing \cup {n}

SnoozeReminder(k, until) ==
  /\ states' = [states EXCEPT ![k] = Snoozed(until)]
  /\ sent' = [sent EXCEPT ![k] = 0]

\* HandleAction "snooze"
Snooze(n) ==
  /\ pc # "down" /\ Answered(n)
  /\ Spend("snoozes")
  /\ SnoozeReminder(n.key, now + SnoozeLength)
  /\ Dismiss(n)
  /\ UNCHANGED <<now, enabled, plan, wake, loopVars, pending>>

\* HandleAction "snooze_start", offered for timed events that are ahead
SnoozeStart(n) ==
  /\ pc # "down" /\ Answered(n)
  /\ \E p \in Plans : p.kind = "event" /\ Key(n.key.item, p) = n.key
  /\ Spend("snoozes")
  /\ IF now < n.key.start THEN SnoozeReminder(n.key, n.key.start) ELSE UNCHANGED <<states, sent>>
  /\ Dismiss(n)
  /\ UNCHANGED <<now, enabled, plan, wake, loopVars, pending>>

\* The user closes it, opens the app or the meeting, or it expires; a signal
\* that finds no daemon is lost.
Close(n) ==
  /\ n \in open
  /\ open' = open \ {n}
  /\ closing' = IF pc = "down" THEN closing ELSE closing \cup {n}
  /\ UNCHANGED <<now, enabled, plan, states, wake, loopVars, pending, sent, used>>

HandleClosed(n) ==
  /\ n \in closing
  /\ closing' = closing \ {n}
  /\ pending' = pending \ {n}
  /\ UNCHANGED <<now, enabled, plan, states, wake, loopVars, open, sent, used>>

----------------------------------------------------------------------------
\* The calendar, the settings and the clock

\* An item is created, moved, hidden or deleted, or a sync rewrites its row: the
\* mutation hook wakes the loop.
Change(i, p) ==
  /\ Spend("changes")
  /\ plan' = [plan EXCEPT ![i] = p]
  /\ wake' = (pc # "down")
  /\ UNCHANGED <<now, enabled, states, loopVars, noteVars>>

\* The user interface writes the settings file; nobody is told.
SetEnabled(b) ==
  /\ Spend("settings")
  /\ enabled' = b
  /\ UNCHANGED <<now, plan, states, wake, loopVars, noteVars>>

Idle == pc = "down" \/ (pc = "parked" /\ ~wake /\ now < timer)

\* The clock; after a suspend it jumps, and the timer has counted the time.
Pass(d) ==
  /\ now + d <= MaxTime
  /\ IF Idle THEN UNCHANGED used ELSE pc \notin {"down", "parked"} /\ d = 1 /\ Spend("slow")
  /\ now' = now + d
  /\ UNCHANGED <<enabled, plan, states, wake, loopVars, noteVars>>

\* The bound is reached.
End == now = MaxTime /\ Idle /\ UNCHANGED vars

LoopStep ==
  \/ Start \/ TakeWake \/ Tick \/ TickTasks \/ TickDone \/ Park
  \/ \E k \in Keys : Send(k) \/ SetReminderFired(k)
  \/ \E c \in current : Remember(c)

Next ==
  \/ LoopStep
  \/ TickFails \/ ParkBlind \/ Crash
  \/ \E k \in Keys : SendFails(k) \/ SetReminderFiredFails(k)
  \/ \E n \in open : Snooze(n) \/ SnoozeStart(n) \/ Close(n)
  \/ \E n \in closing : HandleClosed(n)
  \/ \E i \in Items, p \in Plans \cup {NoPlan} : Change(i, p)
  \/ \E b \in BOOLEAN : SetEnabled(b)
  \/ \E d \in 1..MaxTime : Pass(d)
  \/ End

Spec == Init /\ [][Next]_vars

----------------------------------------------------------------------------
\* Properties

\* Type invariant; a parked loop never sleeps for longer than MaxWake.
TypeOK ==
  /\ now \in Nat /\ enabled \in BOOLEAN
  /\ plan \in [Items -> Plans \cup {NoPlan}]
  /\ states \in [Keys -> Rows] /\ view \in [Keys -> Rows]
  /\ pc \in {"down", "parked", "events", "tasks", "park"}
  /\ timer \in Nat /\ (pc = "parked" => timer <= now + MaxWake)
  /\ wake \in BOOLEAN /\ tickNow \in Nat
  /\ todo \subseteq Keys
  /\ current \subseteq [note : Notes, recorded : BOOLEAN]
  /\ pending \subseteq Notes /\ open \subseteq Notes /\ closing \subseteq Notes
  /\ sent \in [Keys -> Nat]
  /\ used \in [Budgets -> Nat]

\* Does the window of rows that Tick loads hold k whenever k may be due?  It
\* does not for a task whose alarm is further ahead of it than the lookahead.
Remembered(k) == k.start <= k.at + Lookahead /\ k.at + AllDayLate <= k.start + StateFloor

\* Each trigger fires once, and once more after each snooze, whatever happens
\* to the calendar, the settings and the notifications: a second notification
\* takes a crash, or a failed write, between Send and SetReminderFired.
FiredOnce ==
  \A k \in Keys : Remembered(k) => sent[k] <= 1 + used["crashes"] + used["records"]

\* Is k a trigger that untilNext can see coming for as long as a park lasts?
Foreseen(k) == k.start + MaxWake <= k.at + Lookahead

Asleep == pc = "parked" /\ ~wake /\ now + Coalesce < timer

Untroubled(S) == \A b \in S : used[b] = 0

\* No trigger comes due unnoticed: whatever was changed, moved or restarted
\* before, when the loop sleeps, and is not just waiting for changes to settle,
\* no trigger is due that has not fired.  The exceptions are the code's: a
\* trigger that comes due in the course of a pass, a notification or a read that
\* failed, settings changed in the file, and offsets of about the lookahead.
NothingDueAsleep ==
  Asleep /\ enabled /\ Untroubled({"slow", "sends", "records", "reads", "settings"}) =>
    \A i \in Items :
      LET p == plan[i]
          k == Key(i, p)
      IN  p # NoPlan /\ ~states[k].seen /\ Foreseen(k) => ~(Candidate(p, now) /\ Due(p, now))

\* The same of the reminders the user snoozed.
NoSnoozeOverslept ==
  Asleep /\ enabled /\ Untroubled({"slow", "sends", "records", "reads", "settings"}) =>
    \A i \in Items :
      LET p == plan[i]
          k == Key(i, p)
      IN  p # NoPlan /\ states[k].until # 0 /\ Foreseen(k) =>
            ~(Candidate(p, now) /\ ToFire(p, k, states, now))

\* A snooze that is running is not cut short: neither by a pass that read the
\* rows before it, nor by a notification for it that is still on screen.  The
\* exceptions are the daemon's crashes and failed writes, after which a reminder
\* may have two notifications, and rows outside the window of a pass.
SnoozeKept ==
  [][Untroubled({"crashes", "records"}) =>
       \A k \in Keys : Remembered(k) /\ now < states[k].until => states'[k].until >= states[k].until]_states

\* The buttons of a notification act on the reminder it shows, for as long as the
\* daemon that sent it runs: whenever no pass is going on, of each notification on
\* the screen, although ids are used again and closed signals come late.  In a pass
\* there is one exception, the notification that was sent last, until its id is in
\* pending (fire, after SetReminderFired): HandleAction drops what the user does
\* with it.
ButtonsWork ==
  used["crashes"] = 0 =>
    \A n \in open : n \in pending \/ (pc \in {"events", "tasks"} /\ \E c \in current : c.note = n)

================================================================================
