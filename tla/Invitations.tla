---------------------------- MODULE Invitations ----------------------------
(***************************************************************************)
(* Invitations (internal/invitations/engine.go, repo/invitations.go) and   *)
(* the replies to them (internal/rsvp/apply.go).  A loop scans the stored  *)
(* events, shows each unanswered invitation once and records that it did.  *)
(* A reply goes to the provider first and then into the stored copy, while *)
(* a sync may be storing what it fetched before or after.                  *)
(***************************************************************************)
EXTENDS Integers, FiniteSets

CONSTANTS
    Events,         \* invitations, each of one (calendar, uid)
    Starts,         \* the times at which they may start
    Repliers,       \* goroutines that reply: the notifications', the IPC server's
    Lookahead,      \* how far ahead an invitation is shown
    PruneAfter,     \* how long a row outlives its event_start
    MaxWake,        \* the longest sleep of the loop
    Coalesce,       \* the sleep after a wake
    Listing,        \* a sync lists everything, or what has changed since the last
    Echoes,         \* the provider answers a reply with its own copy (Google)
    Horizon,        \* bound: the clock stops there
    MaxChanges,     \* bound: changes made elsewhere
    MaxTroubles,    \* bound: crashes, failures, the user's settings
    MaxReplies      \* bound: replies

ASSUME ConstantsAssumption ==
    /\ Starts \subseteq Nat /\ Starts # {}
    /\ {Lookahead, PruneAfter, MaxWake, Coalesce, Horizon, MaxChanges, MaxTroubles,
        MaxReplies} \subseteq Nat
    /\ Coalesce <= MaxWake /\ MaxWake > 0
    /\ {Listing, Echoes} \subseteq BOOLEAN

VARIABLES
    now,        \* the clock
    remote,     \* remote[e]: the provider's copy
    local,      \* local[e]: the stored copy
    unsent,     \* the events that the next delta names
    fetched,    \* fetched[e]: what a sync has fetched of e and not yet stored
    enabled,    \* the remindersEnabled setting
    row,        \* row[e]: the event_start of the InvitationState, None without one
    pc,         \* the loop's next step, "off" when the daemon is not running
    wake,       \* the token in the wake channel
    timer,      \* what is left of the sleep, in time that the machine is awake
    suspended,  \* how long it was suspended since the last pass began
    todo,       \* the invitations that the pass has still to show, as it has read them
    current,    \* the one it is showing
    pending,    \* Engine.pending: the invitations whose buttons work
    reply,      \* reply[p]: what replier p is doing
    prompts,    \* prompts[e]: how often e was shown
    unrecorded, \* unrecorded[e]: how often it was shown and not recorded
    excused,    \* invitations that the last pass could not show
    overtaken,  \* the ones that a sync stored last while a reply was still to be stored
    changes, troubles, replies

vars == <<now, remote, local, unsent, fetched, enabled, row, pc, wake, timer, suspended, todo, current,
          pending, reply, prompts, unrecorded, excused, overtaken, changes, troubles, replies>>

copies == <<remote, local, unsent, fetched, overtaken>>
sleep == <<timer, suspended>>
loop == <<pc, wake, sleep, todo, current, excused>>
shown == <<row, pending, prompts, unrecorded>>
bounds == <<changes, troubles, replies>>

None == -1

Absent == [start |-> 0, status |-> "absent"]
Copies == [start : Starts, status : {"needsAction", "accepted"}] \cup {Absent}
Nothing == [start |-> 0, status |-> "nothing"]      \* what a sync that fetched nothing holds

Idle == [step |-> "idle"]
Steps == {Idle} \cup [step : {"submit", "store"}, event : Events, copy : Copies]

TypeOK ==
    /\ now \in 0 .. Horizon
    /\ remote \in [Events -> Copies] /\ local \in [Events -> Copies]
    /\ unsent \subseteq Events
    /\ fetched \in [Events -> Copies \cup {Nothing}]
    /\ enabled \in BOOLEAN
    /\ row \in [Events -> Starts \cup {None}]
    /\ pc \in {"off", "park", "fire", "record", "remember"}
    /\ wake \in BOOLEAN
    /\ timer \in 0 .. MaxWake /\ suspended \in 0 .. now
    /\ todo \subseteq Events \X Starts
    /\ current \in Events \X Starts
    /\ pending \subseteq Events /\ excused \subseteq Events /\ overtaken \subseteq Events
    /\ reply \in [Repliers -> Steps]
    /\ prompts \in [Events -> Nat]
    /\ unrecorded \in [Events -> Nat]
    /\ pc = "record" => unrecorded[current[1]] > 0
    /\ changes \in 0 .. MaxChanges /\ troubles \in 0 .. MaxTroubles /\ replies \in 0 .. MaxReplies

Init ==
    /\ now = 0
    /\ remote \in [Events -> {Absent}] /\ local = remote
    /\ unsent = {}
    /\ fetched = [e \in Events |-> Nothing]
    /\ enabled = TRUE
    /\ row = [e \in Events |-> None]
    /\ pc = "off"
    /\ wake = FALSE /\ timer = 0 /\ suspended = 0
    /\ todo = {} /\ current \in Events \X Starts
    /\ pending = {} /\ excused = {} /\ overtaken = {}
    /\ reply = [p \in Repliers |-> Idle]
    /\ prompts = [e \in Events |-> 0]
    /\ unrecorded = [e \in Events |-> 0]
    /\ changes = 0 /\ troubles = 0 /\ replies = 0

Trouble == troubles < MaxTroubles /\ troubles' = troubles + 1 /\ UNCHANGED <<changes, replies>>

-----------------------------------------------------------------------------
(* The loop *)

\* Tick's conditions on a stored event: it is ahead, not answered, not cancelled.
Invites(e) ==
    /\ local[e].status = "needsAction"
    /\ local[e].start > now /\ local[e].start <= now + Lookahead

\* Faulty: rows are read over the same window as events.
NotifiedAhead(e) == row[e] # None /\ row[e] >= now /\ row[e] <= now + Lookahead

\* notifiedSet: a row counts while its event_start is not too long ago, nor too far ahead.
Notified(e) == row[e] # None /\ row[e] >= now - PruneAfter /\ row[e] <= now + Lookahead

\* PruneInvitationStates, then the first pass at once.
Start ==
    /\ pc = "off"
    /\ pc' = "park"
    /\ row' = [e \in Events |-> IF row[e] < now - PruneAfter THEN None ELSE row[e]]
    /\ timer' = 0
    /\ UNCHANGED <<copies, now, enabled, wake, suspended, todo, current, excused, pending, reply, prompts,
                   unrecorded, bounds>>

TakeWake ==
    /\ pc = "park" /\ wake
    /\ wake' = FALSE
    /\ timer' = Coalesce
    /\ UNCHANGED <<copies, now, enabled, shown, pc, suspended, todo, current, excused, reply, bounds>>

\* A pass reads events and rows, and then shows what it has read.
Tick ==
    /\ pc = "park" /\ timer = 0 /\ enabled
    /\ pc' = "fire"
    /\ suspended' = 0
    /\ todo' = {<<e, local[e].start>> : e \in {f \in Events : Invites(f) /\ ~Notified(f)}}
    /\ excused' = {}
    /\ UNCHANGED <<copies, now, enabled, shown, wake, timer, current, reply, bounds>>

\* A pass that ends early: the reminders are off, or a read fails.
TickSkips ==
    /\ pc = "park" /\ timer = 0
    /\ IF enabled THEN Trouble ELSE UNCHANGED bounds
    /\ timer' = MaxWake /\ suspended' = 0
    /\ excused' = Events
    /\ UNCHANGED <<copies, now, enabled, shown, pc, wake, todo, current, reply>>

Send ==
    /\ pc = "fire"
    /\ \E t \in todo :
         /\ current' = t
         /\ todo' = todo \ {t}
         /\ prompts' = [prompts EXCEPT ![t[1]] = @ + 1]
         /\ unrecorded' = [unrecorded EXCEPT ![t[1]] = @ + 1]
    /\ pc' = "record"
    /\ UNCHANGED <<copies, now, enabled, row, wake, sleep, excused, pending, reply, bounds>>

SendFails ==
    /\ pc = "fire"
    /\ \E t \in todo : todo' = todo \ {t} /\ excused' = excused \cup {t[1]}
    /\ Trouble
    /\ UNCHANGED <<copies, now, enabled, shown, pc, wake, sleep, current, reply>>

SetInvitationNotified ==
    /\ pc = "record"
    /\ pc' = "remember"
    /\ row' = [row EXCEPT ![current[1]] = current[2]]
    /\ unrecorded' = [unrecorded EXCEPT ![current[1]] = @ - 1]
    /\ UNCHANGED <<copies, now, enabled, wake, sleep, todo, current, excused, pending, prompts,
                   reply, bounds>>

SetInvitationNotifiedFails ==
    /\ pc = "record"
    /\ pc' = "remember"
    /\ Trouble
    /\ UNCHANGED <<copies, now, enabled, shown, wake, sleep, todo, current, excused, reply>>

Remember ==
    /\ pc = "remember"
    /\ pc' = "fire"
    /\ pending' = pending \cup {current[1]}
    /\ UNCHANGED <<copies, now, enabled, row, prompts, unrecorded, wake, sleep, todo, current,
                   excused, reply, bounds>>

\* Faulty: the loop sleeps until another invitation can come into the window.
ParkUncapped ==
    /\ pc = "fire" /\ todo = {}
    /\ pc' = "park"
    /\ timer' = Lookahead
    /\ UNCHANGED <<copies, now, enabled, shown, wake, suspended, todo, current, excused, reply, bounds>>

\* Faulty: the token that came while the loop was in a pass is thrown away.
ParkDrains ==
    /\ pc = "fire" /\ todo = {}
    /\ pc' = "park"
    /\ timer' = MaxWake
    /\ wake' = FALSE
    /\ UNCHANGED <<copies, now, enabled, shown, suspended, todo, current, excused, reply, bounds>>

Park ==
    /\ pc = "fire" /\ todo = {}
    /\ pc' = "park"
    /\ timer' = MaxWake
    /\ UNCHANGED <<copies, now, enabled, shown, wake, suspended, todo, current, excused, reply, bounds>>

\* The daemon ends, with whatever its goroutines were at.
Crash ==
    /\ pc # "off"
    /\ pc' = "off"
    /\ Trouble
    /\ wake' = FALSE /\ todo' = {} /\ pending' = {}
    /\ reply' = [p \in Repliers |-> Idle]
    /\ fetched' = [e \in Events |-> Nothing]
    /\ unsent' = unsent \cup {e \in Events : fetched[e] # Nothing}
    /\ UNCHANGED <<now, remote, local, enabled, row, sleep, current, excused, overtaken, prompts,
                   unrecorded>>

LoopStep ==
    \/ Start \/ TakeWake \/ Tick \/ TickSkips
    \/ Send \/ SendFails \/ SetInvitationNotified \/ SetInvitationNotifiedFails
    \/ Remember \/ Park

-----------------------------------------------------------------------------
(* Replies *)

\* rsvp.Apply reads the event, which the user accepts from the notification or in
\* the window.
Reply(p) ==
    /\ reply[p] = Idle /\ pc # "off"
    /\ replies < MaxReplies /\ replies' = replies + 1 /\ UNCHANGED <<changes, troubles>>
    /\ \E e \in Events :
         /\ local[e] # Absent
         /\ reply' = [reply EXCEPT ![p] = [step |-> "submit", event |-> e,
                                           copy |-> [local[e] EXCEPT !.status = "accepted"]]]
    /\ UNCHANGED <<copies, now, enabled, shown, loop>>

\* The reply reaches the provider, which answers with its own copy or with none.
Submit(p) ==
    LET e == reply[p].event
        accepted == [remote[e] EXCEPT !.status = "accepted"]
    IN
    /\ reply[p].step = "submit"
    /\ IF remote[e] = Absent
       THEN /\ reply' = [reply EXCEPT ![p] = Idle]
            /\ UNCHANGED <<remote, unsent>>
       ELSE /\ remote' = [remote EXCEPT ![e] = accepted]
            /\ unsent' = unsent \cup {e}
            /\ reply' = [reply EXCEPT ![p] = [step |-> "store", event |-> e,
                                              copy |-> IF Echoes THEN accepted ELSE reply[p].copy]]
    /\ UNCHANGED <<local, fetched, overtaken, now, enabled, shown, loop, bounds>>

\* The provider cannot be reached: the notification stays.
SubmitFails(p) ==
    /\ reply[p].step = "submit"
    /\ reply' = [reply EXCEPT ![p] = Idle]
    /\ Trouble
    /\ UNCHANGED <<copies, now, enabled, shown, loop>>

\* The stored copy takes the reply; its notification, dismissed, closes later.
Store(p) ==
    LET e == reply[p].event IN
    /\ reply[p].step = "store"
    /\ local' = [local EXCEPT ![e] = reply[p].copy]
    /\ wake' = TRUE
    /\ reply' = [reply EXCEPT ![p] = Idle]
    /\ UNCHANGED <<remote, unsent, fetched, overtaken, now, enabled, shown, pc, sleep, todo, current,
                   excused, bounds>>

\* Or the database fails, and the reply is with the provider only.
StoreFails(p) ==
    /\ reply[p].step = "store"
    /\ reply' = [reply EXCEPT ![p] = Idle]
    /\ Trouble
    /\ UNCHANGED <<copies, now, enabled, shown, loop>>

ReplyStep(p) == Submit(p) \/ SubmitFails(p) \/ Store(p) \/ StoreFails(p)

-----------------------------------------------------------------------------
(* Syncs, and the world *)

Fetch(e) ==
    /\ pc # "off" /\ fetched[e] = Nothing
    /\ Listing \/ e \in unsent
    /\ fetched' = [fetched EXCEPT ![e] = remote[e]]
    /\ unsent' = unsent \ {e}
    /\ UNCHANGED <<remote, local, overtaken, now, enabled, shown, loop, reply, bounds>>

\* A reply has reached the provider, and is to be stored.
Replied(e) == \E p \in Repliers : reply[p].step = "store" /\ reply[p].event = e

\* Faulty: a copy that was fetched is stored only where there is one.
ApplyKnown(e) ==
    /\ fetched[e] # Nothing
    /\ local' = IF local[e] = Absent THEN local ELSE [local EXCEPT ![e] = fetched[e]]
    /\ fetched' = [fetched EXCEPT ![e] = Nothing]
    /\ overtaken' = IF Replied(e) THEN overtaken \cup {e} ELSE overtaken \ {e}
    /\ wake' = TRUE
    /\ UNCHANGED <<remote, unsent, now, enabled, shown, pc, sleep, todo, current, excused,
                   reply, bounds>>

\* Every stored row wakes the loop.
Apply(e) ==
    /\ fetched[e] # Nothing
    /\ local' = [local EXCEPT ![e] = fetched[e]]
    /\ fetched' = [fetched EXCEPT ![e] = Nothing]
    /\ overtaken' = IF Replied(e) THEN overtaken \cup {e} ELSE overtaken \ {e}
    /\ wake' = TRUE
    /\ UNCHANGED <<remote, unsent, now, enabled, shown, pc, sleep, todo, current, excused,
                   reply, bounds>>

\* The organizer invites, moves the meeting (and asks again), or cancels.
Change(e) ==
    /\ changes < MaxChanges /\ changes' = changes + 1 /\ UNCHANGED <<troubles, replies>>
    /\ remote' \in {[remote EXCEPT ![e] = c] :
                      c \in {d \in Copies : d.status # "accepted"} \ {remote[e]}}
    /\ unsent' = unsent \cup {e}
    /\ UNCHANGED <<local, fetched, overtaken, now, enabled, shown, loop, reply>>

\* Nobody is told of a change of the settings.
SetEnabled ==
    /\ enabled' = ~enabled
    /\ Trouble
    /\ UNCHANGED <<copies, now, shown, loop, reply>>

\* A notification is closed, by the user or after a reply.
Close(e) ==
    /\ e \in pending
    /\ pending' = pending \ {e}
    /\ UNCHANGED <<copies, now, enabled, row, prompts, unrecorded, loop, reply, bounds>>

\* The loop takes no time over a step that it can take.
Pass ==
    /\ now < Horizon
    /\ \/ pc = "off" /\ UNCHANGED timer
       \/ pc = "park" /\ ~wake /\ timer > 0 /\ timer' = timer - 1
    /\ now' = now + 1
    /\ UNCHANGED <<copies, enabled, shown, pc, wake, suspended, todo, current, excused, reply, bounds>>

\* The machine is suspended, wherever the loop is: the clock goes on, but the
\* timer, a time.NewTimer, stands still.
Suspend ==
    /\ pc # "off"
    /\ \E d \in 1 .. Horizon - now : now' = now + d /\ suspended' = suspended + d
    /\ Trouble
    /\ UNCHANGED <<copies, enabled, shown, pc, wake, timer, todo, current, excused, reply>>

Next ==
    \/ LoopStep \/ Crash
    \/ \E p \in Repliers : Reply(p) \/ ReplyStep(p)
    \/ \E e \in Events : Fetch(e) \/ Apply(e) \/ Change(e) \/ Close(e)
    \/ SetEnabled
    \/ Pass \/ Suspend

Fairness ==
    /\ WF_vars(LoopStep)
    /\ \A p \in Repliers : WF_vars(ReplyStep(p))
    /\ \A e \in Events : WF_vars(Fetch(e)) /\ WF_vars(Apply(e))

Spec == Init /\ [][Next]_vars /\ Fairness

-----------------------------------------------------------------------------
(* Properties *)

\* "Each invitation notifies at most once, tracked via InvitationState rows"
\* (engine.go): once, and once more for each time that it was shown and its row
\* not written, by a crash or an error.  It holds while no meeting moves so far
\* that its row is out of sight (RowsStayInSight).
PromptedOnce == \A e \in Events : prompts[e] <= 1 + unrecorded[e]

\* A meeting that is still ahead has its row in the window that passes read.
RowsStayInSight == \A s, t \in Starts : s <= t + PruneAfter

\* The loop does not sleep over an invitation: whether it was just stored, came
\* into the window with time, or was stored while the loop was in a pass, the timer
\* fires within Coalesce of the last wake or MaxWake of the invitation's time,
\* unless the last pass tried and could not show it.  Both are counted in time that
\* the machine is awake: the timer stands still in a suspend (engine.go, loop and
\* resetTimer), and the loop is late by as long as it was suspended since the last
\* pass began.
NothingUnseenAsleep ==
    \A e \in Events :
        pc = "park" /\ ~wake /\ Invites(e) /\ prompts[e] = 0 =>
            \/ timer <= Coalesce
            \/ now + timer <= local[e].start - Lookahead + MaxWake + suspended
            \/ e \in excused

\* The stored copy comes to be the provider's, whichever of a reply and a sync stores
\* its copy last, and where the reply, or its storing, fails.  But not where the
\* provider sends what has changed and a sync has stored the event after the
\* provider took the reply and before the reply was stored over it (apply.go, Apply):
\* no later delta names the event again until it changes again.
Reconciled == <>[](\A e \in Events : local[e] = remote[e] \/ (~Listing /\ e \in overtaken))
=============================================================================
