# A specification of dankcalendar's daemon

TLA+ modules of the concurrent core of the `dcal` daemon (`core/`), the TLC
configurations that check them on small instances, and TLAPS proofs of what
matters most for instances of any size.  Paths are relative to `src/core/`.
Modules translate the code; comments and documents are quoted only where a run
compares the code with them.

    tlc -workers 2 -config MCReminders_loop.cfg MCReminders     # a run
    tlapm Reminders_proofs.tla                                  # proofs

## 1. The system

One daemon keeps a SQLite database (through generated `ent` code) that mirrors
the calendars of the user's accounts, answers a user interface over a socket,
and shows desktop notifications.  Its parts talk through the database, one-slot
wake channels, mutation hooks and a few mutex-protected maps.

| Part | State | Operations | What is hard |
|---|---|---|---|
| **Sync engine, one calendar** `internal/sync/engine.go: syncCalendar` | locals of a pass: cursor, uids seen, series touched; in the database: event rows, `sync_token`, `sync_disabled` | fetch a page, check, apply, store the token, prune or reconcile | no transaction spans a pass; several passes at once; failures between any two steps; three ways a provider reports change |
| **Sync engine, scheduling** same file | `nextDue`, `keyringLocked`, timer, wake channel; `needs_reauth` in the account row | loop, `runDue`, `SyncAccount`, `schedule`, `pruneSchedule`, `recordAuthState` | lists and accounts read early and used late; manual syncs beside the loop; wake-ups lost |
| **Providers** `internal/providers/*` | a `SyncCursor`'s token | `Sync`, `CreateEvent`, `UpdateEvent`, `DeleteEvent` | what a cursor covers; 410 Gone; paging |
| **Repository** `repo/` | rows | one statement or transaction each | atomic only one by one |
| **IPC** `internal/ipc/` | connections, subscriptions | dispatches requests, publishes topics | writes remote then local, racing a sync; starts syncs in goroutines |
| **Reminders** `internal/reminders/engine.go` | `pending`, timer, wake channel; `ReminderState` rows | `Tick`, `fire`, `HandleAction`, `HandleClosed`, `Upcoming` | rows read once per pass; send, record and remember are three steps; deadlines that change while parked |
| **Notification client** `internal/notify/` | ids, handlers | send, dismiss, signals | signals arrive in their own goroutine |
| **Accounts** `internal/accounts/` | account rows, secrets | add, reauthenticate, delete | several writes, each of which may fail |
| **Invitations, RSVP** `internal/invitations/`, `internal/rsvp/` | `InvitationState` rows, `pending`, timer, wake channel | `Tick`, `fire`, `HandleAction`, `Apply` | as reminders; a reply goes to the provider first and is stored after, beside a sync |
| **Secret store** `internal/keyring/`, `repo/secrets.go`, `cmd/dcal/keyring_migrate.go` | each process's backend (service, file, none); copies of a secret in collections, file and database; a marker | get, set, delete, upgrade, migrate | three stores of one secret, written one by one; a service that appears, locks, goes; other processes |
| **OAuth flows** `internal/oauth/` | registry of flows, broker's pending channels | start, deliver, complete, cancel, time out | callback, timeout, cancel and complete race for one channel |
| **Google quota gate** `internal/providers/google/quota.go` | per account: two gates with a pace and a cooldown; per provider: a budget | wait, cooldown, `quotaCall` | callers that wake together; cooldowns that begin during a sleep; bounded waits |
| **Recurrence** `internal/recurrence/` | none | expand, advance | time zones; a library's rules |
| HTTP API, command line, ICS import, conversions, desktop integration | little or none | I/O and conversions | – |

Interactions the models keep: the scheduler decides *when* an account's
calendars are synced (SyncScheduler), a pass changes rows (CalendarSync), a
changed row wakes the reminders loop (`WatchMutations`; `Change` of Reminders),
a changed account row wakes the scheduler (`Wake` of SyncScheduler), IPC
handlers change remote and local state beside a pass (writers of CalendarSync)
and start manual syncs (`Kick` of SyncScheduler, the second syncer of
CalendarSync).  A stored event wakes the invitations loop, and a reply races the
sync that stores its event (`Apply` and `Store` of Invitations).  A sync ends as an
`Outcome` for the scheduler: a locked keyring (SecretStore) or a call put off by
the gate (QuotaGate's `Defer`) is an early retry there, and a completed sign-in
(OAuthFlows' `added`) is its `AddAccount` or `SignIn`.

### What makes each part correct

* A pass: the stored cursor never covers a change that is not stored; what
  exists is not removed; what was deleted goes; the copy converges; a disabled
  calendar keeps no cursor.
* Scheduling: no account is forgotten or starved, none is polled more often than
  the floor, an account with dead credentials is told of once and its flag ends up
  true to the facts.
* Reminders: every trigger fires once, none is slept through, a snooze holds,
  a notification's buttons do what they say.
* Invitations: shown once, never slept over; stored copy and provider agree in the
  end.
* Secret store: the last value written is in a store; it is what a read gives; a
  secret that exists is not taken for absent, which would cost a new sign-in.
* OAuth: each flow has one fate; a consent is used once; nothing is closed twice.
* Quota gate: calls keep their pace and every cooldown; no wait is long; a
  mutation is sent once.

`PROJECT.json` lists the hazards behind these, each at its line, with the
properties that cover it.

## 2. Modules and code

| Module | Code | Abstraction |
|---|---|---|
| `CalendarSync` | `syncCalendar` and the calls it makes; the toggling of a calendar; the event handlers of IPC | one calendar; a row is the revision it holds; a provider is one of five kinds |
| `SyncScheduler` | the loop, `runDue`, `SyncAccount`, `schedule`, `pruneSchedule`, `recordAuthState` | a sync is an outcome; deadlines are time left |
| `Reminders` | the loop, `Tick`, `fire`, `Upcoming`, actions and closed signals | an item has one alarm; time is a counter |
| `Invitations` | the loop, `Tick`, `fire`; `Apply` of a reply; a sync of the events | one (calendar, uid) per invitation; a copy is a start and a status |
| `SecretRegister` | what callers of `SecretStore` rely on | abstract: a regular register |
| `SecretStore` | `keyring.Store`, its `SecretStore` over the database, the daemon's migration | one secret; the service is collections that lock, appear and go |
| `FlowFate` | what a sign-in flow promises | abstract: one fate per flow |
| `OAuthFlows` | registry, broker, the IPC and HTTP handlers | a flow is its state token, a payload is a code or a denial |
| `QuotaGate` | `quotaGate`, `waitQuota`, `quotaCall` | an account's gates; an answer is success or a delay |
| `…_proofs` | – | theorems about the module of that name |
| `OrderLemmas` | – | facts about `Min` and `Max` of `FiniteSetsExt` |
| `MC…` | – | instances for TLC: symmetry sets, plans of items |

Operators whose comment begins with "Faulty:" are wrong versions of the
definition that follows; no specification uses them.  They are what the checks
of `PROJECT.json` ("mutants") put in its place to show that a property can fail.

### CalendarSync

The remote calendar is external: `rev` counts its changes, `changed[u]` is the
revision that last changed event `u`, `live` the events that exist.  `rows[u]`
is the revision of the content stored for `u`, 0 without a row, so that "stored
as it is remotely" is `rows[u] = changed[u]`.  A pass of syncer `s` goes through
`pc[s]`:

| `pc` | Action | Code |
|---|---|---|
| idle | `Begin` | `UpsertCalendar` returns the row; a disabled calendar is skipped |
| fetch | `Fetch`, `FetchGone` | `provider.Sync`; 410 Gone restarts without the cursor inside the provider |
| check | `CheckEnabled` | `GetCalendar`, again |
| apply | `ApplyChange` | one upsert or delete of `applyChanges` |
| token | `SetCalendarSyncToken` | a no-op for a disabled calendar; then the next page, the end, or |
| prune | `PruneSnapshot` | `DeleteEventsNotInUIDs` |
| reconcile | `ReconcileSeries` | `DeleteEventsInSeriesNotInUIDs` |
| any | `AbortSync` | an error returns from the pass, or the process ends |

The provider is one of `kind`:

* "delta": Google; a sync token, one result per pass.  (Google's pages are gathered
  inside the provider.)
* "paged": Microsoft; nextLink and deltaLink, one page per result.  A series
  that is rescheduled arrives under new ids, without removals of the old ones.
* "feed": iCal; validators, so that an unchanged feed is an empty result and a
  changed one a whole listing.  Nobody writes to a feed.
* "source": Evolution; as a feed, with a revision, but writable.
* "list": CalDAV and local files; no cursor, every pass lists everything.

The items of a page are drawn nondeterministically, in any order and up to
`PageSize` per page; the content is read when the page is, so that a change between
two pages is seen by one of them and not the other.  `WriteRemote`/`DeleteRemote`
followed by `WriteLocal` are the two halves of an IPC write, between which a pass
may do anything.  Tasks follow the pattern of events and are left out; so are
the calendar's color and the counters of what is published.

### SyncScheduler

`nextDue[a]` is the time left until account `a` is due; the clock (`Pass`) lowers
it, the loop's `timer` and raises `since`, the time since the loop last began to
sync `a`, which only `Floored` reads.  The loop is `select` → `list` → `pass` →
`reset`.  `queue[s]` holds the accounts as syncer `s` has read them, with the
flag they had then; `sync[s]` is the sync under way, whose outcome is fixed when
it starts and recorded later: first the auth state, then the keyring flag and the
schedule, as in `SyncAccount`.  Manual syncs run the same steps.  Every write of
an account's row sets `wake`.

`ListAccounts` asks at once which accounts are due, where the code asks when each
one's turn comes but with the time of the listing; `Schedule` by another syncer
takes the account out of the queue again, which is the same: a deadline set after
the listing is later than the time of the listing.

Time passes while the loop is parked and while it is in a pass, not between the
statements of `runDue` that neither wait nor call out.

### Reminders

An item's `plan` gives its kind, start, alarm and end; `Key` is the `stateKey` of
its reminder, `states` the `ReminderState` rows.  `Tick` reads the rows once
(`view`) and collects the events' reminders; each is sent, recorded and put in
`pending` by steps of its own; `TickTasks` does the same for tasks with the rows
read at the beginning.  `Park` computes the next deadline.  Users snooze and
close notifications, `Change` moves, replaces, hides or deletes items, the
settings file changes unseen, and the daemon crashes and starts again, all
between any two steps.

The durations of the code keep their order (coalesce < grace < all-day
lateness, lookahead < state floor < prune age) and the instances scale them
down.  `minWake` (a second) is below the clock's resolution.  Default reminders,
all-day reminder times and per-calendar overrides decide *which* alarm an item
has: data of the plan.  Notification ids are reused as soon as no part of the
system remembers them, as a server is free to do.  `sent[k]` counts the
notifications for `k` since its last snooze and is read by properties only.

### Invitations

`remote[e]` and `local[e]` are the provider's and the stored copy of an
invitation, `row[e]` the start that its `InvitationState` row has recorded.  The
loop is `park` (`TakeWake`, `Tick` or `TickSkips`) → `fire` (`Send`, `SendFails`) →
`record` → `remember` → … → `Park`.  As in the code, a pass looks at the event's
present start, and at rows by the start they recorded (`Notified`).  A replier
holds the copy that `Apply` has read while the provider is called (`submit`) and until
`Store` upserts it, or fails to (`StoreFails`); meanwhile a sync is `Fetch` and `Apply`,
with the whole listing or only the changes (`Listing`), and the organizer changes the
meeting.  Some providers answer a reply with their own copy (`Echoes`).  `overtaken` is
a history, for `Reconciled`: the events that a sync has stored while a reply that the
provider had taken was still to be stored.  The buttons of a notification work while
`pending` has it; a reply from the window needs none.

There are two clocks.  `now` is the wall clock, by which events start; `timer` is what
is left of the loop's sleep, a `time.NewTimer`, which counts the time that the machine
is awake.  `Pass` moves both, `Suspend` the wall clock alone, at any step of the loop;
`suspended` is how much of that there was since the last pass began, and only the
property reads it.  (The reminders loop sleeps on a boot timer, which counts a suspend:
Reminders has one clock.)

### SecretStore

`item[k]` is the value in collection `k`, `file` and `db` the two other copies; values
are numbered in the order of writing.  A process `p` has a `backend[p]` and may
keep the file as `fallback[p]`; `Store.mu` is `Free`.  A client's calls go

* `Get`: `BeginGet` → `GetBackend` → (`Search` → `ReadLocked`)* → `GetFile` → `GetDb`.
  `at[c]` is the collection it looks into and `left[c]` those that follow: the default
  first, then the others in any order, or the default alone when the list fails.  A
  locked collection hides its items (`Hides`, as KeePassXC does) or shows them
  unreadable.  That a collection is locked is asked *after* the empty search, by a call
  of its own (`absentErr`); when that call fails, the collection counts as open.
  `got[c]` is what the stores have said so far.
* `Set`: `Put` → `DropFile` → `DropDb` into the service, `Put` → `WriteFile` →
  `DropDb` into the file.  `os.WriteFile` truncates first, so that the file is `Broken`
  between the two, and stays so when the write fails or the process ends
  (`WriteFileFails`, `End`); `putting[c]` is what is being written.
* `Delete`: `Delete` → `DeleteKeyring`.

The daemon's start is `Start` → `Migrate` → `MigrateRemoves`, or `MigrateFails`.
`pinned` is the collection that was the default when the service was opened: it
decides whether there is anything to migrate (`MovesOut`), while the value is put into
what is the default by then (`ServicePut`).

`world` is drawn at the start and never changes: the kind of machine (a file store
or none, a sandbox that may not speak to the service), the processes, and which
troubles may come, so that one run holds several questions.  `latest`, `replaced`, `seen` and
`moved` are the history that `SecretRegister` is about: a read may give the
value of the last write that ended before it or of one that runs beside it.  `blind`
are the readers to whom a locked collection has shown nothing, and who have not been
told that it is locked.

### OAuthFlows

`registry` and `pending` are the two maps, each under its lock; `buffer[f]` and
`closed` are the flow's channel, with room for one payload.  `Callback` is the
browser at the HTTP handler, `Take` the request to complete a flow, which then
receives, gives up, exchanges the code and finishes.  `Cancel` takes the flow under
the lock and closes it after (`CancelClose`).  `broken` is what Go does as a panic.

`Fate` maps a flow to `FlowFate`: it is "offered" as long as somebody holds it, waits
for it or has yet to read its payload.

### QuotaGate

`next[g]` and `blockedUntil[g]` are the gate's fields, `retryWait[p]` the provider's.  A
caller goes `idle` → `wait` → (`sleep` → `wait`)* → `call`, and from there back to
`wait` when a read is throttled.  `wait`, `spend` and the reservation happen under the
gate's lock, so that one action is one turn of its loop.  Time passes when nobody is
about to take a turn: a timer wakes its caller when it fires, while a call may take
any time.  `lastStart` and `told` are histories, for the properties.  An account
without an id gets a gate of its own and is not modelled.

## 3. The runs

| Run | What it shows | Bounds | Distinct states |
|---|---|---|---|
| `sync_single` | one pass at a time, four kinds of provider: `TypeOK`, `NoLost`, `NoGhost`, `RowsNeverGoBack`, `Converges` | 2 events and 1 occurrence, pages of 1, 3 remote changes, 1 toggle, 1 failure, 1 expired cursor | 288 000 |
| `sync_concurrent` | loop, manual sync, IPC write and toggles at once on providers that list everything: `DisabledHasNoCursor`, `ListConverges` | 1 event, 2 syncers, 1 writer, 2 changes, 2 toggles, 1 failure | 189 000 |
| `sync_stale_cursor` | `NoLost` fails when a calendar is disabled and enabled within a pass | 2 events, 2 toggles | violation |
| `sync_resumed_snapshot` | `ResumedSnapshotIsWhole` fails for a paged snapshot that resumes | 2 events, pages of 1, 1 failure | violation |
| `scheduler_loop` | `TypeOK`, `NoAccountForgotten`, `PopupsBounded`, `Floored`, `AlwaysPolled`, `FlagSettles` | 2 accounts, 1 manual syncer, 2 events of the environment | 494 000 |
| `scheduler_cleared` | `ClearedByRecovery` fails | as above | violation |
| `reminders_loop` | `TypeOK`, `FiredOnce`, `NothingDueAsleep`, `ButtonsWork`, `SnoozeKept` | an item with 4 plans, 7 ticks, 2 events of the environment; two items, 6 ticks, 1 event | 769 000 |
| `reminders_snooze` | `NoSnoozeOverslept` fails | 1 item, 1 snooze | violation |
| `invitations` | `TypeOK`, `PromptedOnce`, `NothingUnseenAsleep`, `Reconciled`, with a provider of deltas that does not echo a reply | 1 invitation with 2 starts, 1 replier, 2 changes, 2 troubles | 1 054 000 |
| `secrets` | `TypeOK`, `Kept`, `RefinesRegister`, `NeverDenied` | 2 collections, 2 clients, 2 values; 2 processes and 3 troubles, or 1 and 6, or a migration and 5 | 1 900 000 |
| `oauth_flows` | `TypeOK`, `NoPanic`, `StoppedAddsNothing`, `Refines`, `EachEnds` | 2 flows, 2 requests, no other bound | 10 600 |
| `quota_gate` | `TypeOK`, `WaitsBounded`, `SentOnce`, `Paced`, `CooldownKept` | 2 gates, 2 callers with a provider each, 3 calls, 2 retries | 2 482 000 |

Why the bounds are enough:

* CalendarSync: a lost update needs an event, a revision that the cursor covers
  and one it does not; a wrong prune needs an event before and one after the
  cut, hence two events and pages of one; the series needs an old and a new set of
  occurrences, which one occurrence that comes and goes gives.  Three revisions
  allow a change before, during and after a pass.
* SyncScheduler: the stale list of `pruneSchedule` needs an account listed and
  one added since; the flag needs one syncer that read it before the other wrote
  it.  `MinInterval` 2 and hints of 0 and 1 put a hint under the floor; `MaxWake`
  2 is below the interval of 3, so that the cap is met.  All nine pairs of events
  of the environment (add, delete, revoke, sign in, lock, fail, kick, touch,
  database errors) are within the budget of two.
* Reminders: each plan comes due, is missed, and ends within the time; a snooze
  ends and fires again; a crash or failure can come before and after.  Two items
  are needed only for the soonest of two deadlines and for a pass with two
  reminders: `Scope`, the run's constraint, follows an item alone for longer and
  through more than two that meet.
* Invitations: the second start is as far from the first as a row stays in sight
  (`PruneAfter`), and beyond the lookahead, so that a move takes a meeting out of the
  window and into it; a reply may meet two changes, before and after its submission.
* SecretStore: two values are an older and a newer copy, two collections the default
  and another; the third store is the file.  Two processes with different backends
  suffice for stale copies; six troubles let a service appear, lock, vanish and come
  back around a write that is cut short.
* OAuthFlows: nothing is bounded but the number of flows and requests; two requests
  can ask for the same flow or for each other's.
* QuotaGate: two callers wake together at one gate after a cooldown, while a third
  call has used up part of a budget at the other; delays of 2, 4 and 5 with an inline
  bound of 4 and a budget of 6 are below, at and above each.  The code's numbers (a
  quarter of a second of pace, 2 s, 5 s, delays of 1 s and more) keep their order.

`CalendarSync`, `SyncScheduler` and `Reminders` are checked for deadlock (Reminders
ends at `MaxTime`, by the action `End`).  The four others may really stop: at the
horizon of time, when every value is written, when every flow has ended, when every
call is made; their runs say so.

### Exceptions written into properties

They are what the code does, each a condition of the property so that a reader
sees it:

* `NoLost`, `RowsNeverGoBack` (of rows up to date): a paged pass cut short (finding 2).  Within one
  syncer: a toggle within a pass (finding 1) is not in `sync_single`.
* `NoGhost`, `Converges`: a failure between the last cursor and the pruning (or
  the reconciliation) loses the pruning, since the next pass is a delta; and an
  expired cursor in the middle of the pages keeps the uids seen before.
* `NothingDueAsleep`: a trigger that comes due *during* a pass is after the
  pass's time and before the time `untilNext` looks from; the next pass within
  the hour fires it.  A notification the server rejects is tried again only then.
  The settings file has no watcher.  A trigger whose item enters the lookahead
  while the loop is parked (offset of nearly four weeks) is seen at the next pass.
* `FiredOnce`: `Remembered` keys only (see the early alarms below), and one more for each crash or
  failed write between sending and recording.
* `SnoozeKept`: `Remembered` keys only, and none of those crashes and failed
  writes: they leave a second notification of the reminder, whose snooze button
  replaces the snooze.
* `ButtonsWork`: in a pass, the notification that was sent last, until it is noted in
  `pending` (`reminders/engine.go:588`): `HandleAction` (420) drops an action on an id it
  does not know.  And a daemon that has crashed: what the former one sent has buttons
  that nobody answers.
* `NoAccountForgotten`: a failed `ListAccounts` leaves the schedule as it is.
* `PromptedOnce`: once more for each showing that was not recorded.  The run's starts
  satisfy `RowsStayInSight`; the theorem assumes it.
* `Reconciled`: with a provider of deltas, an event that a sync has stored after the
  provider took a reply and before the reply was stored (`overtaken`).  See "A reply over
  newer content" below: without the exception the run refutes the property.
* `NothingUnseenAsleep`: an invitation that the last pass could not show (its read
  or its notification failed, or reminders are switched off) waits for the next one;
  and the loop is late by the time that the machine was suspended since the last pass
  began (`suspended`).  Without either the run refutes the property.
* `RefinesRegister`: in `Calm` worlds.  A read may find nothing beside a write, and when
  it is `blind`.
* `NeverDenied` speaks of reads from the service; a process with the file, or none, has
  nothing else to ask.  It excepts a `blind` reader and a file that is `Broken`.
* `Kept`: not while the file is `Broken`.  In the worlds of the run nothing is refreshed
  after a failed migration, no migration is overtaken by a change of the default
  ("overtake"), and where several processes run the service does not vanish and no file
  write ends short (`SafeWorlds` in `SecretStore_proofs`).

### Findings

1. *A cursor stored over purged rows* (`sync_stale_cursor`).  A pass has fetched a
   delta; the user disables the calendar (rows purged, token cleared) and enables
   it again; the pass stores its cursor, and the provider never sends the
   purged events again.  The no-op of `SetCalendarSyncToken` for disabled
   calendars was meant to rule this out and does not see the second toggle.
2. *A resumed snapshot prunes live events* (`sync_resumed_snapshot`).  The stored
   nextLink of a first sync makes the next pass a snapshot too, without the
   uids of the pages applied before the failure.
3. *`needs_reauth` cleared by any other failure* (`scheduler_cleared`).  A network
   error or a locked keyring counts as recovery; the notification repeats.
4. *A snooze does not wake the loop* (`reminders_snooze`).  It is noticed at the
   timer's next firing, up to an hour late.

Seen while modelling, without a run of their own: a calendar disabled between a
pass's check and its upserts does not stay empty until it is enabled again (its
token does stay empty, by `DisabledHasNoCursor`); the retry that a manual sync
schedules for a locked keyring does not rearm the loop's timer; while `ListAccounts`
fails and an account is overdue the loop does not sleep; `Stop` replaces the
channel it has closed, so that a loop inside a pass does not see it; wakes that
never pause for two seconds keep the reminders loop from its pass.  And with a
provider of deltas `NoLost` needs the passes over a calendar to take turns: of two
that overlap, the one with the older result may store older content after the other
has stored the newer cursor, and so may the local half of an IPC write that comes
late.  The next change of the event mends it.  Providers that list everything mend
it in the next pass: `ListConverges`.

Of the other modules:

* *Early task alarms.*  `stateMap` (`reminders/engine.go:541`) loads the rows whose
  occurrence starts within the lookahead, and tasks are candidates without one: the
  alarm of a task that is more than four weeks before it is fired by each pass
  within the grace.  The comment at `engine.go:2` says "exactly once".  `Remembered`
  leaves these keys out.
* *A meeting moved far.*  `notifiedSet` (`invitations/engine.go:279`) looks for rows
  by the start they recorded; one that is moved more than 60 days past it, still
  unanswered, is shown again.
* *A reply over newer content.*  `Apply` (`rsvp/apply.go:115`) stores the copy it read
  before the reply.  If a sync has stored a change or a deletion meanwhile, a provider of
  deltas does not send it again, though the comment at `apply.go:106`, about Microsoft,
  which is such a provider, says that "the next sync reconciles the authoritative
  state".  The stored copy stays wrong until the event changes again.  `Reconciled` shows
  that this is the only order in which it does: the run has such a provider, and `overtaken`
  is the exception.
* *Invitations after a suspend.*  Their loop sleeps up to `maxWake` on a
  `time.NewTimer` (`invitations/engine.go:155`, `173`), which stands still in a suspend,
  and nothing wakes it when the machine resumes.  An invitation that came into sight
  meanwhile is shown late by the length of the suspend.
* *A migration overtaken.*  `MigrateLoginCollection` asks for the collection that `Open`
  has pinned (`migrate.go:21`); `Set` resolves the default again
  (`secretservice.go:145`).  If the default has become the login collection in between, or
  `ReadAlias` fails, which counts as that, the value is written into login and then
  removed from it (`migrate.go:39`): it is nowhere.  In the model this is `Move` in a world with the
  trouble "overtake", which TLC shows to violate `Kept` and the run's worlds leave out.
* *A file cut short.*  `fileStore.Set` is `os.WriteFile` (`filestore.go:77`), which
  truncates the file before it writes.  A full disk, a crash in between or two processes
  that write at once leave a file that does not decode: the older secret is lost with the
  newer one, and `Get` fails until the next `Set`.
* *A lock read too late.*  `getAnywhereLocked` searches (`secretservice.go:93`) and then
  asks whether the collection is locked (`:100`, `:278`), so that an empty search of a
  locked one reads "as locked, not missing" (`:75`).  If the user unlocks it between the
  two calls, or the second fails (`:281`), a secret that exists is reported missing, and
  the account as one that needs a sign-in.
* *An older secret served.*  A process that starts while the Secret Service is away
  refreshes the secret in the file.  One that starts when it is back asks the
  service first (`keyring.go:99`) and gets the copy from before.  `vanish` is
  therefore outside `Calm`.  The same follows from copies left in other
  collections when the default changes, and from a process that ends between a write
  and the removal of the copies.
* *A migration that failed.*  Its marker is not stamped; secrets refreshed since then
  are in the default collection, and the next start moves the older ones over them
  (`migrate.go:16`).
* A process without service and file ("bare") that keeps secrets in the database stays
  with it when the service appears.  A deletion in a locked collection that hides its
  items finds none and succeeds.  The marker is stamped by a daemon that had only the
  file.
* *Cancel after complete.*  `handleGoogleComplete` takes the flow and then waits for
  the browser; a cancel finds nothing (`callback.go:51`) and the account is added
  when the browser comes back.  The window sends both requests.  A request for the
  wrong provider takes the flow out and drops it.
* *The gate.*  With a backoff of at least 1, 2, 4 s and an inline wait of 2 s, five
  retries (`maxReadRetries`) are never reached.  A call that has used up its
  attempts tells its caller to come back after its own delay, which may be earlier
  than the cooldown another call has earned (`quota.go:186`).  The budget is the
  provider's, not the gate's: a Tasks cooldown leaves less of it for the Calendar.

## 4. Fairness

* CalendarSync: weak fairness of each syncer's steps and of the second half of
  an IPC write.  The engine polls for as long as it runs, and every call has a
  timeout or returns an error (`AbortSync`, bounded).  That polling goes on
  is what `SyncScheduler` shows (`AlwaysPolled`).
* SyncScheduler: weak fairness of the loop, of each goroutine's steps and of the
  clock.  The loop's `select` picks either of two ready cases, and both lead to
  the same pass.
* Reminders: none; its properties are safety, with sleep past a deadline stated
  as a state that is never reached.
* Invitations: weak fairness of the loop, of a replier's steps and of the sync of each
  event, which is what the scheduler gives.
* OAuthFlows: weak fairness of a request's steps, among them the timeout (a timer of
  five minutes), and of the second half of a cancel.  The browser owes nothing.  The
  calls that follow the consent are taken to end: the exchange has a timeout of six minutes
  (`ipc/accounts.go:206`), the one for the user's address in `FinishGoogle` (`:215`) has
  none of the handler's.
* SecretStore, QuotaGate: none; their properties are safety.  That no caller of the
  gate starves is a bound on its wait (`WaitsBounded`), stronger than "eventually".
* The environment (users, remote calendars, errors, crashes) owes nothing, so
  the convergence properties read: once it is quiet, if it ever is.

## 5. Proofs

The theorems hold for any sets of events, accounts and items, any number of
syncers and writers, any durations and bounds.  What they assume of the constants
is the `ConstantsAssumption` of each module, which TLC evaluates in the runs;
what they assume beyond it is said below.  Where a property is not inductive, the
invariant `IInv` of the proof module is: it says what the property needs of every
place in between.

### CalendarSync

* `TypeCorrect`: `Spec => []TypeOK`.  One lemma per operator that builds a token, a
  batch or a result, then one per group of actions.
* `DisabledHasNoCursorHolds`: inductive with the types alone; the two actions
  that write the token are the toggle, which clears it, and `SetCalendarSyncToken`,
  which leaves it when disabled.  It needs no assumption on how many syncs are in
  flight or when the user toggles.
* `NoLostHolds` and `RowsNeverGoBackHolds` assume `OneAtATime`: one syncer, no toggle
  within a pass and no IPC writes, with any provider, failures,
  crashes and cursors that expire.  These conditions are the ones the code's argument
  needs: toggles are refuted by the run of finding 1, overlapping passes and late
  writes by the behaviours told under the findings.  A listing over pages that was cut
  short is refuted by the run of finding 2, so what follows holds while `PagesWhole`.
  That a pass may store its cursor depends on what it has fetched and applied, so
  `IInv` is `TypeOK` and, while `PagesWhole`, `MirrorInv`:
  - `RevisionsInv`: no event changed, no row stored and no cursor taken later than
    the remote revision; what exists has been changed; the occurrences, which only
    a paged provider has, are changed together;
  - `Covered`: `NoLost` without its exception, for what a nextLink has already
    delivered;
  - `PassesInv`, for each syncer by its place in the pass.  Before the first result
    its cursor is the stored token (`FetchInv`).  With a result, what the reply holds
    of a live event is the present content, or the row is out of date as well; what is
    not in `todo` is applied (`AppliedInv`); the token covers no more than the rows
    will hold once the changes are applied (`NextInv`); and every up-to-date row is in
    `seen`, in the result or on a page still to come, every up-to-date occurrence of a
    touched series in `kept` or there (`ResultInv`): pruning and reconciling spare it.

  A lemma for each action keeps the three parts.  `RowsNeverGoBack` also says that no
  row is given older content than it has.  This holds of passes that were cut short as well,
  from `ContentInv`: what a pass has still to store is not older than the row.
* `NoGhostHolds`, from the same assumptions, adds `GhostInv`, which speaks as `NoGhost`
  does while no pass was cut short and no listing over pages restarted (`Unhindered`).
  No row is left of an event whose deletion the token covers (`Gone`), except while a
  pass prunes or reconciles.  For the pass that will, `Removed` says which deletions its
  token, the pages to come (`Owes`) and the reconciliation of a touched series still
  have to bring, and `After` that what it spares has not been deleted before its token.

### SyncScheduler

* `TypeCorrect`, with what bounds each deadline.
* `NoAccountForgottenHolds` and `FlooredHolds`, for any number of manual syncs.
  Both speak of one pass of the loop and of what may happen beside it, so `IInv`
  adds to the types
  - `OneSync`: a goroutine syncs one account at a time, the loop only in a pass;
  - `QueueInv`: what the loop has still to sync in this pass is listed, once, and
    what it is syncing is not queued any more;
  - `AddedSince`: an account added since the loop read the list has left a token in
    the wake channel, and the loop has not synced it, which is why `pruneSchedule`
    with an old list does no harm;
  - `Awaited`: an account without a place in the schedule is still to be listed, in
    the pass that is running, or announced by the token in the channel;
  - `Spaced`: until `minInterval` has passed since the loop has synced an account,
    its deadline, or the sync under way, keeps it from being due.
* `PopupsBoundedHolds`, with finitely many manual syncs.  A goroutine reads an account
  once per sync (`ReadOnce`), and the notifications since the flag was clear together
  with the syncers that have read it clear and have yet to record what they found are
  at most the number of syncers (`PopupsInv`).

### Reminders

* `TypeCorrect`: `TypeOK` includes that no park is longer than `maxWake`, which rests
  on `Upcoming` holding only deadlines that are ahead.  A fresh notification id
  exists because those in use are finitely many.
* `FiredOnceHolds`, `ButtonsWorkHolds`, `SnoozeKeptHolds`: one invariant serves the
  three, since a notification on screen, its reminder's row and the pass that works
  with an older copy of the row depend on each other.  Beyond the types, `IInv` is
  - `RowsInv`: only a row that was seen is snoozed; a daemon that has never crashed
    has no snooze before it starts;
  - `PassInv`: one notification is recorded at a time, it is neither pending nor to
    be fired again, and the events are done when the tasks come;
  - `SentInv`: a reminder that the loop may still send, by its list, by the rows it
    has read or by those of the database (`Fireable`), has been sent no more often
    than there were crashes and failed writes (`Excess`), any other at most once
    more;
  - `NotesInv`: what is on screen is pending or being noted (`Noted`), which gives
    `ButtonsWork`, and what was closed is not on screen;
  - `SnoozeInv`, while `Excess` is 0: a reminder has one notification at most on
    screen, the one being recorded if there is one; and neither a notification
    on screen nor a pass that is about to fire it meets a running snooze.

  The window of rows that a pass loads enters by `FireSetRows`: for a `Remembered`
  key, what a pass fires has an unfired row.  It needs
  `StartGrace <= AllDayLate <= StateFloor`, as in the code.
* `NothingDueAsleepHolds`, from `AwakeInv`: as long as nothing has changed since the
  pass began, which a token in the wake channel would tell, every trigger that is due
  is still owed by the pass (`PassServes`); and the timer of a sleeping loop ends
  before any trigger it can foresee is due (`TimerKnows`).

### Invitations

* `TypeCorrect`, with the longest sleep the loop may begin.
* `NothingUnseenAsleepHolds`, for any invitations, repliers and durations.  Asleep,
  the loop relies on what the last pass has read, so the invariant also says of a
  pass (`PassCovers`) that an invitation never shown is in what is left to show,
  was stored since and has left a token, or came into the window with a suspend in the
  pass; and that rows are of what was shown.
* `PromptedOnceHolds` assumes `RowsStayInSight`.  Its invariant: a showing on record
  has its row until all starts have passed (`RowsLast`), and what a pass has still to
  show has none (`TodoNew`).

### SecretStore

* `TypeCorrect`, with the rule that a sandboxed process never has the service.
* `KeptHolds` assumes `SafeWorlds`, which the run's worlds satisfy.  Of each world, it
  says two things.  A process is alone, on any machine and with any troubles (`Alone`),
  or there are any number, on a machine with a file store, where a service that is there
  stays and no file write ends short or meets another (`StaysUp`).  And nothing is to be
  migrated and the default collection stays (`Settled`), or the daemon migrates first
  (`MigratesFirst`): alone, with a migration that does not fail and is not overtaken, and
  with a default collection that may change before and after it.  `WriterInv` says that
  the file has one writer at a time, and that he writes the last value unless the service
  has got it meanwhile; `DropsInv` that a copy is removed only when the value is in a store
  asked before it; `StaysUpInv` that nobody writes the file while another's write to the
  service is under way, since he would go over to the service first; `MigrationInv` that
  what is moved out of the login collection is the last value, and that `pinned` is still
  the default.
  None of the conditions can go, as TLC shows in worlds outside them.  Of two processes,
  one writes to the service, which vanishes; the other finds the file and writes a newer
  value there, which the first one then removes.  On a machine without a file store it is
  the database's copy that goes.  A command that writes before the daemon migrates has its
  value replaced by the older one.  And a migration that is overtaken removes what it has
  moved.
* `NeverDeniedHolds`, in the same worlds, where `OneClientEach` holds too: if the service
  may vanish, a process has one client.  Of two, one may be told that the file has
  nothing, and the other's call go over to the service that is back with the secret,
  before the first asks the database.  `MissingInv` says of a read that has found nothing
  so far where the secret can still be: in the collections ahead of it (`Ahead`), in the
  file once it has looked into all of them, in the database alone once the file has none.
  It speaks of a read that is not `blind`, beside no write and with a whole file
  (`Undisturbed`).  It rests on `Kept`, and on `ServiceInv`: a service that nobody can have
  used has nothing, so that a process with the file loses nothing by not asking it.
* `RefinesRegisterHolds` assumes `TidyWorlds`, which the run's worlds satisfy: in
  calm worlds there is a file store, and nothing is left to migrate.  Any number of
  processes and clients.  `PlacesInv` says where a value can be at all; `WritesInv`
  that the last one is in the service, or else in the file or about to be written there,
  and that another one is in the file only while its writer has still to remove it;
  `ReadInv` what a read that has found nothing so far may conclude: that a write came
  between, or that it is `blind`.

### OAuthFlows

* `NoPanicHolds`, `StoppedAddsNothingHolds` and `RefinesHolds`, for any flows and
  requests and without further assumptions, from one invariant: a pending channel is
  open and without consent; one request at most has a flow; a code is on its way only with
  consent; a flow that was stopped or has added an account is with nobody.
  `RefinesHolds` is `Spec => Abstract!Spec`: each step is one of `FlowFate`'s or a
  stutter.

### QuotaGate

* `TypeCorrect`, which includes that the cooldowns a provider sleeps through never
  exceed its budget in all.
* `WaitsBoundedHolds`, `SentOnceHolds`, `PacedHolds`, `CooldownKeptHolds`, for any
  number of gates, callers and providers, any delays and durations.  `GatesKnow` ties
  the gate's fields to the histories: `next` is at least a pace after the last start and
  `blockedUntil` is the latest time anybody was told.  `SleepsFit` says that a sleep
  ends within the wait it belongs to, and `SentSoFar` counts a call's attempts.

### Only model-checked

Everything temporal under fairness (`Converges`, `ListConverges`, `AlwaysPolled`,
`FlagSettles`, `Reconciled`, `EachEnds`), which is beyond the prover.  Every safety
property the passing runs check has a theorem.

## 6. Not modelled

* Two thirds of the implementation's lines are generated `ent` code (about 41 000 of
  62 000), which a model would only repeat.  Of the hand-written rest, most is I/O,
  conversion and wiring.  The modules map the parts that hold state and meet each
  other; a large share of the lines is not to be had without transliteration.
* Recurrence (`internal/recurrence/`): the rules are a library's, the rest is date
  arithmetic that its tests tabulate.  Read, and not modelled: `Advance`
  (`advance.go:19`) lowers a `COUNT` by one even when the occurrences it passes over
  were excluded, so that such a series of tasks gains one for each.
* Pending open requests (`internal/ipc/pending.go`): one queue under one lock.
* The command line's loopback sign-in (`oauth/loopback.go`): one flow of one process.
* Queries, schema migrations, ICS import, conversions between formats, the HTTP API
  and the command line: sequential code whose properties are about data, and which
  the repository's unit tests exercise.
* Tasks of a sync, single occurrences of a series in an IPC write or a reply, the
  calendar's overrides: they repeat the steps of what is modelled with other data.
* D-Bus, HTTP and SQL themselves; the user interface (`quickshell/`).

## 7. Plan

Done: the seven modules of section 2 with their runs, and the theorems of section 5.
What would come next, the most important first:

1. **MirrorSpec**: what `CalendarSync` promises (a copy that is at every moment a mix
   of revisions the remote calendar had, never older than the cursor it stores),
   with `CalendarSync` as an implementation under `OneAtATime`, by TLC and then by
   TLAPS from `IInv`.
2. **Composition**: SyncScheduler over QuotaGate, to show that a hint taken from a
   deferral makes the next sync start when the gate is open.
3. **Recurrence**: expansion over a window against a reference definition, with the
   library's rules as a parameter.
