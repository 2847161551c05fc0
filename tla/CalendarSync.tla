------------------------------ MODULE CalendarSync ------------------------------
(***************************************************************************)
(* One calendar mirrored from a provider into the local database.          *)
(*                                                                         *)
(* The remote calendar is external: a revision counter, the revision that  *)
(* last changed each event, and the set of events that exist.  A stored    *)
(* row is represented by the revision of the content it holds (0: no row). *)
(* Several syncers may work on the calendar at once: the engine's loop, a  *)
(* goroutine started by accounts.refresh or by re-enabling the calendar,   *)
(* a `dcal sync` process.  Each one runs syncCalendar step by step, so     *)
(* that users, IPC writers, errors and crashes come between any two of its *)
(* database or provider calls.                                             *)
(***************************************************************************)
EXTENDS Naturals, FiniteSets

CONSTANTS
  UIDs,            \* event identifiers, as the provider assigns them
  Occurrences,     \* those that are expanded occurrences of one series
  Syncers,         \* goroutines and processes that run syncCalendar
  Writers,         \* IPC requests that create, update or delete an event
  Kinds,           \* the providers an account may have, see kind
  PageSize,        \* most items a page of a paged provider carries
  ToggleInFlight,  \* may the user toggle the calendar while a sync runs?
  MaxRev,          \* bound: revisions of the remote calendar
  MaxToggles,      \* bound: calls of calendars.setSyncDisabled
  MaxAborts,       \* bound: passes or writes that end early (error, crash)
  MaxExpiries      \* bound: cursors the provider rejects with 410 Gone

ASSUME ConstantsAssumption ==
  /\ Occurrences \subseteq UIDs
  /\ Kinds \subseteq {"delta", "paged", "feed", "source", "list"}
  /\ PageSize \in Nat \ {0}
  /\ ToggleInFlight \in BOOLEAN
  /\ {MaxRev, MaxToggles, MaxAborts, MaxExpiries} \subseteq Nat

VARIABLES
  kind,      \* the provider: "delta" (Google), "paged" (Microsoft), "feed" (iCal),
             \* "source" (Evolution) or "list" (CalDAV, local files)
  rev,       \* the remote calendar's revision counter
  changed,   \* changed[u]: revision that last changed u, deletion included
  live,      \* the events that exist remotely
  rows,      \* rows[u]: revision of the content stored for u, 0 without a row
  disabled,  \* calendars.sync_disabled
  token,     \* calendars.sync_token
  pc,        \* pc[s]: where syncer s is in syncCalendar
  cursor,    \* cursor[s]: the cursor it passes to provider.Sync
  reply,     \* reply[s]: the SyncResult it is working on
  todo,      \* todo[s]: the changes of that result it has not applied
  seen,      \* seen[s]: eventUIDs, upserted by snapshot results of this pass
  kept,      \* kept[s]: seriesUIDs, occurrences upserted in this pass
  flags,     \* flags[s]: has the pass met a snapshot, a touched series?
  job,       \* job[w]: the write that w has made remotely and not stored, if any
  used       \* how much of each bound is spent

remoteVars == <<kind, rev, changed, live>>
localVars  == <<rows, disabled, token>>
passVars   == <<pc, cursor, reply, todo, seen, kept, flags>>
vars       == <<remoteVars, localVars, passVars, job, used>>

----------------------------------------------------------------------------
\* Tokens, batches and results

\* A sync token.  "none" is the empty string; "delta" is a cursor that covers
\* the remote changes up to rev (Google's syncToken, Graph's deltaLink, the
\* ETag of a feed, the revision of an Evolution source); "page" is Graph's
\* nextLink, with the items it has still to deliver.
Tokens == [ kind : {"none", "delta", "page"}, rev : Nat, rest : SUBSET UIDs,
            snapshot : BOOLEAN, touch : BOOLEAN ]

NoToken == [kind |-> "none", rev |-> 0, rest |-> {}, snapshot |-> FALSE, touch |-> FALSE]

\* Faulty: the cursor names the revision before the listing.
DeltaTokenBefore(r) ==
  IF kind = "list" THEN NoToken ELSE [NoToken EXCEPT !.kind = "delta", !.rev = r - 1]

\* CalDAV and local calendars return no cursor: every pass lists everything.
DeltaToken(r) ==
  IF kind = "list" THEN NoToken
  ELSE [kind |-> "delta", rev |-> r, rest |-> {}, snapshot |-> FALSE, touch |-> FALSE]

Results == [ items : SUBSET UIDs, content : [UIDs -> Nat], snapshot : BOOLEAN,
             touched : BOOLEAN, more : BOOLEAN, next : Tokens ]

NoResult == [ items |-> {}, content |-> [u \in UIDs |-> 0], snapshot |-> FALSE,
              touched |-> FALSE, more |-> FALSE, next |-> NoToken ]

Budgets == {"toggles", "aborts", "expiries"}

NoFlags == [snapshot |-> FALSE, touched |-> FALSE]

\* A write that has reached the provider and not yet the database.
Jobs == [uid : UIDs, content : Nat]

\* What the remote calendar holds for u, in the terms of rows.
Remote(u) == IF u \in live THEN changed[u] ELSE 0

\* The whole listing, and the changes since revision r.  A rescheduled series
\* sends its present occurrences and no removal for the former ones.
SnapshotBatch == [ kind |-> "page", rev |-> rev, rest |-> live, snapshot |-> TRUE, touch |-> FALSE ]

DeltaBatch(r) ==
  [ kind |-> "page", rev |-> rev, snapshot |-> FALSE,
    rest  |-> { u \in UIDs : changed[u] > r /\ (u \in live \/ u \notin Occurrences) },
    touch |-> \E u \in Occurrences : changed[u] > r ]

\* Nothing of the calendar has a cursor for these: they tell whether it changed
\* since, by the feed's validators or the source's revision, and list it whole
\* if it did.  A feed's 304 Not Modified is an empty delta.
AllOrNothing == {"feed", "source"}

\* Does the answer to token t list the whole calendar?
Whole(t) ==
  \/ t.kind = "none"
  \/ kind = "list"
  \/ kind \in AllOrNothing /\ t.rev # rev

\* The batch that token t asks for: Graph's nextLink asks for the rest of one.
Batch(t) ==
  IF t.kind = "page" THEN t
  ELSE IF Whole(t) THEN SnapshotBatch ELSE DeltaBatch(t.rev)

\* The pages a batch may begin with: a set of items, and whether the item of
\* the series' master comes with them.
Pages(b) ==
  IF kind # "paged" THEN {<<b.rest, b.touch>>}
  ELSE { p \in (SUBSET b.rest) \X BOOLEAN :
           /\ Cardinality(p[1]) <= PageSize
           /\ p[2] => b.touch
           /\ p[1] = {} /\ ~p[2] => b.rest = {} /\ ~b.touch }

\* The SyncResult for page p of batch b, items read when the page is fetched.
Result(b, p) ==
  LET left  == [ kind |-> "page", rev |-> b.rev, rest |-> b.rest \ p[1],
                 snapshot |-> b.snapshot, touch |-> b.touch /\ ~p[2] ]
      more  == left.rest # {} \/ left.touch
      items == { u \in p[1] : u \in live \/ (~b.snapshot /\ u \notin Occurrences) }
  IN  [ items    |-> items,
        content  |-> [u \in UIDs |-> IF u \in items THEN Remote(u) ELSE 0],
        snapshot |-> b.snapshot,
        touched  |-> p[2],
        more     |-> more,
        next     |-> IF more THEN left ELSE DeltaToken(b.rev) ]

----------------------------------------------------------------------------
Init ==
  /\ kind \in Kinds
  /\ rev = 0 /\ changed = [u \in UIDs |-> 0] /\ live = {}
  /\ rows = [u \in UIDs |-> 0] /\ disabled = FALSE /\ token = NoToken
  /\ pc = [s \in Syncers |-> "idle"]
  /\ cursor = [s \in Syncers |-> NoToken]
  /\ reply = [s \in Syncers |-> NoResult]
  /\ todo = [s \in Syncers |-> {}]
  /\ seen = [s \in Syncers |-> {}]
  /\ kept = [s \in Syncers |-> {}]
  /\ flags = [s \in Syncers |-> NoFlags]
  /\ job = [w \in Writers |-> {}]
  /\ used = [what \in Budgets |-> 0]

Spend(what, bound) == used[what] < bound /\ used' = [used EXCEPT ![what] = @ + 1]

\* The event rows become new.  DeleteEvent names a row by its id: a delete that
\* is under way has nothing left to do once its row is gone.
Remaining(new) ==
  [w \in Writers |-> { j \in job[w] : j.content # 0 \/ new[j.uid] # 0 }]

RowsBecome(new) == rows' = new /\ job' = Remaining(new)

----------------------------------------------------------------------------
\* The remote calendar, changed from elsewhere

RemoteChange(S, exists) ==
  /\ rev < MaxRev
  /\ rev' = rev + 1
  /\ UNCHANGED kind
  /\ changed' = [u \in UIDs |-> IF u \in S THEN rev + 1 ELSE changed[u]]
  /\ live' = exists

RemotePut(u) == RemoteChange({u}, live \cup {u}) /\ UNCHANGED <<localVars, passVars, job, used>>

RemoteDrop(u) ==
  /\ u \in live
  /\ RemoteChange({u}, live \ {u})
  /\ UNCHANGED <<localVars, passVars, job, used>>

\* The series is moved: its occurrences are now S, the others are gone.
RemoteReschedule(S) ==
  /\ kind = "paged" /\ Occurrences # {}
  /\ RemoteChange(Occurrences, (live \ Occurrences) \cup S)
  /\ UNCHANGED <<localVars, passVars, job, used>>

----------------------------------------------------------------------------
\* The user

SetCalendarSyncDisabled(d) ==
  /\ ToggleInFlight \/ \A s \in Syncers : pc[s] = "idle"
  /\ Spend("toggles", MaxToggles)
  /\ disabled' = d
  /\ token' = NoToken
  /\ RowsBecome(IF d THEN [u \in UIDs |-> 0] ELSE rows)
  /\ UNCHANGED <<remoteVars, passVars>>

\* handleEventCreate, handleEventUpdate: the provider has the event first ...
WriteRemote(w, u) ==
  /\ kind # "feed" /\ job[w] = {}
  /\ rows[u] = 0 <=> u \notin live
  /\ RemoteChange({u}, live \cup {u})
  /\ job' = [job EXCEPT ![w] = {[uid |-> u, content |-> rev + 1]}]
  /\ UNCHANGED <<localVars, passVars, used>>

\* ... and handleEventDelete deletes it there; that it is already gone is no
\* error to Google and Microsoft.
DeleteRemote(w, u) ==
  /\ kind # "feed" /\ job[w] = {}
  /\ rows[u] # 0
  /\ u \in live \/ kind \in {"delta", "paged"}
  /\ IF u \in live THEN RemoteChange({u}, live \ {u}) ELSE UNCHANGED remoteVars
  /\ job' = [job EXCEPT ![w] = {[uid |-> u, content |-> 0]}]
  /\ UNCHANGED <<localVars, passVars, used>>

\* The handler stores the result: persistEvent, or DeleteEvent.
WriteLocal(w) ==
  \E j \in job[w] :
    /\ rows' = [rows EXCEPT ![j.uid] = j.content]
    /\ job' = [Remaining(rows') EXCEPT ![w] = {}]
    /\ UNCHANGED <<remoteVars, disabled, token, passVars, used>>

----------------------------------------------------------------------------
\* syncCalendar

Leave(s) ==
  /\ pc' = [pc EXCEPT ![s] = "idle"]
  /\ cursor' = [cursor EXCEPT ![s] = NoToken]
  /\ reply' = [reply EXCEPT ![s] = NoResult]
  /\ todo' = [todo EXCEPT ![s] = {}]
  /\ seen' = [seen EXCEPT ![s] = {}]
  /\ kept' = [kept EXCEPT ![s] = {}]
  /\ flags' = [flags EXCEPT ![s] = NoFlags]

\* UpsertCalendar returns the stored row: a disabled calendar is skipped, any
\* other is synced from the token it holds.
Begin(s) ==
  /\ pc[s] = "idle"
  /\ IF disabled THEN UNCHANGED <<pc, cursor>>
     ELSE /\ pc' = [pc EXCEPT ![s] = "fetch"]
          /\ cursor' = [cursor EXCEPT ![s] = token]
  /\ UNCHANGED <<remoteVars, localVars, reply, todo, seen, kept, flags, job, used>>

\* The SyncResult for a cursor.  A provider that answers 410 Gone is asked
\* again without the cursor before provider.Sync returns.
Receive(s, t) ==
  \E p \in Pages(Batch(t)) :
    LET r == Result(Batch(t), p) IN
      /\ pc[s] = "fetch"
      /\ pc' = [pc EXCEPT ![s] = "check"]
      /\ reply' = [reply EXCEPT ![s] = r]
      /\ todo' = [todo EXCEPT ![s] = r.items]
      /\ UNCHANGED <<remoteVars, localVars, cursor, seen, kept, flags, job>>

Fetch(s) == Receive(s, cursor[s]) /\ UNCHANGED used

FetchGone(s) ==
  /\ kind \in {"delta", "paged"}
  /\ cursor[s].kind # "none"
  /\ Spend("expiries", MaxExpiries)
  /\ Receive(s, NoToken)

\* Faulty: the cursor is stored before the changes it covers are applied.
CommitBeforeApply(s) ==
  /\ pc[s] = "check"
  /\ IF disabled THEN Leave(s) /\ UNCHANGED token
     ELSE /\ pc' = [pc EXCEPT ![s] = IF todo[s] = {} THEN "token" ELSE "apply"]
          /\ token' = reply[s].next
          /\ UNCHANGED <<cursor, reply, todo, seen, kept, flags>>
  /\ UNCHANGED <<remoteVars, rows, disabled, job, used>>

\* GetCalendar: a calendar that was disabled meanwhile drops the result.
CheckEnabled(s) ==
  /\ pc[s] = "check"
  /\ IF disabled THEN Leave(s)
     ELSE /\ pc' = [pc EXCEPT ![s] = IF todo[s] = {} THEN "token" ELSE "apply"]
          /\ UNCHANGED <<cursor, reply, todo, seen, kept, flags>>
  /\ UNCHANGED <<remoteVars, localVars, job, used>>

\* applyChanges: one UpsertEvent or DeleteEventByUID.
ApplyChange(s, u) ==
  /\ pc[s] = "apply"
  /\ u \in todo[s]
  /\ RowsBecome([rows EXCEPT ![u] = reply[s].content[u]])
  /\ todo' = [todo EXCEPT ![s] = @ \ {u}]
  /\ pc' = [pc EXCEPT ![s] = IF todo[s] = {u} THEN "token" ELSE "apply"]
  /\ UNCHANGED <<remoteVars, disabled, token, cursor, reply, seen, kept, flags, used>>

\* What the pass has collected once the changes of its result are applied.
Upserts(s) == { u \in reply[s].items : reply[s].content[u] # 0 }

\* Faulty: only the last page's events count as seen.
SeenLastPage(s) == IF reply[s].snapshot THEN Upserts(s) ELSE {}

SeenSoFar(s) == IF reply[s].snapshot THEN seen[s] \cup Upserts(s) ELSE seen[s]

FlagsSoFar(s) == [ snapshot |-> flags[s].snapshot \/ reply[s].snapshot,
                   touched  |-> flags[s].touched \/ reply[s].touched ]

\* Faulty: the token is stored whatever became of the calendar.
TokenAlways(t) == t

\* repo.SetCalendarSyncToken writes nothing to a disabled calendar.
StoredToken(t) == IF disabled THEN token ELSE t

\* The token is stored; the pass then asks for the next page, or ends with
\* pruneSnapshot or with the reconciliation of series.
SetCalendarSyncToken(s) ==
  LET r == reply[s]
      f == FlagsSoFar(s)
  IN  /\ pc[s] = "token"
      /\ token' = StoredToken(r.next)
      /\ IF ~r.more /\ ~f.snapshot /\ ~f.touched THEN Leave(s)
         ELSE /\ pc' = [pc EXCEPT ![s] = IF r.more THEN "fetch"
                                           ELSE IF f.snapshot THEN "prune" ELSE "reconcile"]
              /\ cursor' = [cursor EXCEPT ![s] = r.next]
              /\ reply' = [reply EXCEPT ![s] = NoResult]
              /\ seen' = [seen EXCEPT ![s] = SeenSoFar(s)]
              /\ kept' = [kept EXCEPT ![s] = @ \cup (Upserts(s) \cap Occurrences)]
              /\ flags' = [flags EXCEPT ![s] = f]
              /\ UNCHANGED todo
      /\ UNCHANGED <<remoteVars, rows, disabled, job, used>>

\* Faulty: an empty snapshot prunes nothing.
PruneNonEmpty(s) ==
  /\ pc[s] = "prune"
  /\ RowsBecome(IF seen[s] = {} THEN rows
                ELSE [u \in UIDs |-> IF u \in seen[s] THEN rows[u] ELSE 0])
  /\ Leave(s)
  /\ UNCHANGED <<remoteVars, disabled, token, used>>

\* DeleteEventsNotInUIDs, which without UIDs deletes every row
PruneSnapshot(s) ==
  /\ pc[s] = "prune"
  /\ RowsBecome([u \in UIDs |-> IF u \in seen[s] THEN rows[u] ELSE 0])
  /\ Leave(s)
  /\ UNCHANGED <<remoteVars, disabled, token, used>>

\* Faulty: the occurrences a moved series left behind are forgotten.
ReconcileNothing(s) ==
  /\ pc[s] = "reconcile"
  /\ Leave(s)
  /\ UNCHANGED <<remoteVars, localVars, job, used>>

\* DeleteEventsInSeriesNotInUIDs, for the series the batch touched
ReconcileSeries(s) ==
  /\ pc[s] = "reconcile"
  /\ RowsBecome([u \in UIDs |-> IF u \in Occurrences \ kept[s] THEN 0 ELSE rows[u]])
  /\ Leave(s)
  /\ UNCHANGED <<remoteVars, disabled, token, used>>

----------------------------------------------------------------------------
\* A provider or database call fails, or the process ends: nothing of the
\* pass, or of the write, survives but what the database holds.

AbortSync(s) ==
  /\ pc[s] # "idle"
  /\ Spend("aborts", MaxAborts)
  /\ Leave(s)
  /\ UNCHANGED <<remoteVars, localVars, job>>

AbortWrite(w) ==
  /\ job[w] # {}
  /\ Spend("aborts", MaxAborts)
  /\ job' = [job EXCEPT ![w] = {}]
  /\ UNCHANGED <<remoteVars, localVars, passVars>>

SyncStep(s) ==
  \/ Begin(s)
  \/ Fetch(s)
  \/ CheckEnabled(s)
  \/ \E u \in UIDs : ApplyChange(s, u)
  \/ SetCalendarSyncToken(s)
  \/ PruneSnapshot(s)
  \/ ReconcileSeries(s)

Next ==
  \/ \E u \in UIDs \ Occurrences : RemotePut(u) \/ RemoteDrop(u)
  \/ \E S \in SUBSET Occurrences : RemoteReschedule(S)
  \/ \E d \in BOOLEAN : SetCalendarSyncDisabled(d)
  \/ \E w \in Writers, u \in UIDs \ Occurrences : WriteRemote(w, u) \/ DeleteRemote(w, u)
  \/ \E w \in Writers : WriteLocal(w) \/ AbortWrite(w)
  \/ \E s \in Syncers : SyncStep(s) \/ FetchGone(s) \/ AbortSync(s)

Spec == Init /\ [][Next]_vars

\* The engine polls for as long as it runs and each call it makes returns; the
\* environment owes nothing.
Fairness ==
  /\ \A s \in Syncers : WF_vars(SyncStep(s))
  /\ \A w \in Writers : WF_vars(WriteLocal(w))

FairSpec == Spec /\ Fairness

----------------------------------------------------------------------------
\* Properties

\* Type invariant: the calendar row, the event rows and each pass of
\* syncCalendar hold values of their kinds.
TypeOK ==
  /\ kind \in Kinds /\ rev \in Nat /\ changed \in [UIDs -> Nat] /\ live \subseteq UIDs
  /\ rows \in [UIDs -> Nat] /\ disabled \in BOOLEAN /\ token \in Tokens
  /\ pc \in [Syncers -> {"idle", "fetch", "check", "apply", "token", "prune", "reconcile"}]
  /\ cursor \in [Syncers -> Tokens]
  /\ reply \in [Syncers -> Results]
  /\ todo \in [Syncers -> SUBSET UIDs]
  /\ seen \in [Syncers -> SUBSET UIDs]
  /\ kept \in [Syncers -> SUBSET UIDs]
  /\ flags \in [Syncers -> [snapshot : BOOLEAN, touched : BOOLEAN]]
  /\ job \in [Writers -> SUBSET Jobs]
  /\ used \in [Budgets -> Nat]

\* A disabled calendar holds no sync token, whatever syncs were in flight when
\* it was disabled: repo.SetCalendarSyncToken is a no-op for it.
DisabledHasNoCursor == disabled => token = NoToken

\* No lost update.  The stored cursor tells the provider what not to send
\* again, so every event it covers must already be stored as it is remotely:
\* syncCalendar applies a result before it persists the result's cursor.  A
\* paged pass that was cut short is the exception: see ResumedSnapshotIsWhole.
NoLost ==
  token.kind = "delta" /\ (kind = "paged" => used.aborts = 0) =>
    \A u \in live : changed[u] <= token.rev => rows[u] = changed[u]

\* No ghost.  An event whose deletion the stored cursor covers has no row, once
\* the pruning or reconciling of the pass that stored the cursor is done: an
\* error or a crash before it, or a paged listing that had to start over, are
\* what loses it.
NoGhost ==
  /\ token.kind = "delta"
  /\ \A s \in Syncers : pc[s] \notin {"prune", "reconcile"}
  /\ used.aborts = 0 /\ (kind = "paged" => used.expiries = 0)
  => \A u \in UIDs \ live : changed[u] <= token.rev => rows[u] = 0

\* No step gives a row older content than it has, and one that holds the remote
\* event as it is now is neither removed nor overwritten, except by the purge of a
\* disabled calendar: pages and passes come in the order of what they read, and
\* pruneSnapshot and the reconciliation of a series spare what still exists.
RowsNeverGoBack ==
  [][/\ \A u \in UIDs : rows'[u] = 0 \/ rows'[u] >= rows[u]
     /\ (kind = "paged" => used.aborts = 0) =>
          \A u \in live : rows[u] = changed[u] => rows'[u] = rows[u] \/ disabled']_rows

\* What pruneSnapshot may rely on, whatever happened to earlier passes: a
\* snapshot lists every event that exists (calendar.SyncResult.FullSnapshot).
ResumedSnapshotIsWhole ==
  [][\A u \in live : rows[u] = changed[u] => rows'[u] = rows[u] \/ disabled']_rows

\* When the remote calendar and the users come to rest, an enabled calendar
\* ends as a copy of the remote one, unless a pruning was lost (see NoGhost).
Mirrored == \A u \in UIDs : rows[u] = Remote(u)

Converges ==
  <>[](~disabled /\ used.aborts = 0 /\ (kind = "paged" => used.expiries = 0) => Mirrored)

\* Where every pass lists the whole calendar, it ends as a copy after any
\* errors, crashes, concurrent passes and concurrent writes.
ListConverges == <>[](~disabled /\ kind = "list" => Mirrored)

================================================================================
