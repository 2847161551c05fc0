--------------------------- MODULE CalendarSync_proofs ---------------------------
(***************************************************************************)
(* Proofs about CalendarSync for every value of its constants: its types   *)
(* and DisabledHasNoCursor without further assumption, NoLost, NoGhost and *)
(* RowsNeverGoBack for one pass at a time, whatever the provider.          *)
(***************************************************************************)
EXTENDS CalendarSync, TLAPS

Steps == {"idle", "fetch", "check", "apply", "token", "prune", "reconcile"}

----------------------------------------------------------------------------
\* Types

LEMMA NoTokenType == NoToken \in Tokens
BY DEF NoToken, Tokens

LEMMA DeltaTokenType ==
  ASSUME NEW r \in Nat PROVE DeltaToken(r) \in Tokens
BY DEF DeltaToken, NoToken, Tokens

LEMMA NoResultType == NoResult \in Results
BY NoTokenType DEF NoResult, Results

\* A batch is a token too: what a nextLink stands for.
LEMMA BatchType ==
  ASSUME TypeOK, NEW t \in Tokens PROVE Batch(t) \in Tokens
<1>1. SnapshotBatch \in Tokens
  BY DEF SnapshotBatch, Tokens, TypeOK
<1>2. DeltaBatch(t.rev) \in Tokens
  BY DEF DeltaBatch, Tokens, TypeOK
<1>3. QED
  BY <1>1, <1>2 DEF Batch

LEMMA PageType ==
  ASSUME NEW b \in Tokens, NEW p \in Pages(b)
  PROVE  p \in (SUBSET UIDs) \X BOOLEAN
<1>1. CASE kind # "paged"
  BY <1>1 DEF Pages, Tokens
<1>2. CASE kind = "paged"
  BY <1>2 DEF Pages, Tokens
<1>3. QED
  BY <1>1, <1>2

LEMMA ResultType ==
  ASSUME TypeOK, NEW b \in Tokens, NEW p \in (SUBSET UIDs) \X BOOLEAN
  PROVE  Result(b, p) \in Results
<1> DEFINE left  == [ kind |-> "page", rev |-> b.rev, rest |-> b.rest \ p[1],
                      snapshot |-> b.snapshot, touch |-> b.touch /\ ~p[2] ]
           items == { u \in p[1] : u \in live \/ (~b.snapshot /\ u \notin Occurrences) }
           more  == left.rest # {} \/ left.touch
<1>1. left \in Tokens
  BY DEF Tokens
<1>2. DeltaToken(b.rev) \in Tokens
  BY DeltaTokenType DEF Tokens
<1>3. [u \in UIDs |-> IF u \in items THEN Remote(u) ELSE 0] \in [UIDs -> Nat]
  BY DEF Remote, TypeOK
<1>4. p[2] \in BOOLEAN /\ b.snapshot \in BOOLEAN /\ items \subseteq UIDs /\ more \in BOOLEAN
  BY DEF Tokens
<1>5. Result(b, p) = [ items |-> items,
                       content |-> [u \in UIDs |-> IF u \in items THEN Remote(u) ELSE 0],
                       snapshot |-> b.snapshot, touched |-> p[2], more |-> more,
                       next |-> IF more THEN left ELSE DeltaToken(b.rev) ]
  BY DEF Result
<1> HIDE DEF left, items, more
<1>6. (IF more THEN left ELSE DeltaToken(b.rev)) \in Tokens
  BY <1>1, <1>2
<1>7. QED
  BY <1>3, <1>4, <1>5, <1>6 DEF Results

LEMMA LeaveType ==
  ASSUME TypeOK, NEW s \in Syncers, Leave(s)
  PROVE  /\ pc' \in [Syncers -> Steps]
         /\ cursor' \in [Syncers -> Tokens]
         /\ reply' \in [Syncers -> Results]
         /\ todo' \in [Syncers -> SUBSET UIDs]
         /\ seen' \in [Syncers -> SUBSET UIDs]
         /\ kept' \in [Syncers -> SUBSET UIDs]
         /\ flags' \in [Syncers -> [snapshot : BOOLEAN, touched : BOOLEAN]]
<1>1. NoFlags \in [snapshot : BOOLEAN, touched : BOOLEAN]
  BY DEF NoFlags
<1>2. QED
  BY <1>1, NoTokenType, NoResultType DEF Leave, TypeOK, Steps

LEMMA RemoteChangeType ==
  ASSUME TypeOK, NEW S, NEW exists \in SUBSET UIDs, RemoteChange(S, exists)
  PROVE  rev' \in Nat /\ changed' \in [UIDs -> Nat] /\ live' \subseteq UIDs /\ kind' \in Kinds
BY DEF RemoteChange, TypeOK

LEMMA SpendType ==
  ASSUME TypeOK, NEW what \in Budgets, NEW bound, Spend(what, bound)
  PROVE  used' \in [Budgets -> Nat]
BY DEF Spend, TypeOK, Budgets

LEMMA RowsBecomeType ==
  ASSUME TypeOK, NEW new \in [UIDs -> Nat], RowsBecome(new)
  PROVE  rows' \in [UIDs -> Nat] /\ job' \in [Writers -> SUBSET Jobs]
BY DEF RowsBecome, Remaining, TypeOK

LEMMA ReceiveType ==
  ASSUME TypeOK, NEW s \in Syncers, NEW t \in Tokens, Receive(s, t),
         used' \in [Budgets -> Nat]
  PROVE  TypeOK'
<1>1. PICK p \in Pages(Batch(t)) :
        /\ pc' = [pc EXCEPT ![s] = "check"]
        /\ reply' = [reply EXCEPT ![s] = Result(Batch(t), p)]
        /\ todo' = [todo EXCEPT ![s] = Result(Batch(t), p).items]
        /\ UNCHANGED <<remoteVars, localVars, cursor, seen, kept, flags, job>>
  BY DEF Receive
<1>2. Batch(t) \in Tokens
  BY BatchType
<1>3. Result(Batch(t), p) \in Results
  BY <1>2, PageType, ResultType
<1>4. Result(Batch(t), p).items \subseteq UIDs
  BY <1>3 DEF Results
<1>5. QED
  BY <1>1, <1>3, <1>4 DEF TypeOK, remoteVars, localVars

LEMMA WriteType ==
  ASSUME TypeOK, NEW w \in Writers, NEW u \in UIDs, WriteRemote(w, u) \/ DeleteRemote(w, u)
  PROVE  TypeOK'
<1> USE DEF localVars, passVars
<1>1. live \cup {u} \subseteq UIDs /\ live \ {u} \subseteq UIDs
  BY DEF TypeOK
<1>2. [uid |-> u, content |-> rev + 1] \in Jobs /\ [uid |-> u, content |-> 0] \in Jobs
  BY DEF TypeOK, Jobs
<1>3. CASE WriteRemote(w, u)
  <2>1. RemoteChange({u}, live \cup {u})
    BY <1>3 DEF WriteRemote
  <2>2. rev' \in Nat /\ changed' \in [UIDs -> Nat] /\ live' \subseteq UIDs /\ kind' \in Kinds
    BY <2>1, <1>1, RemoteChangeType
  <2>3. job' \in [Writers -> SUBSET Jobs]
    BY <1>3, <1>2 DEF WriteRemote, TypeOK
  <2>4. QED
    BY <1>3, <2>2, <2>3 DEF WriteRemote, TypeOK
<1>4. CASE DeleteRemote(w, u)
  <2>1. RemoteChange({u}, live \ {u}) \/ UNCHANGED remoteVars
    BY <1>4 DEF DeleteRemote
  <2>2. rev' \in Nat /\ changed' \in [UIDs -> Nat] /\ live' \subseteq UIDs /\ kind' \in Kinds
    BY <2>1, <1>1, RemoteChangeType DEF remoteVars, TypeOK
  <2>3. job' \in [Writers -> SUBSET Jobs]
    BY <1>4, <1>2 DEF DeleteRemote, TypeOK
  <2>4. QED
    BY <1>4, <2>2, <2>3 DEF DeleteRemote, TypeOK
<1>5. QED
  BY <1>3, <1>4

LEMMA UserType ==
  ASSUME TypeOK, NEW d \in BOOLEAN, SetCalendarSyncDisabled(d)
  PROVE  TypeOK'
<1>1. used' \in [Budgets -> Nat]
  BY SpendType DEF Budgets, SetCalendarSyncDisabled
<1>2. rows' \in [UIDs -> Nat] /\ job' \in [Writers -> SUBSET Jobs]
  BY RowsBecomeType DEF SetCalendarSyncDisabled, TypeOK
<1>3. QED
  BY <1>1, <1>2, NoTokenType DEF SetCalendarSyncDisabled, TypeOK, remoteVars, passVars

LEMMA TokenStepType ==
  ASSUME TypeOK, NEW s \in Syncers, SetCalendarSyncToken(s)
  PROVE  TypeOK'
<1> DEFINE f == FlagsSoFar(s)
<1>1. reply[s] \in Results /\ reply[s].next \in Tokens
  BY DEF TypeOK, Results
<1>2. token' \in Tokens
  BY <1>1 DEF SetCalendarSyncToken, StoredToken, TypeOK
<1>3. Upserts(s) \subseteq UIDs
  BY <1>1 DEF Upserts, Results
<1>4. SeenSoFar(s) \in SUBSET UIDs /\ f \in [snapshot : BOOLEAN, touched : BOOLEAN]
  BY <1>1, <1>3 DEF SeenSoFar, FlagsSoFar, TypeOK, Results
<1>5. CASE Leave(s)
  BY <1>5, <1>2, LeaveType DEF SetCalendarSyncToken, TypeOK, Steps, remoteVars
<1>6. CASE ~Leave(s)
  <2>1. \E next \in Steps : pc' = [pc EXCEPT ![s] = next]
    BY <1>6 DEF SetCalendarSyncToken, Steps
  <2>2. /\ cursor' = [cursor EXCEPT ![s] = reply[s].next]
        /\ reply' = [reply EXCEPT ![s] = NoResult]
        /\ seen' = [seen EXCEPT ![s] = SeenSoFar(s)]
        /\ kept' = [kept EXCEPT ![s] = @ \cup (Upserts(s) \cap Occurrences)]
        /\ flags' = [flags EXCEPT ![s] = f]
        /\ UNCHANGED <<todo, kind, rev, changed, live, rows, disabled, job, used>>
    BY <1>6 DEF SetCalendarSyncToken, remoteVars
  <2> HIDE DEF f
  <2>3. QED
    BY <2>1, <2>2, <1>1, <1>2, <1>3, <1>4, NoResultType DEF TypeOK, Steps
<1>7. QED
  BY <1>5, <1>6

LEMMA SyncType ==
  ASSUME TypeOK, NEW s \in Syncers, SyncStep(s) \/ FetchGone(s) \/ AbortSync(s)
  PROVE  TypeOK'
<1> USE DEF remoteVars, localVars
<1>1. CASE Begin(s)
  <2>1. pc' \in [Syncers -> Steps]
    BY <1>1 DEF Begin, TypeOK, Steps
  <2>2. cursor' \in [Syncers -> Tokens]
    BY <1>1 DEF Begin, TypeOK
  <2>3. UNCHANGED <<remoteVars, localVars, reply, todo, seen, kept, flags, job, used>>
    BY <1>1 DEF Begin
  <2>4. QED
    BY <2>1, <2>2, <2>3 DEF TypeOK, Steps
<1>2. CASE Fetch(s)
  BY <1>2, ReceiveType DEF Fetch, TypeOK
<1>3. CASE FetchGone(s)
  <2>1. used' \in [Budgets -> Nat]
    BY <1>3, SpendType DEF Budgets, FetchGone
  <2>2. QED
    BY <1>3, <2>1, ReceiveType, NoTokenType DEF FetchGone
<1>4. CASE CheckEnabled(s)
  <2>1. CASE disabled
    BY <1>4, <2>1, LeaveType DEF CheckEnabled, TypeOK, Steps
  <2>2. CASE ~disabled
    BY <1>4, <2>2 DEF CheckEnabled, TypeOK
  <2>3. QED
    BY <2>1, <2>2
<1>5. CASE \E u \in UIDs : ApplyChange(s, u)
  <2>1. PICK u \in UIDs : ApplyChange(s, u)
    BY <1>5
  <2>2. [rows EXCEPT ![u] = reply[s].content[u]] \in [UIDs -> Nat]
    BY DEF TypeOK, Results
  <2>3. rows' \in [UIDs -> Nat] /\ job' \in [Writers -> SUBSET Jobs]
    BY <2>1, <2>2, RowsBecomeType DEF ApplyChange
  <2>4. QED
    BY <2>1, <2>3 DEF ApplyChange, TypeOK
<1>6. CASE SetCalendarSyncToken(s)
  BY <1>6, TokenStepType
<1>7. CASE PruneSnapshot(s)
  <2>1. rows' \in [UIDs -> Nat] /\ job' \in [Writers -> SUBSET Jobs]
    BY <1>7, RowsBecomeType DEF PruneSnapshot, TypeOK
  <2>2. QED
    BY <1>7, <2>1, LeaveType DEF PruneSnapshot, TypeOK, Steps
<1>8. CASE ReconcileSeries(s)
  <2>1. rows' \in [UIDs -> Nat] /\ job' \in [Writers -> SUBSET Jobs]
    BY <1>8, RowsBecomeType DEF ReconcileSeries, TypeOK
  <2>2. QED
    BY <1>8, <2>1, LeaveType DEF ReconcileSeries, TypeOK, Steps
<1>9. CASE AbortSync(s)
  <2>1. used' \in [Budgets -> Nat]
    BY <1>9, SpendType DEF Budgets, AbortSync
  <2>2. QED
    BY <1>9, <2>1, LeaveType DEF AbortSync, TypeOK, Steps
<1>10. QED
  BY <1>1, <1>2, <1>3, <1>4, <1>5, <1>6, <1>7, <1>8, <1>9 DEF SyncStep

\* The type invariant holds for every provider, any number of concurrent
\* syncers and writers, and toggles at any time.
THEOREM TypeCorrect == Spec => []TypeOK
<1>1. Init => TypeOK
  <2> SUFFICES ASSUME Init PROVE TypeOK
    OBVIOUS
  <2>1. NoFlags \in [snapshot : BOOLEAN, touched : BOOLEAN]
    BY DEF NoFlags
  <2>2. QED
    BY <2>1, NoTokenType, NoResultType DEF Init, TypeOK
<1>2. TypeOK /\ [Next]_vars => TypeOK'
  <2> SUFFICES ASSUME TypeOK, [Next]_vars PROVE TypeOK'
    OBVIOUS
  <2> USE DEF remoteVars, localVars, passVars
  <2>1. CASE \E u \in UIDs \ Occurrences : RemotePut(u) \/ RemoteDrop(u)
    <3>1. PICK u \in UIDs : RemotePut(u) \/ RemoteDrop(u)
      BY <2>1
    <3>2. live \cup {u} \in SUBSET UIDs /\ live \ {u} \in SUBSET UIDs
      BY DEF TypeOK
    <3>3. rev' \in Nat /\ changed' \in [UIDs -> Nat] /\ live' \subseteq UIDs /\ kind' \in Kinds
      BY <3>1, <3>2, RemoteChangeType DEF RemotePut, RemoteDrop
    <3>4. QED
      BY <3>1, <3>3 DEF RemotePut, RemoteDrop, TypeOK
  <2>2. CASE \E S \in SUBSET Occurrences : RemoteReschedule(S)
    <3>1. PICK S \in SUBSET Occurrences : RemoteReschedule(S)
      BY <2>2
    <3>2. (live \ Occurrences) \cup S \in SUBSET UIDs
      BY ConstantsAssumption DEF TypeOK
    <3>3. rev' \in Nat /\ changed' \in [UIDs -> Nat] /\ live' \subseteq UIDs /\ kind' \in Kinds
      BY <3>1, <3>2, RemoteChangeType DEF RemoteReschedule
    <3>4. QED
      BY <3>1, <3>3 DEF RemoteReschedule, TypeOK
  <2>3. CASE \E d \in BOOLEAN : SetCalendarSyncDisabled(d)
    BY <2>3, UserType
  <2>4. CASE \E w \in Writers, u \in UIDs \ Occurrences : WriteRemote(w, u) \/ DeleteRemote(w, u)
    BY <2>4, WriteType
  <2>5. CASE \E w \in Writers : WriteLocal(w)
    <3>1. PICK w \in Writers : WriteLocal(w)
      BY <2>5
    <3>2. PICK j \in job[w] :
            rows' = [rows EXCEPT ![j.uid] = j.content] /\ job' = [Remaining(rows') EXCEPT ![w] = {}]
      BY <3>1 DEF WriteLocal
    <3>3. j \in Jobs
      BY <3>2 DEF TypeOK
    <3>4. Remaining(rows') \in [Writers -> SUBSET Jobs]
      BY DEF Remaining, TypeOK
    <3>5. rows' \in [UIDs -> Nat] /\ job' \in [Writers -> SUBSET Jobs]
      BY <3>2, <3>3, <3>4 DEF TypeOK, Jobs
    <3>6. UNCHANGED <<remoteVars, disabled, token, passVars, used>>
      BY <3>1 DEF WriteLocal
    <3>7. QED
      BY <3>5, <3>6 DEF TypeOK, remoteVars, passVars
  <2>6. CASE \E w \in Writers : AbortWrite(w)
    <3>1. used' \in [Budgets -> Nat]
      BY <2>6, SpendType DEF Budgets, AbortWrite
    <3>2. QED
      BY <2>6, <3>1 DEF AbortWrite, TypeOK
  <2>7. CASE \E s \in Syncers : SyncStep(s) \/ FetchGone(s) \/ AbortSync(s)
    BY <2>7, SyncType
  <2>8. CASE UNCHANGED vars
    BY <2>8 DEF vars, TypeOK
  <2>9. QED
    BY <2>1, <2>2, <2>3, <2>4, <2>5, <2>6, <2>7, <2>8 DEF Next
<1>3. QED
  BY <1>1, <1>2, PTL DEF Spec

----------------------------------------------------------------------------
\* A disabled calendar keeps no token

\* DisabledHasNoCursor survives any interleaving: the purge clears the token
\* and the only other write of it leaves a disabled calendar alone.
THEOREM DisabledHasNoCursorHolds == Spec => []DisabledHasNoCursor
<1>1. Init => DisabledHasNoCursor
  BY DEF Init, DisabledHasNoCursor
<1>2. DisabledHasNoCursor /\ [Next]_vars => DisabledHasNoCursor'
  <2> SUFFICES ASSUME DisabledHasNoCursor, [Next]_vars PROVE DisabledHasNoCursor'
    OBVIOUS
  <2>1. CASE UNCHANGED <<disabled, token>>
    BY <2>1 DEF DisabledHasNoCursor
  <2>2. CASE \E d \in BOOLEAN : SetCalendarSyncDisabled(d)
    BY <2>2 DEF SetCalendarSyncDisabled, DisabledHasNoCursor
  <2>3. CASE \E s \in Syncers : SetCalendarSyncToken(s)
    BY <2>3 DEF SetCalendarSyncToken, StoredToken, DisabledHasNoCursor
  <2>4. UNCHANGED <<disabled, token>> \/ (\E d \in BOOLEAN : SetCalendarSyncDisabled(d))
          \/ (\E s \in Syncers : SetCalendarSyncToken(s))
    BY DEF Next, vars, localVars, RemotePut, RemoteDrop, RemoteReschedule, WriteRemote,
           DeleteRemote, WriteLocal, AbortWrite, SyncStep, FetchGone, AbortSync, Begin, Fetch,
           Receive, CheckEnabled, ApplyChange, PruneSnapshot, ReconcileSeries
  <2>5. QED
    BY <2>1, <2>2, <2>3, <2>4
<1>3. QED
  BY <1>1, <1>2, PTL DEF Spec

----------------------------------------------------------------------------
\* One pass at a time

\* The setting in which nothing comes between the steps of a pass but changes
\* of the remote calendar, errors, crashes and cursors that expire.
OneAtATime ==
  /\ \A s, t \in Syncers : s = t
  /\ Writers = {}
  /\ ~ToggleInFlight

\* No pass over pages was cut short, which would leave a nextLink for the next.
PagesWhole == kind = "paged" => used.aborts = 0

\* The row holds the event as it is remotely.
Fresh(u) == u \in live /\ rows[u] = changed[u]

\* Only a nextLink has anything left to deliver, and no token is from the future.
Shaped(t) ==
  /\ t.rev <= rev
  /\ t.kind # "page" => t.rest = {} /\ ~t.snapshot /\ ~t.touch
  /\ t.kind = "page" => kind = "paged"

\* Revisions only grow, and content never comes from the future.  The occurrences
\* of the series are changed together, and by the paged provider alone.
RevisionsInv ==
  /\ Shaped(token)
  /\ \A u \in UIDs : changed[u] <= rev /\ rows[u] <= rev
  /\ \A u \in live : changed[u] # 0
  /\ \A o, u \in Occurrences : changed[o] = changed[u]
  /\ kind # "paged" => \A u \in Occurrences : changed[u] = 0

\* Every event that the token covers, and does not still have to deliver, is stored.
Covered ==
  token.kind # "none" =>
    \A u \in live : changed[u] <= token.rev /\ u \notin token.rest => rows[u] = changed[u]

\* A pass before its next result.  What its pruning will spare is collected or
\* still to come, and so is what its reconciliation will spare.
FetchInv(s) ==
  /\ cursor[s] = token
  /\ flags[s].snapshot <=> token.snapshot
  /\ token.snapshot => \A u \in UIDs : Fresh(u) => u \in seen[s] \cup token.rest
  /\ ~token.snapshot /\ (flags[s].touched \/ token.touch) =>
       \A u \in Occurrences : Fresh(u) => u \in kept[s] \cup token.rest

\* A result, and how much of it is applied.
AppliedInv(s) ==
  LET r == reply[s] IN
  /\ todo[s] \subseteq r.items
  /\ pc[s] = "token" => todo[s] = {}
  /\ \A u \in UIDs : r.content[u] <= rev
  /\ \A u \in r.items : r.content[u] = 0 => ~r.snapshot /\ u \notin Occurrences
  /\ \A u \in r.items \ todo[s] : rows[u] = r.content[u]

\* The token that comes with a result.
NextInv(s) ==
  LET r == reply[s] IN
  /\ Shaped(r.next)
  /\ r.more <=> r.next.kind = "page"
  /\ r.more => (r.next.snapshot <=> r.snapshot)
  /\ flags[s].snapshot => r.snapshot

\* A pass with a result: what it holds of an event is the present content, or the
\* stored row is out of date as well; its token covers no more than the rows will
\* hold once the changes are applied; and what the pass will spare is collected, in
\* this result, or still to come.
ResultInv(s) ==
  LET r == reply[s] IN
  /\ AppliedInv(s) /\ NextInv(s)
  /\ \A u \in r.items : Fresh(u) => r.content[u] = changed[u]
  /\ r.next.kind # "none" =>
       \A u \in live : changed[u] <= r.next.rev /\ u \notin r.next.rest =>
         IF u \in r.items THEN r.content[u] = changed[u] ELSE rows[u] = changed[u]
  /\ r.snapshot =>
       \A u \in UIDs : Fresh(u) => u \in seen[s] \cup r.items \cup r.next.rest
  /\ ~r.snapshot /\ (flags[s].touched \/ r.touched \/ r.next.touch) =>
       \A u \in Occurrences : Fresh(u) => u \in kept[s] \cup r.items \cup r.next.rest

PassInv(s) ==
  /\ IF pc[s] = "idle" THEN flags[s] = NoFlags ELSE ~disabled
  /\ pc[s] \in {"idle", "prune", "reconcile"} => token.kind # "page"
  /\ pc[s] = "fetch" => FetchInv(s)
  /\ pc[s] \in {"check", "apply", "token"} => ResultInv(s)
  /\ pc[s] = "prune" => \A u \in UIDs : Fresh(u) => u \in seen[s]
  /\ pc[s] = "reconcile" => \A u \in Occurrences : Fresh(u) => u \in kept[s]

PassesInv == \A s \in Syncers : PassInv(s)

MirrorInv == RevisionsInv /\ Covered /\ PassesInv

\* The inductive invariant.
IInv == TypeOK /\ (PagesWhole => MirrorInv)

----------------------------------------------------------------------------
\* What a step may rely on

LEMMA AbortsGrow ==
  ASSUME TypeOK, NEW what, NEW bound, Spend(what, bound)
  PROVE  /\ used'.aborts = 0 => used.aborts = 0
         /\ used'.expiries = 0 => used.expiries = 0
         /\ what = "aborts" => used'.aborts # 0
         /\ what = "expiries" => used'.expiries # 0
<1>1. used \in [Budgets -> Nat] /\ "aborts" \in Budgets /\ "expiries" \in Budgets
  BY DEF TypeOK, Budgets
<1>2. used' = [used EXCEPT ![what] = @ + 1]
  BY DEF Spend
<1>3. used'["aborts"] = 0 => used["aborts"] = 0
  BY <1>1, <1>2
<1>4. used'["expiries"] = 0 => used["expiries"] = 0
  BY <1>1, <1>2
<1>5. what = "aborts" => used'["aborts"] # 0
  BY <1>1, <1>2
<1>6. what = "expiries" => used'["expiries"] # 0
  BY <1>1, <1>2
<1>7. QED
  BY <1>3, <1>4, <1>5, <1>6

LEMMA NoFlagsAre == ~NoFlags.snapshot /\ ~NoFlags.touched
BY DEF NoFlags

\* Parts of the types, as most steps need them.
LEMMA Sizes ==
  ASSUME TypeOK
  PROVE  /\ rev \in Nat /\ changed \in [UIDs -> Nat] /\ rows \in [UIDs -> Nat] /\ live \subseteq UIDs
         /\ token.rev \in Nat /\ token.rest \subseteq UIDs
         /\ token.snapshot \in BOOLEAN /\ token.touch \in BOOLEAN
         /\ \A s \in Syncers :
              /\ reply[s].items \subseteq UIDs /\ reply[s].content \in [UIDs -> Nat]
              /\ reply[s].next.rev \in Nat /\ reply[s].next.rest \subseteq UIDs
              /\ {reply[s].next.snapshot, reply[s].next.touch, reply[s].snapshot,
                  reply[s].touched, reply[s].more} \subseteq BOOLEAN
              /\ {flags[s].snapshot, flags[s].touched} \subseteq BOOLEAN
              /\ seen[s] \subseteq UIDs /\ kept[s] \subseteq UIDs /\ todo[s] \subseteq UIDs
<1>1. token \in Tokens /\ \A s \in Syncers : reply[s] \in Results /\ flags[s] \in [snapshot : BOOLEAN, touched : BOOLEAN]
  BY DEF TypeOK
<1>2. ASSUME NEW s \in Syncers
      PROVE  /\ reply[s].items \subseteq UIDs /\ reply[s].content \in [UIDs -> Nat]
             /\ reply[s].next.rev \in Nat /\ reply[s].next.rest \subseteq UIDs
             /\ {reply[s].next.snapshot, reply[s].next.touch, reply[s].snapshot,
                 reply[s].touched, reply[s].more} \subseteq BOOLEAN
             /\ {flags[s].snapshot, flags[s].touched} \subseteq BOOLEAN
  BY <1>1 DEF Results, Tokens
<1>3. QED
  BY <1>1, <1>2 DEF TypeOK, Tokens

\* A change of the remote calendar gives what it changes a revision that no row,
\* no result and no token has.
LEMMA RemoteEffect ==
  ASSUME TypeOK, RevisionsInv,
         \/ \E u \in UIDs \ Occurrences : RemotePut(u) \/ RemoteDrop(u)
         \/ \E S \in SUBSET Occurrences : RemoteReschedule(S)
  PROVE  /\ rev' = rev + 1 /\ UNCHANGED <<kind, rows, disabled, token, passVars, used>>
         /\ \A u \in UIDs : \/ changed'[u] = rev + 1
                            \/ changed'[u] = changed[u] /\ (u \in live' <=> u \in live)
         /\ \A o, u \in Occurrences : changed'[o] = changed'[u]
         /\ kind # "paged" => \A u \in Occurrences : changed'[u] = 0
<1> USE DEF localVars
<1>0. Occurrences \subseteq UIDs /\ changed \in [UIDs -> Nat]
  BY ConstantsAssumption DEF TypeOK
<1>1. CASE \E u \in UIDs \ Occurrences : RemotePut(u) \/ RemoteDrop(u)
  BY <1>0, <1>1 DEF RemotePut, RemoteDrop, RemoteChange, RevisionsInv
<1>2. CASE \E S \in SUBSET Occurrences : RemoteReschedule(S)
  BY <1>0, <1>2 DEF RemoteReschedule, RemoteChange, RevisionsInv
<1>3. QED
  BY <1>1, <1>2

LEMMA RemoteKeepsMirror ==
  ASSUME TypeOK, MirrorInv, TypeOK',
         \/ \E u \in UIDs \ Occurrences : RemotePut(u) \/ RemoteDrop(u)
         \/ \E S \in SUBSET Occurrences : RemoteReschedule(S)
  PROVE  MirrorInv'
<1> USE DEF passVars
<1>1. /\ rev' = rev + 1 /\ UNCHANGED <<kind, rows, disabled, token, passVars, used>>
      /\ \A u \in UIDs : \/ changed'[u] = rev + 1
                         \/ changed'[u] = changed[u] /\ (u \in live' <=> u \in live)
      /\ \A o, u \in Occurrences : changed'[o] = changed'[u]
      /\ kind # "paged" => \A u \in Occurrences : changed'[u] = 0
  BY RemoteEffect DEF MirrorInv
<1>2. /\ rev \in Nat /\ changed \in [UIDs -> Nat] /\ rows \in [UIDs -> Nat]
      /\ live \subseteq UIDs /\ live' \subseteq UIDs /\ token.rev \in Nat
      /\ \A u \in UIDs : changed[u] <= rev /\ rows[u] <= rev
      /\ Shaped(token)
  BY Sizes DEF TypeOK, MirrorInv, RevisionsInv
<1>3. \A u \in UIDs : Fresh(u)' => Fresh(u) /\ changed'[u] = changed[u]
  BY <1>1, <1>2 DEF Fresh
<1>4. RevisionsInv'
  BY <1>1, <1>2 DEF MirrorInv, RevisionsInv, Shaped
<1>5. Covered => Covered'
  BY <1>1, <1>2 DEF Covered, Shaped
<1>6. ASSUME NEW s \in Syncers, PassInv(s) PROVE PassInv(s)'
  <2>1. pc[s] \in {"check", "apply", "token"} => ResultInv(s)'
    <3> SUFFICES ASSUME pc[s] \in {"check", "apply", "token"} PROVE ResultInv(s)'
      OBVIOUS
    <3> DEFINE r == reply[s]
    <3>1. ResultInv(s) /\ r' = r
      BY <1>1, <1>6 DEF PassInv
    <3>2. r.content \in [UIDs -> Nat] /\ r.next.rev \in Nat /\ r.items \subseteq UIDs
      BY Sizes
    <3>3. AppliedInv(s)' /\ NextInv(s)' /\ r.next.rev <= rev
      BY <1>1, <1>2, <3>1, <3>2 DEF ResultInv, AppliedInv, NextInv, Shaped
    <3>4. r.next.kind # "none" =>
            \A u \in live' : changed'[u] <= r.next.rev /\ u \notin r.next.rest =>
              IF u \in r.items THEN r.content[u] = changed'[u] ELSE rows[u] = changed'[u]
      BY <1>1, <1>2, <3>1, <3>2, <3>3 DEF ResultInv
    <3>5. \A u \in r.items : Fresh(u)' => r.content[u] = changed'[u]
      BY <1>3, <3>1, <3>2 DEF ResultInv
    <3>6. \A u \in Occurrences : Fresh(u)' => Fresh(u)
      BY <1>3, ConstantsAssumption
    <3>7. QED
      BY <1>1, <1>3, <3>1, <3>3, <3>4, <3>5, <3>6 DEF ResultInv
  <2>2. \A u \in Occurrences : Fresh(u)' => Fresh(u)
    BY <1>3, ConstantsAssumption
  <2>3. pc[s] = "fetch" => FetchInv(s)'
    BY <1>1, <1>3, <1>6, <2>2 DEF PassInv, FetchInv
  <2>4. QED
    BY <1>1, <1>3, <1>6, <2>1, <2>2, <2>3 DEF PassInv
<1>7. QED
  BY <1>4, <1>5, <1>6 DEF MirrorInv, PassesInv

\* The user toggles the calendar only while no pass runs.
LEMMA ToggleKeepsMirror ==
  ASSUME OneAtATime, TypeOK, MirrorInv, NEW d \in BOOLEAN, SetCalendarSyncDisabled(d), TypeOK'
  PROVE  MirrorInv'
<1> USE DEF remoteVars, passVars
<1>1. /\ \A s \in Syncers : pc[s] = "idle"
      /\ token' = NoToken
      /\ rows' = IF d THEN [u \in UIDs |-> 0] ELSE rows
      /\ UNCHANGED <<remoteVars, passVars>>
  BY DEF SetCalendarSyncDisabled, RowsBecome, OneAtATime
<1>2. /\ token'.kind = "none" /\ token'.rev = 0 /\ token'.rest = {}
      /\ ~token'.snapshot /\ ~token'.touch
  BY <1>1 DEF NoToken
<1>3. RevisionsInv'
  BY <1>1, <1>2, Sizes DEF MirrorInv, RevisionsInv, Shaped
<1>4. Covered'
  BY <1>2 DEF Covered
<1>5. PassesInv'
  BY <1>1, <1>2 DEF MirrorInv, PassesInv, PassInv
<1>6. QED
  BY <1>3, <1>4, <1>5 DEF MirrorInv

LEMMA BeginKeepsMirror ==
  ASSUME OneAtATime, TypeOK, MirrorInv, NEW s \in Syncers, Begin(s), TypeOK'
  PROVE  MirrorInv'
<1> USE DEF remoteVars, localVars
<1>1. /\ pc[s] = "idle" /\ UNCHANGED <<remoteVars, localVars, reply, todo, seen, kept, flags, used>>
      /\ IF disabled THEN pc' = pc ELSE pc'[s] = "fetch" /\ cursor'[s] = token
  BY DEF Begin, TypeOK
<1>2. RevisionsInv' /\ Covered'
  BY <1>1 DEF MirrorInv, RevisionsInv, Shaped, Covered
<1>3. PassInv(s)'
  <2>1. flags[s] = NoFlags /\ token.kind # "page"
    BY <1>1 DEF MirrorInv, PassesInv, PassInv
  <2>2. ~token.snapshot /\ ~token.touch
    BY <2>1 DEF MirrorInv, RevisionsInv, Shaped
  <2>3. CASE disabled
    BY <1>1, <2>1, <2>3 DEF PassInv
  <2>4. CASE ~disabled
    <3>1. FetchInv(s)'
      BY <1>1, <2>1, <2>2, <2>4, NoFlagsAre DEF FetchInv
    <3>2. QED
      BY <1>1, <2>4, <3>1 DEF PassInv
  <2>5. QED
    BY <2>3, <2>4
<1>4. QED
  BY <1>2, <1>3 DEF MirrorInv, PassesInv, OneAtATime

----------------------------------------------------------------------------
\* What the provider returns

\* The fields of a result, whatever its batch.
LEMMA ResultFields ==
  ASSUME NEW b, NEW p, NEW r, r = Result(b, p)
  PROVE  /\ \A u : u \in r.items <=> u \in p[1] /\ (u \in live \/ (~b.snapshot /\ u \notin Occurrences))
         /\ r.snapshot = b.snapshot /\ r.touched = p[2]
         /\ \A u \in UIDs : r.content[u] = IF u \in r.items THEN Remote(u) ELSE 0
         /\ r.more = (b.rest \ p[1] # {} \/ (b.touch /\ ~p[2]))
         /\ IF r.more THEN /\ r.next.kind = "page" /\ r.next.rev = b.rev
                           /\ r.next.rest = b.rest \ p[1] /\ r.next.snapshot = b.snapshot
                           /\ r.next.touch = (b.touch /\ ~p[2])
                      ELSE r.next = DeltaToken(b.rev)
<1> DEFINE left  == [ kind |-> "page", rev |-> b.rev, rest |-> b.rest \ p[1],
                      snapshot |-> b.snapshot, touch |-> b.touch /\ ~p[2] ]
           items == { u \in p[1] : u \in live \/ (~b.snapshot /\ u \notin Occurrences) }
           more  == left.rest # {} \/ left.touch
<1>1. r = [ items |-> items,
            content |-> [u \in UIDs |-> IF u \in items THEN Remote(u) ELSE 0],
            snapshot |-> b.snapshot, touched |-> p[2], more |-> more,
            next |-> IF more THEN left ELSE DeltaToken(b.rev) ]
  BY DEF Result
<1>2. \A u : u \in items <=> u \in p[1] /\ (u \in live \/ (~b.snapshot /\ u \notin Occurrences))
  OBVIOUS
<1>3. /\ left.kind = "page" /\ left.rev = b.rev /\ left.rest = b.rest \ p[1]
      /\ left.snapshot = b.snapshot /\ left.touch = (b.touch /\ ~p[2])
  OBVIOUS
<1>4. more = (b.rest \ p[1] # {} \/ (b.touch /\ ~p[2]))
  OBVIOUS
<1> HIDE DEF left, items, more
<1>5. r.items = items /\ r.content = [u \in UIDs |-> IF u \in items THEN Remote(u) ELSE 0]
  BY ONLY <1>1
<1>6. /\ r.snapshot = b.snapshot /\ r.touched = p[2] /\ r.more = more
      /\ r.next = IF more THEN left ELSE DeltaToken(b.rev)
  BY ONLY <1>1
<1>7. QED
  BY <1>2, <1>3, <1>4, <1>5, <1>6

\* A page is part of its batch, and the last one completes it.
LEMMA PageOfBatch ==
  ASSUME NEW b \in Tokens, NEW p \in Pages(b)
  PROVE  /\ p[1] \subseteq b.rest /\ p[2] \in BOOLEAN /\ (p[2] => b.touch)
         /\ kind # "paged" => p[1] = b.rest /\ p[2] = b.touch
<1>1. b.rest \subseteq UIDs /\ b.touch \in BOOLEAN
  BY DEF Tokens
<1>2. CASE kind # "paged"
  <2>1. p = <<b.rest, b.touch>>
    BY <1>2 DEF Pages
  <2>2. QED
    BY <1>1, <1>2, <2>1
<1>3. CASE kind = "paged"
  <2>1. p \in (SUBSET b.rest) \X BOOLEAN /\ (p[2] => b.touch)
    BY <1>3 DEF Pages
  <2>2. QED
    BY <1>3, <2>1
<1>4. QED
  BY <1>2, <1>3

\* A batch for token t: the rest of the one that t continues, the whole calendar,
\* or what changed since t.
LEMMA BatchOfToken ==
  ASSUME TypeOK, RevisionsInv, NEW t \in Tokens, t = token \/ t = NoToken, NEW b, b = Batch(t)
  PROVE  /\ b \in Tokens /\ b.rev <= rev
         /\ kind # "paged" => ~b.touch
         /\ \/ t.kind = "page" /\ b = t
            \/ b.snapshot /\ ~b.touch /\ b.rest = live /\ b.rev = rev
            \/ /\ ~b.snapshot /\ t.kind = "delta" /\ b.rev = rev
               /\ b.touch = \E o \in Occurrences : changed[o] > t.rev
               /\ \A u \in UIDs : u \in b.rest <=>
                                    changed[u] > t.rev /\ (u \in live \/ u \notin Occurrences)
<1>0. rev \in Nat /\ changed \in [UIDs -> Nat] /\ t.rev \in Nat /\ b \in Tokens
  BY Sizes, BatchType DEF Tokens
<1>1. CASE t.kind = "page"
  <2>1. b = t /\ t = token
    BY <1>1 DEF Batch, NoToken
  <2>2. QED
    BY <1>0, <1>1, <2>1 DEF RevisionsInv, Shaped
<1>2. CASE b = SnapshotBatch
  <2>1. b.snapshot /\ ~b.touch /\ b.rest = live /\ b.rev = rev
    BY <1>2 DEF SnapshotBatch
  <2>2. QED
    BY <1>0, <2>1
<1>3. CASE b = DeltaBatch(t.rev) /\ t.kind = "delta"
  <2> DEFINE D == { u \in UIDs : changed[u] > t.rev /\ (u \in live \/ u \notin Occurrences) }
  <2>1. b.rest = D /\ b.rev = rev /\ b.snapshot = FALSE
        /\ b.touch = \E o \in Occurrences : changed[o] > t.rev
    BY <1>3 DEF DeltaBatch
  <2>2. kind # "paged" => ~(\E o \in Occurrences : changed[o] > t.rev)
    BY <1>0 DEF RevisionsInv
  <2>3. QED
    BY <1>0, <1>3, <2>1, <2>2
<1>4. QED
  BY <1>1, <1>2, <1>3 DEF Batch, Whole, Tokens

\* What is left of the batch is what the token that comes with the result stands for.
LEMMA Received ==
  ASSUME TypeOK, RevisionsInv, NEW b \in Tokens, b.rev <= rev, kind # "paged" => ~b.touch,
         NEW p \in Pages(b), NEW r, r = Result(b, p)
  PROVE  /\ r.items \subseteq UIDs /\ r.next.rest \subseteq UIDs /\ r.snapshot = b.snapshot
         /\ r.touched \/ r.next.touch <=> b.touch
         /\ r.next.kind # "none" => r.next.rev = b.rev
         /\ Shaped(r.next) /\ (r.more <=> r.next.kind = "page")
         /\ r.more => (r.next.snapshot <=> r.snapshot)
         /\ \A u \in r.next.rest : u \in b.rest
         /\ \A u \in live \cap b.rest : u \in r.items \cup r.next.rest
         /\ \A u \in b.rest : u \notin Occurrences /\ ~b.snapshot => u \in r.items \cup r.next.rest
         /\ \A u \in r.items : u \in b.rest /\ (u \in live \/ (~r.snapshot /\ u \notin Occurrences))
         /\ \A u \in UIDs : r.content[u] = IF u \in r.items THEN Remote(u) ELSE 0
<1>1. /\ p[1] \subseteq b.rest /\ p[2] \in BOOLEAN /\ (p[2] => b.touch)
      /\ kind # "paged" => p[1] = b.rest /\ p[2] = b.touch
  BY PageOfBatch
<1>2. b.rest \subseteq UIDs /\ b.touch \in BOOLEAN /\ b.snapshot \in BOOLEAN /\ b.rev \in Nat
  BY DEF Tokens
<1>3. /\ \A u : u \in r.items <=> u \in p[1] /\ (u \in live \/ (~b.snapshot /\ u \notin Occurrences))
      /\ r.snapshot = b.snapshot /\ r.touched = p[2]
      /\ \A u \in UIDs : r.content[u] = IF u \in r.items THEN Remote(u) ELSE 0
      /\ r.more = (b.rest \ p[1] # {} \/ (b.touch /\ ~p[2]))
      /\ IF r.more THEN /\ r.next.kind = "page" /\ r.next.rev = b.rev
                        /\ r.next.rest = b.rest \ p[1] /\ r.next.snapshot = b.snapshot
                        /\ r.next.touch = (b.touch /\ ~p[2])
                   ELSE r.next = DeltaToken(b.rev)
  BY ResultFields
<1>4. CASE r.more
  <2>1. kind = "paged"
    BY <1>1, <1>3, <1>4
  <2>2. Shaped(r.next)
    BY <1>3, <1>4, <2>1 DEF Shaped
  <2>3. QED
    BY <1>1, <1>2, <1>3, <1>4, <2>2
<1>5. CASE ~r.more
  <2>1. b.rest = p[1] /\ (b.touch => p[2])
    BY <1>1, <1>3, <1>5
  <2>2. /\ r.next.rest = {} /\ ~r.next.snapshot /\ ~r.next.touch /\ r.next.kind \in {"none", "delta"}
        /\ r.next.rev \in {0, b.rev} /\ (r.next.kind # "none" => r.next.rev = b.rev)
    BY <1>3, <1>5 DEF DeltaToken, NoToken
  <2>3. Shaped(r.next)
    BY <1>2, <2>2, Sizes DEF Shaped
  <2>4. QED
    BY <1>1, <1>2, <1>3, <1>5, <2>1, <2>2, <2>3
<1>6. QED
  BY <1>3, <1>4, <1>5

\* Of every batch: an event that exists and that the batch covers is in it, or is
\* stored; and what the pass has still to spare is collected, or in it.
LEMMA BatchServes ==
  ASSUME TypeOK, MirrorInv, NEW s \in Syncers, FetchInv(s),
         NEW t \in Tokens, t = token \/ t = NoToken, NEW b, b = Batch(t)
  PROVE  /\ flags[s].snapshot => b.snapshot
         /\ \A u \in live : changed[u] <= b.rev /\ u \notin b.rest => rows[u] = changed[u]
         /\ b.snapshot => \A u \in UIDs : Fresh(u) => u \in seen[s] \cup b.rest
         /\ ~b.snapshot /\ (flags[s].touched \/ b.touch) =>
              \A u \in Occurrences : Fresh(u) => u \in kept[s] \cup b.rest
<1>1. /\ b \in Tokens /\ b.rev <= rev
      /\ \/ t.kind = "page" /\ b = t
         \/ b.snapshot /\ ~b.touch /\ b.rest = live /\ b.rev = rev
         \/ /\ ~b.snapshot /\ t.kind = "delta" /\ b.rev = rev
            /\ b.touch = \E o \in Occurrences : changed[o] > t.rev
            /\ \A u \in UIDs : u \in b.rest <=>
                                 changed[u] > t.rev /\ (u \in live \/ u \notin Occurrences)
  BY BatchOfToken DEF MirrorInv
<1>2. Covered /\ Shaped(token) /\ (\A o, u \in Occurrences : changed[o] = changed[u])
  BY DEF MirrorInv, RevisionsInv
<1>3. /\ rev \in Nat /\ changed \in [UIDs -> Nat] /\ rows \in [UIDs -> Nat] /\ live \subseteq UIDs
      /\ token.rev \in Nat
  BY Sizes
<1>4. CASE t.kind = "page" /\ b = t
  <2>1. b = token /\ token.kind # "none"
    BY <1>4 DEF NoToken
  <2>2. QED
    BY <2>1, <1>2 DEF FetchInv, Covered
<1>5. CASE b.snapshot /\ ~b.touch /\ b.rest = live /\ b.rev = rev
  BY <1>5 DEF Fresh
<1>6. CASE /\ ~b.snapshot /\ t.kind = "delta" /\ b.rev = rev
           /\ b.touch = \E o \in Occurrences : changed[o] > t.rev
           /\ \A u \in UIDs : u \in b.rest <=>
                                changed[u] > t.rev /\ (u \in live \/ u \notin Occurrences)
  <2>1. t = token /\ token.kind # "none" /\ token.rest = {} /\ ~token.snapshot /\ ~token.touch
    BY <1>2, <1>6 DEF NoToken, Shaped
  <2>2. ~flags[s].snapshot
    BY <2>1 DEF FetchInv
  <2>3. \A u \in live : u \notin b.rest => rows[u] = changed[u]
    BY <1>2, <1>3, <1>6, <2>1 DEF Covered
  <2>4. ASSUME flags[s].touched \/ b.touch, NEW u \in Occurrences, Fresh(u)
        PROVE  u \in kept[s] \cup b.rest
    <3>1. CASE flags[s].touched
      BY <2>1, <2>4, <3>1 DEF FetchInv
    <3>2. CASE b.touch
      BY <1>2, <1>3, <1>6, <2>1, <2>4, <3>2, ConstantsAssumption DEF Fresh
    <3>3. QED
      BY <2>4, <3>1, <3>2
  <2>5. QED
    BY <1>6, <2>2, <2>3, <2>4
<1>7. QED
  BY <1>1, <1>4, <1>5, <1>6

LEMMA FetchKeepsMirror ==
  ASSUME OneAtATime, TypeOK, MirrorInv, NEW s \in Syncers, Fetch(s) \/ FetchGone(s), TypeOK'
  PROVE  MirrorInv'
<1> USE DEF remoteVars, localVars
<1>1. PICK t \in {cursor[s], NoToken} : Receive(s, t)
  BY DEF Fetch, FetchGone
<1>2. PICK p \in Pages(Batch(t)) :
        /\ pc[s] = "fetch"
        /\ pc' = [pc EXCEPT ![s] = "check"]
        /\ reply' = [reply EXCEPT ![s] = Result(Batch(t), p)]
        /\ todo' = [todo EXCEPT ![s] = Result(Batch(t), p).items]
        /\ UNCHANGED <<remoteVars, localVars, cursor, seen, kept, flags, job>>
  BY <1>1 DEF Receive
<1>3. RevisionsInv' /\ Covered'
  BY <1>2 DEF MirrorInv, RevisionsInv, Shaped, Covered
<1>4. PassInv(s)'
  <2> DEFINE b == Batch(t)
             r == Result(b, p)
  <2>1. FetchInv(s) /\ ~disabled
    BY <1>2 DEF MirrorInv, PassesInv, PassInv
  <2>2. t \in Tokens /\ (t = token \/ t = NoToken)
    BY <1>1, <2>1, NoTokenType DEF FetchInv, TypeOK
  <2>3. b \in Tokens /\ b.rev <= rev /\ (kind # "paged" => ~b.touch)
    BY <2>2, BatchOfToken DEF MirrorInv
  <2>4. /\ flags[s].snapshot => b.snapshot
        /\ \A u \in live : changed[u] <= b.rev /\ u \notin b.rest => rows[u] = changed[u]
        /\ b.snapshot => \A u \in UIDs : Fresh(u) => u \in seen[s] \cup b.rest
        /\ ~b.snapshot /\ (flags[s].touched \/ b.touch) =>
             \A u \in Occurrences : Fresh(u) => u \in kept[s] \cup b.rest
    BY <2>1, <2>2, BatchServes
  <2>5. /\ pc'[s] = "check" /\ reply'[s] = r /\ todo'[s] = r.items
        /\ UNCHANGED <<kind, rev, changed, live, rows, disabled, token, flags, seen, kept>>
    BY <1>2 DEF TypeOK
  <2> HIDE DEF b
  <2>6. p \in Pages(b)
    BY DEF b
  <2>7. /\ r.items \subseteq UIDs /\ r.snapshot = b.snapshot
        /\ r.touched \/ r.next.touch <=> b.touch
        /\ r.next.kind # "none" => r.next.rev = b.rev
        /\ Shaped(r.next) /\ (r.more <=> r.next.kind = "page")
        /\ r.more => (r.next.snapshot <=> r.snapshot)
        /\ \A u \in live \cap b.rest : u \in r.items \cup r.next.rest
        /\ \A u \in r.items : u \in b.rest /\ (u \in live \/ (~r.snapshot /\ u \notin Occurrences))
        /\ \A u \in UIDs : r.content[u] = IF u \in r.items THEN Remote(u) ELSE 0
    BY <2>3, <2>6, Received DEF MirrorInv
  <2> HIDE DEF r
  <2>8. /\ rev \in Nat /\ changed \in [UIDs -> Nat] /\ live \subseteq UIDs
        /\ \A u \in UIDs : changed[u] <= rev
        /\ \A u \in live : changed[u] # 0
    BY Sizes DEF MirrorInv, RevisionsInv
  <2>9. AppliedInv(s)'
    BY <2>5, <2>7, <2>8 DEF AppliedInv, Remote
  <2>10. NextInv(s)'
    BY <2>4, <2>5, <2>7 DEF NextInv, Shaped
  <2>11. \A u \in r.items \cap live : r.content[u] = changed[u]
    BY <2>7, <2>8 DEF Remote
  <2>12. r.next.kind # "none" =>
           \A u \in live : changed[u] <= r.next.rev /\ u \notin r.next.rest =>
             IF u \in r.items THEN r.content[u] = changed[u] ELSE rows[u] = changed[u]
    BY <2>4, <2>7, <2>11
  <2>13. \A u \in UIDs : Fresh(u) => u \in live
    BY DEF Fresh
  <2>14. ResultInv(s)'
    <3>1. \A u \in UIDs : Fresh(u)' <=> Fresh(u)
      BY <2>5 DEF Fresh
    <3>2. r.snapshot => \A u \in UIDs : Fresh(u) => u \in seen[s] \cup r.items \cup r.next.rest
      BY <2>4, <2>7, <2>13
    <3>3. ~r.snapshot /\ (flags[s].touched \/ r.touched \/ r.next.touch) =>
            \A u \in Occurrences : Fresh(u) => u \in kept[s] \cup r.items \cup r.next.rest
      BY <2>4, <2>7, <2>13, ConstantsAssumption
    <3>4. \A u \in r.items : Fresh(u) => r.content[u] = changed[u]
      BY <2>7, <2>11, <2>13
    <3>5. QED
      BY <2>5, <2>7, <2>9, <2>10, <2>12, <3>1, <3>2, <3>3, <3>4, ConstantsAssumption DEF ResultInv
  <2>15. QED
    BY <2>1, <2>5, <2>14 DEF PassInv
<1>5. QED
  BY <1>3, <1>4 DEF MirrorInv, PassesInv, OneAtATime

----------------------------------------------------------------------------
\* What a pass does with a result

LEMMA LeaveIdle ==
  ASSUME OneAtATime, TypeOK, NEW s \in Syncers, Leave(s), token'.kind # "page"
  PROVE  PassesInv'
<1>1. \A t \in Syncers : pc'[t] = "idle" /\ flags'[t] = NoFlags
  BY DEF Leave, TypeOK, OneAtATime
<1>2. QED
  BY <1>1 DEF PassesInv, PassInv

LEMMA CheckKeepsMirror ==
  ASSUME OneAtATime, TypeOK, MirrorInv, NEW s \in Syncers, CheckEnabled(s), TypeOK'
  PROVE  MirrorInv'
<1> USE DEF remoteVars, localVars
<1>1. RevisionsInv' /\ Covered'
  BY DEF CheckEnabled, MirrorInv, RevisionsInv, Shaped, Covered
<1>2. PassInv(s)'
  <2>1. pc[s] = "check" /\ ~disabled /\ ResultInv(s)
    BY DEF CheckEnabled, MirrorInv, PassesInv, PassInv
  <2>2. /\ pc'[s] = IF todo[s] = {} THEN "token" ELSE "apply"
        /\ UNCHANGED <<kind, rev, changed, live, rows, disabled, token, reply, todo, seen, kept, flags>>
    BY <2>1 DEF CheckEnabled, TypeOK
  <2>3. ResultInv(s)'
    BY <2>1, <2>2 DEF ResultInv, AppliedInv, NextInv, Shaped, Fresh
  <2>4. QED
    BY <2>1, <2>2, <2>3 DEF PassInv
<1>3. QED
  BY <1>1, <1>2 DEF MirrorInv, PassesInv, OneAtATime

\* Applying a change never takes a row away from the content it should have.
LEMMA ApplyKeepsFresh ==
  ASSUME TypeOK, NEW s \in Syncers, ResultInv(s), NEW u \in UIDs, ApplyChange(s, u), NEW v \in UIDs
  PROVE  Fresh(v) => Fresh(v)'
<1>1. /\ u \in reply[s].items /\ rows' = [rows EXCEPT ![u] = reply[s].content[u]]
      /\ UNCHANGED <<changed, live>>
  BY DEF ApplyChange, RowsBecome, ResultInv, AppliedInv, remoteVars
<1>2. QED
  BY <1>1 DEF TypeOK, ResultInv, Fresh

LEMMA ApplyKeepsMirror ==
  ASSUME OneAtATime, TypeOK, MirrorInv, NEW s \in Syncers, NEW u \in UIDs, ApplyChange(s, u), TypeOK'
  PROVE  MirrorInv'
<1> USE DEF remoteVars
<1> DEFINE r == reply[s]
<1>1. /\ pc[s] = "apply" /\ u \in todo[s]
      /\ rows' = [rows EXCEPT ![u] = r.content[u]]
      /\ todo'[s] = todo[s] \ {u}
      /\ pc'[s] = IF todo[s] = {u} THEN "token" ELSE "apply"
      /\ UNCHANGED <<kind, rev, changed, live, disabled, token, cursor, reply, seen, kept, flags, used>>
  BY DEF ApplyChange, RowsBecome, TypeOK
<1>2. /\ rev \in Nat /\ changed \in [UIDs -> Nat] /\ rows \in [UIDs -> Nat] /\ live \subseteq UIDs
      /\ r.items \subseteq UIDs /\ r.content \in [UIDs -> Nat]
  BY Sizes
<1>3. ResultInv(s) /\ ~disabled /\ AppliedInv(s) /\ NextInv(s)
  BY <1>1 DEF MirrorInv, PassesInv, PassInv, ResultInv
<1>4. RevisionsInv'
  BY <1>1, <1>2, <1>3 DEF MirrorInv, RevisionsInv, AppliedInv, Shaped
<1>5. \A v \in UIDs : Fresh(v) => Fresh(v)'
  BY <1>3, ApplyKeepsFresh
<1>6. Covered'
  BY <1>1, <1>2, <1>5 DEF MirrorInv, Covered, Fresh
<1>7. PassInv(s)'
  <2>1. ResultInv(s) /\ ~disabled /\ AppliedInv(s) /\ NextInv(s)
    BY <1>3
  <2>2. AppliedInv(s)' /\ NextInv(s)'
    BY <1>1, <1>2, <2>1 DEF AppliedInv, NextInv, Shaped
  <2>3. \A v \in UIDs : Fresh(v)' => v \in r.items \/ Fresh(v)
    BY <1>1, <1>2, <2>1 DEF Fresh, AppliedInv
  <2>4. \A v \in r.items : Fresh(v)' => r.content[v] = changed[v]
    BY <1>1, <1>2, <2>1 DEF Fresh, ResultInv
  <2>5. r.next.kind # "none" =>
          \A v \in live : changed[v] <= r.next.rev /\ v \notin r.next.rest =>
            IF v \in r.items THEN r.content[v] = changed[v] ELSE rows'[v] = changed[v]
    BY <1>1, <1>2, <2>1 DEF ResultInv, AppliedInv
  <2>6. ResultInv(s)'
    BY <1>1, <2>1, <2>2, <2>3, <2>4, <2>5, ConstantsAssumption DEF ResultInv
  <2>7. QED
    BY <1>1, <2>1, <2>6 DEF PassInv
<1>8. QED
  BY <1>4, <1>6, <1>7 DEF MirrorInv, PassesInv, OneAtATime

\* The token is stored when the rows hold all that it covers.
LEMMA TokenKeepsMirror ==
  ASSUME OneAtATime, TypeOK, MirrorInv, NEW s \in Syncers, SetCalendarSyncToken(s), TypeOK'
  PROVE  MirrorInv'
<1> USE DEF remoteVars
<1> DEFINE r == reply[s]
           f == FlagsSoFar(s)
<1>1. pc[s] = "token" /\ UNCHANGED <<kind, rev, changed, live, rows, disabled, used>>
      /\ token' = StoredToken(r.next)
  BY DEF SetCalendarSyncToken
<1>2. /\ live \subseteq UIDs /\ r.items \subseteq UIDs
      /\ {r.snapshot, r.touched, r.more, r.next.snapshot, r.next.touch,
          flags[s].snapshot, flags[s].touched} \subseteq BOOLEAN
  BY Sizes
<1>3. RevisionsInv' /\ Covered' /\ PassesInv'
  <2>1. /\ ResultInv(s) /\ AppliedInv(s) /\ NextInv(s) /\ ~disabled /\ todo[s] = {}
    BY <1>1 DEF MirrorInv, PassesInv, PassInv, ResultInv, AppliedInv
  <2>2. token' = r.next
    BY <1>1, <2>1 DEF StoredToken
  <2>3. RevisionsInv'
    BY <1>1, <2>1, <2>2 DEF MirrorInv, RevisionsInv, NextInv, Shaped
  <2>4. \A u \in r.items : rows[u] = r.content[u]
    BY <2>1 DEF AppliedInv
  <2>5. Covered'
    BY <1>1, <1>2, <2>1, <2>2, <2>4 DEF Covered, ResultInv
  <2>6. \A u \in UIDs : Fresh(u)' <=> Fresh(u)
    BY <1>1 DEF Fresh
  <2>7. f.snapshot = r.snapshot /\ f.touched = (flags[s].touched \/ r.touched)
    BY <1>2, <2>1 DEF FlagsSoFar, NextInv
  <2>8. CASE ~r.more /\ ~f.snapshot /\ ~f.touched
    <3>1. Leave(s) /\ token'.kind # "page"
      BY <2>1, <2>2, <2>8 DEF SetCalendarSyncToken, NextInv
    <3>2. QED
      BY <2>3, <2>5, <3>1, LeaveIdle
  <2>9. CASE ~(~r.more /\ ~f.snapshot /\ ~f.touched)
    <3>1. /\ pc'[s] = IF r.more THEN "fetch" ELSE IF f.snapshot THEN "prune" ELSE "reconcile"
          /\ cursor'[s] = r.next /\ flags'[s] = f
          /\ seen'[s] = SeenSoFar(s)
          /\ kept'[s] = kept[s] \cup (Upserts(s) \cap Occurrences)
      BY <2>9 DEF SetCalendarSyncToken, TypeOK
    <3> HIDE DEF f
    <3>2. r.snapshot => SeenSoFar(s) = seen[s] \cup r.items
      BY <2>1 DEF SeenSoFar, Upserts, AppliedInv
    <3>3. \A u \in r.items \cap Occurrences : u \in Upserts(s)
      BY <2>1 DEF Upserts, AppliedInv
    <3>4. CASE r.more
      <4>1. pc'[s] = "fetch"
        BY <3>1, <3>4
      <4>2. FetchInv(s)'
        <5>1. cursor'[s] = token' /\ (flags'[s].snapshot <=> token'.snapshot)
          BY <2>1, <2>2, <2>7, <3>1, <3>4 DEF NextInv
        <5>2. token'.snapshot => \A u \in UIDs : Fresh(u)' => u \in seen'[s] \cup token'.rest
          BY <2>1, <2>2, <2>6, <3>1, <3>2, <3>4 DEF ResultInv, NextInv
        <5>3. ~token'.snapshot /\ (flags'[s].touched \/ token'.touch) =>
                \A u \in Occurrences : Fresh(u)' => u \in kept'[s] \cup token'.rest
          BY <2>1, <2>2, <2>6, <2>7, <3>1, <3>3, <3>4, ConstantsAssumption DEF ResultInv, NextInv
        <5>4. QED
          BY <5>1, <5>2, <5>3 DEF FetchInv
      <4>3. PassInv(s)'
        BY <1>1, <2>1, <4>1, <4>2 DEF PassInv
      <4>4. QED
        BY <2>3, <2>5, <4>3 DEF PassesInv, OneAtATime
    <3>5. CASE ~r.more
      <4>1. token'.kind # "page" /\ r.next.rest = {}
        BY <2>1, <2>2, <3>5 DEF NextInv, Shaped
      <4>2. CASE r.snapshot
        <5>1. pc'[s] = "prune"
          BY <2>7, <3>1, <3>5, <4>2
        <5>2. \A u \in UIDs : Fresh(u)' => u \in seen'[s]
          BY <2>1, <2>6, <3>1, <3>2, <4>1, <4>2 DEF ResultInv
        <5>3. PassInv(s)'
          BY <1>1, <2>1, <4>1, <5>1, <5>2 DEF PassInv
        <5>4. QED
          BY <2>3, <2>5, <5>3 DEF PassesInv, OneAtATime
      <4>3. CASE ~r.snapshot
        <5>1. pc'[s] = "reconcile" /\ (flags[s].touched \/ r.touched)
          BY <2>7, <2>9, <3>1, <3>5, <4>3
        <5>2. \A u \in Occurrences : Fresh(u)' => u \in kept'[s]
          BY <2>1, <2>6, <3>1, <3>3, <4>1, <4>3, <5>1, ConstantsAssumption DEF ResultInv
        <5>3. PassInv(s)'
          BY <1>1, <2>1, <4>1, <5>1, <5>2 DEF PassInv
        <5>4. QED
          BY <2>3, <2>5, <5>3 DEF PassesInv, OneAtATime
      <4>4. QED
        BY <4>2, <4>3
    <3>6. QED
      BY <3>4, <3>5
  <2>10. QED
    BY <2>8, <2>9
<1>4. QED
  BY <1>3 DEF MirrorInv

\* What a pass spares is what it collected: no row that is up to date goes.
LEMMA PruneKeepsMirror ==
  ASSUME OneAtATime, TypeOK, MirrorInv, NEW s \in Syncers, PruneSnapshot(s) \/ ReconcileSeries(s),
         TypeOK'
  PROVE  MirrorInv'
<1> USE DEF remoteVars
<1>1. PICK gone \in SUBSET UIDs :
        /\ rows' = [u \in UIDs |-> IF u \in gone THEN 0 ELSE rows[u]]
        /\ \A u \in gone : ~Fresh(u)
        /\ token.kind # "page"
  <2>1. CASE PruneSnapshot(s)
    <3>1. rows' = [u \in UIDs |-> IF u \in UIDs \ seen[s] THEN 0 ELSE rows[u]]
      BY <2>1 DEF PruneSnapshot, RowsBecome
    <3>2. token.kind # "page" /\ \A u \in UIDs \ seen[s] : ~Fresh(u)
      BY <2>1 DEF PruneSnapshot, MirrorInv, PassesInv, PassInv
    <3>3. QED
      BY <3>1, <3>2
  <2>2. CASE ReconcileSeries(s)
    <3>1. rows' = [u \in UIDs |-> IF u \in Occurrences \ kept[s] THEN 0 ELSE rows[u]]
      BY <2>2 DEF ReconcileSeries, RowsBecome
    <3>2. token.kind # "page" /\ \A u \in Occurrences \ kept[s] : ~Fresh(u)
      BY <2>2 DEF ReconcileSeries, MirrorInv, PassesInv, PassInv
    <3>3. QED
      BY <3>1, <3>2, ConstantsAssumption
  <2>3. QED
    BY <2>1, <2>2
<1>2. Leave(s) /\ UNCHANGED <<kind, rev, changed, live, disabled, token>>
  BY DEF PruneSnapshot, ReconcileSeries
<1>3. RevisionsInv'
  BY <1>1, <1>2, Sizes DEF MirrorInv, RevisionsInv, Shaped
<1>4. Covered'
  BY <1>1, <1>2, Sizes DEF MirrorInv, Covered, Fresh
<1>5. PassesInv'
  BY <1>1, <1>2, LeaveIdle
<1>6. QED
  BY <1>3, <1>4, <1>5 DEF MirrorInv

\* Only a paged pass that is cut short leaves a token that stands for part of it.
LEMMA AbortKeepsMirror ==
  ASSUME OneAtATime, TypeOK, MirrorInv, NEW s \in Syncers, AbortSync(s), kind # "paged"
  PROVE  MirrorInv'
<1> USE DEF remoteVars, localVars
<1>1. Leave(s) /\ UNCHANGED <<remoteVars, localVars>>
  BY DEF AbortSync
<1>2. RevisionsInv' /\ Covered' /\ token'.kind # "page"
  BY <1>1 DEF MirrorInv, RevisionsInv, Shaped, Covered
<1>3. QED
  BY <1>1, <1>2, LeaveIdle DEF MirrorInv

\* Passes that were cut short stay so.
LEMMA PagesWholeBefore ==
  ASSUME OneAtATime, TypeOK, [Next]_vars, PagesWhole'
  PROVE  PagesWhole /\ ((\E s \in Syncers : AbortSync(s)) => kind # "paged")
<1> USE DEF remoteVars, localVars, passVars
<1>1. Writers = {}
  BY DEF OneAtATime
<1>2. kind' = kind
  BY <1>1 DEF Next, vars, RemotePut, RemoteDrop, RemoteReschedule, RemoteChange, SetCalendarSyncDisabled,
       SyncStep, FetchGone, AbortSync, Begin, Fetch, Receive, CheckEnabled, ApplyChange,
       SetCalendarSyncToken, PruneSnapshot, ReconcileSeries
<1>3. \/ used' = used
      \/ \E what, bound : Spend(what, bound)
  BY <1>1 DEF Next, vars, RemotePut, RemoteDrop, RemoteReschedule, SetCalendarSyncDisabled,
       SyncStep, FetchGone, AbortSync, Begin, Fetch, CheckEnabled, ApplyChange,
       SetCalendarSyncToken, PruneSnapshot, ReconcileSeries
<1>4. used'.aborts = 0 => used.aborts = 0
  BY <1>3, AbortsGrow
<1>5. (\E s \in Syncers : AbortSync(s)) => used'.aborts # 0
  BY AbortsGrow DEF AbortSync
<1>6. QED
  BY <1>2, <1>4, <1>5 DEF PagesWhole

LEMMA MirrorStep ==
  ASSUME OneAtATime, TypeOK, MirrorInv, [Next]_vars, TypeOK',
         (\E s \in Syncers : AbortSync(s)) => kind # "paged"
  PROVE  MirrorInv'
<1>1. CASE \/ \E u \in UIDs \ Occurrences : RemotePut(u) \/ RemoteDrop(u)
           \/ \E S \in SUBSET Occurrences : RemoteReschedule(S)
  BY <1>1, RemoteKeepsMirror
<1>2. CASE \E d \in BOOLEAN : SetCalendarSyncDisabled(d)
  BY <1>2, ToggleKeepsMirror
<1>3. ASSUME NEW s \in Syncers, SyncStep(s) \/ FetchGone(s) \/ AbortSync(s) PROVE MirrorInv'
  BY <1>3, BeginKeepsMirror, FetchKeepsMirror, CheckKeepsMirror, ApplyKeepsMirror,
     TokenKeepsMirror, PruneKeepsMirror, AbortKeepsMirror DEF SyncStep
<1>4. CASE UNCHANGED vars
  BY <1>4 DEF vars, remoteVars, localVars, passVars, MirrorInv, RevisionsInv, Shaped, Covered,
              PassesInv, PassInv, FetchInv, ResultInv, AppliedInv, NextInv, Fresh
<1>5. Writers = {}
  BY DEF OneAtATime
<1>6. QED
  BY <1>1, <1>2, <1>3, <1>4, <1>5 DEF Next

LEMMA InductiveInvariant ==
  ASSUME OneAtATime PROVE Spec => []IInv
<1>1. Init /\ TypeOK => IInv
  <2> SUFFICES ASSUME Init, TypeOK PROVE IInv
    OBVIOUS
  <2>1. RevisionsInv
    BY ConstantsAssumption DEF Init, RevisionsInv, Shaped, NoToken, OneAtATime
  <2>2. Covered /\ PassesInv
    BY DEF Init, Covered, PassesInv, PassInv, NoToken
  <2>3. QED
    BY <2>1, <2>2 DEF IInv, MirrorInv
<1>2. IInv /\ [Next]_vars /\ TypeOK' => IInv'
  BY PagesWholeBefore, MirrorStep DEF IInv
<1>3. QED
  BY <1>1, <1>2, TypeCorrect, PTL DEF Spec

\* With one pass at a time no update is lost: whatever the stored cursor
\* tells the provider not to send again is in the database.  Of a provider that
\* pages, in every run in which no pass is cut short.
THEOREM NoLostHolds == ASSUME OneAtATime PROVE Spec => []NoLost
<1>1. IInv => NoLost
  <2> SUFFICES ASSUME IInv, token.kind = "delta", PagesWhole, NEW u \in live, changed[u] <= token.rev
               PROVE  rows[u] = changed[u]
    BY DEF NoLost, PagesWhole
  <2>1. token.rest = {} /\ Covered
    BY DEF IInv, MirrorInv, RevisionsInv, Shaped
  <2>2. QED
    BY <2>1 DEF Covered
<1>2. QED
  BY <1>1, InductiveInvariant, PTL

\* What a pass has still to store of an event is not older than its row, and no row
\* is newer than the event; that holds of passes that were cut short as well.
ContentInv ==
  /\ \A u \in UIDs : rows[u] <= changed[u] /\ changed[u] <= rev
  /\ \A s \in Syncers, u \in UIDs :
       u \in todo[s] => reply[s].content[u] = 0 \/ rows[u] <= reply[s].content[u]
  /\ \A s \in Syncers, u \in UIDs : reply[s].content[u] <= changed[u]

LEMMA ReceiveKeepsContent ==
  ASSUME OneAtATime, TypeOK, ContentInv, NEW s \in Syncers, NEW t \in Tokens, Receive(s, t)
  PROVE  ContentInv'
<1>1. PICK p \in Pages(Batch(t)) :
        /\ reply' = [reply EXCEPT ![s] = Result(Batch(t), p)]
        /\ todo' = [todo EXCEPT ![s] = Result(Batch(t), p).items]
        /\ UNCHANGED <<rev, changed, rows>>
  BY DEF Receive, remoteVars, localVars
<1> DEFINE r == Result(Batch(t), p)
<1>2. \A u \in UIDs : /\ r.content[u] \in {0, changed[u]}
                      /\ u \in r.items => r.content[u] = Remote(u)
  BY DEF Result, Remote
<1>3. \A d \in Syncers : d = s /\ reply'[d] = r /\ todo'[d] = r.items
  BY <1>1 DEF OneAtATime, TypeOK
<1> HIDE DEF r
<1>4. \A u \in UIDs : changed[u] \in Nat /\ rows[u] \in Nat
  BY DEF TypeOK
<1>5. QED
  BY <1>1, <1>2, <1>3, <1>4 DEF ContentInv, Remote

LEMMA ApplyKeepsContent ==
  ASSUME OneAtATime, TypeOK, ContentInv, NEW s \in Syncers, NEW u \in UIDs, ApplyChange(s, u)
  PROVE  ContentInv'
<1>1. /\ UNCHANGED <<rev, changed, reply>>
      /\ \A v \in UIDs : rows'[v] = IF v = u THEN reply[s].content[u] ELSE rows[v]
      /\ \A d \in Syncers : d = s /\ todo'[d] = todo[d] \ {u}
  BY DEF ApplyChange, RowsBecome, remoteVars, OneAtATime, TypeOK
<1>2. QED
  BY <1>1 DEF ContentInv

\* A step that leaves the contents alone, or empties rows and replies.
LEMMA EmptyingKeepsContent ==
  ASSUME TypeOK, ContentInv, UNCHANGED <<rev, changed>>,
         \A u \in UIDs : rows'[u] \in {0, rows[u]},
         \A s \in Syncers : \/ reply'[s] = NoResult
                            \/ reply'[s] = reply[s] /\ todo'[s] = todo[s]
  PROVE  ContentInv'
<1>1. /\ \A u \in UIDs : rows[u] \in Nat /\ changed[u] \in Nat /\ NoResult.content[u] = 0
      /\ \A s \in Syncers, u \in UIDs : reply[s].content[u] \in Nat
  BY DEF TypeOK, Results, NoResult
<1>2. \A u \in UIDs : rows'[u] <= changed'[u] /\ changed'[u] <= rev'
  BY <1>1 DEF ContentInv
<1>3. ASSUME NEW s \in Syncers, NEW u \in UIDs
      PROVE  /\ u \in todo'[s] => reply'[s].content[u] = 0 \/ rows'[u] <= reply'[s].content[u]
             /\ reply'[s].content[u] <= changed'[u]
  <2>1. CASE reply'[s] = NoResult
    BY <1>1, <2>1
  <2>2. CASE reply'[s] = reply[s] /\ todo'[s] = todo[s]
    BY <1>1, <2>2 DEF ContentInv
  <2>3. QED
    BY <2>1, <2>2
<1>4. QED
  BY <1>2, <1>3 DEF ContentInv

LEMMA RemoteKeepsContent ==
  ASSUME TypeOK, ContentInv, NEW S, NEW exists, RemoteChange(S, exists),
         UNCHANGED <<localVars, passVars>>
  PROVE  ContentInv'
<1>1. \A u \in UIDs : changed[u] \in Nat /\ changed[u] <= rev /\ rev \in Nat /\ rows[u] \in Nat
  BY DEF TypeOK, ContentInv
<1>2. /\ rev' = rev + 1 /\ UNCHANGED <<rows, reply, todo>>
      /\ \A u \in UIDs : changed'[u] = IF u \in S THEN rev + 1 ELSE changed[u]
  BY DEF RemoteChange, localVars, passVars
<1>3. \A u \in UIDs : changed[u] <= changed'[u] /\ changed'[u] <= rev'
  BY <1>1, <1>2
<1>4. \A s \in Syncers, u \in UIDs : reply[s].content[u] \in Nat
  BY DEF TypeOK, Results
<1>5. QED
  BY <1>1, <1>2, <1>3, <1>4 DEF ContentInv

LEMMA ContentStep ==
  ASSUME OneAtATime, TypeOK, ContentInv, [Next]_vars  PROVE ContentInv'
<1> USE DEF remoteVars, localVars, passVars
<1>1. ASSUME (\E u \in UIDs \ Occurrences : RemotePut(u) \/ RemoteDrop(u))
             \/ (\E S \in SUBSET Occurrences : RemoteReschedule(S))
      PROVE  ContentInv'
  BY <1>1, RemoteKeepsContent DEF RemotePut, RemoteDrop, RemoteReschedule
<1>2. ASSUME NEW d \in BOOLEAN, SetCalendarSyncDisabled(d) PROVE ContentInv'
  BY <1>2, EmptyingKeepsContent DEF SetCalendarSyncDisabled, RowsBecome
<1>3. ASSUME NEW s \in Syncers, Fetch(s) \/ FetchGone(s) PROVE ContentInv'
  BY <1>3, ReceiveKeepsContent, NoTokenType DEF Fetch, FetchGone, TypeOK
<1>4. ASSUME NEW s \in Syncers, NEW u \in UIDs, ApplyChange(s, u) PROVE ContentInv'
  BY <1>4, ApplyKeepsContent
<1>5. ASSUME NEW s \in Syncers, Begin(s) \/ CheckEnabled(s) \/ SetCalendarSyncToken(s)
                                \/ PruneSnapshot(s) \/ ReconcileSeries(s) \/ AbortSync(s)
      PROVE  ContentInv'
  <2>1. UNCHANGED <<rev, changed>> /\ \A u \in UIDs : rows'[u] \in {0, rows[u]}
    <3>1. CASE PruneSnapshot(s) \/ ReconcileSeries(s)
      BY <3>1 DEF PruneSnapshot, ReconcileSeries, RowsBecome
    <3>2. CASE ~(PruneSnapshot(s) \/ ReconcileSeries(s))
      BY <1>5, <3>2 DEF Begin, CheckEnabled, SetCalendarSyncToken, AbortSync
    <3>3. QED
      BY <3>1, <3>2
  <2>2. \/ UNCHANGED <<reply, todo>>
        \/ reply' = [reply EXCEPT ![s] = NoResult] /\ todo' \in {todo, [todo EXCEPT ![s] = {}]}
    BY <1>5 DEF Begin, CheckEnabled, SetCalendarSyncToken, PruneSnapshot, ReconcileSeries, AbortSync,
                Leave
  <2>3. \A d \in Syncers : reply'[d] = NoResult \/ (reply'[d] = reply[d] /\ todo'[d] = todo[d])
    BY <2>2 DEF TypeOK
  <2>4. QED
    BY <2>1, <2>3, EmptyingKeepsContent
<1>6. CASE UNCHANGED vars
  BY <1>6, EmptyingKeepsContent DEF vars
<1>7. ASSUME NEW s \in Syncers, SyncStep(s) \/ FetchGone(s) \/ AbortSync(s) PROVE ContentInv'
  BY <1>3, <1>4, <1>5, <1>7 DEF SyncStep
<1>8. Writers = {}
  BY DEF OneAtATime
<1>9. QED
  BY <1>1, <1>2, <1>6, <1>7, <1>8 DEF Next

\* A step that changes the rows stores a change or empties rows.
LEMMA NoOlderContent ==
  ASSUME OneAtATime, TypeOK, ContentInv, Next, NEW u \in UIDs
  PROVE  rows'[u] = 0 \/ rows'[u] >= rows[u]
<1>1. rows[u] \in Nat
  BY DEF TypeOK
<1>2. ASSUME NEW s \in Syncers, NEW v \in UIDs, ApplyChange(s, v)
      PROVE  rows'[u] = 0 \/ rows'[u] >= rows[u]
  BY <1>1, <1>2 DEF ApplyChange, RowsBecome, ContentInv, TypeOK
<1>3. ASSUME ~\E s \in Syncers, v \in UIDs : ApplyChange(s, v)
      PROVE  rows'[u] \in {0, rows[u]}
  BY <1>3 DEF OneAtATime, Next, localVars, RemotePut, RemoteDrop, RemoteReschedule, SyncStep,
       SetCalendarSyncDisabled, RowsBecome, FetchGone, AbortSync, Begin, Fetch, Receive, CheckEnabled,
       SetCalendarSyncToken, PruneSnapshot, ReconcileSeries
<1>4. QED
  BY <1>1, <1>2, <1>3

LEMMA FreshStays ==
  ASSUME OneAtATime, IInv, Next, rows' # rows, PagesWhole, NEW u \in live, Fresh(u), ~disabled'
  PROVE  rows'[u] = rows[u]
<1>1. u \in UIDs /\ rows \in [UIDs -> Nat] /\ PassesInv
  BY DEF IInv, TypeOK, MirrorInv
<1>2. CASE \E d \in BOOLEAN : SetCalendarSyncDisabled(d)
  BY <1>2 DEF SetCalendarSyncDisabled, RowsBecome
<1>3. CASE \E s \in Syncers, v \in UIDs : ApplyChange(s, v)
  <2>1. PICK s \in Syncers, v \in UIDs : ApplyChange(s, v)
    BY <1>3
  <2>2. ResultInv(s) /\ live' = live /\ changed' = changed
    BY <1>1, <2>1 DEF ApplyChange, PassesInv, PassInv, remoteVars
  <2>3. Fresh(u)'
    BY <1>1, <2>1, <2>2, ApplyKeepsFresh DEF IInv
  <2>4. QED
    BY <2>2, <2>3 DEF Fresh
<1>4. CASE \E s \in Syncers : PruneSnapshot(s)
  BY <1>1, <1>4 DEF PruneSnapshot, RowsBecome, PassesInv, PassInv
<1>5. CASE \E s \in Syncers : ReconcileSeries(s)
  BY <1>1, <1>5 DEF ReconcileSeries, RowsBecome, PassesInv, PassInv
<1>6. Writers = {}
  BY DEF OneAtATime
<1>7. QED
  BY <1>2, <1>3, <1>4, <1>5, <1>6
     DEF Next, vars, localVars, RemotePut, RemoteDrop, RemoteReschedule, SyncStep, FetchGone,
         AbortSync, Begin, Fetch, Receive, CheckEnabled, SetCalendarSyncToken

\* With one pass at a time rows never go back to older content, whatever was cut
\* short before; and no row that is up to date is pruned, reconciled away or overwritten.
THEOREM RowsNeverGoBackHolds == ASSUME OneAtATime PROVE Spec => RowsNeverGoBack
<1> DEFINE Forward ==
             /\ \A u \in UIDs : rows'[u] = 0 \/ rows'[u] >= rows[u]
             /\ (kind = "paged" => used.aborts = 0) =>
                  \A u \in live : rows[u] = changed[u] => rows'[u] = rows[u] \/ disabled'
<1>1. Init => ContentInv
  BY DEF Init, ContentInv, NoResult
<1>2. TypeOK /\ ContentInv /\ [Next]_vars => ContentInv'
  BY ContentStep
<1>3. IInv /\ ContentInv /\ [Next]_vars => [Forward]_rows
  BY NoOlderContent, FreshStays DEF IInv, PagesWhole, Fresh, vars, localVars
<1>4. QED
  BY <1>1, <1>2, <1>3, TypeCorrect, InductiveInvariant, PTL DEF Spec, RowsNeverGoBack

----------------------------------------------------------------------------
\* Deletions

\* The runs of which NoGhost speaks.
Unhindered == used.aborts = 0 /\ (kind = "paged" => used.expiries = 0)

\* The token does not cover the last change of the event.
After(t, u) == t.kind # "none" => changed[u] > t.rev

\* No row is left of an event whose deletion token t covers, if the token does not
\* still have to deliver it, nor these items, nor, when the series was touched, the
\* reconciliation.
Removed(t, items, touched) ==
  t.kind # "none" =>
    \A u \in UIDs \ live :
      changed[u] <= t.rev /\ u \notin t.rest \cup items /\ ~(u \in Occurrences /\ touched) =>
        rows[u] = 0

\* What a token has to deliver of an event that is gone is its deletion, or was
\* listed before it.
Owes(t) == \A u \in t.rest \ live : changed[u] > t.rev \/ (~t.snapshot /\ u \notin Occurrences)

\* No row is left of an event whose deletion the stored token covers.
Gone == token.kind = "delta" => \A u \in UIDs \ live : changed[u] <= token.rev => rows[u] = 0

\* A pass with a result: what it would store of an event that is gone by now, and
\* what it would spare, is newer than the token says.
ResultGhosts(s) ==
  LET r == reply[s] IN
  /\ \A u \in r.items \ live : r.content[u] # 0 =>
       After(r.next, u) /\ (token.kind = "delta" => After(token, u))
  /\ \A u \in (seen[s] \cup kept[s]) \ live : After(r.next, u)
  /\ Owes(r.next)
  /\ ~r.snapshot =>
       seen[s] = {} /\ Removed(r.next, r.items, flags[s].touched \/ r.touched \/ r.next.touch)

FetchGhosts(s) ==
  /\ \A u \in (seen[s] \cup kept[s]) \ live : After(token, u)
  /\ Owes(token)
  /\ ~token.snapshot => seen[s] = {} /\ Removed(token, {}, flags[s].touched \/ token.touch)
  /\ token.kind # "page" => seen[s] = {} /\ kept[s] = {}

PassGhosts(s) ==
  /\ pc[s] = "idle" => seen[s] = {} /\ kept[s] = {}
  /\ pc[s] = "fetch" => FetchGhosts(s)
  /\ pc[s] \in {"check", "apply", "token"} => ResultGhosts(s)
  /\ pc[s] = "prune" => \A u \in seen[s] \ live : After(token, u)
  /\ pc[s] = "reconcile" =>
       Removed(token, {}, TRUE) /\ \A u \in kept[s] \ live : After(token, u)

DeletionsInv ==
  /\ (\A s \in Syncers : pc[s] \notin {"prune", "reconcile"}) => Gone
  /\ \A s \in Syncers : PassGhosts(s)

GhostInv == Unhindered => DeletionsInv

\* An event that is deleted now was deleted later than any token knows.
LEMMA RemoteKeepsDeletions ==
  ASSUME TypeOK, MirrorInv, DeletionsInv,
         \/ \E u \in UIDs \ Occurrences : RemotePut(u) \/ RemoteDrop(u)
         \/ \E S \in SUBSET Occurrences : RemoteReschedule(S)
  PROVE  DeletionsInv'
<1>1. /\ rev' = rev + 1 /\ UNCHANGED <<kind, rows, disabled, token, passVars, used>>
      /\ \A u \in UIDs : \/ changed'[u] = rev + 1
                         \/ changed'[u] = changed[u] /\ (u \in live' <=> u \in live)
  BY RemoteEffect DEF MirrorInv
<1>2. rev \in Nat /\ changed \in [UIDs -> Nat] /\ token.rev \in Nat /\ token.rev <= rev
  BY Sizes DEF MirrorInv, RevisionsInv, Shaped
<1>3. \A u \in UIDs \ live' : changed'[u] = rev + 1 \/ (u \notin live /\ changed'[u] = changed[u])
  BY <1>1
<1>4. Gone => Gone'
  BY <1>1, <1>2, <1>3 DEF Gone
<1>5. ASSUME NEW t \in Tokens, t.rev <= rev
      PROVE  /\ \A u \in UIDs \ live' : (u \notin live => After(t, u)) =>
                  (t.kind # "none" => changed'[u] > t.rev)
             /\ \A items, touched : Removed(t, items, touched) =>
                  (t.kind # "none" =>
                     \A u \in UIDs \ live' :
                       changed'[u] <= t.rev /\ u \notin t.rest \cup items
                         /\ ~(u \in Occurrences /\ touched) => rows[u] = 0)
             /\ Owes(t) =>
                  \A u \in t.rest \ live' :
                    changed'[u] > t.rev \/ (~t.snapshot /\ u \notin Occurrences)
  <2>1. t.rev \in Nat /\ t.rest \subseteq UIDs
    BY DEF Tokens
  <2>2. \A u \in UIDs \ live' : (u \notin live => After(t, u)) =>
                  (t.kind # "none" => changed'[u] > t.rev)
    BY <1>2, <1>3, <1>5, <2>1 DEF After
  <2>3. \A u \in UIDs \ live' : changed'[u] <= t.rev => u \notin live /\ changed[u] = changed'[u]
    BY <1>2, <1>3, <1>5, <2>1
  <2>4. Owes(t) => \A u \in t.rest \ live' :
                     changed'[u] > t.rev \/ (~t.snapshot /\ u \notin Occurrences)
    BY <1>2, <1>3, <1>5, <2>1 DEF Owes
  <2>5. QED
    BY <2>2, <2>3, <2>4 DEF Removed
<1>6. token \in Tokens
  BY DEF TypeOK
<1>7. ASSUME NEW s \in Syncers, PassGhosts(s) PROVE PassGhosts(s)'
  <2>1. /\ pc' = pc /\ seen' = seen /\ kept' = kept /\ reply' = reply /\ flags' = flags
        /\ token' = token /\ rows' = rows
    BY <1>1 DEF passVars
  <2>2. reply[s].next \in Tokens /\ seen[s] \subseteq UIDs /\ kept[s] \subseteq UIDs
        /\ reply[s].items \subseteq UIDs
    BY Sizes DEF TypeOK, Results
  <2>3. CASE pc[s] = "fetch"
    <3>1. FetchGhosts(s)
      BY <1>7, <2>3 DEF PassGhosts
    <3>2. FetchGhosts(s)'
      BY <1>2, <1>5, <1>6, <2>1, <2>2, <3>1 DEF FetchGhosts, After, Removed, Owes
    <3>3. QED
      BY <2>1, <2>3, <3>2 DEF PassGhosts
  <2>4. CASE pc[s] \in {"check", "apply", "token"}
    <3>1. ResultGhosts(s) /\ reply[s].next.rev <= rev
      BY <1>7, <2>4 DEF PassGhosts, MirrorInv, PassesInv, PassInv, ResultInv, NextInv, Shaped
    <3>2. ResultGhosts(s)'
      BY <1>2, <1>5, <1>6, <2>1, <2>2, <3>1 DEF ResultGhosts, After, Removed, Owes
    <3>3. QED
      BY <2>1, <2>4, <3>2 DEF PassGhosts
  <2>5. CASE pc[s] \in {"idle", "prune", "reconcile"}
    BY <1>2, <1>5, <1>6, <1>7, <2>1, <2>2, <2>5 DEF PassGhosts, After, Removed
  <2>6. QED
    BY <2>1, <2>3, <2>4, <2>5 DEF TypeOK
<1>8. QED
  BY <1>1, <1>4, <1>7 DEF DeletionsInv, passVars

LEMMA ToggleKeepsDeletions ==
  ASSUME OneAtATime, TypeOK, DeletionsInv, NEW d \in BOOLEAN, SetCalendarSyncDisabled(d)
  PROVE  DeletionsInv'
<1>1. /\ \A s \in Syncers : pc[s] = "idle"
      /\ token'.kind = "none" /\ UNCHANGED passVars
  BY DEF SetCalendarSyncDisabled, OneAtATime, NoToken
<1>2. QED
  BY <1>1 DEF DeletionsInv, Gone, PassGhosts, passVars

LEMMA BeginKeepsDeletions ==
  ASSUME OneAtATime, TypeOK, MirrorInv, DeletionsInv, NEW s \in Syncers, Begin(s)
  PROVE  DeletionsInv'
<1>1. /\ pc[s] = "idle" /\ UNCHANGED <<remoteVars, localVars, reply, seen, kept, flags>>
      /\ pc'[s] \in {"idle", "fetch"}
  BY DEF Begin, TypeOK
<1>2. Gone /\ seen[s] = {} /\ kept[s] = {}
  BY <1>1 DEF DeletionsInv, PassGhosts, OneAtATime
<1>3. flags[s] = NoFlags /\ token.kind # "page"
  BY <1>1 DEF MirrorInv, PassesInv, PassInv
<1>4. token.rest = {} /\ ~token.snapshot /\ ~token.touch
  BY <1>3 DEF MirrorInv, RevisionsInv, Shaped
<1>5. token.kind \in {"none", "delta"}
  BY <1>3 DEF TypeOK, Tokens
<1>6. FetchGhosts(s)
  BY <1>2, <1>3, <1>4, <1>5 DEF FetchGhosts, Owes, Removed, Gone
<1>7. FetchGhosts(s)' /\ Gone' /\ seen'[s] = {} /\ kept'[s] = {}
  BY <1>1, <1>2, <1>6 DEF FetchGhosts, Owes, Removed, After, Gone, remoteVars, localVars
<1>8. QED
  BY <1>1, <1>7 DEF DeletionsInv, PassGhosts, OneAtATime

\* Of every batch: an event whose deletion it covers has no row, unless the batch
\* has yet to tell; and nothing that the pass has collected so far hides one.
LEMMA BatchOfDeletions ==
  ASSUME OneAtATime, TypeOK, MirrorInv, DeletionsInv, NEW s \in Syncers, pc[s] = "fetch",
         NEW t \in Tokens, t = token \/ (t = NoToken /\ kind # "paged"), NEW b, b = Batch(t)
  PROVE  /\ Owes(b)
         /\ \A u \in (seen[s] \cup kept[s]) \ live : changed[u] > b.rev
         /\ ~b.snapshot => seen[s] = {}
         /\ ~b.snapshot =>
              \A u \in UIDs \ live :
                changed[u] <= b.rev /\ u \notin b.rest
                  /\ ~(u \in Occurrences /\ (flags[s].touched \/ b.touch)) => rows[u] = 0
<1>1. /\ b \in Tokens
      /\ \/ t.kind = "page" /\ b = t
         \/ b.snapshot /\ ~b.touch /\ b.rest = live /\ b.rev = rev
         \/ /\ ~b.snapshot /\ t.kind = "delta" /\ b.rev = rev
            /\ b.touch = \E o \in Occurrences : changed[o] > t.rev
            /\ \A u \in UIDs : u \in b.rest <=>
                                 changed[u] > t.rev /\ (u \in live \/ u \notin Occurrences)
  BY BatchOfToken DEF MirrorInv
<1>2. FetchGhosts(s) /\ Gone /\ Shaped(token)
  BY DEF DeletionsInv, PassGhosts, OneAtATime, MirrorInv, RevisionsInv
<1>3. rev \in Nat /\ changed \in [UIDs -> Nat] /\ live \subseteq UIDs /\ token.rev \in Nat
  BY Sizes
<1>4. CASE t.kind = "page" /\ b = t
  <2>1. b = token /\ token.kind # "none"
    BY <1>4 DEF NoToken
  <2>2. QED
    BY <1>2, <2>1 DEF FetchGhosts, After, Removed
<1>5. t.kind # "page" => seen[s] = {} /\ kept[s] = {}
  BY <1>2 DEF FetchGhosts, Shaped
<1>6. CASE t.kind # "page" /\ b.snapshot /\ ~b.touch /\ b.rest = live /\ b.rev = rev
  BY <1>5, <1>6 DEF Owes
<1>7. CASE /\ ~b.snapshot /\ t.kind = "delta" /\ b.rev = rev
           /\ b.touch = \E o \in Occurrences : changed[o] > t.rev
           /\ \A u \in UIDs : u \in b.rest <=>
                                changed[u] > t.rev /\ (u \in live \/ u \notin Occurrences)
  <2>1. t = token /\ seen[s] = {} /\ kept[s] = {}
    BY <1>5, <1>7 DEF NoToken
  <2>2. Owes(b)
    BY <1>1, <1>7 DEF Owes, Tokens
  <2>3. \A u \in UIDs \ live : u \notin b.rest /\ ~(u \in Occurrences /\ b.touch) => rows[u] = 0
    BY <1>2, <1>3, <1>7, <2>1 DEF Gone
  <2>4. QED
    BY <1>7, <2>1, <2>2, <2>3
<1>8. CASE t.kind = "page" /\ b # t
  BY <1>8 DEF Batch
<1>9. QED
  BY <1>1, <1>4, <1>6, <1>7, <1>8

LEMMA FetchKeepsDeletions ==
  ASSUME OneAtATime, TypeOK, MirrorInv, DeletionsInv, NEW s \in Syncers,
         Fetch(s) \/ (FetchGone(s) /\ kind # "paged")
  PROVE  DeletionsInv'
<1> USE DEF remoteVars, localVars
<1>1. PICK t \in {cursor[s], NoToken} : Receive(s, t) /\ (t = cursor[s] \/ kind # "paged")
  BY DEF Fetch, FetchGone
<1>2. PICK p \in Pages(Batch(t)) :
        /\ pc[s] = "fetch"
        /\ pc' = [pc EXCEPT ![s] = "check"]
        /\ reply' = [reply EXCEPT ![s] = Result(Batch(t), p)]
        /\ UNCHANGED <<remoteVars, localVars, seen, kept, flags>>
  BY <1>1 DEF Receive
<1> DEFINE b == Batch(t)
           r == Result(b, p)
<1>3. FetchInv(s)
  BY <1>2 DEF MirrorInv, PassesInv, PassInv
<1>4. t \in Tokens /\ (t = token \/ (t = NoToken /\ kind # "paged"))
  BY <1>1, <1>3, NoTokenType DEF FetchInv, TypeOK
<1>5. b \in Tokens /\ b.rev <= rev /\ (kind # "paged" => ~b.touch)
  BY <1>4, BatchOfToken DEF MirrorInv
<1>6. /\ Owes(b)
      /\ \A u \in (seen[s] \cup kept[s]) \ live : changed[u] > b.rev
      /\ ~b.snapshot => seen[s] = {}
      /\ ~b.snapshot =>
           \A u \in UIDs \ live :
             changed[u] <= b.rev /\ u \notin b.rest
               /\ ~(u \in Occurrences /\ (flags[s].touched \/ b.touch)) => rows[u] = 0
  BY <1>2, <1>4, BatchOfDeletions
<1>7. /\ pc'[s] = "check" /\ reply'[s] = r
      /\ UNCHANGED <<kind, rev, changed, live, rows, disabled, token, flags, seen, kept>>
  BY <1>2 DEF TypeOK
<1> HIDE DEF b
<1>8. p \in Pages(b)
  BY DEF b
<1>9. /\ r.items \subseteq UIDs /\ r.next.rest \subseteq UIDs /\ r.snapshot = b.snapshot
      /\ r.touched \/ r.next.touch <=> b.touch
      /\ r.next.kind # "none" => r.next.rev = b.rev
      /\ Shaped(r.next) /\ (r.more <=> r.next.kind = "page")
      /\ r.more => (r.next.snapshot <=> r.snapshot)
      /\ \A u \in r.next.rest : u \in b.rest
      /\ \A u \in b.rest : u \notin Occurrences /\ ~b.snapshot => u \in r.items \cup r.next.rest
      /\ \A u \in UIDs : r.content[u] = IF u \in r.items THEN Remote(u) ELSE 0
  BY <1>5, <1>8, Received DEF MirrorInv
<1> HIDE DEF r
<1>10. b.rev \in Nat /\ changed \in [UIDs -> Nat]
  BY <1>5, Sizes DEF Tokens
<1>11. \A u \in r.items \ live : r.content[u] = 0
  BY <1>9 DEF Remote
<1>12. Owes(r.next)
  BY <1>6, <1>9 DEF Owes, Shaped
<1>13. ~r.snapshot => Removed(r.next, r.items, flags[s].touched \/ r.touched \/ r.next.touch)
  <2> SUFFICES ASSUME ~r.snapshot, r.next.kind # "none", NEW u \in UIDs \ live,
                      changed[u] <= r.next.rev, u \notin r.next.rest \cup r.items,
                      ~(u \in Occurrences /\ (flags[s].touched \/ r.touched \/ r.next.touch))
               PROVE  rows[u] = 0
    BY DEF Removed
  <2>1. changed[u] <= b.rev /\ ~b.snapshot /\ ~(u \in Occurrences /\ (flags[s].touched \/ b.touch))
    BY <1>9
  <2>2. u \notin b.rest
    BY <1>6, <1>9, <1>10, <2>1 DEF Owes
  <2>3. QED
    BY <1>6, <2>1, <2>2
<1>14. PassGhosts(s)'
  <2>1. \A u \in (seen[s] \cup kept[s]) \ live : After(r.next, u)
    BY <1>6, <1>9 DEF After
  <2>2. ResultGhosts(s)'
    BY <1>6, <1>7, <1>9, <1>11, <1>12, <1>13, <2>1 DEF ResultGhosts, After, Owes, Removed
  <2>3. QED
    BY <1>7, <2>2 DEF PassGhosts
<1>15. Gone'
  BY <1>2, <1>7 DEF DeletionsInv, OneAtATime, Gone
<1>16. QED
  BY <1>14, <1>15 DEF DeletionsInv, OneAtATime

LEMMA CheckKeepsDeletions ==
  ASSUME OneAtATime, TypeOK, MirrorInv, DeletionsInv, NEW s \in Syncers, CheckEnabled(s)
  PROVE  DeletionsInv'
<1> USE DEF remoteVars, localVars
<1>1. pc[s] = "check" /\ ~disabled
  BY DEF CheckEnabled, MirrorInv, PassesInv, PassInv
<1>2. /\ pc'[s] \in {"apply", "token"}
      /\ UNCHANGED <<remoteVars, localVars, reply, seen, kept, flags>>
  BY <1>1 DEF CheckEnabled, TypeOK
<1>3. Gone /\ ResultGhosts(s)
  BY <1>1 DEF DeletionsInv, PassGhosts, OneAtATime
<1>4. Gone' /\ ResultGhosts(s)'
  BY <1>2, <1>3 DEF Gone, ResultGhosts, After, Removed, Owes
<1>5. QED
  BY <1>2, <1>4 DEF DeletionsInv, PassGhosts, OneAtATime

\* What is applied of a deleted event is its deletion, or newer than the token.
LEMMA ApplyKeepsDeletions ==
  ASSUME OneAtATime, TypeOK, MirrorInv, DeletionsInv, NEW s \in Syncers, NEW u \in UIDs,
         ApplyChange(s, u)
  PROVE  DeletionsInv'
<1> USE DEF remoteVars
<1>1. pc[s] = "apply" /\ u \in reply[s].items
  BY DEF ApplyChange, MirrorInv, PassesInv, PassInv, ResultInv, AppliedInv
<1>2. /\ rows' = [rows EXCEPT ![u] = reply[s].content[u]]
      /\ pc'[s] \in {"apply", "token"}
      /\ UNCHANGED <<remoteVars, token, reply, seen, kept, flags>>
  BY DEF ApplyChange, RowsBecome, TypeOK
<1>3. rows \in [UIDs -> Nat] /\ changed \in [UIDs -> Nat] /\ token.rev \in Nat
  BY Sizes
<1>4. Gone /\ ResultGhosts(s)
  BY <1>1 DEF DeletionsInv, PassGhosts, OneAtATime
<1>5. Gone'
  BY <1>1, <1>2, <1>3, <1>4 DEF Gone, ResultGhosts, After
<1>6. ResultGhosts(s)'
  BY <1>1, <1>2, <1>3, <1>4 DEF ResultGhosts, After, Removed, Owes
<1>7. QED
  BY <1>2, <1>5, <1>6 DEF DeletionsInv, PassGhosts, OneAtATime

LEMMA LeaveKeepsDeletions ==
  ASSUME OneAtATime, TypeOK, NEW s \in Syncers, Leave(s), Gone'
  PROVE  DeletionsInv'
<1>1. \A t \in Syncers : pc'[t] = "idle" /\ seen'[t] = {} /\ kept'[t] = {}
  BY DEF Leave, TypeOK, OneAtATime
<1>2. QED
  BY <1>1 DEF DeletionsInv, PassGhosts

\* When the result is applied, its token may stand for it.
LEMMA TokenKeepsDeletions ==
  ASSUME OneAtATime, TypeOK, MirrorInv, DeletionsInv, NEW s \in Syncers, SetCalendarSyncToken(s)
  PROVE  DeletionsInv'
<1> USE DEF remoteVars
<1> DEFINE r == reply[s]
           f == FlagsSoFar(s)
<1>1. /\ pc[s] = "token" /\ ResultInv(s) /\ AppliedInv(s) /\ NextInv(s) /\ ~disabled /\ todo[s] = {}
      /\ ResultGhosts(s)
  BY DEF SetCalendarSyncToken, MirrorInv, PassesInv, PassInv, ResultInv, AppliedInv,
         DeletionsInv, PassGhosts
<1>2. token' = r.next /\ UNCHANGED <<remoteVars, rows>>
  BY <1>1 DEF SetCalendarSyncToken, StoredToken
<1>3. /\ r.items \subseteq UIDs
      /\ {r.snapshot, r.touched, r.more, r.next.snapshot, r.next.touch,
          flags[s].snapshot, flags[s].touched} \subseteq BOOLEAN
      /\ changed \in [UIDs -> Nat] /\ r.next.rev \in Nat
  BY Sizes
<1>4. \A u \in r.items : rows[u] = r.content[u]
  BY <1>1 DEF AppliedInv
<1>5. f.snapshot = r.snapshot /\ f.touched = (flags[s].touched \/ r.touched)
  BY <1>1, <1>3 DEF FlagsSoFar, NextInv
<1>6. \A u \in Upserts(s) \ live : After(r.next, u)
  BY <1>1 DEF Upserts, ResultGhosts
<1>7. ~r.snapshot => Removed(r.next, {}, flags[s].touched \/ r.touched \/ r.next.touch)
  BY <1>1, <1>3, <1>4 DEF Removed, ResultGhosts, After
<1>8. ~r.more => token'.kind # "page" /\ r.next.rest = {} /\ ~r.next.touch
  BY <1>1, <1>2 DEF NextInv, Shaped
<1>9. CASE ~r.more /\ ~f.snapshot /\ ~f.touched
  <2>1. Leave(s)
    BY <1>9 DEF SetCalendarSyncToken
  <2>2. Gone'
    BY <1>2, <1>5, <1>7, <1>8, <1>9 DEF Gone, Removed
  <2>3. QED
    BY <2>1, <2>2, LeaveKeepsDeletions
<1>10. CASE ~(~r.more /\ ~f.snapshot /\ ~f.touched)
  <2>1. /\ pc'[s] = IF r.more THEN "fetch" ELSE IF f.snapshot THEN "prune" ELSE "reconcile"
        /\ flags'[s] = f
        /\ seen'[s] = SeenSoFar(s)
        /\ kept'[s] = kept[s] \cup (Upserts(s) \cap Occurrences)
    BY <1>10 DEF SetCalendarSyncToken, TypeOK
  <2> HIDE DEF f
  <2>2. SeenSoFar(s) = IF r.snapshot THEN seen[s] \cup Upserts(s) ELSE seen[s]
    BY DEF SeenSoFar
  <2>3. \A u \in (seen'[s] \cup kept'[s]) \ live : After(r.next, u)
    BY <1>1, <1>6, <2>1, <2>2 DEF ResultGhosts
  <2>4. CASE r.more
    <3>1. pc'[s] = "fetch" /\ token'.kind = "page" /\ (r.next.snapshot <=> r.snapshot)
      BY <1>1, <1>2, <2>1, <2>4 DEF NextInv
    <3>2. ~r.snapshot => seen'[s] = {}
      BY <1>1, <2>1, <2>2 DEF ResultGhosts
    <3>3. FetchGhosts(s)'
      BY <1>1, <1>2, <1>5, <1>7, <2>1, <2>3, <3>1, <3>2
         DEF FetchGhosts, ResultGhosts, After, Removed, Owes
    <3>4. QED
      BY <3>1, <3>3 DEF DeletionsInv, Gone, PassGhosts, OneAtATime
  <2>5. CASE ~r.more /\ r.snapshot
    <3>1. pc'[s] = "prune"
      BY <1>5, <2>1, <2>5
    <3>2. \A u \in seen'[s] \ live' : After(token, u)'
      BY <1>2, <2>3 DEF After
    <3>3. QED
      BY <3>1, <3>2 DEF DeletionsInv, PassGhosts, OneAtATime
  <2>6. CASE ~r.more /\ ~r.snapshot
    <3>1. pc'[s] = "reconcile" /\ (flags[s].touched \/ r.touched)
      BY <1>5, <1>10, <2>1, <2>6
    <3>2. \A u \in kept'[s] \ live' : After(token, u)'
      BY <1>2, <2>3 DEF After
    <3>3. Removed(token, {}, TRUE)'
      BY <1>2, <1>7, <2>6, <3>1 DEF Removed
    <3>4. QED
      BY <3>1, <3>2, <3>3 DEF DeletionsInv, PassGhosts, OneAtATime
  <2>7. QED
    BY <2>4, <2>5, <2>6
<1>11. QED
  BY <1>9, <1>10

\* Neither pruning nor reconciliation spares an event whose deletion the token covers.
LEMMA PruneKeepsDeletions ==
  ASSUME OneAtATime, TypeOK, MirrorInv, DeletionsInv, NEW s \in Syncers,
         PruneSnapshot(s) \/ ReconcileSeries(s)
  PROVE  DeletionsInv'
<1> USE DEF remoteVars
<1>1. changed \in [UIDs -> Nat] /\ token.rev \in Nat
  BY Sizes
<1>2. Leave(s) /\ UNCHANGED <<remoteVars, token>>
  BY DEF PruneSnapshot, ReconcileSeries
<1>3. CASE PruneSnapshot(s)
  <2>1. pc[s] = "prune" /\ rows' = [u \in UIDs |-> IF u \in seen[s] THEN rows[u] ELSE 0]
    BY <1>3 DEF PruneSnapshot, RowsBecome
  <2>2. \A u \in seen[s] \ live : After(token, u)
    BY <2>1 DEF DeletionsInv, PassGhosts
  <2>3. Gone'
    BY <1>1, <1>2, <2>1, <2>2 DEF Gone, After
  <2>4. QED
    BY <1>2, <2>3, LeaveKeepsDeletions
<1>4. CASE ReconcileSeries(s)
  <2>1. /\ pc[s] = "reconcile"
        /\ rows' = [u \in UIDs |-> IF u \in Occurrences \ kept[s] THEN 0 ELSE rows[u]]
    BY <1>4 DEF ReconcileSeries, RowsBecome
  <2>2. Removed(token, {}, TRUE) /\ \A u \in kept[s] \ live : After(token, u)
    BY <2>1 DEF DeletionsInv, PassGhosts
  <2>3. token.kind = "delta" => token.rest = {}
    BY DEF MirrorInv, RevisionsInv, Shaped
  <2>4. Gone'
    BY <1>1, <1>2, <2>1, <2>2, <2>3 DEF Gone, After, Removed
  <2>5. QED
    BY <1>2, <2>4, LeaveKeepsDeletions
<1>5. QED
  BY <1>3, <1>4

\* Such a run had no abort and, if the provider pages, no rejected cursor before.
LEMMA UnhinderedBefore ==
  ASSUME OneAtATime, TypeOK, [Next]_vars, Unhindered'
  PROVE  /\ Unhindered
         /\ \A s \in Syncers : ~AbortSync(s) /\ (FetchGone(s) => kind # "paged")
<1> USE DEF remoteVars, localVars, passVars
<1>1. Writers = {}
  BY DEF OneAtATime
<1>2. kind' = kind
  BY <1>1 DEF Next, vars, RemotePut, RemoteDrop, RemoteReschedule, RemoteChange, SetCalendarSyncDisabled,
       SyncStep, FetchGone, AbortSync, Begin, Fetch, Receive, CheckEnabled, ApplyChange,
       SetCalendarSyncToken, PruneSnapshot, ReconcileSeries
<1>3. \/ used' = used
      \/ \E what, bound : Spend(what, bound)
  BY <1>1 DEF Next, vars, RemotePut, RemoteDrop, RemoteReschedule, SetCalendarSyncDisabled,
       SyncStep, FetchGone, AbortSync, Begin, Fetch, CheckEnabled, ApplyChange,
       SetCalendarSyncToken, PruneSnapshot, ReconcileSeries
<1>4. (used'.aborts = 0 => used.aborts = 0) /\ (used'.expiries = 0 => used.expiries = 0)
  BY <1>3, AbortsGrow
<1>5. /\ (\E s \in Syncers : AbortSync(s)) => used'.aborts # 0
      /\ (\E s \in Syncers : FetchGone(s)) => used'.expiries # 0
  BY AbortsGrow DEF AbortSync, FetchGone
<1>6. QED
  BY <1>2, <1>4, <1>5 DEF Unhindered

LEMMA GhostStep ==
  ASSUME OneAtATime, IInv, GhostInv, [Next]_vars
  PROVE  GhostInv'
<1> SUFFICES ASSUME Unhindered' PROVE DeletionsInv'
  BY DEF GhostInv
<1>1. /\ Unhindered /\ TypeOK /\ DeletionsInv
      /\ \A s \in Syncers : ~AbortSync(s) /\ (FetchGone(s) => kind # "paged")
  BY UnhinderedBefore DEF GhostInv, IInv
<1>2. MirrorInv
  BY <1>1 DEF IInv, PagesWhole, Unhindered
<1>3. CASE \/ \E u \in UIDs \ Occurrences : RemotePut(u) \/ RemoteDrop(u)
           \/ \E S \in SUBSET Occurrences : RemoteReschedule(S)
  BY <1>1, <1>2, <1>3, RemoteKeepsDeletions
<1>4. CASE \E d \in BOOLEAN : SetCalendarSyncDisabled(d)
  BY <1>1, <1>4, ToggleKeepsDeletions
<1>5. ASSUME NEW s \in Syncers, SyncStep(s) \/ FetchGone(s) \/ AbortSync(s) PROVE DeletionsInv'
  BY <1>1, <1>2, <1>5, BeginKeepsDeletions, FetchKeepsDeletions, CheckKeepsDeletions,
     ApplyKeepsDeletions, TokenKeepsDeletions, PruneKeepsDeletions DEF SyncStep
<1>6. CASE UNCHANGED vars
  BY <1>1, <1>6 DEF vars, remoteVars, localVars, passVars, DeletionsInv, PassGhosts, FetchGhosts,
                    ResultGhosts, Gone, Removed, After, Owes
<1>7. Writers = {}
  BY DEF OneAtATime
<1>8. QED
  BY <1>3, <1>4, <1>5, <1>6, <1>7 DEF Next

\* With one pass at a time an event whose deletion the stored cursor covers has no
\* row once the pass that stored it is done, unless an error or a crash cut a pass
\* short or a paged listing had to start over.
THEOREM NoGhostHolds == ASSUME OneAtATime PROVE Spec => []NoGhost
<1>1. Init => GhostInv
  BY DEF Init, GhostInv, DeletionsInv, Gone, PassGhosts, NoToken
<1>2. IInv /\ GhostInv /\ [Next]_vars => GhostInv'
  BY GhostStep
<1>3. GhostInv => NoGhost
  BY DEF GhostInv, DeletionsInv, Gone, NoGhost, Unhindered
<1>4. QED
  BY <1>1, <1>2, <1>3, InductiveInvariant, PTL DEF Spec

================================================================================
