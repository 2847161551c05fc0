----------------------------- MODULE SecretStore -----------------------------
(***************************************************************************)
(* One secret of one account (internal/keyring, repo/secrets.go).  Copies  *)
(* of it may be in collections of the Secret Service, in the encrypted     *)
(* file and in the database.  Each process (the daemon, a dcal command)    *)
(* opens the keyring of its own and finds the service running or not; a    *)
(* process that found only the file goes over to the service once it       *)
(* appears.  Store.mu covers a process's reads and writes of service and   *)
(* file; the database is beyond it.                                        *)
(***************************************************************************)
EXTENDS Integers

CONSTANTS
    Collections,    \* collections of the Secret Service
    Login,          \* the legacy one among them
    Procs,          \* processes
    Daemon,         \* the one among them that migrates
    Clients,        \* goroutines that read and write the secret
    ProcOf,         \* [Clients -> Procs]
    Worlds,         \* the surroundings a behaviour may have, see World below
    Hides,          \* a locked collection finds nothing (KeePassXC), or finds
                    \* items it cannot read
    MaxValue,       \* bound: how many values are written
    MaxTroubles     \* bound: how many troubles there are, in any world

\* What may disturb the processes.
TroubleKinds ==
    {"appear", "vanish", "lock", "move", "overtake", "stop", "crash", "fail", "tear", "keep", "delete"}

\* What a behaviour runs on.  The machine is "plain"; "bare", where no file store
\* opens; or a "flatpak", which may not speak to the service.  The login collection
\* holds a first value when legacy is 1.
World ==
    [machine : {"plain", "bare", "flatpak"}, procs : SUBSET Procs, legacy : 0 .. 1,
     troubles : SUBSET TroubleKinds, many : 0 .. MaxTroubles]

ASSUME ConstantsAssumption ==
    /\ Login \in Collections
    /\ Daemon \in Procs
    /\ ProcOf \in [Clients -> Procs]
    /\ Worlds \subseteq World
    /\ Hides \in BOOLEAN
    /\ MaxValue \in Nat \ {0} /\ MaxTroubles \in Nat

VARIABLES
    item,       \* item[k]: the value in collection k, 0 when there is none
    alias,      \* the default collection
    locked,     \* the collections that are locked
    up,         \* the service is on the bus
    file, db,   \* the values in the file, Broken when it is cut short, and in the database
    world,      \* the one of Worlds this behaviour is in
    marker,     \* the file that says the login collection was migrated
    backend,    \* backend[p]: where p keeps secrets, "off" when it is not running
    fallback,   \* fallback[p]: p reads the file when the service does not have it
    migrating,  \* where the daemon, as it starts, is in its migration
    pinned,     \* the default collection when the daemon opened the service
    pc,         \* pc[c]: the next step of c's call
    got,        \* got[c]: what the keyring has told c so far
    at, left,   \* at[c], left[c]: the collection c looks into, and those that follow
    putting,    \* putting[c]: the value that c writes to the file
    written,    \* how many values were written
    latest,     \* the last value that a store has begun to take, 0 after a deletion
    replaced, seen, moved, blind, answer,   \* as in SecretRegister
    troubles    \* how many there were

stores == <<item, file, db>>
service == <<alias, locked, up>>
procs == <<backend, fallback, migrating, pinned>>
search == <<at, left>>
calls == <<pc, got, search, putting>>
history == <<latest, replaced, seen, moved, blind, answer>>
vars == <<item, file, db, alias, locked, up, world, marker, backend, fallback, migrating, pinned,
          pc, got, at, left, putting, written, latest, replaced, seen, moved, blind, answer, troubles>>

Backends == {"off", "none", "file", "service"}
PCs == {"idle", "get", "search", "absent", "get_file", "get_db",
        "write_file", "drop_file", "drop_db", "delete"}

\* A file that cannot be decoded: a write has truncated it and not yet ended.
Broken == -1

Register == INSTANCE SecretRegister WITH value <- latest

TypeOK ==
    /\ item \in [Collections -> 0 .. MaxValue]
    /\ alias \in Collections /\ locked \subseteq Collections
    /\ file \in Broken .. MaxValue /\ db \in 0 .. MaxValue
    /\ {up, marker} \subseteq BOOLEAN /\ world \in Worlds
    /\ migrating \in {"no", "copy", "remove"} /\ pinned \in Collections
    /\ backend \in [Procs -> Backends] /\ fallback \in [Procs -> BOOLEAN]
    /\ pc \in [Clients -> PCs]
    /\ got \in [Clients -> {"missing", "locked", "error"}]
    /\ at \in [Clients -> Collections] /\ left \in [Clients -> SUBSET Collections]
    /\ putting \in [Clients -> 0 .. MaxValue]
    /\ written \in 0 .. MaxValue /\ latest \in 0 .. written
    /\ replaced \in [Clients -> -1 .. MaxValue]
    /\ seen \in [Clients -> SUBSET (0 .. MaxValue)]
    /\ moved \in [Clients -> BOOLEAN] /\ blind \subseteq Clients
    /\ answer \in [Clients -> Register!Answers]
    /\ troubles \in 0 .. MaxTroubles
    /\ \A p \in Procs :
         /\ fallback[p] => backend[p] = "service"
         /\ backend[p] = "service" => world.machine # "flatpak"

Init ==
    /\ world \in Worlds
    /\ up \in BOOLEAN /\ (world.legacy = 1 => up)
    /\ item = [k \in Collections |-> IF k = Login /\ world.machine # "flatpak" THEN world.legacy ELSE 0]
    /\ latest = item[Login] /\ written = latest
    /\ alias \in Collections
    /\ locked = {}
    /\ file = 0 /\ db = 0
    /\ marker = FALSE
    /\ backend = [p \in Procs |-> "off"]
    /\ fallback = [p \in Procs |-> FALSE]
    /\ migrating = "no" /\ pinned = alias
    /\ pc = [c \in Clients |-> "idle"]
    /\ got = [c \in Clients |-> "missing"]
    /\ at = [c \in Clients |-> Login] /\ left = [c \in Clients |-> {}]
    /\ putting = [c \in Clients |-> 0]
    /\ replaced = [c \in Clients |-> Register!Done]
    /\ seen = [c \in Clients |-> {}]
    /\ moved = [c \in Clients |-> FALSE] /\ blind = {}
    /\ answer = [c \in Clients |-> Register!NoAnswer]
    /\ troubles = 0

Trouble(kind) ==
    /\ kind \in world.troubles /\ troubles < world.many
    /\ troubles' = troubles + 1

-----------------------------------------------------------------------------
(* The Secret Service *)

\* The collections in which a search for the secret finds an item.
Finds == {k \in Collections : item[k] # 0 /\ (Hides => k \notin locked)}

ServicePut(v) == item' = [item EXCEPT ![alias] = v] /\ locked' = locked \ {alias}

-----------------------------------------------------------------------------
(* Processes *)

\* A process opens the service, or else the file, or has neither.
Start(p) ==
    /\ backend[p] = "off" /\ p \in world.procs
    /\ LET opened == IF up /\ world.machine # "flatpak" THEN "service" ELSE IF world.machine # "bare" THEN "file" ELSE "none"
       IN  /\ backend' = [backend EXCEPT ![p] = opened]
           /\ fallback' = [fallback EXCEPT ![p] = opened = "service" /\ world.machine = "plain"]
           /\ IF p = Daemon
              THEN migrating' = (IF opened # "none" /\ ~marker THEN "copy" ELSE "no") /\ pinned' = alias
              ELSE UNCHANGED <<migrating, pinned>>
    /\ UNCHANGED <<stores, service, world, marker, calls, written, history, troubles>>

\* Faulty: the secret is removed from the login collection where that is the default.
MovesOutAnyway == TRUE

\* The collection that was the default when the service was opened is not the
\* login one: what the migration asks for, once.
MovesOut == pinned # Login

\* The daemon moves the secret out of the login collection, once: into what is the
\* default by now.
Migrate ==
    /\ migrating = "copy"
    /\ \/ /\ \/ backend[Daemon] # "service" \/ ~MovesOut
             \/ up /\ Login \notin Finds
          /\ migrating' = "no" /\ marker' = TRUE
          /\ UNCHANGED <<stores, locked>>
       \/ /\ backend[Daemon] = "service" /\ MovesOut
          /\ up /\ Login \in Finds \ locked
          /\ ServicePut(item[Login])
          /\ file' = IF fallback[Daemon] THEN 0 ELSE file
          /\ migrating' = "remove"
          /\ UNCHANGED <<db, marker>>
    /\ UNCHANGED <<alias, up, world, backend, fallback, pinned, calls, written, history, troubles>>

\* The login collection cannot be read, or the default one not written: the
\* daemon goes on, and tries again the next time it starts.
MigrateFails ==
    /\ migrating = "copy" /\ backend[Daemon] = "service" /\ MovesOut
    /\ migrating' = "no"
    /\ \/ (~up \/ Login \in locked) /\ UNCHANGED troubles
       \/ Trouble("fail")
    /\ UNCHANGED <<stores, service, world, marker, backend, fallback, pinned, calls, written, history>>

\* Then it goes from the login collection; an error is ignored.
MigrateRemoves ==
    /\ migrating = "remove"
    /\ migrating' = "no" /\ marker' = TRUE
    /\ \/ up /\ Login \in Finds \ locked /\ item' = [item EXCEPT ![Login] = 0] /\ UNCHANGED troubles
       \/ ~(up /\ Login \in Finds \ locked) /\ UNCHANGED <<item, troubles>>
       \/ Trouble("keep") /\ UNCHANGED item
    /\ UNCHANGED <<file, db, service, world, backend, fallback, pinned, calls, written, history>>

\* A process ends, with whatever its goroutines were at.
End(p) ==
    /\ backend[p] # "off"
    /\ LET gone == {c \in Clients : ProcOf[c] = p}
       IN  /\ IF \A c \in gone : replaced[c] = Register!Done THEN Trouble("stop") ELSE Trouble("crash")
           /\ pc' = [c \in Clients |-> IF c \in gone THEN "idle" ELSE pc[c]]
           /\ got' = [c \in Clients |-> IF c \in gone THEN "missing" ELSE got[c]]
           /\ at' = [c \in Clients |-> IF c \in gone THEN Login ELSE at[c]]
           /\ left' = [c \in Clients |-> IF c \in gone THEN {} ELSE left[c]]
           /\ putting' = [c \in Clients |-> IF c \in gone THEN 0 ELSE putting[c]]
           /\ replaced' = [c \in Clients |-> IF c \in gone THEN Register!Done ELSE replaced[c]]
           /\ seen' = [c \in Clients |-> IF c \in gone THEN {} ELSE seen[c]]
           /\ moved' = [c \in Clients |-> c \notin gone /\ moved[c]]
           /\ blind' = blind \ gone
    /\ backend' = [backend EXCEPT ![p] = "off"]
    /\ fallback' = [fallback EXCEPT ![p] = FALSE]
    /\ migrating' = IF p = Daemon THEN "no" ELSE migrating
    /\ UNCHANGED <<stores, service, world, marker, pinned, written, latest, answer>>

Runs(c) == backend[ProcOf[c]] # "off" /\ ~(migrating # "no" /\ ProcOf[c] = Daemon)

\* Store.mu is free: it is held from a backend to the file.
Free(c) ==
    \A d \in Clients : ProcOf[d] = ProcOf[c] =>
        pc[d] \notin {"search", "absent", "get_file", "write_file", "drop_file"}

\* Faulty: a sandboxed process goes over to a service it may not speak to.
UpgradesAnywhere(p) == backend[p] = "file" /\ up

\* maybeUpgradeLocked would replace the file by the service.
Upgrades(p) == backend[p] = "file" /\ world.machine # "flatpak" /\ up

Upgrade(p) ==
    IF Upgrades(p)
    THEN backend' = [backend EXCEPT ![p] = "service"] /\ fallback' = [fallback EXCEPT ![p] = TRUE]
    ELSE UNCHANGED <<backend, fallback>>

-----------------------------------------------------------------------------
(* Get *)

Goto(c, label) == pc' = [pc EXCEPT ![c] = label]

BeginGet(c) ==
    /\ pc[c] = "idle" /\ Runs(c)
    /\ Goto(c, "get")
    /\ seen' = [seen EXCEPT ![c] = {latest} \cup Register!BeingReplaced]
    /\ moved' = [moved EXCEPT ![c] = Register!BeingReplaced # {}]
    /\ answer' = [answer EXCEPT ![c] = Register!NoAnswer]
    /\ UNCHANGED <<stores, service, world, marker, procs, got, search, putting, written, latest,
                   replaced, blind, troubles>>

Answer(c, outcome, v) ==
    /\ Goto(c, "idle")
    /\ answer' = [answer EXCEPT ![c] = [got |-> outcome, value |-> v, seen |-> seen[c]]]
    /\ got' = [got EXCEPT ![c] = "missing"]
    /\ seen' = [seen EXCEPT ![c] = {}]
    /\ moved' = [moved EXCEPT ![c] = FALSE]
    /\ blind' = blind \ {c}
    /\ UNCHANGED <<latest, replaced>>

\* What a backend says when it does not answer with the secret is kept for the
\* stores that are asked next.
AskNext(c, outcome, label) ==
    /\ Goto(c, label)
    /\ got' = [got EXCEPT ![c] = outcome]
    /\ UNCHANGED history

LookInto(c, k, rest) == at' = [at EXCEPT ![c] = k] /\ left' = [left EXCEPT ![c] = rest]

LookNoMore(c) == LookInto(c, Login, {})

\* secretService.Get takes the default collection first, and the others unless it
\* fails to list them.  An error of the file's outlasts what the service says.
AskService(c) ==
    /\ AskNext(c, IF backend[ProcOf[c]] = "file" /\ file = Broken THEN "error" ELSE "missing", "search")
    /\ \/ LookInto(c, alias, Collections \ {alias}) /\ UNCHANGED troubles
       \/ LookInto(c, alias, {}) /\ Trouble("fail")

\* Store.Get up to the service: the file's copy when the file is the backend; the
\* service otherwise, or when the file has none and the service has appeared.
GetBackend(c) ==
    LET p == ProcOf[c] IN
    /\ pc[c] = "get" /\ Free(c)
    /\ \/ /\ backend[p] = "none"
          /\ AskNext(c, "missing", "get_db")
          /\ UNCHANGED <<procs, search, troubles>>
       \/ /\ backend[p] = "file" /\ (file > 0 \/ ~Upgrades(p))
          /\ IF file = 0 THEN AskNext(c, "missing", "get_db")
             ELSE IF file = Broken THEN Answer(c, "error", 0) ELSE Answer(c, "value", file)
          /\ UNCHANGED <<procs, search, troubles>>
       \/ /\ backend[p] = "service" \/ (Upgrades(p) /\ file <= 0)
          /\ AskService(c)
          /\ Upgrade(p) /\ UNCHANGED <<migrating, pinned>>
    /\ UNCHANGED <<stores, service, world, marker, putting, written>>

\* SearchItems in one collection.  An item that is found locked asks for a password,
\* and the user dismisses the prompt, or has unlocked the collection before.
Search(c) ==
    LET k == at[c] IN
    /\ pc[c] = "search"
    /\ \/ /\ up /\ k \in Finds \ locked
          /\ Answer(c, "value", item[k])
          /\ LookNoMore(c) /\ UNCHANGED troubles
       \/ /\ \/ (~up \/ k \in Finds \cap locked) /\ UNCHANGED troubles
             \/ Trouble("fail")
          /\ AskNext(c, "error", "get_file")
          /\ LookNoMore(c)
       \/ /\ up /\ k \notin Finds
          /\ Goto(c, "absent")
          /\ blind' = IF k \in locked THEN blind \cup {c} ELSE blind
          /\ UNCHANGED <<got, search, latest, replaced, seen, moved, answer, troubles>>
    /\ UNCHANGED <<stores, service, world, marker, procs, putting, written>>

\* Faulty: only the last collection counts.
ReadLockedLast(c) ==
    /\ pc[c] = "absent"
    /\ \E says \in BOOLEAN :
         /\ \/ says = (up /\ at[c] \in locked) /\ UNCHANGED troubles
            \/ ~says /\ Trouble("fail")
         /\ got' = [got EXCEPT ![c] = IF @ = "error" THEN @ ELSE IF says THEN "locked" ELSE "missing"]
         /\ blind' = IF says THEN blind \ {c} ELSE blind
    /\ IF left[c] = {} THEN Goto(c, "get_file") /\ LookNoMore(c)
       ELSE Goto(c, "search") /\ \E k \in left[c] : LookInto(c, k, left[c] \ {k})
    /\ UNCHANGED <<stores, service, world, marker, procs, putting, written, latest, replaced, seen,
                   moved, answer>>

\* absentErr: the search was empty, and says nothing when the collection is locked.
\* That is asked after it; a collection whose lock cannot be read counts as open.
ReadLocked(c) ==
    /\ pc[c] = "absent"
    /\ \E says \in BOOLEAN :
         /\ \/ says = (up /\ at[c] \in locked) /\ UNCHANGED troubles
            \/ ~says /\ Trouble("fail")
         /\ got' = [got EXCEPT ![c] = IF says /\ @ # "error" THEN "locked" ELSE @]
         /\ blind' = IF says THEN blind \ {c} ELSE blind
    /\ IF left[c] = {} THEN Goto(c, "get_file") /\ LookNoMore(c)
       ELSE Goto(c, "search") /\ \E k \in left[c] : LookInto(c, k, left[c] \ {k})
    /\ UNCHANGED <<stores, service, world, marker, procs, putting, written, latest, replaced, seen,
                   moved, answer>>

\* The copy of the file that was kept for reading.
GetFile(c) ==
    /\ pc[c] = "get_file"
    /\ IF fallback[ProcOf[c]] /\ file > 0 THEN Answer(c, "value", file)
       ELSE IF got[c] = "error" THEN Answer(c, "error", 0)
       ELSE AskNext(c, got[c], "get_db")
    /\ UNCHANGED <<stores, service, world, marker, procs, search, putting, written, troubles>>

\* The database's copy, when the keyring has none or is locked.
GetDb(c) ==
    /\ pc[c] = "get_db"
    /\ IF db # 0 THEN Answer(c, "value", db) ELSE Answer(c, got[c], 0)
    /\ UNCHANGED <<stores, service, world, marker, procs, search, putting, written, troubles>>

-----------------------------------------------------------------------------
(* Set and Delete *)

\* The register takes a value: every read that is going on may give it.
Takes(v) ==
    /\ latest' = v
    /\ seen' = [c \in Clients |-> IF seen[c] = {} THEN {} ELSE seen[c] \cup {v}]

\* Set, up to the backend: the service as soon as it is there, else the file,
\* else the database.  A new value is stored; the file is truncated first.
Put(c) ==
    LET p == ProcOf[c]
        v == written + 1
    IN
    /\ pc[c] = "idle" /\ Runs(c) /\ Free(c) /\ v <= MaxValue
    /\ written' = v
    /\ Takes(v)
    /\ moved' = [d \in Clients |-> moved[d] \/ seen[d] # {}]
    /\ \/ /\ backend[p] = "none"
          /\ db' = v
          /\ UNCHANGED <<item, locked, file, backend, fallback, pc, putting, replaced, troubles>>
       \/ /\ backend[p] = "file" /\ ~Upgrades(p)
          /\ file' = Broken /\ putting' = [putting EXCEPT ![c] = v]
          /\ IF \E d \in Clients : pc[d] = "write_file" THEN Trouble("tear") ELSE UNCHANGED troubles
          /\ Goto(c, "write_file")
          /\ replaced' = [replaced EXCEPT ![c] = latest]
          /\ UNCHANGED <<item, locked, db, backend, fallback>>
       \/ /\ (backend[p] = "service" /\ up) \/ Upgrades(p)
          /\ ServicePut(v)
          /\ Upgrade(p)
          /\ Goto(c, "drop_file")
          /\ replaced' = [replaced EXCEPT ![c] = latest]
          /\ UNCHANGED <<file, db, putting, troubles>>
    /\ UNCHANGED <<alias, up, world, marker, migrating, pinned, got, search, blind, answer>>

\* The prompt is dismissed, or the file or database cannot be opened.
PutFails(c) ==
    /\ pc[c] = "idle" /\ Runs(c) /\ Free(c)
    /\ Trouble("fail")
    /\ Upgrade(ProcOf[c])
    /\ UNCHANGED <<stores, service, world, marker, migrating, pinned, calls, written, history>>

\* The file's new content: lost when the file was removed in the meantime, mixed up
\* when another process has written it.
WriteFile(c) ==
    /\ pc[c] = "write_file"
    /\ Goto(c, "drop_db")
    /\ putting' = [putting EXCEPT ![c] = 0]
    /\ file' \in IF file = 0 THEN {0} ELSE IF file = Broken THEN {putting[c]} ELSE {putting[c], Broken}
    /\ UNCHANGED <<item, db, service, world, marker, procs, got, search, written, history, troubles>>

\* The write ends short of it: what the file held is gone.
WriteFileFails(c) ==
    /\ pc[c] = "write_file"
    /\ Trouble("tear")
    /\ Goto(c, "idle")
    /\ putting' = [putting EXCEPT ![c] = 0]
    /\ file' = IF file = 0 THEN 0 ELSE Broken
    /\ replaced' = [replaced EXCEPT ![c] = Register!Done]
    /\ UNCHANGED <<item, db, service, world, marker, procs, got, search, written,
                   latest, seen, moved, blind, answer>>

\* Faulty: what the service now has is left in the file as well.
KeepFile(c) ==
    /\ pc[c] = "drop_file"
    /\ Goto(c, "drop_db")
    /\ UNCHANGED <<stores, service, world, marker, procs, got, search, putting, written, history, troubles>>

\* The copy that the new value replaces goes; an error is ignored.
DropFile(c) ==
    /\ pc[c] = "drop_file"
    /\ Goto(c, "drop_db")
    /\ \/ file' = (IF fallback[ProcOf[c]] THEN 0 ELSE file) /\ UNCHANGED troubles
       \/ fallback[ProcOf[c]] /\ Trouble("keep") /\ UNCHANGED file
    /\ UNCHANGED <<item, db, service, world, marker, procs, got, search, putting, written, history>>

DropDb(c) ==
    /\ pc[c] = "drop_db"
    /\ Goto(c, "idle")
    /\ \/ db' = 0 /\ UNCHANGED troubles
       \/ Trouble("keep") /\ UNCHANGED db
    /\ replaced' = [replaced EXCEPT ![c] = Register!Done]
    /\ UNCHANGED <<item, file, service, world, marker, procs, got, search, putting, written,
                   latest, seen, moved, blind, answer>>

\* Delete, from the database first, whatever comes of it.
Delete(c) ==
    /\ pc[c] = "idle" /\ Runs(c)
    /\ Trouble("delete")
    /\ db' \in {0, db}
    /\ Takes(0)
    /\ Goto(c, IF backend[ProcOf[c]] = "none" THEN "idle" ELSE "delete")
    /\ UNCHANGED <<item, file, service, world, marker, procs, got, search, putting, written,
                   replaced, moved, blind, answer>>

\* Then from the keyring: a locked collection keeps its item, and ends the
\* search with an error if it shows it.
DeleteKeyring(c) ==
    LET p == ProcOf[c] IN
    /\ pc[c] = "delete" /\ Free(c)
    /\ Goto(c, "idle")
    /\ Takes(0)
    /\ file' \in IF backend[p] = "file" \/ fallback[p] THEN {0, file} ELSE {file}
    /\ IF backend[p] = "service" /\ up
       THEN \E gone \in SUBSET (Finds \ locked) :
              /\ Finds \subseteq gone \/ Finds \cap locked # {}
              /\ item' = [k \in Collections |-> IF k \in gone THEN 0 ELSE item[k]]
       ELSE UNCHANGED item
    /\ UNCHANGED <<db, service, world, marker, procs, got, search, putting, written,
                   replaced, moved, blind, answer, troubles>>

-----------------------------------------------------------------------------
(* The environment *)

Appear ==
    /\ ~up /\ up' = TRUE
    /\ Trouble("appear")
    /\ UNCHANGED <<stores, alias, locked, world, marker, procs, calls, written, history>>

Vanish ==
    /\ up /\ up' = FALSE
    /\ Trouble("vanish")
    /\ UNCHANGED <<stores, alias, locked, world, marker, procs, calls, written, history>>

Lock ==
    /\ \E k \in Collections \ locked : locked' = locked \cup {k}
    /\ Trouble("lock")
    /\ UNCHANGED <<stores, alias, up, world, marker, procs, calls, written, history>>

Unlock ==
    /\ \E k \in locked : locked' = locked \ {k}
    /\ UNCHANGED <<stores, alias, up, world, marker, procs, calls, written, history, troubles>>

\* Another collection becomes the default, in the course of a migration or not.
\* (An alias that cannot be read counts as the login collection: two moves.)
Move ==
    /\ alias' \in Collections \ {alias}
    /\ Trouble(IF migrating = "no" THEN "move" ELSE "overtake")
    /\ UNCHANGED <<stores, locked, up, world, marker, procs, calls, written, history>>

Next ==
    \/ \E p \in Procs : Start(p) \/ End(p)
    \/ Migrate \/ MigrateFails \/ MigrateRemoves
    \/ \E c \in Clients :
         \/ BeginGet(c) \/ GetBackend(c) \/ Search(c) \/ ReadLocked(c) \/ GetFile(c) \/ GetDb(c)
         \/ Put(c) \/ PutFails(c) \/ WriteFile(c) \/ WriteFileFails(c) \/ DropFile(c) \/ DropDb(c)
         \/ Delete(c) \/ DeleteKeyring(c)
    \/ Appear \/ Vanish \/ Lock \/ Unlock \/ Move

Spec == Init /\ [][Next]_vars

-----------------------------------------------------------------------------
(* Properties *)

\* Nothing that takes a store away, or ends a write half way, can happen.
Calm == world.troubles \cap {"vanish", "move", "overtake", "crash", "tear", "keep"} = {}

\* Several stores, processes and the service that comes and goes behave as one
\* regular register, where the service stays once it is there, nobody moves the
\* default collection, no write is cut short and the copies a write replaces can be
\* removed: a token refresh that has ended is what every later Get gives, in this
\* process or another.  A Get may find nothing only beside a write, or when a
\* collection was locked as it was searched and did not say so afterwards.
RefinesRegister ==
    /\ Calm => Register!Init
    /\ [][Calm => Register!Next]_<<latest, replaced, seen, moved, blind, answer>>

\* A process that keeps its secrets in the service does not take a secret that
\* exists for absent, which would mark the account for a new sign-in: not while the
\* collection is locked, or another one is the default, or the service is away
\* (keyring.go, Get; secretservice.go, getAnywhereLocked; issues #99, #105).  But it
\* does when the collection was locked as it was searched, and is unlocked, or fails
\* to answer, when its lock is read after that (absentErr); and when a write has
\* left the file broken that had the secret.
NeverDenied ==
    [][\A c \in Clients :
         GetDb(c) /\ answer'[c].got = "missing"
           => \/ 0 \in seen[c] \/ moved[c] \/ backend[ProcOf[c]] # "service"
              \/ c \in blind
              \/ file = Broken]_vars

\* The last value that was written is in one of the stores, whatever failed or
\* ended half way and whichever store the writer had: a refreshed token is the
\* only one the provider still takes.  But not while a write to the file is under
\* way, or was cut short: that truncates the file first (filestore.go, Set).  Nor in
\* worlds where a migration is overtaken by a default collection that becomes the
\* login one: Migrate has then put the value where MigrateRemoves takes it away.
Kept == latest # 0 /\ file # Broken => latest \in {file, db} \cup {item[k] : k \in Collections}
=============================================================================
