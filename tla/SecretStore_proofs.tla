-------------------------- MODULE SecretStore_proofs --------------------------
(***************************************************************************)
(* Proofs about SecretStore: its type invariant, that the last value is    *)
(* kept, whatever fails or crashes, that a process with the service never  *)
(* takes it for absent, and that any processes implement one register in   *)
(* calm surroundings.                                                      *)
(***************************************************************************)
EXTENDS SecretStore, TLAPS

LEMMA AnswerType ==
  ASSUME NEW g \in {"none", "value", "missing", "locked", "error"}, NEW v \in 0 .. MaxValue,
         NEW S \in SUBSET (0 .. MaxValue)
  PROVE  [got |-> g, value |-> v, seen |-> S] \in Register!Answers
BY DEF Register!Answers

LEMMA NoAnswerType == Register!NoAnswer \in Register!Answers
BY AnswerType, ConstantsAssumption DEF Register!NoAnswer

LEMMA InitType == Init => TypeOK
<1> SUFFICES ASSUME Init PROVE TypeOK
  OBVIOUS
<1>1. 0 \in 0 .. MaxValue /\ 0 \in 0 .. MaxTroubles /\ world.legacy \in 0 .. MaxValue
  BY ConstantsAssumption DEF Init, World
<1>2. item \in [Collections -> 0 .. MaxValue] /\ latest \in 0 .. MaxValue
  BY <1>1, ConstantsAssumption DEF Init
<1>3. /\ backend \in [Procs -> Backends] /\ fallback \in [Procs -> BOOLEAN]
      /\ \A p \in Procs : ~fallback[p] /\ backend[p] # "service"
  BY DEF Init, Backends
<1>4. /\ replaced \in [Clients -> -1 .. MaxValue] /\ moved \in [Clients -> BOOLEAN]
      /\ seen \in [Clients -> SUBSET (0 .. MaxValue)] /\ blind \subseteq Clients
      /\ answer \in [Clients -> Register!Answers]
      /\ pc \in [Clients -> PCs] /\ got \in [Clients -> {"missing", "locked", "error"}]
      /\ at \in [Clients -> Collections] /\ left \in [Clients -> SUBSET Collections]
      /\ putting \in [Clients -> 0 .. MaxValue]
  BY <1>1, NoAnswerType, ConstantsAssumption DEF Init, Register!Done, PCs
<1>5. /\ {up, marker} \subseteq BOOLEAN /\ world \in Worlds
      /\ migrating \in {"no", "copy", "remove"} /\ pinned \in Collections
      /\ alias \in Collections /\ locked \subseteq Collections
      /\ file = 0 /\ db = 0 /\ troubles = 0 /\ written = latest
  BY DEF Init
<1>6. /\ file \in Broken .. MaxValue
      /\ written \in 0 .. MaxValue /\ latest \in 0 .. written
      /\ db \in 0 .. MaxValue /\ troubles \in 0 .. MaxTroubles
  BY <1>1, <1>2, <1>5, ConstantsAssumption DEF Broken
<1>7. \A p \in Procs : /\ fallback[p] => backend[p] = "service"
                       /\ backend[p] = "service" => world.machine # "flatpak"
  BY <1>3
<1> QED
  BY <1>2, <1>3, <1>4, <1>5, <1>6, <1>7 DEF TypeOK

LEMMA SeenType ==
  ASSUME TypeOK
  PROVE  {latest} \cup Register!BeingReplaced \subseteq 0 .. MaxValue
BY ConstantsAssumption DEF TypeOK, Register!BeingReplaced, Register!Done

LEMMA AskNextType ==
  ASSUME TypeOK, NEW c \in Clients, NEW outcome \in {"missing", "locked", "error"},
         NEW label \in PCs, AskNext(c, outcome, label)
  PROVE  /\ pc' \in [Clients -> PCs] /\ got' \in [Clients -> {"missing", "locked", "error"}]
         /\ UNCHANGED history
BY DEF AskNext, Goto, TypeOK

LEMMA AnswerStepType ==
  ASSUME TypeOK, NEW c \in Clients, NEW outcome \in {"value", "missing", "locked", "error"},
         NEW v \in 0 .. MaxValue, Answer(c, outcome, v)
  PROVE  /\ pc' \in [Clients -> PCs]
         /\ got' \in [Clients -> {"missing", "locked", "error"}]
         /\ seen' \in [Clients -> SUBSET (0 .. MaxValue)]
         /\ moved' \in [Clients -> BOOLEAN] /\ blind' \subseteq Clients
         /\ answer' \in [Clients -> Register!Answers]
         /\ UNCHANGED <<latest, replaced>>
<1>1. [got |-> outcome, value |-> v, seen |-> seen[c]] \in Register!Answers
  BY AnswerType DEF TypeOK
<1> QED
  BY <1>1 DEF Answer, Goto, TypeOK, PCs

LEMMA LookIntoType ==
  ASSUME TypeOK, NEW c \in Clients, NEW k \in Collections, NEW rest \in SUBSET Collections,
         LookInto(c, k, rest)
  PROVE  at' \in [Clients -> Collections] /\ left' \in [Clients -> SUBSET Collections]
BY DEF LookInto, TypeOK

LEMMA LookNoMoreType ==
  ASSUME TypeOK, NEW c \in Clients, LookNoMore(c)
  PROVE  at' \in [Clients -> Collections] /\ left' \in [Clients -> SUBSET Collections]
BY LookIntoType, ConstantsAssumption DEF LookNoMore

LEMMA TroubleType ==
  ASSUME TypeOK, NEW k, Trouble(k)  PROVE troubles' \in 0 .. MaxTroubles
<1>1. world.many \in 0 .. MaxTroubles
  BY ConstantsAssumption DEF TypeOK, World
<1> QED
  BY <1>1, ConstantsAssumption DEF TypeOK, Trouble

LEMMA UpgradeType ==
  ASSUME TypeOK, NEW p \in Procs, Upgrade(p)
  PROVE  /\ backend' \in [Procs -> Backends] /\ fallback' \in [Procs -> BOOLEAN]
         /\ world' = world =>
              \A q \in Procs :
                /\ fallback'[q] => backend'[q] = "service"
                /\ backend'[q] = "service" => world'.machine # "flatpak"
BY DEF TypeOK, Upgrade, Upgrades, Backends

LEMMA NextType == TypeOK /\ [Next]_vars => TypeOK'
<1> SUFFICES ASSUME TypeOK, [Next]_vars PROVE TypeOK'
  OBVIOUS
<1> USE ConstantsAssumption DEF Backends, PCs, Broken, stores, service, procs, search, calls, history
<1>0. ASSUME NEW k, Trouble(k) \/ UNCHANGED troubles PROVE troubles' \in 0 .. MaxTroubles
  BY <1>0, TroubleType DEF TypeOK
<1>1. ASSUME NEW p \in Procs, Start(p) PROVE TypeOK'
  BY <1>1 DEF Start, TypeOK
<1>2. ASSUME NEW p \in Procs, End(p) PROVE TypeOK'
  <2>1. troubles' \in 0 .. MaxTroubles
    BY <1>2, TroubleType DEF End
  <2>2. /\ pc' \in [Clients -> PCs] /\ replaced' \in [Clients -> -1 .. MaxValue]
        /\ got' \in [Clients -> {"missing", "locked", "error"}]
        /\ at' \in [Clients -> Collections] /\ left' \in [Clients -> SUBSET Collections]
    BY <1>2 DEF End, TypeOK, Register!Done
  <2>3. /\ putting' \in [Clients -> 0 .. MaxValue]
        /\ seen' \in [Clients -> SUBSET (0 .. MaxValue)] /\ moved' \in [Clients -> BOOLEAN]
        /\ blind' \subseteq Clients
    BY <1>2 DEF End, TypeOK, Register!Done
  <2>4. /\ backend' \in [Procs -> Backends] /\ fallback' \in [Procs -> BOOLEAN]
        /\ migrating' \in {"no", "copy", "remove"}
        /\ \A q \in Procs : fallback'[q] => backend'[q] = "service"
        /\ \A q \in Procs : backend'[q] = "service" => world'.machine # "flatpak"
    BY <1>2 DEF End, TypeOK
  <2> QED
    BY <1>2, <2>1, <2>2, <2>3, <2>4 DEF End, TypeOK
<1>3. CASE Migrate \/ MigrateRemoves
  <2>1. item' \in [Collections -> 0 .. MaxValue] /\ locked' \subseteq Collections
    BY <1>3 DEF Migrate, MigrateRemoves, ServicePut, TypeOK
  <2>2. /\ file' \in Broken .. MaxValue /\ db' \in 0 .. MaxValue
        /\ migrating' \in {"no", "copy", "remove"}
    BY <1>3 DEF Migrate, MigrateRemoves, TypeOK
  <2>3. {up', marker'} \subseteq BOOLEAN
    <3>1. up' = up /\ marker' \in {marker, TRUE}
      BY <1>3 DEF Migrate, MigrateRemoves
    <3> QED
      BY <3>1 DEF TypeOK
  <2>4. troubles' \in 0 .. MaxTroubles
    BY <1>0, <1>3 DEF Migrate, MigrateRemoves
  <2>5. UNCHANGED <<alias, up, world, backend, fallback, pinned, calls, written, history>>
    BY <1>3 DEF Migrate, MigrateRemoves
  <2>6. \A p \in Procs : /\ fallback'[p] => backend'[p] = "service"
                         /\ backend'[p] = "service" => world'.machine # "flatpak"
    BY <2>5 DEF TypeOK
  <2> HIDE DEF PCs, Backends, Broken
  <2> QED
    BY <2>1, <2>2, <2>3, <2>4, <2>5, <2>6 DEF TypeOK
<1>4. CASE MigrateFails
  <2>1. troubles' \in 0 .. MaxTroubles
    BY <1>4, TroubleType DEF MigrateFails, TypeOK
  <2> QED
    BY <1>4, <2>1 DEF MigrateFails, TypeOK
<1>5. ASSUME NEW c \in Clients, BeginGet(c) PROVE TypeOK'
  BY <1>5, NoAnswerType, SeenType DEF BeginGet, Goto, TypeOK
<1>6. ASSUME NEW c \in Clients, GetBackend(c) PROVE TypeOK'
  <2> DEFINE p == ProcOf[c]
  <2>0. p \in Procs
    OBVIOUS
  <2>1. CASE AskNext(c, "missing", "get_db") /\ UNCHANGED <<procs, search, troubles>>
    BY <1>6, <2>1, AskNextType DEF GetBackend, TypeOK
  <2>2. CASE Answer(c, "error", 0) /\ UNCHANGED <<procs, search, troubles>>
    <3> HIDE DEF PCs
    <3> QED
      BY <1>6, <2>2, AnswerStepType DEF GetBackend, TypeOK
  <2>3. CASE file > 0 /\ Answer(c, "value", file) /\ UNCHANGED <<procs, search, troubles>>
    <3>1. file \in 0 .. MaxValue
      BY <2>3 DEF TypeOK
    <3> HIDE DEF PCs
    <3> QED
      BY <1>6, <2>3, <3>1, AnswerStepType DEF GetBackend, TypeOK
  <2>4. CASE AskService(c) /\ Upgrade(p) /\ UNCHANGED <<migrating, pinned>>
    <3>1. alias \in Collections /\ troubles' \in 0 .. MaxTroubles
      BY <1>0, <2>4 DEF AskService, TypeOK
    <3>2. at' \in [Clients -> Collections] /\ left' \in [Clients -> SUBSET Collections]
      BY <2>4, <3>1, LookIntoType DEF AskService
    <3>3. /\ pc' \in [Clients -> PCs] /\ got' \in [Clients -> {"missing", "locked", "error"}]
          /\ UNCHANGED history
      BY <2>4, AskNextType DEF AskService
    <3> HIDE DEF PCs
    <3> QED
      BY <1>6, <2>0, <2>4, <3>1, <3>2, <3>3, UpgradeType DEF GetBackend, TypeOK
  <2> QED
    BY <1>6, <2>1, <2>2, <2>3, <2>4 DEF GetBackend, TypeOK
<1>7. ASSUME NEW c \in Clients, Search(c) PROVE TypeOK'
  <2>1. at[c] \in Collections /\ item[at[c]] \in 0 .. MaxValue /\ troubles' \in 0 .. MaxTroubles
    BY <1>0, <1>7 DEF Search, TypeOK
  <2>2. CASE Answer(c, "value", item[at[c]]) /\ LookNoMore(c)
    <3> HIDE DEF PCs
    <3> QED
      BY <1>7, <2>1, <2>2, AnswerStepType, LookNoMoreType DEF Search, TypeOK
  <2>3. CASE AskNext(c, "error", "get_file") /\ LookNoMore(c)
    BY <1>7, <2>1, <2>3, AskNextType, LookNoMoreType DEF Search, TypeOK
  <2>4. CASE /\ Goto(c, "absent") /\ blind' \in {blind, blind \cup {c}}
             /\ UNCHANGED <<got, search, latest, replaced, seen, moved, answer>>
    BY <1>7, <2>1, <2>4 DEF Search, Goto, TypeOK
  <2> QED
    BY <1>7, <2>2, <2>3, <2>4 DEF Search
<1>8. ASSUME NEW c \in Clients, ReadLocked(c) PROVE TypeOK'
  <2>1. troubles' \in 0 .. MaxTroubles
    BY <1>0, <1>8 DEF ReadLocked
  <2>2. got' \in [Clients -> {"missing", "locked", "error"}] /\ blind' \subseteq Clients
    BY <1>8 DEF ReadLocked, TypeOK
  <2>3. \/ Goto(c, "get_file") /\ LookNoMore(c)
        \/ Goto(c, "search") /\ \E k \in left[c] : LookInto(c, k, left[c] \ {k})
    BY <1>8 DEF ReadLocked
  <2>4. pc' \in [Clients -> PCs]
    BY <2>3 DEF Goto, TypeOK
  <2>5. left[c] \subseteq Collections
    BY DEF TypeOK
  <2>6. at' \in [Clients -> Collections] /\ left' \in [Clients -> SUBSET Collections]
    BY <2>3, <2>5, LookNoMoreType, LookIntoType
  <2> QED
    BY <1>8, <2>1, <2>2, <2>4, <2>6 DEF ReadLocked, TypeOK
<1>9. ASSUME NEW c \in Clients, GetFile(c) PROVE TypeOK'
  <2>1. got[c] \in {"missing", "locked", "error"} /\ (file > 0 => file \in 0 .. MaxValue)
    BY DEF TypeOK
  <2>2. CASE file > 0 /\ Answer(c, "value", file)
    <3> HIDE DEF PCs
    <3> QED
      BY <1>9, <2>1, <2>2, AnswerStepType DEF GetFile, TypeOK
  <2>3. CASE Answer(c, "error", 0)
    <3> HIDE DEF PCs
    <3> QED
      BY <1>9, <2>3, AnswerStepType DEF GetFile, TypeOK
  <2>4. CASE AskNext(c, got[c], "get_db")
    <3>1. /\ pc' \in [Clients -> PCs] /\ got' \in [Clients -> {"missing", "locked", "error"}]
          /\ UNCHANGED history
      BY <2>1, <2>4, AskNextType
    <3> QED
      BY <1>9, <3>1 DEF GetFile, TypeOK
  <2> QED
    BY <1>9, <2>2, <2>3, <2>4 DEF GetFile
<1>10. ASSUME NEW c \in Clients, GetDb(c) PROVE TypeOK'
  <2>1. db \in 0 .. MaxValue /\ got[c] \in {"missing", "locked", "error"}
    BY DEF TypeOK
  <2> HIDE DEF PCs
  <2> QED
    BY <1>10, <2>1, AnswerStepType DEF GetDb, TypeOK
<1>11. ASSUME NEW c \in Clients, Put(c) PROVE TypeOK'
  <2>1. written' \in 0 .. MaxValue /\ latest' \in 0 .. written'
    BY <1>11 DEF Put, Takes, TypeOK
  <2>2. seen' \in [Clients -> SUBSET (0 .. MaxValue)] /\ moved' \in [Clients -> BOOLEAN]
    BY <1>11 DEF Put, Takes, TypeOK
  <2>3. item' \in [Collections -> 0 .. MaxValue] /\ locked' \subseteq Collections
    BY <1>11 DEF Put, ServicePut, TypeOK
  <2>4. file' \in Broken .. MaxValue /\ db' \in 0 .. MaxValue /\ putting' \in [Clients -> 0 .. MaxValue]
    BY <1>11 DEF Put, TypeOK
  <2>5. replaced' \in [Clients -> -1 .. MaxValue] /\ pc' \in [Clients -> PCs]
    BY <1>11 DEF Put, Goto, TypeOK
  <2>6. /\ backend' \in [Procs -> Backends] /\ fallback' \in [Procs -> BOOLEAN]
        /\ \A q \in Procs : /\ fallback'[q] => backend'[q] = "service"
                            /\ backend'[q] = "service" => world'.machine # "flatpak"
    BY <1>11, UpgradeType DEF Put, TypeOK
  <2>7. troubles' \in 0 .. MaxTroubles
    BY <1>0, <1>11 DEF Put
  <2> QED
    BY <1>11, <2>1, <2>2, <2>3, <2>4, <2>5, <2>6, <2>7 DEF Put, TypeOK
<1>12. ASSUME NEW c \in Clients, PutFails(c) PROVE TypeOK'
  <2>1. troubles' \in 0 .. MaxTroubles
    BY <1>12, TroubleType DEF PutFails
  <2> QED
    BY <1>12, <2>1, UpgradeType DEF PutFails, TypeOK
<1>13. ASSUME NEW c \in Clients, WriteFile(c) \/ WriteFileFails(c) PROVE TypeOK'
  <2>1. troubles' \in 0 .. MaxTroubles
    BY <1>0, <1>13 DEF WriteFile, WriteFileFails
  <2>2. putting[c] \in 0 .. MaxValue /\ file' \in Broken .. MaxValue
    BY <1>13 DEF WriteFile, WriteFileFails, TypeOK
  <2>3. pc' \in [Clients -> PCs] /\ putting' \in [Clients -> 0 .. MaxValue]
        /\ replaced' \in [Clients -> -1 .. MaxValue]
    BY <1>13 DEF WriteFile, WriteFileFails, Goto, TypeOK, Register!Done
  <2> QED
    BY <1>13, <2>1, <2>2, <2>3 DEF WriteFile, WriteFileFails, TypeOK
<1>14. ASSUME NEW c \in Clients, DropFile(c) \/ DropDb(c) PROVE TypeOK'
  <2>1. troubles' \in 0 .. MaxTroubles
    BY <1>0, <1>14 DEF DropFile, DropDb
  <2>2. file' \in Broken .. MaxValue /\ db' \in 0 .. MaxValue
    BY <1>14 DEF DropFile, DropDb, TypeOK
  <2>3. pc' \in [Clients -> PCs] /\ replaced' \in [Clients -> -1 .. MaxValue]
    BY <1>14 DEF DropFile, DropDb, Goto, TypeOK, Register!Done
  <2> QED
    BY <1>14, <2>1, <2>2, <2>3 DEF DropFile, DropDb, TypeOK
<1>15. ASSUME NEW c \in Clients, Delete(c) PROVE TypeOK'
  <2>1. troubles' \in 0 .. MaxTroubles
    BY <1>15, TroubleType DEF Delete
  <2> QED
    BY <1>15, <2>1 DEF Delete, Takes, Goto, TypeOK
<1>16. ASSUME NEW c \in Clients, DeleteKeyring(c) PROVE TypeOK'
  <2>1. item' \in [Collections -> 0 .. MaxValue] /\ file' \in Broken .. MaxValue
    BY <1>16 DEF DeleteKeyring, TypeOK
  <2> QED
    BY <1>16, <2>1 DEF DeleteKeyring, Takes, Goto, TypeOK
<1>17. CASE Appear \/ Vanish \/ Lock \/ Unlock \/ Move
  <2>1. troubles' \in 0 .. MaxTroubles
    BY <1>17, TroubleType DEF Appear, Vanish, Lock, Unlock, Move, TypeOK
  <2> QED
    BY <1>17, <2>1 DEF Appear, Vanish, Lock, Unlock, Move, TypeOK
<1>18. CASE UNCHANGED vars
  BY <1>18 DEF vars, TypeOK
<1> QED
  BY <1>1, <1>2, <1>3, <1>4, <1>5, <1>6, <1>7, <1>8, <1>9, <1>10, <1>11, <1>12, <1>13,
     <1>14, <1>15, <1>16, <1>17, <1>18 DEF Next

\* The type invariant, with what a process may be: only one that has the service
\* reads the file beside it, and a sandboxed one never has the service.
THEOREM TypeCorrect == Spec => []TypeOK
BY InitType, NextType, PTL DEF Spec
-----------------------------------------------------------------------------
(* The last value is kept *)

\* The process is alone; or a service that is there stays, where it is not there is
\* a file, and the file is written by one process at a time.
Alone(w) == \A p, q \in w.procs : p = q
StaysUp(w) == w.troubles \cap {"vanish", "tear"} = {} /\ w.machine # "bare"

\* The default collection stays where it is and nothing is to be migrated; or the
\* daemon, alone, is done with that before it writes and before the default changes.
Settled(w) == w.troubles \cap {"move", "overtake"} = {} /\ w.legacy = 0
MigratesFirst(w) ==
    w.procs \subseteq {Daemon} /\ w.troubles \cap {"vanish", "lock", "fail", "overtake"} = {}

SafeWorlds ==
    \A w \in Worlds : (Alone(w) \/ StaysUp(w)) /\ (Settled(w) \/ MigratesFirst(w))

InService == {item[k] : k \in Collections}

\* Whoever is at a call runs, and whoever migrates has been started.
RunsInv ==
    /\ \A p \in Procs : backend[p] # "off" => p \in world.procs
    /\ \A c \in Clients : pc[c] # "idle" => Runs(c)
    /\ migrating # "no" => backend[Daemon] # "off"

\* The file is written by one at a time, and what he writes is the last value, unless
\* the service has got it meanwhile.
WriterInv ==
    /\ \A c, d \in Clients : pc[c] = "write_file" /\ pc[d] = "write_file" => c = d
    /\ \A c \in Clients : pc[c] = "write_file" =>
         /\ backend[ProcOf[c]] = "file"
         /\ latest # 0 => latest \in InService \/ (file = Broken /\ putting[c] = latest)

\* The copies that are dropped after a write are not the last: the service has it
\* before the file goes, and the service or the file before the database does.
DropsInv ==
    \A c \in Clients :
      /\ pc[c] \in {"drop_file", "drop_db"} => backend[ProcOf[c]] \in {"file", "service"}
      /\ pc[c] = "drop_file" /\ latest # 0 => latest \in InService
      /\ pc[c] = "drop_db" /\ latest # 0 => latest \in InService \cup {file} \/ file = Broken

\* Nobody writes the file while another's write to the service goes on: he goes
\* over to the service first.
StaysUpInv ==
    StaysUp(world) =>
      /\ \A p \in Procs : backend[p] # "none" /\ (backend[p] = "service" => up)
      /\ \A c \in Clients : pc[c] = "drop_file" => up /\ world.machine # "flatpak"

\* Only the default collection has the secret; or what the login collection has is
\* the last value until it is migrated, and before that the daemon does not serve.
MigrationInv ==
    /\ Settled(world) => /\ pinned = alias /\ migrating # "remove"
                         /\ \A k \in Collections \ {alias} : item[k] = 0
    /\ MigratesFirst(world) =>
         /\ locked = {} /\ (backend[Daemon] = "service" => up)
         /\ migrating # "no" => ~marker /\ pinned = alias
         /\ migrating = "remove" => alias # Login /\ latest \in {0, item[alias]}
         /\ ~marker =>
              /\ backend[Daemon] \in {"file", "service"} => migrating # "no"
              /\ item[Login] # 0 => up /\ latest = item[Login] /\ backend[Daemon] # "none"

KeepInv == RunsInv /\ WriterInv /\ DropsInv /\ StaysUpInv /\ MigrationInv

KInv == TypeOK /\ Kept /\ KeepInv

LEMMA InThisWorld ==
  ASSUME SafeWorlds, TypeOK
  PROVE  /\ Alone(world) \/ StaysUp(world)
         /\ Settled(world) \/ MigratesFirst(world)
         /\ world \in World
BY ConstantsAssumption DEF SafeWorlds, TypeOK

LEMMA InitKept == Init => KInv
<1> SUFFICES ASSUME Init PROVE KInv
  OBVIOUS
<1> USE ConstantsAssumption DEF Init
<1>1. Kept
  BY DEF Kept
<1>2. RunsInv /\ WriterInv /\ DropsInv /\ StaysUpInv
  BY DEF RunsInv, WriterInv, DropsInv, StaysUpInv, Runs
<1>3. MigrationInv
  BY DEF MigrationInv, Settled, MigratesFirst, World
<1> QED
  BY <1>1, <1>2, <1>3, InitType DEF KInv, KeepInv

\* Going over to the service.
LEMMA UpgradeStep ==
  ASSUME TypeOK, UNCHANGED <<backend, fallback>> \/ \E p \in Procs : Upgrade(p)
  PROVE  \A p \in Procs :
           /\ backend'[p] = backend[p] \/ (backend[p] = "file" /\ backend'[p] = "service" /\ up)
           /\ backend'[p] = "off" <=> backend[p] = "off"
           /\ backend'[p] = "none" <=> backend[p] = "none"
           /\ backend'[p] \in {"file", "service"} <=> backend[p] \in {"file", "service"}
BY DEF TypeOK, Upgrade, Upgrades, Backends

\* Nobody writes the file for a process that goes over to the service.
LEMMA WriterStays ==
  ASSUME TypeOK, NEW c \in Clients, Free(c),
         UNCHANGED <<backend, fallback>> \/ Upgrade(ProcOf[c])
  PROVE  \A d \in Clients : pc[d] = "write_file" => backend'[ProcOf[d]] = backend[ProcOf[d]]
BY ConstantsAssumption DEF Free, Upgrade, TypeOK

\* A step that stores nothing, removes nothing and begins no writing or dropping.
LEMMA QuietStep ==
  ASSUME KInv,
         UNCHANGED <<stores, alias, up, world, marker, migrating, pinned, putting, latest>>,
         locked' \subseteq locked,
         \/ UNCHANGED <<backend, fallback>>
         \/ \E c \in Clients : Free(c) /\ Upgrade(ProcOf[c]),
         \A c \in Clients : /\ pc'[c] # "idle" => pc[c] # "idle" \/ Runs(c)
                            /\ pc'[c] \in {"write_file", "drop_file", "drop_db"} => pc'[c] = pc[c]
  PROVE  Kept' /\ KeepInv'
<1> USE DEF KInv, KeepInv, stores
<1>1. \A p \in Procs :
        /\ backend'[p] = backend[p] \/ (backend[p] = "file" /\ backend'[p] = "service" /\ up)
        /\ backend'[p] = "off" <=> backend[p] = "off"
        /\ backend'[p] = "none" <=> backend[p] = "none"
        /\ backend'[p] \in {"file", "service"} <=> backend[p] \in {"file", "service"}
  BY UpgradeStep, ConstantsAssumption
<1>2. Kept'
  BY DEF Kept
<1>3. RunsInv'
  BY <1>1, ConstantsAssumption DEF RunsInv, Runs
<1>4. WriterInv'
  <2>1. \A d \in Clients : pc[d] = "write_file" => backend'[ProcOf[d]] = backend[ProcOf[d]]
    BY WriterStays
  <2> QED
    BY <2>1 DEF WriterInv, InService
<1>5. DropsInv'
  BY <1>1, ConstantsAssumption DEF DropsInv, InService
<1>6. StaysUpInv'
  BY <1>1 DEF StaysUpInv
<1>7. MigrationInv'
  BY <1>1, ConstantsAssumption DEF MigrationInv
<1> QED
  BY <1>2, <1>3, <1>4, <1>5, <1>6, <1>7

LEMMA StartKeeps ==
  ASSUME SafeWorlds, KInv, NEW p \in Procs, Start(p)  PROVE Kept' /\ KeepInv'
<1> USE DEF KInv, KeepInv, stores, service, calls, history
<1>1. /\ UNCHANGED <<item, file, db, alias, locked, up, world, marker, pc, putting, latest>>
      /\ p \in world.procs /\ backend[p] = "off"
      /\ \A q \in Procs \ {p} : backend'[q] = backend[q]
      /\ p # Daemon => UNCHANGED <<migrating, pinned>>
  BY DEF Start, TypeOK
<1>2. /\ backend'[p] \in {"service", "file", "none"}
      /\ backend'[p] = "service" => up
      /\ backend'[p] = "none" => world.machine = "bare" /\ ~up
      /\ p = Daemon =>
           pinned' = alias /\ migrating' = IF backend'[p] # "none" /\ ~marker THEN "copy" ELSE "no"
  BY ConstantsAssumption DEF Start, TypeOK
<1>3. \A c \in Clients : pc[c] # "idle" => ProcOf[c] # p
  BY <1>1 DEF RunsInv, Runs
<1>4. Kept'
  BY <1>1 DEF Kept
<1>5. RunsInv'
  BY <1>1, <1>2, <1>3, ConstantsAssumption DEF RunsInv, Runs
<1>6. DropsInv' /\ WriterInv'
  BY <1>1, <1>3, ConstantsAssumption DEF DropsInv, WriterInv, InService
<1>7. StaysUpInv'
  BY <1>1, <1>2 DEF StaysUpInv, StaysUp
<1>8. MigrationInv'
  BY <1>1, <1>2, ConstantsAssumption DEF MigrationInv, MigratesFirst
<1> QED
  BY <1>4, <1>5, <1>6, <1>7, <1>8

LEMMA EndKeeps ==
  ASSUME KInv, NEW p \in Procs, End(p)  PROVE Kept' /\ KeepInv'
<1> USE DEF KInv, KeepInv, stores, service
<1>1. /\ UNCHANGED <<item, file, db, alias, locked, up, world, marker, pinned, latest>>
      /\ \A q \in Procs : backend'[q] = IF q = p THEN "off" ELSE backend[q]
      /\ migrating' = IF p = Daemon THEN "no" ELSE migrating
      /\ \A c \in Clients : /\ pc'[c] = IF ProcOf[c] = p THEN "idle" ELSE pc[c]
                            /\ ProcOf[c] # p => putting'[c] = putting[c]
  BY DEF End, TypeOK
<1>2. Kept'
  BY <1>1 DEF Kept
<1>3. RunsInv'
  BY <1>1, ConstantsAssumption DEF RunsInv, Runs
<1>4. DropsInv' /\ WriterInv'
  BY <1>1, ConstantsAssumption DEF DropsInv, WriterInv, InService
<1>5. StaysUpInv'
  BY <1>1, ConstantsAssumption DEF StaysUpInv
<1>6. MigrationInv'
  BY <1>1, ConstantsAssumption DEF MigrationInv
<1> QED
  BY <1>2, <1>3, <1>4, <1>5, <1>6

\* Only what is the last value is ever moved out of the login collection.
LEMMA MigrateKeeps ==
  ASSUME SafeWorlds, KInv, Migrate  PROVE Kept' /\ KeepInv'
<1> USE ConstantsAssumption DEF KInv, KeepInv, stores, calls, history
<1>1. /\ migrating = "copy"
      /\ UNCHANGED <<alias, up, world, backend, pinned, pc, putting, latest, db>>
      /\ \A c \in Clients : pc[c] # "idle" => ProcOf[c] # Daemon
  BY DEF Migrate, RunsInv, Runs
<1>2. CASE UNCHANGED <<stores, locked>> /\ migrating' = "no" /\ marker' = TRUE
  <2>1. Kept' /\ RunsInv' /\ StaysUpInv'
    BY <1>1, <1>2 DEF Kept, RunsInv, Runs, StaysUpInv
  <2>2. DropsInv' /\ WriterInv'
    BY <1>1, <1>2 DEF DropsInv, WriterInv, InService
  <2>3. MigrationInv'
    BY <1>1, <1>2 DEF MigrationInv
  <2> QED
    BY <2>1, <2>2, <2>3
<1>3. CASE /\ MovesOut /\ Login \in Finds /\ backend[Daemon] = "service" /\ up
           /\ ServicePut(item[Login]) /\ migrating' = "remove" /\ UNCHANGED marker
  <2>1. alias \in Collections /\ Login \in Collections /\ item[Login] # 0
    BY <1>3 DEF Finds, TypeOK
  <2>2. MigratesFirst(world) /\ ~Settled(world)
    BY <1>3, <2>1, InThisWorld DEF MigrationInv, MovesOut
  <2>3. ~marker /\ alias # Login /\ latest = item[Login] /\ locked = {}
    BY <1>1, <1>3, <2>1, <2>2 DEF MigrationInv, MovesOut
  <2>4. item'[alias] = latest /\ item'[Login] = item[Login] /\ locked' = {}
    BY <1>3, <2>1, <2>3 DEF ServicePut, TypeOK
  <2>5. \A c \in Clients : pc[c] = "idle"
    BY <1>1, <2>2 DEF RunsInv, Runs, MigratesFirst
  <2>6. Kept'
    BY <1>1, <2>1, <2>4 DEF Kept
  <2>7. RunsInv' /\ WriterInv' /\ DropsInv' /\ StaysUpInv'
    BY <1>1, <1>3, <2>5 DEF RunsInv, WriterInv, DropsInv, StaysUpInv
  <2>8. MigrationInv'
    BY <1>1, <1>3, <2>2, <2>3, <2>4 DEF MigrationInv
  <2> QED
    BY <2>6, <2>7, <2>8
<1> QED
  BY <1>2, <1>3 DEF Migrate

\* What goes from the login collection is in the default one by then.
LEMMA MigrateRemovesKeeps ==
  ASSUME SafeWorlds, KInv, MigrateRemoves  PROVE Kept' /\ KeepInv'
<1> USE ConstantsAssumption DEF KInv, KeepInv, service, calls, history
<1>1. /\ migrating = "remove" /\ migrating' = "no" /\ marker' = TRUE
      /\ UNCHANGED <<alias, locked, up, world, backend, pinned, pc, putting, latest, file, db>>
      /\ item' = item \/ item' = [item EXCEPT ![Login] = 0]
  BY DEF MigrateRemoves
<1>2. MigratesFirst(world) /\ ~Settled(world)
  BY <1>1, InThisWorld DEF MigrationInv
<1>3. /\ alias # Login /\ latest \in {0, item[alias]} /\ alias \in Collections
      /\ item'[alias] = item[alias]
  BY <1>1, <1>2 DEF MigrationInv, TypeOK
<1>4. \A c \in Clients : pc[c] = "idle"
  BY <1>1, <1>2 DEF RunsInv, Runs, MigratesFirst
<1>5. Kept'
  BY <1>1, <1>3 DEF Kept
<1>6. RunsInv' /\ WriterInv' /\ DropsInv' /\ StaysUpInv'
  BY <1>1, <1>4 DEF RunsInv, WriterInv, DropsInv, StaysUpInv
<1>7. MigrationInv'
  BY <1>1, <1>2 DEF MigrationInv
<1> QED
  BY <1>5, <1>6, <1>7

LEMMA MigrateFailsKeeps ==
  ASSUME SafeWorlds, KInv, MigrateFails  PROVE Kept' /\ KeepInv'
<1> USE ConstantsAssumption DEF KInv, KeepInv, stores, service, calls, history
<1>1. /\ migrating = "copy" /\ migrating' = "no" /\ backend[Daemon] = "service"
      /\ UNCHANGED <<item, file, db, alias, locked, up, marker, world, backend, pinned, pc, putting,
                     latest>>
      /\ ~up \/ Login \in locked \/ "fail" \in world.troubles
  BY DEF MigrateFails, Trouble
<1>2. Settled(world) /\ ~MigratesFirst(world)
  BY <1>1, InThisWorld DEF MigrationInv, MigratesFirst
<1>3. Kept' /\ RunsInv' /\ StaysUpInv'
  BY <1>1 DEF Kept, RunsInv, Runs, StaysUpInv
<1>4. DropsInv' /\ WriterInv'
  BY <1>1 DEF DropsInv, WriterInv, InService
<1>5. MigrationInv'
  BY <1>1, <1>2 DEF MigrationInv
<1> QED
  BY <1>3, <1>4, <1>5

LEMMA EnvironmentKeeps ==
  ASSUME SafeWorlds, KInv, Appear \/ Vanish \/ Lock \/ Move  PROVE Kept' /\ KeepInv'
<1> USE DEF KInv, KeepInv, stores, procs, calls, history
<1>1. UNCHANGED <<item, file, db, world, marker, backend, migrating, pinned, pc, putting, latest>>
  BY DEF Appear, Vanish, Lock, Move
<1>2. /\ up' = up \/ up' \/ "vanish" \in world.troubles
      /\ locked' = locked \/ "lock" \in world.troubles
      /\ \/ alias' = alias
         \/ migrating = "no" /\ "move" \in world.troubles
         \/ migrating # "no" /\ "overtake" \in world.troubles
  BY DEF Appear, Vanish, Lock, Move, Trouble, TypeOK
<1>3. Kept' /\ RunsInv'
  BY <1>1 DEF Kept, RunsInv, Runs
<1>4. DropsInv' /\ WriterInv'
  BY <1>1 DEF DropsInv, WriterInv, InService
<1>5. StaysUpInv'
  BY <1>1, <1>2 DEF StaysUpInv, StaysUp
<1>6. MigrationInv'
  <2>1. Settled(world) => alias' = alias
    BY <1>2 DEF Settled
  <2>2. MigratesFirst(world) =>
          locked' = locked /\ (up => up') /\ (alias' = alias \/ migrating = "no")
    BY <1>2 DEF MigratesFirst
  <2> QED
    BY <1>1, <2>1, <2>2 DEF MigrationInv
<1> QED
  BY <1>3, <1>4, <1>5, <1>6

\* Before the daemon is done with the login collection it has no backend when it
\* serves, and that collection is empty.
LEMMA ServesUnmigrated ==
  ASSUME KInv, NEW c \in Clients, Runs(c), MigratesFirst(world)
  PROVE  migrating = "no" /\ (~marker => item[Login] = 0 /\ backend[Daemon] = "none")
<1>1. ProcOf[c] = Daemon
  BY ConstantsAssumption DEF KInv, KeepInv, RunsInv, Runs, MigratesFirst
<1>2. backend[Daemon] # "off" /\ migrating = "no"
  BY <1>1 DEF Runs
<1> QED
  BY <1>2, ConstantsAssumption DEF KInv, KeepInv, TypeOK, MigrationInv, Backends

LEMMA PutKeeps ==
  ASSUME SafeWorlds, KInv, NEW c \in Clients, Put(c)  PROVE Kept' /\ KeepInv'
<1> USE DEF KInv, KeepInv
<1> DEFINE p == ProcOf[c]
<1>0. p \in Procs /\ alias \in Collections
  BY ConstantsAssumption DEF TypeOK
<1>1. /\ pc[c] = "idle" /\ Runs(c) /\ Free(c) /\ latest' = written + 1 /\ latest' # 0
      /\ UNCHANGED <<alias, up, world, marker, migrating, pinned>>
      /\ locked' \subseteq locked
  BY DEF Put, Takes, TypeOK, ServicePut
<1>2. \/ /\ backend[p] = "none" /\ db' = latest' /\ UNCHANGED <<item, pc>>
      \/ /\ backend[p] = "file" /\ ~Upgrades(p) /\ UNCHANGED <<item, backend>>
         /\ file' = Broken /\ putting' = [putting EXCEPT ![c] = latest']
         /\ pc' = [pc EXCEPT ![c] = "write_file"]
         /\ (\E d \in Clients : pc[d] = "write_file") => "tear" \in world.troubles
      \/ /\ backend[p] = "service" \/ Upgrades(p)
         /\ up /\ world.machine # "flatpak" /\ item' = [item EXCEPT ![alias] = latest']
         /\ pc' = [pc EXCEPT ![c] = "drop_file"]
  BY <1>0, <1>1 DEF Put, Goto, ServicePut, Upgrades, TypeOK, Trouble
<1>3. UNCHANGED <<backend, fallback>> \/ Upgrade(p)
  BY DEF Put
<1>4. \A q \in Procs :
        /\ backend'[q] = backend[q] \/ (backend[q] = "file" /\ backend'[q] = "service" /\ up)
        /\ backend'[q] = "off" <=> backend[q] = "off"
        /\ backend'[q] = "none" <=> backend[q] = "none"
        /\ backend'[q] \in {"file", "service"} <=> backend[q] \in {"file", "service"}
  BY <1>0, <1>3, UpgradeStep
<1>5. \A d \in Clients : pc'[d] = IF d = c THEN pc'[c] ELSE pc[d]
  BY <1>2 DEF TypeOK
<1>6. ASSUME Alone(world), NEW d \in Clients, pc[d] # "idle"  PROVE ProcOf[d] = p
  BY <1>0, <1>1, <1>6, ConstantsAssumption DEF RunsInv, Runs, Alone
<1>7. backend[p] # "service" /\ ~Upgrades(p) => \A d \in Clients : pc[d] # "drop_file"
  <2> SUFFICES ASSUME backend[p] # "service", ~Upgrades(p), NEW d \in Clients, pc[d] = "drop_file"
               PROVE  FALSE
    OBVIOUS
  <2>1. backend[p] \in {"none", "file"}
    BY <1>0, <1>1 DEF Runs, TypeOK, Backends
  <2>2. CASE Alone(world)
    BY <1>1, <1>6, <2>2 DEF Free
  <2>3. CASE StaysUp(world)
    BY <1>0, <2>1, <2>3 DEF StaysUpInv, Upgrades
  <2> QED
    BY <2>2, <2>3, InThisWorld
<1>8. backend[p] = "none" => \A d \in Clients : pc[d] \notin {"drop_db", "write_file"}
  <2> SUFFICES ASSUME backend[p] = "none", NEW d \in Clients, pc[d] \in {"drop_db", "write_file"}
               PROVE  FALSE
    OBVIOUS
  <2>1. Alone(world)
    BY <1>0, InThisWorld DEF StaysUpInv
  <2>2. ProcOf[d] = p
    BY <1>6, <2>1
  <2> QED
    BY <2>2 DEF DropsInv, WriterInv
<1>9. pc'[c] = "write_file" => \A d \in Clients : pc[d] # "write_file"
  <2> SUFFICES ASSUME pc'[c] = "write_file", NEW d \in Clients, pc[d] = "write_file"  PROVE FALSE
    OBVIOUS
  <2>1. "tear" \in world.troubles
    BY <1>1, <1>2 DEF TypeOK
  <2>2. Alone(world)
    BY <2>1, InThisWorld DEF StaysUp
  <2> QED
    BY <1>1, <1>6, <2>2 DEF Free
<1>10. Kept'
  BY <1>0, <1>2 DEF Kept, TypeOK
<1>11. RunsInv'
  BY <1>1, <1>4, <1>5, ConstantsAssumption DEF RunsInv, Runs
<1>12. WriterInv'
  <2>1. \A d, e \in Clients : pc'[d] = "write_file" /\ pc'[e] = "write_file" => d = e
    BY <1>5, <1>9 DEF WriterInv
  <2>2. CASE backend[p] = "none" /\ UNCHANGED <<item, pc>>
    BY <1>8, <2>2 DEF WriterInv
  <2>3. CASE /\ backend[p] = "file" /\ UNCHANGED <<item, backend>>
             /\ file' = Broken /\ putting' = [putting EXCEPT ![c] = latest']
             /\ pc' = [pc EXCEPT ![c] = "write_file"]
    <3>1. pc'[c] = "write_file" /\ putting'[c] = latest'
      BY <2>3 DEF TypeOK
    <3>2. \A d \in Clients : pc'[d] = "write_file" => d = c
      BY <2>1, <3>1
    <3> QED
      BY <2>3, <3>1, <3>2 DEF WriterInv
  <2>4. CASE /\ item' = [item EXCEPT ![alias] = latest']
             /\ pc' = [pc EXCEPT ![c] = "drop_file"]
    <3>1. latest' \in InService'
      BY <1>0, <2>4 DEF InService, TypeOK
    <3>2. \A d \in Clients : pc'[d] = "write_file" => pc[d] = "write_file"
      BY <1>5, <2>4 DEF TypeOK
    <3>3. \A d \in Clients : pc[d] = "write_file" => backend'[ProcOf[d]] = backend[ProcOf[d]]
      BY <1>1, <1>3, WriterStays
    <3> QED
      BY <2>1, <3>1, <3>2, <3>3 DEF WriterInv
  <2> QED
    BY <1>2, <2>2, <2>3, <2>4
<1>13. DropsInv'
  <2>1. CASE backend[p] = "none" /\ UNCHANGED <<item, pc>>
    BY <1>7, <1>8, <2>1 DEF DropsInv, Upgrades
  <2>2. CASE backend[p] = "file" /\ ~Upgrades(p) /\ file' = Broken /\ pc' = [pc EXCEPT ![c] = "write_file"]
    <3>1. \A d \in Clients : pc'[d] # "drop_file" /\ (pc'[d] = "drop_db" => pc[d] = "drop_db")
      BY <1>5, <1>7, <2>2 DEF TypeOK
    <3>2. \A d \in Clients : pc'[d] = "drop_db" => backend'[ProcOf[d]] \in {"file", "service"}
      BY <1>4, <3>1, ConstantsAssumption DEF DropsInv
    <3> QED
      BY <2>2, <3>1, <3>2 DEF DropsInv
  <2>3. CASE /\ backend[p] = "service" \/ Upgrades(p)
             /\ item' = [item EXCEPT ![alias] = latest'] /\ pc' = [pc EXCEPT ![c] = "drop_file"]
    <3>1. latest' \in InService'
      BY <1>0, <2>3 DEF InService, TypeOK
    <3> QED
      BY <1>0, <1>4, <1>5, <2>3, <3>1, ConstantsAssumption DEF DropsInv, Upgrades
  <2> QED
    BY <1>2, <2>1, <2>2, <2>3
<1>14. StaysUpInv'
  BY <1>1, <1>2, <1>4, <1>5 DEF StaysUpInv, TypeOK
<1>15. MigrationInv'
  <2>1. Settled(world) => \A k \in Collections \ {alias} : item'[k] = 0
    BY <1>0, <1>2, ConstantsAssumption DEF MigrationInv, TypeOK
  <2>2. MigratesFirst(world) => locked' = {} /\ (backend'[Daemon] = "service" => up)
    BY <1>1, <1>4, ConstantsAssumption DEF MigrationInv
  <2>3. MigratesFirst(world) =>
          migrating = "no" /\ (~marker => item'[Login] = 0 /\ backend'[Daemon] = "none")
    <3>1. MigratesFirst(world) => p = Daemon
      BY <1>0, <1>1 DEF RunsInv, Runs, MigratesFirst
    <3> QED
      BY <1>1, <1>2, <1>4, <3>1, ServesUnmigrated, ConstantsAssumption DEF Upgrades
  <2> QED
    BY <1>1, <2>1, <2>2, <2>3 DEF MigrationInv
<1> QED
  BY <1>10, <1>11, <1>12, <1>13, <1>14, <1>15

\* The file's new content: the last value, unless the service has it.
LEMMA WriteFileKeeps ==
  ASSUME KInv, NEW c \in Clients, WriteFile(c) \/ WriteFileFails(c)  PROVE Kept' /\ KeepInv'
<1> USE DEF KInv, KeepInv, service, procs
<1>1. /\ UNCHANGED <<item, db, alias, locked, up, world, marker, backend, migrating, pinned, latest>>
      /\ pc[c] = "write_file"
      /\ pc' = [pc EXCEPT ![c] = "drop_db"] \/ pc' = [pc EXCEPT ![c] = "idle"]
      /\ file' \in IF file = Broken THEN {putting[c], Broken} ELSE {file, putting[c], Broken}
      /\ file = Broken /\ pc' = [pc EXCEPT ![c] = "drop_db"] => file' = putting[c]
  <2>1. CASE WriteFile(c)
    BY <2>1 DEF WriteFile, Goto, history, Broken
  <2>2. CASE WriteFileFails(c)
    BY <2>2 DEF WriteFileFails, Goto, history, Broken, TypeOK
  <2> QED
    BY <2>1, <2>2
<1>2. latest # 0 => latest \in InService \/ (file = Broken /\ putting[c] = latest)
  BY <1>1 DEF WriterInv
<1>3. pc'[c] \in {"drop_db", "idle"} /\ \A d \in Clients \ {c} : pc'[d] = pc[d] /\ pc[d] # "write_file"
  BY <1>1 DEF TypeOK, WriterInv
<1>4. latest # 0 => latest \in InService \/ file' \in {latest, Broken}
  BY <1>1, <1>2
<1>5. Kept'
  BY <1>1, <1>2, <1>4 DEF Kept, InService
<1>6. RunsInv'
  BY <1>1, <1>3 DEF RunsInv, Runs
<1>7. WriterInv'
  BY <1>3 DEF WriterInv
<1>8. DropsInv'
  <2>1. backend[ProcOf[c]] = "file"
    BY <1>1 DEF WriterInv
  <2>2. InService' = InService
    BY <1>1 DEF InService
  <2>3. ASSUME NEW d \in Clients
        PROVE  /\ pc'[d] \in {"drop_file", "drop_db"} => backend'[ProcOf[d]] \in {"file", "service"}
               /\ pc'[d] = "drop_file" /\ latest' # 0 => latest' \in InService'
               /\ pc'[d] = "drop_db" /\ latest' # 0 => latest' \in InService' \cup {file'} \/ file' = Broken
    BY <1>1, <1>3, <1>4, <2>1, <2>2 DEF DropsInv
  <2> QED
    BY <2>3 DEF DropsInv
<1>9. StaysUpInv'
  BY <1>1, <1>3 DEF StaysUpInv
<1>10. MigrationInv'
  BY <1>1 DEF MigrationInv
<1> QED
  BY <1>5, <1>6, <1>7, <1>8, <1>9, <1>10

LEMMA DropKeeps ==
  ASSUME KInv, NEW c \in Clients, DropFile(c) \/ DropDb(c)  PROVE Kept' /\ KeepInv'
<1> USE DEF KInv, KeepInv, service, procs
<1>1. /\ UNCHANGED <<item, alias, locked, up, world, marker, backend, migrating, pinned, putting, latest>>
      /\ \/ /\ pc[c] = "drop_file" /\ file' \in {0, file} /\ UNCHANGED db
            /\ pc' = [pc EXCEPT ![c] = "drop_db"]
         \/ /\ pc[c] = "drop_db" /\ UNCHANGED file
            /\ pc' = [pc EXCEPT ![c] = "idle"]
  BY DEF DropFile, DropDb, Goto, history
<1>2. /\ pc[c] = "drop_file" => latest \in InService \cup {0}
      /\ pc[c] = "drop_db" => latest \in InService \cup {file, 0} \/ file = Broken
  BY DEF DropsInv
<1>3. \A d \in Clients : pc'[d] = IF d = c THEN pc'[c] ELSE pc[d]
  BY <1>1 DEF TypeOK
<1>4. Kept'
  BY <1>1, <1>2 DEF Kept, InService
<1>5. RunsInv'
  BY <1>1, <1>3 DEF RunsInv, Runs, TypeOK
<1>6. DropsInv'
  BY <1>1, <1>2, <1>3 DEF DropsInv, InService, TypeOK
<1>7. WriterInv'
  <2>1. \A d \in Clients : pc'[d] = "write_file" => pc[d] = "write_file"
    BY <1>1, <1>3 DEF TypeOK
  <2> QED
    BY <1>1, <1>2, <2>1 DEF WriterInv, InService
<1>8. StaysUpInv'
  BY <1>1, <1>3 DEF StaysUpInv, TypeOK
<1>9. MigrationInv'
  BY <1>1 DEF MigrationInv
<1> QED
  BY <1>4, <1>5, <1>6, <1>7, <1>8, <1>9

LEMMA DeleteKeeps ==
  ASSUME KInv, NEW c \in Clients, Delete(c) \/ DeleteKeyring(c)  PROVE Kept' /\ KeepInv'
<1> USE DEF KInv, KeepInv, service, procs
<1>1. /\ Runs(c) /\ latest' = 0
      /\ UNCHANGED <<alias, locked, up, world, marker, backend, migrating, pinned>>
      /\ pc' = [pc EXCEPT ![c] = "idle"] \/ pc' = [pc EXCEPT ![c] = "delete"]
  BY DEF Delete, DeleteKeyring, Takes, Goto, RunsInv
<1>2. \A k \in Collections : item'[k] \in {0, item[k]}
  BY DEF Delete, DeleteKeyring, TypeOK
<1>3. \A d \in Clients : pc'[d] = pc[d] \/ (d = c /\ pc'[d] \in {"idle", "delete"})
  BY <1>1 DEF TypeOK
<1>4. Kept' /\ DropsInv' /\ WriterInv'
  BY <1>1, <1>3, ConstantsAssumption DEF Kept, DropsInv, WriterInv
<1>5. RunsInv'
  BY <1>1, <1>3 DEF RunsInv, Runs
<1>6. StaysUpInv'
  BY <1>1, <1>3 DEF StaysUpInv
<1>7. MigrationInv'
  BY <1>1, <1>2, ServesUnmigrated, ConstantsAssumption DEF MigrationInv
<1> QED
  BY <1>4, <1>5, <1>6, <1>7

LEMMA NextKept == SafeWorlds /\ KInv /\ [Next]_vars => KInv'
<1> SUFFICES ASSUME SafeWorlds, KInv, [Next]_vars PROVE Kept' /\ KeepInv'
  BY NextType DEF KInv
<1> USE DEF stores, service, procs, search, calls, history
<1>0. TypeOK
  BY DEF KInv
<1>1. ASSUME NEW c \in Clients, BeginGet(c) \/ GetBackend(c) \/ PutFails(c)
      PROVE  Kept' /\ KeepInv'
  <2>1. UNCHANGED <<stores, alias, locked, up, world, marker, migrating, pinned, putting, latest>>
    BY <1>1 DEF BeginGet, GetBackend, PutFails, Answer, AskNext, AskService
  <2>2. UNCHANGED <<backend, fallback>> \/ \E d \in Clients : Free(d) /\ Upgrade(ProcOf[d])
    BY <1>1 DEF BeginGet, GetBackend, PutFails
  <2>3. \A d \in Clients : \/ pc'[d] = pc[d]
                           \/ /\ d = c /\ pc'[d] \notin {"write_file", "drop_file", "drop_db"}
                              /\ pc[d] # "idle" \/ Runs(d)
    BY <1>0, <1>1 DEF BeginGet, GetBackend, PutFails, Answer, AskNext, AskService, Goto, TypeOK
  <2> QED
    BY <2>1, <2>2, <2>3, QuietStep
<1>2. ASSUME NEW c \in Clients, Search(c) \/ ReadLocked(c) \/ GetFile(c) \/ GetDb(c)
      PROVE  Kept' /\ KeepInv'
  <2>1. UNCHANGED <<stores, alias, locked, up, world, marker, procs, putting, latest>>
    BY <1>2 DEF Search, ReadLocked, GetFile, GetDb, Answer, AskNext
  <2>2. pc[c] # "idle" /\ \E l \in {"idle", "search", "absent", "get_file", "get_db"} : Goto(c, l)
    BY <1>2 DEF Search, ReadLocked, GetFile, GetDb, Answer, AskNext
  <2>3. \A d \in Clients : \/ pc'[d] = pc[d]
                           \/ /\ d = c /\ pc[d] # "idle"
                              /\ pc'[d] \notin {"write_file", "drop_file", "drop_db"}
    BY <1>0, <2>2 DEF Goto, TypeOK
  <2> QED
    BY <2>1, <2>3, QuietStep
<1>3. CASE Unlock
  BY <1>3, QuietStep DEF Unlock
<1>4. CASE UNCHANGED vars
  BY <1>4, QuietStep DEF vars
<1> QED
  BY <1>1, <1>2, <1>3, <1>4, StartKeeps, EndKeeps, MigrateKeeps, MigrateRemovesKeeps,
     MigrateFailsKeeps, EnvironmentKeeps, PutKeeps, WriteFileKeeps, DropKeeps, DeleteKeeps DEF Next

\* The last value that was written stays in one of the stores, although the service
\* comes, goes and locks, writes and removals fail, and a process crashes between
\* the write of one copy and the removal of another: for one process wherever it
\* runs, for several where a service that is there stays, and for a daemon that has
\* a first value to migrate, whose default collection may change, though not in the
\* course of it.  All but a file that a write has truncated: then nothing is promised.
THEOREM KeptHolds ==
  ASSUME SafeWorlds  PROVE Spec => []Kept
<1>1. Init => KInv
  BY InitKept
<1>2. KInv /\ [Next]_vars => KInv'
  BY NextKept
<1>3. KInv => Kept
  BY DEF KInv
<1> QED
  BY <1>1, <1>2, <1>3, PTL DEF Spec

-----------------------------------------------------------------------------
(* No secret that exists is taken for absent *)

\* Where the service may vanish, and so a process with the file may find that it
\* has items, one process has one client: of two, one may go over to the service
\* after it told the other that the file has nothing.
OneClientEach ==
    \A w \in Worlds : "vanish" \in w.troubles =>
        \A c, d \in Clients : ProcOf[c] = ProcOf[d] /\ ProcOf[c] \in w.procs => c = d

\* Whoever reads may be given the last value, and knows of the writes that go on.
ReadsInv ==
    \A c \in Clients :
      /\ pc[c] \in {"get", "search", "absent", "get_file", "get_db"} <=> seen[c] # {}
      /\ seen[c] # {} => latest \in seen[c]
      /\ pc[c] \in {"write_file", "drop_file", "drop_db"} => replaced[c] # Register!Done
      /\ seen[c] # {} /\ (\E d \in Clients : replaced[d] # Register!Done) => moved[c]

\* Who has the service on a plain machine reads the file too, a bare one has none;
\* and a service nobody can have used, has nothing.
ServiceInv ==
    /\ \A p \in Procs : backend[p] = "service" /\ world.machine = "plain" => fallback[p]
    /\ world.machine = "bare" => file = 0 /\ \A p \in Procs : backend[p] # "file"
    /\ world.machine = "flatpak" \/ ("vanish" \notin world.troubles /\ ~up) =>
         \A k \in Collections : item[k] = 0

\* c reads a secret that exists while nobody writes it, and saw what it looked into.
Undisturbed(c) == 0 \notin seen[c] /\ ~moved[c] /\ c \notin blind /\ file # Broken

\* The collections that c has yet to look into.
Ahead(c) == left[c] \cup (IF pc[c] = "search" THEN {at[c]} ELSE {})

\* What does not have it, when c is on its way to the next store with a "missing".
Misses(c) ==
    got[c] = "missing" /\ Undisturbed(c) =>
      /\ pc[c] \in {"search", "absent", "get_file"} =>
           backend[ProcOf[c]] = "service" /\ \A k \in Collections \ Ahead(c) : item[k] = 0
      /\ pc[c] = "get_file" => left[c] = {}
      /\ pc[c] = "get_db" =>
           \/ latest = db
           \/ backend[ProcOf[c]] = "none"
           \/ backend[ProcOf[c]] = "file" /\ "vanish" \in world.troubles

MissingInv == \A c \in Clients : Misses(c)

LEMMA InitDenied == Init => ReadsInv /\ ServiceInv /\ MissingInv
<1> SUFFICES ASSUME Init PROVE ReadsInv /\ ServiceInv /\ MissingInv
  OBVIOUS
<1> USE DEF Init
<1>1. ReadsInv /\ MissingInv
  BY DEF ReadsInv, MissingInv, Misses
<1>2. ServiceInv
  BY ConstantsAssumption DEF ServiceInv, World
<1> QED
  BY <1>1, <1>2

LEMMA TakesSeen ==
  ASSUME TypeOK, NEW v, Takes(v)
  PROVE  /\ latest' = v
         /\ \A d \in Clients : seen'[d] = IF seen[d] = {} THEN {} ELSE seen[d] \cup {v}
BY DEF Takes, TypeOK

LEMMA ReadsKept == TypeOK /\ ReadsInv /\ [Next]_vars => ReadsInv'
<1> SUFFICES ASSUME TypeOK, ReadsInv, [Next]_vars PROVE ReadsInv'
  OBVIOUS
<1> USE DEF ReadsInv
<1>1. ASSUME UNCHANGED <<pc, latest, replaced, seen, moved>> PROVE ReadsInv'
  BY <1>1
<1>2. ASSUME NEW p \in Procs, End(p) PROVE ReadsInv'
  BY <1>2 DEF End, TypeOK
<1>3. ASSUME NEW c \in Clients, BeginGet(c) PROVE ReadsInv'
  <2>1. /\ \A d \in Clients :
             IF d = c THEN /\ pc'[d] = "get" /\ latest \in seen'[d]
                           /\ moved'[d] = (Register!BeingReplaced # {})
             ELSE pc'[d] = pc[d] /\ seen'[d] = seen[d] /\ moved'[d] = moved[d]
        /\ UNCHANGED <<latest, replaced>>
    BY <1>3 DEF BeginGet, Goto, TypeOK
  <2>2. (\E d \in Clients : replaced[d] # Register!Done) => Register!BeingReplaced # {}
    BY DEF Register!BeingReplaced
  <2> QED
    BY <2>1, <2>2
<1>4. ASSUME NEW c \in Clients,
             GetBackend(c) \/ Search(c) \/ ReadLocked(c) \/ GetFile(c) \/ GetDb(c)
      PROVE  ReadsInv'
  <2>1. /\ UNCHANGED <<latest, replaced>> /\ seen[c] # {}
        /\ \/ /\ pc' = [pc EXCEPT ![c] = "idle"] /\ seen' = [seen EXCEPT ![c] = {}]
              /\ moved' = [moved EXCEPT ![c] = FALSE]
           \/ \E l \in {"search", "absent", "get_file", "get_db"} :
                pc' = [pc EXCEPT ![c] = l] /\ UNCHANGED <<seen, moved>>
    BY <1>4 DEF GetBackend, Search, ReadLocked, GetFile, GetDb, Answer, AskNext, AskService, Goto,
                history
  <2> QED
    BY <2>1 DEF TypeOK
<1>5. ASSUME NEW c \in Clients, Put(c) PROVE ReadsInv'
  <2>1. /\ pc[c] = "idle" /\ seen[c] = {} /\ Takes(written + 1)
        /\ moved' = [d \in Clients |-> moved[d] \/ seen[d] # {}]
        /\ \/ UNCHANGED <<pc, replaced>>
           \/ /\ \E l \in {"write_file", "drop_file"} : pc' = [pc EXCEPT ![c] = l]
              /\ replaced' = [replaced EXCEPT ![c] = latest]
    BY <1>5 DEF Put, Goto
  <2>2. /\ latest' = written + 1
        /\ \A d \in Clients : seen'[d] = IF seen[d] = {} THEN {} ELSE seen[d] \cup {written + 1}
    BY <2>1, TakesSeen
  <2>3. latest # Register!Done
    BY ConstantsAssumption DEF TypeOK, Register!Done
  <2>4. \A d \in Clients : \/ pc'[d] = pc[d] /\ replaced'[d] = replaced[d]
                           \/ /\ d = c /\ pc'[d] \in {"write_file", "drop_file"}
                              /\ replaced'[d] = latest
    BY <2>1 DEF TypeOK
  <2> QED
    BY <2>1, <2>2, <2>3, <2>4
<1>6. ASSUME NEW c \in Clients, WriteFile(c) \/ WriteFileFails(c) \/ DropFile(c) \/ DropDb(c)
      PROVE  ReadsInv'
  <2>1. /\ UNCHANGED <<latest, seen, moved>> /\ pc[c] \in {"write_file", "drop_file", "drop_db"}
        /\ \/ /\ pc' = [pc EXCEPT ![c] = "drop_db"]
              /\ replaced' = replaced
           \/ /\ pc' = [pc EXCEPT ![c] = "idle"]
              /\ replaced' = [replaced EXCEPT ![c] = Register!Done]
    BY <1>6 DEF WriteFile, WriteFileFails, DropFile, DropDb, Goto, history
  <2> QED
    BY <2>1 DEF TypeOK
<1>7. ASSUME NEW c \in Clients, Delete(c) \/ DeleteKeyring(c) PROVE ReadsInv'
  <2>1. /\ pc[c] \in {"idle", "delete"} /\ Takes(0) /\ UNCHANGED <<replaced, moved>>
        /\ \E l \in {"idle", "delete"} : pc' = [pc EXCEPT ![c] = l]
    BY <1>7 DEF Delete, DeleteKeyring, Goto
  <2>2. /\ latest' = 0
        /\ \A d \in Clients : seen'[d] = IF seen[d] = {} THEN {} ELSE seen[d] \cup {0}
    BY <2>1, TakesSeen
  <2> QED
    BY <2>1, <2>2 DEF TypeOK
<1> QED
  BY <1>1, <1>2, <1>3, <1>4, <1>5, <1>6, <1>7
     DEF Next, vars, Start, Migrate, MigrateRemoves, MigrateFails, PutFails, Appear, Vanish, Lock,
         Unlock, Move, calls, history

LEMMA ServiceKept == TypeOK /\ ServiceInv /\ [Next]_vars => ServiceInv'
<1> SUFFICES ASSUME TypeOK, ServiceInv, [Next]_vars PROVE ServiceInv'
  OBVIOUS
<1> USE DEF ServiceInv, stores, service, procs
<1>1. ASSUME UNCHANGED <<item, file, up, world>>,
             UNCHANGED <<backend, fallback>> \/ \E p \in Procs : Upgrade(p)
      PROVE  ServiceInv'
  BY <1>1 DEF Upgrade, Upgrades, TypeOK
<1>2. ASSUME NEW p \in Procs, Start(p) PROVE ServiceInv'
  <2>1. /\ UNCHANGED <<item, file, up, world>>
        /\ \A q \in Procs \ {p} : backend'[q] = backend[q] /\ fallback'[q] = fallback[q]
    BY <1>2 DEF Start, TypeOK
  <2>2. /\ backend'[p] = "file" => world.machine # "bare"
        /\ backend'[p] = "service" /\ world.machine = "plain" => fallback'[p]
    BY <1>2 DEF Start, TypeOK
  <2> QED
    BY <2>1, <2>2
<1>3. ASSUME NEW p \in Procs, End(p) PROVE ServiceInv'
  BY <1>3 DEF End, TypeOK
<1>4. CASE Migrate \/ MigrateRemoves
  <2>1. UNCHANGED <<up, world, backend, fallback>> /\ file' \in {0, file}
    BY <1>4 DEF Migrate, MigrateRemoves
  <2>2. item' = item \/ (up /\ world.machine # "flatpak") \/ \A k \in Collections : item'[k] \in {0, item[k]}
    BY <1>4, ConstantsAssumption DEF Migrate, MigrateRemoves, TypeOK
  <2> QED
    BY <2>1, <2>2
<1>5. ASSUME NEW c \in Clients, Put(c) PROVE ServiceInv'
  <2>0. ProcOf[c] \in Procs
    BY ConstantsAssumption
  <2>1. /\ UNCHANGED <<up, world>>
        /\ UNCHANGED <<backend, fallback>> \/ Upgrade(ProcOf[c])
        /\ file' = file \/ backend[ProcOf[c]] = "file"
        /\ item' = item \/ (up /\ world.machine # "flatpak")
    BY <1>5, <2>0 DEF Put, Upgrades, TypeOK
  <2>2. \A q \in Procs :
          \/ backend'[q] = backend[q] /\ fallback'[q] = fallback[q]
          \/ backend[q] = "file" /\ backend'[q] = "service" /\ fallback'[q]
    BY <2>0, <2>1 DEF Upgrade, Upgrades, TypeOK
  <2> QED
    BY <2>0, <2>1, <2>2
<1>6. ASSUME NEW c \in Clients, DropFile(c) \/ DropDb(c) \/ Delete(c) \/ DeleteKeyring(c)
      PROVE  ServiceInv'
  <2>1. UNCHANGED <<up, world, backend, fallback>> /\ file' \in {0, file}
    BY <1>6 DEF DropFile, DropDb, Delete, DeleteKeyring
  <2>2. \A k \in Collections : item'[k] \in {0, item[k]}
    BY <1>6 DEF DropFile, DropDb, Delete, DeleteKeyring, TypeOK
  <2> QED
    BY <2>1, <2>2
<1>7. ASSUME NEW c \in Clients, WriteFile(c) \/ WriteFileFails(c) PROVE ServiceInv'
  <2>1. UNCHANGED <<item, up, world, backend, fallback>> /\ (file = 0 => file' = 0)
    BY <1>7 DEF WriteFile, WriteFileFails
  <2> QED
    BY <2>1
<1>8. CASE Appear \/ Vanish \/ Lock \/ Unlock \/ Move
  BY <1>8 DEF Appear, Vanish, Lock, Unlock, Move, Trouble
<1>9. ASSUME NEW c \in Clients,
             \/ BeginGet(c) \/ GetBackend(c) \/ Search(c) \/ ReadLocked(c) \/ GetFile(c)
             \/ GetDb(c) \/ PutFails(c)
      PROVE  ServiceInv'
  BY <1>1, <1>9, ConstantsAssumption
     DEF BeginGet, GetBackend, Search, ReadLocked, GetFile, GetDb, PutFails
<1>10. CASE MigrateFails \/ UNCHANGED vars
  BY <1>1, <1>10 DEF MigrateFails, vars
<1> QED
  BY <1>2, <1>3, <1>4, <1>5, <1>6, <1>7, <1>8, <1>9, <1>10 DEF Next

\* A read that is not on its way to a next store, is disturbed, or goes on as it was
\* in a process that at most goes over to the service.
Unmoved(e) ==
    \/ pc'[e] \notin {"search", "absent", "get_file", "get_db"} \/ ~Undisturbed(e)'
    \/ /\ pc'[e] = pc[e] /\ got'[e] = got[e] /\ at'[e] = at[e] /\ left'[e] = left[e]
       /\ seen'[e] = seen[e] /\ moved'[e] = moved[e] /\ (e \in blind => e \in blind')
       /\ latest' = latest /\ file' = file /\ db' = db
       /\ \A k \in Collections : item[k] = 0 => item'[k] = 0
       /\ \/ backend'[ProcOf[e]] = backend[ProcOf[e]]
          \/ backend[ProcOf[e]] = "file" /\ "vanish" \notin world.troubles

LEMMA UnmovedMisses ==
  ASSUME MissingInv, UNCHANGED world, NEW e \in Clients, Unmoved(e)  PROVE Misses(e)'
BY DEF MissingInv, Misses, Unmoved, Undisturbed, Ahead

LEMMA UnmovedKeeps ==
  ASSUME MissingInv, UNCHANGED world, \A e \in Clients : Unmoved(e)  PROVE MissingInv'
BY UnmovedMisses DEF MissingInv

\* Of the other clients of a process that goes over to the service, none is told
\* that the file has nothing where the service may vanish.
LEMMA UpgradeUnmoved ==
  ASSUME OneClientEach, TypeOK, RunsInv, NEW c \in Clients, Runs(c),
         UNCHANGED <<backend, fallback>> \/ Upgrade(ProcOf[c]), NEW e \in Clients, e # c
  PROVE  \/ backend'[ProcOf[e]] = backend[ProcOf[e]]
         \/ backend[ProcOf[e]] = "file" /\ "vanish" \notin world.troubles
<1>1. CASE ProcOf[e] = ProcOf[c] /\ Upgrades(ProcOf[c])
  BY <1>1, ConstantsAssumption DEF OneClientEach, TypeOK, RunsInv, Runs, Upgrades
<1>2. CASE ProcOf[e] # ProcOf[c] \/ ~Upgrades(ProcOf[c])
  BY <1>2, ConstantsAssumption DEF Upgrade, TypeOK
<1> QED
  BY <1>1, <1>2

LEMMA AbsentInv ==
  ASSUME TypeOK, Kept, ReadsInv, NEW c \in Clients, seen[c] # {}, Undisturbed(c),
         \A k \in Collections : item[k] = 0
  PROVE  latest \in {file, db}
BY DEF Kept, ReadsInv, Undisturbed

LEMMA GetBackendMissing ==
  ASSUME SafeWorlds, OneClientEach, KInv, ReadsInv, ServiceInv, MissingInv, NEW c \in Clients,
         GetBackend(c)
  PROVE  MissingInv'
<1> USE DEF stores, service, procs, search, history
<1> DEFINE p == ProcOf[c]
<1>0. TypeOK /\ Kept /\ RunsInv /\ p \in Procs /\ Runs(c) /\ seen[c] # {} /\ pc[c] = "get"
  BY ConstantsAssumption DEF KInv, KeepInv, RunsInv, ReadsInv, GetBackend
<1>1. /\ UNCHANGED <<item, file, db, up, world, alias, latest, replaced>>
      /\ UNCHANGED <<backend, fallback>> \/ Upgrade(p)
      /\ \A e \in Clients : e # c =>
           /\ pc'[e] = pc[e] /\ got'[e] = got[e] /\ at'[e] = at[e] /\ left'[e] = left[e]
           /\ seen'[e] = seen[e] /\ moved'[e] = moved[e] /\ (e \in blind => e \in blind')
  BY <1>0 DEF GetBackend, AskService, Answer, AskNext, LookInto, Goto, TypeOK
<1>2. ASSUME NEW e \in Clients, e # c PROVE Unmoved(e)
  BY <1>0, <1>1, <1>2, UpgradeUnmoved DEF Unmoved
<1>3. /\ pc'[c] \in {"idle", "search", "get_db"}
      /\ pc'[c] # "idle" => UNCHANGED <<seen, moved, blind>>
      /\ pc'[c] = "get_db" => /\ backend' = backend
                              /\ \/ backend[p] = "none"
                                 \/ backend[p] = "file" /\ file = 0 /\ ~Upgrades(p)
      /\ pc'[c] = "search" => /\ AskService(c) /\ Upgrade(p)
                              /\ backend[p] = "service" \/ Upgrades(p)
  BY <1>0 DEF GetBackend, AskService, Answer, AskNext, Goto, TypeOK
<1>4. ASSUME pc'[c] = "get_db", Undisturbed(c)'
      PROVE  \/ latest = db \/ backend[p] = "none"
             \/ backend[p] = "file" /\ "vanish" \in world.troubles
  <2>1. CASE backend[p] = "file" /\ file = 0 /\ ~Upgrades(p) /\ "vanish" \notin world.troubles
    <3>1. \A k \in Collections : item[k] = 0
      BY <1>0, <2>1 DEF Upgrades, ServiceInv
    <3>2. Undisturbed(c)
      BY <1>1, <1>3, <1>4 DEF Undisturbed
    <3>3. latest # 0
      BY <1>0, <3>2 DEF Undisturbed, ReadsInv
    <3> QED
      BY <1>0, <2>1, <3>1, <3>2, <3>3, AbsentInv
  <2> QED
    BY <1>3, <1>4, <2>1
<1>5. ASSUME pc'[c] = "search"
      PROVE  backend'[p] = "service" /\ \A k \in Collections \ Ahead(c)' : item'[k] = 0
  <2>1. backend'[p] = "service"
    BY <1>0, <1>3, <1>5 DEF Upgrade, TypeOK
  <2>2. at'[c] = alias /\ (left'[c] = Collections \ {alias} \/ "fail" \in world.troubles)
    BY <1>0, <1>3, <1>5 DEF AskService, LookInto, Trouble, TypeOK
  <2>3. "fail" \in world.troubles => \A k \in Collections \ {alias} : item[k] = 0
    <3>1. "fail" \in world.troubles => Settled(world)
      BY <1>0, InThisWorld DEF MigratesFirst
    <3> QED
      BY <3>1 DEF KInv, KeepInv, MigrationInv
  <2> QED
    BY <1>1, <1>5, <2>1, <2>2, <2>3 DEF Ahead
<1>6. /\ pc'[c] \notin {"absent", "get_file"}
      /\ pc'[c] = "get_db" => latest' = latest /\ db' = db /\ world' = world /\ backend' = backend
  BY <1>1, <1>3
<1>7. ASSUME NEW e \in Clients, e # c PROVE Misses(e)'
  BY <1>1, <1>2, <1>7, UnmovedMisses
<1> QED
  BY <1>4, <1>5, <1>6, <1>7 DEF MissingInv, Misses

LEMMA SearchMissing ==
  ASSUME KInv, ReadsInv, MissingInv, NEW c \in Clients, Search(c) \/ ReadLocked(c)
  PROVE  MissingInv'
<1> USE DEF stores, service, procs, history
<1>0. TypeOK
  BY DEF KInv
<1>1. /\ UNCHANGED <<item, file, db, world, backend, latest>>
      /\ \A e \in Clients : e # c =>
           /\ pc'[e] = pc[e] /\ got'[e] = got[e] /\ at'[e] = at[e] /\ left'[e] = left[e]
           /\ seen'[e] = seen[e] /\ moved'[e] = moved[e] /\ (e \in blind => e \in blind')
  BY <1>0 DEF Search, ReadLocked, LookInto, LookNoMore, Answer, AskNext, Goto, TypeOK, search
<1>2. ASSUME NEW e \in Clients, e # c PROVE Unmoved(e)
  BY <1>1, <1>2 DEF Unmoved
<1>3. ASSUME Search(c), pc'[c] \in {"search", "absent", "get_file", "get_db"},
             got'[c] = "missing", Undisturbed(c)'
      PROVE  /\ pc'[c] = "absent" /\ backend'[ProcOf[c]] = "service"
             /\ \A k \in Collections \ Ahead(c)' : item'[k] = 0
  <2>1. /\ pc[c] = "search" /\ pc'[c] = "absent" /\ at[c] \notin Finds /\ at[c] \in Collections
        /\ blind' = IF at[c] \in locked THEN blind \cup {c} ELSE blind
        /\ UNCHANGED <<got, search, seen, moved>>
    BY <1>0, <1>3 DEF Search, Answer, AskNext, Goto, TypeOK
  <2>2. c \notin blind /\ at[c] \notin locked
    BY <2>1, <1>3 DEF Undisturbed
  <2>3. item[at[c]] = 0
    BY <2>1, <2>2 DEF Finds
  <2>4. Undisturbed(c)
    BY <1>1, <1>3, <2>1, <2>2 DEF Undisturbed
  <2>5. backend[ProcOf[c]] = "service" /\ \A k \in Collections \ (left[c] \cup {at[c]}) : item[k] = 0
    BY <1>3, <2>1, <2>4 DEF MissingInv, Misses, Ahead
  <2>6. Ahead(c)' = left[c]
    BY <2>1 DEF Ahead, search
  <2> QED
    BY <1>1, <2>1, <2>3, <2>5, <2>6
<1>4. ASSUME ReadLocked(c), got'[c] = "missing", Undisturbed(c)'
      PROVE  /\ pc'[c] \in {"search", "get_file"} /\ backend'[ProcOf[c]] = "service"
             /\ \A k \in Collections \ Ahead(c)' : item'[k] = 0
             /\ pc'[c] = "get_file" => left'[c] = {}
  <2>1. /\ pc[c] = "absent" /\ got[c] = "missing" /\ UNCHANGED <<seen, moved, blind>>
    BY <1>0, <1>4 DEF ReadLocked, TypeOK
  <2>2. Undisturbed(c)
    BY <1>1, <1>4, <2>1 DEF Undisturbed
  <2>3. backend[ProcOf[c]] = "service" /\ \A k \in Collections \ left[c] : item[k] = 0
    BY <2>1, <2>2 DEF MissingInv, Misses, Ahead
  <2>4. \/ pc'[c] = "get_file" /\ left[c] = {} /\ left'[c] = {}
        \/ /\ pc'[c] = "search"
           /\ \E k \in left[c] : at'[c] = k /\ left'[c] = left[c] \ {k}
    BY <1>0, <1>4 DEF ReadLocked, LookInto, LookNoMore, Goto, TypeOK
  <2>5. Ahead(c)' = left[c]
    BY <2>4 DEF Ahead
  <2> QED
    BY <1>1, <2>3, <2>4, <2>5
<1>5. ASSUME NEW e \in Clients, e # c PROVE Misses(e)'
  BY <1>1, <1>2, <1>5, UnmovedMisses
<1> QED
  BY <1>3, <1>4, <1>5 DEF MissingInv, Misses

LEMMA GetFileMissing ==
  ASSUME KInv, ReadsInv, ServiceInv, MissingInv, NEW c \in Clients, GetFile(c)
  PROVE  MissingInv'
<1> USE DEF stores, service, procs, search, history
<1> DEFINE p == ProcOf[c]
<1>0. TypeOK /\ Kept /\ p \in Procs /\ seen[c] # {} /\ pc[c] = "get_file" /\ world \in World
  BY ConstantsAssumption DEF KInv, ReadsInv, GetFile, TypeOK
<1>1. /\ UNCHANGED <<item, file, db, world, backend, latest, at, left>>
      /\ \A e \in Clients : e # c => /\ pc'[e] = pc[e] /\ got'[e] = got[e] /\ seen'[e] = seen[e]
                                     /\ moved'[e] = moved[e] /\ (e \in blind => e \in blind')
  BY <1>0 DEF GetFile, Answer, AskNext, Goto, TypeOK
<1>2. ASSUME NEW e \in Clients, e # c PROVE Unmoved(e)
  BY <1>1, <1>2 DEF Unmoved
<1>3. /\ pc'[c] \in {"idle", "get_db"}
      /\ pc'[c] = "get_db" => /\ UNCHANGED <<seen, moved, blind>> /\ got'[c] = got[c]
                              /\ ~(fallback[p] /\ file > 0)
  BY <1>0 DEF GetFile, Answer, AskNext, Goto, TypeOK
<1>4. ASSUME pc'[c] = "get_db", got'[c] = "missing", Undisturbed(c)'  PROVE latest = db
  <2>1. Undisturbed(c)
    BY <1>1, <1>3, <1>4 DEF Undisturbed
  <2>2. backend[p] = "service" /\ \A k \in Collections : item[k] = 0
    BY <1>0, <1>3, <1>4, <2>1 DEF MissingInv, Misses, Ahead
  <2>3. latest \in {file, db} /\ latest # 0
    BY <1>0, <2>1, <2>2, AbsentInv DEF Undisturbed, ReadsInv
  <2>4. world.machine \in {"plain", "bare"}
    BY <1>0, <2>2 DEF TypeOK, World
  <2>5. file \in Broken .. MaxValue /\ file # Broken
    BY <1>0, <2>1 DEF TypeOK, Undisturbed
  <2>6. file = 0
    BY <1>0, <1>3, <1>4, <2>2, <2>4, <2>5, ConstantsAssumption DEF ServiceInv, Broken
  <2> QED
    BY <2>3, <2>6
<1>5. ASSUME NEW e \in Clients, e # c PROVE Misses(e)'
  BY <1>1, <1>2, <1>5, UnmovedMisses
<1> QED
  BY <1>1, <1>3, <1>4, <1>5 DEF MissingInv, Misses

LEMMA MissingKept ==
  ASSUME SafeWorlds, OneClientEach, KInv, ReadsInv, ServiceInv, MissingInv, [Next]_vars
  PROVE  MissingInv'
<1> USE DEF stores, service, procs, search, calls, history
<1>0. TypeOK /\ RunsInv
  BY DEF KInv, KeepInv
<1>1. ASSUME UNCHANGED <<item, file, db, world, backend, pc, got, at, left, latest, seen, moved, blind>>
      PROVE  MissingInv'
  BY <1>1, UnmovedKeeps DEF Unmoved
<1>2. ASSUME NEW p \in Procs, Start(p) PROVE MissingInv'
  <2>1. \A e \in Clients : pc[e] # "idle" => backend'[ProcOf[e]] = backend[ProcOf[e]]
    BY <1>0, <1>2, ConstantsAssumption DEF Start, RunsInv, Runs, TypeOK
  <2>2. UNCHANGED <<item, file, db, world, pc, got, at, left, latest, seen, moved, blind>>
    BY <1>2 DEF Start
  <2> QED
    BY <2>1, <2>2, UnmovedKeeps DEF Unmoved
<1>3. ASSUME NEW p \in Procs, End(p) PROVE MissingInv'
  <2>1. UNCHANGED <<item, file, db, world, latest>>
    BY <1>3 DEF End
  <2>2. \A e \in Clients :
          \/ pc'[e] = "idle"
          \/ /\ pc'[e] = pc[e] /\ got'[e] = got[e] /\ at'[e] = at[e] /\ left'[e] = left[e]
             /\ seen'[e] = seen[e] /\ moved'[e] = moved[e] /\ (e \in blind => e \in blind')
             /\ backend'[ProcOf[e]] = backend[ProcOf[e]]
    <3>1. ASSUME NEW e \in Clients, ProcOf[e] = p PROVE pc'[e] = "idle"
      BY <1>3, <3>1 DEF End
    <3>2. ASSUME NEW e \in Clients, ProcOf[e] # p
          PROVE  /\ pc'[e] = pc[e] /\ got'[e] = got[e] /\ at'[e] = at[e] /\ left'[e] = left[e]
                 /\ seen'[e] = seen[e] /\ (e \in blind => e \in blind')
                 /\ backend'[ProcOf[e]] = backend[ProcOf[e]]
      BY <1>0, <1>3, <3>2, ConstantsAssumption DEF End, TypeOK
    <3>3. ASSUME NEW e \in Clients, ProcOf[e] # p PROVE moved'[e] = moved[e]
      BY <1>0, <1>3, <3>3 DEF End, TypeOK
    <3> QED
      BY <3>1, <3>2, <3>3
  <2> QED
    BY <2>1, <2>2, UnmovedKeeps DEF Unmoved
<1>4. CASE Migrate \/ MigrateRemoves
  <2>1. CASE UNCHANGED stores /\ Migrate
    BY <1>1, <2>1 DEF Migrate
  <2>2. CASE MigratesFirst(world)
    <3>1. \A e \in Clients : pc[e] = "idle"
      BY <1>0, <1>4, <2>2, ConstantsAssumption DEF Migrate, MigrateRemoves, RunsInv, Runs, MigratesFirst
    <3>2. UNCHANGED <<world, pc>>
      BY <1>4 DEF Migrate, MigrateRemoves
    <3> QED
      BY <3>1, <3>2, UnmovedKeeps DEF Unmoved
  <2>3. CASE Settled(world) /\ ~(UNCHANGED stores /\ Migrate)
    <3>1. migrating # "remove" /\ \A k \in Collections \ {pinned} : item[k] = 0
      BY <2>3 DEF KInv, KeepInv, MigrationInv
    <3>2. MovesOut /\ Login \in Finds
      BY <1>4, <2>3, <3>1 DEF Migrate, MigrateRemoves
    <3> QED
      BY <3>1, <3>2 DEF MovesOut, Finds
  <2> QED
    BY <1>0, <1>4, <2>1, <2>2, <2>3, InThisWorld
<1>5. ASSUME NEW c \in Clients, BeginGet(c) \/ GetDb(c) PROVE MissingInv'
  <2>1. /\ UNCHANGED <<item, file, db, world, backend, at, left, latest>>
        /\ pc'[c] \in {"get", "idle"}
        /\ \A e \in Clients : e # c =>
             /\ pc'[e] = pc[e] /\ got'[e] = got[e] /\ seen'[e] = seen[e] /\ moved'[e] = moved[e]
             /\ (e \in blind => e \in blind')
    BY <1>0, <1>5 DEF BeginGet, GetDb, Answer, Goto, TypeOK
  <2> QED
    BY <2>1, UnmovedKeeps DEF Unmoved
<1>6. ASSUME NEW c \in Clients, Put(c) PROVE MissingInv'
  <2>1. /\ UNCHANGED world
        /\ \A e \in Clients : moved'[e] = (moved[e] \/ seen[e] # {})
        /\ pc[c] = "idle" /\ pc'[c] \in {"idle", "write_file", "drop_file"}
        /\ \A e \in Clients : e # c => pc'[e] = pc[e]
    BY <1>0, <1>6 DEF Put, Goto, TypeOK
  <2>2. \A e \in Clients : pc'[e] \in {"search", "absent", "get_file", "get_db"} => seen[e] # {}
    BY <2>1 DEF ReadsInv
  <2> QED
    BY <2>1, <2>2, UnmovedKeeps DEF Unmoved, Undisturbed
<1>7. ASSUME NEW c \in Clients, PutFails(c) PROVE MissingInv'
  <2>1. /\ UNCHANGED <<item, file, db, world, pc, got, at, left, latest, seen, moved, blind>>
        /\ Upgrade(ProcOf[c]) /\ pc[c] = "idle" /\ Runs(c)
    BY <1>7 DEF PutFails
  <2>2. \A e \in Clients : e # c =>
          \/ backend'[ProcOf[e]] = backend[ProcOf[e]]
          \/ backend[ProcOf[e]] = "file" /\ "vanish" \notin world.troubles
    BY <1>0, <2>1, UpgradeUnmoved
  <2> QED
    BY <2>1, <2>2, UnmovedKeeps DEF Unmoved
<1>8. ASSUME NEW c \in Clients, WriteFile(c) \/ WriteFileFails(c) \/ DropFile(c) \/ DropDb(c)
      PROVE  MissingInv'
  <2>1. /\ UNCHANGED <<world, seen, moved>> /\ pc[c] \in {"write_file", "drop_file", "drop_db"}
        /\ pc'[c] \in {"idle", "drop_db"} /\ \A e \in Clients : e # c => pc'[e] = pc[e]
    BY <1>0, <1>8 DEF WriteFile, WriteFileFails, DropFile, DropDb, Goto, TypeOK
  <2>2. \A e \in Clients : pc'[e] \in {"search", "absent", "get_file", "get_db"} => moved[e]
    BY <2>1 DEF ReadsInv
  <2> QED
    BY <2>1, <2>2, UnmovedKeeps DEF Unmoved, Undisturbed
<1>9. ASSUME NEW c \in Clients, Delete(c) \/ DeleteKeyring(c) PROVE MissingInv'
  <2>1. /\ UNCHANGED world /\ Takes(0)
        /\ pc'[c] \in {"idle", "delete"} /\ \A e \in Clients : e # c => pc'[e] = pc[e]
    BY <1>0, <1>9 DEF Delete, DeleteKeyring, Goto, TypeOK
  <2>2. \A e \in Clients : pc'[e] \in {"search", "absent", "get_file", "get_db"} => 0 \in seen'[e]
    BY <1>0, <2>1, TakesSeen DEF ReadsInv
  <2> QED
    BY <2>1, <2>2, UnmovedKeeps DEF Unmoved, Undisturbed
<1>10. CASE MigrateFails \/ Appear \/ Vanish \/ Lock \/ Unlock \/ Move \/ UNCHANGED vars
  BY <1>1, <1>10 DEF MigrateFails, Appear, Vanish, Lock, Unlock, Move, vars
<1> QED
  BY <1>2, <1>3, <1>4, <1>5, <1>6, <1>7, <1>8, <1>9, <1>10, GetBackendMissing, SearchMissing,
     GetFileMissing DEF Next

\* Whoever is at the database with a "missing" from the service while the secret
\* exists, finds it there; or was blind, or the file that had it is cut short.
LEMMA DbHasIt ==
  ASSUME TypeOK, ReadsInv, MissingInv, NEW c \in Clients, GetDb(c), answer'[c].got = "missing"
  PROVE  0 \in seen[c] \/ moved[c] \/ backend[ProcOf[c]] # "service" \/ c \in blind \/ file = Broken
<1>1. pc[c] = "get_db" /\ seen[c] # {}
  BY DEF GetDb, ReadsInv
<1>2. db = 0 /\ got[c] = "missing"
  BY DEF GetDb, Answer, TypeOK
<1> QED
  BY <1>1, <1>2 DEF ReadsInv, MissingInv, Misses, Undisturbed

\* A process that keeps its secrets in the service never takes a secret that exists
\* for absent, in any of these worlds: although collections lock, the service comes
\* and goes, copies are left behind and processes crash.  But it may when a
\* collection was unlocked, or its lock not read, between the search and the reading
\* of the lock, and when the file that had the secret was cut short.
THEOREM NeverDeniedHolds ==
  ASSUME SafeWorlds, OneClientEach  PROVE Spec => NeverDenied
<1> DEFINE DInv == KInv /\ ReadsInv /\ ServiceInv /\ MissingInv
<1>1. Init => DInv
  BY InitKept, InitDenied
<1>2. DInv /\ [Next]_vars => DInv'
  BY NextKept, ReadsKept, ServiceKept, MissingKept DEF KInv
<1>3. DInv /\ [Next]_vars =>
        [\A c \in Clients :
           GetDb(c) /\ answer'[c].got = "missing"
             => \/ 0 \in seen[c] \/ moved[c] \/ backend[ProcOf[c]] # "service"
                \/ c \in blind
                \/ file = Broken]_vars
  BY DbHasIt DEF KInv
<1> QED
  BY <1>1, <1>2, <1>3, PTL DEF Spec, NeverDenied

-----------------------------------------------------------------------------
(* Any processes, in calm surroundings *)

\* What calm surroundings must have besides: a file store, and nothing in the
\* login collection from before.  A process without either store would write where
\* the others do not look, and a value to be migrated would be found after later ones.
TidyWorlds ==
    \A w \in Worlds :
        w.troubles \cap {"vanish", "move", "overtake", "crash", "tear", "keep"} = {} =>
            w.machine # "bare" /\ w.legacy = 0

\* The service has nothing before it is there, nothing beside its default
\* collection, which is never migrated into, and nothing of a sandboxed process; who
\* has it reads the file too.  Whoever is at a call runs.
PlacesInv ==
    /\ db = 0 /\ world.machine # "bare"
    /\ pinned = alias /\ migrating # "remove"
    /\ \A k \in Collections : k # alias => item[k] = 0
    /\ ~up \/ world.machine = "flatpak" =>
         item[alias] = 0 /\ \A p \in Procs : backend[p] # "service"
    /\ \A p \in Procs : backend[p] # "none" /\ (backend[p] = "service" => fallback[p])
    /\ \A c \in Clients : pc[c] # "idle" => backend[ProcOf[c]] # "off"

\* A writer who is to drop the file replaces x, or there was nothing.
Replaces(x) == \E d \in Clients : pc[d] = "drop_file" /\ replaced[d] \in {0, x}

\* The service has the last value, or else the file, once its writer is done; another
\* value is in the file, or about to be, only as long as the writer that replaces it
\* has not removed it.
WritesInv ==
    /\ \A c \in Clients : pc[c] = "drop_file" =>
         backend[ProcOf[c]] = "service" /\ (latest # 0 => item[alias] = latest)
    /\ \A c, d \in Clients : pc[c] = "write_file" /\ pc[d] = "write_file" => c = d
    /\ \A c \in Clients : pc[c] = "write_file" =>
         /\ file \in {0, Broken}
         /\ latest # 0 /\ item[alias] = 0 => file = Broken /\ putting[c] = latest
         /\ latest # 0 /\ file = Broken => putting[c] = latest \/ Replaces(putting[c])
    /\ file = Broken => \E c \in Clients : pc[c] = "write_file"
    /\ latest # 0 => item[alias] = latest \/ (item[alias] = 0 /\ file \in {latest, Broken})
    /\ latest # 0 /\ file \notin {0, Broken, latest} => Replaces(file)

\* A read may give what is being replaced, and the last value; that the service has
\* nothing means there is nothing, or the file has it, or a write has come between,
\* or that the service did not show it.
Disturbed(c) == 0 \in seen[c] \/ moved[c]

ReadInv(c) ==
    /\ seen[c] # {} => Register!BeingReplaced \subseteq seen[c]
    /\ got[c] = "missing" /\ ~Disturbed(c) =>
         /\ pc[c] \in {"search", "absent", "get_file"} => fallback[ProcOf[c]]
         /\ pc[c] = "search" => at[c] = alias \/ item[alias] = 0 \/ c \in blind
         /\ pc[c] \in {"absent", "get_file"} => item[alias] = 0 \/ c \in blind
         /\ pc[c] = "get_db" => c \in blind

CInv == PlacesInv /\ WritesInv /\ \A c \in Clients : ReadInv(c)

LEMMA CalmStep ==
  ASSUME Calm
  PROVE  \A kind \in {"vanish", "move", "overtake", "crash", "tear", "keep"} : ~Trouble(kind)
BY DEF Calm, Trouble

LEMMA InitCalm == ASSUME TidyWorlds, Init, Calm PROVE CInv
<1>1. world \in Worlds /\ world.legacy = 0 /\ world.machine # "bare"
  BY DEF Init, TidyWorlds, Calm
<1>2. /\ latest = 0 /\ db = 0 /\ file = 0 /\ \A k \in Collections : item[k] = 0
      /\ \A c \in Clients : pc[c] = "idle" /\ seen[c] = {}
      /\ \A p \in Procs : backend[p] = "off"
      /\ alias \in Collections /\ pinned = alias /\ migrating = "no"
  BY <1>1, ConstantsAssumption DEF Init
<1> QED
  BY <1>1, <1>2 DEF CInv, PlacesInv, WritesInv, ReadInv, Broken

\* Whatever a store has may be given by a read that is going on.
LEMMA MayGive ==
  ASSUME TypeOK, ReadsInv, CInv, NEW c \in Clients, seen[c] # {},
         NEW x \in {file} \cup InService, x \notin {0, Broken}
  PROVE  x \in seen[c] \/ 0 \in seen[c]
<1>1. /\ latest \in seen[c]
      /\ \A d \in Clients : replaced[d] # Register!Done => replaced[d] \in seen[c]
  BY DEF CInv, ReadInv, ReadsInv, Register!BeingReplaced
<1>2. CASE latest = 0
  BY <1>1, <1>2
<1>3. CASE latest # 0 /\ x = file
  BY <1>1, <1>3 DEF CInv, WritesInv, Replaces, ReadsInv
<1>4. CASE latest # 0 /\ x \in InService
  BY <1>1, <1>4 DEF CInv, PlacesInv, WritesInv, InService
<1> QED
  BY <1>2, <1>3, <1>4

\* A read ends as the register allows.
LEMMA AnswerMaps ==
  ASSUME TypeOK, NEW c \in Clients, seen[c] # {}, NEW outcome, NEW v \in 0 .. MaxValue,
         \/ outcome = "value" /\ (v \in seen[c] \/ 0 \in seen[c])
         \/ outcome = "missing" /\ (Disturbed(c) \/ c \in blind)
         \/ outcome \in {"locked", "error"},
         Answer(c, outcome, v)
  PROVE  Register!Next
<1>1. Register!MayAnswer(c, outcome, v) /\ outcome \in {"value", "missing", "locked", "error"}
  BY DEF Register!MayAnswer, Disturbed
<1>2. /\ answer' = [answer EXCEPT ![c] = [got |-> outcome, value |-> v, seen |-> seen[c]]]
      /\ seen' = [seen EXCEPT ![c] = {}]
      /\ moved' = [moved EXCEPT ![c] = FALSE] /\ blind' = blind \ {c}
      /\ UNCHANGED <<latest, replaced>>
  BY DEF Answer
<1>3. Register!EndRead(c)
  BY <1>1, <1>2 DEF Register!EndRead
<1> QED
  BY <1>3 DEF Register!Next

\* Who goes over to the service, and what processes are then.
LEMMA UpgradeCalm ==
  ASSUME TypeOK, PlacesInv, UNCHANGED <<backend, fallback>> \/ \E p \in Procs : Upgrade(p)
  PROVE  \A p \in Procs : /\ backend'[p] \in {backend[p], "service"}
                          /\ backend[p] = "off" => backend'[p] = "off"
                          /\ fallback[p] => fallback'[p]
                          /\ backend'[p] # backend[p] => up /\ world.machine # "flatpak"
                          /\ backend'[p] = "service" => fallback'[p]
BY DEF Upgrade, Upgrades, TypeOK, PlacesInv

\* A read that ends, or goes on to the next store, disturbs no other, and no write.
LEMMA ReaderKeeps ==
  ASSUME TypeOK, CInv, NEW c \in Clients,
         pc[c] \in {"get", "search", "absent", "get_file", "get_db"},
         pc'[c] \in {"idle", "search", "absent", "get_file", "get_db"},
         UNCHANGED <<item, file, db, alias, up, world, migrating, pinned, putting, latest, replaced>>,
         \A d \in Clients : d # c =>
            /\ pc'[d] = pc[d] /\ got'[d] = got[d] /\ at'[d] = at[d]
            /\ seen'[d] = seen[d] /\ moved'[d] = moved[d] /\ (d \in blind => d \in blind'),
         UNCHANGED <<backend, fallback>> \/ Upgrade(ProcOf[c]),
         ReadInv(c)'
  PROVE  CInv'
<1> USE DEF CInv
<1>1. \A p \in Procs : /\ backend'[p] \in {backend[p], "service"}
                       /\ fallback[p] => fallback'[p]
                       /\ backend'[p] # backend[p] => up /\ world.machine # "flatpak"
                       /\ backend'[p] = "service" => fallback'[p]
  BY UpgradeCalm, ConstantsAssumption
<1>2. PlacesInv'
  BY <1>1, ConstantsAssumption DEF PlacesInv
<1>3. WritesInv'
  <2>1. \A d \in Clients : /\ pc'[d] = "drop_file" <=> pc[d] = "drop_file"
                           /\ pc'[d] = "write_file" <=> pc[d] = "write_file"
    OBVIOUS
  <2>2. \A x : Replaces(x)' <=> Replaces(x)
    BY <2>1 DEF Replaces
  <2> QED
    BY <1>1, <2>1, <2>2, ConstantsAssumption DEF WritesInv
<1>4. ASSUME NEW d \in Clients, d # c PROVE ReadInv(d)'
  <2>1. Register!BeingReplaced' = Register!BeingReplaced
    BY DEF Register!BeingReplaced
  <2>2. fallback[ProcOf[d]] => fallback'[ProcOf[d]]
    BY <1>1, ConstantsAssumption
  <2> QED
    BY <1>4, <2>1, <2>2 DEF ReadInv, Disturbed
<1> QED
  BY <1>2, <1>3, <1>4

LEMMA AnswerCalm ==
  ASSUME TypeOK, ReadsInv, CInv, NEW c \in Clients, NEW outcome, NEW v \in 0 .. MaxValue,
         Answer(c, outcome, v),
         pc[c] \in {"get", "search", "absent", "get_file", "get_db"},
         \/ outcome = "value" /\ v # 0 /\ v \in {file} \cup InService
         \/ outcome = "missing" /\ (Disturbed(c) \/ c \in blind)
         \/ outcome \in {"locked", "error"},
         UNCHANGED <<item, file, db, alias, up, world, procs, putting>>,
         \A d \in Clients : d # c => at'[d] = at[d]
  PROVE  CInv' /\ [Register!Next]_history
<1>1. seen[c] # {}
  BY DEF ReadsInv
<1>2. /\ UNCHANGED <<latest, replaced>>
      /\ \A d \in Clients : d # c =>
            /\ pc'[d] = pc[d] /\ got'[d] = got[d]
            /\ seen'[d] = seen[d] /\ moved'[d] = moved[d] /\ (d \in blind => d \in blind')
      /\ pc'[c] = "idle" /\ seen'[c] = {}
  BY DEF Answer, Goto, TypeOK
<1>3. CInv'
  BY <1>2, ReaderKeeps DEF ReadInv, procs
<1>4. outcome = "value" => v \in seen[c] \/ 0 \in seen[c]
  BY <1>1, MayGive DEF Broken
<1>5. Register!Next
  BY <1>1, <1>4, AnswerMaps
<1> QED
  BY <1>3, <1>5

LEMMA GetBackendCalm ==
  ASSUME TypeOK, ReadsInv, CInv, NEW c \in Clients, GetBackend(c)
  PROVE  CInv' /\ [Register!Next]_history
<1> USE DEF stores, service
<1> DEFINE p == ProcOf[c]
<1>0. /\ p \in Procs /\ 0 \in 0 .. MaxValue /\ alias \in Collections
      /\ (file > 0 => file \in 0 .. MaxValue /\ file # 0) /\ file \in Broken .. MaxValue
  BY ConstantsAssumption DEF TypeOK
<1>1. /\ pc[c] = "get" /\ seen[c] # {}
      /\ UNCHANGED <<item, file, db, alias, up, world, putting>>
      /\ latest = 0 => 0 \in seen[c]
  BY DEF GetBackend, ReadsInv
<1>2. CASE backend[p] = "file" /\ (file > 0 \/ ~Upgrades(p))
  <2>1. /\ IF file = 0 THEN AskNext(c, "missing", "get_db")
           ELSE IF file = Broken THEN Answer(c, "error", 0) ELSE Answer(c, "value", file)
        /\ UNCHANGED <<procs, search>>
    <3>1. ~(backend[p] = "service" \/ (Upgrades(p) /\ file <= 0))
      BY <1>0, <1>2 DEF Broken
    <3> QED
      BY <1>2, <3>1 DEF GetBackend
  <2>2. CASE file = 0
    <3>1. latest = 0
      BY <1>0, <1>2, <2>2 DEF Upgrades, CInv, PlacesInv, WritesInv, Broken
    <3>2. /\ pc' = [pc EXCEPT ![c] = "get_db"] /\ got' = [got EXCEPT ![c] = "missing"]
          /\ UNCHANGED history
      BY <2>1, <2>2 DEF AskNext, Goto
    <3>3. ReadInv(c)'
      BY <1>1, <3>1, <3>2 DEF CInv, ReadInv, Disturbed, Register!BeingReplaced, TypeOK, history
    <3>4. CInv'
      BY <1>1, <2>1, <3>2, <3>3, ReaderKeeps DEF procs, search, history, TypeOK
    <3> QED
      BY <3>2, <3>4
  <2>3. CASE file = Broken /\ file # 0
    BY <1>0, <1>1, <2>1, <2>3, AnswerCalm DEF search
  <2>4. CASE file # Broken /\ file # 0
    <3>1. file > 0
      BY <1>0, <2>4, ConstantsAssumption DEF Broken
    <3> QED
      BY <1>0, <1>1, <2>1, <2>4, <3>1, AnswerCalm DEF search
  <2> QED
    BY <2>2, <2>3, <2>4
<1>3. CASE /\ backend[p] = "service" \/ (Upgrades(p) /\ file <= 0)
           /\ AskService(c) /\ Upgrade(p) /\ UNCHANGED <<migrating, pinned>>
  <2>1. /\ pc' = [pc EXCEPT ![c] = "search"] /\ UNCHANGED history
        /\ at' = [at EXCEPT ![c] = alias]
        /\ \A d \in Clients : d # c => got'[d] = got[d]
    BY <1>3 DEF AskService, AskNext, LookInto, Goto, TypeOK
  <2>2. fallback'[p]
    BY <1>0, <1>3 DEF Upgrade, TypeOK, CInv, PlacesInv
  <2>3. ReadInv(c)'
    <3>1. pc'[c] = "search" /\ at'[c] = alias /\ seen'[c] = seen[c]
      BY <2>1 DEF TypeOK, history
    <3>2. Register!BeingReplaced' = Register!BeingReplaced
      BY <2>1 DEF history, Register!BeingReplaced
    <3> QED
      BY <1>1, <2>2, <3>1, <3>2 DEF ReadInv, CInv
  <2>4. CInv'
    BY <1>1, <1>3, <2>1, <2>3, ReaderKeeps DEF history, TypeOK
  <2> QED
    BY <2>1, <2>4
<1> QED
  BY <1>0, <1>2, <1>3 DEF GetBackend, CInv, PlacesInv

\* A collection is looked into, and found empty or not.
LEMMA SearchCalm ==
  ASSUME TypeOK, ReadsInv, CInv, NEW c \in Clients, Search(c)
  PROVE  CInv' /\ [Register!Next]_history
<1> USE DEF stores, service
<1> DEFINE k == at[c]
<1>0. 0 \in 0 .. MaxValue /\ k \in Collections /\ item[k] \in 0 .. MaxValue
  BY ConstantsAssumption DEF TypeOK
<1>1. /\ pc[c] = "search" /\ seen[c] # {}
      /\ UNCHANGED <<item, file, db, alias, up, world, procs, putting>>
      /\ \A d \in Clients : d # c => at'[d] = at[d]
  BY DEF Search, ReadsInv, LookNoMore, LookInto, TypeOK, search
<1>2. CASE up /\ k \in Finds \ locked /\ Answer(c, "value", item[k])
  BY <1>0, <1>1, <1>2, AnswerCalm DEF Finds, InService
<1>3. CASE AskNext(c, "error", "get_file")
  <2>1. /\ pc' = [pc EXCEPT ![c] = "get_file"] /\ got' = [got EXCEPT ![c] = "error"]
        /\ UNCHANGED history
    BY <1>3 DEF AskNext, Goto
  <2>2. ReadInv(c)'
    BY <1>1, <2>1 DEF CInv, ReadInv, Register!BeingReplaced, TypeOK, history
  <2>3. CInv'
    BY <1>1, <2>1, <2>2, ReaderKeeps DEF procs, history, TypeOK
  <2> QED
    BY <2>1, <2>3
<1>4. CASE /\ k \notin Finds /\ Goto(c, "absent")
           /\ blind' = IF k \in locked THEN blind \cup {c} ELSE blind
           /\ UNCHANGED <<got, search, latest, replaced, seen, moved, answer>>
  <2>1. pc' = [pc EXCEPT ![c] = "absent"] /\ pc'[c] = "absent"
    BY <1>4 DEF Goto, TypeOK
  <2>2. k = alias => item[alias] = 0 \/ c \in blind'
    BY <1>0, <1>4 DEF Finds
  <2>3. ReadInv(c)'
    BY <1>1, <1>4, <2>1, <2>2 DEF CInv, ReadInv, Disturbed, Register!BeingReplaced, procs
  <2>4. CInv'
    BY <1>1, <1>4, <2>1, <2>3, ReaderKeeps DEF procs, TypeOK
  <2>5. Register!Look(c) \/ UNCHANGED history
    BY <1>1, <1>4 DEF Register!Look, history
  <2> QED
    BY <2>4, <2>5 DEF Register!Next
<1> QED
  BY <1>2, <1>3, <1>4 DEF Search

LEMMA ReadLockedCalm ==
  ASSUME TypeOK, ReadsInv, CInv, NEW c \in Clients, ReadLocked(c)
  PROVE  CInv' /\ [Register!Next]_history
<1> USE DEF stores, service
<1>1. /\ pc[c] = "absent" /\ seen[c] # {}
      /\ UNCHANGED <<item, file, db, alias, up, world, procs, putting, latest, replaced, seen, moved, answer>>
      /\ pc' = [pc EXCEPT ![c] = "get_file"] \/ pc' = [pc EXCEPT ![c] = "search"]
      /\ \A d \in Clients : d # c => at'[d] = at[d] /\ got'[d] = got[d]
      /\ blind' \in {blind, blind \ {c}}
      /\ got'[c] = "missing" => got[c] = "missing" /\ blind' = blind
  BY DEF ReadLocked, ReadsInv, LookNoMore, LookInto, Goto, TypeOK
<1>2. ReadInv(c)'
  BY <1>1 DEF CInv, ReadInv, Disturbed, Register!BeingReplaced, procs, TypeOK
<1>3. CInv'
  BY <1>1, <1>2, ReaderKeeps DEF procs, TypeOK
<1>4. Register!Look(c) \/ UNCHANGED history
  BY <1>1 DEF Register!Look, history
<1> QED
  BY <1>3, <1>4 DEF Register!Next

LEMMA GetFileCalm ==
  ASSUME TypeOK, ReadsInv, CInv, NEW c \in Clients, GetFile(c)
  PROVE  CInv' /\ [Register!Next]_history
<1> USE DEF stores, service, search
<1> DEFINE p == ProcOf[c]
<1>0. /\ 0 \in 0 .. MaxValue /\ file \in Broken .. MaxValue
      /\ (file > 0 => file \in 0 .. MaxValue /\ file # 0)
  BY ConstantsAssumption DEF TypeOK, Broken
<1>1. /\ pc[c] = "get_file" /\ seen[c] # {}
      /\ UNCHANGED <<item, file, db, alias, up, world, procs, at, putting>>
  BY DEF GetFile, ReadsInv
<1>2. CASE fallback[p] /\ file > 0
  BY <1>0, <1>1, <1>2, AnswerCalm DEF GetFile
<1>3. CASE ~(fallback[p] /\ file > 0) /\ got[c] = "error"
  BY <1>0, <1>1, <1>3, AnswerCalm DEF GetFile
<1>4. CASE ~(fallback[p] /\ file > 0) /\ got[c] # "error"
  <2>1. /\ pc' = [pc EXCEPT ![c] = "get_db"] /\ got' = [got EXCEPT ![c] = got[c]]
        /\ UNCHANGED history
    BY <1>4 DEF GetFile, AskNext, Goto
  <2>2. ASSUME got[c] = "missing", ~Disturbed(c)  PROVE c \in blind
    <3>1. fallback[p] /\ (item[alias] = 0 \/ c \in blind)
      BY <1>1, <2>2 DEF CInv, ReadInv
    <3>2. file \in {0, Broken}
      BY <1>0, <1>4, <3>1, ConstantsAssumption DEF Broken
    <3>3. latest # 0
      BY <1>1, <2>2 DEF ReadsInv, Disturbed
    <3>4. file # Broken
      BY <1>1, <2>2 DEF CInv, WritesInv, ReadsInv, Disturbed
    <3> QED
      BY <3>1, <3>2, <3>3, <3>4 DEF CInv, WritesInv, Broken
  <2>3. ReadInv(c)'
    BY <1>1, <2>1, <2>2 DEF CInv, ReadInv, Disturbed, Register!BeingReplaced, TypeOK, history
  <2>4. CInv'
    BY <1>1, <2>1, <2>3, ReaderKeeps DEF procs, history, TypeOK
  <2> QED
    BY <2>1, <2>4
<1> QED
  BY <1>2, <1>3, <1>4

LEMMA GetDbCalm ==
  ASSUME TypeOK, ReadsInv, CInv, NEW c \in Clients, GetDb(c)
  PROVE  CInv' /\ [Register!Next]_history
<1> USE DEF stores, service, search
<1>1. /\ pc[c] = "get_db" /\ Answer(c, got[c], 0)
      /\ UNCHANGED <<item, file, db, alias, up, world, procs, at, putting>>
  BY DEF GetDb, CInv, PlacesInv
<1>2. got[c] \in {"missing", "locked", "error"} /\ 0 \in 0 .. MaxValue
  BY ConstantsAssumption DEF TypeOK
<1>3. got[c] = "missing" => Disturbed(c) \/ c \in blind
  BY <1>1 DEF CInv, ReadInv
<1> QED
  BY <1>1, <1>2, <1>3, AnswerCalm

LEMMA Running ==
  ASSUME NEW c \in Clients, Runs(c) PROVE backend[ProcOf[c]] # "off"
BY DEF Runs

\* A read begins.
LEMMA BeginCalm ==
  ASSUME TypeOK, ReadsInv, CInv, NEW c \in Clients, BeginGet(c)
  PROVE  CInv' /\ [Register!Next]_history
<1> USE DEF stores, service, procs, CInv
<1>1. /\ pc[c] = "idle" /\ pc' = [pc EXCEPT ![c] = "get"]
      /\ seen' = [seen EXCEPT ![c] = {latest} \cup Register!BeingReplaced]
      /\ moved' = [moved EXCEPT ![c] = Register!BeingReplaced # {}]
      /\ answer' = [answer EXCEPT ![c] = Register!NoAnswer]
      /\ UNCHANGED <<item, file, db, alias, up, world, backend, fallback, migrating, pinned, got, at,
                     putting, latest, replaced, blind>>
  BY DEF BeginGet, Goto, search
<1>2. seen[c] = {}
  BY <1>1 DEF ReadsInv
<1>3. Register!BeginRead(c)
  BY <1>1, <1>2 DEF Register!BeginRead
<1>4. \A d \in Clients : /\ pc'[d] = IF d = c THEN "get" ELSE pc[d]
                         /\ seen'[d] = IF d = c THEN {latest} \cup Register!BeingReplaced ELSE seen[d]
                         /\ moved'[d] = IF d = c THEN Register!BeingReplaced # {} ELSE moved[d]
  BY <1>1 DEF TypeOK
<1>5. PlacesInv'
  BY <1>1, <1>4, Running DEF PlacesInv, BeginGet
<1>6. WritesInv'
  <2>1. \A x : Replaces(x)' <=> Replaces(x)
    BY <1>1, <1>4 DEF Replaces
  <2> QED
    BY <1>1, <1>4, <2>1 DEF WritesInv
<1>7. ASSUME NEW d \in Clients PROVE ReadInv(d)'
  <2>1. Register!BeingReplaced' = Register!BeingReplaced
    BY <1>1 DEF Register!BeingReplaced
  <2>2. CASE d = c
    BY <1>1, <1>4, <2>1, <2>2 DEF ReadInv
  <2>3. CASE d # c
    BY <1>1, <1>4, <2>1, <2>3 DEF ReadInv, Disturbed
  <2> QED
    BY <2>2, <2>3
<1> QED
  BY <1>3, <1>5, <1>6, <1>7 DEF Register!Next

\* Calls and copies stay as they are; processes may go over to the service.
LEMMA QuietCalm ==
  ASSUME TypeOK, CInv,
         UNCHANGED <<item, file, db, alias, pinned, world, calls, history>>,
         migrating' # "remove", up' = up \/ up',
         UNCHANGED <<backend, fallback>> \/ \E p \in Procs : Upgrade(p)
  PROVE  CInv' /\ [Register!Next]_history
<1> USE DEF CInv, calls, search, history
<1>1. \A p \in Procs : /\ backend'[p] \in {backend[p], "service"}
                       /\ fallback[p] => fallback'[p]
                       /\ backend'[p] # backend[p] => up /\ world.machine # "flatpak"
                       /\ backend'[p] = "service" => fallback'[p]
  BY UpgradeCalm
<1>2. PlacesInv'
  BY <1>1, ConstantsAssumption DEF PlacesInv
<1>3. WritesInv'
  BY <1>1, ConstantsAssumption DEF WritesInv, Replaces
<1>4. ASSUME NEW d \in Clients PROVE ReadInv(d)'
  BY <1>1, ConstantsAssumption DEF ReadInv, Disturbed, Register!BeingReplaced
<1> QED
  BY <1>2, <1>3, <1>4

\* The register takes a value, and every read that is going on may give it.
LEMMA TakesReads ==
  ASSUME TypeOK, NEW v \in 0 .. MaxValue, Takes(v)
  PROVE  /\ Register!Take(v) /\ latest' = v
         /\ \A d \in Clients : seen'[d] = IF seen[d] = {} THEN {} ELSE seen[d] \cup {v}
BY DEF Takes, Register!Take, TypeOK

\* A write begins, in the file or the service.
LEMMA PutCalm ==
  ASSUME TypeOK, ReadsInv, Calm, CInv, NEW c \in Clients, Put(c)
  PROVE  CInv' /\ [Register!Next]_history
<1> USE DEF CInv
<1> DEFINE p == ProcOf[c]
           v == written + 1
<1>0. p \in Procs /\ alias \in Collections /\ v \in 1 .. MaxValue /\ v \in 0 .. MaxValue /\ v # 0
  BY ConstantsAssumption DEF TypeOK, Put
<1> HIDE DEF v
<1>1. /\ pc[c] = "idle" /\ Runs(c) /\ Takes(v)
      /\ moved' = [d \in Clients |-> moved[d] \/ seen[d] # {}]
      /\ UNCHANGED <<alias, up, world, migrating, pinned, blind, answer>>
  BY DEF Put, v
<1>2. seen[c] = {} /\ backend[p] # "off"
  BY <1>1, Running DEF ReadsInv
<1>3. /\ replaced' = [replaced EXCEPT ![c] = latest]
      /\ \/ /\ backend[p] = "file" /\ ~Upgrades(p)
            /\ \A d \in Clients : pc[d] # "write_file"
            /\ file' = Broken /\ putting' = [putting EXCEPT ![c] = v]
            /\ pc' = [pc EXCEPT ![c] = "write_file"]
            /\ UNCHANGED <<item, db, backend, fallback>>
         \/ /\ up /\ ServicePut(v) /\ Upgrade(p)
            /\ backend[p] = "service" \/ Upgrades(p)
            /\ pc' = [pc EXCEPT ![c] = "drop_file"]
            /\ UNCHANGED <<file, db, putting>>
  BY <1>0, CalmStep DEF Put, PlacesInv, Goto, v, Upgrades
<1>4. /\ latest' = v /\ Register!Take(v)
      /\ \A d \in Clients : seen'[d] = IF seen[d] = {} THEN {} ELSE seen[d] \cup {v}
  BY <1>0, <1>1, TakesReads
<1>5. Register!Write(c)
  BY <1>0, <1>1, <1>3, <1>4 DEF Register!Write
<1>6. Register!BeingReplaced' \subseteq Register!BeingReplaced \cup {latest}
  BY <1>3 DEF Register!BeingReplaced, TypeOK
<1>7. /\ replaced'[c] = latest /\ latest # Register!Done
      /\ \A d \in Clients : d # c => replaced'[d] = replaced[d] /\ pc'[d] = pc[d]
      /\ pc'[c] \in {"write_file", "drop_file"}
  BY <1>3, ConstantsAssumption DEF TypeOK, Register!Done
<1>8. ASSUME NEW d \in Clients PROVE ReadInv(d)'
  <2>1. CASE seen[d] = {}
    <3>1. seen'[d] = {} /\ pc'[d] \notin {"search", "absent", "get_file", "get_db"}
      BY <1>4, <1>7, <2>1 DEF ReadsInv
    <3> QED
      BY <3>1 DEF ReadInv
  <2>2. CASE seen[d] # {}
    <3>1. moved'[d] = TRUE /\ latest \in seen[d] /\ seen'[d] = seen[d] \cup {v}
      BY <1>1, <1>4, <2>2 DEF ReadsInv
    <3>2. Register!BeingReplaced \subseteq seen[d]
      BY <2>2 DEF ReadInv
    <3> QED
      BY <1>6, <3>1, <3>2 DEF ReadInv, Disturbed, Register!BeingReplaced
  <2> QED
    BY <2>1, <2>2
<1>9. CASE /\ backend[p] = "file" /\ ~Upgrades(p) /\ file' = Broken
           /\ \A d \in Clients : pc[d] # "write_file"
           /\ putting' = [putting EXCEPT ![c] = v] /\ pc' = [pc EXCEPT ![c] = "write_file"]
           /\ UNCHANGED <<item, db, backend, fallback>>
  <2>1. item[alias] = 0 /\ \A q \in Procs : backend[q] # "service"
    BY <1>9 DEF Upgrades, PlacesInv
  <2>2. \A d \in Clients : pc[d] # "drop_file"
    BY <2>1, ConstantsAssumption DEF WritesInv
  <2>3. pc'[c] = "write_file" /\ putting'[c] = v
    BY <1>9 DEF TypeOK
  <2>4. \A d \in Clients : pc'[d] # "drop_file" /\ (pc'[d] = "write_file" => d = c)
    BY <1>7, <1>9, <2>2, <2>3
  <2>5. PlacesInv'
    BY <1>1, <1>2, <1>7, <1>9 DEF PlacesInv
  <2>6. WritesInv'
    BY <1>1, <1>4, <1>9, <2>1, <2>3, <2>4 DEF WritesInv
  <2> QED
    BY <1>5, <1>8, <2>5, <2>6 DEF Register!Next
<1>10. CASE up /\ ServicePut(v) /\ Upgrade(p) /\ (backend[p] = "service" \/ Upgrades(p))
            /\ pc' = [pc EXCEPT ![c] = "drop_file"] /\ UNCHANGED <<file, db, putting>>
  <2>1. /\ item'[alias] = v
        /\ \A k \in Collections : k # alias => item'[k] = item[k]
    BY <1>0, <1>10 DEF ServicePut, TypeOK
  <2>2. pc'[c] = "drop_file"
    BY <1>10 DEF TypeOK
  <2>3. world.machine # "flatpak"
    BY <1>0, <1>10 DEF Upgrades, TypeOK
  <2>4. \A q \in Procs : /\ backend'[q] \in {backend[q], "service"}
                         /\ backend'[q] = "service" => fallback'[q]
                         /\ q = p => backend'[q] = "service"
    BY <1>0, <1>10 DEF Upgrade, TypeOK, PlacesInv
  <2>5. PlacesInv'
    BY <1>0, <1>1, <1>7, <1>10, <2>1, <2>3, <2>4, ConstantsAssumption DEF PlacesInv
  <2> DEFINE R(x) == \E d \in Clients : pc'[d] = "drop_file" /\ replaced'[d] \in {0, x}
  <2>6. ASSUME NEW x, latest = 0 \/ x = latest \/ Replaces(x)  PROVE R(x)
    <3>1. CASE latest \in {0, x}
      BY <1>7, <2>2, <3>1
    <3>2. CASE Replaces(x)
      <4>1. PICK d \in Clients : pc[d] = "drop_file" /\ replaced[d] \in {0, x}
        BY <3>2 DEF Replaces
      <4>2. d # c
        BY <1>1, <4>1
      <4> QED
        BY <1>7, <4>1, <4>2
    <3> QED
      BY <2>6, <3>1, <3>2
  <2>7. \A d \in Clients : pc'[d] = "write_file" <=> pc[d] = "write_file"
    BY <1>1, <1>7, <2>2
  <2>8. \A d \in Clients : pc'[d] = "drop_file" => backend'[ProcOf[d]] = "service"
    BY <1>7, <2>4, ConstantsAssumption DEF WritesInv
  <2>9. ASSUME NEW d \in Clients, pc[d] = "write_file"
        PROVE  file \in {0, Broken} /\ (file = Broken => R(putting[d]))
    <3>1. file \in {0, Broken} /\ (latest # 0 /\ file = Broken => putting[d] = latest \/ Replaces(putting[d]))
      BY <2>9 DEF WritesInv
    <3> QED
      BY <2>6, <3>1
  <2>10. file \notin {0, Broken} => R(file)
    <3>1. latest # 0 /\ file \notin {0, Broken, latest} => Replaces(file)
      BY DEF WritesInv
    <3> QED
      BY <2>6, <3>1
  <2>11. file = Broken => \E d \in Clients : pc[d] = "write_file"
    BY DEF WritesInv
  <2>12. \A d, e \in Clients : pc[d] = "write_file" /\ pc[e] = "write_file" => d = e
    BY DEF WritesInv
  <2>13. \A x : R(x) <=> \E d \in Clients : pc'[d] = "drop_file" /\ replaced'[d] \in {0, x}
    OBVIOUS
  <2> HIDE DEF R
  <2>14. WritesInv'
    BY <1>0, <1>1, <1>4, <1>10, <2>1, <2>7, <2>8, <2>9, <2>10, <2>11, <2>12, <2>13 DEF WritesInv, Replaces
  <2> QED
    BY <1>5, <1>8, <2>5, <2>14 DEF Register!Next
<1> QED
  BY <1>3, <1>9, <1>10

\* What is written to the file is there, unless another writer has removed the file.
LEMMA WriteFileCalm ==
  ASSUME TypeOK, Calm, CInv, NEW c \in Clients, WriteFile(c) \/ WriteFileFails(c)
  PROVE  CInv' /\ [Register!Next]_history
<1> USE DEF CInv, stores, service, procs, search
<1>1. /\ pc[c] = "write_file" /\ pc' = [pc EXCEPT ![c] = "drop_db"]
      /\ file' \in IF file = 0 THEN {0} ELSE IF file = Broken THEN {putting[c]} ELSE {putting[c], Broken}
      /\ UNCHANGED <<item, db, alias, up, world, backend, fallback, migrating, pinned, got, at, history>>
  BY CalmStep DEF WriteFile, WriteFileFails, Goto
<1>2. \A d \in Clients : pc'[d] = IF d = c THEN "drop_db" ELSE pc[d]
  BY <1>1 DEF TypeOK
<1>3. file' = IF file = 0 THEN 0 ELSE putting[c]
  BY <1>1 DEF WritesInv
<1>4. file' # Broken
  BY <1>3, ConstantsAssumption DEF TypeOK, Broken
<1>5. PlacesInv'
  BY <1>1, <1>2 DEF PlacesInv
<1>6. \A d \in Clients : pc'[d] # "write_file"
  BY <1>1, <1>2 DEF WritesInv
<1>7. latest # 0 => \/ item[alias] = latest
                    \/ item[alias] = 0 /\ file' = latest
  BY <1>1, <1>3 DEF WritesInv, Broken
<1>8. latest # 0 /\ file' \notin {0, latest} => Replaces(file')
  BY <1>1, <1>3 DEF WritesInv
<1>9. /\ \A x : Replaces(x) <=> \E d \in Clients : pc'[d] = "drop_file" /\ replaced'[d] \in {0, x}
      /\ \A d \in Clients : pc'[d] = "drop_file" <=> pc[d] = "drop_file"
  BY <1>1, <1>2 DEF Replaces, history
<1>10. WritesInv'
  <2>1. latest' = latest
    BY <1>1 DEF history
  <2>2. latest' # 0 /\ file' \notin {0, Broken, latest'} =>
          \E d \in Clients : pc'[d] = "drop_file" /\ replaced'[d] \in {0, file'}
    BY <1>8, <1>9, <2>1
  <2>3. \A d \in Clients : pc'[d] = "drop_file" =>
           backend'[ProcOf[d]] = "service" /\ (latest' # 0 => item'[alias'] = latest')
    BY <1>1, <1>9, <2>1 DEF WritesInv
  <2> QED
    BY <1>1, <1>4, <1>6, <1>7, <2>1, <2>2, <2>3 DEF WritesInv, Replaces
<1>11. ASSUME NEW d \in Clients PROVE ReadInv(d)'
  BY <1>1, <1>2 DEF ReadInv, Disturbed, Register!BeingReplaced, history
<1> QED
  BY <1>1, <1>5, <1>10, <1>11

\* The copies that a write replaces go.
LEMMA DropCalm ==
  ASSUME TypeOK, Calm, CInv, NEW c \in Clients, DropFile(c) \/ DropDb(c)
  PROVE  CInv' /\ [Register!Next]_history
<1> USE DEF CInv, stores, service, procs, search, history
<1>0. ProcOf[c] \in Procs
  BY ConstantsAssumption
<1>1. CASE DropFile(c)
  <2>1. /\ pc[c] = "drop_file" /\ pc' = [pc EXCEPT ![c] = "drop_db"]
        /\ UNCHANGED <<item, db, alias, up, world, backend, fallback, migrating, pinned, got, at,
                       putting, history>>
        /\ file' = 0
    BY <1>0, <1>1, CalmStep DEF DropFile, Goto, PlacesInv, WritesInv
  <2>2. \A d \in Clients : pc'[d] = IF d = c THEN "drop_db" ELSE pc[d]
    BY <2>1 DEF TypeOK
  <2>3. latest = 0 \/ item[alias] = latest
    BY <2>1 DEF WritesInv
  <2>4. PlacesInv'
    BY <2>1, <2>2 DEF PlacesInv
  <2>5. WritesInv'
    BY <2>1, <2>2, <2>3 DEF WritesInv, Broken
  <2>6. ASSUME NEW d \in Clients PROVE ReadInv(d)'
    BY <2>1, <2>2 DEF ReadInv, Disturbed, Register!BeingReplaced
  <2> QED
    BY <2>1, <2>4, <2>5, <2>6
<1>2. CASE DropDb(c)
  <2>1. /\ pc[c] = "drop_db" /\ pc' = [pc EXCEPT ![c] = "idle"]
        /\ replaced' = [replaced EXCEPT ![c] = Register!Done]
        /\ UNCHANGED <<item, file, alias, up, world, backend, fallback, migrating, pinned, got, at,
                       putting, latest, seen, moved, blind, answer>>
        /\ db' = 0
    BY <1>2, CalmStep DEF DropDb, Goto
  <2>2. \A d \in Clients : /\ pc'[d] = IF d = c THEN "idle" ELSE pc[d]
                           /\ replaced'[d] = IF d = c THEN Register!Done ELSE replaced[d]
    BY <2>1 DEF TypeOK
  <2>3. PlacesInv'
    BY <2>1, <2>2 DEF PlacesInv
  <2>4. WritesInv'
    <3>1. \A d \in Clients : /\ pc'[d] = "drop_file" <=> pc[d] = "drop_file"
                             /\ pc'[d] = "write_file" <=> pc[d] = "write_file"
                             /\ pc[d] = "drop_file" => replaced'[d] = replaced[d]
      BY <2>1, <2>2
    <3> QED
      BY <2>1, <3>1 DEF WritesInv, Replaces
  <2>5. Register!BeingReplaced' \subseteq Register!BeingReplaced
    BY <2>2 DEF Register!BeingReplaced
  <2>6. ASSUME NEW d \in Clients PROVE ReadInv(d)'
    BY <2>1, <2>2, <2>5 DEF ReadInv, Disturbed
  <2>7. Register!EndWrite(c)
    BY <2>1 DEF Register!EndWrite
  <2> QED
    BY <2>3, <2>4, <2>6, <2>7 DEF Register!Next
<1> QED
  BY <1>1, <1>2

LEMMA DeleteCalm ==
  ASSUME TypeOK, ReadsInv, CInv, NEW c \in Clients, Delete(c) \/ DeleteKeyring(c)
  PROVE  CInv' /\ [Register!Next]_history
<1> USE DEF CInv, stores, service, procs, search
<1>0. 0 \in 0 .. MaxValue /\ alias \in Collections
  BY ConstantsAssumption DEF TypeOK
<1>1. /\ pc[c] \in {"idle", "delete"} /\ backend[ProcOf[c]] # "off"
      /\ pc' = [pc EXCEPT ![c] = "idle"] \/ pc' = [pc EXCEPT ![c] = "delete"]
      /\ Takes(0) /\ db' = 0 /\ file' \in {0, file}
      /\ UNCHANGED <<alias, up, world, backend, fallback, migrating, pinned, got, at, putting,
                     replaced, moved, blind, answer>>
  BY Running DEF Delete, DeleteKeyring, Goto, PlacesInv
<1>2. \A k \in Collections : item'[k] \in {0, item[k]}
  BY DEF Delete, DeleteKeyring, TypeOK
<1>3. /\ latest' = 0 /\ Register!Take(0)
      /\ \A d \in Clients : seen'[d] = IF seen[d] = {} THEN {} ELSE seen[d] \cup {0}
  BY <1>0, <1>1, TakesReads
<1>4. Register!Next
  BY <1>1, <1>3 DEF Register!Next, Register!Delete
<1>5. pc'[c] \in {"idle", "delete"} /\ \A d \in Clients : d # c => pc'[d] = pc[d]
  BY <1>1 DEF TypeOK
<1>6. PlacesInv'
  BY <1>0, <1>1, <1>2, <1>5 DEF PlacesInv
<1>7. WritesInv'
  BY <1>1, <1>3, <1>5 DEF WritesInv, Broken
<1>8. ASSUME NEW d \in Clients PROVE ReadInv(d)'
  <2>1. CASE seen[d] = {}
    <3>1. seen'[d] = {} /\ pc'[d] \notin {"search", "absent", "get_file", "get_db"}
      BY <1>3, <1>5, <2>1 DEF ReadsInv
    <3> QED
      BY <3>1 DEF ReadInv
  <2>2. CASE seen[d] # {}
    <3>1. 0 \in seen'[d] /\ seen[d] \subseteq seen'[d]
      BY <1>3, <2>2
    <3>2. Register!BeingReplaced \subseteq seen[d]
      BY <2>2 DEF ReadInv
    <3> QED
      BY <1>1, <3>1, <3>2 DEF ReadInv, Disturbed, Register!BeingReplaced
  <2> QED
    BY <2>1, <2>2
<1> QED
  BY <1>4, <1>6, <1>7, <1>8

LEMMA StartCalm ==
  ASSUME TypeOK, CInv, NEW p \in Procs, Start(p)
  PROVE  CInv' /\ [Register!Next]_history
<1> USE DEF CInv, stores, service, calls, search, history
<1>1. /\ backend[p] = "off" /\ \A q \in Procs \ {p} : backend'[q] = backend[q] /\ fallback'[q] = fallback[q]
      /\ UNCHANGED <<item, file, db, alias, up, world, pc, got, at, putting, history>>
      /\ pinned' \in {pinned, alias} /\ migrating' \in {migrating, "copy", "no"}
  BY DEF Start, TypeOK
<1>2. world.machine \in {"plain", "flatpak"}
  BY ConstantsAssumption DEF PlacesInv, TypeOK, World
<1>3. /\ backend'[p] \in {"service", "file"}
      /\ backend'[p] = "service" => up /\ world.machine # "flatpak" /\ fallback'[p]
  BY <1>2 DEF Start, TypeOK
<1>4. PlacesInv'
  BY <1>1, <1>3, ConstantsAssumption DEF PlacesInv
<1>5. WritesInv'
  BY <1>1, ConstantsAssumption DEF WritesInv, Replaces
<1>6. ASSUME NEW d \in Clients PROVE ReadInv(d)'
  <2>1. pc[d] # "idle" => ProcOf[d] # p
    BY <1>1 DEF PlacesInv
  <2> QED
    BY <1>1, <2>1, ConstantsAssumption DEF ReadInv, Disturbed, Register!BeingReplaced
<1> QED
  BY <1>1, <1>4, <1>5, <1>6

\* A process ends, and none of its clients is in a write.
LEMMA EndCalm ==
  ASSUME TypeOK, ReadsInv, Calm, CInv, NEW p \in Procs, End(p)
  PROVE  CInv' /\ [Register!Next]_history
<1> USE DEF CInv, stores, service
<1> DEFINE gone == {c \in Clients : ProcOf[c] = p}
<1>1. /\ \A c \in gone : replaced[c] = Register!Done
      /\ pc' = [c \in Clients |-> IF c \in gone THEN "idle" ELSE pc[c]]
      /\ got' = [c \in Clients |-> IF c \in gone THEN "missing" ELSE got[c]]
      /\ at' = [c \in Clients |-> IF c \in gone THEN Login ELSE at[c]]
      /\ putting' = [c \in Clients |-> IF c \in gone THEN 0 ELSE putting[c]]
      /\ UNCHANGED <<item, file, db, alias, pinned, up, world, latest, answer>>
  BY CalmStep DEF End
<1>2. /\ replaced' = [c \in Clients |-> IF c \in gone THEN Register!Done ELSE replaced[c]]
      /\ seen' = [c \in Clients |-> IF c \in gone THEN {} ELSE seen[c]]
      /\ moved' = [c \in Clients |-> c \notin gone /\ moved[c]]
      /\ blind' = blind \ gone
      /\ backend' = [backend EXCEPT ![p] = "off"] /\ fallback' = [fallback EXCEPT ![p] = FALSE]
      /\ migrating' \in {migrating, "no"}
  BY DEF End
<1>3. Register!Crash(gone) /\ gone \in SUBSET Clients
  BY <1>1, <1>2 DEF Register!Crash
<1>4. \A c \in Clients : c \in gone <=> ProcOf[c] = p
  OBVIOUS
<1> HIDE DEF gone
<1>5. \A c \in Clients :
        /\ pc'[c] = IF c \in gone THEN "idle" ELSE pc[c]
        /\ seen'[c] = IF c \in gone THEN {} ELSE seen[c]
        /\ c \notin gone => got'[c] = got[c] /\ at'[c] = at[c] /\ putting'[c] = putting[c]
        /\ c \notin gone => (c \in blind' <=> c \in blind)
  BY <1>1, <1>2
<1>6. \A c \in Clients : c \notin gone => moved'[c] = moved[c]
  BY <1>2 DEF TypeOK
<1>7. \A c \in Clients : replaced'[c] = replaced[c]
  BY <1>1, <1>2
<1>8. \A q \in Procs : IF q = p THEN backend'[q] = "off"
                       ELSE backend'[q] = backend[q] /\ fallback'[q] = fallback[q]
  BY <1>2 DEF TypeOK
<1>9. PlacesInv'
  BY <1>1, <1>2, <1>4, <1>5, <1>8, ConstantsAssumption DEF PlacesInv
<1>10. WritesInv'
  <2>1. \A c \in Clients : pc[c] \in {"write_file", "drop_file"} => c \notin gone
    BY <1>1 DEF ReadsInv
  <2>2. \A c \in Clients : /\ pc'[c] = "drop_file" <=> pc[c] = "drop_file"
                           /\ pc'[c] = "write_file" <=> pc[c] = "write_file"
                           /\ pc[c] = "write_file" => putting'[c] = putting[c]
                           /\ pc[c] = "drop_file" => backend'[ProcOf[c]] = backend[ProcOf[c]]
    BY <1>4, <1>5, <1>8, <2>1, ConstantsAssumption
  <2> QED
    BY <1>1, <1>7, <2>2 DEF WritesInv, Replaces
<1>11. ASSUME NEW d \in Clients PROVE ReadInv(d)'
  <2>1. Register!BeingReplaced' = Register!BeingReplaced
    BY <1>7 DEF Register!BeingReplaced
  <2>2. CASE d \in gone
    BY <1>5, <2>2 DEF ReadInv
  <2>3. CASE d \notin gone
    BY <1>1, <1>4, <1>5, <1>6, <1>8, <2>1, <2>3, ConstantsAssumption DEF ReadInv, Disturbed
  <2> QED
    BY <2>2, <2>3
<1> QED
  BY <1>3, <1>9, <1>10, <1>11 DEF Register!Next

LEMMA NextCalm ==
  ASSUME TypeOK, ReadsInv, Calm, CInv, [Next]_vars
  PROVE  CInv' /\ [Register!Next]_history
<1> USE DEF stores, service, procs, calls, search, history
<1>1. CASE Migrate \/ MigrateFails \/ MigrateRemoves
  <2>1. ~(MovesOut /\ Login \in Finds) /\ migrating # "remove"
    BY ConstantsAssumption DEF CInv, PlacesInv, MovesOut, Finds
  <2>2. /\ UNCHANGED <<item, file, db, alias, pinned, up, world, backend, fallback, calls, history>>
        /\ migrating' # "remove"
    BY <1>1, <2>1 DEF Migrate, MigrateFails, MigrateRemoves
  <2> QED
    BY <2>2, QuietCalm
<1>2. ASSUME NEW c \in Clients, PutFails(c) PROVE CInv' /\ [Register!Next]_history
  <2>1. ProcOf[c] \in Procs /\ Upgrade(ProcOf[c]) /\ migrating # "remove"
    BY <1>2, ConstantsAssumption DEF PutFails, CInv, PlacesInv
  <2> QED
    BY <1>2, <2>1, QuietCalm DEF PutFails
<1>3. CASE Appear \/ Vanish \/ Lock \/ Unlock \/ Move
  <2>1. /\ UNCHANGED <<item, file, db, alias, pinned, world, backend, fallback, migrating, calls, history>>
        /\ up' = up \/ up'
    BY <1>3, CalmStep DEF Appear, Vanish, Lock, Unlock, Move
  <2> QED
    BY <2>1, QuietCalm DEF CInv, PlacesInv
<1>4. CASE UNCHANGED vars
  BY <1>4, QuietCalm DEF vars, CInv, PlacesInv
<1> QED
  BY <1>1, <1>2, <1>3, <1>4, BeginCalm, GetBackendCalm, SearchCalm, ReadLockedCalm, GetFileCalm,
     GetDbCalm, PutCalm, WriteFileCalm, DropCalm, DeleteCalm, StartCalm, EndCalm DEF Next

\* In calm surroundings any number of processes, each with the backend it happened
\* to find, implement one regular register: what a read gives was the last value
\* written when it began, or was written, or being replaced, since.  It finds nothing
\* only beside a write, or when a locked collection passed for an open one.
THEOREM RefinesRegisterHolds ==
  ASSUME TidyWorlds  PROVE Spec => RefinesRegister
<1>1. Init => ReadsInv /\ (Calm => CInv) /\ (Calm => Register!Init)
  <2>1. Init /\ Calm => CInv
    BY InitCalm
  <2>2. Init => Register!Init
    <3>1. ASSUME Init PROVE latest \in 0 .. MaxValue
      BY <3>1, InitType, ConstantsAssumption DEF TypeOK
    <3> QED
      BY <3>1 DEF Init, Register!Init
  <2> QED
    BY <2>1, <2>2, InitDenied
<1>2. TypeOK /\ ReadsInv /\ (Calm => CInv) /\ [Next]_vars =>
        ReadsInv' /\ (Calm => CInv)' /\ [Calm => Register!Next]_history
  <2> SUFFICES ASSUME TypeOK, ReadsInv, Calm => CInv, [Next]_vars
               PROVE  ReadsInv' /\ (Calm' => CInv') /\ [Calm => Register!Next]_history
    OBVIOUS
  <2>1. world' = world
    BY DEF Next, vars, Start, End, Migrate, MigrateFails, MigrateRemoves, BeginGet, GetBackend, Search,
           ReadLocked, GetFile, GetDb, Put, PutFails, WriteFile, WriteFileFails, DropFile, DropDb,
           Delete, DeleteKeyring, Appear, Vanish, Lock, Unlock, Move
  <2>2. Calm' <=> Calm
    BY <2>1 DEF Calm
  <2> QED
    BY <2>2, NextCalm, ReadsKept
<1>3. QED
  BY <1>1, <1>2, TypeCorrect, PTL DEF Spec, RefinesRegister, history
=============================================================================
