---------------------------- MODULE Migration_proofs ----------------------------
(***************************************************************************)
(* Proofs about Migration: types, and that a success is one snapshot, for  *)
(* any number of generations, updates, failures, kills and repetitions.    *)
(*                                                                         *)
(* As long as no update has raced the attempt (SettledHolds), only the     *)
(* attempt touches the source: what it kept or linked for a file stays,    *)
(* and is what the old store still holds, since that is locked.  Whether   *)
(* metadata is relocated follows from the configuration, which is written  *)
(* once and rolled back only by the attempt that linked it.                *)
(*                                                                         *)
(* An update can race the attempt only when there was no new store, so the *)
(* attempt plans every file.  From then on the directory it works in is    *)
(* where it was (Intact), set aside with its temporary names (SetAside),   *)
(* or has given way to the update's (Replaced): then the temporary name of *)
(* the file to be linked is gone and the attempt fails, unless the update  *)
(* came before that directory was made or found.  Last, staging may have   *)
(* made the directory again for the rest of the files only (Doomed), and   *)
(* linking the first one fails.                                            *)
(***************************************************************************)
EXTENDS Migration, TLAPS

LEMMA FileFacts ==
  /\ DOMAIN File = 1 .. 3 /\ Len(File) = 3
  /\ File[1] = "conf" /\ File[2] = "meta" /\ File[3] = "page"
  /\ \A i \in 1 .. 3 : File[i] \in Files
  BY DEF File, Files

LEMMA HereFacts ==
  ASSUME TypeOK
  PROVE  /\ here \in Files /\ next \in 1 .. 3
         /\ next = 1 <=> here = "conf"
         /\ next = 2 <=> here = "meta"
         /\ next = 3 <=> here = "page"
  BY FileFacts DEF TypeOK, here

(* Advancing through the files. *)
LEMMA AdvanceFacts ==
  ASSUME TypeOK, NEW after, Advance(after)
  PROVE  /\ next' \in 1 .. 3
         /\ next = 3 => step' = after /\ next' = 1
         /\ next # 3 => step' = step /\ next' = next + 1
  BY FileFacts DEF Advance, TypeOK

LEMMA WantedType ==
  ASSUME old \in Generations, NEW f \in Files
  PROVE  Wanted(f) \in Content \cup {None}
  <1>1. Relocates \in BOOLEAN /\ old \in 0 .. MaxOld /\ 0 \in 0 .. MaxOld
    BY MigrationAssumption DEF Relocates, Generations
  <1>2. Migrated(0, TRUE) \in Content /\ Migrated(old, FALSE) \in Content
        /\ Migrated(old, Relocates) \in Content
    BY <1>1 DEF Migrated, Content
  <1> QED BY <1>2 DEF Wanted, Files

----------------------------------------------------------------------------
(* Directories. *)

LEMMA DirectoryFacts ==
  /\ None \notin Directory /\ None \notin Content
  /\ NoFiles \in [Files -> Content \cup {None}]
  /\ Empty \in Directory /\ Empty.file = NoFiles /\ Empty.temp = {}
  /\ \A f \in Files : NoFiles[f] = None
  BY MigrationAssumption DEF Directory, NoFiles, Empty

LEMMA RetempedDirectory ==
  ASSUME NEW d \in Directory, NEW temps \in SUBSET Files
  PROVE  /\ [d EXCEPT !.temp = temps] \in Directory
         /\ [d EXCEPT !.temp = temps].file = d.file
         /\ [d EXCEPT !.temp = temps].temp = temps
  BY DEF Directory

LEMMA RefiledDirectory ==
  ASSUME NEW d \in Directory, NEW f \in Files, NEW c \in Content \cup {None}
  PROVE  /\ [d EXCEPT !.file[f] = c] \in Directory
         /\ [d EXCEPT !.file[f] = c].temp = d.temp
         /\ [d EXCEPT !.file[f] = c].file[f] = c
         /\ \A g \in Files \ {f} : [d EXCEPT !.file[f] = c].file[g] = d.file[g]
  <1>1. [d EXCEPT !.file[f] = c] = [file |-> [d.file EXCEPT ![f] = c], temp |-> d.temp]
    BY DEF Directory
  <1>2. d.file \in [Files -> Content \cup {None}] /\ d.temp \in SUBSET Files
    BY DEF Directory
  <1>3. [d.file EXCEPT ![f] = c] \in [Files -> Content \cup {None}]
    BY <1>2
  <1> QED BY <1>1, <1>2, <1>3 DEF Directory

LEMMA AbandonedDirectory ==
  ASSUME NEW d \in Directory \cup {None}
  PROVE  /\ Abandoned(d) \in Directory \cup {None}
         /\ Abandoned(d) = None <=> d = None
         /\ d # None => Abandoned(d).file = d.file /\ Abandoned(d).temp = {}
  BY RetempedDirectory, DirectoryFacts DEF Abandoned

LEMMA HomeFacts ==
  ASSUME TypeOK
  PROVE  /\ \A f \in Files : Home(f) \in Directory \cup {None}
         /\ \A f \in Files : Target(f) \in Content \cup {None}
         /\ Home("conf") = config /\ Home("meta") = source /\ Home("page") = source
         /\ config # None
  BY DirectoryFacts DEF TypeOK, Home, Target, Directory, Files

LEMMA MadeFacts ==
  ASSUME TypeOK
  PROVE  /\ Made \in Directory
         /\ Home(here) # None => Made = Home(here)
         /\ Home(here) = None => Made = Empty
  BY HomeFacts, HereFacts, DirectoryFacts DEF Made

(* Putting a directory where a file belongs. *)
LEMMA PutTyped ==
  ASSUME TypeOK, NEW f \in Files, NEW d \in Directory, Put(f, d)
  PROVE  /\ config' \in Directory /\ source' \in Directory \cup {None}
         /\ Home(f)' = d
         /\ \A g \in Files : Home(g)' = IF Home(g) = Home(f) /\ (g = "conf" <=> f = "conf")
                                        THEN d ELSE Home(g)
  BY DEF Put, TypeOK, Home, Files

(* Only the temporary names change: the files stay. *)
LEMMA SameFilesPut ==
  ASSUME TypeOK, NEW f \in Files, NEW d \in Directory, Put(f, d),
         Home(f) # None => d.file = Home(f).file,
         Home(f) = None => d.file = NoFiles
  PROVE  \A g \in Files : Target(g)' = Target(g)
  <1> SUFFICES ASSUME NEW g \in Files PROVE Target(g)' = Target(g)
    OBVIOUS
  <1>1. d # None /\ NoFiles[g] = None
    BY DirectoryFacts
  <1>2. CASE f = "conf" <=> g = "conf"
    <2>1. Home(g) = Home(f) /\ Home(g)' = d
      BY <1>2 DEF Home, Put
    <2> QED BY <1>1, <2>1 DEF Target
  <1>3. CASE ~(f = "conf" <=> g = "conf")
    BY <1>3 DEF Target, Home, Put
  <1> QED BY <1>2, <1>3

(* One file changes. *)
LEMMA OneFilePut ==
  ASSUME TypeOK, NEW f \in Files, NEW d \in Directory, Put(f, d), Home(f) # None,
         \A g \in Files \ {f} : d.file[g] = Home(f).file[g]
  PROVE  /\ Target(f)' = d.file[f]
         /\ \A g \in Files \ {f} : Target(g)' = Target(g)
  <1>1. d # None
    BY DirectoryFacts
  <1>2. Home(f)' = d
    BY DEF Put, Home
  <1>3. ASSUME NEW g \in Files \ {f} PROVE Target(g)' = Target(g)
    <2>1. CASE f = "conf" <=> g = "conf"
      <3>1. Home(g) = Home(f) /\ Home(g)' = d
        BY <2>1 DEF Home, Put
      <3> QED BY <1>1, <3>1 DEF Target
    <2>2. CASE ~(f = "conf" <=> g = "conf")
      BY <2>2 DEF Target, Home, Put
    <2> QED BY <2>1, <2>2
  <1> QED BY <1>1, <1>2, <1>3 DEF Target

----------------------------------------------------------------------------
(* Type correctness. *)

(* An update counts its activation only once. *)
Budgeted ==
    updater \in {"read", "locked", "recovered", "install", "replace"} => updates < MaxUpdates

TypeInv == TypeOK /\ Budgeted

LEMMA InitTyped == Init => TypeInv
  <1> SUFFICES ASSUME Init PROVE TypeInv
    OBVIOUS
  <1>1. config \in Directory
    <2>1. PICK c \in {None} \cup [by : {"user"}, gen : {0}, moved : BOOLEAN] :
            config = [file |-> [NoFiles EXCEPT !["conf"] = c], temp |-> {}]
      BY DEF Init
    <2>2. ASSUME c # None PROVE c \in Content
      <3>1. PICK moved \in BOOLEAN : c = [by |-> "user", gen |-> 0, moved |-> moved]
        BY <2>2
      <3>2. 0 \in 0 .. MaxOld
        BY MigrationAssumption
      <3> QED BY <3>1, <3>2 DEF Content
    <2>3. [NoFiles EXCEPT !["conf"] = c] \in [Files -> Content \cup {None}]
      BY <2>2, DirectoryFacts
    <2> QED BY <2>1, <2>3 DEF Directory
  <1>2. plan \in [Files -> Content \cup {None}]
    BY DirectoryFacts DEF Init
  <1>3. 1 \in Generations /\ 0 \in 0 .. MaxUpdates /\ 0 \in 0 .. MaxFaults /\ 0 \in 0 .. 2
    BY MigrationAssumption DEF Generations
  <1>4. /\ old = 1 /\ oldLock = "free" /\ source = None /\ backup = None /\ newStore = FALSE
        /\ newLock = "free" /\ updater = "none" /\ reads = FALSE /\ updates = 0 /\ faults = 0
        /\ step = "idle" /\ next = 1 /\ linked = {} /\ raced = 0
    BY DEF Init
  <1>5. /\ newStore \in BOOLEAN /\ reads \in BOOLEAN
        /\ next \in DOMAIN File
        /\ linked \subseteq Copies
    <2>1. newStore \in BOOLEAN /\ reads \in BOOLEAN
      BY <1>4
    <2>2. 1 \in DOMAIN File
      BY FileFacts
    <2> QED BY <1>4, <2>1, <2>2
  <1>6. TypeOK
    BY <1>1, <1>2, <1>3, <1>4, <1>5 DEF TypeOK
  <1>7. updater = "none"
    BY <1>4
  <1> QED BY <1>6, <1>7 DEF TypeInv, Budgeted

(* A plan that loses nothing keeps what was linked a part of it. *)
LEMMA PlanTyped == ASSUME TypeInv, PlanFile PROVE TypeInv'
  <1>1. here \in Files /\ next \in 1 .. 3
    BY HereFacts DEF TypeInv
  <1>2. Wanted(here) \in Content \cup {None}
    BY <1>1, WantedType DEF TypeInv, TypeOK
  <1>3. /\ plan' = plan \/ (Wanted(here) # None /\ plan' = [plan EXCEPT ![here] = Wanted(here)])
        /\ UNCHANGED <<old, disk, updating, faults, linked, raced>>
    BY DEF PlanFile
  <1>4. /\ step' \in {"plan", "stage", "failed"} /\ next' \in 1 .. 3
        /\ UNCHANGED locks \/ Return("failed")
    BY <1>1, FileFacts DEF PlanFile, Return
  <1>5. oldLock' \in {"free", "migration", "stale"}
        /\ newLock' \in {"free", "migration", "updater", "stale"}
    BY <1>4 DEF Return, locks, TypeInv, TypeOK
  <1>6. plan' \in [Files -> Content \cup {None}] /\ Copies \subseteq Copies'
    BY <1>1, <1>2, <1>3 DEF TypeInv, TypeOK, Copies
  <1>7. TypeOK'
    BY <1>3, <1>4, <1>5, <1>6, FileFacts DEF TypeInv, TypeOK, disk, updating
  <1> QED BY <1>3, <1>7 DEF TypeInv, Budgeted, updating


LEMMA StageTyped == ASSUME TypeInv, StageFile PROVE TypeInv'
  <1>1. /\ UNCHANGED <<old, locks, backup, updating, faults, plan, linked, raced>>
        /\ newStore' \in BOOLEAN
    BY DEF StageFile, TypeInv, TypeOK
  <1>2. next' \in 1 .. 3 /\ step' \in {"stage", "link"}
    BY AdvanceFacts, HereFacts DEF StageFile, TypeInv
  <1>3. config' \in Directory /\ source' \in Directory \cup {None}
    <2>1. CASE here \in Copies
      <3> DEFINE d == [Made EXCEPT !.temp = @ \cup {here}]
      <3>1. Made \in Directory /\ here \in Files
        BY MadeFacts, HereFacts DEF TypeInv
      <3>2. Made.temp \cup {here} \in SUBSET Files
        BY <3>1 DEF Directory
      <3>3. d \in Directory
        BY <3>1, <3>2, RetempedDirectory
      <3>4. Put(here, d)
        BY <2>1 DEF StageFile
      <3> QED BY <3>1, <3>3, <3>4, PutTyped DEF TypeInv
    <2>2. CASE here \notin Copies
      BY <2>2 DEF StageFile, TypeInv, TypeOK
    <2> QED BY <2>1, <2>2
  <1>4. TypeOK'
    BY <1>1, <1>2, <1>3, FileFacts DEF TypeInv, TypeOK, locks, updating, Copies
  <1> QED BY <1>1, <1>4 DEF TypeInv, Budgeted, updating

LEMMA LinkTyped == ASSUME TypeInv, LinkFile PROVE TypeInv'
  <1>1. UNCHANGED <<old, locks, backup, newStore, updating, faults, plan, raced>>
    BY DEF LinkFile
  <1>2. Advance("unstage") \/ Fail
    BY DEF LinkFile
  <1>3. next' \in 1 .. 3 /\ step' \in {"link", "unstage", "rollback"}
    BY <1>2, AdvanceFacts, HereFacts DEF LinkFile, TypeInv, Fail
  <1>4. linked' \subseteq Copies
    BY DEF LinkFile, TypeInv, TypeOK
  <1>5. config' \in Directory /\ source' \in Directory \cup {None}
    <2>1. CASE here \in Copies /\ IsStaged(here) /\ Target(here) = None
      <3> DEFINE d == [Home(here) EXCEPT !.file[here] = plan[here]]
      <3>1. Home(here) \in Directory /\ here \in Files /\ plan[here] \in Content \cup {None}
        BY <2>1, HomeFacts, HereFacts DEF TypeInv, TypeOK, IsStaged
      <3>2. d \in Directory
        BY <3>1, RefiledDirectory
      <3>3. Put(here, d)
        BY <2>1 DEF LinkFile
      <3> HIDE DEF d
      <3> QED BY <3>1, <3>2, <3>3, PutTyped DEF TypeInv
    <2>2. CASE ~(here \in Copies /\ IsStaged(here) /\ Target(here) = None)
      BY <2>2 DEF LinkFile, TypeInv, TypeOK
    <2> QED BY <2>1, <2>2
  <1>6. TypeOK'
    BY <1>1, <1>3, <1>4, <1>5, FileFacts DEF TypeInv, TypeOK, locks, updating, Copies
  <1> QED BY <1>1, <1>6 DEF TypeInv, Budgeted, updating

LEMMA UnstageTyped == ASSUME TypeInv, UnstageFile PROVE TypeInv'
  <1>1. UNCHANGED <<old, locks, backup, newStore, updating, faults, plan, linked, raced>>
    BY DEF UnstageFile
  <1>2. Advance("permit") \/ Fail
    BY DEF UnstageFile
  <1>3. next' \in 1 .. 3 /\ step' \in {"unstage", "permit", "rollback"}
    BY <1>2, AdvanceFacts, HereFacts DEF UnstageFile, TypeInv, Fail
  <1>4. config' \in Directory /\ source' \in Directory \cup {None}
    <2>1. CASE here \in Copies /\ IsStaged(here)
      <3> DEFINE d == [Home(here) EXCEPT !.temp = @ \ {here}]
      <3>1. Home(here) \in Directory /\ here \in Files
        BY <2>1, HomeFacts, HereFacts DEF TypeInv, IsStaged
      <3>2. Home(here).temp \ {here} \in SUBSET Files
        BY <3>1 DEF Directory
      <3>3. d \in Directory
        BY <3>1, <3>2, RetempedDirectory
      <3>4. Put(here, d)
        BY <2>1 DEF UnstageFile
      <3> HIDE DEF d
      <3> QED BY <3>1, <3>3, <3>4, PutTyped DEF TypeInv
    <2>2. CASE ~(here \in Copies /\ IsStaged(here))
      BY <2>2 DEF UnstageFile, TypeInv, TypeOK
    <2> QED BY <2>1, <2>2
  <1>5. TypeOK'
    BY <1>1, <1>3, <1>4, FileFacts DEF TypeInv, TypeOK, locks, updating, Copies
  <1> QED BY <1>1, <1>5 DEF TypeInv, Budgeted, updating

LEMMA RollbackTyped == ASSUME TypeInv, RollbackFile PROVE TypeInv'
  <1>1. UNCHANGED <<old, locks, backup, newStore, updating, plan, linked, raced>>
    BY DEF RollbackFile
  <1>2. next' \in 1 .. 3 /\ step' \in {"rollback", "clean"}
    BY AdvanceFacts, HereFacts DEF RollbackFile, TypeInv
  <1>3. faults' \in 0 .. MaxFaults
    BY MigrationAssumption DEF RollbackFile, Faulty, TypeInv, TypeOK
  <1>4. config' \in Directory /\ source' \in Directory \cup {None}
    <2>1. CASE Home(here) # None /\ Put(here, [Home(here) EXCEPT !.file[here] = None])
      <3> DEFINE d == [Home(here) EXCEPT !.file[here] = None]
      <3>1. Home(here) \in Directory /\ here \in Files
        BY <2>1, HomeFacts, HereFacts DEF TypeInv
      <3>2. d \in Directory
        BY <3>1, RefiledDirectory
      <3>3. Put(here, d)
        BY <2>1
      <3> HIDE DEF d
      <3> QED BY <3>1, <3>2, <3>3, PutTyped DEF TypeInv
    <2>2. CASE UNCHANGED <<config, source>>
      BY <2>2 DEF TypeInv, TypeOK
    <2> QED BY <2>1, <2>2 DEF RollbackFile
  <1>5. TypeOK'
    BY <1>1, <1>2, <1>3, <1>4, FileFacts DEF TypeInv, TypeOK, locks, updating, Copies
  <1> QED BY <1>1, <1>5 DEF TypeInv, Budgeted, updating

(* The migration gives its temporary names up. *)
LEMMA AbandonTyped ==
  ASSUME TypeInv, Abandon
  PROVE  /\ config' \in Directory /\ source' \in Directory \cup {None}
         /\ backup' \in Directory \cup {None} /\ newStore' = newStore
         /\ source' = None <=> source = None
         /\ backup' = None <=> backup = None
  BY AbandonedDirectory, DirectoryFacts DEF Abandon, TypeInv, TypeOK

LEMMA ReturnTyped ==
  ASSUME TypeInv, NEW result, Return(result)
  PROVE  /\ step' = result /\ next' = 1 /\ oldLock' = "free"
         /\ newLock' \in {"free", "updater", "stale"}
  BY DEF Return, TypeInv, TypeOK

LEMMA MigrateTyped == ASSUME TypeInv, Migrate PROVE TypeInv'
  <1>1. CASE Start
    <2>1. /\ plan' = NoFiles /\ linked' = {} /\ next' = 1 /\ raced' = 0
          /\ UNCHANGED <<old, disk, updating, faults>>
          /\ step' \in {"plan", "failed"}
      BY <1>1 DEF Start
    <2>2. oldLock' \in {"free", "migration", "stale"}
          /\ newLock' \in {"free", "migration", "updater", "stale"}
      BY <1>1 DEF Start, locks, TypeInv, TypeOK
    <2>3. plan' \in [Files -> Content \cup {None}]
      BY <2>1, DirectoryFacts
    <2>4. TypeOK'
      BY <2>1, <2>2, <2>3, FileFacts DEF TypeInv, TypeOK, disk, updating
    <2> QED BY <2>1, <2>4 DEF TypeInv, Budgeted, updating
  <1>2. CASE PermitFile
    <2>1. UNCHANGED <<old, disk, updating, faults, plan, linked, raced>>
      BY <1>2 DEF PermitFile
    <2>2. /\ next' \in 1 .. 3 /\ step' \in {"permit", "done", "rollback"}
          /\ oldLock' \in {"free", "migration", "stale"}
          /\ newLock' \in {"free", "migration", "updater", "stale"}
      <3>1. CASE Return("done")
        BY <3>1, ReturnTyped
      <3>2. CASE UNCHANGED locks /\ (Fail \/ Advance("done"))
        BY <1>2, <3>2, AdvanceFacts, HereFacts DEF PermitFile, Fail, locks, TypeInv, TypeOK
      <3> QED BY <1>2, <3>1, <3>2 DEF PermitFile
    <2>3. TypeOK'
      BY <2>1, <2>2, FileFacts DEF TypeInv, TypeOK, disk, updating, Copies
    <2> QED BY <2>1, <2>3 DEF TypeInv, Budgeted, updating
  <1>3. CASE CleanUp
    <2>1. /\ UNCHANGED <<old, updating, faults, plan, linked, raced>>
          /\ Abandon /\ Return("failed")
      BY <1>3 DEF CleanUp
    <2>2. TypeOK'
      BY <2>1, AbandonTyped, ReturnTyped, FileFacts DEF TypeInv, TypeOK, updating, Copies
    <2> QED BY <2>1, <2>2 DEF TypeInv, Budgeted, updating
  <1> QED BY <1>1, <1>2, <1>3, PlanTyped, StageTyped, LinkTyped, UnstageTyped, RollbackTyped
          DEF Migrate

LEMMA FaultsTyped ==
  ASSUME TypeInv, Faulty PROVE faults' \in 0 .. MaxFaults
  BY MigrationAssumption DEF Faulty, TypeInv, TypeOK

LEMMA BreakingTyped == ASSUME TypeInv, PlanFails \/ CallFails \/ Kill PROVE TypeInv'
  <1>1. faults' \in 0 .. MaxFaults
    BY FaultsTyped DEF PlanFails, CallFails, Kill
  <1>2. CASE PlanFails
    <2>1. UNCHANGED <<old, disk, updating, plan, linked, raced>> /\ Return("failed")
      BY <1>2 DEF PlanFails
    <2>2. TypeOK'
      BY <1>1, <2>1, ReturnTyped, FileFacts DEF TypeInv, TypeOK, disk, updating, Copies
    <2> QED BY <2>1, <2>2 DEF TypeInv, Budgeted, updating
  <1>3. CASE CallFails
    <2>1. /\ UNCHANGED <<old, locks, backup, updating, plan, linked, raced>>
          /\ step' = "rollback" /\ next' = 1 /\ newStore' \in BOOLEAN
      BY <1>3 DEF CallFails, Fail, TypeInv, TypeOK
    <2>2. config' \in Directory /\ source' \in Directory \cup {None}
      <3>1. CASE UNCHANGED <<config, source>>
        BY <3>1 DEF TypeInv, TypeOK
      <3>2. CASE \E temp \in SUBSET {here} : Put(here, [Made EXCEPT !.temp = @ \cup temp])
        <4>1. PICK temp \in SUBSET {here} : Put(here, [Made EXCEPT !.temp = @ \cup temp])
          BY <3>2
        <4> DEFINE d == [Made EXCEPT !.temp = @ \cup temp]
        <4>2. Made \in Directory /\ here \in Files
          BY MadeFacts, HereFacts DEF TypeInv
        <4>3. Made.temp \cup temp \in SUBSET Files
          BY <4>2 DEF Directory
        <4>4. d \in Directory
          BY <4>2, <4>3, RetempedDirectory
        <4>5. Put(here, d)
          BY <4>1
        <4> HIDE DEF d
        <4> QED BY <4>2, <4>4, <4>5, PutTyped DEF TypeInv
      <3> QED BY <1>3, <3>1, <3>2 DEF CallFails
    <2>3. TypeOK'
      BY <1>1, <2>1, <2>2, FileFacts DEF TypeInv, TypeOK, locks, updating, Copies
    <2> QED BY <2>1, <2>3 DEF TypeInv, Budgeted, updating
  <1>4. CASE Kill
    <2>1. /\ step' = "idle" /\ next' = 1 /\ plan' = NoFiles /\ linked' = {}
          /\ oldLock' = "stale" /\ Abandon /\ UNCHANGED <<old, updating, raced>>
          /\ newLock' \in {"free", "updater", "stale"}
      BY <1>4 DEF Kill, TypeInv, TypeOK
    <2>2. plan' \in [Files -> Content \cup {None}]
      BY <2>1, DirectoryFacts
    <2>3. TypeOK'
      BY <1>1, <2>1, <2>2, AbandonTyped, FileFacts DEF TypeInv, TypeOK, updating
    <2> QED BY <2>1, <2>3 DEF TypeInv, Budgeted, updating
  <1> QED BY <1>2, <1>3, <1>4

LEMMA UpstreamFacts ==
  ASSUME TypeInv, NEW gen \in Generations
  PROVE  /\ Upstream(gen) \in Directory
         /\ Is(Upstream(gen).file["meta"], gen, reads)
         /\ gen \notin Bare => Is(Upstream(gen).file["page"], gen, FALSE)
         /\ gen \in Bare => Upstream(gen).file["page"] = None
         /\ Upstream(gen).temp = {}
  <1> DEFINE meta == [by |-> "update", gen |-> gen, moved |-> reads]
             page == [by |-> "update", gen |-> gen, moved |-> FALSE]
  <1>1. gen \in 0 .. MaxOld /\ reads \in BOOLEAN
    BY MigrationAssumption DEF Generations, TypeInv, TypeOK
  <1>2. meta \in Content /\ page \in Content /\ meta # None /\ page # None
    <2>1. meta \in Content /\ page \in Content
      BY <1>1 DEF Content
    <2> QED BY <2>1, DirectoryFacts
  <1>3. /\ Upstream(gen).temp = {} /\ Upstream(gen).file["conf"] = None
        /\ Upstream(gen).file["meta"] = meta
        /\ Upstream(gen).file["page"] = IF gen \in Bare THEN None ELSE page
    BY DEF Upstream, Files
  <1>4. Upstream(gen) \in Directory
    BY <1>2 DEF Upstream, Directory, Files
  <1> QED BY <1>2, <1>3, <1>4 DEF Is

LEMMA UpdateTyped == ASSUME TypeInv, UpdateOld \/ Update \/ UpdateFails \/ UpdateDies PROVE TypeInv'
  <1>1. CASE UpdateOld
    <2>1. old' \in Generations /\ UNCHANGED <<locks, disk, updating, faults, migration, raced>>
      BY <1>1, MigrationAssumption DEF UpdateOld, Generations, TypeInv, TypeOK
    <2>2. TypeOK'
      BY <2>1 DEF TypeInv, TypeOK, locks, disk, updating, migration, Copies
    <2> QED BY <2>1, <2>2 DEF TypeInv, Budgeted, updating
  <1>2. CASE UpdateReads
    <2>1. Target("conf").moved \in BOOLEAN
      BY <1>2, HomeFacts DEF UpdateReads, TypeInv, Content, Files
    <2>2. TypeOK'
      BY <1>2, <2>1 DEF UpdateReads, TypeInv, TypeOK, locks, disk, migration, Copies
    <2> QED BY <1>2, <2>2 DEF UpdateReads, TypeInv, Budgeted
  <1>3. CASE UpdateLocks
    <2>1. /\ UNCHANGED <<old, oldLock, config, source, backup, reads, updates, faults, migration>>
          /\ newStore' \in BOOLEAN /\ updater = "read"
          /\ newLock' \in {"free", "migration", "updater", "stale"}
          /\ updater' \in {"locked", "none"} /\ raced' \in 0 .. 2
      BY <1>3 DEF UpdateLocks, TypeInv, TypeOK
    <2>2. TypeOK'
      BY <2>1 DEF TypeInv, TypeOK, migration, Copies
    <2> QED BY <2>1, <2>2 DEF TypeInv, Budgeted
  <1>4. CASE UpdateRecovers \/ UpdatePreserves \/ UpdateRestores \/ UpdateDiscards
    <2>1. /\ UNCHANGED <<old, locks, config, newStore, reads, faults, migration, raced, updates>>
          /\ source' \in Directory \cup {None} /\ backup' \in Directory \cup {None}
          /\ updater' \in {"recovered", "install", "replace", "over"}
          /\ updater' = "over" \/ updater \in {"locked", "recovered"}
      BY <1>4 DEF UpdateRecovers, UpdatePreserves, UpdateRestores, UpdateDiscards, Works,
                  TypeInv, TypeOK
    <2>2. TypeOK'
      BY <2>1 DEF TypeInv, TypeOK, locks, migration, Copies
    <2> QED BY <2>1, <2>2 DEF TypeInv, Budgeted
  <1>5. CASE UpdateActivates
    <2>1. /\ UNCHANGED <<old, locks, config, newStore, reads, faults, migration, raced, backup>>
          /\ source' \in Directory \cup {None}
          /\ updater' \in {"activated", "restore", "over"}
          /\ updates < MaxUpdates /\ (updates' = updates + 1 \/ updates' = updates)
      BY <1>5, UpstreamFacts DEF UpdateActivates, Works, TypeInv, TypeOK, Budgeted
    <2>2. updates' \in 0 .. MaxUpdates
      BY <2>1, MigrationAssumption DEF TypeInv, TypeOK
    <2>3. TypeOK'
      BY <2>1, <2>2 DEF TypeInv, TypeOK, locks, migration, Copies
    <2> QED BY <2>1, <2>3 DEF TypeInv, Budgeted
  <1>6. CASE UpdateEnds \/ UpdateFails \/ UpdateDies
    <2>1. /\ UNCHANGED <<old, oldLock, disk, reads, updates, migration, raced>>
          /\ newLock' \in {"free", "migration", "updater", "stale"}
          /\ updater' \in {"none", "over", "restore"}
      BY <1>6 DEF UpdateEnds, UpdateFails, UpdateDies, locks, TypeInv, TypeOK
    <2>2. faults' \in 0 .. MaxFaults
      BY <1>6, FaultsTyped DEF UpdateEnds, UpdateFails, UpdateDies, TypeInv, TypeOK
    <2>3. TypeOK'
      BY <2>1, <2>2 DEF TypeInv, TypeOK, disk, migration, Copies
    <2> QED BY <2>1, <2>3 DEF TypeInv, Budgeted
  <1> QED BY <1>1, <1>2, <1>3, <1>4, <1>5, <1>6 DEF Update

LEMMA NextTyped == TypeInv /\ [Next]_vars => TypeInv'
  <1> SUFFICES ASSUME TypeInv, [Next]_vars PROVE TypeInv'
    OBVIOUS
  <1>1. CASE ClearStaleLock
    BY <1>1 DEF ClearStaleLock, TypeInv, TypeOK, Budgeted, disk, updating, migration, Copies
  <1>2. CASE UNCHANGED vars
    BY <1>2 DEF vars, locks, disk, updating, migration, TypeInv, TypeOK, Budgeted, Copies
  <1> QED BY <1>1, <1>2, MigrateTyped, BreakingTyped, UpdateTyped DEF Next

(* Every reachable state of the migration and of the updates beside it is  *)
(* well typed; what was linked was planned, and stays so until the next    *)
(* attempt.                                                                *)
THEOREM TypeCorrect == Spec => []TypeOK
  <1>1. TypeInv => TypeOK
    BY DEF TypeInv
  <1> QED BY <1>1, InitTyped, NextTyped, PTL DEF Spec

----------------------------------------------------------------------------
(* What each step does to the installed files. *)

LEMMA StageTargets ==
  ASSUME TypeOK, StageFile PROVE \A g \in Files : Target(g)' = Target(g)
  <1>1. CASE here \in Copies
    <2> DEFINE d == [Made EXCEPT !.temp = @ \cup {here}]
    <2>1. Made \in Directory /\ here \in Files
      BY MadeFacts, HereFacts
    <2>2. Made.temp \cup {here} \in SUBSET Files
      BY <2>1 DEF Directory
    <2>3. d \in Directory /\ d.file = Made.file
      BY <2>1, <2>2, RetempedDirectory
    <2>4. Put(here, d)
      BY <1>1 DEF StageFile
    <2>5. /\ Home(here) # None => d.file = Home(here).file
          /\ Home(here) = None => d.file = NoFiles
      BY <2>3, MadeFacts, DirectoryFacts
    <2> HIDE DEF d
    <2> QED BY <2>1, <2>3, <2>4, <2>5, SameFilesPut
  <1>2. CASE here \notin Copies
    BY <1>2 DEF StageFile, Target, Home
  <1> QED BY <1>1, <1>2

LEMMA UnstageTargets ==
  ASSUME TypeOK, UnstageFile PROVE \A g \in Files : Target(g)' = Target(g)
  <1>1. CASE here \in Copies /\ IsStaged(here)
    <2> DEFINE d == [Home(here) EXCEPT !.temp = @ \ {here}]
    <2>1. Home(here) \in Directory /\ here \in Files /\ Home(here) # None
      BY <1>1, HomeFacts, HereFacts DEF IsStaged
    <2>2. Home(here).temp \ {here} \in SUBSET Files
      BY <2>1 DEF Directory
    <2>3. d \in Directory /\ d.file = Home(here).file
      BY <2>1, <2>2, RetempedDirectory
    <2>4. Put(here, d)
      BY <1>1 DEF UnstageFile
    <2> HIDE DEF d
    <2> QED BY <2>1, <2>3, <2>4, SameFilesPut
  <1>2. CASE ~(here \in Copies /\ IsStaged(here))
    BY <1>2 DEF UnstageFile, Target, Home
  <1> QED BY <1>1, <1>2

LEMMA CallFailsTargets ==
  ASSUME TypeOK, CallFails PROVE \A g \in Files : Target(g)' = Target(g)
  <1>1. CASE UNCHANGED <<config, source>>
    BY <1>1 DEF Target, Home
  <1>2. CASE \E temp \in SUBSET {here} : Put(here, [Made EXCEPT !.temp = @ \cup temp])
    <2>1. PICK temp \in SUBSET {here} : Put(here, [Made EXCEPT !.temp = @ \cup temp])
      BY <1>2
    <2> DEFINE d == [Made EXCEPT !.temp = @ \cup temp]
    <2>2. Made \in Directory /\ here \in Files
      BY MadeFacts, HereFacts
    <2>3. Made.temp \cup temp \in SUBSET Files
      BY <2>2 DEF Directory
    <2>4. d \in Directory /\ d.file = Made.file
      BY <2>2, <2>3, RetempedDirectory
    <2>5. Put(here, d)
      BY <2>1
    <2>6. /\ Home(here) # None => d.file = Home(here).file
          /\ Home(here) = None => d.file = NoFiles
      BY <2>4, MadeFacts, DirectoryFacts
    <2> HIDE DEF d
    <2> QED BY <2>2, <2>4, <2>5, <2>6, SameFilesPut
  <1> QED BY <1>1, <1>2 DEF CallFails

LEMMA AbandonTargets ==
  ASSUME TypeOK, Abandon PROVE \A g \in Files : Target(g)' = Target(g)
  BY AbandonedDirectory DEF Abandon, Target, Home, TypeOK

(* Linking installs the file at hand, or nothing. *)
LEMMA LinkTargets ==
  ASSUME TypeOK, LinkFile, NEW f \in Files, f = here
  PROVE  \/ /\ f \notin Copies /\ Advance("unstage") /\ linked' = linked
            /\ UNCHANGED <<config, source>>
            /\ \A g \in Files : Target(g)' = Target(g)
         \/ /\ f \in Copies /\ IsStaged(f) /\ Target(f) = None
            /\ Advance("unstage") /\ linked' = linked \cup {f}
            /\ Target(f)' = plan[f]
            /\ \A g \in Files \ {f} : Target(g)' = Target(g)
         \/ Fail /\ linked' = linked /\ \A g \in Files : Target(g)' = Target(g)
  <1>1. CASE f \in Copies /\ IsStaged(f) /\ Target(f) = None
    <2> DEFINE d == [Home(f) EXCEPT !.file[f] = plan[f]]
    <2>1. /\ Home(f) \in Directory /\ plan[f] \in Content \cup {None} /\ Home(f) # None
      BY <1>1, HomeFacts DEF TypeOK, IsStaged
    <2>2. /\ d \in Directory /\ d.file[f] = plan[f]
          /\ \A g \in Files \ {f} : d.file[g] = Home(f).file[g]
      BY <2>1, RefiledDirectory
    <2>3. Put(f, d) /\ Advance("unstage") /\ linked' = linked \cup {f}
      BY <1>1 DEF LinkFile
    <2> HIDE DEF d
    <2>4. Target(f)' = plan[f] /\ \A g \in Files \ {f} : Target(g)' = Target(g)
      BY <2>1, <2>2, <2>3, OneFilePut
    <2> QED BY <1>1, <2>3, <2>4
  <1>2. CASE ~(f \in Copies /\ IsStaged(f) /\ Target(f) = None)
    <2>1. UNCHANGED <<config, source>>
      BY <1>2 DEF LinkFile
    <2>2. \A g \in Files : Target(g)' = Target(g)
      BY <2>1 DEF Target, Home
    <2> QED BY <1>2, <2>1, <2>2 DEF LinkFile
  <1> QED BY <1>1, <1>2

LEMMA RollbackTargets ==
  ASSUME TypeOK, RollbackFile, NEW f \in Files, f = here
  PROVE  \/ \A g \in Files : Target(g)' = Target(g)
         \/ /\ f \in linked /\ Target(f)' = None
            /\ \A g \in Files \ {f} : Target(g)' = Target(g)
  <1>1. CASE f \in linked /\ Home(f) # None /\ Put(f, [Home(f) EXCEPT !.file[f] = None])
    <2> DEFINE d == [Home(f) EXCEPT !.file[f] = None]
    <2>1. Home(f) \in Directory /\ Home(f) # None
      BY <1>1, HomeFacts
    <2>2. /\ d \in Directory /\ d.file[f] = None
          /\ \A g \in Files \ {f} : d.file[g] = Home(f).file[g]
      BY <2>1, RefiledDirectory
    <2>3. Put(f, d)
      BY <1>1
    <2> HIDE DEF d
    <2>4. Target(f)' = None /\ \A g \in Files \ {f} : Target(g)' = Target(g)
      BY <2>1, <2>2, <2>3, OneFilePut
    <2> QED BY <1>1, <2>4
  <1>2. CASE UNCHANGED <<config, source>>
    BY <1>2 DEF Target, Home
  <1> QED BY <1>1, <1>2 DEF RollbackFile

(* No step of others changes the configuration. *)
LEMMA OtherTargets ==
  ASSUME TypeOK, Start \/ PlanFile \/ PermitFile \/ PlanFails \/ ClearStaleLock \/ UpdateOld
                 \/ UpdateReads \/ UpdateLocks \/ UpdateEnds \/ UpdateFails \/ UpdateDies
                 \/ UNCHANGED vars
  PROVE  /\ UNCHANGED <<config, source, backup>>
         /\ \A g \in Files : Target(g)' = Target(g)
  <1>1. UNCHANGED <<config, source, backup>>
    BY DEF Start, PlanFile, PermitFile, PlanFails, ClearStaleLock, UpdateOld, UpdateReads,
           UpdateLocks, UpdateEnds, UpdateFails, UpdateDies, vars, disk
  <1> QED BY <1>1 DEF Target, Home

----------------------------------------------------------------------------
(* One snapshot: the invariant. *)

(* The phases of an attempt: planning, then staging to permissions. *)
Committing == step \in {"plan", "stage", "link", "unstage", "permit"}
(* The i-th file has been decided on, has its temporary name, is installed. *)
Decided(i) == Committing /\ (step = "plan" => i < next)
Prepared(i) == Decided(i) /\ step # "plan" /\ (step = "stage" => i < next)
Published(i) == Prepared(i) /\ step # "stage" /\ (step = "link" => i < next)
Settled(i) == IF plan[File[i]] = None THEN Decided(i) ELSE Published(i)

Working == updater \notin {"none", "read"}

(* Who holds the lock files, and what a lock leaves out. *)
LockOwners ==
    /\ Running <=> oldLock = "migration"
    /\ newLock = "migration" => Running /\ raced = 0
    /\ Working <=> newLock = "updater"
    /\ Running /\ newLock = "updater" => raced # 0
    /\ ~newStore => source = None /\ backup = None /\ newLock = "free"

(* The configuration tells once whether metadata is relocated. *)
Moved == IF Target("conf") = None THEN TRUE ELSE Target("conf").moved
ConfigurationHolds ==
    /\ Committing /\ plan["conf"] # None => plan["conf"] = Migrated(0, TRUE)
    /\ Settled(1) => Target("conf") # None
    /\ Decided(1) => Relocates = Moved
    /\ "conf" \in linked => Moved = TRUE
    /\ updater # "none" => reads = Moved

(* What is planned for the source was wanted, and is still. *)
PlanHolds ==
    Committing =>
        /\ \A f \in InSource : plan[f] # None => plan[f] = Wanted(f)
        /\ \A i \in 1 .. 3 : plan[File[i]] # None => Decided(i)

(* Without an update beside it, what was kept or linked is there. *)
SettledHolds ==
    raced = 0 =>
        /\ Settled(2) => Is(Target("meta"), old, Relocates)
        /\ Settled(3) /\ old \notin Bare => Is(Target("page"), old, FALSE)

(* An attempt that did not lock the new store, and one update at most. *)
Open == Committing /\ newLock # "migration" /\ raced # 2

(* It plans all there is. *)
PlansAll ==
    /\ Decided(2) => plan["meta"] # None
    /\ Decided(3) => (plan["page"] = None <=> old \in Bare)
(* A directory with what the attempt has made so far. *)
Progress(directory) ==
    /\ Prepared(2) <=> directory # None
    /\ directory # None =>
        /\ directory.file["meta"] = IF Published(2) THEN plan["meta"] ELSE None
        /\ directory.file["page"] = IF Published(3) THEN plan["page"] ELSE None
(* It stands under the source's name ... *)
Intact ==
    /\ PlansAll /\ Progress(source) /\ backup = None
    /\ updater \notin {"replace", "restore", "activated"}
(* ... or the update has set it aside, *)
SetAside ==
    /\ raced = 1 /\ PlansAll /\ Progress(backup) /\ backup # None /\ source = None
    /\ updater \in {"none", "read", "replace", "restore", "over"}
(* or replaced it, *)
Replaced ==
    /\ raced = 1
    /\ updater \in {"none", "read", "activated", "over"}
    /\ source # None
    /\ \E gen \in Generations :
         /\ Holds(source, gen, Moved)
         /\ gen \in Bare => source.file["page"] = None
         /\ Decided(2) /\ plan["meta"] = None => gen = old
    /\ Decided(3) /\ plan["meta"] = None => plan["page"] = None
    /\ step = "link" /\ next = 3 /\ plan["page"] # None => "page" \notin source.temp
(* or the directory was created again without it, and linking will fail. *)
Doomed ==
    /\ raced = 1
    /\ updater \in {"none", "read", "replace", "restore", "over"}
    /\ plan["meta"] # None
    /\ step = "link" /\ next \in 1 .. 2
    /\ source # None /\ source.temp = {"page"}

Traceable == Open => Intact \/ SetAside \/ Replaced \/ Doomed

SnapshotInv == LockOwners /\ ConfigurationHolds /\ PlanHolds /\ SettledHolds /\ Traceable

LEMMA InitSnapshot == Init => SnapshotInv
  <1> SUFFICES ASSUME Init PROVE SnapshotInv
    OBVIOUS
  <1>1. /\ step = "idle" /\ oldLock = "free" /\ newLock = "free" /\ newStore = FALSE
        /\ source = None /\ backup = None /\ updater = "none" /\ linked = {}
    BY DEF Init
  <1>2. ~Committing /\ ~Running /\ ~Working
    BY <1>1 DEF Committing, Running, Working
  <1>3. LockOwners
    BY <1>1, <1>2 DEF LockOwners
  <1> QED BY <1>1, <1>2, <1>3 DEF SnapshotInv, ConfigurationHolds, PlanHolds, SettledHolds,
                                  Traceable, Open, Settled, Published, Prepared, Decided

(* Between attempts and while one rolls back, little is to be said. *)
LEMMA OffSnapshot ==
  ASSUME LockOwners', ~Committing', "conf" \in linked' => Moved' = TRUE,
         updater' # "none" => reads' = Moved'
  PROVE  SnapshotInv'
  BY DEF SnapshotInv, ConfigurationHolds, PlanHolds, SettledHolds,
         Traceable, Open, Settled, Published, Prepared, Decided

LEMMA LocksKept == ASSUME TypeInv, LockOwners, [Next]_vars PROVE LockOwners'
  <1>1. CASE Start
    BY <1>1 DEF Start, LockOwners, Running, Working, locks, disk, updating
  <1>2. CASE PlanFile \/ PermitFile \/ CleanUp \/ PlanFails
    <2>1. Running /\ UNCHANGED <<updater, raced>>
      BY <1>2 DEF PlanFile, PermitFile, CleanUp, PlanFails, Running, updating
    <2>2. \/ Return("failed") \/ Return("done")
          \/ UNCHANGED locks /\ step' \in {"plan", "stage", "permit", "rollback"}
      <3>1. CASE PlanFile
        BY <3>1 DEF PlanFile
      <3>2. CASE PermitFile
        <4>1. Advance("done") /\ next # 3 => step' = "permit"
          BY <3>2, AdvanceFacts DEF PermitFile, TypeInv
        <4> QED BY <3>2, <4>1, FileFacts DEF PermitFile, Fail
      <3> QED BY <1>2, <3>1, <3>2 DEF CleanUp, PlanFails
    <2>3. UNCHANGED newStore /\ (~newStore => source' = source /\ backup' = backup)
      BY <1>2 DEF PlanFile, PermitFile, CleanUp, PlanFails, Abandon, Abandoned, LockOwners, disk
    <2> QED BY <2>1, <2>2, <2>3 DEF LockOwners, Running, Working, Return, locks
  <1>3. CASE StageFile \/ LinkFile \/ UnstageFile \/ RollbackFile \/ CallFails
    <2>1. Running /\ Running' /\ UNCHANGED <<locks, updater, raced, backup>>
      <3>1. step' \in {"stage", "link", "unstage", "permit", "rollback", "clean"}
        BY <1>3, AdvanceFacts, HereFacts
           DEF StageFile, LinkFile, UnstageFile, RollbackFile, CallFails, Fail, TypeInv
      <3> QED BY <1>3, <3>1 DEF StageFile, LinkFile, UnstageFile, RollbackFile, CallFails,
                                Running, updating
    <2>2. newStore => newStore'
      BY <1>3 DEF StageFile, LinkFile, UnstageFile, RollbackFile, CallFails
    <2>3. source' = source \/ newStore' \/ source # None
      <3>1. here \in Files /\ (here # "conf" => here \in InSource)
        BY HereFacts DEF TypeInv, Files, InSource
      <3> QED BY <1>3, <3>1 DEF StageFile, LinkFile, UnstageFile, RollbackFile, CallFails,
                                Put, Home, IsStaged
    <2> QED BY <2>1, <2>2, <2>3 DEF LockOwners, Working, locks
  <1>4. CASE Kill
    BY <1>4 DEF Kill, Abandon, Abandoned, LockOwners, Running, Working, updating, disk
  <1>5. CASE ClearStaleLock
    BY <1>5 DEF ClearStaleLock, LockOwners, Running, Working, updating, disk, migration
  <1>6. CASE UpdateLocks
    <2>1. /\ UNCHANGED <<oldLock, source, backup, step>> /\ newStore' = TRUE /\ ~Working
          /\ \/ newLock = "free" /\ newLock' = "updater" /\ updater' = "locked"
             \/ newLock # "free" /\ UNCHANGED <<newLock, raced>> /\ updater' = "none"
      BY <1>6 DEF UpdateLocks, Working, migration
    <2>2. newLock = "free" /\ Running => raced' # 0
      BY <1>6 DEF UpdateLocks, TypeInv, TypeOK
    <2> QED BY <2>1, <2>2 DEF LockOwners, Running, Working
  <1>7. CASE UpdateOld \/ UpdateReads \/ UpdateEnds \/ UpdateFails \/ UpdateDies \/ UNCHANGED vars
    BY <1>7 DEF UpdateOld, UpdateReads, UpdateEnds, UpdateFails, UpdateDies, vars, locks, disk,
                updating, migration, LockOwners, Running, Working
  <1>8. CASE UpdateRecovers \/ UpdatePreserves \/ UpdateActivates \/ UpdateRestores
             \/ UpdateDiscards
    <2>1. UNCHANGED <<locks, newStore, step, raced>> /\ Working /\ Working'
      BY <1>8 DEF UpdateRecovers, UpdatePreserves, UpdateActivates, UpdateRestores,
                  UpdateDiscards, Works, Working, migration
    <2> QED BY <2>1 DEF LockOwners, Running, locks
  <1> QED BY <1>1, <1>2, <1>3, <1>4, <1>5, <1>6, <1>7, <1>8 DEF Next, Migrate, Update

(* What the phases of the commit share. *)
LEMMA CommitFacts ==
  ASSUME TypeOK, step \in {"stage", "link", "unstage", "permit"}
  PROVE  /\ Committing /\ step # "plan"
         /\ \A i \in 1 .. 3 : /\ Decided(i)
                              /\ Prepared(i) <=> (step = "stage" => i < next)
                              /\ Published(i) <=> (step # "stage" /\ (step = "link" => i < next))
  <1>1. Committing /\ step # "plan"
    BY DEF Committing
  <1>2. ASSUME NEW i \in 1 .. 3 PROVE Decided(i)
    BY <1>1 DEF Decided
  <1>3. ASSUME NEW i \in 1 .. 3 PROVE Prepared(i) <=> (step = "stage" => i < next)
    BY <1>1, <1>2 DEF Prepared
  <1>4. ASSUME NEW i \in 1 .. 3
        PROVE  Published(i) <=> (step # "stage" /\ (step = "link" => i < next))
    <2>1. step # "stage" => Prepared(i)
      BY <1>3
    <2> QED BY <2>1 DEF Published
  <1> QED BY <1>1, <1>2, <1>3, <1>4

LEMMA PlanFacts ==
  ASSUME TypeOK, step = "plan"
  PROVE  /\ Committing
         /\ \A i \in 1 .. 3 : (Decided(i) <=> i < next) /\ ~Prepared(i) /\ ~Published(i)
  BY DEF Committing, Decided, Prepared, Published

LEMMA MigratedFacts ==
  /\ Migrated(0, TRUE) \in Content /\ Migrated(0, TRUE) # None
  /\ Migrated(0, TRUE).moved = TRUE
  <1>1. Migrated(0, TRUE) \in Content
    BY MigrationAssumption DEF Migrated, Content
  <1> QED BY <1>1, DirectoryFacts DEF Migrated

(* Only linking and rolling back change the configuration. *)
LEMMA ConfigurationTarget ==
  ASSUME TypeInv, [Next]_vars
  PROVE  \/ Target("conf")' = Target("conf")
         \/ /\ LinkFile /\ next = 1 /\ plan["conf"] # None /\ Target("conf") = None
            /\ Target("conf")' = plan["conf"]
         \/ RollbackFile /\ "conf" \in linked /\ Target("conf")' = None
  <1>0. "conf" \in Files
    BY DEF Files
  <1>1. CASE StageFile \/ UnstageFile \/ CallFails
    BY <1>0, <1>1, StageTargets, UnstageTargets, CallFailsTargets DEF TypeInv
  <1>2. CASE LinkFile
    <2>1. PICK f \in Files : f = here
      BY HereFacts DEF TypeInv
    <2>2. CASE f = "conf"
      BY <1>0, <1>2, <2>1, <2>2, LinkTargets, HereFacts DEF TypeInv, Copies
    <2>3. CASE f # "conf"
      BY <1>0, <1>2, <2>1, <2>3, LinkTargets DEF TypeInv
    <2> QED BY <2>2, <2>3
  <1>3. CASE RollbackFile
    <2>1. PICK f \in Files : f = here
      BY HereFacts DEF TypeInv
    <2> QED BY <1>0, <1>3, <2>1, RollbackTargets DEF TypeInv
  <1>4. CASE CleanUp \/ Kill
    BY <1>0, <1>4, AbandonTargets DEF CleanUp, Kill, TypeInv
  <1>5. CASE UpdateRecovers \/ UpdatePreserves \/ UpdateActivates \/ UpdateRestores
             \/ UpdateDiscards
    <2>1. config' = config
      BY <1>5 DEF UpdateRecovers, UpdatePreserves, UpdateActivates, UpdateRestores,
                  UpdateDiscards, Works
    <2> QED BY <2>1 DEF Target, Home
  <1> QED BY <1>0, <1>1, <1>2, <1>3, <1>4, <1>5, OtherTargets DEF Next, Migrate, Update, TypeInv

LEMMA MovedKept ==
  ASSUME TypeInv, ConfigurationHolds, [Next]_vars
  PROVE  Moved' = Moved
  <1>1. CASE Target("conf")' = Target("conf")
    BY <1>1 DEF Moved
  <1>2. CASE LinkFile /\ plan["conf"] # None /\ Target("conf") = None /\ Target("conf")' = plan["conf"]
    <2>1. Committing
      BY <1>2 DEF LinkFile, Committing
    <2>2. plan["conf"] = Migrated(0, TRUE)
      BY <1>2, <2>1 DEF ConfigurationHolds
    <2> QED BY <1>2, <2>2, MigratedFacts DEF Moved
  <1>3. CASE "conf" \in linked /\ Target("conf")' = None
    BY <1>3 DEF ConfigurationHolds, Moved
  <1> QED BY <1>1, <1>2, <1>3, ConfigurationTarget

(* Both hold whatever the phase. *)
LEMMA MovedFacts ==
  ASSUME TypeInv, ConfigurationHolds, [Next]_vars
  PROVE  /\ "conf" \in linked' => Moved' = TRUE
         /\ updater' # "none" => reads' = Moved'
  <1>1. Moved' = Moved
    BY MovedKept
  <1>2. ASSUME "conf" \in linked' PROVE Moved' = TRUE
    <2>1. CASE "conf" \in linked
      BY <1>1, <2>1 DEF ConfigurationHolds
    <2>2. CASE "conf" \notin linked
      <3>1. LinkFile
        BY <1>2, <2>2 DEF Next, Migrate, Update, Start, PlanFile, StageFile, UnstageFile, PermitFile,
           RollbackFile, CleanUp, PlanFails, CallFails, Kill, ClearStaleLock, UpdateOld,
           UpdateReads, UpdateLocks, UpdateRecovers, UpdatePreserves, UpdateActivates,
           UpdateRestores, UpdateDiscards, UpdateFails, UpdateEnds, UpdateDies, Works,
           vars, migration
      <3>2. PICK f \in Files : f = here
        BY HereFacts DEF TypeInv
      <3>3. f = "conf" /\ Target(f) = None
        BY <1>2, <2>2, <3>1, <3>2, LinkTargets DEF TypeInv
      <3> QED BY <1>1, <3>3 DEF Moved
    <2> QED BY <2>1, <2>2
  <1>3. ASSUME updater' # "none" PROVE reads' = Moved'
    <2>1. CASE UpdateReads
      <3>1. Target("conf") # None /\ reads' = Target("conf").moved
        BY <2>1 DEF UpdateReads
      <3> QED BY <1>1, <3>1 DEF Moved
    <2>2. CASE ~UpdateReads
      <3>1. reads' = reads /\ updater # "none"
        BY <1>3, <2>2 DEF Next, Migrate, Update, Start, PlanFile, StageFile, LinkFile, UnstageFile,
           PermitFile, RollbackFile, CleanUp, PlanFails, CallFails, Kill, ClearStaleLock, UpdateOld,
           UpdateLocks, UpdateRecovers, UpdatePreserves, UpdateActivates,
           UpdateRestores, UpdateDiscards, UpdateFails, UpdateEnds, UpdateDies, Works,
           vars, updating
      <3> QED BY <1>1, <3>1 DEF ConfigurationHolds
    <2> QED BY <2>1, <2>2
  <1> QED BY <1>2, <1>3

LEMMA WantedFacts ==
  ASSUME TypeOK
  PROVE  /\ Wanted("conf") = Migrated(0, TRUE)
         /\ Wanted("meta") = Migrated(old, Relocates) /\ Wanted("meta") # None
         /\ old \in Bare => Wanted("page") = None
         /\ old \notin Bare => Wanted("page") = Migrated(old, FALSE) /\ Wanted("page") # None
  <1>1. Relocates \in BOOLEAN /\ old \in 0 .. MaxOld
    BY MigrationAssumption DEF Relocates, Generations, TypeOK
  <1>2. Migrated(old, FALSE) \in Content /\ Migrated(old, Relocates) \in Content
    BY <1>1 DEF Migrated, Content
  <1> QED BY <1>2, DirectoryFacts DEF Wanted

LEMMA IsMigrated ==
  ASSUME NEW gen, NEW moved, NEW file, file = Migrated(gen, moved), file # None
  PROVE  Is(file, gen, moved)
  BY DEF Is, Migrated

LEMMA IsSame ==
  ASSUME NEW gen, NEW moved, NEW file, SameBytes(file, Migrated(gen, moved))
  PROVE  Is(file, gen, moved)
  BY DEF SameBytes, Is, Migrated

(* A step that decides nothing keeps the configuration's choice. *)
LEMMA RelocatesKept ==
  ASSUME TypeInv, ConfigurationHolds, [Next]_vars, Decided(1),
         plan'["conf"] = plan["conf"], Committing'
  PROVE  Relocates' = Relocates
  <1>1. CASE plan["conf"] # None
    BY <1>1 DEF Relocates
  <1>2. CASE plan["conf"] = None
    <2>1. Target("conf") # None
      BY <1>2, FileFacts DEF ConfigurationHolds, Settled
    <2>2. ~RollbackFile
      <3>1. ASSUME RollbackFile PROVE FALSE
        <4>1. step = "rollback"
          BY <3>1 DEF RollbackFile
        <4> QED BY <4>1 DEF Decided, Committing
      <3> QED BY <3>1
    <2>3. Target("conf")' = Target("conf")
      BY <2>1, <2>2, ConfigurationTarget
    <2> QED BY <2>3 DEF Relocates
  <1> QED BY <1>1, <1>2

LEMMA SettledKept ==
  ASSUME TypeInv, ConfigurationHolds, PlanHolds, SettledHolds, [Next]_vars,
         Committing, Committing', UNCHANGED <<old, plan>>,
         \A i \in 1 .. 3 : Decided(i)' <=> Decided(i),
         raced' = 0 => raced = 0,
         \A i \in 1 .. 3 : Settled(i)' /\ (i = 1 \/ raced' = 0) =>
            \/ Settled(i) /\ Target(File[i])' = Target(File[i])
            \/ plan[File[i]] # None /\ Target(File[i])' = plan[File[i]]
  PROVE  ConfigurationHolds' /\ PlanHolds' /\ SettledHolds'
  <1>1. Moved' = Moved
    BY MovedKept
  <1>2. Decided(1) => Relocates' = Relocates
    BY RelocatesKept
  <1>3. \A i \in 1 .. 3 : Settled(i)' => Decided(i)
    BY DEF Settled, Published, Prepared
  <1>4. Decided(2) => Decided(1)
    BY HereFacts DEF Decided, TypeInv
  <1>5. ConfigurationHolds'
    <2>1. plan'["conf"] # None => plan'["conf"] = Migrated(0, TRUE)
      BY DEF ConfigurationHolds
    <2>2. Settled(1)' => Target("conf")' # None
      BY FileFacts DEF ConfigurationHolds
    <2>3. Decided(1)' => Relocates' = Moved'
      BY <1>1, <1>2 DEF ConfigurationHolds
    <2> QED BY <2>1, <2>2, <2>3, MovedFacts DEF ConfigurationHolds
  <1>6. PlanHolds'
    <2>1. plan["meta"] # None => Decided(2) /\ plan["meta"] = Wanted("meta")
      BY FileFacts DEF PlanHolds, InSource
    <2>2. plan["meta"] # None => Wanted("meta")' = Wanted("meta")
      BY <1>2, <1>4, <2>1 DEF Wanted
    <2>3. plan["page"] # None => plan["page"] = Wanted("page") /\ Wanted("page")' = Wanted("page")
      BY DEF PlanHolds, InSource, Wanted
    <2>4. \A i \in 1 .. 3 : plan'[File[i]] # None => Decided(i)'
      BY DEF PlanHolds
    <2>5. \A f \in InSource : plan'[f] # None => plan'[f] = Wanted(f)'
      BY <2>1, <2>2, <2>3 DEF InSource
    <2> QED BY <2>4, <2>5 DEF PlanHolds
  <1>7. SettledHolds'
    <2> SUFFICES ASSUME raced' = 0
                 PROVE  /\ Settled(2)' => Is(Target("meta")', old, Relocates')
                        /\ Settled(3)' /\ old \notin Bare => Is(Target("page")', old, FALSE)
      BY DEF SettledHolds
    <2>1. ASSUME Settled(2)' PROVE Is(Target("meta")', old, Relocates')
      <3>1. Relocates' = Relocates
        BY <1>2, <1>3, <1>4, <2>1
      <3>2. CASE Settled(2) /\ Target("meta")' = Target("meta")
        BY <3>1, <3>2 DEF SettledHolds
      <3>3. CASE plan["meta"] # None /\ Target("meta")' = plan["meta"]
        <4>1. plan["meta"] = Migrated(old, Relocates)
          BY <3>3, WantedFacts DEF PlanHolds, InSource, TypeInv
        <4> QED BY <3>1, <3>3, <4>1, IsMigrated
      <3> QED BY <2>1, <3>2, <3>3, FileFacts
    <2>2. ASSUME Settled(3)', old \notin Bare PROVE Is(Target("page")', old, FALSE)
      <3>1. CASE Settled(3) /\ Target("page")' = Target("page")
        BY <2>2, <3>1 DEF SettledHolds
      <3>2. CASE plan["page"] # None /\ Target("page")' = plan["page"]
        <4>1. plan["page"] = Migrated(old, FALSE)
          BY <2>2, <3>2, WantedFacts DEF PlanHolds, InSource, TypeInv
        <4> QED BY <3>2, <4>1, IsMigrated
      <3>3. File[3] = "page" /\ 3 \in 1 .. 3
        BY FileFacts
      <3> QED BY <2>2, <3>1, <3>2, <3>3
    <2> QED BY <2>1, <2>2
  <1> QED BY <1>5, <1>6, <1>7

CoreInv == ConfigurationHolds /\ PlanHolds /\ SettledHolds

(* Deciding on one more file. *)
LEMMA DecideFacts ==
  ASSUME TypeInv, CoreInv, PlanFile, Committing', NEW f \in Files, f = here
  PROVE  /\ UNCHANGED <<old, raced, locks, config, source, backup, updater>>
         /\ next \in 1 .. 3 /\ plan[f] = None
         /\ \A i \in 1 .. 3 :
                /\ Decided(i) <=> i < next
                /\ Decided(i)' <=> i <= next
                /\ ~Prepared(i)' /\ ~Published(i)'
                /\ ~Prepared(i) /\ ~Published(i)
         /\ \A g \in Files \ {f} : plan'[g] = plan[g]
         /\ Wanted(f) = None => plan'[f] = None
         /\ Wanted(f) # None => plan'[f] = IF Target(f) = None THEN Wanted(f) ELSE None
         /\ f # "conf" /\ Wanted(f) # None /\ Target(f) # None => SameBytes(Target(f), Wanted(f))
  <1>1. step = "plan" /\ next \in 1 .. 3 /\ f = File[next]
    BY HereFacts DEF PlanFile, TypeInv, here
  <1>2. ~Return("failed")
    BY DEF Return, Committing
  <1>3. /\ step' = IF next = 3 THEN "stage" ELSE "plan"
        /\ next' = IF next = 3 THEN 1 ELSE next + 1
        /\ UNCHANGED <<old, raced, locks, config, source, backup, updater>>
        /\ f = "conf" \/ Wanted(f) = None \/ SameBytes(Target(f), Wanted(f)) \/ Target(f) = None
    BY <1>2, FileFacts DEF PlanFile, disk, updating
  <1>4. \A i \in 1 .. 3 : (Decided(i) <=> i < next) /\ ~Prepared(i) /\ ~Published(i)
    BY <1>1, PlanFacts DEF TypeInv
  <1>5. \A i \in 1 .. 3 : (Decided(i)' <=> i <= next) /\ ~Prepared(i)' /\ ~Published(i)'
    <2> SUFFICES ASSUME NEW i \in 1 .. 3
                 PROVE  (Decided(i)' <=> i <= next) /\ ~Prepared(i)' /\ ~Published(i)'
      OBVIOUS
    <2>1. CASE next = 3
      BY <1>3, <2>1 DEF Decided, Prepared, Published
    <2>2. CASE next # 3
      BY <1>1, <1>3, <2>2 DEF Decided, Prepared, Published
    <2> QED BY <2>1, <2>2
  <1>6. plan[f] = None
    BY <1>1, <1>4, PlanFacts DEF CoreInv, PlanHolds, TypeInv
  <1>7. plan' = IF Wanted(f) # None /\ Target(f) = None THEN [plan EXCEPT ![f] = Wanted(f)] ELSE plan
    BY DEF PlanFile
  <1>8. plan \in [Files -> Content \cup {None}]
    BY DEF TypeInv, TypeOK
  <1> QED BY <1>1, <1>3, <1>4, <1>5, <1>6, <1>7, <1>8

LEMMA PlanSettled ==
  ASSUME TypeInv, CoreInv, PlanFile, Committing' PROVE CoreInv'
  <1>0. PICK f \in Files : f = here
    BY HereFacts DEF TypeInv
  <1>1. /\ next = 1 <=> f = "conf"
        /\ next = 2 <=> f = "meta"
        /\ next = 3 <=> f = "page"
        /\ File[1] = "conf" /\ File[2] = "meta" /\ File[3] = "page"
    BY <1>0, HereFacts, FileFacts DEF TypeInv
  <1>2. [Next]_vars /\ Moved' = Moved
    BY MovedKept DEF Next, Migrate, CoreInv
  <1>3. \A g \in Files : Target(g)' = Target(g)
    BY OtherTargets DEF TypeInv
  <1>4. /\ "conf" \in linked' => Moved' = TRUE
        /\ updater' # "none" => reads' = Moved'
    BY <1>2, MovedFacts DEF CoreInv
  <1>5. /\ plan["meta"] # None => next = 3
        /\ plan["page"] = None
        /\ plan["conf"] # None => next # 1
    BY <1>0, <1>1, DecideFacts, PlanFacts DEF CoreInv, PlanHolds, PlanFile, TypeInv
  <1>6. /\ Settled(1)' => plan'["conf"] = None
        /\ Settled(2)' => plan'["meta"] = None /\ 2 <= next
        /\ Settled(3)' => plan'["page"] = None /\ 3 <= next
    BY <1>0, <1>1, DecideFacts DEF Settled
  <1>7. Committing
    BY DEF PlanFile, Committing
  <1>8. CASE next = 1
    <2>1. /\ plan'["conf"] = IF Target("conf") = None THEN Migrated(0, TRUE) ELSE None
          /\ plan'["meta"] = None /\ plan'["page"] = None
      BY <1>0, <1>1, <1>5, <1>8, DecideFacts, WantedFacts, MigratedFacts DEF TypeInv, Files
    <2>2. ConfigurationHolds'
      <3>1. Settled(1)' => Target("conf")' # None
        BY <1>1, <1>3, <1>6, <2>1, MigratedFacts DEF Files
      <3>2. Relocates' = Moved'
        <4>1. CASE Target("conf") = None
          BY <1>2, <2>1, <4>1, MigratedFacts DEF Relocates, Moved
        <4>2. CASE Target("conf") # None
          <5>1. Target("conf").moved \in BOOLEAN
            BY <4>2, HomeFacts DEF Content, TypeInv, Files
          <5>2. Relocates' = (Target("conf").moved = TRUE)
            BY <1>3, <2>1, <4>2 DEF Relocates, Files
          <5> QED BY <1>2, <4>2, <5>1, <5>2 DEF Moved
        <4> QED BY <4>1, <4>2
      <3> QED BY <1>4, <2>1, <3>1, <3>2, MigratedFacts DEF ConfigurationHolds
    <2>3. PlanHolds'
      BY <1>0, <1>1, <1>8, <2>1, DecideFacts DEF PlanHolds, InSource
    <2>4. SettledHolds'
      <3>1. ~Settled(2)' /\ ~Settled(3)'
        BY <1>6, <1>8
      <3> QED BY <3>1 DEF SettledHolds
    <2> QED BY <2>2, <2>3, <2>4 DEF CoreInv
  <1>9. CASE next # 1
    <2>1. Decided(1) /\ plan'["conf"] = plan["conf"] /\ Relocates' = Relocates
      BY <1>0, <1>1, <1>2, <1>9, DecideFacts, RelocatesKept DEF CoreInv, Files
    <2>2. ConfigurationHolds'
      <3>1. Settled(1)' => Settled(1)
        BY <1>1, <1>6, <2>1 DEF Settled
      <3> QED BY <1>2, <1>3, <1>4, <1>7, <2>1, <3>1 DEF ConfigurationHolds, CoreInv, Files
    <2>3. old' = old /\ raced' = raced
      BY <1>0, DecideFacts
    <2>4. /\ Wanted("meta")' = Wanted("meta") /\ Wanted("meta") = Migrated(old, Relocates)
          /\ Wanted("page")' = Wanted("page") /\ Wanted("meta") # None
          /\ Wanted("page") = IF old \in Bare THEN None ELSE Migrated(old, FALSE)
          /\ old \notin Bare => Wanted("page") # None
      BY <2>1, <2>3, WantedFacts DEF Wanted, TypeInv
    <2>5. CASE next = 2
      <3>1. /\ plan'["meta"] = IF Target("meta") = None THEN Wanted("meta") ELSE None
            /\ plan'["page"] = None
            /\ Target("meta") # None => SameBytes(Target("meta"), Wanted("meta"))
        BY <1>0, <1>1, <1>5, <2>4, <2>5, DecideFacts DEF Files
      <3>2. PlanHolds'
        BY <1>0, <1>1, <2>1, <2>4, <2>5, <3>1, DecideFacts DEF PlanHolds, InSource
      <3>3. SettledHolds'
        <4>1. Settled(2)' => Is(Target("meta")', old, Relocates)
          BY <1>1, <1>3, <1>6, <2>4, <3>1, IsSame DEF Files
        <4>2. ~Settled(3)'
          BY <1>6, <2>5
        <4> QED BY <2>1, <2>3, <4>1, <4>2 DEF SettledHolds
      <3> QED BY <2>2, <3>2, <3>3 DEF CoreInv
    <2>6. CASE next = 3
      <3>1. /\ plan'["meta"] = plan["meta"]
            /\ old \in Bare => plan'["page"] = None
            /\ old \notin Bare =>
                 /\ plan'["page"] = IF Target("page") = None THEN Wanted("page") ELSE None
                 /\ Target("page") # None => SameBytes(Target("page"), Wanted("page"))
        BY <1>0, <1>1, <2>4, <2>6, DecideFacts DEF Files
      <3>2. PlanHolds'
        <4>1. plan["meta"] # None => plan["meta"] = Wanted("meta")
          BY <1>7 DEF CoreInv, PlanHolds, InSource
        <4>2. \A f_1 \in InSource : plan'[f_1] # None => plan'[f_1] = Wanted(f_1)'
          BY <2>4, <3>1, <4>1 DEF InSource
        <4>3. \A i \in 1 .. 3 : Decided(i)'
          BY <1>0, <2>6, DecideFacts
        <4> QED BY <4>2, <4>3 DEF PlanHolds
      <3>3. SettledHolds'
        <4>1. raced = 0 /\ Settled(2)' => Is(Target("meta")', old, Relocates)
          <5>1. Settled(2)' => Settled(2)
            BY <1>0, <1>1, <1>6, <2>6, <3>1, DecideFacts DEF Settled
          <5> QED BY <1>3, <5>1 DEF CoreInv, SettledHolds, Files
        <4>2. Settled(3)' /\ old \notin Bare => Is(Target("page")', old, FALSE)
          BY <1>1, <1>3, <1>6, <2>4, <3>1, IsSame DEF Files
        <4> QED BY <2>1, <2>3, <4>1, <4>2 DEF SettledHolds
      <3> QED BY <2>2, <3>2, <3>3 DEF CoreInv
    <2> QED BY <1>0, <1>9, <2>5, <2>6, DecideFacts
  <1> QED BY <1>8, <1>9

(* The steps of the commit and the steps of others. *)
LEMMA CommitSettled ==
  ASSUME TypeInv, CoreInv, Committing',
         StageFile \/ LinkFile \/ UnstageFile \/ PermitFile
  PROVE  CoreInv'
  <1>1. [Next]_vars /\ step \in {"stage", "link", "unstage", "permit"}
    BY DEF Next, Migrate, StageFile, LinkFile, UnstageFile, PermitFile
  <1>2. UNCHANGED <<old, plan, raced>> /\ next \in 1 .. 3
    BY HereFacts DEF StageFile, LinkFile, UnstageFile, PermitFile, TypeInv
  <1>3. PICK f \in Files : f = here
    BY HereFacts DEF TypeInv
  <1>4. ~Fail /\ ~Return("done") /\ step' # "plan"
    <2>1. step' # "plan"
      BY <1>1, AdvanceFacts, HereFacts
         DEF StageFile, LinkFile, UnstageFile, PermitFile, Fail, Return, TypeInv
    <2> QED BY <2>1 DEF Fail, Return, Committing
  <1>5. step' \in {"stage", "link", "unstage", "permit"}
    BY <1>4 DEF Committing
  <1>6. \A i \in 1 .. 3 : Decided(i) /\ Decided(i)'
    BY <1>1, <1>4, CommitFacts DEF TypeInv, Decided
  <1>7. Committing
    BY <1>1 DEF Committing
  <1>8. CASE ~LinkFile
    <2>1. \A g \in Files : Target(g)' = Target(g)
      BY <1>8, StageTargets, UnstageTargets, OtherTargets DEF TypeInv
    <2>2. \A i \in 1 .. 3 : Published(i)' => Published(i)
      <3>1. CASE StageFile
        <4>1. step = "stage" /\ next' \in 1 .. 3 /\ (step' = "stage" \/ (step' = "link" /\ next' = 1))
          BY <1>2, <3>1, AdvanceFacts DEF StageFile, TypeInv
        <4> QED BY <4>1 DEF Published
      <3>2. CASE UnstageFile \/ PermitFile
        BY <1>1, <3>2, CommitFacts DEF UnstageFile, PermitFile, TypeInv
      <3> QED BY <1>8, <3>1, <3>2
    <2>3. \A i \in 1 .. 3 : Settled(i)' => Settled(i) /\ Target(File[i])' = Target(File[i])
      BY <1>2, <1>6, <2>1, <2>2, FileFacts DEF Settled
    <2> QED BY <1>1, <1>2, <1>6, <1>7, <2>3, SettledKept DEF CoreInv
  <1>9. CASE LinkFile
    <2>1. step = "link" /\ Advance("unstage")
      BY <1>3, <1>4, <1>9, LinkTargets DEF LinkFile, TypeInv
    <2>2. \A i \in 1 .. 3 : Published(i) <=> i < next
      BY <1>1, <2>1, CommitFacts DEF TypeInv
    <2>3. \A i \in 1 .. 3 : Published(i)' => i <= next
      <3> SUFFICES ASSUME NEW i \in 1 .. 3, Published(i)' PROVE i <= next
        OBVIOUS
      <3>1. CASE next = 3
        BY <3>1
      <3>2. CASE next # 3
        <4>1. step' = "link" /\ next' = next + 1
          BY <2>1, <3>2, AdvanceFacts DEF TypeInv
        <4>2. i < next'
          BY <4>1 DEF Published
        <4> QED BY <1>2, <4>1, <4>2
      <3> QED BY <3>1, <3>2
    <2>4. f = File[next]
      BY <1>3 DEF here
    <2>5. ASSUME NEW i \in 1 .. 3, Settled(i)'
          PROVE  \/ Settled(i) /\ Target(File[i])' = Target(File[i])
                 \/ plan[File[i]] # None /\ Target(File[i])' = plan[File[i]]
      <3>1. File[i] \in Files
        BY FileFacts
      <3>2. CASE i # next
        <4>1. File[i] # f
          BY <1>2, <2>4, <3>2, FileFacts
        <4>2. Target(File[i])' = Target(File[i])
          BY <1>3, <1>9, <3>1, <4>1, LinkTargets DEF TypeInv
        <4>3. Settled(i)
          BY <1>2, <1>6, <2>2, <2>3, <2>5, <3>2 DEF Settled
        <4> QED BY <4>2, <4>3
      <3>3. CASE i = next
        <4>1. CASE f \in Copies
          BY <1>3, <1>4, <1>9, <2>4, <3>3, <4>1, LinkTargets DEF TypeInv, Copies
        <4>2. CASE f \notin Copies
          <5>1. Target(f)' = Target(f) /\ plan[f] = None
            BY <1>3, <1>9, <4>2, LinkTargets DEF TypeInv, Copies
          <5> QED BY <1>6, <2>4, <3>3, <5>1 DEF Settled
        <4> QED BY <4>1, <4>2
      <3> QED BY <3>2, <3>3
    <2> QED BY <1>1, <1>2, <1>6, <1>7, <2>5, SettledKept DEF CoreInv
  <1> QED BY <1>8, <1>9

LEMMA OthersSettled ==
  ASSUME TypeInv, LockOwners, CoreInv, Committing', [Next]_vars, UNCHANGED migration
  PROVE  CoreInv' /\ old' = old /\ Committing
  <1>1. UNCHANGED <<step, next, plan, linked>>
    BY DEF migration
  <1>2. Committing
    BY <1>1 DEF Committing
  <1>3. Running
    BY <1>2 DEF Committing, Running
  <1>4. \/ ClearStaleLock \/ UpdateReads \/ UpdateLocks \/ UpdateFails \/ UpdateEnds
        \/ UpdateDies \/ UNCHANGED vars
        \/ (Working /\ raced' = raced /\ old' = old /\ config' = config)
    <2>1. ~Start /\ ~CleanUp /\ ~Kill /\ ~PlanFails
      BY <1>1, <1>2, <1>3 DEF Start, CleanUp, Kill, PlanFails, Return, Committing
    <2>2. ~CallFails /\ ~RollbackFile
      BY <1>1, <1>2 DEF CallFails, RollbackFile, Fail, Committing
    <2>3. ~PlanFile /\ ~StageFile /\ ~LinkFile /\ ~UnstageFile /\ ~PermitFile
      <3>1. next \in 1 .. 3
        BY HereFacts DEF TypeInv
      <3>2. ASSUME NEW after, Advance(after), after # step PROVE FALSE
        BY <1>1, <3>1, <3>2, FileFacts DEF Advance
      <3>3. ~Fail /\ ~Return("done") /\ ~Return("failed")
        BY <1>1, <1>2 DEF Fail, Return, Committing
      <3>4. ~PlanFile
        BY <1>1, <3>1, <3>3, FileFacts DEF PlanFile
      <3> QED BY <3>2, <3>3, <3>4 DEF StageFile, LinkFile, UnstageFile, PermitFile
    <2>4. ~UpdateOld
      BY <1>3 DEF LockOwners, UpdateOld
    <2>5. UpdateRecovers \/ UpdatePreserves \/ UpdateActivates \/ UpdateRestores \/ UpdateDiscards
            => Working /\ raced' = raced /\ old' = old /\ config' = config
      BY DEF UpdateRecovers, UpdatePreserves, UpdateActivates, UpdateRestores, UpdateDiscards,
             Works, Working
    <2> QED BY <2>1, <2>2, <2>3, <2>4, <2>5 DEF Next, Migrate, Update
  <1>5. old' = old
    BY <1>4 DEF ClearStaleLock, UpdateReads, UpdateLocks, UpdateFails, UpdateEnds, UpdateDies, vars
  <1>6. raced' = 0 => raced = 0 /\ ~Working
    <2>1. Working => raced # 0
      BY <1>3 DEF LockOwners
    <2>2. raced' = raced \/ raced' # 0
      BY <1>4 DEF ClearStaleLock, UpdateReads, UpdateLocks, UpdateFails, UpdateEnds, UpdateDies, vars,
             TypeInv, TypeOK
    <2>3. UpdateLocks /\ raced' = raced => ~Working
      BY DEF UpdateLocks, Working
    <2> QED BY <2>1, <2>2, <2>3
  <1>7. Target("conf")' = Target("conf")
    <2>1. config' = config
      BY <1>4, OtherTargets DEF TypeInv
    <2> QED BY <2>1 DEF Target, Home
  <1>8. raced' = 0 => \A g \in Files : Target(g)' = Target(g)
    BY <1>4, <1>6, OtherTargets DEF TypeInv
  <1>9. \A i \in 1 .. 3 : (Decided(i)' <=> Decided(i)) /\ (Settled(i)' <=> Settled(i))
    BY <1>1 DEF Decided, Settled, Published, Prepared, Committing
  <1>10. \A i \in 1 .. 3 : Settled(i)' /\ (i = 1 \/ raced' = 0) =>
            Settled(i) /\ Target(File[i])' = Target(File[i])
    BY <1>7, <1>8, <1>9, FileFacts
  <1> QED BY <1>1, <1>2, <1>5, <1>6, <1>9, <1>10, SettledKept DEF CoreInv

----------------------------------------------------------------------------
(* One snapshot: an attempt without the lock and the update beside it. *)

(* What the commit does to the source's directory. *)
LEMMA StageSource ==
  ASSUME TypeOK, StageFile, NEW f \in Files, f = here
  PROVE  \/ source' = source /\ (f \in Copies => f = "conf")
         \/ /\ f \in Copies /\ f # "conf" /\ source' # None
            /\ source'.file = IF source = None THEN NoFiles ELSE source.file
            /\ source'.temp = IF source = None THEN {f} ELSE source.temp \cup {f}
  <1>1. CASE f \in Copies /\ f # "conf"
    <2> DEFINE d == [Made EXCEPT !.temp = @ \cup {f}]
    <2>1. /\ Made \in Directory
          /\ Made.file = IF source = None THEN NoFiles ELSE source.file
          /\ Made.temp = IF source = None THEN {} ELSE source.temp
      BY <1>1, MadeFacts, DirectoryFacts DEF Home
    <2>2. Made.temp \cup {f} \in SUBSET Files
      BY <2>1 DEF Directory
    <2>3. d \in Directory /\ d.file = Made.file /\ d.temp = Made.temp \cup {f}
      BY <2>1, <2>2, RetempedDirectory
    <2>4. source' = d
      BY <1>1 DEF StageFile, Put
    <2>5. d # None
      BY <2>3, DirectoryFacts
    <2> HIDE DEF d
    <2> QED BY <1>1, <2>1, <2>3, <2>4, <2>5
  <1>2. CASE ~(f \in Copies /\ f # "conf")
    BY <1>2 DEF StageFile, Put
  <1> QED BY <1>1, <1>2

LEMMA LinkSource ==
  ASSUME TypeOK, LinkFile, ~Fail, NEW f \in Files, f = here
  PROVE  \/ source' = source /\ (f \in Copies => f = "conf")
         \/ /\ f \in Copies /\ f # "conf" /\ source # None /\ source' # None
            /\ f \in source.temp /\ source.file[f] = None
            /\ source'.file[f] = plan[f]
            /\ \A g \in Files \ {f} : source'.file[g] = source.file[g]
  <1>1. CASE f \in Copies /\ f # "conf"
    <2> DEFINE d == [source EXCEPT !.file[f] = plan[f]]
    <2>1. IsStaged(f) /\ Target(f) = None /\ Home(f) = source
      BY <1>1 DEF LinkFile, Home
    <2>2. source # None /\ f \in source.temp /\ source.file[f] = None
      BY <2>1 DEF IsStaged, Target
    <2>3. source \in Directory /\ plan[f] \in Content \cup {None}
      BY <2>2 DEF TypeOK
    <2>4. /\ d \in Directory /\ d.file[f] = plan[f]
          /\ \A g \in Files \ {f} : d.file[g] = source.file[g]
      BY <2>3, RefiledDirectory
    <2>5. source' = d
      BY <1>1, <2>1 DEF LinkFile, Put
    <2>6. d # None
      BY <2>4, DirectoryFacts
    <2> HIDE DEF d
    <2> QED BY <1>1, <2>2, <2>4, <2>5, <2>6
  <1>2. CASE ~(f \in Copies /\ f # "conf")
    BY <1>2 DEF LinkFile, Put
  <1> QED BY <1>1, <1>2

LEMMA UnstageSource ==
  ASSUME TypeOK, UnstageFile
  PROVE  \/ source' = source
         \/ source # None /\ source' # None /\ source'.file = source.file
  <1>1. CASE here \in Copies /\ IsStaged(here) /\ here # "conf"
    <2> DEFINE d == [source EXCEPT !.temp = @ \ {here}]
    <2>1. source # None /\ Home(here) = source
      BY <1>1 DEF IsStaged, Home
    <2>2. source \in Directory
      BY <2>1 DEF TypeOK
    <2>3. source.temp \ {here} \in SUBSET Files
      BY <2>2 DEF Directory
    <2>4. d \in Directory /\ d.file = source.file
      BY <2>2, <2>3, RetempedDirectory
    <2>5. source' = d
      BY <1>1, <2>1 DEF UnstageFile, Put
    <2>6. d # None
      BY <2>4, DirectoryFacts
    <2> HIDE DEF d
    <2> QED BY <2>1, <2>4, <2>5, <2>6
  <1>2. CASE ~(here \in Copies /\ IsStaged(here) /\ here # "conf")
    BY <1>2 DEF UnstageFile, Put
  <1> QED BY <1>1, <1>2

LEMMA StartTrace == ASSUME TypeInv, LockOwners, Start PROVE Traceable'
  <1> SUFFICES ASSUME Open' PROVE Intact'
    BY DEF Traceable
  <1>1. /\ step' = "plan" /\ next' = 1 /\ UNCHANGED <<source, backup, updater>>
        /\ ~newStore
    BY DEF Start, Open, Committing, disk, updating
  <1>2. source' = None /\ backup' = None /\ ~Working
    BY <1>1 DEF LockOwners
  <1>3. ~Decided(2)' /\ ~Decided(3)' /\ ~Prepared(2)'
    BY <1>1 DEF Decided, Prepared
  <1> QED BY <1>1, <1>2, <1>3 DEF Intact, PlansAll, Progress, Working

LEMMA PlanTrace == ASSUME TypeInv, LockOwners, CoreInv, Traceable, PlanFile PROVE Traceable'
  <1> SUFFICES ASSUME Open' PROVE Intact' \/ Replaced'
    BY DEF Traceable
  <1>0. PICK f \in Files : f = here
    BY HereFacts DEF TypeInv
  <1>1. Committing'
    BY DEF Open
  <1>2. /\ UNCHANGED <<old, raced, newLock, source, backup, updater>>
        /\ step = "plan" /\ Committing /\ next \in 1 .. 3
        /\ \A i \in 1 .. 3 : ~Prepared(i) /\ ~Prepared(i)'
        /\ (Decided(2) <=> next = 3) /\ ~Decided(3)
        /\ (Decided(2)' <=> next \in 2 .. 3) /\ (Decided(3)' <=> next = 3)
    BY <1>0, <1>1, DecideFacts DEF PlanFile, locks, Committing
  <1>3. /\ next = 1 <=> f = "conf"
        /\ next = 2 <=> f = "meta"
        /\ next = 3 <=> f = "page"
    BY <1>0, HereFacts DEF TypeInv
  <1>4. Open
    BY <1>2 DEF Open
  <1>5. /\ next = 2 => plan'["meta"] = IF Target("meta") = None THEN Wanted("meta") ELSE None
        /\ next = 2 /\ Target("meta") # None => SameBytes(Target("meta"), Wanted("meta"))
        /\ next = 3 => plan'["meta"] = plan["meta"]
        /\ next = 3 /\ old \in Bare => plan'["page"] = None
        /\ next = 3 /\ old \notin Bare =>
             plan'["page"] = IF Target("page") = None THEN Wanted("page") ELSE None
    BY <1>0, <1>1, <1>3, DecideFacts, WantedFacts DEF TypeInv, Files
  <1>6. CASE Intact
    <2>1. source = None
      BY <1>2, <1>6 DEF Intact, Progress
    <2>2. Target("meta") = None /\ Target("page") = None
      BY <2>1 DEF Target, Home
    <2>3. PlansAll'
      <3>1. Decided(2)' => plan'["meta"] # None
        BY <1>2, <1>5, <1>6, <2>2, WantedFacts DEF Intact, PlansAll, TypeInv
      <3>2. Decided(3)' => (plan'["page"] = None <=> old' \in Bare)
        BY <1>2, <1>5, <2>2, WantedFacts DEF TypeInv
      <3> QED BY <3>1, <3>2 DEF PlansAll
    <2>4. Progress(source)'
      BY <1>2, <2>1 DEF Progress
    <2> QED BY <1>2, <1>6, <2>3, <2>4 DEF Intact
  <1>7. CASE Replaced
    <2>1. PICK gen \in Generations :
            /\ Holds(source, gen, Moved)
            /\ gen \in Bare => source.file["page"] = None
            /\ Decided(2) /\ plan["meta"] = None => gen = old
      BY <1>7 DEF Replaced
    <2>2. Moved' = Moved
      <3>1. [Next]_vars
        BY DEF Next, Migrate
      <3> QED BY <3>1, MovedKept DEF CoreInv
    <2>3. /\ source # None /\ Is(source.file["meta"], gen, Moved)
          /\ gen \notin Bare => Is(source.file["page"], gen, FALSE)
      BY <2>1 DEF Holds
    <2>4. Target("meta") = source.file["meta"] /\ Target("page") = source.file["page"]
      BY <2>3 DEF Target, Home
    <2>5. Decided(2)' /\ plan'["meta"] = None => gen = old
      <3>1. CASE next = 2
        <4>1. SameBytes(source.file["meta"], Migrated(old, Relocates))
          BY <1>5, <2>3, <2>4, <3>1, WantedFacts DEF Is, TypeInv
        <4>2. Is(source.file["meta"], old, Relocates)
          BY <4>1, IsSame
        <4> QED BY <2>3, <4>2 DEF Is
      <3>2. CASE next # 2
        BY <1>2, <1>5, <2>1, <3>2
      <3> QED BY <3>1, <3>2
    <2>6. Decided(3)' /\ plan'["meta"] = None => plan'["page"] = None
      BY <1>2, <1>5, <2>3, <2>4, <2>5 DEF Is
    <2>7. step' # "link"
      BY FileFacts, <1>1 DEF PlanFile, Return, Committing
    <2>8. Holds(source, gen, Moved)'
      BY <1>2, <2>2, <2>3 DEF Holds, Is
    <2> QED BY <1>2, <1>7, <2>1, <2>5, <2>6, <2>7, <2>8 DEF Replaced
  <1>8. ~SetAside /\ ~Doomed
    BY <1>2 DEF SetAside, Doomed, Progress
  <1> QED BY <1>4, <1>6, <1>7, <1>8 DEF Traceable

(* The commit leaves the plan, the updater and the locks alone. *)
LEMMA CommitFrame ==
  ASSUME TypeInv, CoreInv, Open', StageFile \/ LinkFile \/ UnstageFile \/ PermitFile
  PROVE  /\ Open /\ ~Fail /\ ~Return("done") /\ next \in 1 .. 3 /\ next' \in 1 .. 3
         /\ UNCHANGED <<old, plan, raced, newLock, backup, updater>> /\ Moved' = Moved
         /\ Decided(2) /\ Decided(3) /\ Decided(2)' /\ Decided(3)'
         /\ step' # "plan"
  <1>1. step \in {"stage", "link", "unstage", "permit"} /\ [Next]_vars
    BY DEF Next, Migrate, StageFile, LinkFile, UnstageFile, PermitFile
  <1>2. step' \in {"stage", "link", "unstage", "permit", "rollback", "done"}
    BY <1>1, AdvanceFacts, HereFacts
       DEF StageFile, LinkFile, UnstageFile, PermitFile, Fail, Return, TypeInv
  <1>3. ~Fail /\ ~Return("done") /\ step' \in {"stage", "link", "unstage", "permit"}
    BY <1>2 DEF Fail, Return, Open, Committing
  <1>4. UNCHANGED <<old, plan, raced, newLock, backup, updater>>
    BY <1>3 DEF StageFile, LinkFile, UnstageFile, PermitFile, locks, updating, disk
  <1>5. Open
    BY <1>1, <1>4 DEF Open, Committing
  <1>6. next' \in 1 .. 3
    BY <1>3, AdvanceFacts DEF StageFile, LinkFile, UnstageFile, PermitFile, TypeInv
  <1>7. Moved' = Moved
    BY <1>1, MovedKept DEF CoreInv
  <1>8. Decided(2) /\ Decided(3) /\ Decided(2)' /\ Decided(3)'
    BY <1>1, <1>3 DEF Decided, Committing
  <1>9. next \in 1 .. 3
    BY HereFacts DEF TypeInv
  <1> QED BY <1>3, <1>4, <1>5, <1>6, <1>7, <1>8, <1>9

(* A replaced directory stays as long as its files do. *)
LEMMA ReplacedKept ==
  ASSUME Replaced, UNCHANGED <<old, raced, updater, plan>>, Moved' = Moved,
         Decided(2)' => Decided(2), Decided(3)' => Decided(3),
         source' # None, source'.file = source.file,
         step' = "link" /\ next' = 3 /\ plan["page"] # None => "page" \notin source'.temp
  PROVE  Replaced'
  <1>1. PICK gen \in Generations :
          /\ Holds(source, gen, Moved)
          /\ gen \in Bare => source.file["page"] = None
          /\ Decided(2) /\ plan["meta"] = None => gen = old
    BY DEF Replaced
  <1>2. Holds(source, gen, Moved)'
    BY <1>1 DEF Holds, Is
  <1> QED BY <1>1, <1>2 DEF Replaced

LEMMA StageTrace == ASSUME TypeInv, LockOwners, CoreInv, Traceable, StageFile PROVE Traceable'
  <1> SUFFICES ASSUME Open' PROVE Intact' \/ SetAside' \/ Replaced' \/ Doomed'
    BY DEF Traceable
  <1>0. PICK f \in Files : f = here
    BY HereFacts DEF TypeInv
  <1>1. /\ Open /\ UNCHANGED <<old, plan, raced, backup, updater>> /\ Moved' = Moved
        /\ next \in 1 .. 3 /\ Decided(2) /\ Decided(3) /\ Decided(2)' /\ Decided(3)'
    BY CommitFrame
  <1>2. /\ next = 1 <=> f = "conf"
        /\ next = 2 <=> f = "meta"
        /\ next = 3 <=> f = "page"
    BY <1>0, HereFacts DEF TypeInv
  <1>3. /\ step = "stage"
        /\ \/ next # 3 /\ step' = "stage" /\ next' = next + 1
           \/ next = 3 /\ step' = "link" /\ next' = 1
    BY <1>1, AdvanceFacts DEF StageFile, TypeInv
  <1>4. /\ Prepared(2) <=> next = 3
        /\ Prepared(2)' <=> next \in 2 .. 3
        /\ ~Published(2) /\ ~Published(3) /\ ~Published(2)' /\ ~Published(3)'
    BY <1>1, <1>3 DEF Prepared, Published
  <1>5. \/ source' = source /\ (f \in Copies => f = "conf")
        \/ /\ f \in Copies /\ f # "conf" /\ source' # None
           /\ source'.file = IF source = None THEN NoFiles ELSE source.file
           /\ source'.temp = IF source = None THEN {f} ELSE source.temp \cup {f}
    BY <1>0, StageSource DEF TypeInv
  <1>6. f \in Copies <=> plan[f] # None
    BY DEF Copies
  <1>7. NoFiles["meta"] = None /\ NoFiles["page"] = None
    BY DirectoryFacts DEF Files
  <1>8. CASE Intact
    <2>1. PlansAll' /\ PlansAll
      BY <1>1, <1>8 DEF Intact, PlansAll
    <2>2. source # None <=> next = 3
      BY <1>4, <1>8 DEF Intact, Progress
    <2>3. source # None => source.file["meta"] = None /\ source.file["page"] = None
      BY <1>4, <1>8 DEF Intact, Progress
    <2>4. source' # None <=> next \in 2 .. 3
      BY <1>1, <1>2, <1>5, <1>6, <2>1, <2>2 DEF PlansAll
    <2>5. source' # None => source'.file["meta"] = None /\ source'.file["page"] = None
      BY <1>5, <1>7, <2>3
    <2>6. Progress(source)'
      BY <1>4, <2>4, <2>5 DEF Progress
    <2> QED BY <1>1, <1>8, <2>1, <2>6 DEF Intact
  <1>9. CASE SetAside
    <2>1. PlansAll' /\ PlansAll /\ next = 3
      BY <1>1, <1>4, <1>9 DEF SetAside, PlansAll, Progress
    <2>2. CASE f \in Copies
      <3>1. source' # None /\ source'.temp = {"page"}
        BY <1>2, <1>5, <1>9, <2>1, <2>2 DEF SetAside
      <3> QED BY <1>1, <1>3, <1>9, <2>1, <3>1 DEF SetAside, Doomed, PlansAll
    <2>3. CASE f \notin Copies
      <3>1. Progress(backup)'
        BY <1>1, <1>4, <1>9, <2>1 DEF SetAside, Progress
      <3> QED BY <1>1, <1>5, <1>9, <2>1, <2>3, <3>1 DEF SetAside
    <2> QED BY <2>2, <2>3
  <1>10. CASE Replaced
    <2>1. source' # None /\ source'.file = source.file
      BY <1>5, <1>10 DEF Replaced
    <2>2. ~(step' = "link" /\ next' = 3)
      BY <1>3
    <2> QED BY <1>1, <1>10, <2>1, <2>2, ReplacedKept
  <1>11. ~Doomed
    BY <1>3 DEF Doomed
  <1> QED BY <1>1, <1>8, <1>9, <1>10, <1>11 DEF Traceable

LEMMA LinkTrace == ASSUME TypeInv, LockOwners, CoreInv, Traceable, LinkFile PROVE Traceable'
  <1> SUFFICES ASSUME Open' PROVE Intact' \/ SetAside' \/ Replaced' \/ Doomed'
    BY DEF Traceable
  <1>0. PICK f \in Files : f = here
    BY HereFacts DEF TypeInv
  <1>1. /\ Open /\ UNCHANGED <<old, plan, raced, backup, updater>> /\ Moved' = Moved /\ ~Fail
        /\ next \in 1 .. 3 /\ Decided(2) /\ Decided(3) /\ Decided(2)' /\ Decided(3)'
    BY CommitFrame
  <1>2. /\ next = 1 <=> f = "conf"
        /\ next = 2 <=> f = "meta"
        /\ next = 3 <=> f = "page"
    BY <1>0, HereFacts DEF TypeInv
  <1>3. /\ step = "link"
        /\ \/ next # 3 /\ step' = "link" /\ next' = next + 1
           \/ next = 3 /\ step' = "unstage" /\ next' = 1
    BY <1>0, <1>1, LinkTargets, AdvanceFacts DEF LinkFile, TypeInv
  <1>4. /\ Prepared(2) /\ Prepared(2)'
        /\ Published(2) <=> next = 3
        /\ Published(2)' <=> next \in 2 .. 3
        /\ ~Published(3)
        /\ Published(3)' <=> next = 3
    BY <1>1, <1>3 DEF Prepared, Published
  <1>5. \/ source' = source /\ (f \in Copies => f = "conf")
        \/ /\ f \in Copies /\ f # "conf" /\ source # None /\ source' # None
           /\ f \in source.temp /\ source.file[f] = None
           /\ source'.file[f] = plan[f]
           /\ \A g \in Files \ {f} : source'.file[g] = source.file[g]
    BY <1>0, <1>1, LinkSource DEF TypeInv
  <1>6. f \in Copies <=> plan[f] # None
    BY DEF Copies
  <1>7. CASE Intact
    <2>1. PlansAll' /\ PlansAll
      BY <1>1, <1>7 DEF Intact, PlansAll
    <2>2. /\ source # None /\ source.file["page"] = None
          /\ source.file["meta"] = IF next = 3 THEN plan["meta"] ELSE None
      BY <1>4, <1>7 DEF Intact, Progress
    <2>3. source' # None
      BY <1>5, <2>2
    <2>4. source'.file["meta"] = IF next \in 2 .. 3 THEN plan["meta"] ELSE None
      <3>1. CASE next = 2
        BY <1>1, <1>2, <1>5, <1>6, <2>1, <3>1 DEF PlansAll
      <3>2. CASE next # 2
        BY <1>1, <1>2, <1>5, <2>2, <3>2 DEF Files
      <3> QED BY <3>1, <3>2
    <2>5. source'.file["page"] = IF next = 3 THEN plan["page"] ELSE None
      BY <1>2, <1>5, <1>6, <2>2 DEF Files
    <2>6. Progress(source)'
      BY <1>1, <1>4, <2>3, <2>4, <2>5 DEF Progress
    <2> QED BY <1>1, <1>7, <2>1, <2>6 DEF Intact
  <1>8. CASE SetAside
    <2>1. PlansAll' /\ PlansAll
      BY <1>1, <1>8 DEF SetAside, PlansAll
    <2>2. source' = source /\ (f \in Copies => f = "conf")
      BY <1>5, <1>8 DEF SetAside
    <2>3. next # 2 /\ (next = 3 => plan["page"] = None)
      BY <1>1, <1>2, <1>6, <2>1, <2>2 DEF PlansAll
    <2>4. Progress(backup)'
      BY <1>1, <1>4, <1>8, <2>3 DEF SetAside, Progress
    <2> QED BY <1>1, <1>8, <2>1, <2>2, <2>4 DEF SetAside
  <1>9. CASE Replaced
    <2>1. /\ source # None /\ source.file["meta"] # None
          /\ plan["meta"] = None => plan["page"] = None
          /\ next = 3 /\ plan["page"] # None => "page" \notin source.temp
      BY <1>1, <1>3, <1>9 DEF Replaced, Holds, Is
    <2>2. source' = source /\ (f \in Copies => f = "conf")
      BY <1>1, <1>2, <1>5, <1>6, <2>1
    <2>3. next = 2 => plan["page"] = None
      BY <1>2, <1>6, <2>1, <2>2
    <2>4. step' = "link" /\ next' = 3 => next = 2
      BY <1>1, <1>3
    <2> QED BY <1>1, <1>9, <2>1, <2>2, <2>3, <2>4, ReplacedKept
  <1>10. CASE Doomed
    <2>1. next \in 1 .. 2 /\ plan["meta"] # None /\ source # None /\ source.temp = {"page"}
      BY <1>10 DEF Doomed
    <2>2. next = 1 /\ source' = source
      BY <1>2, <1>5, <1>6, <2>1
    <2> QED BY <1>1, <1>3, <1>10, <2>2 DEF Doomed
  <1> QED BY <1>1, <1>7, <1>8, <1>9, <1>10 DEF Traceable

LEMMA FinishTrace ==
  ASSUME TypeInv, LockOwners, CoreInv, Traceable, UnstageFile \/ PermitFile PROVE Traceable'
  <1> SUFFICES ASSUME Open' PROVE Intact' \/ SetAside' \/ Replaced'
    BY DEF Traceable
  <1>1. /\ Open /\ UNCHANGED <<old, plan, raced, backup, updater>> /\ Moved' = Moved /\ ~Fail
        /\ Decided(2) /\ Decided(3) /\ Decided(2)' /\ Decided(3)' /\ ~Return("done")
    BY CommitFrame
  <1>2. step \in {"unstage", "permit"} /\ step' \in {"unstage", "permit"}
    <2>1. step \in {"unstage", "permit"}
      BY DEF UnstageFile, PermitFile
    <2>2. Advance("permit") \/ Advance("done")
      BY <1>1 DEF UnstageFile, PermitFile
    <2>3. step' \in {"unstage", "permit", "done"}
      BY <2>1, <2>2, AdvanceFacts, HereFacts DEF TypeInv
    <2>4. Committing'
      BY DEF Open
    <2> QED BY <2>1, <2>3, <2>4 DEF Committing
  <1>3. /\ Prepared(2) /\ Published(2) /\ Published(3)
        /\ Prepared(2)' /\ Published(2)' /\ Published(3)'
    BY <1>1, <1>2 DEF Prepared, Published
  <1>4. source' = source \/ (source # None /\ source' # None /\ source'.file = source.file)
    BY UnstageSource DEF PermitFile, disk, TypeInv
  <1>5. CASE Intact
    BY <1>1, <1>3, <1>4, <1>5 DEF Intact, PlansAll, Progress
  <1>6. CASE SetAside
    BY <1>1, <1>3, <1>4, <1>6 DEF SetAside, PlansAll, Progress
  <1>7. CASE Replaced
    <2>1. source' # None /\ source'.file = source.file
      BY <1>4, <1>7 DEF Replaced
    <2> QED BY <1>1, <1>2, <1>7, <2>1, ReplacedKept
  <1>8. ~Doomed
    BY <1>2 DEF Doomed
  <1> QED BY <1>1, <1>5, <1>6, <1>7, <1>8 DEF Traceable

(* The steps of the updater that holds the lock. *)
LEMMA WorkingTrace ==
  ASSUME TypeInv, LockOwners, CoreInv, Traceable,
         UpdateRecovers \/ UpdatePreserves \/ UpdateActivates \/ UpdateRestores \/ UpdateDiscards
  PROVE  Traceable'
  <1> SUFFICES ASSUME Open' PROVE Intact' \/ SetAside' \/ Replaced' \/ Doomed'
    BY DEF Traceable
  <1>1. /\ UNCHANGED <<old, locks, config, raced, step, next, plan, reads>> /\ updater # "none"
        /\ Working /\ [Next]_vars
    BY DEF UpdateRecovers, UpdatePreserves, UpdateActivates, UpdateRestores, UpdateDiscards,
           Works, Working, migration, Next, Update
  <1>2. /\ Open /\ Moved' = Moved /\ reads = Moved
        /\ \A i \in 1 .. 3 :
               /\ Decided(i)' <=> Decided(i)
               /\ Prepared(i)' <=> Prepared(i)
               /\ Published(i)' <=> Published(i)
    BY <1>1, MovedKept DEF Open, Committing, Decided, Prepared, Published, locks, CoreInv,
                           ConfigurationHolds
  <1>3. raced = 1
    <2>1. Running
      BY <1>2 DEF Open, Committing, Running
    <2> QED BY <1>1, <1>2, <2>1 DEF LockOwners, Open, TypeInv, TypeOK
  <1>4. PlansAll' <=> PlansAll
    BY <1>1, <1>2 DEF PlansAll
  <1>5. Empty.temp = {} /\ Empty # None
    BY DirectoryFacts
  <1>6. CASE Intact
    <2>1. CASE UpdateRecovers
      <3>1. source' = source /\ backup' = None /\ updater' = "recovered"
        BY <1>6, <2>1 DEF UpdateRecovers, Intact
      <3> QED BY <1>1, <1>2, <1>4, <1>6, <3>1 DEF Intact, Progress
    <2>2. CASE UpdatePreserves
      <3>1. CASE source = None
        BY <1>1, <1>2, <1>4, <1>6, <2>2, <3>1 DEF UpdatePreserves, Intact, Progress
      <3>2. CASE source # None
        BY <1>1, <1>2, <1>3, <1>4, <1>6, <2>2, <3>2 DEF UpdatePreserves, Intact, SetAside, Progress
      <3> QED BY <3>1, <3>2
    <2>3. CASE UpdateActivates
      <3>1. updater = "install" /\ backup' = backup
        BY <1>6, <2>3 DEF UpdateActivates, Intact
      <3>2. CASE source # None /\ updater' = "over" /\ source' = source
        BY <1>1, <1>2, <1>4, <1>6, <3>1, <3>2 DEF Intact, Progress
      <3>3. CASE updater' = "activated" /\ \E gen \in Generations : source' = Upstream(gen)
        <4>1. PICK gen \in Generations : source' = Upstream(gen)
          BY <3>3
        <4>2. /\ source' # None /\ "page" \notin source'.temp /\ Holds(source', gen, Moved)
              /\ gen \in Bare => source'.file["page"] = None
          BY <1>2, <4>1, UpstreamFacts, DirectoryFacts DEF Holds
        <4>3. Decided(2) => plan["meta"] # None
          BY <1>6 DEF Intact, PlansAll
        <4>4. Holds(source, gen, Moved)'
          BY <1>2, <4>2
        <4>5. Decided(3) => Decided(2)
          BY HereFacts DEF Decided, TypeInv
        <4> QED BY <1>1, <1>2, <1>3, <3>3, <4>2, <4>3, <4>4, <4>5 DEF Replaced
      <3> QED BY <2>3, <3>1, <3>2, <3>3 DEF UpdateActivates
    <2>4. ~UpdateRestores /\ ~UpdateDiscards
      BY <1>6 DEF UpdateRestores, UpdateDiscards, Intact
    <2> QED BY <2>1, <2>2, <2>3, <2>4
  <1>7. CASE SetAside
    <2>1. CASE UpdateActivates
      <3>1. updater' = "activated" /\ \E gen \in Generations : source' = Upstream(gen)
        BY <1>7, <2>1 DEF UpdateActivates, SetAside
      <3>2. PICK gen \in Generations : source' = Upstream(gen)
        BY <3>1
      <3>3. /\ source' # None /\ "page" \notin source'.temp /\ Holds(source', gen, Moved)
            /\ gen \in Bare => source'.file["page"] = None
        BY <1>2, <3>2, UpstreamFacts, DirectoryFacts DEF Holds
      <3>4. Decided(2) => plan["meta"] # None
        BY <1>7 DEF SetAside, PlansAll
      <3>5. Holds(source, gen, Moved)'
        BY <1>2, <3>3
      <3>6. Decided(3) => Decided(2)
        BY HereFacts DEF Decided, TypeInv
      <3> QED BY <1>1, <1>2, <1>3, <3>1, <3>3, <3>4, <3>5, <3>6 DEF Replaced
    <2>2. CASE UpdateRestores
      <3>1. source' = backup /\ backup' = None /\ updater' = "over"
        BY <1>7, <2>2 DEF UpdateRestores, SetAside
      <3> QED BY <1>1, <1>2, <1>4, <1>7, <3>1 DEF SetAside, Intact, Progress
    <2>3. ~UpdateRecovers /\ ~UpdatePreserves /\ ~UpdateDiscards
      BY <1>7 DEF UpdateRecovers, UpdatePreserves, UpdateDiscards, SetAside
    <2> QED BY <2>1, <2>2, <2>3
  <1>8. CASE Replaced
    <2>1. UpdateDiscards
      BY <1>8 DEF UpdateRecovers, UpdatePreserves, UpdateActivates, UpdateRestores, Replaced
    <2>2. source' = source /\ updater' = "over"
      BY <2>1 DEF UpdateDiscards
    <2>3. PICK gen \in Generations :
            /\ Holds(source, gen, Moved)
            /\ gen \in Bare => source.file["page"] = None
            /\ Decided(2) /\ plan["meta"] = None => gen = old
      BY <1>8 DEF Replaced
    <2>4. Holds(source, gen, Moved)'
      BY <1>2, <2>2, <2>3 DEF Holds, Is
    <2> QED BY <1>1, <1>2, <1>8, <2>2, <2>3, <2>4 DEF Replaced
  <1>9. CASE Doomed
    <2>1. source # None /\ ~Vacant
      BY <1>5, <1>9 DEF Doomed, Vacant
    <2>2. UpdateActivates \/ UpdateRestores
      BY <1>9 DEF UpdateRecovers, UpdatePreserves, UpdateDiscards, Doomed
    <2>3. source' = source /\ updater' \in {"restore", "over"}
      BY <2>1, <2>2 DEF UpdateActivates, UpdateRestores
    <2> QED BY <1>1, <1>9, <2>3 DEF Doomed
  <1> QED BY <1>2, <1>6, <1>7, <1>8, <1>9 DEF Traceable

LEMMA IdleTrace ==
  ASSUME TypeInv, LockOwners, CoreInv, Traceable,
         ClearStaleLock \/ UpdateReads \/ UpdateLocks \/ UpdateFails \/ UpdateEnds \/ UpdateDies
           \/ UNCHANGED vars
  PROVE  Traceable'
  <1> SUFFICES ASSUME Open' PROVE Intact' \/ SetAside' \/ Replaced' \/ Doomed'
    BY DEF Traceable
  <1>1. /\ UNCHANGED <<old, source, backup, step, next, plan>> /\ [Next]_vars
        /\ raced' = raced \/ UpdateLocks
    BY DEF ClearStaleLock, UpdateReads, UpdateLocks, UpdateFails, UpdateEnds, UpdateDies, disk,
           migration, vars, Next, Update
  <1>2. /\ Moved' = Moved
        /\ \A i \in 1 .. 3 :
               /\ Decided(i)' <=> Decided(i)
               /\ Prepared(i)' <=> Prepared(i)
               /\ Published(i)' <=> Published(i)
    BY <1>1, MovedKept DEF Committing, Decided, Prepared, Published, CoreInv
  <1>3. /\ newLock = "migration" => newLock' = "migration"
        /\ raced = 2 => raced' = 2
    BY DEF ClearStaleLock, UpdateReads, UpdateLocks, UpdateFails, UpdateEnds, UpdateDies,
           vars, locks, LockOwners, Working
  <1>4. Open
    BY <1>1, <1>3 DEF Open, Committing
  <1>5. PlansAll' <=> PlansAll
    BY <1>1, <1>2 DEF PlansAll
  <1>6. CASE UpdateLocks /\ raced' # raced
    <2>1. raced = 0 /\ updater' = "locked"
      BY <1>4, <1>6 DEF UpdateLocks, Open, TypeInv, TypeOK
    <2>2. Intact
      BY <1>4, <2>1 DEF Traceable, SetAside, Replaced, Doomed
    <2> QED BY <1>1, <1>2, <1>5, <2>1, <2>2 DEF Intact, Progress
  <1>7. CASE raced' = raced
    <2>1. CASE UpdateLocks
      <3>1. updater' = "none"
        <4>1. Running
          BY <1>4 DEF Open, Committing, Running
        <4>2. newLock # "free"
          BY <1>4, <1>7, <2>1, <4>1 DEF UpdateLocks, Open, TypeInv, TypeOK
        <4> QED BY <2>1, <4>2 DEF UpdateLocks
      <3>2. Intact => Intact'
        BY <1>1, <1>2, <1>5, <3>1 DEF Intact, Progress
      <3>3. SetAside => SetAside'
        BY <1>1, <1>2, <1>5, <1>7, <3>1 DEF SetAside, Progress
      <3>4. Doomed => Doomed'
        BY <1>1, <1>7, <3>1 DEF Doomed
      <3>5. Replaced => Replaced'
        BY <1>1, <1>2, <1>7, <3>1 DEF Replaced, Holds, Is
      <3> QED BY <1>4, <3>2, <3>3, <3>4, <3>5 DEF Traceable
    <2>2. CASE ~UpdateLocks
      <3>1. /\ updater' = updater \/ updater' \in {"none", "read", "over"}
               \/ (updater = "replace" /\ updater' = "restore")
        BY <2>2 DEF ClearStaleLock, UpdateReads, UpdateFails, UpdateEnds, UpdateDies, vars, updating
      <3>2. Intact => Intact'
        BY <1>1, <1>2, <1>5, <3>1 DEF Intact, Progress
      <3>3. SetAside => SetAside'
        BY <1>1, <1>2, <1>5, <1>7, <3>1 DEF SetAside, Progress
      <3>4. Doomed => Doomed'
        BY <1>1, <1>7, <3>1 DEF Doomed
      <3>5. Replaced => Replaced'
        BY <1>1, <1>2, <1>7, <3>1 DEF Replaced, Holds, Is
      <3> QED BY <1>4, <3>2, <3>3, <3>4, <3>5 DEF Traceable
    <2> QED BY <2>1, <2>2
  <1> QED BY <1>1, <1>6, <1>7

----------------------------------------------------------------------------
(* One snapshot: the theorem. *)

LEMMA NextSnapshot == TypeInv /\ SnapshotInv /\ [Next]_vars => SnapshotInv'
  <1> SUFFICES ASSUME TypeInv, SnapshotInv, [Next]_vars PROVE SnapshotInv'
    OBVIOUS
  <1>0. LockOwners /\ CoreInv /\ Traceable
    BY DEF SnapshotInv, CoreInv
  <1>1. LockOwners'
    BY <1>0, LocksKept
  <1>2. /\ "conf" \in linked' => Moved' = TRUE
        /\ updater' # "none" => reads' = Moved'
    BY <1>0, MovedFacts DEF CoreInv
  <1>3. CASE ~Committing'
    BY <1>1, <1>2, <1>3, OffSnapshot
  <1>4. CASE Committing'
    <2>1. CASE Start
      <3>1. step' = "plan" /\ next' = 1 /\ plan' = NoFiles
        BY <1>4, <2>1 DEF Start, Committing
      <3>2. \A f \in Files : plan'[f] = None
        BY <3>1, DirectoryFacts
      <3>3. \A i \in 1 .. 3 : ~Decided(i)' /\ ~Published(i)'
        BY <3>1 DEF Decided, Published, Prepared
      <3>4. \A i \in 1 .. 3 : ~Settled(i)'
        BY <3>3 DEF Settled
      <3>5. CoreInv'
        <4>1. ~Decided(1)' /\ ~Settled(1)' /\ ~Settled(2)' /\ ~Settled(3)'
          BY <3>3, <3>4
        <4>2. \A i \in 1 .. 3 : plan'[File[i]] = None
          BY <3>2, FileFacts
        <4>3. plan'["conf"] = None /\ plan'["meta"] = None /\ plan'["page"] = None
          BY <3>2 DEF Files
        <4> QED BY <1>2, <4>1, <4>2, <4>3
                DEF CoreInv, ConfigurationHolds, PlanHolds, SettledHolds, InSource
      <3> QED BY <1>0, <1>1, <2>1, <3>5, StartTrace DEF SnapshotInv, CoreInv
    <2>2. CASE PlanFile
      BY <1>0, <1>1, <1>4, <2>2, PlanSettled, PlanTrace DEF SnapshotInv, CoreInv
    <2>3. CASE StageFile \/ LinkFile \/ UnstageFile \/ PermitFile
      BY <1>0, <1>1, <1>4, <2>3, CommitSettled, StageTrace, LinkTrace, FinishTrace
         DEF SnapshotInv, CoreInv
    <2>4. ~RollbackFile /\ ~CleanUp /\ ~PlanFails /\ ~CallFails /\ ~Kill
      <3>1. ~RollbackFile
        <4>1. RollbackFile => step' \in {"rollback", "clean"}
          BY AdvanceFacts DEF RollbackFile, TypeInv
        <4> QED BY <1>4, <4>1 DEF Committing
      <3> QED BY <1>4, <3>1 DEF CleanUp, PlanFails, CallFails, Kill, Return, Fail, Committing
    <2>5. CASE ClearStaleLock \/ UpdateOld \/ Update \/ UpdateFails \/ UpdateDies \/ UNCHANGED vars
      <3>1. UNCHANGED migration
        BY <2>5 DEF ClearStaleLock, UpdateOld, Update, UpdateFails, UpdateDies, UpdateReads,
           UpdateLocks, UpdateRecovers, UpdatePreserves, UpdateActivates, UpdateRestores,
           UpdateDiscards, UpdateEnds, Works, vars
      <3>2. CoreInv' /\ Committing
        BY <1>0, <1>4, <3>1, OthersSettled
      <3>3. ~UpdateOld
        <4>1. Running
          BY <3>2 DEF Committing, Running
        <4> QED BY <1>0, <4>1 DEF LockOwners, UpdateOld
      <3>4. Traceable'
        BY <1>0, <2>5, <3>3, WorkingTrace, IdleTrace DEF Update
      <3> QED BY <1>1, <3>2, <3>4 DEF SnapshotInv, CoreInv
    <2> QED BY <2>1, <2>2, <2>3, <2>4, <2>5 DEF Next, Migrate
  <1> QED BY <1>3, <1>4

(* The step that reports success. *)
LEMMA SuccessFacts ==
  ASSUME TypeInv, SnapshotInv, [Next]_vars, step # "done", step' = "done"
  PROVE  /\ Committing /\ \A i \in 1 .. 3 : Decided(i) /\ Prepared(i) /\ Published(i) /\ Settled(i)
         /\ step = "permit" /\ UNCHANGED <<config, source, backup>>
  <1>1. PermitFile
    <2>1. ASSUME StageFile \/ LinkFile \/ UnstageFile \/ RollbackFile PROVE FALSE
      BY <2>1, AdvanceFacts, HereFacts
         DEF StageFile, LinkFile, UnstageFile, RollbackFile, Fail, TypeInv
    <2> QED BY <2>1, FileFacts
       DEF Next, Migrate, Update, Start, PlanFile, CleanUp, PlanFails, CallFails, Kill, Return, Fail,
           ClearStaleLock, UpdateOld, UpdateReads, UpdateLocks, UpdateRecovers, UpdatePreserves,
           UpdateActivates, UpdateRestores, UpdateDiscards, UpdateFails, UpdateEnds, UpdateDies,
           Works, vars, migration
  <1>2. step = "permit" /\ UNCHANGED <<config, source, backup>>
    BY <1>1 DEF PermitFile, disk
  <1>3. Committing /\ \A i \in 1 .. 3 : Decided(i) /\ Prepared(i) /\ Published(i)
    BY <1>2, CommitFacts DEF TypeInv
  <1> QED BY <1>2, <1>3 DEF Settled

Success ==
    step # "done" /\ step' = "done" =>
      /\ Target("conf")' # None
      /\ newLock = "migration" => raced = 0
      /\ raced = 0 => Holds(source', old, Target("conf")'.moved)
      /\ raced = 1 => \E gen \in Generations :
           /\ Holds(Recoverable', gen, Target("conf")'.moved)
           /\ gen \in Bare => Recoverable'.file["page"] = None

LEMMA SuccessHolds == TypeInv /\ SnapshotInv /\ [Next]_vars => Success
  <1> SUFFICES ASSUME TypeInv, SnapshotInv, [Next]_vars, step # "done", step' = "done"
               PROVE  /\ Target("conf")' # None
                      /\ newLock = "migration" => raced = 0
                      /\ raced = 0 => Holds(source', old, Target("conf")'.moved)
                      /\ raced = 1 => \E gen \in Generations :
                           /\ Holds(Recoverable', gen, Target("conf")'.moved)
                           /\ gen \in Bare => Recoverable'.file["page"] = None
    BY DEF Success
  <1>1. /\ Committing /\ \A i \in 1 .. 3 : Decided(i) /\ Prepared(i) /\ Published(i) /\ Settled(i)
        /\ step = "permit" /\ UNCHANGED <<config, source, backup>>
    BY SuccessFacts
  <1>2. LockOwners /\ ConfigurationHolds /\ PlanHolds /\ SettledHolds /\ Traceable
    BY DEF SnapshotInv
  <1>3. /\ Target("conf")' = Target("conf") /\ Target("conf") # None
        /\ Relocates = Target("conf").moved /\ Moved = Target("conf").moved
    BY <1>1, <1>2 DEF ConfigurationHolds, Moved, Target, Home
  <1>4. newLock = "migration" => raced = 0
    BY <1>2 DEF LockOwners
  <1>5. ASSUME raced = 0 PROVE Holds(source', old, Target("conf")'.moved)
    <2>1. Is(Target("meta"), old, Relocates) /\ (old \notin Bare => Is(Target("page"), old, FALSE))
      <3>1. Settled(2) /\ Settled(3)
        BY <1>1
      <3> QED BY <1>2, <1>5, <3>1 DEF SettledHolds
    <2>2. source # None /\ Target("meta") = source.file["meta"] /\ Target("page") = source.file["page"]
      BY <2>1 DEF Is, Target, Home
    <2> QED BY <1>1, <1>3, <2>1, <2>2 DEF Holds
  <1>6. ASSUME raced = 1
        PROVE  \E gen \in Generations :
                 /\ Holds(Recoverable', gen, Target("conf")'.moved)
                 /\ gen \in Bare => Recoverable'.file["page"] = None
    <2>1. Open
      BY <1>1, <1>4, <1>6 DEF Open
    <2>2. Recoverable' = IF source = None THEN backup ELSE source
      BY <1>1 DEF Recoverable
    <2>3. ASSUME NEW directory, Progress(directory), PlansAll
          PROVE  /\ Holds(directory, old, Target("conf")'.moved)
                 /\ old \in Bare => directory.file["page"] = None
      <3>1. /\ directory # None /\ directory.file["meta"] = plan["meta"]
            /\ directory.file["page"] = plan["page"]
        BY <1>1, <2>3 DEF Progress
      <3>2. plan["meta"] # None /\ (plan["page"] = None <=> old \in Bare)
        BY <1>1, <2>3 DEF PlansAll
      <3>3. /\ plan["meta"] = Migrated(old, Relocates)
            /\ plan["page"] # None => plan["page"] = Migrated(old, FALSE)
        BY <1>1, <1>2, <3>2, WantedFacts DEF PlanHolds, InSource, TypeInv
      <3>4. Is(plan["meta"], old, Relocates)
        BY <3>2, <3>3, IsMigrated
      <3>5. plan["page"] # None => Is(plan["page"], old, FALSE)
        BY <3>3, IsMigrated
      <3> QED BY <1>3, <3>1, <3>2, <3>4, <3>5 DEF Holds
    <2>4. old \in Generations
      BY DEF TypeInv, TypeOK
    <2>5. CASE Intact
      <3>1. Progress(source) /\ PlansAll /\ source # None
        BY <1>1, <2>5 DEF Intact, Progress
      <3> QED BY <2>2, <2>3, <2>4, <3>1
    <2>6. CASE SetAside
      <3>1. Progress(backup) /\ PlansAll /\ source = None
        BY <2>6 DEF SetAside
      <3> QED BY <2>2, <2>3, <2>4, <3>1
    <2>7. CASE Replaced
      BY <1>3, <2>2, <2>7 DEF Replaced
    <2>8. ~Doomed
      BY <1>1 DEF Doomed
    <2> QED BY <1>2, <2>1, <2>5, <2>6, <2>7, <2>8 DEF Traceable
  <1> QED BY <1>3, <1>4, <1>5, <1>6

(* A migration that reports success has left the old store's source with   *)
(* metadata that agrees with the configuration beside it, whatever earlier *)
(* attempts left, however they ended, and whatever updates of either store *)
(* ran between them; beside at most one update of the new store, which     *)
(* only a migration without its lock can meet, the source is the old       *)
(* store's or the update's.                                                *)
THEOREM OneSnapshot == Spec => SuccessIsOneSnapshot
  <1>1. TypeInv /\ SnapshotInv /\ [Next]_vars => [Success]_vars
    BY SuccessHolds
  <1>2. Spec => [][Success]_vars
    BY <1>1, InitTyped, NextTyped, InitSnapshot, NextSnapshot, PTL DEF Spec
  <1> QED BY <1>2 DEF SuccessIsOneSnapshot, Success
=============================================================================
