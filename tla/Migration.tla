------------------------------- MODULE Migration -------------------------------
(***************************************************************************)
(* Copying the storage of an old release into the new layout               *)
(* (crates/mant-sources/src/migration.rs), beside updates of the old and   *)
(* of the new source store, failures, kills and repetitions.               *)
(*                                                                         *)
(* Three files stand for all: the source configuration and, in one source, *)
(* its metadata and a page, planned and installed in this order.  The old  *)
(* store has a generation, which an update of it advances; some have no    *)
(* page.  Copying the configuration makes local repositories absolute;     *)
(* metadata must then be rewritten ("moved") to keep matching it.          *)
(* Budgets, links, permissions and the other trees are left out; an update *)
(* of the old store is one step; the user leaves sources.toml alone.       *)
(***************************************************************************)
EXTENDS Naturals, Sequences, FiniteSets

CONSTANTS
    None,         \* no file, no directory
    Bare,         \* generations of the source that have no page
    MaxOld,       \* bound: generations of the old store
    MaxUpdates,   \* bound: sources the updates of the new store activate
    MaxFaults     \* bound: kills and failing calls

File == <<"conf", "meta", "page">>
Files == {"conf", "meta", "page"}
InSource == {"meta", "page"}
Generations == 1 .. MaxOld

(* Who wrote a file, and what it says. *)
Content == [by : {"migration", "update", "user"}, gen : 0 .. MaxOld, moved : BOOLEAN]
(* A directory: its files and the temporary names of this migration. *)
Directory == [file : [Files -> Content \cup {None}], temp : SUBSET Files]

ASSUME MigrationAssumption ==
    /\ None \notin Content \cup Directory
    /\ MaxOld \in Nat \ {0} /\ MaxUpdates \in Nat /\ MaxFaults \in Nat

VARIABLES
    old,        \* generation of the old store
    oldLock,    \* its lock file: free, held by the migration, or stale
    config,     \* the directory of the new sources.toml
    source,     \* the source's directory in the new store
    backup,     \* and the one an update has set aside
    newStore,   \* the new store's sources directory exists
    newLock,    \* its lock file: free, held by one of the two, or stale
    updater,    \* where the updater of the new store is
    reads,      \* whether the configuration it read is relocated
    updates,    \* sources updaters have activated
    faults,
    step,       \* where the migration is
    next,       \* the file it works on
    plan,       \* what it will write
    linked,     \* targets it has installed
    raced       \* observed: updates that locked the new store meanwhile: 0, 1, more

locks == <<oldLock, newLock>>
disk == <<config, source, backup, newStore>>
updating == <<updater, reads, updates>>
migration == <<step, next, plan, linked>>
vars == <<old, locks, disk, updating, faults, migration, raced>>

here == File[next]
NoFiles == [f \in Files |-> None]
Empty == [file |-> NoFiles, temp |-> {}]
Copies == {f \in Files : plan[f] # None}

Home(f) == IF f = "conf" THEN config ELSE source
Target(f) == IF Home(f) = None THEN None ELSE Home(f).file[f]
IsStaged(f) == Home(f) # None /\ f \in Home(f).temp

Put(f, directory) ==
    IF f = "conf" THEN config' = directory /\ UNCHANGED source
                  ELSE source' = directory /\ UNCHANGED config

Running == step \notin {"idle", "failed", "done"}

Migrated(gen, moved) == [by |-> "migration", gen |-> gen, moved |-> moved]

Faulty == faults < MaxFaults /\ faults' = faults + 1

----------------------------------------------------------------------------
Init ==
    /\ old = 1 /\ oldLock = "free"
    /\ config \in {[file |-> [NoFiles EXCEPT !["conf"] = c], temp |-> {}] :
                      c \in {None} \cup [by : {"user"}, gen : {0}, moved : BOOLEAN]}
    /\ source = None /\ backup = None /\ newStore = FALSE /\ newLock = "free"
    /\ updater = "none" /\ reads = FALSE /\ updates = 0 /\ faults = 0
    /\ step = "idle" /\ next = 1 /\ plan = NoFiles /\ linked = {}
    /\ raced = 0

(* The migration returns: its lock files are removed. *)
Return(result) ==
    /\ step' = result /\ next' = 1
    /\ oldLock' = "free"
    /\ newLock' = IF newLock = "migration" THEN "free" ELSE newLock

(* Both locks are tried; the new store has one only once it exists.  A     *)
(* lock file in the way, stale or not, refuses the migration.              *)
Start ==
    /\ ~Running
    /\ IF oldLock = "free" /\ (newStore => newLock = "free")
       THEN /\ step' = "plan" /\ oldLock' = "migration"
            /\ newLock' = IF newStore THEN "migration" ELSE newLock
       ELSE step' = "failed" /\ UNCHANGED locks
    /\ next' = 1 /\ plan' = NoFiles /\ linked' = {} /\ raced' = 0
    /\ UNCHANGED <<old, disk, updating, faults>>

\* Mutant: an earlier attempt's configuration is taken for the user's.
RelocatesOnce == plan["conf"] # None

(* The configuration is copied as the relocated one, or the existing one   *)
(* is kept; if that is the relocated one of an earlier attempt, metadata   *)
(* is relocated again.                                                     *)
Relocates == plan["conf"] # None \/ (Target("conf") # None /\ Target("conf").moved)

Wanted(file) ==
    CASE file = "conf" -> Migrated(0, TRUE)
      [] file = "meta" -> Migrated(old, Relocates)
      [] file = "page" -> IF old \in Bare THEN None ELSE Migrated(old, FALSE)

\* Mutant: whatever exists is a conflict.
SameBytesNever(a, b) == FALSE

SameBytes(a, b) == a # None /\ a.gen = b.gen /\ a.moved = b.moved

(* Plan.file, prepare_sources: what exists must be equal, except that any  *)
(* existing configuration wins.                                            *)
PlanFile ==
    /\ step = "plan"
    /\ LET wanted  == Wanted(here)
           planned == wanted # None /\ Target(here) = None
           kept    == here = "conf" \/ wanted = None \/ SameBytes(Target(here), wanted)
       IN  /\ plan' = IF planned THEN [plan EXCEPT ![here] = wanted] ELSE plan
           /\ IF ~planned /\ ~kept THEN Return("failed")
              ELSE /\ step' = IF next = Len(File) THEN "stage" ELSE "plan"
                   /\ next' = IF next = Len(File) THEN 1 ELSE next + 1
                   /\ UNCHANGED locks
    /\ UNCHANGED <<old, disk, updating, faults, linked, raced>>

(* A step of the commit is over for this file: the next file, or `after`. *)
Advance(after) ==
    /\ step' = IF next = Len(File) THEN after ELSE step
    /\ next' = IF next = Len(File) THEN 1 ELSE next + 1
Fail == step' = "rollback" /\ next' = 1

Made == IF Home(here) = None THEN Empty ELSE Home(here)

(* Every copy is written to a temporary file beside its target; the        *)
(* directories are created first, by whatever name they have now.          *)
StageFile ==
    /\ step = "stage"
    /\ IF here \in Copies
       THEN /\ Put(here, [Made EXCEPT !.temp = @ \cup {here}])
            /\ newStore' = (newStore \/ here \in InSource)
       ELSE UNCHANGED <<config, source, newStore>>
    /\ Advance("link")
    /\ UNCHANGED <<old, locks, backup, updating, faults, plan, linked, raced>>

\* Mutant: what needs no copy counts as installed.
LinkAll ==
    /\ step = "link"
    /\ IF here \notin Copies
       THEN linked' = linked \cup {here} /\ Advance("unstage") /\ UNCHANGED <<config, source>>
       ELSE IF IsStaged(here) /\ Target(here) = None
       THEN /\ Put(here, [Home(here) EXCEPT !.file[here] = plan[here]])
            /\ linked' = linked \cup {here}
            /\ Advance("unstage")
       ELSE Fail /\ UNCHANGED <<config, source, linked>>
    /\ UNCHANGED <<old, locks, backup, newStore, updating, faults, plan, raced>>

(* A hard link publishes the file; it fails when the target exists or the  *)
(* temporary file has gone.                                                *)
LinkFile ==
    /\ step = "link"
    /\ IF here \notin Copies THEN Advance("unstage") /\ UNCHANGED <<config, source, linked>>
       ELSE IF IsStaged(here) /\ Target(here) = None
       THEN /\ Put(here, [Home(here) EXCEPT !.file[here] = plan[here]])
            /\ linked' = linked \cup {here}
            /\ Advance("unstage")
       ELSE Fail /\ UNCHANGED <<config, source, linked>>
    /\ UNCHANGED <<old, locks, backup, newStore, updating, faults, plan, raced>>

(* The temporary name is removed; one that has gone is an error. *)
UnstageFile ==
    /\ step = "unstage"
    /\ IF here \notin Copies THEN Advance("permit") /\ UNCHANGED <<config, source>>
       ELSE IF IsStaged(here)
       THEN /\ Put(here, [Home(here) EXCEPT !.temp = @ \ {here}])
            /\ Advance("permit")
       ELSE Fail /\ UNCHANGED <<config, source>>
    /\ UNCHANGED <<old, locks, backup, newStore, updating, faults, plan, linked, raced>>

(* The permissions are set by the target's name, whosever file it is now. *)
PermitFile ==
    /\ step = "permit"
    /\ IF here \in Copies /\ Target(here) = None THEN Fail /\ UNCHANGED locks
       ELSE IF next = Len(File) THEN Return("done")
       ELSE Advance("done") /\ UNCHANGED locks
    /\ UNCHANGED <<old, disk, updating, faults, plan, linked, raced>>

(* What was installed is removed, by its path; a removal that fails is     *)
(* ignored.                                                                *)
RollbackFile ==
    /\ step = "rollback"
    /\ \/ /\ IF here \in linked /\ Home(here) # None
             THEN Put(here, [Home(here) EXCEPT !.file[here] = None])
             ELSE UNCHANGED <<config, source>>
          /\ UNCHANGED faults
       \/ Faulty /\ here \in linked /\ UNCHANGED <<config, source>>
    /\ Advance("clean")
    /\ UNCHANGED <<old, locks, backup, newStore, updating, plan, linked, raced>>

Abandoned(directory) == IF directory = None THEN None ELSE [directory EXCEPT !.temp = {}]

(* The temporary names are nobody's any more: they are removed, or stay    *)
(* and no later attempt uses them.                                         *)
Abandon ==
    /\ config' = Abandoned(config) /\ source' = Abandoned(source)
    /\ backup' = Abandoned(backup) /\ UNCHANGED newStore

CleanUp ==
    /\ step = "clean"
    /\ Abandon /\ Return("failed")
    /\ UNCHANGED <<old, updating, faults, plan, linked, raced>>

(* A file cannot be read while the plan is made. *)
PlanFails ==
    /\ step = "plan"
    /\ Faulty /\ Return("failed")
    /\ UNCHANGED <<old, disk, updating, plan, linked, raced>>

(* A call of the commit fails, perhaps after the directory or the          *)
(* temporary file was created.  One is a temporary name that a dead        *)
(* attempt with the same pid has left.                                     *)
CallFails ==
    /\ step \in {"stage", "link", "unstage", "permit"}
    /\ Faulty /\ Fail
    /\ \/ UNCHANGED <<config, source, newStore>>
       \/ /\ step = "stage" /\ here \in Copies
          /\ \E temp \in SUBSET {here} : Put(here, [Made EXCEPT !.temp = @ \cup temp])
          /\ newStore' = (newStore \/ here \in InSource)
    /\ UNCHANGED <<old, locks, backup, updating, plan, linked, raced>>

(* The process dies.  The lock files it made stay. *)
Kill ==
    /\ Running /\ Faulty
    /\ step' = "idle" /\ next' = 1 /\ plan' = NoFiles /\ linked' = {}
    /\ oldLock' = "stale"
    /\ newLock' = IF newLock = "migration" THEN "stale" ELSE newLock
    /\ Abandon
    /\ UNCHANGED <<old, updating, raced>>

(* The operator removes a lock file whose process is gone, as the message  *)
(* of the refused command says.                                            *)
ClearStaleLock ==
    /\ \/ oldLock = "stale" /\ oldLock' = "free" /\ UNCHANGED newLock
       \/ newLock = "stale" /\ newLock' = "free" /\ UNCHANGED oldLock
    /\ UNCHANGED <<old, disk, updating, faults, migration, raced>>

----------------------------------------------------------------------------
(* The updaters (mant-sources/src/update.rs, transaction.rs). *)

UpdateOld ==
    /\ oldLock = "free"
    /\ old < MaxOld /\ old' = old + 1
    /\ UNCHANGED <<locks, disk, updating, faults, migration, raced>>

(* What a step of the updater that holds the lock leaves alone. *)
Works == UNCHANGED <<old, locks, config, newStore, reads, faults, migration, raced>>

(* The configuration is read before the lock is taken. *)
UpdateReads ==
    /\ updater = "none" /\ updates < MaxUpdates
    /\ Target("conf") # None
    /\ updater' = "read" /\ reads' = Target("conf").moved
    /\ UNCHANGED <<old, locks, disk, updates, faults, migration, raced>>

UpdateLocks ==
    /\ updater = "read"
    /\ newStore' = TRUE
    /\ IF newLock = "free"
       THEN /\ newLock' = "updater" /\ updater' = "locked"
            /\ raced' = IF Running /\ raced < 2 THEN raced + 1 ELSE raced
       ELSE updater' = "none" /\ UNCHANGED <<newLock, raced>>
    /\ UNCHANGED <<old, oldLock, config, source, backup, reads, updates, faults, migration>>

(* recover_directory: what was set aside is put back or thrown away. *)
UpdateRecovers ==
    /\ updater = "locked" /\ updater' = "recovered"
    /\ source' = (IF source = None THEN backup ELSE source) /\ backup' = None
    /\ Works /\ UNCHANGED updates

(* The first rename of replace_with: whatever directory is there by then,  *)
(* with or without metadata, is set aside.                                 *)
UpdatePreserves ==
    /\ updater = "recovered"
    /\ updater' = IF source = None THEN "install" ELSE "replace"
    /\ backup' = source /\ source' = None
    /\ Works /\ UNCHANGED updates

(* A directory in the way lets a rename through if it is empty. *)
Vacant == source \in {None, Empty}

Upstream(gen) ==
    [file |-> [f \in Files |->
        CASE f = "conf" -> None
          [] f = "meta" -> [by |-> "update", gen |-> gen, moved |-> reads]
          [] f = "page" -> IF gen \in Bare THEN None
                           ELSE [by |-> "update", gen |-> gen, moved |-> FALSE]],
     temp |-> {}]

(* The second rename.  A directory that has been created again meanwhile   *)
(* is in its way, unless it is empty; temporary names of dead attempts do  *)
(* not show in it.                                                         *)
UpdateActivates ==
    /\ updater \in {"install", "replace"}
    /\ \/ /\ Vacant
          /\ \E gen \in Generations : source' = Upstream(gen)
          /\ updates' = updates + 1 /\ updater' = "activated"
       \/ /\ source # None
          /\ updater' = IF updater = "replace" THEN "restore" ELSE "over"
          /\ UNCHANGED <<source, updates>>
    /\ Works /\ UNCHANGED backup

UpdateRestores ==
    /\ updater = "restore" /\ updater' = "over"
    /\ \/ Vacant /\ source' = backup /\ backup' = None
       \/ source # None /\ UNCHANGED <<source, backup>>
    /\ Works /\ UNCHANGED updates

UpdateDiscards ==
    /\ updater = "activated" /\ updater' = "over"
    /\ backup' = None
    /\ Works /\ UNCHANGED <<source, updates>>

(* A rename or a sync fails, or the source could not be fetched. *)
UpdateFails ==
    /\ updater \in {"locked", "recovered", "install", "replace", "restore", "activated"}
    /\ Faulty
    /\ updater' = "over" \/ (updater = "replace" /\ updater' = "restore")
    /\ UNCHANGED <<old, locks, disk, reads, updates, migration, raced>>

(* The update is over, or it has found nothing new. *)
UpdateEnds ==
    /\ updater \in {"recovered", "over"} /\ updater' = "none"
    /\ newLock' = "free"
    /\ UNCHANGED <<old, oldLock, disk, reads, updates, faults, migration, raced>>

UpdateDies ==
    /\ updater # "none" /\ Faulty
    /\ updater' = "none"
    /\ newLock' = IF updater = "read" THEN newLock ELSE "stale"
    /\ UNCHANGED <<old, oldLock, disk, reads, updates, migration, raced>>

Migrate ==
    \/ Start \/ PlanFile \/ StageFile \/ LinkFile \/ UnstageFile \/ PermitFile
    \/ RollbackFile \/ CleanUp

Update ==
    \/ UpdateReads \/ UpdateLocks \/ UpdateRecovers \/ UpdatePreserves
    \/ UpdateActivates \/ UpdateRestores \/ UpdateDiscards \/ UpdateEnds

Next ==
    \/ Migrate \/ PlanFails \/ CallFails \/ Kill \/ ClearStaleLock
    \/ UpdateOld \/ Update \/ UpdateFails \/ UpdateDies

Spec == Init /\ [][Next]_vars

(* The user repeats the migration, and the operator removes a lock file    *)
(* that refuses it once its process is gone.                               *)
FairSpec == Spec /\ WF_vars(Migrate) /\ WF_vars(ClearStaleLock)

----------------------------------------------------------------------------
TypeOK ==
    /\ old \in Generations
    /\ oldLock \in {"free", "migration", "stale"}
    /\ newLock \in {"free", "migration", "updater", "stale"}
    /\ config \in Directory /\ source \in Directory \cup {None}
    /\ backup \in Directory \cup {None}
    /\ newStore \in BOOLEAN /\ reads \in BOOLEAN /\ raced \in 0 .. 2
    /\ updater \in {"none", "read", "locked", "recovered", "install", "replace",
                    "restore", "activated", "over"}
    /\ updates \in 0 .. MaxUpdates /\ faults \in 0 .. MaxFaults
    /\ step \in {"idle", "plan", "stage", "link", "unstage", "permit", "rollback",
                 "clean", "failed", "done"}
    /\ next \in DOMAIN File
    /\ plan \in [Files -> Content \cup {None}]
    /\ linked \subseteq Copies

(* A directory holds the source of one generation, and metadata that       *)
(* agrees with the configuration.                                          *)
Is(file, gen, moved) == file # None /\ file.gen = gen /\ file.moved = moved
Holds(directory, gen, moved) ==
    /\ directory # None
    /\ Is(directory.file["meta"], gen, moved)
    /\ gen \notin Bare => Is(directory.file["page"], gen, FALSE)

(* The directory that a recovery would leave under the source's name. *)
Recoverable == IF source = None THEN backup ELSE source

(* A migration that reports success has left every file the old store has  *)
(* now, with its present content, and metadata that agrees with the        *)
(* configuration beside it: what earlier attempts, killed or failed half   *)
(* way through their rollback, and updates between them left behind was    *)
(* recognized or refused (Plan.file, prepare_sources, Plan.commit).  With  *)
(* the lock of the new store no update can race it.  Without, one update   *)
(* may, at any point; then the source, or what that update has set aside,  *)
(* is the old store's or the update's, and no mixture.                     *)
SuccessIsOneSnapshot ==
    [][step # "done" /\ step' = "done" =>
         /\ Target("conf")' # None
         /\ newLock = "migration" => raced = 0
         /\ raced = 0 => Holds(source', old, Target("conf")'.moved)
         /\ raced = 1 => \E gen \in Generations :
              /\ Holds(Recoverable', gen, Target("conf")'.moved)
              /\ gen \in Bare => Recoverable'.file["page"] = None]_vars

(* Migration is repeatable: while neither store is updated, and once stale *)
(* lock files are removed, no kill or failure keeps it from completing,    *)
(* whatever it had installed by then.                                      *)
RepeatingCompletes ==
    [](old = 1 /\ updates = 0) /\ <>[](updater = "none") => <>(step = "done")

(* "Previously installed files are retained": a failing migration removes  *)
(* no file that an update of the new store has installed.                  *)
InstalledFilesAreRetained ==
    [][RollbackFile => \A f \in Files :
         Target(f) # None /\ Target(f).by = "update" => Target(f)' = Target(f)]_vars
=============================================================================
