---------------------------- MODULE SourceStore ----------------------------
(***************************************************************************)
(* The managed source store of ManT (crates/mant-sources): what            *)
(* `mant --update-docs` and `mant --prune-docs` do to the directories      *)
(* below `sources/`, with everything that can interrupt them.              *)
(*                                                                         *)
(* A process slot stands for one pid: it runs one command at a time and    *)
(* may be killed between any two steps, after which the slot (the pid) can *)
(* be used again.  A source is one table of sources.toml; its public       *)
(* directory is target[s], the directory activation sets aside is          *)
(* backup[s] (`<name>.backup`), and the directory a prune isolates is      *)
(* tomb[p][s] (`.prune-<name>-<pid>`).  Until the environment settles      *)
(* (calm), any file operation can fail, any process can be killed, the     *)
(* user edits sources.toml and the remote publishes revisions.             *)
(*                                                                         *)
(* Loss of power is not modelled: the disk keeps every completed           *)
(* operation.  Update workspaces are private to a process and never read   *)
(* back, so a staged tree is represented by the step that installs it.     *)
(***************************************************************************)
EXTENDS Naturals, FiniteSets

CONSTANTS
    Procs,      \* process slots (pids)
    Sources,    \* source names, numbered in the byte order of their names
    Archives,   \* the sources whose location is an archive; the others are Git
    Fps,        \* configuration fingerprints a source can have
    Revs,       \* revisions a remote can publish
    Commands,   \* which commands each slot runs
    None        \* an absent directory, table or value

CommandNames == {"update", "prune", "preview"}

ASSUME ConstantsAssumption ==
    /\ Sources \subseteq Nat
    /\ Archives \subseteq Sources
    /\ None \notin Fps \cup Revs \cup Sources
    /\ Commands \in [Procs -> SUBSET CommandNames]

(***************************************************************************)
(* An installed tree.  Its documents and metadata come from revision rev   *)
(* fetched under fingerprint fp.  An interrupted removal leaves it         *)
(* "partial" (documents gone, metadata still there) or "bare" (metadata    *)
(* gone as well).                                                          *)
(***************************************************************************)
Tree == [rev : Revs, fp : Fps, part : {"whole", "partial", "bare"}]
Dir  == Tree \cup {None}

ASSUME NoneIsNotATree == None \notin Tree

VARIABLES
    config,     \* sources.toml: the fingerprint of each configured source
    remote,     \* the revision each remote publishes now
    calm,       \* the environment has settled: no faults, kills or edits
    lock,       \* whether `.update.lock` exists
    target,     \* the public directory of each source
    backup,     \* `<name>.backup`
    tomb,       \* `.prune-<name>-<pid>`
    pc,         \* where each process is
    command,    \* the command it runs
    cfg,        \* the configuration it loaded when it started
    todo,       \* the sources it has not visited yet
    job         \* what it knows about the source it is working on

envVars   == <<config, remote, calm>>
storeVars == <<target, backup, tomb>>
procVars  == <<pc, command, cfg, todo, job>>
vars      == <<envVars, lock, storeVars, procVars>>

Idle == "idle"
UpdateSteps == {"acquire", "clone", "stage", "recover", "preserve",
                "syncPreserved", "activate", "syncActivated", "discard",
                "syncDiscarded"}
PruneSteps  == {"discover", "syncIsolated", "remove", "syncRemoved"}
Critical    == UpdateSteps \cup PruneSteps \cup {"next", "report"}
Outcomes    == {"updated", "unchanged", "failed", "removed", "would-remove"}

\* What SourceUpdateContext and the prune loop carry for one source.
Job == [source    : Sources \cup {None},
        installed : Revs \cup {None},   \* trusted metadata's revision
        revision  : Revs \cup {None},   \* revision being installed
        had       : BOOLEAN,            \* had_target
        before    : Dir,                \* history: the installation it found
        outcome   : Outcomes \cup {None}]

NoJob == [source |-> None, installed |-> None, revision |-> None,
          had |-> FALSE, before |-> None, outcome |-> None]

TypeOK ==
    /\ config  \in [Sources -> Fps \cup {None}]
    /\ remote  \in [Sources -> Revs]
    /\ calm    \in BOOLEAN
    /\ lock    \in BOOLEAN
    /\ target  \in [Sources -> Dir]
    /\ backup  \in [Sources -> Dir]
    /\ tomb    \in [Procs -> [Sources -> Dir]]
    /\ pc      \in [Procs -> Critical \cup {Idle, "loaded"}]
    /\ command \in [Procs -> CommandNames \cup {None}]
    /\ cfg     \in [Procs -> [Sources -> Fps \cup {None}]]
    /\ todo    \in [Procs -> SUBSET Sources]
    /\ job     \in [Procs -> Job]

NoConfig == [s \in Sources |-> None]

Init ==
    /\ config \in [Sources -> Fps \cup {None}]
    /\ remote \in [Sources -> Revs]
    /\ calm = FALSE
    /\ lock = FALSE
    /\ target = [s \in Sources |-> None]
    /\ backup = [s \in Sources |-> None]
    /\ tomb = [p \in Procs |-> [s \in Sources |-> None]]
    /\ pc = [p \in Procs |-> Idle]
    /\ command = [p \in Procs |-> None]
    /\ cfg = [p \in Procs |-> NoConfig]
    /\ todo = [p \in Procs |-> {}]
    /\ job = [p \in Procs |-> NoJob]

-----------------------------------------------------------------------------
(***************************************************************************)
(* Helpers.                                                                *)
(***************************************************************************)

\* Sources are visited in name order.
IsFirst(p, s) == s \in todo[p] /\ \A t \in todo[p] : s <= t

\* A tree the ownership check accepts: its metadata names the source.
Identified(d) == d # None /\ d.part # "bare"

\* What a failed or interrupted remove_dir_all can leave of a tree.
Ruins(d) ==
    {[d EXCEPT !.part = q] :
        q \in CASE d.part = "whole"   -> {"whole", "partial", "bare"}
                [] d.part = "partial" -> {"partial", "bare"}
                [] OTHER              -> {"bare"}}

\* What remove_internal_dir, which ignores errors, can leave of a tree.
Remains(d) == {None} \cup (IF calm \/ d = None THEN {} ELSE Ruins(d))

\* Mutant: the fingerprint is not compared.
TrustedRevisionAnyConfig(d, fp) ==
    IF d # None /\ d.part = "whole" THEN d.rev ELSE None

\* Mutant: the fingerprint is returned in place of the revision.
TrustedRevisionSwapped(d, fp) ==
    IF d # None /\ d.part = "whole" /\ d.fp = fp THEN d.fp ELSE None

\* The revision of the installed metadata, if the updater may rely on it:
\* it matches the configuration and the documents it counts are there.
TrustedRevision(d, fp) ==
    IF d # None /\ d.part = "whole" /\ d.fp = fp THEN d.rev ELSE None

\* The installation a source resolves to: its public directory or, while
\* that is set aside, the directory the next update will recover.
Logical(s) == IF target[s] # None THEN target[s] ELSE backup[s]

\* The tree the process has staged for the source it is working on.
Staged(p) == [rev  |-> job[p].revision,
              fp   |-> cfg[p][job[p].source],
              part |-> "whole"]

\* remove_internal_dir(backup)
DiscardBackup(s) == \E r \in Remains(backup[s]) : backup' = [backup EXCEPT ![s] = r]

\* recover_with: finish or undo an interrupted activation.  ok is its result.
Recover(s, ok) ==
    \/ /\ backup[s] = None
       /\ ok
       /\ UNCHANGED <<target, backup>>
    \/ /\ backup[s] # None /\ target[s] # None
       /\ ok
       /\ DiscardBackup(s)
       /\ UNCHANGED target
    \/ /\ backup[s] # None /\ target[s] = None
       /\ ok
       /\ target' = [target EXCEPT ![s] = backup[s]]
       /\ backup' = [backup EXCEPT ![s] = None]
    \/ /\ backup[s] # None /\ target[s] = None
       /\ ~ok /\ ~calm
       /\ UNCHANGED <<target, backup>>

Goto(p, step) == pc' = [pc EXCEPT ![p] = step]

\* End work on the current source with the given result.
Conclude(p, result) ==
    /\ Goto(p, "report")
    /\ job' = [job EXCEPT ![p].outcome = result]

\* Any fallible operation that changes nothing when it fails.
Fails(p) == ~calm /\ Conclude(p, "failed")

\* The process is over: it was refused, returned, or was killed.
Exit(p) ==
    /\ Goto(p, Idle)
    /\ command' = [command EXCEPT ![p] = None]
    /\ cfg' = [cfg EXCEPT ![p] = NoConfig]
    /\ todo' = [todo EXCEPT ![p] = {}]
    /\ job' = [job EXCEPT ![p] = NoJob]

\* What every step inside one source's work leaves alone.
InSource(p, step) ==
    /\ pc[p] = step
    /\ UNCHANGED <<envVars, lock, command, cfg, todo>>

-----------------------------------------------------------------------------
(***************************************************************************)
(* Starting, locking and leaving, common to the commands.                  *)
(***************************************************************************)

\* The command line loads sources.toml before it takes the lock.
Start(p, c) ==
    /\ pc[p] = Idle
    /\ Goto(p, "loaded")
    /\ command' = [command EXCEPT ![p] = c]
    /\ cfg' = [cfg EXCEPT ![p] = config]
    /\ UNCHANGED <<envVars, lock, storeVars, todo, job>>

\* UpdateLock::acquire creates the lock file exclusively.
AcquireLock(p) ==
    /\ pc[p] = "loaded"
    /\ ~lock
    /\ lock' = TRUE
    /\ IF command[p] = "update"
       THEN /\ Goto(p, "next")
            /\ todo' = [todo EXCEPT ![p] = {s \in Sources : cfg[p][s] # None}]
       ELSE /\ Goto(p, "discover")
            /\ UNCHANGED todo
    /\ UNCHANGED <<envVars, storeVars, command, cfg, job>>

\* Mutant: the lock guard exists before the file is created, so dropping it
\* removes the lock of the running process.
LockRefusedUnlocks(p) ==
    /\ pc[p] = "loaded"
    /\ lock
    /\ lock' = FALSE
    /\ Exit(p)
    /\ UNCHANGED <<envVars, storeVars>>

\* "another document source update is already running", or an I/O error.
LockRefused(p) ==
    /\ pc[p] = "loaded"
    /\ lock \/ ~calm
    /\ Exit(p)
    /\ UNCHANGED <<envVars, lock, storeVars>>

\* One source is done; its result goes to the report.
Report(p) ==
    /\ pc[p] = "report"
    /\ todo' = [todo EXCEPT ![p] = @ \ {job[p].source}]
    /\ job' = [job EXCEPT ![p] = NoJob]
    /\ Goto(p, "next")
    /\ UNCHANGED <<envVars, lock, storeVars, command, cfg>>

\* Mutant: an early return leaks the lock.
FinishKeepsLock(p) ==
    /\ pc[p] = "next"
    /\ todo[p] = {}
    /\ Exit(p)
    /\ UNCHANGED <<envVars, lock, storeVars>>

\* The command returns and drops the lock; an error removing it is ignored.
Finish(p) ==
    /\ pc[p] = "next"
    /\ todo[p] = {}
    /\ lock' \in IF calm THEN {FALSE} ELSE BOOLEAN
    /\ Exit(p)
    /\ UNCHANGED <<envVars, storeVars>>

-----------------------------------------------------------------------------
(***************************************************************************)
(* mant --update-docs                                                      *)
(***************************************************************************)

\* SourceUpdateContext::prepare: recover, then probe what is installed.
Prepare(p) ==
    /\ pc[p] = "next"
    /\ command[p] = "update"
    /\ \E s \in Sources, ok \in BOOLEAN, probed \in BOOLEAN :
         /\ IsFirst(p, s)
         /\ Recover(s, ok)
         /\ probed \/ ~calm
         /\ IF ok /\ probed
            THEN /\ Goto(p, "acquire")
                 /\ job' = [job EXCEPT ![p] =
                      [NoJob EXCEPT !.source = s,
                                    !.before = Logical(s),
                                    !.installed =
                                      TrustedRevision(target'[s], cfg[p][s])]]
            ELSE /\ Goto(p, "report")
                 /\ job' = [job EXCEPT ![p] =
                      [NoJob EXCEPT !.source = s,
                                    !.before = Logical(s),
                                    !.outcome = "failed"]]
    /\ UNCHANGED <<envVars, lock, tomb, command, cfg, todo>>

\* git ls-remote: an unchanged revision ends the work on the source.
RemoteRevision(p) ==
    /\ InSource(p, "acquire")
    /\ job[p].source \notin Archives
    /\ \/ Fails(p)
       \/ /\ job[p].installed = remote[job[p].source]
          /\ Conclude(p, "unchanged")
       \/ /\ job[p].installed # remote[job[p].source]
          /\ Goto(p, "clone")
          /\ job' = [job EXCEPT ![p].revision = remote[job[p].source]]
    /\ UNCHANGED storeVars

\* git clone: the branch may have moved since ls-remote.
Clone(p) ==
    /\ InSource(p, "clone")
    /\ \/ Fails(p)
       \/ /\ remote[job[p].source] # job[p].revision
          /\ Conclude(p, "failed")
       \/ /\ remote[job[p].source] = job[p].revision
          /\ Goto(p, "stage")
          /\ UNCHANGED job
    /\ UNCHANGED storeVars

\* A conditional download: not modified, the same digest, or new content.
DownloadArchive(p) ==
    /\ InSource(p, "acquire")
    /\ job[p].source \in Archives
    /\ \/ Fails(p)
       \/ /\ job[p].installed = remote[job[p].source]
          /\ Conclude(p, "unchanged")
       \/ /\ job[p].installed # remote[job[p].source]
          /\ Goto(p, "stage")
          /\ job' = [job EXCEPT ![p].revision = remote[job[p].source]]
    /\ UNCHANGED storeVars

\* Select, copy and sync the documents, then write and sync the metadata.
Stage(p) ==
    /\ InSource(p, "stage")
    /\ \/ Fails(p)
       \/ Goto(p, "recover") /\ UNCHANGED job
    /\ UNCHANGED storeVars

\* replace_with starts by recovering once more.
RecoverAgain(p) ==
    /\ InSource(p, "recover")
    /\ \E ok \in BOOLEAN :
         /\ Recover(job[p].source, ok)
         /\ IF ok THEN Goto(p, "preserve") /\ UNCHANGED job
                  ELSE Conclude(p, "failed")
    /\ UNCHANGED tomb

\* Mutant: the previous tree is deleted, not set aside.
PreserveByRemoving(p) ==
    /\ InSource(p, "preserve")
    /\ target' = [target EXCEPT ![job[p].source] = None]
    /\ Goto(p, "activate")
    /\ UNCHANGED <<job, backup, tomb>>

\* What rename(target -> backup) does not stumble over: no leftover, or one
\* that may be an empty directory.
Replaceable(d) == d # None => d.part = "bare"

\* rename(target -> backup).  Any other leftover backup makes it fail.
Preserve(p) ==
    LET s == job[p].source IN
    /\ InSource(p, "preserve")
    /\ \/ /\ target[s] = None
          /\ Goto(p, "activate")
          /\ UNCHANGED <<job, target, backup>>
       \/ /\ target[s] # None /\ Replaceable(backup[s])
          /\ target' = [target EXCEPT ![s] = None]
          /\ backup' = [backup EXCEPT ![s] = target[s]]
          /\ Goto(p, "syncPreserved")
          /\ job' = [job EXCEPT ![p].had = TRUE]
       \/ /\ target[s] # None
          /\ backup[s] # None \/ ~calm
          /\ Conclude(p, "failed")
          /\ UNCHANGED <<target, backup>>
    /\ UNCHANGED tomb

\* Mutant: the backup is discarded before the new tree is in place.
SyncPreservedDiscards(p) ==
    /\ InSource(p, "syncPreserved")
    /\ DiscardBackup(job[p].source)
    /\ Goto(p, "activate")
    /\ UNCHANGED <<job, target, tomb>>

\* A failed sync returns at once, leaving the previous tree set aside.
SyncPreserved(p) ==
    /\ InSource(p, "syncPreserved")
    /\ \/ Fails(p)
       \/ Goto(p, "activate") /\ UNCHANGED job
    /\ UNCHANGED storeVars

\* rename(staging -> target)
Activate(p) ==
    LET s == job[p].source IN
    /\ InSource(p, "activate")
    /\ target[s] = None
    /\ target' = [target EXCEPT ![s] = Staged(p)]
    /\ Goto(p, "syncActivated")
    /\ UNCHANGED <<job, backup, tomb>>

\* The activation failed: put the previous tree back, if that works.
ActivateFails(p) ==
    LET s == job[p].source IN
    /\ InSource(p, "activate")
    /\ target[s] # None \/ ~calm
    /\ Conclude(p, "failed")
    /\ \/ /\ job[p].had /\ target[s] = None /\ backup[s] # None
          /\ target' = [target EXCEPT ![s] = backup[s]]
          /\ backup' = [backup EXCEPT ![s] = None]
       \/ UNCHANGED <<target, backup>>
    /\ UNCHANGED tomb

SyncActivated(p) ==
    /\ InSource(p, "syncActivated")
    /\ \/ Fails(p)
       \/ Goto(p, "discard") /\ UNCHANGED job
    /\ UNCHANGED storeVars

Discard(p) ==
    /\ InSource(p, "discard")
    /\ DiscardBackup(job[p].source)
    /\ Goto(p, "syncDiscarded")
    /\ UNCHANGED <<job, target, tomb>>

SyncDiscarded(p) ==
    /\ InSource(p, "syncDiscarded")
    /\ \/ Fails(p)
       \/ Conclude(p, "updated")
    /\ UNCHANGED storeVars

-----------------------------------------------------------------------------
(***************************************************************************)
(* mant --prune-docs [--dry-run]                                           *)
(***************************************************************************)

\* Mutant: configured sources are not skipped.
DiscoverAll(p) ==
    /\ pc[p] = "discover"
    /\ Goto(p, "next")
    /\ todo' = [todo EXCEPT ![p] = {s \in Sources : Identified(target[s])}]
    /\ UNCHANGED <<envVars, lock, storeVars, command, cfg, job>>

\* The removable directories absent from the configuration loaded at start.
\* Entries the ownership check refuses are reported and left alone.
DiscoverOrphans(p) ==
    /\ pc[p] = "discover"
    /\ Goto(p, "next")
    /\ \/ todo' = [todo EXCEPT ![p] =
                     {s \in Sources : cfg[p][s] = None /\ Identified(target[s])}]
       \/ ~calm /\ UNCHANGED todo
    /\ UNCHANGED <<envVars, lock, storeVars, command, cfg, job>>

Preview(p) ==
    /\ pc[p] = "next"
    /\ command[p] = "preview"
    /\ \E s \in Sources :
         /\ IsFirst(p, s)
         /\ job' = [job EXCEPT ![p] = [NoJob EXCEPT !.source = s,
                                                    !.before = Logical(s),
                                                    !.outcome = "would-remove"]]
    /\ Goto(p, "report")
    /\ UNCHANGED <<envVars, lock, storeVars, command, cfg, todo>>

\* Mutant: an existing tombstone is not noticed.
CanIsolateAgain(p, s) == Identified(target[s])

\* The identity still holds and no old tombstone has this pid's name.
CanIsolate(p, s) == Identified(target[s]) /\ tomb[p][s] = None

\* Check the identity again, then rename(target -> tombstone).
Isolate(p) ==
    /\ pc[p] = "next"
    /\ command[p] = "prune"
    /\ \E s \in Sources :
         /\ IsFirst(p, s)
         /\ CanIsolate(p, s)
         /\ target' = [target EXCEPT ![s] = None]
         /\ tomb' = [tomb EXCEPT ![p][s] = target[s]]
         /\ job' = [job EXCEPT ![p] = [NoJob EXCEPT !.source = s,
                                                    !.before = Logical(s)]]
    /\ Goto(p, "syncIsolated")
    /\ UNCHANGED <<envVars, lock, backup, command, cfg, todo>>

\* The identity changed, an old tombstone has this pid's name, or an error.
IsolateFails(p) ==
    /\ pc[p] = "next"
    /\ command[p] = "prune"
    /\ \E s \in Sources :
         /\ IsFirst(p, s)
         /\ ~CanIsolate(p, s) \/ ~calm
         /\ job' = [job EXCEPT ![p] = [NoJob EXCEPT !.source = s,
                                                    !.before = Logical(s),
                                                    !.outcome = "failed"]]
    /\ Goto(p, "report")
    /\ UNCHANGED <<envVars, lock, storeVars, command, cfg, todo>>

\* Sync, then check the identity of the isolated tree.
SyncIsolated(p) ==
    /\ InSource(p, "syncIsolated")
    /\ Identified(tomb[p][job[p].source])
    /\ Goto(p, "remove")
    /\ UNCHANGED <<storeVars, job>>

\* failed_prune_with_recovery: rename(tombstone -> target), if that works.
RestoreIsolated(p) ==
    LET s == job[p].source IN
    /\ InSource(p, "syncIsolated")
    /\ ~calm \/ ~Identified(tomb[p][s])
    /\ Conclude(p, "failed")
    /\ \/ /\ target[s] = None
          /\ target' = [target EXCEPT ![s] = tomb[p][s]]
          /\ tomb' = [tomb EXCEPT ![p][s] = None]
       \/ UNCHANGED <<target, tomb>>
    /\ UNCHANGED backup

\* remove_dir_all(tombstone)
RemoveIsolated(p) ==
    LET s == job[p].source IN
    /\ InSource(p, "remove")
    /\ \/ /\ tomb' = [tomb EXCEPT ![p][s] = None]
          /\ Goto(p, "syncRemoved")
          /\ UNCHANGED job
       \/ /\ ~calm
          /\ \E d \in Ruins(tomb[p][s]) : tomb' = [tomb EXCEPT ![p][s] = d]
          /\ Conclude(p, "failed")
    /\ UNCHANGED <<target, backup>>

SyncRemoved(p) ==
    /\ InSource(p, "syncRemoved")
    /\ \/ Fails(p)
       \/ Conclude(p, "removed")
    /\ UNCHANGED storeVars

-----------------------------------------------------------------------------
(***************************************************************************)
(* The environment.                                                        *)
(***************************************************************************)

\* A process is killed: no destructor runs, so its lock file stays.
Kill(p) ==
    /\ ~calm
    /\ pc[p] # Idle
    /\ Exit(p)
    /\ UNCHANGED <<envVars, lock, storeVars>>

\* The documented remedy for a stale lock: the operator first verifies that
\* no update or prune is running.
ClearStaleLock ==
    /\ lock
    /\ \A p \in Procs : pc[p] \notin Critical
    /\ lock' = FALSE
    /\ UNCHANGED <<envVars, storeVars, procVars>>

\* The user adds, changes or removes one table of sources.toml.
EditConfig(s) ==
    /\ ~calm
    /\ \E f \in Fps \cup {None} : config' = [config EXCEPT ![s] = f]
    /\ UNCHANGED <<remote, calm, lock, storeVars, procVars>>

\* The upstream branch or archive moves.
Publish(s) ==
    /\ ~calm
    /\ \E r \in Revs : remote' = [remote EXCEPT ![s] = r]
    /\ UNCHANGED <<config, calm, lock, storeVars, procVars>>

\* From here on nothing fails and nothing is edited.
Settle ==
    /\ ~calm
    /\ calm' = TRUE
    /\ UNCHANGED <<config, remote, lock, storeVars, procVars>>

-----------------------------------------------------------------------------
UpdateStep(p) ==
    \/ Prepare(p) \/ RemoteRevision(p) \/ Clone(p) \/ DownloadArchive(p)
    \/ Stage(p) \/ RecoverAgain(p) \/ Preserve(p) \/ SyncPreserved(p)
    \/ Activate(p) \/ ActivateFails(p) \/ SyncActivated(p) \/ Discard(p)
    \/ SyncDiscarded(p)

PruneStep(p) ==
    \/ DiscoverOrphans(p) \/ Preview(p) \/ Isolate(p) \/ IsolateFails(p)
    \/ SyncIsolated(p) \/ RestoreIsolated(p) \/ RemoveIsolated(p)
    \/ SyncRemoved(p)

\* What a running process does by itself once it holds the lock.
HeldStep(p) == UpdateStep(p) \/ PruneStep(p) \/ Report(p) \/ Finish(p)

Next ==
    \/ \E p \in Procs, c \in CommandNames : c \in Commands[p] /\ Start(p, c)
    \/ \E p \in Procs : AcquireLock(p)
    \/ \E p \in Procs : LockRefused(p)
    \/ \E p \in Procs : HeldStep(p)
    \/ \E p \in Procs : Kill(p)
    \/ \E s \in Sources : EditConfig(s)
    \/ \E s \in Sources : Publish(s)
    \/ ClearStaleLock
    \/ Settle

Spec == Init /\ [][Next]_vars

\* A process that holds the lock keeps running unless it is killed.
FairSpec == Spec /\ \A p \in Procs : WF_vars(HeldStep(p))

-----------------------------------------------------------------------------
(***************************************************************************)
(* Properties.                                                             *)
(***************************************************************************)

\* At most one process is past UpdateLock::acquire, and the lock file exists
\* as long as it is, whatever was killed and whoever cleared a stale lock.
OneWriter ==
    /\ \A p \in Procs : pc[p] \in Critical => lock
    /\ \A p, q \in Procs : pc[p] \in Critical /\ pc[q] \in Critical => p = q

\* What the report says of a source is what is on disk when it says it:
\* "updated" and "unchanged" name a complete tree of the reported revision
\* under the public name; after "failed" the source still resolves to what
\* was installed before or, when only a late sync failed, to the complete
\* new tree; a failed prune leaves the public directory as it found it or
\* not at all; "removed" leaves neither the directory nor a tombstone.
ReportsMatchDisk ==
    \A p \in Procs : pc[p] = "report" =>
        LET s == job[p].source
            result == job[p].outcome
        IN  /\ result = "updated" => target[s] = Staged(p)
            /\ result = "unchanged" =>
                 target[s] = [rev |-> job[p].installed, fp |-> cfg[p][s],
                              part |-> "whole"]
            /\ result = "failed" /\ command[p] = "update" =>
                 Logical(s) = job[p].before \/ target[s] = Staged(p)
            /\ result = "failed" /\ command[p] = "prune" =>
                 target[s] \in {job[p].before, None}
            /\ result = "removed" => target[s] = None /\ tomb[p][s] = None

\* What an update has reported of a source stays true until it returns and
\* prints the report: nobody, another command included, touches the source.
ReportedSourcesRest ==
    [][\A p \in Procs, s \in Sources :
          pc[p] \in Critical /\ command[p] = "update" /\ s \notin todo[p] =>
             target'[s] = target[s] /\ backup'[s] = backup[s]]_vars

\* No step touches a tree under its public name.  A public directory only
\* disappears by a rename that keeps it intact as the backup or a tombstone.
PublicTreesMoveWhole ==
    [][\A s \in Sources : target[s] # None =>
          \/ target'[s] = target[s]
          \/ target'[s] = None /\ backup'[s] = target[s]
          \/ target'[s] = None /\ \E p \in Procs : tomb'[p][s] = target[s]]_vars

\* A prune isolates only directories whose source was absent from the
\* configuration it loaded, never one an update of its time would maintain.
OnlyOrphansAreIsolated ==
    [][\A p \in Procs, s \in Sources :
          tomb[p][s] = None /\ tomb'[p][s] # None =>
             command[p] = "prune" /\ cfg[p][s] = None]_vars

\* A tombstone left by an interrupted prune is never touched again, not even
\* by a later process that was given the same pid: only the process that
\* isolated the tree, still working on that source, changes its tombstone.
LeftoverTombstonesAreKept ==
    [][\A p \in Procs, s \in Sources :
          tomb[p][s] # None =>
             \/ tomb'[p][s] = tomb[p][s]
             \/ pc[p] \in {"syncIsolated", "remove"} /\ job[p].source = s]_vars

\* Once nothing fails any more, a command that holds the lock frees it.
HeldLockIsFreed ==
    (calm /\ \E p \in Procs : pc[p] \in Critical) ~> ~lock

\* Every configured source is installed, complete, at the remote's revision.
Converged ==
    \A s \in Sources : config[s] # None =>
        target[s] = [rev |-> remote[s], fp |-> config[s], part |-> "whole"]

\* The store heals: if updates keep being run and keep getting the lock,
\* then whatever failed, was killed, edited or pruned before the environment
\* settled, every configured source ends up, for good, at its remote's head.
Convergence ==
    (\A p \in Procs : "update" \in Commands[p] =>
        []<><<AcquireLock(p)>>_vars) => <>[](calm => Converged)

-----------------------------------------------------------------------------
(***************************************************************************)
(* What the documentation says and the code does not guarantee.            *)
(***************************************************************************)

\* docs/sources.md:216-217: "A failed source leaves its prior installed
\* directory untouched."  An update that reports a failure after the source
\* was set aside leaves no directory under its name, or the new one.
FailedSourcesAreUntouched ==
    \A p \in Procs :
        LET s == job[p].source
        IN  (/\ pc[p] = "report" /\ job[p].outcome = "failed"
             /\ command[p] = "update" /\ job[p].before # None)
               => target[s] = job[p].before

-----------------------------------------------------------------------------
(***************************************************************************)
(* The promise the store keeps (module SourcePromise).  While a prune has  *)
(* isolated a directory and may still put it back, it counts as installed. *)
(***************************************************************************)

Isolators(s) == {p \in Procs : pc[p] = "syncIsolated" /\ job[p].source = s}

installed ==
    [s \in Sources |->
        IF target[s] = None /\ Isolators(s) # {}
        THEN tomb[CHOOSE p \in Isolators(s) : TRUE][s]
        ELSE Logical(s)]

superseded ==
    [s \in Sources |->
        IF target[s] = None /\ Isolators(s) = {} THEN None ELSE backup[s]]

condemned == {s \in Sources : Isolators(s) # {}}

Promise == INSTANCE SourcePromise
             WITH Complete <- {t \in Tree : t.part = "whole"},
                  Leftover <- Dir

PromiseKept == Promise!Spec

=============================================================================
