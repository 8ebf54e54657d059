------------------------ MODULE SourcePromise_proofs ------------------------
(***************************************************************************)
(* Proofs about SourceStore for any values of its constants: the store     *)
(* implements SourcePromise, its steps move public trees and tombstones    *)
(* only as they should, and what its commands report is what is on disk.   *)
(***************************************************************************)
EXTENDS SourceStore_proofs

\* What the refinement needs beyond types and mutual exclusion: an update
\* discards the backup only while the new tree is in place.
ActivatedInPlace ==
    \A p \in Procs : pc[p] \in {"syncActivated", "discard"} =>
        target[job[p].source] # None

StoreInv == TypeInv /\ OneWriter /\ ActivatedInPlace

-----------------------------------------------------------------------------
(***************************************************************************)
(* The inductive invariant.                                                *)
(***************************************************************************)

\* A step of one process that is inside the critical section moves only its
\* own program counter.
LEMMA HeldStepMoves ==
  ASSUME TypeOK, NEW p \in Procs, HeldStep(p)
  PROVE  pc[p] \in Critical /\ \A q \in Procs \ {p} : pc'[q] = pc[q]
  <1>1. pc[p] \in Critical
    BY DEF HeldStep, UpdateStep, Prepare, RemoteRevision, Clone,
           DownloadArchive, Stage, RecoverAgain, Preserve, SyncPreserved,
           Activate, ActivateFails, SyncActivated, Discard, SyncDiscarded,
           PruneStep, DiscoverOrphans, Preview, Isolate, IsolateFails,
           SyncIsolated, RestoreIsolated, RemoveIsolated, SyncRemoved, Report,
           Finish, InSource, Critical, UpdateSteps, PruneSteps
  <1>2. \E x : Goto(p, x)
    BY DEF HeldStep, UpdateStep, Prepare, RemoteRevision, Clone,
           DownloadArchive, Stage, RecoverAgain, Preserve, SyncPreserved,
           Activate, ActivateFails, SyncActivated, Discard, SyncDiscarded,
           PruneStep, DiscoverOrphans, Preview, Isolate, IsolateFails,
           SyncIsolated, RestoreIsolated, RemoveIsolated, SyncRemoved, Report,
           Finish, Exit, Fails, Conclude
  <1>3. \A q \in Procs \ {p} : pc'[q] = pc[q]
    BY <1>2 DEF Goto, TypeOK
  <1> QED BY <1>1, <1>3

\* Only the process in the critical section changes a directory, and no step
\* takes one away that was activated but not synced.
LEMMA ActivatedStep ==
  ASSUME TypeInv, OneWriter, ActivatedInPlace, [Next]_vars
  PROVE  ActivatedInPlace'
  <1> DEFINE Placed == {"syncActivated", "discard"}
  <1>1. ASSUME UNCHANGED target,
               \A p \in Procs : pc'[p] \in Placed =>
                   pc[p] \in Placed /\ job'[p].source = job[p].source
        PROVE  ActivatedInPlace'
    BY <1>1 DEF ActivatedInPlace
  <1>2. ASSUME NEW p \in Procs, pc[p] \in Critical, pc'[p] \notin Placed,
               \A q \in Procs \ {p} : pc'[q] = pc[q]
        PROVE  ActivatedInPlace'
    BY <1>2 DEF ActivatedInPlace, OneWriter, Critical, UpdateSteps
  <1>3. ASSUME NEW p \in Procs, Activate(p) PROVE ActivatedInPlace'
    <2>1. pc[p] = "activate" /\ \A q \in Procs \ {p} : pc'[q] \notin Placed
      <3>1. pc[p] = "activate"
        BY <1>3 DEF Activate, InSource
      <3>2. HeldStep(p)
        BY <1>3 DEF HeldStep, UpdateStep
      <3> QED BY <3>1, <3>2, HeldStepMoves
              DEF TypeInv, OneWriter, Critical, UpdateSteps
    <2>2. job[p].source \in Sources /\ Staged(p) # None
      BY <2>1, StagedIsATree, NoneIsNotATree
      DEF TypeInv, JobOK, JobOKAt, SourceSteps, UpdateSteps
    <2>3. job'[p] = job[p] /\ target'[job[p].source] = Staged(p)
      BY <1>3, <2>2 DEF Activate, TypeInv, TypeOK
    <2> QED BY <2>1, <2>2, <2>3 DEF ActivatedInPlace
  <1>4. ASSUME NEW p \in Procs, SyncActivated(p) PROVE ActivatedInPlace'
    <2>1. UNCHANGED target /\ pc[p] = "syncActivated"
      BY <1>4 DEF SyncActivated, InSource, storeVars
    <2>2. \A q \in Procs : /\ job'[q].source = job[q].source
                           /\ q # p => pc'[q] = pc[q]
      BY <1>4 DEF SyncActivated, Fails, Conclude, Goto, TypeInv, TypeOK, Job
    <2> QED BY <1>1, <2>1, <2>2
  <1>5. ASSUME NEW p \in Procs, HeldStep(p), ~Activate(p), ~SyncActivated(p)
        PROVE  ActivatedInPlace'
    <2>1. pc'[p] \notin Placed
      BY <1>5
      DEF HeldStep, UpdateStep, Prepare, RemoteRevision, Clone,
          DownloadArchive, Stage, RecoverAgain, Preserve, SyncPreserved,
          ActivateFails, Discard, SyncDiscarded, PruneStep, DiscoverOrphans,
          Preview, Isolate, IsolateFails, SyncIsolated, RestoreIsolated,
          RemoveIsolated, SyncRemoved, Report, Finish, Exit, Fails, Conclude,
          Goto, Idle, TypeInv, TypeOK
    <2> QED BY <1>2, <1>5, <2>1, HeldStepMoves DEF TypeInv
  <1>6. ASSUME NEW p \in Procs, NEW c \in CommandNames, Start(p, c)
        PROVE  ActivatedInPlace'
    BY <1>1, <1>6 DEF Start, Goto, storeVars, TypeInv, TypeOK
  <1>7. ASSUME NEW p \in Procs, AcquireLock(p) PROVE ActivatedInPlace'
    BY <1>1, <1>7 DEF AcquireLock, Goto, storeVars, TypeInv, TypeOK
  <1>8. ASSUME NEW p \in Procs, LockRefused(p) \/ Kill(p)
        PROVE  ActivatedInPlace'
    BY <1>1, <1>8 DEF LockRefused, Kill, Exit, Goto, Idle, storeVars, TypeInv,
                      TypeOK
  <1>9. ASSUME UNCHANGED <<storeVars, procVars>> PROVE ActivatedInPlace'
    BY <1>1, <1>9 DEF storeVars, procVars
  <1>10. ASSUME NEW s \in Sources, EditConfig(s) \/ Publish(s)
         PROVE  ActivatedInPlace'
    BY <1>9, <1>10 DEF EditConfig, Publish
  <1>11. CASE ClearStaleLock \/ Settle \/ UNCHANGED vars
    BY <1>9, <1>11 DEF ClearStaleLock, Settle, vars
  <1> QED
    BY <1>3, <1>4, <1>5, <1>6, <1>7, <1>8, <1>10, <1>11 DEF Next

\* The store's inductive invariant.
THEOREM StoreInvariant == Spec => []StoreInv
  <1>1. Init => StoreInv
    <2>1. Init => OneWriter /\ ActivatedInPlace
      BY DEF Init, OneWriter, ActivatedInPlace, Idle, Critical, UpdateSteps,
             PruneSteps
    <2> QED BY <2>1, TypeInvInit DEF StoreInv
  <1>2. StoreInv /\ [Next]_vars => StoreInv'
    BY TypeInvStep, OneWriterStep, ActivatedStep DEF StoreInv, TypeInv
  <1> QED BY <1>1, <1>2, PTL DEF Spec

-----------------------------------------------------------------------------
(***************************************************************************)
(* The refinement mapping.                                                 *)
(***************************************************************************)

PromiseVars == <<installed, superseded, condemned>>

\* A step that leaves the directories alone and isolates or releases nothing
\* is invisible.
LEMMA Invisible ==
  ASSUME UNCHANGED storeVars,
         \A s \in Sources : Isolators(s)' = Isolators(s)
  PROVE  UNCHANGED PromiseVars
  <1> DEFINE one(s) == CHOOSE p \in Isolators(s) : TRUE
  <1>1. ASSUME NEW s \in Sources PROVE one(s)' = one(s)
    <2>1. Isolators(s)' = Isolators(s)
      OBVIOUS
    <2> QED BY <2>1, Zenon
  <1>2. installed = [s \in Sources |->
                       IF target[s] = None /\ Isolators(s) # {}
                       THEN tomb[one(s)][s] ELSE Logical(s)]
    BY DEF installed
  <1>3. installed' = [s \in Sources |->
                        IF target'[s] = None /\ Isolators(s)' # {}
                        THEN tomb'[one(s)'][s] ELSE Logical(s)']
    BY DEF installed
  <1>4. UNCHANGED <<target, backup, tomb>> /\ \A s : Logical(s)' = Logical(s)
    BY DEF Logical, storeVars
  <1>5. UNCHANGED installed
    <2> HIDE DEF one
    <2> QED BY <1>1, <1>2, <1>3, <1>4
  <1>6. UNCHANGED superseded /\ UNCHANGED condemned
    BY DEF superseded, condemned, storeVars
  <1> QED BY <1>5, <1>6 DEF PromiseVars

\* The mapping while the process in the critical section isolates nothing.
LEMMA MappingUnisolated ==
  ASSUME \A s \in Sources : Isolators(s) = {}
  PROVE  /\ condemned = {}
         /\ installed = [s \in Sources |-> Logical(s)]
         /\ superseded = [s \in Sources |->
                            IF target[s] = None THEN None ELSE backup[s]]
  BY DEF installed, superseded, condemned

LEMMA MappingUnisolatedNext ==
  ASSUME \A s \in Sources : Isolators(s)' = {}
  PROVE  /\ condemned' = {}
         /\ installed' = [s \in Sources |-> Logical(s)']
         /\ superseded' = [s \in Sources |->
                             IF target'[s] = None THEN None ELSE backup'[s]]
  BY DEF installed, superseded, condemned

\* The mapping while process p isolates source s, and nobody anything else.
LEMMA MappingIsolated ==
  ASSUME NEW p \in Procs, NEW s \in Sources,
         \A t \in Sources : Isolators(t) = IF t = s THEN {p} ELSE {}
  PROVE  /\ condemned = {s}
         /\ installed = [t \in Sources |->
                           IF t = s /\ target[s] = None THEN tomb[p][s]
                           ELSE Logical(t)]
         /\ superseded = [t \in Sources |->
                            IF t # s /\ target[t] = None THEN None
                            ELSE backup[t]]
  BY DEF installed, superseded, condemned

LEMMA MappingIsolatedNext ==
  ASSUME NEW p \in Procs, NEW s \in Sources,
         \A t \in Sources : Isolators(t)' = IF t = s THEN {p} ELSE {}
  PROVE  /\ condemned' = {s}
         /\ installed' = [t \in Sources |->
                            IF t = s /\ target'[s] = None THEN tomb'[p][s]
                            ELSE Logical(t)']
         /\ superseded' = [t \in Sources |->
                             IF t # s /\ target'[t] = None THEN None
                             ELSE backup'[t]]
  BY DEF installed, superseded, condemned

\* Who isolates what, before and after a step of the process that is inside
\* the critical section.
LEMMA WhoIsolates ==
  ASSUME OneWriter, NEW p \in Procs, pc[p] \in Critical,
         \A q \in Procs \ {p} : pc'[q] = pc[q]
  PROVE  /\ pc[p] # "syncIsolated" => \A s \in Sources : Isolators(s) = {}
         /\ pc'[p] # "syncIsolated" => \A s \in Sources : Isolators(s)' = {}
         /\ pc[p] = "syncIsolated" =>
              \A s \in Sources :
                 Isolators(s) = IF s = job[p].source THEN {p} ELSE {}
         /\ pc'[p] = "syncIsolated" =>
              \A s \in Sources :
                 Isolators(s)' = IF s = job'[p].source THEN {p} ELSE {}
  <1>1. \A q \in Procs \ {p} : pc[q] # "syncIsolated" /\ pc'[q] # "syncIsolated"
    BY DEF OneWriter, Critical, PruneSteps
  <1> QED BY <1>1 DEF Isolators

-----------------------------------------------------------------------------
(***************************************************************************)
(* Every step of the store is a step of the promise or invisible.          *)
(***************************************************************************)

\* Nothing is isolated before the step or after it.
Unisolated == \A s \in Sources : Isolators(s) = {} /\ Isolators(s)' = {}

\* Renaming the backup back to an absent public name shows nothing.
LEMMA RestoreInvisible ==
  ASSUME TypeOK, Unisolated, NEW s \in Sources,
         backup[s] # None, target[s] = None,
         target' = [target EXCEPT ![s] = backup[s]],
         backup' = [backup EXCEPT ![s] = None]
  PROVE  UNCHANGED PromiseVars
  <1>1. ASSUME NEW t \in Sources
        PROVE  /\ Logical(t)' = Logical(t)
               /\ (IF target'[t] = None THEN None ELSE backup'[t]) =
                  (IF target[t] = None THEN None ELSE backup[t])
    BY DEF TypeOK, Logical
  <1> QED BY <1>1, MappingUnisolated, MappingUnisolatedNext
          DEF Unisolated, PromiseVars

\* Setting a public tree aside takes the place of a leftover backup.
LEMMA PreserveCleansUp ==
  ASSUME TypeOK, Unisolated, NEW s \in Sources,
         target[s] # None,
         target' = [target EXCEPT ![s] = None],
         backup' = [backup EXCEPT ![s] = target[s]]
  PROVE  Promise!CleanUp(s)
  <1>1. ASSUME NEW t \in Sources
        PROVE  /\ Logical(t)' = Logical(t)
               /\ (IF target'[t] = None THEN None ELSE backup'[t]) =
                  IF t = s THEN None
                  ELSE IF target[t] = None THEN None ELSE backup[t]
    BY DEF TypeOK, Logical
  <1>2. /\ condemned = {} /\ condemned' = {} /\ UNCHANGED installed
        /\ superseded' = [superseded EXCEPT ![s] = None]
    BY <1>1, MappingUnisolated, MappingUnisolatedNext DEF Unisolated
  <1> QED BY <1>2 DEF Promise!CleanUp, Dir

\* Directories and isolation as they were: nothing to see.
LEMMA KeepInvisible ==
  ASSUME Unisolated, UNCHANGED <<target, backup>>
  PROVE  UNCHANGED PromiseVars
  BY MappingUnisolated, MappingUnisolatedNext
  DEF Unisolated, PromiseVars, Logical

\* Discarding the backup of a source in place cleans it up.
LEMMA DiscardCleansUp ==
  ASSUME TypeOK, Unisolated, NEW s \in Sources,
         target[s] # None, DiscardBackup(s), UNCHANGED target
  PROVE  Promise!CleanUp(s)
  <1>1. PICK d \in Dir : backup' = [backup EXCEPT ![s] = d]
    BY RemainsAreDirs DEF DiscardBackup, TypeOK
  <1>2. ASSUME NEW t \in Sources
        PROVE  /\ Logical(t)' = Logical(t)
               /\ (IF target'[t] = None THEN None ELSE backup'[t]) =
                  IF t = s THEN d
                  ELSE IF target[t] = None THEN None ELSE backup[t]
    BY <1>1 DEF TypeOK, Logical
  <1>3. /\ condemned = {} /\ condemned' = {} /\ UNCHANGED installed
        /\ superseded' = [superseded EXCEPT ![s] = d]
    BY <1>2, MappingUnisolated, MappingUnisolatedNext DEF Unisolated
  <1> QED BY <1>3 DEF Promise!CleanUp

LEMMA RecoverKeepsPromise ==
  ASSUME TypeOK, Unisolated, NEW s \in Sources, NEW ok \in BOOLEAN,
         Recover(s, ok)
  PROVE  Promise!CleanUp(s) \/ UNCHANGED PromiseVars
  BY KeepInvisible, DiscardCleansUp, RestoreInvisible DEF Recover

\* Activation installs a complete tree and supersedes the one set aside.
LEMMA ActivateInstalls ==
  ASSUME StoreInv, Unisolated, NEW p \in Procs, Activate(p)
  PROVE  Promise!Install(job[p].source)
  <1> DEFINE s == job[p].source
  <1>1. s \in Sources /\ Staged(p) \in Tree /\ Staged(p).part = "whole"
    BY StagedIsATree
    DEF StoreInv, TypeInv, JobOK, JobOKAt, Activate, InSource, SourceSteps,
        UpdateSteps, Staged
  <1>2. /\ target[s] = None /\ target' = [target EXCEPT ![s] = Staged(p)]
        /\ UNCHANGED backup /\ Staged(p) # None
    BY <1>1, NoneIsNotATree DEF Activate
  <1>3. ASSUME NEW t \in Sources
        PROVE  /\ Logical(t)' = IF t = s THEN Staged(p) ELSE Logical(t)
               /\ (IF target'[t] = None THEN None ELSE backup'[t]) =
                  IF t = s THEN Logical(s)
                  ELSE IF target[t] = None THEN None ELSE backup[t]
    BY <1>1, <1>2 DEF StoreInv, TypeInv, TypeOK, Logical
  <1>4. /\ condemned = {} /\ condemned' = {}
        /\ installed' = [installed EXCEPT ![s] = Staged(p)]
        /\ superseded' = [superseded EXCEPT ![s] = installed[s]]
    BY <1>1, <1>3, MappingUnisolated, MappingUnisolatedNext DEF Unisolated
  <1> QED BY <1>1, <1>4 DEF Promise!Install

\* Isolating a directory condemns its source.
LEMMA IsolateCondemns ==
  ASSUME StoreInv, NEW p \in Procs, Isolate(p)
  PROVE  \E s \in Sources : Promise!Condemn(s)
  <1>1. PICK s \in Sources :
          /\ target[s] # None
          /\ target' = [target EXCEPT ![s] = None]
          /\ tomb' = [tomb EXCEPT ![p][s] = target[s]]
          /\ job'[p].source = s
    <2>1. PICK s \in Sources :
            /\ CanIsolate(p, s)
            /\ target' = [target EXCEPT ![s] = None]
            /\ tomb' = [tomb EXCEPT ![p][s] = target[s]]
            /\ job' = [job EXCEPT ![p] = [NoJob EXCEPT !.source = s,
                                                      !.before = Logical(s)]]
      BY DEF Isolate
    <2>2. job'[p] = [NoJob EXCEPT !.source = s, !.before = Logical(s)]
      BY <2>1 DEF StoreInv, TypeInv, TypeOK
    <2>3. job'[p].source = s
      BY <2>2 DEF NoJob
    <2> QED BY <2>1, <2>3 DEF CanIsolate, Identified
  <1>2. /\ pc[p] = "next" /\ pc'[p] = "syncIsolated" /\ UNCHANGED backup
        /\ pc[p] \in Critical /\ \A q \in Procs \ {p} : pc'[q] = pc[q]
    BY DEF Isolate, Goto, Critical, StoreInv, TypeInv, TypeOK
  <1>3. /\ \A t \in Sources : Isolators(t) = {}
        /\ \A t \in Sources : Isolators(t)' = IF t = s THEN {p} ELSE {}
    BY <1>1, <1>2, WhoIsolates DEF StoreInv
  <1>4. tomb'[p][s] = target[s]
    BY <1>1, TombTyped DEF StoreInv, TypeInv, TypeOK
  <1>5. ASSUME NEW t \in Sources
        PROVE  /\ (IF t = s /\ target'[s] = None THEN tomb'[p][s]
                   ELSE Logical(t)') = Logical(t)
               /\ (IF t # s /\ target'[t] = None THEN None ELSE backup'[t]) =
                  IF target[t] = None THEN None ELSE backup[t]
    BY <1>1, <1>2, <1>4 DEF StoreInv, TypeInv, TypeOK, Logical
  <1>6. /\ condemned = {} /\ condemned' = {s}
        /\ UNCHANGED <<installed, superseded>>
        /\ installed[s] = target[s]
    BY <1>1, <1>3, <1>5, MappingUnisolated, MappingIsolatedNext DEF Logical
  <1> QED BY <1>1, <1>6 DEF Promise!Condemn

\* A process that stops isolating without putting the tree back, because it
\* goes on to remove it, could not restore it, or was killed, withdraws it;
\* if something took the public name meanwhile, that is what stays.
LEMMA ReleaseWithdraws ==
  ASSUME StoreInv, NEW p \in Procs, UNCHANGED storeVars,
         pc[p] = "syncIsolated", pc'[p] # "syncIsolated",
         \A q \in Procs \ {p} : pc'[q] = pc[q]
  PROVE  \E s \in Sources : Promise!Withdraw(s) \/ Promise!Spare(s)
  <1> DEFINE s == job[p].source
  <1>1. s \in Sources /\ pc[p] \in Critical
    BY DEF StoreInv, TypeInv, JobOK, JobOKAt, SourceSteps, Critical, PruneSteps
  <1>2. /\ \A t \in Sources : Isolators(t) = IF t = s THEN {p} ELSE {}
        /\ \A t \in Sources : Isolators(t)' = {}
    BY <1>1, WhoIsolates DEF StoreInv
  <1>3. UNCHANGED <<target, backup, tomb>> /\ \A t : Logical(t)' = Logical(t)
    BY DEF Logical, storeVars
  <1>4. /\ condemned = {s} /\ condemned' = {}
        /\ installed = [t \in Sources |->
                          IF t = s /\ target[s] = None THEN tomb[p][s]
                          ELSE Logical(t)]
        /\ superseded = [t \in Sources |->
                           IF t # s /\ target[t] = None THEN None
                           ELSE backup[t]]
    BY <1>1, <1>2, MappingIsolated, MappingUnisolatedNext
  <1>5. /\ installed' = [t \in Sources |-> Logical(t)]
        /\ superseded' = [t \in Sources |->
                            IF target[t] = None THEN None ELSE backup[t]]
    BY <1>2, <1>3, MappingUnisolatedNext
  <1>6. CASE target[s] = None
    <2>1. /\ installed' = [installed EXCEPT ![s] = superseded[s]]
          /\ superseded' = [superseded EXCEPT ![s] = None]
      BY <1>1, <1>4, <1>5, <1>6 DEF Logical
    <2> QED BY <1>1, <1>4, <2>1 DEF Promise!Withdraw
  <1>7. CASE target[s] # None
    <2>1. UNCHANGED <<installed, superseded>>
      BY <1>1, <1>4, <1>5, <1>7
    <2> QED BY <1>1, <1>4, <2>1 DEF Promise!Spare
  <1> QED BY <1>6, <1>7

\* Renaming the isolated tree back spares the source.
LEMMA RestoreSpares ==
  ASSUME StoreInv, NEW p \in Procs, RestoreIsolated(p), target' # target
  PROVE  \E s \in Sources : Promise!Spare(s)
  <1> DEFINE s == job[p].source
  <1>1. /\ pc[p] = "syncIsolated" /\ pc'[p] # "syncIsolated"
        /\ \A q \in Procs \ {p} : pc'[q] = pc[q]
        /\ UNCHANGED backup
    BY DEF RestoreIsolated, InSource, Conclude, Goto, StoreInv, TypeInv, TypeOK
  <1>2. s \in Sources /\ pc[p] \in Critical /\ tomb[p][s] # None
    BY <1>1 DEF StoreInv, TypeInv, JobOK, JobOKAt, SourceSteps, Critical,
                PruneSteps
  <1>3. target[s] = None /\ target' = [target EXCEPT ![s] = tomb[p][s]]
    BY DEF RestoreIsolated
  <1>4. /\ \A t \in Sources : Isolators(t) = IF t = s THEN {p} ELSE {}
        /\ \A t \in Sources : Isolators(t)' = {}
    BY <1>1, <1>2, WhoIsolates DEF StoreInv
  <1>5. ASSUME NEW t \in Sources
        PROVE  /\ Logical(t)' = IF t = s /\ target[s] = None THEN tomb[p][s]
                                ELSE Logical(t)
               /\ (IF target'[t] = None THEN None ELSE backup'[t]) =
                  IF t # s /\ target[t] = None THEN None ELSE backup[t]
    BY <1>1, <1>2, <1>3 DEF StoreInv, TypeInv, TypeOK, Logical
  <1>6. /\ condemned = {s} /\ condemned' = {}
        /\ UNCHANGED <<installed, superseded>>
    BY <1>2, <1>4, <1>5, MappingIsolated, MappingUnisolatedNext
  <1> QED BY <1>2, <1>6 DEF Promise!Spare

\* Every step of the store is a step of the promise.
LEMMA PromiseStep == StoreInv /\ [Next]_vars => [Promise!Next]_(Promise!vars)
  <1> SUFFICES ASSUME StoreInv, [Next]_vars
               PROVE  Promise!Next \/ UNCHANGED PromiseVars
    BY DEF PromiseVars, Promise!vars
  <1> USE DEF StoreInv
  <1>1. ASSUME UNCHANGED storeVars, UNCHANGED <<pc, job>>
        PROVE  UNCHANGED PromiseVars
    BY <1>1, Invisible DEF Isolators
  <1>2. ASSUME NEW p \in Procs, UNCHANGED storeVars, UNCHANGED job,
               pc[p] # "syncIsolated", pc'[p] # "syncIsolated",
               \A q \in Procs \ {p} : pc'[q] = pc[q]
        PROVE  UNCHANGED PromiseVars
    BY <1>2, Invisible DEF Isolators
  <1>3. ASSUME NEW p \in Procs, NEW c \in CommandNames, Start(p, c)
        PROVE  UNCHANGED PromiseVars
    BY <1>2, <1>3 DEF Start, Goto, Idle, TypeInv, TypeOK
  <1>4. ASSUME NEW p \in Procs, AcquireLock(p) PROVE UNCHANGED PromiseVars
    BY <1>2, <1>4 DEF AcquireLock, Goto, TypeInv, TypeOK
  <1>5. ASSUME NEW p \in Procs, Exit(p), UNCHANGED storeVars
        PROVE  Promise!Next \/ UNCHANGED PromiseVars
    <2>1. /\ pc'[p] = Idle /\ Idle # "syncIsolated"
          /\ \A q \in Procs \ {p} : pc'[q] = pc[q] /\ job'[q] = job[q]
      BY <1>5 DEF Exit, Goto, Idle, TypeInv, TypeOK
    <2>2. CASE pc[p] = "syncIsolated"
      BY <1>5, <2>1, <2>2, ReleaseWithdraws DEF Promise!Next
    <2>3. CASE pc[p] # "syncIsolated"
      BY <1>5, <2>1, <2>3, Invisible DEF Isolators
    <2> QED BY <2>2, <2>3
  <1>6. ASSUME NEW p \in Procs, HeldStep(p),
               pc[p] # "syncIsolated", pc'[p] # "syncIsolated"
        PROVE  Unisolated
    BY <1>6, HeldStepMoves, WhoIsolates DEF Unisolated, TypeInv
  <1>7. ASSUME NEW p \in Procs,
               Report(p) \/ Finish(p) \/ RemoteRevision(p) \/ Clone(p)
               \/ DownloadArchive(p) \/ Stage(p) \/ SyncPreserved(p)
               \/ SyncActivated(p) \/ SyncDiscarded(p) \/ DiscoverOrphans(p)
               \/ Preview(p) \/ IsolateFails(p) \/ SyncRemoved(p)
               \/ RemoveIsolated(p)
        PROVE  UNCHANGED PromiseVars
    <2>1. HeldStep(p)
      BY <1>7 DEF HeldStep, UpdateStep, PruneStep
    <2>2. UNCHANGED <<target, backup>>
      BY <1>7 DEF Report, Finish, RemoteRevision, Clone, DownloadArchive, Stage,
                  SyncPreserved, SyncActivated, SyncDiscarded, DiscoverOrphans,
                  Preview, IsolateFails, SyncRemoved, RemoveIsolated, storeVars
    <2>3. pc[p] # "syncIsolated" /\ pc'[p] # "syncIsolated"
      BY <1>7 DEF Report, Finish, Exit, RemoteRevision, Clone, DownloadArchive,
                  Stage, SyncPreserved, SyncActivated, SyncDiscarded,
                  DiscoverOrphans, Preview, IsolateFails, SyncRemoved,
                  RemoveIsolated, InSource, Fails, Conclude, Goto, Idle,
                  TypeInv, TypeOK
    <2> QED BY <1>6, <2>1, <2>2, <2>3, KeepInvisible
  <1>8. ASSUME NEW p \in Procs, Prepare(p) \/ RecoverAgain(p)
        PROVE  Promise!Next \/ UNCHANGED PromiseVars
    <2>1. HeldStep(p) /\ pc[p] # "syncIsolated" /\ pc'[p] # "syncIsolated"
      BY <1>8 DEF HeldStep, UpdateStep, Prepare, RecoverAgain, InSource,
                  Conclude, Goto, TypeInv, TypeOK
    <2>2. \E s \in Sources, ok \in BOOLEAN : Recover(s, ok)
      BY <1>8 DEF Prepare, RecoverAgain, InSource, TypeInv, JobOK, JobOKAt,
                  SourceSteps, UpdateSteps
    <2> QED BY <1>6, <2>1, <2>2, RecoverKeepsPromise DEF Promise!Next, TypeInv
  <1>9. ASSUME NEW p \in Procs,
               Preserve(p) \/ Activate(p) \/ ActivateFails(p) \/ Discard(p)
        PROVE  Promise!Next \/ UNCHANGED PromiseVars
    <2>1. HeldStep(p) /\ pc[p] # "syncIsolated" /\ pc'[p] # "syncIsolated"
      BY <1>9 DEF HeldStep, UpdateStep, Preserve, Activate, ActivateFails,
                  Discard, InSource, Conclude, Goto, TypeInv, TypeOK
    <2>2. Unisolated
      BY <1>6, <2>1
    <2>3. job[p].source \in Sources
      BY <1>9 DEF Preserve, Activate, ActivateFails, Discard, InSource, TypeInv,
                  JobOK, JobOKAt, SourceSteps, UpdateSteps
    <2>4. CASE Preserve(p)
      BY <2>2, <2>3, <2>4, KeepInvisible, PreserveCleansUp
      DEF Preserve, Promise!Next, TypeInv
    <2>5. CASE Activate(p)
      BY <2>2, <2>3, <2>5, ActivateInstalls DEF Promise!Next
    <2>6. CASE ActivateFails(p)
      BY <2>2, <2>3, <2>6, KeepInvisible, RestoreInvisible
      DEF ActivateFails, TypeInv
    <2>7. CASE Discard(p)
      <3>1. target[job[p].source] # None
        BY <2>7 DEF Discard, InSource, ActivatedInPlace
      <3> QED BY <2>2, <2>3, <2>7, <3>1, DiscardCleansUp
              DEF Discard, TypeInv, Promise!Next
    <2> QED BY <1>9, <2>4, <2>5, <2>6, <2>7
  <1>10. ASSUME NEW p \in Procs, Isolate(p) PROVE Promise!Next
    BY <1>10, IsolateCondemns DEF Promise!Next
  <1>11. ASSUME NEW p \in Procs, SyncIsolated(p) \/ RestoreIsolated(p)
         PROVE  Promise!Next \/ UNCHANGED PromiseVars
    <2>1. CASE RestoreIsolated(p) /\ target' # target
      BY <2>1, RestoreSpares DEF Promise!Next
    <2>2. CASE ~(RestoreIsolated(p) /\ target' # target)
      <3>1. /\ pc[p] = "syncIsolated" /\ pc'[p] # "syncIsolated"
            /\ \A q \in Procs \ {p} : pc'[q] = pc[q]
        BY <1>11 DEF SyncIsolated, RestoreIsolated, InSource, Conclude, Goto,
                     TypeInv, TypeOK
      <3>2. UNCHANGED storeVars
        <4>1. CASE SyncIsolated(p)
          BY <4>1 DEF SyncIsolated
        <4>2. CASE RestoreIsolated(p)
          <5>1. tomb[p][job[p].source] # None
            BY <3>1 DEF TypeInv, JobOK, JobOKAt
          <5>2. job[p].source \in Sources
            BY <3>1 DEF TypeInv, JobOK, JobOKAt, SourceSteps
          <5>3. ASSUME target[job[p].source] = None,
                       target' = [target EXCEPT
                                    ![job[p].source] = tomb[p][job[p].source]]
                PROVE  FALSE
            BY <2>2, <4>2, <5>1, <5>2, <5>3 DEF TypeInv, TypeOK
          <5> QED BY <4>2, <5>3 DEF RestoreIsolated, storeVars
        <4> QED BY <1>11, <4>1, <4>2
      <3> QED BY <3>1, <3>2, ReleaseWithdraws DEF Promise!Next
    <2> QED BY <2>1, <2>2
  <1>12. ASSUME NEW p \in Procs, HeldStep(p)
         PROVE  Promise!Next \/ UNCHANGED PromiseVars
    BY <1>7, <1>8, <1>9, <1>10, <1>11, <1>12 DEF HeldStep, UpdateStep, PruneStep
  <1>13. ASSUME NEW s \in Sources, EditConfig(s) \/ Publish(s)
         PROVE  UNCHANGED PromiseVars
    BY <1>1, <1>13 DEF EditConfig, Publish, procVars
  <1>14. CASE ClearStaleLock \/ Settle \/ UNCHANGED vars
    BY <1>1, <1>14 DEF ClearStaleLock, Settle, vars, procVars
  <1> QED
    BY <1>3, <1>4, <1>5, <1>12, <1>13, <1>14 DEF Next, LockRefused, Kill

\* The store implements its promise: with locks, renames, kills and failed
\* operations hidden, a source only ever changes by an update that installs
\* a complete tree or a prune that withdraws it.
THEOREM StoreKeepsPromise == Spec => PromiseKept
  <1>1. Init => Promise!Init
    <2> SUFFICES ASSUME Init PROVE Promise!Init
      OBVIOUS
    <2>1. \A s \in Sources : Isolators(s) = {}
      BY DEF Init, Isolators, Idle
    <2> QED BY <2>1, MappingUnisolated DEF Init, Logical, Promise!Init
  <1> QED BY <1>1, StoreInvariant, PromiseStep, PTL
          DEF Spec, PromiseKept, Promise!Spec

-----------------------------------------------------------------------------
(***************************************************************************)
(* What a step may never do.                                               *)
(***************************************************************************)

\* No step changes a public tree under its name: a public directory only
\* disappears by a rename that keeps the tree as a backup or a tombstone.
THEOREM TreesMoveWhole == Spec => PublicTreesMoveWhole
  <1> DEFINE Moves ==
        \A s \in Sources : target[s] # None =>
          \/ target'[s] = target[s]
          \/ target'[s] = None /\ backup'[s] = target[s]
          \/ target'[s] = None /\ \E p \in Procs : tomb'[p][s] = target[s]
  <1>1. ASSUME StoreInv, [Next]_vars PROVE Moves
    <2> USE <1>1 DEF StoreInv
    <2>1. CASE UNCHANGED target
      BY <2>1
    <2>2. ASSUME NEW p \in Procs, HeldStep(p) PROVE Moves
      <3>1. ASSUME NEW s \in Sources, NEW ok \in BOOLEAN, Recover(s, ok)
            PROVE  Moves
        BY <3>1 DEF Recover, TypeInv, TypeOK
      <3>2. CASE Prepare(p)
        BY <3>1, <3>2 DEF Prepare
      <3>3. CASE RecoverAgain(p)
        BY <3>1, <3>3 DEF RecoverAgain, InSource, TypeInv, JobOK, JobOKAt,
                          SourceSteps, UpdateSteps
      <3>4. CASE Preserve(p)
        BY <3>4 DEF Preserve, InSource, TypeInv, TypeOK, JobOK, JobOKAt,
                    SourceSteps, UpdateSteps
      <3>5. CASE Activate(p)
        BY <3>5 DEF Activate, TypeInv, TypeOK
      <3>6. CASE ActivateFails(p)
        BY <3>6 DEF ActivateFails, TypeInv, TypeOK
      <3>7. CASE Isolate(p)
        <4>1. PICK s \in Sources :
                /\ target' = [target EXCEPT ![s] = None]
                /\ tomb' = [tomb EXCEPT ![p][s] = target[s]]
          BY <3>7 DEF Isolate
        <4>2. tomb'[p][s] = target[s]
          BY <4>1, TombTyped DEF TypeInv, TypeOK
        <4> QED BY <4>1, <4>2 DEF TypeInv, TypeOK
      <3>8. CASE RestoreIsolated(p)
        BY <3>8 DEF RestoreIsolated, TypeInv, TypeOK
      <3> QED
        BY <2>1, <2>2, <3>2, <3>3, <3>4, <3>5, <3>6, <3>7, <3>8
        DEF HeldStep, UpdateStep, PruneStep, RemoteRevision, Clone,
            DownloadArchive, Stage, SyncPreserved, SyncActivated, Discard,
            SyncDiscarded, DiscoverOrphans, Preview, IsolateFails,
            SyncIsolated, RemoveIsolated, SyncRemoved, Report, Finish, storeVars
    <2> QED
      BY <1>1, <2>1, <2>2
      DEF Next, Start, AcquireLock, LockRefused, Kill, EditConfig, Publish,
          ClearStaleLock, Settle, vars, storeVars
  <1> QED BY <1>1, StoreInvariant, PTL DEF Spec, PublicTreesMoveWhole

-----------------------------------------------------------------------------
(***************************************************************************)
(* What a process knows about the source it is working on, and what it has *)
(* put where.                                                              *)
(***************************************************************************)

Isolating == {"syncIsolated", "remove", "syncRemoved"}

\* A command works on a source it still has to visit, and a prune only
\* visits what its configuration does not name.
WorkOKAt(p) ==
    /\ pc[p] \in SourceSteps => job[p].source \in todo[p]
    /\ pc[p] \in UpdateSteps => command[p] = "update"
    /\ pc[p] \in Isolating => command[p] = "prune"
    /\ command[p] # "update" => \A s \in todo[p] : cfg[p][s] = None

WorkOK == \A p \in Procs : WorkOKAt(p)

\* What a process in the critical section knows stays its own.
LEMMA HeldStepFrame ==
  ASSUME TypeOK, NEW p \in Procs, HeldStep(p)
  PROVE  \A q \in Procs \ {p} :
            /\ pc'[q] = pc[q] /\ job'[q] = job[q] /\ todo'[q] = todo[q]
            /\ command'[q] = command[q] /\ cfg'[q] = cfg[q]
  <1>1. \A q \in Procs \ {p} : pc'[q] = pc[q]
    BY HeldStepMoves
  <1>2. CASE UpdateStep(p)
    <2>1. UNCHANGED <<command, cfg, todo>>
      BY <1>2
      DEF UpdateStep, Prepare, RemoteRevision, Clone, DownloadArchive, Stage,
          RecoverAgain, Preserve, SyncPreserved, Activate, ActivateFails,
          SyncActivated, Discard, SyncDiscarded, InSource
    <2>2. UNCHANGED job \/ \E j : job' = [job EXCEPT ![p] = j]
      <3>1. CASE Prepare(p)
        BY <3>1 DEF Prepare
      <3>2. CASE ~Prepare(p)
        <4>1. \/ UNCHANGED job
              \/ \E x : Conclude(p, x)
              \/ job' = [job EXCEPT ![p].revision = remote[job[p].source]]
              \/ job' = [job EXCEPT ![p].had = TRUE]
          BY <1>2, <3>2
          DEF UpdateStep, RemoteRevision, Clone, DownloadArchive, Stage,
              RecoverAgain, Preserve, SyncPreserved, Activate, ActivateFails,
              SyncActivated, Discard, SyncDiscarded, Fails
        <4> QED BY <4>1 DEF Conclude
      <3> QED BY <3>1, <3>2
    <2>3. job \in [Procs -> Job]
      BY DEF TypeOK
    <2> QED BY <1>1, <2>1, <2>2, <2>3
  <1>3. CASE PruneStep(p)
    <2>1. UNCHANGED <<command, cfg>>
      BY <1>3
      DEF PruneStep, DiscoverOrphans, Preview, Isolate, IsolateFails,
          SyncIsolated, RestoreIsolated, RemoveIsolated, SyncRemoved, InSource
    <2>2. UNCHANGED todo \/ \E x : todo' = [todo EXCEPT ![p] = x]
      BY <1>3
      DEF PruneStep, DiscoverOrphans, Preview, Isolate, IsolateFails,
          SyncIsolated, RestoreIsolated, RemoveIsolated, SyncRemoved, InSource
    <2>3. UNCHANGED job \/ \E j : job' = [job EXCEPT ![p] = j]
      <3>1. CASE Preview(p) \/ Isolate(p) \/ IsolateFails(p)
        BY <3>1 DEF Preview, Isolate, IsolateFails
      <3>2. CASE ~(Preview(p) \/ Isolate(p) \/ IsolateFails(p))
        <4>1. UNCHANGED job \/ \E x : Conclude(p, x)
          BY <1>3, <3>2
          DEF PruneStep, DiscoverOrphans, SyncIsolated, RestoreIsolated,
              RemoveIsolated, SyncRemoved, Fails
        <4> QED BY <4>1 DEF Conclude
      <3> QED BY <3>1, <3>2
    <2>4. job \in [Procs -> Job] /\ todo \in [Procs -> SUBSET Sources]
      BY DEF TypeOK
    <2> QED BY <1>1, <2>1, <2>2, <2>3, <2>4
  <1>4. CASE Report(p) \/ Finish(p)
    BY <1>1, <1>4 DEF Report, Finish, Exit, TypeOK
  <1> QED BY <1>2, <1>3, <1>4 DEF HeldStep

\* A process that starts work on a source keeps nothing of the last one.
LEMMA JobBegins ==
  ASSUME TypeOK, NEW p \in Procs, NEW s, NEW b,
         job' = [job EXCEPT ![p] = [NoJob EXCEPT !.source = s, !.before = b]]
  PROVE  job'[p].source = s /\ job'[p].before = b /\ job'[p].outcome = None
  BY DEF TypeOK, NoJob

LEMMA JobFinds ==
  ASSUME TypeOK, NEW p \in Procs, NEW s, NEW b, NEW i,
         job' = [job EXCEPT ![p] = [NoJob EXCEPT !.source = s, !.before = b,
                                                 !.installed = i]]
  PROVE  job'[p].source = s /\ job'[p].before = b /\ job'[p].installed = i
  BY DEF TypeOK, NoJob

LEMMA JobRefused ==
  ASSUME TypeOK, NEW p \in Procs, NEW s, NEW b, NEW x,
         job' = [job EXCEPT ![p] = [NoJob EXCEPT !.source = s, !.before = b,
                                                 !.outcome = x]]
  PROVE  job'[p].source = s /\ job'[p].before = b /\ job'[p].outcome = x
  BY DEF TypeOK, NoJob

\* Ending work on a source keeps what is known about it.
LEMMA ConcludeKeeps ==
  ASSUME TypeOK, NEW p \in Procs, NEW x, Conclude(p, x), UNCHANGED cfg
  PROVE  /\ pc'[p] = "report"
         /\ job'[p].source = job[p].source
         /\ job'[p].before = job[p].before
         /\ job'[p].installed = job[p].installed
         /\ job'[p].outcome = x
         /\ Staged(p)' = Staged(p)
  BY DEF Conclude, Goto, TypeOK, Job, Staged

\* A step that stays within one source's work.
LEMMA InSourceWork ==
  ASSUME TypeInv, NEW p \in Procs, WorkOKAt(p),
         UNCHANGED <<command, cfg, todo>>,
         job'[p].source = job[p].source,
         pc[p] \in SourceSteps,
         \/ pc'[p] = "report"
         \/ pc[p] \in UpdateSteps /\ pc'[p] \in UpdateSteps
         \/ pc[p] \in Isolating /\ pc'[p] \in Isolating
  PROVE  WorkOKAt(p)'
  BY DEF WorkOKAt, SourceSteps, UpdateSteps, Isolating

LEMMA UpdateStepWork ==
  ASSUME TypeInv, NEW p \in Procs, WorkOKAt(p), UpdateStep(p)
  PROVE  WorkOKAt(p)'
  <1>1. CASE Prepare(p)
    <2>1. PICK s \in Sources, ok \in BOOLEAN, probed \in BOOLEAN :
            /\ IsFirst(p, s)
            /\ IF ok /\ probed
               THEN /\ Goto(p, "acquire")
                    /\ job' = [job EXCEPT ![p] =
                         [NoJob EXCEPT !.source = s,
                                       !.before = Logical(s),
                                       !.installed =
                                         TrustedRevision(target'[s], cfg[p][s])]]
               ELSE /\ Goto(p, "report")
                    /\ job' = [job EXCEPT ![p] =
                         [NoJob EXCEPT !.source = s,
                                       !.before = Logical(s),
                                       !.outcome = "failed"]]
      BY <1>1 DEF Prepare
    <2>2. job'[p].source = s /\ pc'[p] \in {"acquire", "report"}
      <3>1. pc'[p] \in {"acquire", "report"}
        BY <2>1 DEF TypeInv, TypeOK, Goto
      <3>2. CASE ok /\ probed
        <4>1. job' = [job EXCEPT ![p] =
                       [NoJob EXCEPT !.source = s,
                                     !.before = Logical(s),
                                     !.installed =
                                       TrustedRevision(target'[s], cfg[p][s])]]
          BY <2>1, <3>2
        <4> QED BY <3>1, <4>1, JobFinds DEF TypeInv
      <3>3. CASE ~(ok /\ probed)
        <4>1. job' = [job EXCEPT ![p] =
                       [NoJob EXCEPT !.source = s,
                                     !.before = Logical(s),
                                     !.outcome = "failed"]]
          BY <2>1, <3>3
        <4> QED BY <3>1, <4>1, JobRefused DEF TypeInv
      <3> QED BY <3>2, <3>3
    <2> QED BY <1>1, <2>1, <2>2
            DEF Prepare, IsFirst, WorkOKAt, Isolating, UpdateSteps
  <1>2. CASE ~Prepare(p)
    <2>1. pc[p] \in UpdateSteps /\ UNCHANGED <<command, cfg, todo>>
      BY <1>2
      DEF UpdateStep, RemoteRevision, Clone, DownloadArchive, Stage,
          RecoverAgain, Preserve, SyncPreserved, Activate, ActivateFails,
          SyncActivated, Discard, SyncDiscarded, InSource, UpdateSteps
    <2>2. \/ UNCHANGED job
          \/ \E x \in Outcomes : Conclude(p, x)
          \/ job' = [job EXCEPT ![p].revision = remote[job[p].source]]
          \/ job' = [job EXCEPT ![p].had = TRUE]
      BY <1>2
      DEF UpdateStep, RemoteRevision, Clone, DownloadArchive, Stage,
          RecoverAgain, Preserve, SyncPreserved, Activate, ActivateFails,
          SyncActivated, Discard, SyncDiscarded, Fails, Outcomes
    <2>3. job'[p].source = job[p].source
      BY <2>1, <2>2, ConcludeKeeps DEF TypeInv, TypeOK, Job
    <2>4. pc'[p] \in UpdateSteps \cup {"report"}
      BY <1>2
      DEF UpdateStep, RemoteRevision, Clone, DownloadArchive, Stage,
          RecoverAgain, Preserve, SyncPreserved, Activate, ActivateFails,
          SyncActivated, Discard, SyncDiscarded, Fails, Conclude, Goto,
          TypeInv, TypeOK, UpdateSteps
    <2> QED BY <2>1, <2>3, <2>4, InSourceWork DEF SourceSteps
  <1> QED BY <1>1, <1>2

LEMMA PruneStepWork ==
  ASSUME TypeInv, NEW p \in Procs, WorkOKAt(p), PruneStep(p)
  PROVE  WorkOKAt(p)'
  <1>1. CASE DiscoverOrphans(p)
    <2>1. pc'[p] = "next" /\ UNCHANGED <<command, cfg>>
      BY <1>1 DEF DiscoverOrphans, Goto, TypeInv, TypeOK
    <2>2. todo'[p] \subseteq {s \in Sources : cfg[p][s] = None}
          \/ todo'[p] = todo[p]
      BY <1>1 DEF DiscoverOrphans, TypeInv, TypeOK
    <2> QED BY <2>1, <2>2 DEF WorkOKAt, SourceSteps, UpdateSteps, Isolating
  <1>2. CASE Preview(p) \/ Isolate(p) \/ IsolateFails(p)
    <2>1. PICK s \in todo[p] : job'[p].source = s
      <3>1. CASE Isolate(p)
        <4>1. PICK s \in Sources :
                /\ IsFirst(p, s)
                /\ job' = [job EXCEPT ![p] = [NoJob EXCEPT !.source = s,
                                                         !.before = Logical(s)]]
          BY <3>1 DEF Isolate
        <4> QED BY <4>1, JobBegins DEF IsFirst, TypeInv
      <3>2. CASE Preview(p) \/ IsolateFails(p)
        <4>1. PICK s \in Sources, x \in Outcomes :
                /\ IsFirst(p, s)
                /\ job' = [job EXCEPT ![p] = [NoJob EXCEPT !.source = s,
                                                         !.before = Logical(s),
                                                         !.outcome = x]]
          BY <3>2 DEF Preview, IsolateFails, Outcomes
        <4> QED BY <4>1, JobRefused DEF IsFirst, TypeInv
      <3> QED BY <1>2, <3>1, <3>2
    <2>2. /\ \/ pc'[p] = "report"
             \/ pc'[p] = "syncIsolated" /\ command[p] = "prune"
          /\ UNCHANGED <<command, cfg, todo>>
      BY <1>2 DEF Preview, Isolate, IsolateFails, Goto, TypeInv, TypeOK
    <2> QED BY <2>1, <2>2 DEF WorkOKAt, UpdateSteps, Isolating
  <1>3. CASE SyncIsolated(p) \/ RestoreIsolated(p) \/ RemoveIsolated(p)
             \/ SyncRemoved(p)
    <2>1. pc[p] \in Isolating /\ UNCHANGED <<command, cfg, todo>>
      BY <1>3 DEF SyncIsolated, RestoreIsolated, RemoveIsolated, SyncRemoved,
                  InSource, Isolating
    <2>2. UNCHANGED job \/ \E x \in Outcomes : Conclude(p, x)
      BY <1>3 DEF SyncIsolated, RestoreIsolated, RemoveIsolated, SyncRemoved,
                  Fails, Outcomes
    <2>3. job'[p].source = job[p].source
      BY <2>1, <2>2, ConcludeKeeps DEF TypeInv
    <2>4. pc'[p] \in Isolating \cup {"report"}
      BY <1>3 DEF SyncIsolated, RestoreIsolated, RemoveIsolated, SyncRemoved,
                  Fails, Conclude, Goto, TypeInv, TypeOK, Isolating
    <2> QED BY <2>1, <2>3, <2>4, InSourceWork DEF SourceSteps, Isolating
  <1> QED BY <1>1, <1>2, <1>3 DEF PruneStep

LEMMA WorkStep == TypeInv /\ WorkOK /\ [Next]_vars => WorkOK'
  <1> SUFFICES ASSUME TypeInv, WorkOK, [Next]_vars PROVE WorkOK'
    OBVIOUS
  <1>1. ASSUME NEW p \in Procs, Exit(p) PROVE WorkOK'
    <2>1. WorkOKAt(p)'
      BY <1>1 DEF Exit, Goto, Idle, TypeInv, TypeOK, WorkOKAt, SourceSteps,
                  UpdateSteps, Isolating
    <2>2. ASSUME NEW q \in Procs \ {p} PROVE WorkOKAt(q)'
      BY <1>1, <2>2 DEF Exit, Goto, TypeInv, TypeOK, WorkOK, WorkOKAt
    <2> QED BY <2>1, <2>2 DEF WorkOK
  <1>2. ASSUME NEW p \in Procs, NEW c \in CommandNames, Start(p, c)
        PROVE  WorkOK'
    <2>1. pc'[p] = "loaded" /\ todo'[p] = {}
      BY <1>2 DEF Start, Goto, TypeInv, TypeOK, JobOK, JobOKAt
    <2>2. WorkOKAt(p)'
      BY <2>1 DEF WorkOKAt, SourceSteps, UpdateSteps, Isolating
    <2>3. ASSUME NEW q \in Procs \ {p} PROVE WorkOKAt(q)'
      BY <1>2, <2>3 DEF Start, Goto, TypeInv, TypeOK, WorkOK, WorkOKAt
    <2> QED BY <2>2, <2>3 DEF WorkOK
  <1>3. ASSUME NEW p \in Procs, AcquireLock(p) PROVE WorkOK'
    <2>1. /\ pc'[p] \in {"next", "discover"}
          /\ command[p] = "update" \/ todo'[p] = {}
          /\ UNCHANGED <<command, cfg>>
      BY <1>3 DEF AcquireLock, Goto, TypeInv, TypeOK, JobOK, JobOKAt
    <2>2. WorkOKAt(p)'
      BY <2>1 DEF WorkOKAt, SourceSteps, UpdateSteps, Isolating
    <2>3. ASSUME NEW q \in Procs \ {p} PROVE WorkOKAt(q)'
      BY <1>3, <2>3 DEF AcquireLock, Goto, TypeInv, TypeOK, WorkOK, WorkOKAt
    <2> QED BY <2>2, <2>3 DEF WorkOK
  <1>4. ASSUME NEW p \in Procs, UpdateStep(p) \/ PruneStep(p) \/ Report(p)
        PROVE  WorkOK'
    <2>1. ASSUME Report(p) PROVE WorkOKAt(p)'
      <3>1. /\ pc'[p] = "next" /\ todo'[p] \subseteq todo[p]
            /\ UNCHANGED <<command, cfg>>
        BY <2>1 DEF Report, Goto, TypeInv, TypeOK
      <3>2. WorkOKAt(p)'
        BY <3>1 DEF WorkOK, WorkOKAt, SourceSteps, UpdateSteps, Isolating
      <3> QED BY <3>2
    <2>2. WorkOKAt(p)'
      BY <1>4, <2>1, UpdateStepWork, PruneStepWork DEF WorkOK
    <2>3. ASSUME NEW q \in Procs \ {p} PROVE WorkOKAt(q)'
      BY <1>4, <2>3, HeldStepFrame DEF HeldStep, TypeInv, WorkOK, WorkOKAt
    <2> QED BY <2>2, <2>3 DEF WorkOK
  <1>5. ASSUME UNCHANGED procVars PROVE WorkOK'
    BY <1>5 DEF procVars, WorkOK, WorkOKAt
  <1>6. ASSUME NEW s \in Sources, EditConfig(s) \/ Publish(s) PROVE WorkOK'
    BY <1>5, <1>6 DEF EditConfig, Publish
  <1>7. CASE ClearStaleLock \/ Settle \/ UNCHANGED vars
    BY <1>5, <1>7 DEF ClearStaleLock, Settle, vars
  <1> QED
    BY <1>1, <1>2, <1>3, <1>4, <1>6, <1>7
    DEF Next, HeldStep, LockRefused, Finish, Kill


Fetching == {"acquire", "clone", "stage", "recover", "preserve"}

\* The tree a process found installed and may rely on.
Trusted(p) == [rev  |-> job[p].installed,
               fp   |-> cfg[p][job[p].source],
               part |-> "whole"]

\* Where the trees of a process's source are at each of its steps.
InPlaceAt(p) ==
    LET s == job[p].source IN
    /\ pc[p] \in Fetching =>
         target[s] = job[p].before /\ (target[s] = None => backup[s] = None)
    /\ pc[p] = "acquire" /\ job[p].installed # None => target[s] = Trusted(p)
    /\ pc[p] \in {"syncPreserved", "activate"} =>
         target[s] = None /\ backup[s] = job[p].before
    /\ pc[p] \in {"syncActivated", "discard", "syncDiscarded"} =>
         target[s] = Staged(p)
    /\ pc[p] \in Isolating => target[s] = None
    /\ pc[p] = "syncIsolated" => tomb[p][s] = job[p].before
    /\ pc[p] = "syncRemoved" => tomb[p][s] = None

\* What ReportsMatchDisk says of one process.
ReportOKAt(p) ==
    pc[p] = "report" =>
        LET s == job[p].source
            result == job[p].outcome
        IN  /\ result = "updated" => target[s] = Staged(p)
            /\ result = "unchanged" => target[s] = Trusted(p)
            /\ result = "failed" /\ command[p] = "update" =>
                 Logical(s) = job[p].before \/ target[s] = Staged(p)
            /\ result = "failed" /\ command[p] = "prune" =>
                 target[s] \in {job[p].before, None}
            /\ result = "removed" => target[s] = None /\ tomb[p][s] = None

PlaceAt(p) == InPlaceAt(p) /\ ReportOKAt(p)

Place == \A p \in Procs : PlaceAt(p)

LEMMA PlaceReports == Place => ReportsMatchDisk
  BY DEF Place, PlaceAt, ReportOKAt, ReportsMatchDisk, Trusted

\* Outside the steps of a source's work there is nothing to say.
LEMMA NoPlace ==
  ASSUME NEW p, pc[p] \notin SourceSteps
  PROVE  PlaceAt(p)
  BY DEF PlaceAt, InPlaceAt, ReportOKAt, SourceSteps, UpdateSteps, Fetching,
         Isolating

\* What another process's step must leave alone.
LEMMA PlaceStays ==
  ASSUME NEW p \in Procs, PlaceAt(p), UNCHANGED storeVars,
         pc'[p] = pc[p], job'[p] = job[p], cfg'[p] = cfg[p],
         command'[p] = command[p]
  PROVE  PlaceAt(p)'
  BY DEF PlaceAt, InPlaceAt, ReportOKAt, Staged, Trusted, Logical, storeVars

\* Recovery keeps what a source resolves to, and when it succeeds that is
\* what the public directory holds.
LEMMA RecoverKeeps ==
  ASSUME TypeOK, NEW s \in Sources, NEW ok \in BOOLEAN, Recover(s, ok)
  PROVE  /\ Logical(s)' = Logical(s)
         /\ ok => /\ target'[s] = Logical(s)
                  /\ target'[s] = None => backup'[s] = None
  BY DEF TypeOK, Recover, DiscardBackup, Logical

\* Work on a source may end once what is reported of it is on disk.
LEMMA ConcludePlace ==
  ASSUME TypeInv, NEW p \in Procs, NEW x, Conclude(p, x),
         UNCHANGED <<cfg, command>>,
         NEW s, s = job[p].source,
         x = "updated" => target'[s] = Staged(p),
         x = "unchanged" => target'[s] = Trusted(p),
         x = "failed" /\ command[p] = "update" =>
            Logical(s)' = job[p].before \/ target'[s] = Staged(p),
         x = "failed" /\ command[p] = "prune" =>
            target'[s] \in {job[p].before, None},
         x = "removed" => target'[s] = None /\ tomb'[p][s] = None
  PROVE  PlaceAt(p)'
  <1>1. /\ pc'[p] = "report"
        /\ job'[p].source = s
        /\ job'[p].before = job[p].before
        /\ job'[p].outcome = x
        /\ Staged(p)' = Staged(p)
        /\ Trusted(p)' = Trusted(p)
        /\ command'[p] = command[p]
    BY ConcludeKeeps DEF TypeInv, Trusted
  <1>2. InPlaceAt(p)'
    BY <1>1 DEF InPlaceAt, Fetching, Isolating
  <1>3. ReportOKAt(p)'
    BY <1>1 DEF ReportOKAt
  <1> QED BY <1>2, <1>3 DEF PlaceAt

LEMMA PreparePlace ==
  ASSUME TypeInv, NEW p \in Procs, Prepare(p)
  PROVE  PlaceAt(p)'
  <1>1. PICK s \in Sources, ok \in BOOLEAN, probed \in BOOLEAN :
          /\ Recover(s, ok)
          /\ IF ok /\ probed
             THEN /\ Goto(p, "acquire")
                  /\ job' = [job EXCEPT ![p] =
                       [NoJob EXCEPT !.source = s,
                                     !.before = Logical(s),
                                     !.installed =
                                       TrustedRevision(target'[s], cfg[p][s])]]
             ELSE /\ Goto(p, "report")
                  /\ job' = [job EXCEPT ![p] =
                       [NoJob EXCEPT !.source = s,
                                     !.before = Logical(s),
                                     !.outcome = "failed"]]
    BY DEF Prepare
  <1>2. command[p] = "update" /\ UNCHANGED <<command, cfg>>
    BY DEF Prepare
  <1>3. /\ Logical(s)' = Logical(s)
        /\ ok => target'[s] = Logical(s) /\ (target'[s] = None => backup'[s] = None)
        /\ target'[s] \in Dir
    BY <1>1, RecoverKeeps, RecoverTyped DEF TypeInv
  <1>0. PICK b, i : b = Logical(s) /\ i = TrustedRevision(target'[s], cfg[p][s])
    OBVIOUS
  <1>4. CASE ok /\ probed
    <2>1. job' = [job EXCEPT ![p] =
                   [NoJob EXCEPT !.source = s,
                                 !.before = b,
                                 !.installed = i]]
      BY <1>0, <1>1, <1>4
    <2>2. /\ job'[p].source = s
          /\ job'[p].before = b
          /\ job'[p].installed = i
      BY <2>1 DEF NoJob, TypeInv, TypeOK
    <2>3. pc'[p] = "acquire"
      BY <1>1, <1>4 DEF Goto, TypeInv, TypeOK
    <2>4. job'[p].installed # None => target'[s] = Trusted(p)'
      BY <1>0, <1>2, <1>3, <2>2 DEF TrustedRevision, Trusted, Dir, Tree
    <2> QED BY <1>0, <1>3, <1>4, <2>2, <2>3, <2>4
            DEF PlaceAt, InPlaceAt, ReportOKAt, Fetching, Isolating
  <1>5. CASE ~(ok /\ probed)
    <2>1. job' = [job EXCEPT ![p] =
                   [NoJob EXCEPT !.source = s,
                                 !.before = b,
                                 !.outcome = "failed"]]
      BY <1>0, <1>1, <1>5
    <2>2. /\ job'[p].source = s
          /\ job'[p].before = b
          /\ job'[p].outcome = "failed"
      BY <2>1 DEF NoJob, TypeInv, TypeOK
    <2>3. pc'[p] = "report"
      BY <1>1, <1>5 DEF Goto, TypeInv, TypeOK
    <2> QED BY <1>0, <1>2, <1>3, <2>2, <2>3
            DEF PlaceAt, InPlaceAt, ReportOKAt, Fetching, Isolating
  <1> QED BY <1>4, <1>5

\* The steps that fetch a revision move nothing.
LEMMA FetchPlace ==
  ASSUME TypeInv, NEW p \in Procs, WorkOKAt(p), PlaceAt(p),
         RemoteRevision(p) \/ Clone(p) \/ DownloadArchive(p) \/ Stage(p)
  PROVE  PlaceAt(p)'
  <1>0. PICK s : s = job[p].source
    OBVIOUS
  <1>1. /\ pc[p] \in {"acquire", "clone", "stage"}
        /\ UNCHANGED <<command, cfg, target, backup, tomb>>
    BY DEF RemoteRevision, Clone, DownloadArchive, Stage, InSource, storeVars
  <1>2. s \in Sources /\ command[p] = "update"
    BY <1>0, <1>1
    DEF TypeInv, JobOK, JobOKAt, SourceSteps, UpdateSteps, WorkOKAt
  <1>3. /\ target[s] = job[p].before
        /\ target[s] = None => backup[s] = None
        /\ pc[p] = "acquire" /\ job[p].installed # None => target[s] = Trusted(p)
    BY <1>0, <1>1 DEF PlaceAt, InPlaceAt, Fetching
  <1>4. CASE Conclude(p, "failed")
    <2>1. Logical(s)' = job[p].before
      BY <1>1, <1>3 DEF Logical
    <2> QED BY <1>0, <1>1, <1>2, <1>4, <2>1, ConcludePlace
  <1>5. CASE pc[p] = "acquire" /\ job[p].installed = remote[s]
             /\ Conclude(p, "unchanged")
    <2>1. remote[s] \in Revs
      BY <1>2 DEF TypeInv, TypeOK
    <2>2. target'[s] = Trusted(p)
      BY <1>1, <1>3, <1>5, <2>1, ConstantsAssumption
    <2> QED BY <1>0, <1>1, <1>5, <2>2, ConcludePlace
  <1>6. ASSUME NEW x \in {"clone", "stage", "recover"}, Goto(p, x),
               UNCHANGED job \/ job' = [job EXCEPT ![p].revision = remote[s]]
        PROVE  PlaceAt(p)'
    <2>1. /\ pc'[p] = x
          /\ job'[p].source = s /\ job'[p].before = job[p].before
      BY <1>0, <1>6 DEF Goto, TypeInv, TypeOK, Job
    <2> QED BY <1>1, <1>3, <2>1
            DEF PlaceAt, InPlaceAt, ReportOKAt, Fetching, Isolating
  <1> QED
    BY <1>0, <1>4, <1>5, <1>6
    DEF RemoteRevision, Clone, DownloadArchive, Stage, InSource, Fails

LEMMA RecoverAgainPlace ==
  ASSUME TypeInv, NEW p \in Procs, WorkOKAt(p), PlaceAt(p), RecoverAgain(p)
  PROVE  PlaceAt(p)'
  <1>0. PICK s : s = job[p].source
    OBVIOUS
  <1>1. pc[p] = "recover" /\ UNCHANGED <<command, cfg, tomb>>
    BY DEF RecoverAgain, InSource
  <1>2. s \in Sources /\ target[s] = job[p].before
        /\ (target[s] = None => backup[s] = None)
    BY <1>0, <1>1
    DEF TypeInv, JobOK, JobOKAt, SourceSteps, UpdateSteps, PlaceAt, InPlaceAt,
        Fetching
  <1>3. PICK ok \in BOOLEAN :
          /\ Recover(s, ok)
          /\ IF ok THEN Goto(p, "preserve") /\ UNCHANGED job
                   ELSE Conclude(p, "failed")
    BY <1>0 DEF RecoverAgain
  <1>4. /\ Logical(s)' = job[p].before
        /\ ok => /\ target'[s] = job[p].before
                 /\ target'[s] = None => backup'[s] = None
    BY <1>2, <1>3, RecoverKeeps DEF TypeInv, Logical
  <1>5. CASE ok
    <2>1. pc'[p] = "preserve" /\ job' = job
      BY <1>3, <1>5 DEF Goto, TypeInv, TypeOK
    <2> QED BY <1>0, <1>4, <1>5, <2>1
            DEF PlaceAt, InPlaceAt, ReportOKAt, Fetching, Isolating
  <1>6. CASE ~ok
    BY <1>0, <1>1, <1>3, <1>4, <1>6, ConcludePlace
    DEF WorkOKAt, UpdateSteps
  <1> QED BY <1>5, <1>6

LEMMA PreservePlace ==
  ASSUME TypeInv, NEW p \in Procs, WorkOKAt(p), PlaceAt(p),
         Preserve(p) \/ SyncPreserved(p)
  PROVE  PlaceAt(p)'
  <1>0. PICK s : s = job[p].source
    OBVIOUS
  <1>1. /\ pc[p] \in {"preserve", "syncPreserved"}
        /\ UNCHANGED <<command, cfg, tomb>>
    BY DEF Preserve, SyncPreserved, InSource, storeVars
  <1>2. s \in Sources /\ command[p] = "update"
    BY <1>0, <1>1
    DEF TypeInv, JobOK, JobOKAt, SourceSteps, UpdateSteps, WorkOKAt
  <1>3. target[s] = job[p].before /\ target[s] = None => backup[s] = None
    BY <1>0, <1>1 DEF PlaceAt, InPlaceAt, Fetching
  <1>4. Logical(s) = job[p].before
    BY <1>0, <1>1 DEF PlaceAt, InPlaceAt, Fetching, Logical
  <1>5. CASE Conclude(p, "failed") /\ UNCHANGED <<target, backup>>
    <2>1. Logical(s)' = job[p].before
      BY <1>4, <1>5 DEF Logical
    <2> QED BY <1>0, <1>1, <1>2, <1>5, <2>1, ConcludePlace
  <1>6. CASE \E x \in {"syncPreserved", "activate"} :
               /\ Goto(p, x)
               /\ target'[s] = None /\ backup'[s] = job[p].before
               /\ UNCHANGED job \/ job' = [job EXCEPT ![p].had = TRUE]
    <2>1. /\ pc'[p] \in {"syncPreserved", "activate"}
          /\ job'[p].source = s /\ job'[p].before = job[p].before
      BY <1>0, <1>6 DEF Goto, TypeInv, TypeOK, Job
    <2> QED BY <1>6, <2>1
            DEF PlaceAt, InPlaceAt, ReportOKAt, Fetching, Isolating
  <1>7. CASE Preserve(p)
    <2>1. pc[p] = "preserve" /\ target \in [Sources -> Dir]
          /\ backup \in [Sources -> Dir]
      BY <1>7 DEF Preserve, InSource, TypeInv, TypeOK
    <2>2. target[s] = job[p].before /\ (target[s] = None => backup[s] = None)
      BY <1>0, <2>1 DEF PlaceAt, InPlaceAt, Fetching
    <2> QED BY <1>0, <1>2, <1>5, <1>6, <1>7, <2>1, <2>2 DEF Preserve
  <1>8. CASE SyncPreserved(p)
    <2>1. target[s] = None /\ backup[s] = job[p].before
          /\ UNCHANGED <<target, backup>>
      BY <1>0, <1>8
      DEF SyncPreserved, InSource, PlaceAt, InPlaceAt, storeVars
    <2> QED BY <1>5, <1>6, <1>8, <2>1 DEF SyncPreserved, Fails
  <1> QED BY <1>7, <1>8

LEMMA ActivatePlace ==
  ASSUME TypeInv, NEW p \in Procs, WorkOKAt(p), PlaceAt(p),
         Activate(p) \/ ActivateFails(p)
  PROVE  PlaceAt(p)'
  <1>0. PICK s : s = job[p].source
    OBVIOUS
  <1>1. pc[p] = "activate" /\ UNCHANGED <<command, cfg, tomb>>
    BY DEF Activate, ActivateFails, InSource
  <1>2. s \in Sources /\ command[p] = "update"
    BY <1>0, <1>1
    DEF TypeInv, JobOK, JobOKAt, SourceSteps, UpdateSteps, WorkOKAt
  <1>3. target[s] = None /\ backup[s] = job[p].before
    BY <1>0, <1>1 DEF PlaceAt, InPlaceAt
  <1>4. CASE Activate(p)
    <2>1. target'[s] = Staged(p) /\ pc'[p] = "syncActivated" /\ job' = job
      BY <1>0, <1>2, <1>4 DEF Activate, Goto, TypeInv, TypeOK
    <2>2. Staged(p)' = Staged(p)
      BY <1>1, <2>1 DEF Staged
    <2> QED BY <1>0, <2>1, <2>2
            DEF PlaceAt, InPlaceAt, ReportOKAt, Fetching, Isolating
  <1>5. CASE ActivateFails(p)
    <2>1. Logical(s)' = job[p].before
      BY <1>0, <1>2, <1>3, <1>5 DEF ActivateFails, Logical, TypeInv, TypeOK
    <2>2. Conclude(p, "failed")
      BY <1>5 DEF ActivateFails
    <2> QED BY <1>0, <1>1, <1>2, <2>1, <2>2, ConcludePlace
  <1> QED BY <1>4, <1>5

LEMMA ActivatedPlace ==
  ASSUME TypeInv, NEW p \in Procs, WorkOKAt(p), PlaceAt(p),
         SyncActivated(p) \/ Discard(p) \/ SyncDiscarded(p)
  PROVE  PlaceAt(p)'
  <1>0. PICK s : s = job[p].source
    OBVIOUS
  <1>1. /\ pc[p] \in {"syncActivated", "discard", "syncDiscarded"}
        /\ UNCHANGED <<command, cfg, tomb, target>>
    BY DEF SyncActivated, Discard, SyncDiscarded, InSource, storeVars
  <1>2. command[p] = "update"
    BY <1>1 DEF UpdateSteps, WorkOKAt
  <1>3. target'[s] = Staged(p)
    BY <1>0, <1>1 DEF PlaceAt, InPlaceAt
  <1>4. ASSUME NEW x \in {"failed", "updated"}, Conclude(p, x)
        PROVE  PlaceAt(p)'
    BY <1>0, <1>1, <1>2, <1>3, <1>4, ConcludePlace
  <1>5. ASSUME NEW x \in {"discard", "syncDiscarded"}, Goto(p, x), UNCHANGED job
        PROVE  PlaceAt(p)'
    <2>1. pc'[p] = x /\ job' = job
      BY <1>5 DEF Goto, TypeInv, TypeOK
    <2>2. Staged(p)' = Staged(p)
      BY <1>1, <2>1 DEF Staged
    <2> QED BY <1>0, <1>3, <2>1, <2>2
            DEF PlaceAt, InPlaceAt, ReportOKAt, Fetching, Isolating
  <1> QED
    BY <1>4, <1>5 DEF SyncActivated, Discard, SyncDiscarded, Fails

\* The steps of a prune around the directory it isolates.
LEMMA IsolatePlace ==
  ASSUME TypeInv, NEW p \in Procs, PlaceAt(p),
         DiscoverOrphans(p) \/ Preview(p) \/ Isolate(p) \/ IsolateFails(p)
  PROVE  PlaceAt(p)'
  <1>1. CASE DiscoverOrphans(p)
    <2>1. pc'[p] = "next"
      BY <1>1 DEF DiscoverOrphans, Goto, TypeInv, TypeOK
    <2> QED BY <2>1
            DEF PlaceAt, InPlaceAt, ReportOKAt, Fetching, Isolating
  <1>2. CASE Isolate(p)
    <2>1. PICK s \in Sources :
            /\ CanIsolate(p, s)
            /\ target' = [target EXCEPT ![s] = None]
            /\ tomb' = [tomb EXCEPT ![p][s] = target[s]]
            /\ job' = [job EXCEPT ![p] = [NoJob EXCEPT !.source = s,
                                                       !.before = Logical(s)]]
      BY <1>2 DEF Isolate
    <2>2. PICK b : b = Logical(s)
      OBVIOUS
    <2>3. b = target[s]
      BY <2>1, <2>2 DEF CanIsolate, Identified, Logical
    <2>4. job' = [job EXCEPT ![p] = [NoJob EXCEPT !.source = s, !.before = b]]
      BY <2>1, <2>2
    <2>5. job'[p].source = s /\ job'[p].before = b /\ pc'[p] = "syncIsolated"
      BY <1>2, <2>4, JobBegins DEF Isolate, Goto, TypeInv, TypeOK
    <2>6. target'[s] = None /\ tomb'[p][s] = b
      BY <2>1, <2>3 DEF TypeInv, TypeOK
    <2> QED BY <2>5, <2>6
            DEF PlaceAt, InPlaceAt, ReportOKAt, Fetching, Isolating
  <1>3. CASE Preview(p) \/ IsolateFails(p)
    <2>1. PICK s \in Sources, x \in {"failed", "would-remove"} :
            /\ job' = [job EXCEPT ![p] = [NoJob EXCEPT !.source = s,
                                                       !.before = Logical(s),
                                                       !.outcome = x]]
            /\ x = "failed" => command[p] = "prune"
      BY <1>3 DEF Preview, IsolateFails
    <2>2. PICK b : b = Logical(s)
      OBVIOUS
    <2>3. job' = [job EXCEPT ![p] = [NoJob EXCEPT !.source = s, !.before = b,
                                                  !.outcome = x]]
      BY <2>1, <2>2
    <2>4. job'[p].source = s /\ job'[p].before = b /\ job'[p].outcome = x
      BY <2>3 DEF NoJob, TypeInv, TypeOK
    <2>5. pc'[p] = "report" /\ UNCHANGED <<target, command>>
      BY <1>3 DEF Preview, IsolateFails, Goto, TypeInv, TypeOK, storeVars
    <2>6. target[s] \in {b, None}
      BY <2>2 DEF Logical
    <2> QED BY <2>1, <2>4, <2>5, <2>6
            DEF PlaceAt, InPlaceAt, ReportOKAt, Fetching, Isolating
  <1> QED BY <1>1, <1>2, <1>3

LEMMA IsolatedPlace ==
  ASSUME TypeInv, NEW p \in Procs, WorkOKAt(p), PlaceAt(p),
         \/ SyncIsolated(p) \/ RestoreIsolated(p) \/ RemoveIsolated(p)
         \/ SyncRemoved(p)
  PROVE  PlaceAt(p)'
  <1>0. PICK s : s = job[p].source
    OBVIOUS
  <1>1. pc[p] \in Isolating /\ UNCHANGED <<command, cfg>>
    BY DEF SyncIsolated, RestoreIsolated, RemoveIsolated, SyncRemoved, InSource,
           Isolating
  <1>2. s \in Sources /\ command[p] = "prune" /\ target[s] = None
    BY <1>0, <1>1
    DEF TypeInv, JobOK, JobOKAt, SourceSteps, WorkOKAt, PlaceAt, InPlaceAt,
        Isolating
  <1>3. ASSUME Conclude(p, "failed"), target'[s] \in {job[p].before, None}
        PROVE  PlaceAt(p)'
    BY <1>0, <1>1, <1>2, <1>3, ConcludePlace
  <1>4. CASE SyncIsolated(p)
    <2>1. pc'[p] = "remove" /\ UNCHANGED <<job, target, tomb>>
      BY <1>4 DEF SyncIsolated, Goto, TypeInv, TypeOK, storeVars
    <2> QED BY <1>0, <1>2, <2>1
            DEF PlaceAt, InPlaceAt, ReportOKAt, Fetching, Isolating
  <1>5. CASE RestoreIsolated(p)
    <2>1. tomb[p][s] = job[p].before
      BY <1>0, <1>5 DEF RestoreIsolated, InSource, PlaceAt, InPlaceAt
    <2> QED BY <1>0, <1>2, <1>3, <1>5, <2>1 DEF RestoreIsolated, TypeInv, TypeOK
  <1>6. CASE RemoveIsolated(p)
    <2>1. target'[s] = None
      BY <1>2, <1>6 DEF RemoveIsolated
    <2>2. CASE Conclude(p, "failed")
      BY <1>3, <2>1, <2>2
    <2>3. CASE ~Conclude(p, "failed")
      <3>1. /\ tomb' = [tomb EXCEPT ![p][s] = None]
            /\ Goto(p, "syncRemoved")
            /\ UNCHANGED job
        BY <1>0, <1>6, <2>3 DEF RemoveIsolated
      <3>2. pc'[p] = "syncRemoved" /\ tomb'[p][s] = None
        BY <1>2, <3>1 DEF Goto, TypeInv, TypeOK
      <3> QED BY <1>0, <2>1, <3>1, <3>2
              DEF PlaceAt, InPlaceAt, ReportOKAt, Fetching, Isolating
    <2> QED BY <2>2, <2>3
  <1>7. CASE SyncRemoved(p)
    <2>1. /\ UNCHANGED <<target, tomb>>
          /\ Conclude(p, "failed") \/ Conclude(p, "removed")
      BY <1>7 DEF SyncRemoved, Fails, storeVars
    <2>2. tomb[p][s] = None
      BY <1>0, <1>7 DEF SyncRemoved, InSource, PlaceAt, InPlaceAt
    <2>3. CASE Conclude(p, "removed")
      BY <1>0, <1>1, <1>2, <2>1, <2>2, <2>3, ConcludePlace
    <2> QED BY <1>2, <1>3, <2>1, <2>3
  <1> QED BY <1>4, <1>5, <1>6, <1>7

LEMMA HeldPlace ==
  ASSUME TypeInv, NEW p \in Procs, WorkOKAt(p), PlaceAt(p),
         UpdateStep(p) \/ PruneStep(p)
  PROVE  PlaceAt(p)'
  BY PreparePlace, FetchPlace, RecoverAgainPlace, PreservePlace, ActivatePlace,
     ActivatedPlace, IsolatePlace, IsolatedPlace
  DEF UpdateStep, PruneStep

LEMMA PlaceStep ==
  TypeInv /\ OneWriter /\ WorkOK /\ Place /\ [Next]_vars => Place'
  <1> SUFFICES ASSUME TypeInv, OneWriter, WorkOK, Place, [Next]_vars,
                      NEW q \in Procs
               PROVE  PlaceAt(q)'
    BY DEF Place
  <1> USE DEF Place
  <1>1. CASE pc'[q] \notin SourceSteps
    BY <1>1 DEF PlaceAt, InPlaceAt, ReportOKAt, SourceSteps, UpdateSteps,
                Fetching, Isolating
  <1>2. ASSUME NEW p \in Procs, Exit(p), UNCHANGED storeVars
        PROVE  PlaceAt(q)'
    <2>1. CASE q = p
      BY <1>1, <1>2, <2>1
      DEF Exit, Goto, Idle, TypeInv, TypeOK, SourceSteps, UpdateSteps
    <2>2. CASE q # p
      BY <1>2, <2>2, PlaceStays DEF Exit, Goto, TypeInv, TypeOK
    <2> QED BY <2>1, <2>2
  <1>3. ASSUME NEW p \in Procs,
               AcquireLock(p) \/ \E c \in CommandNames : Start(p, c)
        PROVE  PlaceAt(q)'
    <2>1. CASE q = p
      <3>1. pc'[p] \in {"loaded", "next", "discover"}
        BY <1>3 DEF Start, AcquireLock, Goto, TypeInv, TypeOK
      <3> QED BY <1>1, <2>1, <3>1 DEF SourceSteps, UpdateSteps
    <2>2. CASE q # p
      BY <1>3, <2>2, PlaceStays DEF Start, AcquireLock, Goto, TypeInv, TypeOK
    <2> QED BY <2>1, <2>2
  <1>4. ASSUME NEW p \in Procs, UpdateStep(p) \/ PruneStep(p) \/ Report(p)
        PROVE  PlaceAt(q)'
    <2>1. CASE q = p /\ Report(p)
      <3>1. pc'[p] = "next"
        BY <2>1 DEF Report, Goto, TypeInv, TypeOK
      <3> QED BY <1>1, <2>1, <3>1 DEF SourceSteps, UpdateSteps
    <2>2. CASE q = p /\ ~Report(p)
      BY <1>4, <2>2, HeldPlace DEF WorkOK
    <2>3. CASE q # p
      <3>1. pc[p] \in Critical /\ pc'[q] = pc[q]
        BY <1>4, <2>3, HeldStepMoves, HeldStepFrame DEF HeldStep, TypeInv
      <3>2. pc[q] \notin Critical
        BY <2>3, <3>1 DEF OneWriter
      <3> QED BY <1>1, <3>1, <3>2 DEF SourceSteps, Critical, PruneSteps
    <2> QED BY <1>4, <2>1, <2>2, <2>3
  <1>5. ASSUME UNCHANGED <<storeVars, procVars>> PROVE PlaceAt(q)'
    BY <1>5, PlaceStays DEF procVars
  <1>6. ASSUME NEW s \in Sources, EditConfig(s) \/ Publish(s)
        PROVE  PlaceAt(q)'
    BY <1>5, <1>6 DEF EditConfig, Publish
  <1>7. CASE ClearStaleLock \/ Settle \/ UNCHANGED vars
    BY <1>5, <1>7 DEF ClearStaleLock, Settle, vars
  <1>8. ASSUME NEW p \in Procs, LockRefused(p) \/ Finish(p) \/ Kill(p)
        PROVE  PlaceAt(q)'
    BY <1>2, <1>8 DEF LockRefused, Finish, Kill
  <1> HIDE DEF Place
  <1> QED
    BY <1>3, <1>4, <1>6, <1>7, <1>8 DEF Next, HeldStep

\* What the theorems below rest on.
ReportInv == TypeInv /\ OneWriter /\ WorkOK /\ Place

THEOREM ReportInvariant == Spec => []ReportInv
  <1>1. Init => ReportInv
    <2>1. Init => OneWriter
      BY DEF Init, OneWriter, Idle, Critical, UpdateSteps, PruneSteps
    <2>2. Init => WorkOK
      BY DEF Init, WorkOK, WorkOKAt, Idle, SourceSteps, UpdateSteps, Isolating
    <2>3. Init => Place
      BY DEF Init, Place, PlaceAt, InPlaceAt, ReportOKAt, Idle, Fetching,
             Isolating
    <2> QED BY <2>1, <2>2, <2>3, TypeInvInit DEF ReportInv
  <1>2. ReportInv /\ [Next]_vars => ReportInv'
    BY TypeInvStep, OneWriterStep, WorkStep, PlaceStep DEF ReportInv, TypeInv
  <1> QED BY <1>1, <1>2, PTL DEF Spec

\* What an update or a prune reports of a source, be it a success or a
\* failure, is what is on disk when it says so, whatever other commands run
\* and wherever processes were killed before.
THEOREM ReportsAreTrue == Spec => []ReportsMatchDisk
  <1>1. ReportInv => ReportsMatchDisk
    BY PlaceReports DEF ReportInv
  <1> QED BY <1>1, ReportInvariant, PTL

\* A step changes a tombstone only if it is one of three steps of a prune.
LEMMA TombMoves ==
  ASSUME TypeInv, [Next]_vars, NEW q \in Procs, NEW s \in Sources,
         tomb'[q][s] # tomb[q][s]
  PROVE  \/ /\ Isolate(q) /\ tomb[q][s] = None /\ s \in todo[q]
         \/ RestoreIsolated(q) /\ job[q].source = s
         \/ RemoveIsolated(q) /\ job[q].source = s
  <1>1. tomb \in [Procs -> [Sources -> Dir]]
    BY DEF TypeInv, TypeOK
  <1>2. tomb' # tomb
    OBVIOUS
  <1>3. PICK p \in Procs : Isolate(p) \/ RestoreIsolated(p) \/ RemoveIsolated(p)
    BY <1>2
    DEF Next, Start, AcquireLock, LockRefused, Kill, EditConfig, Publish,
        ClearStaleLock, Settle, vars, HeldStep, UpdateStep, PruneStep, Prepare,
        RemoteRevision, Clone, DownloadArchive, Stage, RecoverAgain, Preserve,
        SyncPreserved, Activate, ActivateFails, SyncActivated, Discard,
        SyncDiscarded, DiscoverOrphans, Preview, IsolateFails, SyncIsolated,
        SyncRemoved, Report, Finish, storeVars
  <1>4. CASE Isolate(p)
    <2>1. PICK t \in Sources :
            /\ IsFirst(p, t) /\ CanIsolate(p, t)
            /\ tomb' = [tomb EXCEPT ![p][t] = target[t]]
      BY <1>4 DEF Isolate
    <2>2. p = q /\ t = s
      BY <1>1, <2>1
    <2> QED BY <1>4, <2>1, <2>2 DEF IsFirst, CanIsolate
  <1>5. CASE RestoreIsolated(p) \/ RemoveIsolated(p)
    <2>1. PICK d : tomb' = [tomb EXCEPT ![p][job[p].source] = d]
      BY <1>2, <1>5 DEF RestoreIsolated, RemoveIsolated
    <2>2. p = q /\ job[p].source = s
      BY <1>1, <2>1
    <2> QED BY <1>5, <2>2
  <1> QED BY <1>3, <1>4, <1>5

\* A tombstone an interrupted prune left behind is never touched again, not
\* even by a later process that was given its pid.
THEOREM TombstonesAreKept == Spec => LeftoverTombstonesAreKept
  <1>1. TypeInv /\ [Next]_vars =>
          \A p \in Procs, s \in Sources : tomb[p][s] # None =>
             \/ tomb'[p][s] = tomb[p][s]
             \/ pc[p] \in {"syncIsolated", "remove"} /\ job[p].source = s
    BY TombMoves DEF RestoreIsolated, RemoveIsolated, InSource
  <1>2. Spec => []TypeInv
    BY StoreInvariant, PTL DEF StoreInv
  <1> QED BY <1>1, <1>2, PTL DEF Spec, LeftoverTombstonesAreKept

\* Only a prune isolates a directory, and only one whose source the
\* configuration it loaded does not name.
THEOREM OrphansOnly == Spec => OnlyOrphansAreIsolated
  <1>1. ASSUME ReportInv, [Next]_vars, NEW p \in Procs, NEW s \in Sources,
               tomb[p][s] = None, tomb'[p][s] # None
        PROVE  command[p] = "prune" /\ cfg[p][s] = None
    <2>1. CASE Isolate(p) /\ s \in todo[p]
      <3>1. command[p] = "prune"
        BY <2>1 DEF Isolate
      <3> QED BY <1>1, <2>1, <3>1 DEF ReportInv, WorkOK, WorkOKAt
    <2>2. CASE pc[p] \in {"syncIsolated", "remove"} /\ job[p].source = s
      BY <1>1, <2>2 DEF ReportInv, TypeInv, JobOK, JobOKAt
    <2> QED BY <1>1, <2>1, <2>2, TombMoves
            DEF ReportInv, RestoreIsolated, RemoveIsolated, InSource
  <1>2. ReportInv /\ [Next]_vars =>
          \A p \in Procs, s \in Sources :
             tomb[p][s] = None /\ tomb'[p][s] # None =>
                command[p] = "prune" /\ cfg[p][s] = None
    BY <1>1
  <1> QED BY <1>2, ReportInvariant, PTL DEF Spec, OnlyOrphansAreIsolated

\* A public or set-aside directory moves only by a step of the process that
\* is working on its source.
LEMMA TreeMoves ==
  ASSUME TypeInv, WorkOK, [Next]_vars, NEW s \in Sources,
         target'[s] # target[s] \/ backup'[s] # backup[s]
  PROVE  \E p \in Procs : /\ pc[p] \in Critical /\ s \in todo[p]
  <1>0. target \in [Sources -> Dir] /\ backup \in [Sources -> Dir]
    BY DEF TypeInv, TypeOK
  <1>1. target' # target \/ backup' # backup
    OBVIOUS
  <1>2. PICK p \in Procs :
          \/ Prepare(p) \/ RecoverAgain(p) \/ Preserve(p) \/ Activate(p)
          \/ ActivateFails(p) \/ Discard(p) \/ Isolate(p) \/ RestoreIsolated(p)
    BY <1>1
    DEF Next, Start, AcquireLock, LockRefused, Kill, EditConfig, Publish,
        ClearStaleLock, Settle, vars, HeldStep, UpdateStep, PruneStep,
        RemoteRevision, Clone, DownloadArchive, Stage, SyncPreserved,
        SyncActivated, SyncDiscarded, DiscoverOrphans, Preview, IsolateFails,
        SyncIsolated, RemoveIsolated, SyncRemoved, Report, Finish, storeVars
  <1>3. pc[p] \in Critical
    BY <1>2
    DEF Prepare, RecoverAgain, Preserve, Activate, ActivateFails, Discard,
        Isolate, RestoreIsolated, InSource, Critical, UpdateSteps, PruneSteps
  <1>4. CASE Prepare(p) \/ Isolate(p)
    <2>1. PICK t \in Sources :
            /\ t \in todo[p]
            /\ \/ \E ok \in BOOLEAN : Recover(t, ok)
               \/ target' = [target EXCEPT ![t] = None] /\ UNCHANGED backup
      BY <1>4 DEF Prepare, Isolate, IsFirst
    <2>2. t = s
      BY <1>0, <2>1 DEF Recover, DiscardBackup
    <2> QED BY <1>3, <2>1, <2>2
  <1>5. CASE RecoverAgain(p) \/ Discard(p)
    <2>1. \/ \E ok \in BOOLEAN : Recover(job[p].source, ok)
          \/ DiscardBackup(job[p].source) /\ UNCHANGED target
      BY <1>5 DEF RecoverAgain, Discard
    <2>2. job[p].source = s
      BY <1>0, <2>1 DEF Recover, DiscardBackup
    <2>3. pc[p] \in SourceSteps
      BY <1>5 DEF RecoverAgain, Discard, InSource, SourceSteps, UpdateSteps
    <2> QED BY <1>3, <2>2, <2>3 DEF WorkOK, WorkOKAt
  <1>6. CASE Preserve(p) \/ Activate(p) \/ ActivateFails(p) \/ RestoreIsolated(p)
    <2>1. job[p].source = s
      BY <1>0, <1>6 DEF Preserve, Activate, ActivateFails, RestoreIsolated
    <2>2. pc[p] \in SourceSteps
      BY <1>6
      DEF Preserve, Activate, ActivateFails, RestoreIsolated, InSource,
          SourceSteps, UpdateSteps
    <2> QED BY <1>3, <2>1, <2>2 DEF WorkOK, WorkOKAt
  <1> QED BY <1>2, <1>4, <1>5, <1>6

\* Once an update has reported a source, nobody touches that source's
\* directories until the update returns and prints its report.
THEOREM ReportedRest == Spec => ReportedSourcesRest
  <1>1. ASSUME ReportInv, [Next]_vars, NEW p \in Procs, NEW s \in Sources,
               pc[p] \in Critical, s \notin todo[p]
        PROVE  target'[s] = target[s] /\ backup'[s] = backup[s]
    BY <1>1, TreeMoves DEF ReportInv, OneWriter
  <1>2. ReportInv /\ [Next]_vars =>
          \A p \in Procs, s \in Sources :
             pc[p] \in Critical /\ command[p] = "update" /\ s \notin todo[p] =>
                target'[s] = target[s] /\ backup'[s] = backup[s]
    BY <1>1
  <1> QED BY <1>2, ReportInvariant, PTL DEF Spec, ReportedSourcesRest
=============================================================================
