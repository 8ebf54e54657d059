------------------------- MODULE SourceStore_proofs -------------------------
(***************************************************************************)
(* Proofs about SourceStore for any sets of processes, sources, revisions  *)
(* and fingerprints: type correctness and mutual exclusion.                *)
(***************************************************************************)
EXTENDS SourceStore, TLAPS

\* The steps that work on one source.
SourceSteps == UpdateSteps \cup {"syncIsolated", "remove", "syncRemoved", "report"}

\* What each process must know about its source for its steps to make sense.
JobOKAt(p) ==
    /\ pc[p] \in SourceSteps => job[p].source \in Sources
    /\ pc[p] \in UpdateSteps => cfg[p][job[p].source] \in Fps
    /\ pc[p] \in UpdateSteps \ {"acquire"} => job[p].revision \in Revs
    /\ pc[p] \in {"syncIsolated", "remove"} => tomb[p][job[p].source] # None
    /\ pc[p] \in {Idle, "loaded"} => todo[p] = {}
    /\ pc[p] = "discover" => command[p] # "update"
    /\ command[p] = "update" => \A s \in todo[p] : cfg[p][s] \in Fps

JobOK == \A p \in Procs : JobOKAt(p)

TypeInv == TypeOK /\ JobOK

LEMMA RuinsAreTrees == \A d \in Tree : Ruins(d) \subseteq Tree
  <1> SUFFICES ASSUME NEW d \in Tree, NEW r \in Ruins(d) PROVE r \in Tree
    OBVIOUS
  <1>1. PICK q \in {"whole", "partial", "bare"} : r = [d EXCEPT !.part = q]
    BY DEF Ruins
  <1> QED BY <1>1 DEF Tree

LEMMA RemainsAreDirs == \A d \in Dir : Remains(d) \subseteq Dir
  BY RuinsAreTrees DEF Remains, Dir

LEMMA TypeInvInit == Init => TypeInv
  <1> SUFFICES ASSUME Init PROVE TypeInv
    OBVIOUS
  <1>1. NoJob \in Job
    BY DEF NoJob, Job, Dir
  <1>2. TypeOK
    BY <1>1 DEF Init, TypeOK, NoConfig, Dir, Idle
  <1>3. JobOK
    BY DEF Init, JobOK, JobOKAt, SourceSteps, UpdateSteps, Idle
  <1> QED BY <1>2, <1>3 DEF TypeInv

LEMMA NoJobIsAJob == NoJob \in Job
  BY DEF NoJob, Job, Dir

\* Ending work on a source changes the job's outcome only.
LEMMA ConcludeTyped ==
  ASSUME TypeOK, NEW p \in Procs, NEW x \in Outcomes, Conclude(p, x)
  PROVE  /\ job' \in [Procs -> Job]
         /\ pc' \in [Procs -> Critical \cup {Idle, "loaded"}]
         /\ job'[p].source = job[p].source
         /\ pc'[p] = "report"
         /\ \A q \in Procs \ {p} : job'[q] = job[q] /\ pc'[q] = pc[q]
  BY DEF TypeOK, Conclude, Goto, Job, Critical

\* Advancing to another step.
LEMMA GotoTyped ==
  ASSUME TypeOK, NEW p \in Procs, NEW x \in Critical, Goto(p, x)
  PROVE  /\ pc' \in [Procs -> Critical \cup {Idle, "loaded"}]
         /\ pc'[p] = x
         /\ \A q \in Procs \ {p} : pc'[q] = pc[q]
  BY DEF TypeOK, Goto, Critical

LEMMA ExitTyped ==
  ASSUME TypeInv, NEW p \in Procs, Exit(p),
         UNCHANGED <<envVars, storeVars>>, lock' \in BOOLEAN
  PROVE  TypeInv'
  <1>1. TypeOK'
    BY NoJobIsAJob
    DEF TypeInv, TypeOK, Exit, Goto, envVars, storeVars, NoConfig
  <1>2. ASSUME NEW q \in Procs PROVE JobOKAt(q)'
    BY <1>2 DEF TypeInv, TypeOK, JobOK, JobOKAt, Exit, Goto, storeVars, Idle,
                SourceSteps, UpdateSteps
  <1> QED BY <1>1, <1>2 DEF TypeInv, JobOK

LEMMA StartTyped ==
  ASSUME TypeInv, NEW p \in Procs, NEW c \in CommandNames, Start(p, c)
  PROVE  TypeInv'
  <1>1. TypeOK'
    BY DEF TypeInv, TypeOK, Start, Goto, envVars, storeVars
  <1>2. ASSUME NEW q \in Procs PROVE JobOKAt(q)'
    BY <1>2 DEF TypeInv, TypeOK, JobOK, JobOKAt, Start, Goto, storeVars, Idle,
                SourceSteps, UpdateSteps
  <1> QED BY <1>1, <1>2 DEF TypeInv, JobOK

LEMMA LockedTyped ==
  ASSUME TypeInv, NEW p \in Procs, AcquireLock(p)
  PROVE  TypeInv'
  <1>1. PICK x \in {"next", "discover"} : Goto(p, x)
    BY DEF AcquireLock
  <1>2. pc' \in [Procs -> Critical \cup {Idle, "loaded"}]
    BY <1>1 DEF TypeInv, TypeOK, Goto, Critical, PruneSteps
  <1>3. todo' \in [Procs -> SUBSET Sources]
    <2>1. {s \in Sources : cfg[p][s] # None} \in SUBSET Sources
      OBVIOUS
    <2>2. todo \in [Procs -> SUBSET Sources]
      BY DEF TypeInv, TypeOK
    <2> QED BY <2>1, <2>2 DEF AcquireLock
  <1>4. TypeOK'
    BY <1>2, <1>3 DEF TypeInv, TypeOK, AcquireLock, envVars, storeVars
  <1>5. ASSUME NEW q \in Procs PROVE JobOKAt(q)'
    BY <1>5 DEF TypeInv, TypeOK, JobOK, JobOKAt, AcquireLock, Goto, storeVars,
                Idle, SourceSteps, UpdateSteps
  <1> QED BY <1>4, <1>5 DEF TypeInv, JobOK

LEMMA ReportTyped ==
  ASSUME TypeInv, NEW p \in Procs, Report(p)
  PROVE  TypeInv'
  <1>1. TypeOK'
    BY NoJobIsAJob DEF TypeInv, TypeOK, Report, Goto, envVars, storeVars, Critical
  <1>2. ASSUME NEW q \in Procs PROVE JobOKAt(q)'
    BY <1>2 DEF TypeInv, TypeOK, JobOK, JobOKAt, Report, Goto, storeVars,
                Idle, SourceSteps, UpdateSteps
  <1> QED BY <1>1, <1>2 DEF TypeInv, JobOK

\* recover_with moves directories between the public name and the backup.
LEMMA RecoverTyped ==
  ASSUME TypeOK, NEW s \in Sources, NEW ok \in BOOLEAN, Recover(s, ok)
  PROVE  target' \in [Sources -> Dir] /\ backup' \in [Sources -> Dir]
  BY RemainsAreDirs DEF TypeOK, Recover, DiscardBackup, Dir

LEMMA DiscardTyped ==
  ASSUME TypeOK, NEW s \in Sources, DiscardBackup(s)
  PROVE  backup' \in [Sources -> Dir]
  BY RemainsAreDirs DEF TypeOK, DiscardBackup

\* What a process stages is a complete tree.
LEMMA StagedIsATree ==
  ASSUME TypeInv, NEW p \in Procs, pc[p] \in UpdateSteps \ {"acquire"}
  PROVE  Staged(p) \in Tree
  BY DEF TypeInv, TypeOK, JobOK, JobOKAt, Staged, Tree

LEMMA PrepareTyped ==
  ASSUME TypeInv, NEW p \in Procs, Prepare(p)
  PROVE  TypeInv'
  <1>1. PICK s \in Sources, ok \in BOOLEAN, probed \in BOOLEAN :
          /\ IsFirst(p, s)
          /\ Recover(s, ok)
          /\ probed \/ ~calm
          /\ IF ok /\ probed
             THEN /\ Goto(p, "acquire")
                  /\ job' = [job EXCEPT ![p] =
                       [NoJob EXCEPT !.source = s,
                                     !.before = Logical(s),
                                     !.installed =
                                       TrustedRevision(target'[s], cfg[p][s])]]
             ELSE /\ Goto(p, "report")
                  /\ job' = [job EXCEPT ![p] =
                       [NoJob EXCEPT !.source = s,
                                     !.before = Logical(s),
                                     !.outcome = "failed"]]
    BY DEF Prepare
  <1>2. /\ target' \in [Sources -> Dir]
        /\ backup' \in [Sources -> Dir]
    BY <1>1, RecoverTyped DEF TypeInv
  <1>3. /\ UNCHANGED <<envVars, lock, tomb, command, cfg, todo>>
        /\ command[p] = "update" /\ pc[p] = "next"
    BY DEF Prepare
  <1> DEFINE trusted == TrustedRevision(target'[s], cfg[p][s])
             found == [NoJob EXCEPT !.source = s, !.before = Logical(s),
                                    !.installed = trusted]
             lost == [NoJob EXCEPT !.source = s, !.before = Logical(s),
                                   !.outcome = "failed"]
  <1>4. Logical(s) \in Dir
    BY DEF TypeInv, TypeOK, Logical
  <1>5. trusted \in Revs \cup {None}
    BY <1>2 DEF TrustedRevision, Dir, Tree
  <1>6. found \in Job /\ found.source = s
    <2> HIDE DEF trusted
    <2> QED BY <1>4, <1>5 DEF NoJob, Job
  <1>7. lost \in Job /\ lost.source = s
    BY <1>4 DEF NoJob, Job, Outcomes
  <1>8. PICK j \in Job, x \in {"acquire", "report"} :
           j.source = s /\ Goto(p, x) /\ job' = [job EXCEPT ![p] = j]
    <2>1. CASE ok /\ probed
      <3>1. job' = [job EXCEPT ![p] = found]  BY <1>1, <2>1
      <3> HIDE DEF found
      <3> QED BY <1>1, <2>1, <3>1, <1>6
    <2>2. CASE ~(ok /\ probed)
      <3>1. job' = [job EXCEPT ![p] = lost]  BY <1>1, <2>2
      <3> HIDE DEF lost
      <3> QED BY <1>1, <2>2, <3>1, <1>7
    <2> QED BY <2>1, <2>2
  <1>9. TypeOK'
    BY <1>2, <1>3, <1>8 DEF TypeInv, TypeOK, Goto, envVars, Critical, UpdateSteps
  <1>10. s \in todo[p]
    BY <1>1 DEF IsFirst
  <1>11. ASSUME NEW q \in Procs PROVE JobOKAt(q)'
    BY <1>3, <1>8, <1>10 DEF TypeInv, TypeOK, JobOK, JobOKAt, Goto, Idle,
                             SourceSteps, UpdateSteps
  <1> QED BY <1>9, <1>11 DEF TypeInv, JobOK

\* A step inside one source's work: the job may learn its revision or that
\* the directory was set aside, or it ends with an outcome; the directories
\* keep their types, and the process reaches a step it has what it needs for.
LEMMA InSourceTyped ==
  ASSUME TypeInv, NEW p \in Procs, NEW x \in Critical \ {"discover"},
         pc[p] \in UpdateSteps \cup (PruneSteps \ {"discover"}),
         UNCHANGED <<envVars, lock, command, cfg, todo>>,
         target' \in [Sources -> Dir], backup' \in [Sources -> Dir],
         tomb' \in [Procs -> [Sources -> Dir]],
         \A q \in Procs \ {p} : tomb'[q] = tomb[q],
         Goto(p, x),
         NEW j \in Job, job' = [job EXCEPT ![p] = j],
         j.source = job[p].source,
         x \in UpdateSteps => pc[p] \in UpdateSteps,
         x \in UpdateSteps \ {"acquire"} => j.revision \in Revs,
         x \in {"syncIsolated", "remove"} => tomb'[p][j.source] # None
  PROVE  TypeInv'
  <1>1. TypeOK'
    BY GotoTyped DEF TypeInv, TypeOK, envVars
  <1>2. job[p].source \in Sources
    BY DEF TypeInv, JobOK, JobOKAt, SourceSteps, PruneSteps
  <1>3. pc'[p] = x /\ job'[p] = j
    BY GotoTyped DEF TypeInv, TypeOK
  <1>4. JobOKAt(p)'
    BY <1>2, <1>3 DEF TypeInv, TypeOK, JobOK, JobOKAt, Idle, Critical,
                      UpdateSteps, PruneSteps
  <1>5. ASSUME NEW q \in Procs \ {p} PROVE JobOKAt(q)'
    BY <1>5, GotoTyped DEF TypeInv, TypeOK, JobOK, JobOKAt
  <1> QED BY <1>1, <1>4, <1>5 DEF TypeInv, JobOK

\* The common case: the job does not change.
LEMMA AdvanceTyped ==
  ASSUME TypeInv, NEW p \in Procs, NEW x \in Critical \ {"discover"},
         pc[p] \in UpdateSteps \cup (PruneSteps \ {"discover"}),
         UNCHANGED <<envVars, lock, command, cfg, todo, job>>,
         target' \in [Sources -> Dir], backup' \in [Sources -> Dir],
         tomb' \in [Procs -> [Sources -> Dir]],
         \A q \in Procs \ {p} : tomb'[q] = tomb[q],
         Goto(p, x),
         x \in UpdateSteps => pc[p] \in UpdateSteps \ {"acquire"},
         x \in {"syncIsolated", "remove"} => tomb'[p][job[p].source] # None
  PROVE  TypeInv'
  <1>1. job[p] \in Job /\ job' = [job EXCEPT ![p] = job[p]]
    BY DEF TypeInv, TypeOK
  <1>2. x \in UpdateSteps => job[p].revision \in Revs
    BY DEF TypeInv, JobOK, JobOKAt
  <1> QED BY <1>1, <1>2, InSourceTyped

\* The other common case: work on the source ends.
LEMMA ConcludedTyped ==
  ASSUME TypeInv, NEW p \in Procs, NEW x \in Outcomes,
         pc[p] \in UpdateSteps \cup (PruneSteps \ {"discover"}),
         UNCHANGED <<envVars, lock, command, cfg, todo>>,
         target' \in [Sources -> Dir], backup' \in [Sources -> Dir],
         tomb' \in [Procs -> [Sources -> Dir]],
         \A q \in Procs \ {p} : tomb'[q] = tomb[q],
         Conclude(p, x)
  PROVE  TypeInv'
  <1> DEFINE j == [job[p] EXCEPT !.outcome = x]
  <1>1. j \in Job /\ j.source = job[p].source
    BY DEF TypeInv, TypeOK, Job
  <1>2. job' = [job EXCEPT ![p] = j] /\ Goto(p, "report")
    BY DEF Conclude, TypeInv, TypeOK
  <1>3. "report" \in Critical \ {"discover"} /\ "report" \notin UpdateSteps
    BY DEF Critical, UpdateSteps
  <1> HIDE DEF j
  <1> QED BY <1>1, <1>2, <1>3, InSourceTyped

\* The steps of an update that leave the directories alone.
LEMMA FetchTyped ==
  ASSUME TypeInv, NEW p \in Procs,
         RemoteRevision(p) \/ Clone(p) \/ DownloadArchive(p) \/ Stage(p)
         \/ SyncPreserved(p) \/ SyncActivated(p) \/ SyncDiscarded(p)
  PROVE  TypeInv'
  <1>1. /\ pc[p] \in UpdateSteps
        /\ UNCHANGED <<envVars, lock, command, cfg, todo>>
        /\ UNCHANGED storeVars
    BY DEF RemoteRevision, Clone, DownloadArchive, Stage, SyncPreserved,
           SyncActivated, SyncDiscarded, InSource, UpdateSteps
  <1>2. /\ target' \in [Sources -> Dir]
        /\ backup' \in [Sources -> Dir]
        /\ tomb' \in [Procs -> [Sources -> Dir]]
        /\ \A q \in Procs \ {p} : tomb'[q] = tomb[q]
    BY <1>1 DEF TypeInv, TypeOK, storeVars
  <1>3. \/ \E x \in Outcomes : Conclude(p, x)
        \/ /\ pc[p] # "acquire"
           /\ \E x \in {"stage", "recover", "activate", "discard"} : Goto(p, x)
           /\ UNCHANGED job
        \/ /\ \E x \in {"clone", "stage"} : Goto(p, x)
           /\ job' = [job EXCEPT ![p].revision = remote[job[p].source]]
    BY DEF RemoteRevision, Clone, DownloadArchive, Stage, SyncPreserved,
           SyncActivated, SyncDiscarded, InSource, Fails, Outcomes
  <1>4. CASE \E x \in Outcomes : Conclude(p, x)
    BY <1>1, <1>2, <1>4, ConcludedTyped
  <1>5. ASSUME pc[p] # "acquire", UNCHANGED job,
               NEW x \in {"stage", "recover", "activate", "discard"}, Goto(p, x)
        PROVE  TypeInv'
    <2>1. x \in Critical \ {"discover"} /\ x \notin {"syncIsolated", "remove"}
      BY DEF Critical, UpdateSteps
    <2> QED BY <1>1, <1>2, <1>5, <2>1, AdvanceTyped
  <1>6. ASSUME job' = [job EXCEPT ![p].revision = remote[job[p].source]],
               NEW x \in {"clone", "stage"}, Goto(p, x)
        PROVE  TypeInv'
    <2> DEFINE j == [job[p] EXCEPT !.revision = remote[job[p].source]]
    <2>1. x \in Critical \ {"discover"} /\ x \notin {"syncIsolated", "remove"}
      BY DEF Critical, UpdateSteps
    <2>2. job[p].source \in Sources
      BY <1>1 DEF TypeInv, JobOK, JobOKAt, SourceSteps
    <2>3. remote[job[p].source] \in Revs
      BY <2>2 DEF TypeInv, TypeOK
    <2>4. job[p] \in Job /\ job' = [job EXCEPT ![p] = j]
      BY <1>6 DEF TypeInv, TypeOK
    <2>5. j \in Job /\ j.source = job[p].source /\ j.revision \in Revs
      BY <2>3, <2>4 DEF Job
    <2> HIDE DEF j
    <2> QED BY <1>1, <1>2, <1>6, <2>1, <2>4, <2>5, InSourceTyped
  <1> QED BY <1>3, <1>4, <1>5, <1>6

LEMMA RecoverAgainTyped ==
  ASSUME TypeInv, NEW p \in Procs, RecoverAgain(p)
  PROVE  TypeInv'
  <1>1. /\ pc[p] = "recover"
        /\ UNCHANGED <<envVars, lock, command, cfg, todo, tomb>>
    BY DEF RecoverAgain, InSource
  <1>2. job[p].source \in Sources
    BY <1>1 DEF TypeInv, JobOK, JobOKAt, SourceSteps, UpdateSteps
  <1>3. /\ target' \in [Sources -> Dir]
        /\ backup' \in [Sources -> Dir]
        /\ tomb' \in [Procs -> [Sources -> Dir]]
        /\ \A q \in Procs \ {p} : tomb'[q] = tomb[q]
    BY <1>1, <1>2, RecoverTyped DEF RecoverAgain, TypeInv, TypeOK
  <1>4. \/ Goto(p, "preserve") /\ UNCHANGED job
        \/ Conclude(p, "failed")
    BY DEF RecoverAgain
  <1>5. CASE Goto(p, "preserve") /\ UNCHANGED job
    BY <1>1, <1>3, <1>5, AdvanceTyped DEF UpdateSteps, Critical
  <1>6. CASE Conclude(p, "failed")
    BY <1>1, <1>3, <1>6, ConcludedTyped DEF UpdateSteps, Outcomes
  <1> QED BY <1>4, <1>5, <1>6

\* The steps of an update that rename or remove a directory.
LEMMA SwapTyped ==
  ASSUME TypeInv, NEW p \in Procs,
         Preserve(p) \/ Activate(p) \/ ActivateFails(p) \/ Discard(p)
  PROVE  TypeInv'
  <1>1. /\ pc[p] \in {"preserve", "activate", "discard"}
        /\ UNCHANGED <<envVars, lock, command, cfg, todo, tomb>>
    BY DEF Preserve, Activate, ActivateFails, Discard, InSource
  <1> DEFINE s == job[p].source
  <1>2. s \in Sources
    BY <1>1 DEF TypeInv, JobOK, JobOKAt, SourceSteps, UpdateSteps
  <1>3. Staged(p) \in Tree
    BY <1>1, StagedIsATree DEF UpdateSteps
  <1>4. /\ target' \in [Sources -> Dir]
        /\ backup' \in [Sources -> Dir]
        /\ tomb' \in [Procs -> [Sources -> Dir]]
        /\ \A q \in Procs \ {p} : tomb'[q] = tomb[q]
    <2>1. tomb' \in [Procs -> [Sources -> Dir]]
      BY <1>1 DEF TypeInv, TypeOK
    <2>2. CASE Preserve(p)
      BY <1>1, <1>2, <2>1, <2>2 DEF Preserve, TypeInv, TypeOK, Dir
    <2>3. CASE Activate(p)
      BY <1>1, <1>2, <1>3, <2>1, <2>3 DEF Activate, TypeInv, TypeOK, Dir
    <2>4. CASE ActivateFails(p)
      BY <1>1, <1>2, <2>1, <2>4 DEF ActivateFails, TypeInv, TypeOK, Dir
    <2>5. CASE Discard(p)
      BY <1>1, <1>2, <2>1, <2>5, DiscardTyped DEF Discard, TypeInv, TypeOK
    <2> QED BY <2>2, <2>3, <2>4, <2>5
  <1>5. CASE \E x \in Outcomes : Conclude(p, x)
    BY <1>1, <1>4, <1>5, ConcludedTyped DEF UpdateSteps
  <1>6. ASSUME NEW x \in {"activate", "syncActivated", "syncDiscarded"},
               Goto(p, x), UNCHANGED job
        PROVE  TypeInv'
    <2>1. x \in Critical \ {"discover"} /\ x \notin {"syncIsolated", "remove"}
      BY DEF Critical, UpdateSteps
    <2> QED BY <1>1, <1>4, <1>6, <2>1, AdvanceTyped DEF UpdateSteps
  <1>7. ASSUME NEW x \in {"syncPreserved"}, Goto(p, x),
               job' = [job EXCEPT ![p].had = TRUE]
        PROVE  TypeInv'
    <2> DEFINE j == [job[p] EXCEPT !.had = TRUE]
    <2>1. job[p] \in Job /\ job' = [job EXCEPT ![p] = j]
      BY <1>7 DEF TypeInv, TypeOK
    <2>2. job[p].revision \in Revs
      BY <1>1 DEF TypeInv, JobOK, JobOKAt, UpdateSteps
    <2>3. j \in Job /\ j.source = job[p].source /\ j.revision \in Revs
      BY <2>1, <2>2 DEF Job
    <2>4. x \in Critical \ {"discover"} /\ x \notin {"syncIsolated", "remove"}
      BY DEF Critical, UpdateSteps
    <2>5. pc[p] \in UpdateSteps
      BY <1>1 DEF UpdateSteps
    <2> HIDE DEF j
    <2> QED BY <1>1, <1>4, <1>7, <2>1, <2>3, <2>4, <2>5, InSourceTyped
  <1>8. \/ \E x \in Outcomes : Conclude(p, x)
        \/ /\ \E x \in {"activate", "syncActivated", "syncDiscarded"} : Goto(p, x)
           /\ UNCHANGED job
        \/ Goto(p, "syncPreserved") /\ job' = [job EXCEPT ![p].had = TRUE]
    BY DEF Preserve, Activate, ActivateFails, Discard, Outcomes
  <1> QED BY <1>5, <1>6, <1>7, <1>8

\* The steps of a prune before and after it isolates a directory.
LEMMA DiscoverTyped ==
  ASSUME TypeInv, NEW p \in Procs, DiscoverOrphans(p)
  PROVE  TypeInv'
  <1> DEFINE found == {s \in Sources : cfg[p][s] = None /\ Identified(target[s])}
  <1>1. todo' \in [Procs -> SUBSET Sources]
    <2>1. found \in SUBSET Sources
      OBVIOUS
    <2>2. todo \in [Procs -> SUBSET Sources]
      BY DEF TypeInv, TypeOK
    <2>3. todo' = [todo EXCEPT ![p] = found] \/ UNCHANGED todo
      BY DEF DiscoverOrphans
    <2> HIDE DEF found
    <2> QED BY <2>1, <2>2, <2>3
  <1>2. /\ pc[p] = "discover" /\ Goto(p, "next") /\ "next" \in Critical
        /\ UNCHANGED <<envVars, lock, storeVars, command, cfg, job>>
        /\ \A q \in Procs \ {p} : todo'[q] = todo[q]
    BY DEF DiscoverOrphans, Critical, TypeInv, TypeOK
  <1>3. TypeOK'
    BY <1>1, <1>2, GotoTyped DEF TypeInv, TypeOK, envVars, storeVars
  <1>4. command[p] # "update"
    BY <1>2 DEF TypeInv, JobOK, JobOKAt
  <1>5. JobOKAt(p)'
    BY <1>2, <1>4, GotoTyped DEF TypeInv, JobOKAt, SourceSteps, UpdateSteps, Idle
  <1>6. ASSUME NEW q \in Procs \ {p} PROVE JobOKAt(q)'
    BY <1>2, <1>6, GotoTyped DEF TypeInv, JobOK, JobOKAt, storeVars
  <1> QED BY <1>3, <1>5, <1>6 DEF TypeInv, JobOK

\* Changing one tombstone of one process.
LEMMA TombTyped ==
  ASSUME TypeOK, NEW p \in Procs, NEW s \in Sources, NEW d \in Dir,
         tomb' = [tomb EXCEPT ![p][s] = d]
  PROVE  /\ tomb' \in [Procs -> [Sources -> Dir]]
         /\ tomb'[p][s] = d
         /\ \A q \in Procs \ {p} : tomb'[q] = tomb[q]
  <1>1. tomb \in [Procs -> [Sources -> Dir]]
    BY DEF TypeOK
  <1>2. tomb[p] \in [Sources -> Dir]
    BY <1>1
  <1>3. [tomb[p] EXCEPT ![s] = d] \in [Sources -> Dir]
    BY <1>2
  <1>4. tomb' = [tomb EXCEPT ![p] = [tomb[p] EXCEPT ![s] = d]]
    BY <1>1
  <1> QED BY <1>1, <1>2, <1>3, <1>4

\* Starting work on a source, and the steps that leave an isolated tree alone.
LEMMA PrunePickTyped ==
  ASSUME TypeInv, NEW p \in Procs, Preview(p) \/ Isolate(p) \/ IsolateFails(p)
  PROVE  TypeInv'
  <1>1. ASSUME NEW s \in Sources
        PROVE  /\ Logical(s) \in Dir
               /\ [NoJob EXCEPT !.source = s, !.before = Logical(s)] \in Job
               /\ \A o \in Outcomes :
                    [NoJob EXCEPT !.source = s, !.before = Logical(s),
                                  !.outcome = o] \in Job
    <2>1. Logical(s) \in Dir
      BY DEF TypeInv, TypeOK, Logical
    <2> QED BY <2>1 DEF NoJob, Job
  <1>2. PICK s \in Sources, x \in {"report", "syncIsolated"}, j \in Job :
          /\ Goto(p, x)
          /\ j.source = s
          /\ job' = [job EXCEPT ![p] = j]
          /\ \/ /\ x = "report"
                /\ UNCHANGED <<target, tomb>>
             \/ /\ target[s] # None
                /\ target' = [target EXCEPT ![s] = None]
                /\ tomb' = [tomb EXCEPT ![p][s] = target[s]]
    <2>1. CASE Preview(p) \/ IsolateFails(p)
      <3>1. PICK s \in Sources, o \in Outcomes :
              job' = [job EXCEPT ![p] = [NoJob EXCEPT !.source = s,
                                                      !.before = Logical(s),
                                                      !.outcome = o]]
        BY <2>1 DEF Preview, IsolateFails, Outcomes
      <3> DEFINE j == [NoJob EXCEPT !.source = s, !.before = Logical(s),
                                    !.outcome = o]
      <3>2. j \in Job /\ j.source = s
        BY <1>1 DEF NoJob
      <3>3. Goto(p, "report") /\ UNCHANGED <<target, tomb>>
        BY <2>1 DEF Preview, IsolateFails, storeVars
      <3>4. job' = [job EXCEPT ![p] = j]
        BY <3>1
      <3> HIDE DEF j
      <3> QED BY <3>2, <3>3, <3>4
    <2>2. CASE Isolate(p)
      <3>1. PICK s \in Sources :
              /\ CanIsolate(p, s)
              /\ target' = [target EXCEPT ![s] = None]
              /\ tomb' = [tomb EXCEPT ![p][s] = target[s]]
              /\ job' = [job EXCEPT ![p] = [NoJob EXCEPT !.source = s,
                                                        !.before = Logical(s)]]
        BY <2>2 DEF Isolate
      <3> DEFINE j == [NoJob EXCEPT !.source = s, !.before = Logical(s)]
      <3>2. j \in Job /\ j.source = s
        BY <1>1 DEF NoJob
      <3>3. Goto(p, "syncIsolated") /\ target[s] # None
        BY <2>2, <3>1 DEF Isolate, CanIsolate, Identified
      <3>4. job' = [job EXCEPT ![p] = j]
        BY <3>1
      <3> HIDE DEF j
      <3> QED BY <3>1, <3>2, <3>3, <3>4
    <2> QED BY <2>1, <2>2
  <1>3. /\ pc[p] = "next" /\ command[p] # "update"
        /\ UNCHANGED <<envVars, lock, backup, command, cfg, todo>>
    BY DEF Preview, Isolate, IsolateFails, storeVars
  <1>4. /\ target' \in [Sources -> Dir]
        /\ tomb' \in [Procs -> [Sources -> Dir]]
        /\ \A q \in Procs \ {p} : tomb'[q] = tomb[q]
        /\ x = "syncIsolated" => tomb'[p][s] # None
    <2>1. CASE UNCHANGED <<target, tomb>> /\ x = "report"
      BY <2>1 DEF TypeInv, TypeOK
    <2>2. CASE /\ target[s] # None
               /\ target' = [target EXCEPT ![s] = None]
               /\ tomb' = [tomb EXCEPT ![p][s] = target[s]]
      <3>1. target[s] \in Dir
        BY DEF TypeInv, TypeOK
      <3>2. target' \in [Sources -> Dir]
        BY <2>2 DEF TypeInv, TypeOK, Dir
      <3> QED BY <2>2, <3>1, <3>2, TombTyped DEF TypeInv
    <2> QED BY <1>2, <2>1, <2>2
  <1>5. x \in Critical
    BY DEF Critical, PruneSteps
  <1>6. TypeOK'
    BY <1>2, <1>3, <1>4, <1>5, GotoTyped DEF TypeInv, TypeOK, envVars
  <1>7. /\ pc'[p] = x /\ job'[p] = j
        /\ \A q \in Procs \ {p} : pc'[q] = pc[q] /\ job'[q] = job[q]
    BY <1>2, <1>5, GotoTyped DEF TypeInv, TypeOK
  <1>8. todo'[p] = todo[p] /\ command'[p] = command[p]
    BY <1>3
  <1>9. JobOKAt(p)'
    <2>1. x \notin UpdateSteps /\ x \notin {Idle, "loaded", "discover", "remove"}
      BY DEF UpdateSteps, Idle
    <2> QED BY <1>2, <1>3, <1>4, <1>7, <1>8, <2>1 DEF TypeInv, JobOKAt
  <1>10. ASSUME NEW q \in Procs \ {p} PROVE JobOKAt(q)'
    BY <1>3, <1>4, <1>7, <1>10 DEF TypeInv, JobOK, JobOKAt
  <1> QED BY <1>6, <1>9, <1>10 DEF TypeInv, JobOK

\* The steps of a prune after it isolated a directory.
LEMMA IsolatedTyped ==
  ASSUME TypeInv, NEW p \in Procs,
         SyncIsolated(p) \/ RestoreIsolated(p) \/ RemoveIsolated(p)
         \/ SyncRemoved(p)
  PROVE  TypeInv'
  <1>1. /\ pc[p] \in {"syncIsolated", "remove", "syncRemoved"}
        /\ UNCHANGED <<envVars, lock, command, cfg, todo, backup>>
    BY DEF SyncIsolated, RestoreIsolated, RemoveIsolated, SyncRemoved, InSource,
           storeVars
  <1> DEFINE s == job[p].source
  <1>2. s \in Sources
    BY <1>1 DEF TypeInv, JobOK, JobOKAt, SourceSteps
  <1>3. pc[p] # "syncRemoved" => tomb[p][s] \in Tree
    BY <1>1, <1>2 DEF TypeInv, TypeOK, JobOK, JobOKAt, Dir
  <1>4. /\ target' \in [Sources -> Dir]
        /\ backup' \in [Sources -> Dir]
        /\ tomb' \in [Procs -> [Sources -> Dir]]
        /\ \A q \in Procs \ {p} : tomb'[q] = tomb[q]
    <2>1. backup' \in [Sources -> Dir]
      BY <1>1 DEF TypeInv, TypeOK
    <2>2. CASE SyncIsolated(p) \/ SyncRemoved(p)
      BY <2>2 DEF SyncIsolated, SyncRemoved, TypeInv, TypeOK, storeVars
    <2>3. CASE RestoreIsolated(p)
      <3>1. CASE UNCHANGED <<target, tomb>>
        BY <2>1, <3>1 DEF TypeInv, TypeOK
      <3>2. CASE /\ target' = [target EXCEPT ![s] = tomb[p][s]]
                 /\ tomb' = [tomb EXCEPT ![p][s] = None]
        <4>1. target' \in [Sources -> Dir]
          BY <1>2, <3>2 DEF TypeInv, TypeOK
        <4> QED BY <1>2, <2>1, <3>2, <4>1, TombTyped DEF TypeInv, Dir
      <3> QED BY <2>3, <3>1, <3>2 DEF RestoreIsolated
    <2>4. CASE RemoveIsolated(p)
      <3>1. pc[p] = "remove" /\ Ruins(tomb[p][s]) \subseteq Tree
        BY <1>3, <2>4, RuinsAreTrees DEF RemoveIsolated, InSource
      <3>2. \/ tomb' = [tomb EXCEPT ![p][s] = None]
            \/ \E d \in Ruins(tomb[p][s]) : tomb' = [tomb EXCEPT ![p][s] = d]
        BY <2>4 DEF RemoveIsolated
      <3>3. PICK d \in Dir : tomb' = [tomb EXCEPT ![p][s] = d]
        BY <3>1, <3>2 DEF Dir
      <3>4. target' \in [Sources -> Dir]
        BY <2>4 DEF RemoveIsolated, TypeInv, TypeOK
      <3> QED BY <1>2, <2>1, <3>3, <3>4, TombTyped DEF TypeInv
    <2> QED BY <2>2, <2>3, <2>4
  <1>5. CASE \E x \in Outcomes : Conclude(p, x)
    BY <1>1, <1>4, <1>5, ConcludedTyped DEF PruneSteps
  <1>6. CASE SyncIsolated(p)
    <2>1. tomb'[p][s] # None
      BY <1>6 DEF SyncIsolated, Identified, storeVars
    <2> QED BY <1>1, <1>4, <1>6, <2>1, AdvanceTyped
            DEF SyncIsolated, PruneSteps, UpdateSteps, Critical
  <1>7. CASE Goto(p, "syncRemoved") /\ UNCHANGED job
    BY <1>1, <1>4, <1>7, AdvanceTyped DEF PruneSteps, UpdateSteps, Critical
  <1>8. \/ \E x \in Outcomes : Conclude(p, x)
        \/ SyncIsolated(p)
        \/ Goto(p, "syncRemoved") /\ UNCHANGED job
    BY DEF SyncIsolated, RestoreIsolated, RemoveIsolated, SyncRemoved, Fails,
           Outcomes
  <1> QED BY <1>5, <1>6, <1>7, <1>8

-----------------------------------------------------------------------------
\* Every step keeps the types and what processes know about their sources.
LEMMA TypeInvStep == TypeInv /\ [Next]_vars => TypeInv'
  <1> SUFFICES ASSUME TypeInv, [Next]_vars PROVE TypeInv'
    OBVIOUS
  <1>1. ASSUME NEW p \in Procs, NEW c \in CommandNames, Start(p, c)
        PROVE  TypeInv'
    BY <1>1, StartTyped
  <1>2. ASSUME NEW p \in Procs, AcquireLock(p) PROVE TypeInv'
    BY <1>2, LockedTyped
  <1>3. ASSUME NEW p \in Procs, LockRefused(p) \/ Finish(p) \/ Kill(p)
        PROVE  TypeInv'
    <2>1. lock \in BOOLEAN
      BY DEF TypeInv, TypeOK
    <2> QED BY <1>3, <2>1, ExitTyped DEF LockRefused, Finish, Kill
  <1>4. ASSUME NEW p \in Procs, UpdateStep(p) PROVE TypeInv'
    BY <1>4, PrepareTyped, FetchTyped, RecoverAgainTyped, SwapTyped DEF UpdateStep
  <1>5. ASSUME NEW p \in Procs, PruneStep(p) PROVE TypeInv'
    BY <1>5, DiscoverTyped, PrunePickTyped, IsolatedTyped DEF PruneStep
  <1>6. ASSUME NEW p \in Procs, Report(p) PROVE TypeInv'
    BY <1>6, ReportTyped
  <1>7. ASSUME UNCHANGED <<storeVars, procVars>>,
               config' \in [Sources -> Fps \cup {None}],
               remote' \in [Sources -> Revs],
               calm' \in BOOLEAN, lock' \in BOOLEAN
        PROVE  TypeInv'
    BY <1>7 DEF TypeInv, TypeOK, JobOK, JobOKAt, storeVars, procVars
  <1>8. ASSUME NEW s \in Sources, EditConfig(s) PROVE TypeInv'
    BY <1>7, <1>8 DEF EditConfig, TypeInv, TypeOK
  <1>9. ASSUME NEW s \in Sources, Publish(s) PROVE TypeInv'
    BY <1>7, <1>9 DEF Publish, TypeInv, TypeOK
  <1>10. CASE ClearStaleLock
    BY <1>7, <1>10 DEF ClearStaleLock, envVars, TypeInv, TypeOK
  <1>11. CASE Settle
    BY <1>7, <1>11 DEF Settle, TypeInv, TypeOK
  <1>12. CASE UNCHANGED vars
    BY <1>7, <1>12 DEF vars, envVars, TypeInv, TypeOK
  <1> QED
    BY <1>1, <1>2, <1>3, <1>4, <1>5, <1>6, <1>8, <1>9, <1>10, <1>11, <1>12
    DEF Next, HeldStep

\* Every reachable state is well typed: no step of any command, fault or
\* edit takes a directory, a lock or a job out of its type.
THEOREM TypeCorrect == Spec => []TypeOK
  <1>1. TypeInv => TypeOK
    BY DEF TypeInv
  <1> QED BY TypeInvInit, TypeInvStep, <1>1, PTL DEF Spec

-----------------------------------------------------------------------------
\* The critical section is entered only by creating the lock file, and left
\* by every step that may remove it.
LEMMA OneWriterStep == TypeOK /\ OneWriter /\ [Next]_vars => OneWriter'
  <1> SUFFICES ASSUME TypeOK, OneWriter, [Next]_vars PROVE OneWriter'
    OBVIOUS
  <1>1. Idle \notin Critical /\ "loaded" \notin Critical
    BY DEF Idle, Critical, UpdateSteps, PruneSteps
  <1>2. ASSUME NEW p \in Procs, AcquireLock(p) PROVE OneWriter'
    <2>1. lock' /\ \A q \in Procs : pc[q] \notin Critical
      BY <1>2 DEF AcquireLock, OneWriter
    <2>2. \A q \in Procs \ {p} : pc'[q] = pc[q]
      BY <1>2 DEF AcquireLock, Goto, TypeOK
    <2> QED BY <2>1, <2>2 DEF OneWriter
  <1>3. ASSUME NEW p \in Procs, UNCHANGED lock,
               \A q \in Procs \ {p} : pc'[q] = pc[q],
               pc'[p] \in Critical => pc[p] \in Critical
        PROVE  OneWriter'
    BY <1>3 DEF OneWriter
  <1>4. ASSUME NEW p \in Procs, NEW c \in CommandNames, Start(p, c)
        PROVE  OneWriter'
    BY <1>1, <1>3, <1>4 DEF Start, Goto, TypeOK
  <1>5. ASSUME NEW p \in Procs, LockRefused(p) \/ Kill(p) PROVE OneWriter'
    BY <1>1, <1>3, <1>5 DEF LockRefused, Kill, Exit, Goto, TypeOK
  <1>6. ASSUME NEW p \in Procs, Finish(p) PROVE OneWriter'
    <2>1. pc[p] \in Critical
      BY <1>6 DEF Finish, Critical
    <2>2. \A q \in Procs : pc'[q] \notin Critical
      BY <1>1, <1>6, <2>1 DEF Finish, Exit, Goto, TypeOK, OneWriter
    <2> QED BY <2>2 DEF OneWriter
  <1>7. ASSUME NEW p \in Procs, UpdateStep(p) \/ PruneStep(p) \/ Report(p)
        PROVE  OneWriter'
    <2>1. pc[p] \in Critical /\ UNCHANGED lock
      BY <1>7
      DEF UpdateStep, Prepare, RemoteRevision, Clone, DownloadArchive, Stage,
          RecoverAgain, Preserve, SyncPreserved, Activate, ActivateFails,
          SyncActivated, Discard, SyncDiscarded, PruneStep, DiscoverOrphans,
          Preview, Isolate, IsolateFails, SyncIsolated, RestoreIsolated,
          RemoveIsolated, SyncRemoved, Report, InSource, Critical,
          UpdateSteps, PruneSteps
    <2>2. \E x : Goto(p, x)
      BY <1>7
      DEF UpdateStep, Prepare, RemoteRevision, Clone, DownloadArchive, Stage,
          RecoverAgain, Preserve, SyncPreserved, Activate, ActivateFails,
          SyncActivated, Discard, SyncDiscarded, PruneStep, DiscoverOrphans,
          Preview, Isolate, IsolateFails, SyncIsolated, RestoreIsolated,
          RemoveIsolated, SyncRemoved, Report, Fails, Conclude
    <2>3. \A q \in Procs \ {p} : pc'[q] = pc[q]
      BY <2>2 DEF Goto, TypeOK
    <2> QED BY <1>3, <2>1, <2>3
  <1>8. ASSUME UNCHANGED pc, UNCHANGED lock PROVE OneWriter'
    BY <1>8 DEF OneWriter
  <1>9. ASSUME NEW s \in Sources, EditConfig(s) \/ Publish(s) PROVE OneWriter'
    BY <1>8, <1>9 DEF EditConfig, Publish, procVars
  <1>10. CASE ClearStaleLock
    BY <1>10 DEF ClearStaleLock, OneWriter, procVars
  <1>11. CASE Settle
    BY <1>8, <1>11 DEF Settle, procVars
  <1>12. CASE UNCHANGED vars
    BY <1>8, <1>12 DEF vars, procVars
  <1> QED
    BY <1>2, <1>4, <1>5, <1>6, <1>7, <1>9, <1>10, <1>11, <1>12
    DEF Next, HeldStep

\* At most one process is past UpdateLock::acquire, and the lock file is
\* there as long as it is, whatever was killed and however many processes,
\* sources and stale locks there are.
THEOREM MutualExclusion == Spec => []OneWriter
  <1>1. Init => OneWriter
    BY DEF Init, OneWriter, Idle, Critical, UpdateSteps, PruneSteps
  <1> QED BY <1>1, TypeCorrect, OneWriterStep, PTL DEF Spec

=============================================================================
