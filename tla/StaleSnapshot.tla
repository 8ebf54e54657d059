--------------------------- MODULE StaleSnapshot ---------------------------
(***************************************************************************)
(* SourceStore with a history of activations: fresh[p] holds the sources   *)
(* some update activated since process p loaded sources.toml.  The command *)
(* line loads the configuration before it takes the lock, so an update of  *)
(* another process can complete in between.                                *)
(***************************************************************************)
EXTENDS SourceStore

VARIABLE fresh

\* The sources a step activates.
Activated ==
    {s \in Sources : \E p \in Procs :
        /\ pc[p] = "activate" /\ pc'[p] = "syncActivated"
        /\ job[p].source = s}

SnapshotInit == Init /\ fresh = [p \in Procs |-> {}]

SnapshotNext ==
    /\ Next
    /\ fresh' = [p \in Procs |->
                    IF pc'[p] = Idle THEN {} ELSE fresh[p] \cup Activated]

SnapshotSpec == SnapshotInit /\ [][SnapshotNext]_<<vars, fresh>>

\* update/prune.rs:16 says that a prune removes directories "absent from the
\* active configuration".  A source that was configured and installed after
\* the prune loaded its configuration is isolated all the same.
PruneSparesFreshInstalls ==
    [][\A p \in Procs, s \in Sources :
          tomb[p][s] = None /\ tomb'[p][s] # None /\ config[s] # None =>
             s \notin fresh[p]]_<<vars, fresh>>

=============================================================================
