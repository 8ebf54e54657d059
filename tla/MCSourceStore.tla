--------------------------- MODULE MCSourceStore ---------------------------
(* Small instances of SourceStore for TLC. *)
EXTENDS SourceStore, TLC

CONSTANTS p1, p2

\* Two updaters race for the lock.
TwoUpdaters == p1 :> {"update"} @@ p2 :> {"update"}

\* Two updaters run the same commands, so they can be exchanged.
Exchange == Permutations({p1, p2})

\* An updater and a process slot that prunes or previews.
UpdaterAndPruner == p1 :> {"update"} @@ p2 :> {"prune", "preview"}

=============================================================================
