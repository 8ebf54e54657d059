-------------------------- MODULE MCStaleSnapshot --------------------------
(* A small instance of StaleSnapshot for TLC. *)
EXTENDS StaleSnapshot, TLC

CONSTANTS p1, p2

UpdaterAndPruner == p1 :> {"update"} @@ p2 :> {"prune"}

=============================================================================
