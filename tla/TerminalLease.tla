--------------------------- MODULE TerminalLease ---------------------------
(***************************************************************************)
(* The restoration ledger of one terminal session                          *)
(* (crates/mant/src/delivery/terminal_lease.rs): which terminal modes are  *)
(* in force, and which the session still has to undo, oldest first.  The   *)
(* sessions that own a ledger (the pager, the reader) extend this module   *)
(* and say who takes these steps, and when.                                *)
(*                                                                         *)
(* An operation that fails may have reached the terminal all the same: an  *)
(* escape sequence can be written and its flush fail.                      *)
(***************************************************************************)
EXTENDS Integers, Sequences

CONSTANT MaxFaults      \* bound: terminal operations that fail in one session

ASSUME FaultsAssumption == MaxFaults \in Nat

Resource == {"AlternateScreen", "RawMode", "MouseCapture", "HiddenCursor"}

VARIABLES
    modes,      \* the modes in force on the terminal
    ledger,     \* `pending`: the modes to undo, in the order they were taken
    faults      \* how many terminal operations failed so far

lease == <<modes, ledger, faults>>

Pending(r) == \E i \in 1..Len(ledger) : ledger[i] = r

(* One terminal operation fails. *)
Fault ==
    /\ faults < MaxFaults
    /\ faults' = faults + 1

(* The ledger without its i-th obligation: the slot is cleared and the     *)
(* later ones keep their order.                                            *)
Cleared(i) ==
    [k \in 1..Len(ledger) - 1 |-> IF k < i THEN ledger[k] ELSE ledger[k + 1]]

----------------------------------------------------------------------------

LeaseInit ==
    /\ modes = {}
    /\ ledger = <<>>
    /\ faults = 0

(***************************************************************************)
(* `acquire`: the obligation is recorded before the operation is tried, so *)
(* one that breaks off, by an error or a panic, is owed as well.           *)
(***************************************************************************)
Acquired(r) ==
    /\ ~Pending(r)
    /\ ledger' = Append(ledger, r)
    /\ modes' = modes \cup {r}
    /\ UNCHANGED faults

\* Mutant: the obligation is recorded only once the operation has succeeded.
AcquireBrokenUnrecorded(r) ==
    /\ ~Pending(r)
    /\ modes' \in {modes, modes \cup {r}}
    /\ UNCHANGED ledger

AcquireBroken(r) ==
    /\ ~Pending(r)
    /\ ledger' = Append(ledger, r)
    /\ modes' \in {modes, modes \cup {r}}

(***************************************************************************)
(* One release, by `release_one` or in the walk of `restore`: a broken one *)
(* stays owed, whether or not the terminal obeyed.                         *)
(***************************************************************************)
Released(i) ==
    /\ modes' = modes \ {ledger[i]}
    /\ ledger' = Cleared(i)
    /\ UNCHANGED faults

\* Mutant: the slot is cleared before the result of the release is known.
ReleaseBrokenForgets(i) ==
    /\ modes' \in {modes, modes \ {ledger[i]}}
    /\ ledger' = Cleared(i)

ReleaseBroken(i) ==
    /\ modes' \in {modes, modes \ {ledger[i]}}
    /\ UNCHANGED ledger

----------------------------------------------------------------------------

LeaseTypeOK ==
    /\ modes \subseteq Resource
    /\ ledger \in Seq(Resource)
    /\ faults \in 0..MaxFaults

(* Every mode in force has an obligation: whatever failed half way, a walk *)
(* over the ledger reaches everything that may need undoing.               *)
ObligationsCoverModes == \A r \in modes : Pending(r)
=============================================================================
