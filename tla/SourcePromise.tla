--------------------------- MODULE SourcePromise ---------------------------
(***************************************************************************)
(* What the managed source store promises about each source, with locks,   *)
(* renames, kills and failed operations out of sight.                      *)
(*                                                                         *)
(* What a source resolves to changes in two ways only.  An update replaces *)
(* it, in one step, by a complete new tree; what it replaced is superseded *)
(* until it is cleaned up.  A prune condemns it, and then either spares it *)
(* or withdraws it; a withdrawal uncovers what is left of the superseded   *)
(* tree, if its cleanup never succeeded.                                   *)
(***************************************************************************)
CONSTANTS
    Sources,    \* source names
    Complete,   \* complete trees
    Leftover,   \* what cleanup can leave of a tree, None included
    None        \* nothing installed

VARIABLES
    installed,  \* what each source resolves to
    superseded, \* what is left of the tree it replaced
    condemned   \* sources a prune has isolated and may still put back

vars == <<installed, superseded, condemned>>

Init ==
    /\ installed = [s \in Sources |-> None]
    /\ superseded = [s \in Sources |-> None]
    /\ condemned = {}

\* An update activates a complete tree.
Install(s) ==
    /\ s \notin condemned
    /\ \E t \in Complete : installed' = [installed EXCEPT ![s] = t]
    /\ superseded' = [superseded EXCEPT ![s] = installed[s]]
    /\ UNCHANGED condemned

\* The superseded tree is cleaned up, perhaps incompletely.
CleanUp(s) ==
    /\ s \notin condemned
    /\ \E d \in Leftover : superseded' = [superseded EXCEPT ![s] = d]
    /\ UNCHANGED <<installed, condemned>>

Condemn(s) ==
    /\ installed[s] # None
    /\ condemned' = condemned \cup {s}
    /\ UNCHANGED <<installed, superseded>>

Spare(s) ==
    /\ condemned' = condemned \ {s}
    /\ UNCHANGED <<installed, superseded>>

Withdraw(s) ==
    /\ s \in condemned
    /\ installed' = [installed EXCEPT ![s] = superseded[s]]
    /\ superseded' = [superseded EXCEPT ![s] = None]
    /\ condemned' = condemned \ {s}

Next == \E s \in Sources :
            Install(s) \/ CleanUp(s) \/ Condemn(s) \/ Spare(s) \/ Withdraw(s)

Spec == Init /\ [][Next]_vars

=============================================================================
