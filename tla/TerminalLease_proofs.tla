------------------------ MODULE TerminalLease_proofs ------------------------
(***************************************************************************)
(* What the steps of a restoration ledger preserve, for every session that *)
(* takes them: every mode in force is owed, nothing is owed twice, and a   *)
(* ledger never outgrows its four slots.                                   *)
(***************************************************************************)
EXTENDS TerminalLease, TLAPS

NoDuplicates ==
    \A i, j \in 1..Len(ledger) : ledger[i] = ledger[j] => i = j

LeaseInv ==
    /\ modes \subseteq Resource
    /\ ledger \in Seq(Resource)
    /\ ObligationsCoverModes
    /\ NoDuplicates

(* The ledger of the code has a slot for every mode (terminal_lease.rs:45):*)
(* obligations that are never recorded twice cannot exhaust it.            *)
LEMMA FourSlots ==
    ASSUME NEW s \in Seq(Resource),
           \A i, j \in 1..Len(s) : s[i] = s[j] => i = j
    PROVE  Len(s) \in 0..4
<1>1. Len(s) \in Nat
    OBVIOUS
<1>2. ASSUME Len(s) > 4 PROVE FALSE
    <2>1. \A i \in {1, 2, 3, 4, 5} : i \in 1..Len(s) /\ s[i] \in Resource
        BY <1>1, <1>2
    <2>2. /\ s[1] # s[2] /\ s[1] # s[3] /\ s[1] # s[4] /\ s[1] # s[5]
          /\ s[2] # s[3] /\ s[2] # s[4] /\ s[2] # s[5]
          /\ s[3] # s[4] /\ s[3] # s[5] /\ s[4] # s[5]
        BY <2>1
    <2> QED
        BY <2>1, <2>2 DEF Resource
<1>3. \A n \in Nat : n > 4 \/ n \in 0..4
    OBVIOUS
<1> QED
    BY <1>1, <1>2, <1>3, Zenon

(* An acquisition leaves its mode owed, whatever came of the operation.    *)
LEMMA AcquireOwes ==
    ASSUME LeaseInv, NEW r \in Resource, Acquired(r) \/ AcquireBroken(r)
    PROVE  /\ LeaseInv'
           /\ Len(ledger') = Len(ledger) + 1
           /\ modes \subseteq modes'
<1>1. /\ ledger \in Seq(Resource) /\ modes \subseteq Resource
      /\ ledger' = Append(ledger, r)
      /\ modes' \in {modes, modes \cup {r}}
      /\ ~Pending(r)
    BY DEF LeaseInv, Acquired, AcquireBroken
<1>2. /\ Len(ledger) \in Nat
      /\ ledger' \in Seq(Resource)
      /\ Len(ledger') = Len(ledger) + 1
      /\ \A i \in 1..Len(ledger) : ledger'[i] = ledger[i]
      /\ ledger'[Len(ledger) + 1] = r
    BY <1>1
<1>3. modes' \subseteq Resource /\ modes \subseteq modes'
    BY <1>1
<1>4. ObligationsCoverModes'
    <2>1. ASSUME NEW m \in modes' PROVE \E i \in 1..Len(ledger') : ledger'[i] = m
        <3>1. CASE m = r
            BY <1>2, <3>1
        <3>2. CASE m \in modes
            BY <1>2, <3>2 DEF LeaseInv, ObligationsCoverModes, Pending
        <3> QED
            BY <1>1, <3>1, <3>2
    <2> QED
        BY <2>1 DEF ObligationsCoverModes, Pending
<1>5. NoDuplicates'
    BY <1>1, <1>2 DEF LeaseInv, NoDuplicates, Pending
<1> QED
    BY <1>2, <1>3, <1>4, <1>5 DEF LeaseInv

(* A release settles one obligation; a broken one settles none.            *)
LEMMA ReleaseSettles ==
    ASSUME LeaseInv, NEW i \in 1..Len(ledger), Released(i) \/ ReleaseBroken(i)
    PROVE  /\ LeaseInv'
           /\ Len(ledger') >= Len(ledger) - 1
           /\ \A m \in modes : m # ledger[i] => m \in modes'
<1>1. Len(ledger) \in Nat /\ ledger \in Seq(Resource) /\ modes \subseteq Resource
    BY DEF LeaseInv
<1>2. CASE ReleaseBroken(i)
    <2>1. ledger' = ledger /\ modes' \subseteq modes
        BY <1>2 DEF ReleaseBroken
    <2>2. \A m \in modes : m # ledger[i] => m \in modes'
        BY <1>2 DEF ReleaseBroken
    <2> QED
        BY <1>1, <2>1, <2>2
        DEF LeaseInv, ObligationsCoverModes, Pending, NoDuplicates
<1>3. CASE Released(i)
    <2>1. /\ modes' = modes \ {ledger[i]}
          /\ ledger' = [k \in 1..Len(ledger) - 1 |->
                          IF k < i THEN ledger[k] ELSE ledger[k + 1]]
        BY <1>3 DEF Released, Cleared
    <2>2. \A k \in 1..Len(ledger) - 1 :
              /\ k \in 1..Len(ledger) /\ k + 1 \in 1..Len(ledger)
        BY <1>1
    <2>3. ledger' \in Seq(Resource) /\ Len(ledger') = Len(ledger) - 1
        <3>1. Len(ledger) - 1 \in Nat
            BY <1>1
        <3>2. \A k \in 1..Len(ledger) - 1 :
                  (IF k < i THEN ledger[k] ELSE ledger[k + 1]) \in Resource
            BY <1>1, <2>2
        <3>3. ledger' \in [1..Len(ledger) - 1 -> Resource]
            BY <2>1, <3>2
        <3> QED
            BY <3>1, <3>3
    <2>4. \A k \in 1..Len(ledger') :
              ledger'[k] = IF k < i THEN ledger[k] ELSE ledger[k + 1]
        BY <2>1, <2>3
    <2>5. ObligationsCoverModes'
        <3>1. ASSUME NEW m \in modes'
              PROVE  \E k \in 1..Len(ledger') : ledger'[k] = m
            <4>1. m \in modes /\ m # ledger[i]
                BY <2>1
            <4>2. PICK j \in 1..Len(ledger) : ledger[j] = m
                BY <4>1 DEF LeaseInv, ObligationsCoverModes, Pending
            <4>3. CASE j < i
                BY <1>1, <2>3, <2>4, <4>2, <4>3
            <4>4. CASE j > i
                <5>1. j - 1 \in 1..Len(ledger') /\ ~(j - 1 < i) /\ (j - 1) + 1 = j
                    BY <1>1, <2>3, <4>4
                <5> QED
                    BY <2>4, <4>2, <5>1
            <4> QED
                BY <1>1, <4>1, <4>2, <4>3, <4>4
        <3> QED
            BY <3>1 DEF ObligationsCoverModes, Pending
    <2>6. NoDuplicates'
        <3>1. ASSUME NEW j \in 1..Len(ledger'), NEW k \in 1..Len(ledger'),
                     ledger'[j] = ledger'[k]
              PROVE  j = k
            <4> DEFINE old(x) == IF x < i THEN x ELSE x + 1
            <4>1. old(j) \in 1..Len(ledger) /\ old(k) \in 1..Len(ledger)
                BY <1>1, <2>3
            <4>2. ledger[old(j)] = ledger[old(k)]
                BY <2>4, <3>1
            <4>3. old(j) = old(k)
                BY <4>1, <4>2 DEF LeaseInv, NoDuplicates
            <4> QED
                BY <1>1, <2>3, <4>3
        <3> QED
            BY <3>1 DEF NoDuplicates
    <2> QED
        BY <1>1, <2>1, <2>3, <2>5, <2>6 DEF LeaseInv
<1> QED
    BY <1>2, <1>3
=============================================================================
