----------------------- MODULE PagerLifecycle_proofs -----------------------
(***************************************************************************)
(* What holds of the pager for every number of failures and panics: each   *)
(* mode in force is owed, a write stays on the alternate screen, what was  *)
(* given back is never taken again, and the terminal is given back.        *)
(*                                                                         *)
(* The first three rest on one inductive invariant.  Two of its parts say  *)
(* how the code shares the terminal: whoever writes or turns the cursor    *)
(* holds standard output and the alternate screen is in force (Held), and  *)
(* a thread that gives back has raised the stop flag first (Stopped).      *)
(* Between them: while nobody has stopped the session, a reactor that runs *)
(* has its screen (Alive), so the check a writer makes under the lock is   *)
(* still true when it writes.  The last one counts: what is still owed has *)
(* cost a failed operation in each walk over the ledger so far (Count).    *)
(***************************************************************************)
EXTENDS PagerLifecycle, TerminalLease_proofs, FiniteSetTheorems

Inked == "AlternateScreen" \in modes

Held ==
    /\ pc["main"] = "setup" =>
          /\ stdout = "main"
          /\ slot["main"] \in 1..4
          /\ slot["main"] > 1 => Inked
    /\ pc["main"] = "undo" => stdout = "main"
    /\ pc["reactor"] \in {"writing", "turning"} => stdout = "reactor" /\ Inked
    /\ pc["main"] \in {"begin", "setup"} => pc["reactor"] = "unborn"

Owner ==
    \A t \in Thread :
        stdout = t => pc[t] \in Walks \cup {"setup", "writing", "turning"}

Slots ==
    \A t \in Thread : pc[t] \in Walks /\ stdout = t => slot[t] <= Len(ledger)

Stopped ==
    /\ \A t \in Thread : pc[t] \in Walks \ {"drop"} => exited
    /\ pc["main"] \in {"scope", "wait", "drop"} =>
          exited \/ pc["reactor"] = "unborn"

Alive == pc["reactor"] # "unborn" /\ ~exited => Inked

Taken ==
    /\ terminating => pc["monitor"] = "restore" \/ panicked # {}
    /\ pc["main"] = "drop" => Finished("monitor")
    /\ TakenSignalEndsProcess

IInv ==
    /\ TypeOK
    /\ LeaseInv
    /\ Held
    /\ Owner
    /\ Slots
    /\ Stopped
    /\ Alive
    /\ Taken

(* What a step of the session may do to the ledger. *)
LeaseStep ==
    \/ UNCHANGED <<modes, ledger>>
    \/ \E r \in Resource : Acquired(r) \/ AcquireBroken(r)
    \/ \E i \in 1..Len(ledger) : Released(i) \/ ReleaseBroken(i)

----------------------------------------------------------------------------

LEMMA FourResources == Cardinality(Resource) = 4
<1>1. IsFiniteSet({}) /\ Cardinality({}) = 0
    BY FS_EmptySet
<1>2. LET s == {"AlternateScreen"} IN IsFiniteSet(s) /\ Cardinality(s) = 1
    BY FS_Singleton
<1>3. LET s == {"AlternateScreen", "RawMode"}
      IN  IsFiniteSet(s) /\ Cardinality(s) = 2
    <2>1. {"AlternateScreen", "RawMode"} = {"AlternateScreen"} \cup {"RawMode"}
        OBVIOUS
    <2> QED
        BY <1>2, <2>1, FS_AddElement
<1>4. LET s == {"AlternateScreen", "RawMode", "MouseCapture"}
      IN  IsFiniteSet(s) /\ Cardinality(s) = 3
    <2>1. {"AlternateScreen", "RawMode", "MouseCapture"}
              = {"AlternateScreen", "RawMode"} \cup {"MouseCapture"}
        OBVIOUS
    <2> QED
        BY <1>3, <2>1, FS_AddElement
<1>5. Resource
        = {"AlternateScreen", "RawMode", "MouseCapture"} \cup {"HiddenCursor"}
    BY DEF Resource
<1> QED
    BY <1>4, <1>5, FS_AddElement

LEMMA SetupTakesModes ==
    /\ Len(SetupOrder) = 4
    /\ SetupOrder[1] = "AlternateScreen"
    /\ \A i \in 1..4 : SetupOrder[i] \in Resource
BY DEF SetupOrder, Resource

LEMMA InitIInv == Init => IInv
<1> SUFFICES ASSUME Init PROVE IInv
    OBVIOUS
<1>1. LeaseInv /\ LeaseTypeOK
    BY FaultsAssumption
    DEF Init, LeaseInit, LeaseInv, LeaseTypeOK, ObligationsCoverModes,
        NoDuplicates, Pending
<1>2. slot \in [Thread -> 0..Cardinality(Resource)]
    BY FourResources DEF Init
<1>3. /\ pc \in [Thread -> {"begin", "watch", "unborn"}]
      /\ pc["main"] = "begin" /\ pc["monitor"] = "watch"
      /\ pc["reactor"] = "unborn" /\ pc["reader"] = "unborn"
    BY DEF Init, Thread
<1>4. TypeOK
    BY <1>1, <1>2, <1>3
    DEF Init, TypeOK, PlacesOK, MainAt, ReactorAt, ReaderAt, MonitorAt, Tasks
<1> QED
    BY <1>1, <1>3, <1>4, PagerAssumption DEF Init, IInv, Held, Owner, Slots, Stopped, Alive, Taken, TakenSignalEndsProcess, Walks, Thread

----------------------------------------------------------------------------
(* Every step is one step of the ledger, by a thread that may take it.     *)

LEMMA StepsAreLeaseSteps ==
    ASSUME IInv, Next
    PROVE  LeaseStep /\ faults' \in 0..MaxFaults
<1>1. /\ Len(ledger) \in Nat /\ faults \in 0..MaxFaults /\ MaxFaults \in Nat
      /\ slot \in [Thread -> 0..Cardinality(Resource)]
    BY FaultsAssumption DEF IInv, TypeOK, LeaseTypeOK
<1>2. ASSUME Fault \/ faults' = faults PROVE faults' \in 0..MaxFaults
    BY <1>1, <1>2 DEF Fault
<1>3. \A t \in Thread : Walking(t) /\ slot[t] > 0 => slot[t] \in 1..Len(ledger)
    BY <1>1, FourResources DEF IInv, Slots, Walking
<1>4. pc["main"] = "setup" => SetupOrder[slot["main"]] \in Resource
    BY SetupTakesModes DEF IInv, Held
<1>5. ASSUME NEW t \in Thread, Walk(t) PROVE LeaseStep /\ faults' \in 0..MaxFaults
    <2>1. CASE BeginWalk(t)
        BY <1>2, <2>1 DEF BeginWalk, LeaseStep, lease
    <2>2. CASE ReleaseNext(t)
        <3>1. slot[t] \in 1..Len(ledger)
            BY <1>3, <2>2 DEF ReleaseNext
        <3>2. Released(slot[t]) \/ ReleaseBroken(slot[t])
            BY <2>2 DEF ReleaseNext
        <3>3. Fault \/ faults' = faults
            BY <2>2 DEF ReleaseNext, Released
        <3> QED
            BY <1>2, <3>1, <3>2, <3>3 DEF LeaseStep
    <2>3. CASE EndWalk(t)
        BY <1>2, <2>3 DEF EndWalk, LeaseStep, lease
    <2> QED
        BY <1>5, <2>1, <2>2, <2>3 DEF Walk
<1>6. CASE MainStep
    <2>1. CASE SetupNext
        BY <1>2, <1>4, <2>1 DEF SetupNext, At, LeaseStep, Acquired
    <2>2. CASE SetupFails
        BY <1>2, <1>4, <2>2 DEF SetupFails, At, LeaseStep
    <2>3. CASE WriteDirectly \/ BeginSetup \/ Join \/ Unwind \/ JoinMonitor \/ Return
        BY <1>2, <2>3
        DEF WriteDirectly, BeginSetup, Join, Unwind, JoinMonitor, Return,
            LeaseStep, lease
    <2> QED
        BY <1>5, <1>6, <2>1, <2>2, <2>3 DEF MainStep, Thread
<1>7. CASE ReactorStep
    <2>1. CASE TurnCursor
        <3>1. faults' = faults
            BY <2>1 DEF TurnCursor, Released, Acquired, lease
        <3>2. \/ UNCHANGED <<modes, ledger>>
              \/ Acquired("HiddenCursor")
              \/ \E i \in 1..Len(ledger) : Released(i)
            BY <2>1 DEF TurnCursor, lease
        <3>3. LeaseStep
            BY <3>2 DEF LeaseStep, Resource
        <3> QED
            BY <1>2, <3>1, <3>3
    <2>2. CASE CursorFails
        <3>1. \/ AcquireBroken("HiddenCursor")
              \/ \E i \in 1..Len(ledger) : ReleaseBroken(i)
            BY <2>2 DEF CursorFails
        <3>2. LeaseStep
            BY <3>1 DEF LeaseStep, Resource
        <3> QED
            BY <1>2, <2>2, <3>2 DEF CursorFails
    <2>3. CASE \/ BeginFirstFrame \/ BeginWrite \/ Write \/ WriteFails \/ Listen
               \/ ListenTimesOut \/ PauseInput \/ BeginCursor \/ TypingStops
        BY <1>2, <2>3
        DEF BeginFirstFrame, BeginWrite, Write, WriteFails, Listen,
            ListenTimesOut, PauseInput, BeginCursor, TypingStops, LeaseStep,
            lease
    <2> QED
        BY <1>5, <1>7, <2>1, <2>2, <2>3 DEF ReactorStep, Thread
<1>8. CASE ReaderStep
    <2>1. CASE ReaderStops \/ ReaderPolls \/ ReaderPolled \/ ReaderFails
               \/ ReaderClassifies
        BY <1>2, <2>1
        DEF ReaderStops, ReaderPolls, ReaderPolled, ReaderFails,
            ReaderClassifies, LeaseStep, lease
    <2> QED
        BY <1>5, <1>8, <2>1 DEF ReaderStep, Thread
<1>9. CASE MonitorStep
    <2>1. CASE TakeSignal \/ MonitorLeaves \/ Terminate
        BY <1>2, <2>1 DEF TakeSignal, MonitorLeaves, Terminate, LeaseStep, lease
    <2> QED
        BY <1>5, <1>9, <2>1 DEF MonitorStep, Thread
<1>10. CASE Environment
    <2>1. CASE Redraw \/ Quit \/ Search \/ Type \/ Deliver
        BY <1>2, <2>1 DEF Redraw, Quit, Search, Type, Deliver, LeaseStep, lease
    <2>2. CASE PanicWriting
        BY <1>2, <2>2 DEF PanicWriting, PanicStarts, LeaseStep
    <2>3. ASSUME NEW t \in Thread, Panic(t)
          PROVE  LeaseStep /\ faults' \in 0..MaxFaults
        BY <1>2, <2>3 DEF Panic, PanicStarts, LeaseStep
    <2>4. ASSUME NEW t \in Thread, PanicHolding(t)
          PROVE  LeaseStep /\ faults' \in 0..MaxFaults
        <3>1. \/ pc["main"] = "setup" /\ AcquireBroken(SetupOrder[slot["main"]])
              \/ Walking(t) /\ slot[t] > 0 /\ ReleaseBroken(slot[t])
              \/ AcquireBroken("HiddenCursor")
              \/ \E i \in 1..Len(ledger) : ReleaseBroken(i)
            BY <2>4 DEF PanicHolding
        <3>2. LeaseStep
            BY <1>3, <1>4, <3>1 DEF LeaseStep, Resource
        <3> QED
            BY <1>2, <2>4, <3>2 DEF PanicHolding, PanicStarts
    <2> QED
        BY <1>10, <2>1, <2>2, <2>3, <2>4 DEF Environment
<1>11. CASE Over
    BY <1>2, <1>11 DEF Over, vars, lease, LeaseStep
<1> QED
    BY <1>6, <1>7, <1>8, <1>9, <1>10, <1>11 DEF Next

LEMMA LeaseStepKeeps ==
    ASSUME LeaseInv, LeaseStep \/ UNCHANGED vars
    PROVE  /\ LeaseInv'
           /\ Len(ledger') \in 0..4
<1>1. LeaseInv'
    <2>1. CASE UNCHANGED <<modes, ledger>>
        BY <2>1
        DEF LeaseInv, ObligationsCoverModes, Pending, NoDuplicates
    <2>2. CASE LeaseStep /\ ~UNCHANGED <<modes, ledger>>
        BY <2>2, AcquireOwes, ReleaseSettles DEF LeaseStep
    <2> QED
        BY <2>1, <2>2 DEF vars, lease
<1>2. Len(ledger') \in 0..4
    BY <1>1, FourSlots DEF LeaseInv, NoDuplicates
<1> QED
    BY <1>1, <1>2

----------------------------------------------------------------------------
(* What each thread's steps preserve. *)

(* Main: a mode is taken with standard output held, and the first one is   *)
(* the alternate screen; the workers start with all four.                  *)
LEMMA MainKeeps ==
    ASSUME IInv, LeaseInv', faults' \in 0..MaxFaults,
           WriteDirectly \/ Unwind \/ JoinMonitor \/ Return \/ BeginSetup
           \/ SetupNext \/ SetupFails \/ Join
    PROVE  IInv'
<1> USE DEF At, Goto, Running, lease, signals, Thread, Ended
<1>1. CASE WriteDirectly \/ Unwind
    <2>1. PlacesOK'
        BY <1>1 DEF WriteDirectly, Unwind, IInv, TypeOK, PlacesOK, MainAt
    <2>2. TypeOK'
        <3>1. CASE WriteDirectly
            BY <2>1, <3>1 DEF WriteDirectly, IInv, TypeOK, LeaseTypeOK
        <3>2. CASE Unwind
            BY <2>1, <3>2 DEF Unwind, IInv, TypeOK, LeaseTypeOK
        <3> QED
            BY <1>1, <3>1, <3>2
    <2>3. Held'
        BY <1>1 DEF WriteDirectly, Unwind, IInv, Held, Inked, TypeOK, PlacesOK
    <2>4. ASSUME NEW u \in Thread, pc'[u] \in Walks, stdout' = u
          PROVE  slot'[u] <= Len(ledger')
        BY <1>1, <2>4
        DEF WriteDirectly, Unwind, IInv, TypeOK, PlacesOK, Owner, Slots
    <2>5. ASSUME NEW u \in Thread, stdout' = u
          PROVE  pc'[u] \in Walks \cup {"setup", "writing", "turning"}
        BY <1>1, <2>5
        DEF WriteDirectly, Unwind, IInv, TypeOK, PlacesOK, Walks, Owner
    <2>6. Stopped' /\ Alive'
        BY <1>1
        DEF WriteDirectly, Unwind, IInv, Held, Stopped, Alive, TypeOK,
            PlacesOK, Walks
    <2>7. Taken'
        BY <1>1
        DEF WriteDirectly, Unwind, IInv, Taken, TakenSignalEndsProcess,
            TypeOK, PlacesOK
    <2> QED
        BY <2>2, <2>3, <2>4, <2>5, <2>6, <2>7 DEF IInv, Slots, Owner
<1>2. CASE JoinMonitor
    <2>1. PlacesOK'
        BY <1>2 DEF JoinMonitor, IInv, TypeOK, PlacesOK, MainAt
    <2>2. TypeOK'
        BY <1>2, <2>1 DEF JoinMonitor, IInv, TypeOK, LeaseTypeOK
    <2>3. Held'
        BY <1>2 DEF JoinMonitor, IInv, Held, Inked, PlacesOK
    <2>4. ASSUME NEW u \in Thread, pc'[u] \in Walks, stdout' = u
          PROVE  slot'[u] <= Len(ledger')
        BY <1>2, <2>4 DEF JoinMonitor, IInv, PlacesOK, Owner, Slots
    <2>5. ASSUME NEW u \in Thread, stdout' = u
          PROVE  pc'[u] \in Walks \cup {"setup", "writing", "turning"}
        BY <1>2, <2>5 DEF JoinMonitor, IInv, PlacesOK, Walks, Owner
    <2>6. Stopped' /\ Alive'
        BY <1>2 DEF JoinMonitor, IInv, Stopped, Alive, PlacesOK
    <2>7. Taken'
        BY <1>2
        DEF JoinMonitor, Finished, IInv, Taken, TakenSignalEndsProcess,
            PlacesOK
    <2> QED
        BY <2>2, <2>3, <2>4, <2>5, <2>6, <2>7 DEF IInv, Slots, Owner
<1>3. CASE Return
    <2>1. PlacesOK'
        BY <1>3 DEF Return, Walking, IInv, TypeOK, PlacesOK
    <2>2. TypeOK'
        BY <1>3, <2>1 DEF Return, Walking, IInv, TypeOK, LeaseTypeOK
    <2>3. Held'
        BY <1>3 DEF Return, Walking, IInv, Held, PlacesOK
    <2>4. ASSUME NEW u \in Thread, pc'[u] \in Walks, stdout' = u
          PROVE  slot'[u] <= Len(ledger')
        BY <1>3, <2>4, PagerAssumption DEF Return, Walking, IInv, PlacesOK
    <2>5. ASSUME NEW u \in Thread, stdout' = u
          PROVE  pc'[u] \in Walks \cup {"setup", "writing", "turning"}
        BY <1>3, <2>5, PagerAssumption DEF Return, Walking, IInv, PlacesOK
    <2>6. Stopped' /\ Alive'
        BY <1>3 DEF Return, Walking, IInv, Stopped, Alive, PlacesOK
    <2>7. Taken'
        BY <1>3
        DEF Return, Walking, IInv, Taken, TakenSignalEndsProcess, Finished,
            PlacesOK
    <2> QED
        BY <2>2, <2>3, <2>4, <2>5, <2>6, <2>7 DEF IInv, Slots, Owner
<1>4. CASE BeginSetup /\ exited
    <2>1. PlacesOK'
        BY <1>4 DEF BeginSetup, IInv, TypeOK, PlacesOK, MainAt
    <2>2. TypeOK'
        BY <1>4, <2>1 DEF BeginSetup, IInv, TypeOK, LeaseTypeOK
    <2>3. Held'
        BY <1>4 DEF BeginSetup, IInv, Held, TypeOK, PlacesOK
    <2>4. ASSUME NEW u \in Thread, pc'[u] \in Walks, stdout' = u
          PROVE  slot'[u] <= Len(ledger')
        BY <1>4, <2>4, PagerAssumption DEF BeginSetup, IInv, PlacesOK
    <2>5. ASSUME NEW u \in Thread, stdout' = u
          PROVE  pc'[u] \in Walks \cup {"setup", "writing", "turning"}
        BY <1>4, <2>5, PagerAssumption DEF BeginSetup, IInv, PlacesOK
    <2>6. Stopped' /\ Alive'
        BY <1>4 DEF BeginSetup, IInv, Stopped, Alive, PlacesOK
    <2>7. Taken'
        BY <1>4
        DEF BeginSetup, IInv, Taken, TakenSignalEndsProcess, TypeOK, PlacesOK
    <2> QED
        BY <2>2, <2>3, <2>4, <2>5, <2>6, <2>7 DEF IInv, Slots, Owner
<1>5. CASE BeginSetup /\ ~exited
    <2>1. PlacesOK'
        BY <1>5 DEF BeginSetup, IInv, TypeOK, PlacesOK, MainAt
    <2>2. TypeOK'
        BY <1>5, <2>1, FourResources DEF BeginSetup, IInv, TypeOK, LeaseTypeOK
    <2>3. Held'
        BY <1>5 DEF BeginSetup, IInv, Held, TypeOK, PlacesOK
    <2>4. ASSUME NEW u \in Thread, pc'[u] \in Walks, stdout' = u
          PROVE  slot'[u] <= Len(ledger')
        BY <1>5, <2>4 DEF BeginSetup, IInv, TypeOK, PlacesOK, Walks
    <2>5. ASSUME NEW u \in Thread, stdout' = u
          PROVE  pc'[u] \in Walks \cup {"setup", "writing", "turning"}
        BY <1>5, <2>5 DEF BeginSetup, IInv, TypeOK, PlacesOK
    <2>6. Stopped' /\ Alive'
        BY <1>5
        DEF BeginSetup, IInv, Stopped, Alive, Inked, TypeOK, PlacesOK, Walks
    <2>7. Taken'
        BY <1>5
        DEF BeginSetup, IInv, Taken, TakenSignalEndsProcess, TypeOK, PlacesOK
    <2> QED
        BY <2>2, <2>3, <2>4, <2>5, <2>6, <2>7 DEF IInv, Slots, Owner
<1>6. CASE SetupNext /\ slot["main"] < 4
    <2>1. /\ stdout = "main" /\ pc["main"] = "setup" /\ slot["main"] \in 1..3
          /\ slot' = [slot EXCEPT !["main"] = @ + 1]
          /\ UNCHANGED <<exited, stdout, pc, task, active, signals, panicked,
                         process>>
          /\ Inked'
        BY <1>6, SetupTakesModes DEF SetupNext, IInv, Held, Inked, Acquired
    <2>2. PlacesOK'
        BY <2>1 DEF IInv, TypeOK, PlacesOK
    <2>3. TypeOK'
        BY <2>1, <2>2, FourResources DEF IInv, LeaseInv, TypeOK, LeaseTypeOK
    <2>4. Held'
        BY <2>1 DEF IInv, Held, PlacesOK
    <2>5. ASSUME NEW u \in Thread, pc'[u] \in Walks, stdout' = u
          PROVE  slot'[u] <= Len(ledger')
        BY <2>1, <2>5 DEF IInv, PlacesOK, Walks
    <2>6. ASSUME NEW u \in Thread, stdout' = u
          PROVE  pc'[u] \in Walks \cup {"setup", "writing", "turning"}
        BY <2>1, <2>6 DEF IInv, PlacesOK
    <2>7. Stopped' /\ Alive'
        BY <2>1 DEF IInv, Stopped, Alive, PlacesOK
    <2>8. Taken'
        BY <2>1 DEF IInv, Taken, TakenSignalEndsProcess, PlacesOK
    <2> QED
        BY <2>3, <2>4, <2>5, <2>6, <2>7, <2>8 DEF IInv, Slots, Owner
<1>7. CASE SetupNext /\ slot["main"] = 4
    <2>1. /\ stdout = "main" /\ pc["main"] = "setup"
          /\ slot' = [slot EXCEPT !["main"] = 0]
          /\ stdout' = None
          /\ pc' = [pc EXCEPT !["main"] = "join", !["reactor"] = "start",
                              !["reader"] = "idle"]
          /\ UNCHANGED <<exited, task, active, signals, panicked, process>>
          /\ Inked'
        BY <1>7, SetupTakesModes DEF SetupNext, IInv, Held, Inked, Acquired
    <2>2. PlacesOK'
        BY <2>1 DEF IInv, TypeOK, PlacesOK, MainAt, ReactorAt, ReaderAt
    <2>3. TypeOK'
        BY <2>1, <2>2, FourResources DEF IInv, LeaseInv, TypeOK, LeaseTypeOK
    <2>4. Held'
        BY <2>1 DEF IInv, Held, TypeOK, PlacesOK
    <2>5. ASSUME NEW u \in Thread, pc'[u] \in Walks, stdout' = u
          PROVE  slot'[u] <= Len(ledger')
        BY <2>1, <2>5, PagerAssumption DEF IInv, PlacesOK
    <2>6. ASSUME NEW u \in Thread, stdout' = u
          PROVE  pc'[u] \in Walks \cup {"setup", "writing", "turning"}
        BY <2>1, <2>6, PagerAssumption DEF IInv, PlacesOK
    <2>7. Stopped' /\ Alive'
        BY <2>1 DEF IInv, Stopped, Alive, TypeOK, PlacesOK, Walks
    <2>8. Taken'
        BY <2>1 DEF IInv, Taken, TakenSignalEndsProcess, TypeOK, PlacesOK
    <2> QED
        BY <2>3, <2>4, <2>5, <2>6, <2>7, <2>8 DEF IInv, Slots, Owner
<1>8. CASE SetupFails
    <2>1. Len(ledger') \in 0..4
        BY FourSlots DEF LeaseInv, NoDuplicates
    <2>2. PlacesOK'
        BY <2>1, <1>8 DEF SetupFails, Fault, IInv, TypeOK, PlacesOK, MainAt
    <2>3. TypeOK'
        BY <2>1, <1>8, <2>2, FourResources
        DEF SetupFails, Fault, IInv, LeaseInv, TypeOK, LeaseTypeOK
    <2>4. Held'
        BY <2>1, <1>8 DEF SetupFails, Fault, IInv, Held, TypeOK, PlacesOK
    <2>5. ASSUME NEW u \in Thread, pc'[u] \in Walks, stdout' = u
          PROVE  slot'[u] <= Len(ledger')
        BY <2>1, <1>8, <2>5 DEF SetupFails, Fault, IInv, Held, TypeOK, PlacesOK
    <2>6. ASSUME NEW u \in Thread, stdout' = u
          PROVE  pc'[u] \in Walks \cup {"setup", "writing", "turning"}
        BY <2>1, <1>8, <2>6 DEF SetupFails, Fault, IInv, PlacesOK, Walks, Owner
    <2>7. Stopped' /\ Alive'
        BY <2>1, <1>8 DEF SetupFails, Fault, IInv, Stopped, Alive, PlacesOK
    <2>8. Taken'
        BY <2>1, <1>8
        DEF SetupFails, Fault, IInv, Taken, TakenSignalEndsProcess, PlacesOK
    <2> QED
        BY <2>3, <2>4, <2>5, <2>6, <2>7, <2>8 DEF IInv, Slots, Owner
<1>9. CASE Join /\ pc'["main"] = "hook"
    <2>1. PlacesOK'
        BY <1>9 DEF Join, IInv, TypeOK, PlacesOK, MainAt
    <2>2. TypeOK'
        BY <1>9, <2>1
        DEF Join, Finished, IInv, LeaseInv, Held, Slots, TypeOK, LeaseTypeOK
    <2>3. Held'
        BY <1>9 DEF Join, IInv, Held, Inked, TypeOK, PlacesOK
    <2>4. ASSUME NEW u \in Thread, pc'[u] \in Walks, stdout' = u
          PROVE  slot'[u] <= Len(ledger')
        BY <1>9, <2>4 DEF Join, IInv, TypeOK, PlacesOK, Owner, Slots
    <2>5. ASSUME NEW u \in Thread, stdout' = u
          PROVE  pc'[u] \in Walks \cup {"setup", "writing", "turning"}
        BY <1>9, <2>5 DEF Join, IInv, TypeOK, PlacesOK, Walks, Owner
    <2>6. Stopped' /\ Alive'
        BY <1>9 DEF Join, IInv, Stopped, Alive, PlacesOK
    <2>7. Taken'
        BY <1>9 DEF Join, IInv, Taken, TakenSignalEndsProcess, TypeOK, PlacesOK
    <2> QED
        BY <2>2, <2>3, <2>4, <2>5, <2>6, <2>7 DEF IInv, Slots, Owner
<1>10. CASE Join /\ pc'["main"] # "hook"
    <2>1. PlacesOK'
        BY <1>10 DEF Join, IInv, TypeOK, PlacesOK, MainAt
    <2>2. TypeOK'
        BY <1>10, <2>1
        DEF Join, Finished, Workers, IInv, LeaseInv, Held, Slots, TypeOK,
            LeaseTypeOK
    <2>3. Held'
        BY <1>10 DEF Join, IInv, Held, Inked, TypeOK, PlacesOK
    <2>4. ASSUME NEW u \in Thread, pc'[u] \in Walks, stdout' = u
          PROVE  slot'[u] <= Len(ledger')
        BY <1>10, <2>4 DEF Join, IInv, TypeOK, PlacesOK, Owner, Slots
    <2>5. ASSUME NEW u \in Thread, stdout' = u
          PROVE  pc'[u] \in Walks \cup {"setup", "writing", "turning"}
        BY <1>10, <2>5 DEF Join, IInv, TypeOK, PlacesOK, Walks, Owner
    <2>6. Stopped' /\ Alive'
        BY <1>10 DEF Join, IInv, Stopped, Alive, PlacesOK
    <2>7. Taken'
        BY <1>10
        DEF Join, IInv, Taken, TakenSignalEndsProcess, TypeOK, PlacesOK
    <2> QED
        BY <2>2, <2>3, <2>4, <2>5, <2>6, <2>7 DEF IInv, Slots, Owner
<1>11. SetupNext => slot["main"] < 4 \/ slot["main"] = 4
    BY DEF SetupNext, IInv, Held
<1> QED
    BY <1>1, <1>2, <1>3, <1>4, <1>5, <1>6, <1>7, <1>8, <1>9, <1>10, <1>11

(* The reactor: whoever passed the check of the stop flag holds standard   *)
(* output, and nobody has begun to give the screen back (Alive).           *)
LEMMA ReactorKeeps ==
    ASSUME IInv, LeaseInv', faults' \in 0..MaxFaults,
           BeginFirstFrame \/ ListenTimesOut \/ TypingStops \/ Listen
           \/ BeginWrite \/ Write \/ WriteFails \/ PauseInput \/ BeginCursor
           \/ TurnCursor \/ CursorFails
    PROVE  IInv'
<1> USE DEF At, Goto, Running, lease, signals, Thread, Ended
<1>1. CASE BeginFirstFrame \/ ListenTimesOut \/ TypingStops
    <2>1. PlacesOK'
        BY <1>1
        DEF BeginFirstFrame, ListenTimesOut, TypingStops, ReactorFails, IInv,
            TypeOK, PlacesOK, ReactorAt
    <2>2. TypeOK'
        <3>1. CASE BeginFirstFrame
            BY <2>1, <3>1 DEF BeginFirstFrame, IInv, TypeOK, LeaseTypeOK
        <3>2. CASE ListenTimesOut
            BY <2>1, <3>2 DEF ListenTimesOut, IInv, TypeOK, LeaseTypeOK
        <3>3. CASE TypingStops
            BY <2>1, <3>3
            DEF TypingStops, ReactorFails, IInv, TypeOK, LeaseTypeOK
        <3> QED
            BY <1>1, <3>1, <3>2, <3>3
    <2>3. Held'
        BY <1>1
        DEF BeginFirstFrame, ListenTimesOut, TypingStops, ReactorFails, IInv,
            Held, TypeOK, PlacesOK
    <2>4. ASSUME NEW u \in Thread, pc'[u] \in Walks, stdout' = u
          PROVE  slot'[u] <= Len(ledger')
        BY <1>1, <2>4
        DEF BeginFirstFrame, ListenTimesOut, TypingStops, ReactorFails, IInv,
            TypeOK, PlacesOK, Owner, Slots
    <2>5. ASSUME NEW u \in Thread, stdout' = u
          PROVE  pc'[u] \in Walks \cup {"setup", "writing", "turning"}
        BY <1>1, <2>5
        DEF BeginFirstFrame, ListenTimesOut, TypingStops, ReactorFails, IInv,
            TypeOK, PlacesOK, Walks, Owner
    <2>6. Stopped' /\ Alive'
        BY <1>1
        DEF BeginFirstFrame, ListenTimesOut, TypingStops, ReactorFails, IInv,
            Stopped, Alive, Inked, TypeOK, PlacesOK, Walks
    <2>7. Taken'
        BY <1>1
        DEF BeginFirstFrame, ListenTimesOut, TypingStops, ReactorFails, IInv,
            Taken, TakenSignalEndsProcess, Finished, TypeOK, PlacesOK
    <2> QED
        BY <2>2, <2>3, <2>4, <2>5, <2>6, <2>7 DEF IInv, Slots, Owner
<1>2. CASE Listen
    <2>1. PlacesOK'
        BY <1>2 DEF Listen, IInv, TypeOK, PlacesOK, ReactorAt
    <2>2. TypeOK'
        BY <1>2, <2>1 DEF Listen, IInv, TypeOK, LeaseTypeOK
    <2>3. Held'
        BY <1>2 DEF Listen, IInv, Held, PlacesOK
    <2>4. ASSUME NEW u \in Thread, pc'[u] \in Walks, stdout' = u
          PROVE  slot'[u] <= Len(ledger')
        BY <1>2, <2>4 DEF Listen, IInv, PlacesOK, Owner, Slots
    <2>5. ASSUME NEW u \in Thread, stdout' = u
          PROVE  pc'[u] \in Walks \cup {"setup", "writing", "turning"}
        BY <1>2, <2>5 DEF Listen, IInv, PlacesOK, Walks, Owner
    <2>6. Stopped' /\ Alive'
        BY <1>2 DEF Listen, IInv, Stopped, Alive, Inked, PlacesOK, Walks
    <2>7. Taken'
        BY <1>2
        DEF Listen, IInv, Taken, TakenSignalEndsProcess, Finished, PlacesOK
    <2> QED
        BY <2>2, <2>3, <2>4, <2>5, <2>6, <2>7 DEF IInv, Slots, Owner
<1>3. CASE BeginWrite /\ exited
    <2>1. PlacesOK'
        BY <1>3 DEF BeginWrite, ReactorFails, IInv, TypeOK, PlacesOK, ReactorAt
    <2>2. TypeOK'
        BY <1>3, <2>1 DEF BeginWrite, ReactorFails, IInv, TypeOK, LeaseTypeOK
    <2>3. Held'
        BY <1>3 DEF BeginWrite, ReactorFails, IInv, Held, TypeOK, PlacesOK
    <2>4. ASSUME NEW u \in Thread, pc'[u] \in Walks, stdout' = u
          PROVE  slot'[u] <= Len(ledger')
        BY <1>3, <2>4, PagerAssumption
        DEF BeginWrite, ReactorFails, IInv, PlacesOK
    <2>5. ASSUME NEW u \in Thread, stdout' = u
          PROVE  pc'[u] \in Walks \cup {"setup", "writing", "turning"}
        BY <1>3, <2>5, PagerAssumption
        DEF BeginWrite, ReactorFails, IInv, PlacesOK
    <2>6. Stopped' /\ Alive'
        BY <1>3 DEF BeginWrite, ReactorFails, IInv, Stopped, Alive, PlacesOK
    <2>7. Taken'
        BY <1>3
        DEF BeginWrite, ReactorFails, IInv, Taken, TakenSignalEndsProcess,
            Finished, TypeOK, PlacesOK
    <2> QED
        BY <2>2, <2>3, <2>4, <2>5, <2>6, <2>7 DEF IInv, Slots, Owner
<1>4. CASE BeginWrite /\ ~exited
    <2>1. PlacesOK'
        BY <1>4 DEF BeginWrite, IInv, TypeOK, PlacesOK, ReactorAt
    <2>2. TypeOK'
        BY <1>4, <2>1 DEF BeginWrite, IInv, TypeOK, LeaseTypeOK
    <2>3. Held'
        BY <1>4, PagerAssumption
        DEF BeginWrite, IInv, Held, Alive, Inked, TypeOK, PlacesOK
    <2>4. ASSUME NEW u \in Thread, pc'[u] \in Walks, stdout' = u
          PROVE  slot'[u] <= Len(ledger')
        BY <1>4, <2>4 DEF BeginWrite, IInv, TypeOK, PlacesOK, Walks
    <2>5. ASSUME NEW u \in Thread, stdout' = u
          PROVE  pc'[u] \in Walks \cup {"setup", "writing", "turning"}
        BY <1>4, <2>5 DEF BeginWrite, IInv, TypeOK, PlacesOK
    <2>6. Stopped' /\ Alive'
        BY <1>4
        DEF BeginWrite, IInv, Stopped, Alive, Inked, TypeOK, PlacesOK, Walks
    <2>7. Taken'
        BY <1>4
        DEF BeginWrite, IInv, Taken, TakenSignalEndsProcess, Finished, TypeOK,
            PlacesOK
    <2> QED
        BY <2>2, <2>3, <2>4, <2>5, <2>6, <2>7 DEF IInv, Slots, Owner
<1>5. CASE Write
    <2>1. AfterWrite \in {"loop", "cursor", "typing"}
        BY DEF AfterWrite, IInv, TypeOK, Tasks
    <2>2. PlacesOK'
        BY <2>1, <1>5 DEF Write, IInv, TypeOK, PlacesOK, ReactorAt
    <2>3. TypeOK'
        BY <2>1, <1>5, <2>2 DEF Write, IInv, TypeOK, LeaseTypeOK
    <2>4. Held'
        BY <2>1, <1>5 DEF Write, IInv, Held, TypeOK, PlacesOK
    <2>5. ASSUME NEW u \in Thread, pc'[u] \in Walks, stdout' = u
          PROVE  slot'[u] <= Len(ledger')
        BY <2>1, <1>5, <2>5, PagerAssumption DEF Write, IInv, PlacesOK
    <2>6. ASSUME NEW u \in Thread, stdout' = u
          PROVE  pc'[u] \in Walks \cup {"setup", "writing", "turning"}
        BY <2>1, <1>5, <2>6, PagerAssumption DEF Write, IInv, PlacesOK
    <2>7. Stopped' /\ Alive'
        BY <2>1, <1>5 DEF Write, IInv, Stopped, Alive, Inked, PlacesOK, Walks
    <2>8. Taken'
        BY <2>1, <1>5
        DEF Write, IInv, Taken, TakenSignalEndsProcess, Finished, PlacesOK
    <2> QED
        BY <2>3, <2>4, <2>5, <2>6, <2>7, <2>8 DEF IInv, Slots, Owner
<1>6. CASE WriteFails
    <2>1. PlacesOK'
        BY <1>6
        DEF WriteFails, ReactorFails, Fault, IInv, TypeOK, PlacesOK, ReactorAt
    <2>2. TypeOK'
        BY <1>6, <2>1
        DEF WriteFails, ReactorFails, Fault, IInv, TypeOK, LeaseTypeOK
    <2>3. Held'
        BY <1>6
        DEF WriteFails, ReactorFails, Fault, IInv, Held, TypeOK, PlacesOK
    <2>4. ASSUME NEW u \in Thread, pc'[u] \in Walks, stdout' = u
          PROVE  slot'[u] <= Len(ledger')
        BY <1>6, <2>4, PagerAssumption
        DEF WriteFails, ReactorFails, Fault, IInv, PlacesOK
    <2>5. ASSUME NEW u \in Thread, stdout' = u
          PROVE  pc'[u] \in Walks \cup {"setup", "writing", "turning"}
        BY <1>6, <2>5, PagerAssumption
        DEF WriteFails, ReactorFails, Fault, IInv, PlacesOK
    <2>6. Stopped' /\ Alive'
        BY <1>6
        DEF WriteFails, ReactorFails, Fault, IInv, Stopped, Alive, PlacesOK
    <2>7. Taken'
        BY <1>6
        DEF WriteFails, ReactorFails, Fault, IInv, Taken,
            TakenSignalEndsProcess, Finished, PlacesOK
    <2> QED
        BY <2>2, <2>3, <2>4, <2>5, <2>6, <2>7 DEF IInv, Slots, Owner
<1>7. CASE PauseInput /\ exited
    <2>1. PlacesOK'
        BY <1>7 DEF PauseInput, ReactorFails, IInv, TypeOK, PlacesOK, ReactorAt
    <2>2. TypeOK'
        BY <1>7, <2>1
        DEF PauseInput, ReactorFails, IInv, TypeOK, LeaseTypeOK, Tasks
    <2>3. Held'
        BY <1>7 DEF PauseInput, ReactorFails, IInv, Held, TypeOK, PlacesOK
    <2>4. ASSUME NEW u \in Thread, pc'[u] \in Walks, stdout' = u
          PROVE  slot'[u] <= Len(ledger')
        BY <1>7, <2>4
        DEF PauseInput, ReactorFails, IInv, TypeOK, PlacesOK, Owner, Slots
    <2>5. ASSUME NEW u \in Thread, stdout' = u
          PROVE  pc'[u] \in Walks \cup {"setup", "writing", "turning"}
        BY <1>7, <2>5
        DEF PauseInput, ReactorFails, IInv, TypeOK, PlacesOK, Walks, Owner
    <2>6. Stopped' /\ Alive'
        BY <1>7 DEF PauseInput, ReactorFails, IInv, Stopped, Alive, PlacesOK
    <2>7. Taken'
        BY <1>7
        DEF PauseInput, ReactorFails, IInv, Taken, TakenSignalEndsProcess,
            Finished, TypeOK, PlacesOK
    <2> QED
        BY <2>2, <2>3, <2>4, <2>5, <2>6, <2>7 DEF IInv, Slots, Owner
<1>8. CASE PauseInput /\ ~exited
    <2>1. PlacesOK'
        BY <1>8 DEF PauseInput, IInv, TypeOK, PlacesOK, ReactorAt
    <2>2. TypeOK'
        BY <1>8, <2>1 DEF PauseInput, IInv, TypeOK, LeaseTypeOK, Tasks
    <2>3. Held'
        BY <1>8 DEF PauseInput, IInv, Held, TypeOK, PlacesOK
    <2>4. ASSUME NEW u \in Thread, pc'[u] \in Walks, stdout' = u
          PROVE  slot'[u] <= Len(ledger')
        BY <1>8, <2>4 DEF PauseInput, IInv, TypeOK, PlacesOK, Owner, Slots
    <2>5. ASSUME NEW u \in Thread, stdout' = u
          PROVE  pc'[u] \in Walks \cup {"setup", "writing", "turning"}
        BY <1>8, <2>5 DEF PauseInput, IInv, TypeOK, PlacesOK, Walks, Owner
    <2>6. Stopped' /\ Alive'
        BY <1>8
        DEF PauseInput, IInv, Stopped, Alive, Inked, TypeOK, PlacesOK, Walks
    <2>7. Taken'
        BY <1>8
        DEF PauseInput, IInv, Taken, TakenSignalEndsProcess, Finished, TypeOK,
            PlacesOK
    <2> QED
        BY <2>2, <2>3, <2>4, <2>5, <2>6, <2>7 DEF IInv, Slots, Owner
<1>9. CASE BeginCursor /\ exited
    <2>1. PlacesOK'
        BY <1>9
        DEF BeginCursor, ReactorFails, IInv, TypeOK, PlacesOK, ReactorAt
    <2>2. TypeOK'
        BY <1>9, <2>1 DEF BeginCursor, ReactorFails, IInv, TypeOK, LeaseTypeOK
    <2>3. Held'
        BY <1>9 DEF BeginCursor, ReactorFails, IInv, Held, TypeOK, PlacesOK
    <2>4. ASSUME NEW u \in Thread, pc'[u] \in Walks, stdout' = u
          PROVE  slot'[u] <= Len(ledger')
        BY <1>9, <2>4, PagerAssumption
        DEF BeginCursor, ReactorFails, IInv, PlacesOK
    <2>5. ASSUME NEW u \in Thread, stdout' = u
          PROVE  pc'[u] \in Walks \cup {"setup", "writing", "turning"}
        BY <1>9, <2>5, PagerAssumption
        DEF BeginCursor, ReactorFails, IInv, PlacesOK
    <2>6. Stopped' /\ Alive'
        BY <1>9 DEF BeginCursor, ReactorFails, IInv, Stopped, Alive, PlacesOK
    <2>7. Taken'
        BY <1>9
        DEF BeginCursor, ReactorFails, IInv, Taken, TakenSignalEndsProcess,
            Finished, TypeOK, PlacesOK
    <2> QED
        BY <2>2, <2>3, <2>4, <2>5, <2>6, <2>7 DEF IInv, Slots, Owner
<1>10. CASE BeginCursor /\ ~exited
    <2>1. PlacesOK'
        BY <1>10 DEF BeginCursor, IInv, TypeOK, PlacesOK, ReactorAt
    <2>2. TypeOK'
        BY <1>10, <2>1 DEF BeginCursor, IInv, TypeOK, LeaseTypeOK
    <2>3. Held'
        BY <1>10, PagerAssumption
        DEF BeginCursor, IInv, Held, Alive, Inked, TypeOK, PlacesOK
    <2>4. ASSUME NEW u \in Thread, pc'[u] \in Walks, stdout' = u
          PROVE  slot'[u] <= Len(ledger')
        BY <1>10, <2>4 DEF BeginCursor, IInv, TypeOK, PlacesOK, Walks
    <2>5. ASSUME NEW u \in Thread, stdout' = u
          PROVE  pc'[u] \in Walks \cup {"setup", "writing", "turning"}
        BY <1>10, <2>5 DEF BeginCursor, IInv, TypeOK, PlacesOK
    <2>6. Stopped' /\ Alive'
        BY <1>10
        DEF BeginCursor, IInv, Stopped, Alive, Inked, TypeOK, PlacesOK, Walks
    <2>7. Taken'
        BY <1>10
        DEF BeginCursor, IInv, Taken, TakenSignalEndsProcess, Finished,
            TypeOK, PlacesOK
    <2> QED
        BY <2>2, <2>3, <2>4, <2>5, <2>6, <2>7 DEF IInv, Slots, Owner
<1>11. CASE TurnCursor
    <2>1. Inked'
        BY <1>11
        DEF TurnCursor, CursorSlot, IInv, Held, Inked, Acquired, Released
    <2>2. PlacesOK'
        BY <2>1, <1>11 DEF TurnCursor, IInv, TypeOK, PlacesOK, ReactorAt
    <2>3. TypeOK'
        BY <2>1, <1>11, <2>2
        DEF TurnCursor, IInv, LeaseInv, TypeOK, LeaseTypeOK, Tasks
    <2>4. Held'
        BY <2>1, <1>11 DEF TurnCursor, IInv, Held, TypeOK, PlacesOK
    <2>5. ASSUME NEW u \in Thread, pc'[u] \in Walks, stdout' = u
          PROVE  slot'[u] <= Len(ledger')
        BY <2>1, <1>11, <2>5, PagerAssumption DEF TurnCursor, IInv, PlacesOK
    <2>6. ASSUME NEW u \in Thread, stdout' = u
          PROVE  pc'[u] \in Walks \cup {"setup", "writing", "turning"}
        BY <2>1, <1>11, <2>6, PagerAssumption DEF TurnCursor, IInv, PlacesOK
    <2>7. Stopped' /\ Alive'
        BY <2>1, <1>11 DEF TurnCursor, IInv, Stopped, Alive, PlacesOK, Walks
    <2>8. Taken'
        BY <2>1, <1>11
        DEF TurnCursor, IInv, Taken, TakenSignalEndsProcess, Finished,
            PlacesOK
    <2> QED
        BY <2>3, <2>4, <2>5, <2>6, <2>7, <2>8 DEF IInv, Slots, Owner
<1>12. CASE CursorFails
    <2>1. PlacesOK'
        BY <1>12
        DEF CursorFails, Fault, ReactorFails, IInv, TypeOK, PlacesOK,
            ReactorAt
    <2>2. TypeOK'
        BY <1>12, <2>1
        DEF CursorFails, Fault, ReactorFails, IInv, LeaseInv, TypeOK,
            LeaseTypeOK
    <2>3. Held'
        BY <1>12
        DEF CursorFails, Fault, ReactorFails, IInv, Held, TypeOK, PlacesOK
    <2>4. ASSUME NEW u \in Thread, pc'[u] \in Walks, stdout' = u
          PROVE  slot'[u] <= Len(ledger')
        BY <1>12, <2>4, PagerAssumption
        DEF CursorFails, Fault, ReactorFails, IInv, PlacesOK
    <2>5. ASSUME NEW u \in Thread, stdout' = u
          PROVE  pc'[u] \in Walks \cup {"setup", "writing", "turning"}
        BY <1>12, <2>5, PagerAssumption
        DEF CursorFails, Fault, ReactorFails, IInv, PlacesOK
    <2>6. Stopped' /\ Alive'
        BY <1>12
        DEF CursorFails, Fault, ReactorFails, IInv, Stopped, Alive, PlacesOK
    <2>7. Taken'
        BY <1>12
        DEF CursorFails, Fault, ReactorFails, IInv, Taken,
            TakenSignalEndsProcess, Finished, PlacesOK
    <2> QED
        BY <2>2, <2>3, <2>4, <2>5, <2>6, <2>7 DEF IInv, Slots, Owner
<1> QED
    BY <1>1, <1>2, <1>3, <1>4, <1>5, <1>6, <1>7, <1>8, <1>9, <1>10, <1>11,
       <1>12

(* The reader never touches the terminal's modes. *)
LEMMA ReaderKeeps ==
    ASSUME IInv, LeaseInv', faults' \in 0..MaxFaults,
           ReaderStops \/ ReaderPolls \/ ReaderPolled \/ ReaderClassifies
           \/ ReaderFails
    PROVE  IInv'
<1> USE DEF At, Goto, Running, lease, signals, Thread, Ended
<1>1. CASE ReaderStops \/ ReaderPolls \/ ReaderPolled \/ ReaderClassifies
    <2>1. PlacesOK'
        BY <1>1
        DEF ReaderStops, ReaderPolls, ReaderPolled, ReaderClassifies, IInv,
            TypeOK, PlacesOK, ReaderAt
    <2>2. TypeOK'
        <3>1. CASE ReaderStops
            BY <2>1, <3>1 DEF ReaderStops, IInv, TypeOK, LeaseTypeOK
        <3>2. CASE ReaderPolls
            BY <2>1, <3>2 DEF ReaderPolls, IInv, TypeOK, LeaseTypeOK
        <3>3. CASE ReaderPolled
            BY <2>1, <3>3 DEF ReaderPolled, IInv, TypeOK, LeaseTypeOK
        <3>4. CASE ReaderClassifies
            BY <2>1, <3>4 DEF ReaderClassifies, IInv, TypeOK, LeaseTypeOK
        <3> QED
            BY <1>1, <3>1, <3>2, <3>3, <3>4
    <2>3. Held'
        BY <1>1
        DEF ReaderStops, ReaderPolls, ReaderPolled, ReaderClassifies, IInv,
            Held, Inked, TypeOK, PlacesOK
    <2>4. ASSUME NEW u \in Thread, pc'[u] \in Walks, stdout' = u
          PROVE  slot'[u] <= Len(ledger')
        BY <1>1, <2>4
        DEF ReaderStops, ReaderPolls, ReaderPolled, ReaderClassifies, IInv,
            TypeOK, PlacesOK, Owner, Slots
    <2>5. ASSUME NEW u \in Thread, stdout' = u
          PROVE  pc'[u] \in Walks \cup {"setup", "writing", "turning"}
        BY <1>1, <2>5
        DEF ReaderStops, ReaderPolls, ReaderPolled, ReaderClassifies, IInv,
            TypeOK, PlacesOK, Walks, Owner
    <2>6. Stopped' /\ Alive'
        BY <1>1
        DEF ReaderStops, ReaderPolls, ReaderPolled, ReaderClassifies, IInv,
            Stopped, Alive, Inked, TypeOK, PlacesOK, Walks
    <2>7. Taken'
        BY <1>1
        DEF ReaderStops, ReaderPolls, ReaderPolled, ReaderClassifies, IInv,
            Taken, TakenSignalEndsProcess, Finished, TypeOK, PlacesOK
    <2> QED
        BY <2>2, <2>3, <2>4, <2>5, <2>6, <2>7 DEF IInv, Slots, Owner
<1>2. CASE ReaderFails
    <2>1. PlacesOK'
        BY <1>2 DEF ReaderFails, Fault, IInv, TypeOK, PlacesOK, ReaderAt
    <2>2. TypeOK'
        BY <1>2, <2>1 DEF ReaderFails, Fault, IInv, TypeOK, LeaseTypeOK
    <2>3. Held'
        BY <1>2 DEF ReaderFails, Fault, IInv, Held, Inked, PlacesOK
    <2>4. ASSUME NEW u \in Thread, pc'[u] \in Walks, stdout' = u
          PROVE  slot'[u] <= Len(ledger')
        BY <1>2, <2>4 DEF ReaderFails, Fault, IInv, PlacesOK, Owner, Slots
    <2>5. ASSUME NEW u \in Thread, stdout' = u
          PROVE  pc'[u] \in Walks \cup {"setup", "writing", "turning"}
        BY <1>2, <2>5 DEF ReaderFails, Fault, IInv, PlacesOK, Walks, Owner
    <2>6. Stopped' /\ Alive'
        BY <1>2 DEF ReaderFails, Fault, IInv, Stopped, Alive, PlacesOK
    <2>7. Taken'
        BY <1>2
        DEF ReaderFails, Fault, IInv, Taken, TakenSignalEndsProcess, Finished,
            PlacesOK
    <2> QED
        BY <2>2, <2>3, <2>4, <2>5, <2>6, <2>7 DEF IInv, Slots, Owner
<1> QED
    BY <1>1, <1>2

(* The monitor raises the stop flag before it waits for standard output. *)
LEMMA MonitorKeeps ==
    ASSUME IInv, LeaseInv', faults' \in 0..MaxFaults,
           TakeSignal \/ MonitorLeaves \/ Terminate
    PROVE  IInv'
<1> USE DEF At, Goto, Running, lease, signals, Thread, Ended
<1>1. CASE TakeSignal
    <2>1. PlacesOK'
        BY <1>1 DEF TakeSignal, IInv, TypeOK, PlacesOK, MonitorAt
    <2>2. TypeOK'
        BY <1>1, <2>1 DEF TakeSignal, IInv, TypeOK, LeaseTypeOK
    <2>3. Held'
        BY <1>1 DEF TakeSignal, IInv, Held, Inked, PlacesOK
    <2>4. ASSUME NEW u \in Thread, pc'[u] \in Walks, stdout' = u
          PROVE  slot'[u] <= Len(ledger')
        BY <1>1, <2>4 DEF TakeSignal, IInv, PlacesOK, Owner, Slots
    <2>5. ASSUME NEW u \in Thread, stdout' = u
          PROVE  pc'[u] \in Walks \cup {"setup", "writing", "turning"}
        BY <1>1, <2>5 DEF TakeSignal, IInv, PlacesOK, Walks, Owner
    <2>6. Stopped' /\ Alive'
        BY <1>1 DEF TakeSignal, IInv, Stopped, Alive, PlacesOK
    <2>7. Taken'
        BY <1>1
        DEF TakeSignal, IInv, Taken, TakenSignalEndsProcess, Finished, TypeOK,
            PlacesOK
    <2> QED
        BY <2>2, <2>3, <2>4, <2>5, <2>6, <2>7 DEF IInv, Slots, Owner
<1>2. CASE MonitorLeaves \/ Terminate
    <2>1. PlacesOK'
        BY <1>2
        DEF MonitorLeaves, Terminate, Walking, IInv, TypeOK, PlacesOK,
            MonitorAt
    <2>2. TypeOK'
        <3>1. CASE MonitorLeaves
            BY <2>1, <3>1 DEF MonitorLeaves, IInv, TypeOK, LeaseTypeOK
        <3>2. CASE Terminate
            BY <2>1, <3>2 DEF Terminate, Walking, IInv, TypeOK, LeaseTypeOK
        <3> QED
            BY <1>2, <3>1, <3>2
    <2>3. Held'
        BY <1>2
        DEF MonitorLeaves, Terminate, Walking, IInv, Held, Inked, TypeOK,
            PlacesOK
    <2>4. ASSUME NEW u \in Thread, pc'[u] \in Walks, stdout' = u
          PROVE  slot'[u] <= Len(ledger')
        BY <1>2, <2>4
        DEF MonitorLeaves, Terminate, Walking, IInv, TypeOK, PlacesOK, Owner,
            Slots
    <2>5. ASSUME NEW u \in Thread, stdout' = u
          PROVE  pc'[u] \in Walks \cup {"setup", "writing", "turning"}
        BY <1>2, <2>5
        DEF MonitorLeaves, Terminate, Walking, IInv, TypeOK, PlacesOK, Walks,
            Owner
    <2>6. Stopped' /\ Alive'
        BY <1>2
        DEF MonitorLeaves, Terminate, Walking, IInv, Stopped, Alive, Inked,
            TypeOK, PlacesOK, Walks
    <2>7. Taken'
        BY <1>2
        DEF MonitorLeaves, Terminate, Walking, IInv, Taken,
            TakenSignalEndsProcess, Finished, TypeOK, PlacesOK
    <2> QED
        BY <2>2, <2>3, <2>4, <2>5, <2>6, <2>7 DEF IInv, Slots, Owner
<1> QED
    BY <1>1, <1>2

(* Commands, signals and panics: the hook raises the flag before it waits. *)
LEMMA EnvironmentKeeps ==
    ASSUME IInv, LeaseInv', faults' \in 0..MaxFaults,
           Redraw \/ Search \/ Type \/ Quit \/ Deliver \/ PanicWriting
           \/ \E t \in Thread : (Panic(t) \/ PanicHolding(t))
    PROVE  IInv'
<1> USE DEF At, Goto, Running, lease, signals, Thread, Ended
<1>1. CASE Redraw \/ Search \/ Type
    <2>1. PlacesOK'
        BY <1>1 DEF Redraw, Search, Type, IInv, TypeOK, PlacesOK, ReactorAt
    <2>2. TypeOK'
        <3>1. CASE Redraw
            BY <2>1, <3>1 DEF Redraw, IInv, TypeOK, LeaseTypeOK, Tasks
        <3>2. CASE Search
            BY <2>1, <3>2 DEF Search, IInv, TypeOK, LeaseTypeOK
        <3>3. CASE Type
            BY <2>1, <3>3 DEF Type, IInv, TypeOK, LeaseTypeOK, Tasks
        <3> QED
            BY <1>1, <3>1, <3>2, <3>3
    <2>3. Held'
        BY <1>1 DEF Redraw, Search, Type, IInv, Held, TypeOK, PlacesOK
    <2>4. ASSUME NEW u \in Thread, pc'[u] \in Walks, stdout' = u
          PROVE  slot'[u] <= Len(ledger')
        BY <1>1, <2>4
        DEF Redraw, Search, Type, IInv, TypeOK, PlacesOK, Owner, Slots
    <2>5. ASSUME NEW u \in Thread, stdout' = u
          PROVE  pc'[u] \in Walks \cup {"setup", "writing", "turning"}
        BY <1>1, <2>5
        DEF Redraw, Search, Type, IInv, TypeOK, PlacesOK, Walks, Owner
    <2>6. Stopped' /\ Alive'
        BY <1>1
        DEF Redraw, Search, Type, IInv, Stopped, Alive, Inked, TypeOK,
            PlacesOK, Walks
    <2>7. Taken'
        BY <1>1
        DEF Redraw, Search, Type, IInv, Taken, TakenSignalEndsProcess,
            Finished, TypeOK, PlacesOK
    <2> QED
        BY <2>2, <2>3, <2>4, <2>5, <2>6, <2>7 DEF IInv, Slots, Owner
<1>2. CASE Quit
    <2>1. PlacesOK'
        BY <1>2 DEF Quit, IInv, TypeOK, PlacesOK, ReactorAt
    <2>2. TypeOK'
        BY <1>2, <2>1 DEF Quit, IInv, TypeOK, LeaseTypeOK
    <2>3. Held'
        BY <1>2 DEF Quit, IInv, Held, PlacesOK
    <2>4. ASSUME NEW u \in Thread, pc'[u] \in Walks, stdout' = u
          PROVE  slot'[u] <= Len(ledger')
        BY <1>2, <2>4 DEF Quit, IInv, PlacesOK, Owner, Slots
    <2>5. ASSUME NEW u \in Thread, stdout' = u
          PROVE  pc'[u] \in Walks \cup {"setup", "writing", "turning"}
        BY <1>2, <2>5 DEF Quit, IInv, PlacesOK, Walks, Owner
    <2>6. Stopped' /\ Alive'
        BY <1>2 DEF Quit, IInv, Stopped, Alive, PlacesOK
    <2>7. Taken'
        BY <1>2
        DEF Quit, IInv, Taken, TakenSignalEndsProcess, Finished, PlacesOK
    <2> QED
        BY <2>2, <2>3, <2>4, <2>5, <2>6, <2>7 DEF IInv, Slots, Owner
<1>3. CASE Deliver
    <2>1. PlacesOK'
        BY <1>3 DEF Deliver, IInv, TypeOK, PlacesOK
    <2>2. TypeOK'
        BY <1>3, <2>1 DEF Deliver, IInv, LeaseInv, TypeOK, LeaseTypeOK
    <2>3. Held'
        BY <1>3 DEF Deliver, IInv, Held, Inked, PlacesOK
    <2>4. ASSUME NEW u \in Thread, pc'[u] \in Walks, stdout' = u
          PROVE  slot'[u] <= Len(ledger')
        BY <1>3, <2>4 DEF Deliver, IInv, PlacesOK, Slots
    <2>5. ASSUME NEW u \in Thread, stdout' = u
          PROVE  pc'[u] \in Walks \cup {"setup", "writing", "turning"}
        BY <1>3, <2>5 DEF Deliver, IInv, PlacesOK, Owner
    <2>6. Stopped' /\ Alive'
        BY <1>3 DEF Deliver, IInv, Stopped, Alive, Inked, PlacesOK
    <2>7. Taken'
        BY <1>3 DEF Deliver, IInv, Taken, TakenSignalEndsProcess, PlacesOK
    <2> QED
        BY <2>2, <2>3, <2>4, <2>5, <2>6, <2>7 DEF IInv, Slots, Owner
<1>4. CASE PanicWriting
    <2>1. Len(ledger) \in 0..4 /\ Len(ledger) = Len(ledger')
        BY <1>4, FourSlots DEF PanicWriting, IInv, LeaseInv, NoDuplicates
    <2>2. PlacesOK'
        BY <2>1, <1>4
        DEF PanicWriting, PanicStarts, IInv, TypeOK, PlacesOK, ReactorAt
    <2>3. TypeOK'
        BY <2>1, <1>4, <2>2, FourResources
        DEF PanicWriting, PanicStarts, IInv, TypeOK, LeaseTypeOK
    <2>4. Held'
        BY <2>1, <1>4
        DEF PanicWriting, PanicStarts, IInv, Held, TypeOK, PlacesOK
    <2>5. ASSUME NEW u \in Thread, pc'[u] \in Walks, stdout' = u
          PROVE  slot'[u] <= Len(ledger')
        BY <2>1, <1>4, <2>5
        DEF PanicWriting, PanicStarts, IInv, TypeOK, PlacesOK, Slots
    <2>6. ASSUME NEW u \in Thread, stdout' = u
          PROVE  pc'[u] \in Walks \cup {"setup", "writing", "turning"}
        BY <2>1, <1>4, <2>6
        DEF PanicWriting, PanicStarts, IInv, PlacesOK, Walks, Owner
    <2>7. Stopped' /\ Alive'
        BY <2>1, <1>4
        DEF PanicWriting, PanicStarts, IInv, Stopped, Alive, PlacesOK
    <2>8. Taken'
        BY <2>1, <1>4
        DEF PanicWriting, PanicStarts, IInv, Taken, TakenSignalEndsProcess,
            Finished, PlacesOK
    <2> QED
        BY <2>3, <2>4, <2>5, <2>6, <2>7, <2>8 DEF IInv, Slots, Owner
<1>5. CASE \E t \in Thread : Panic(t)
    <2>1. PlacesOK'
        BY <1>5
        DEF Panic, PanicStarts, IInv, TypeOK, PlacesOK, ReactorAt, ReaderAt
    <2>2. TypeOK'
        BY <1>5, <2>1 DEF Panic, PanicStarts, IInv, TypeOK, LeaseTypeOK
    <2>3. Held'
        BY <1>5 DEF Panic, PanicStarts, IInv, Held, Inked, PlacesOK
    <2>4. ASSUME NEW u \in Thread, pc'[u] \in Walks, stdout' = u
          PROVE  slot'[u] <= Len(ledger')
        BY <1>5, <2>4 DEF Panic, PanicStarts, IInv, PlacesOK, Owner, Slots
    <2>5. ASSUME NEW u \in Thread, stdout' = u
          PROVE  pc'[u] \in Walks \cup {"setup", "writing", "turning"}
        BY <1>5, <2>5 DEF Panic, PanicStarts, IInv, PlacesOK, Walks, Owner
    <2>6. Stopped' /\ Alive'
        BY <1>5 DEF Panic, PanicStarts, IInv, Stopped, Alive, PlacesOK
    <2>7. Taken'
        BY <1>5
        DEF Panic, PanicStarts, IInv, Taken, TakenSignalEndsProcess, Finished,
            PlacesOK
    <2> QED
        BY <2>2, <2>3, <2>4, <2>5, <2>6, <2>7 DEF IInv, Slots, Owner
<1>6. CASE \E t \in Thread : PanicHolding(t)
    <2>1. PlacesOK'
        BY <1>6
        DEF PanicHolding, PanicStarts, Walking, IInv, TypeOK, PlacesOK,
            MainAt, ReactorAt, ReaderAt, MonitorAt
    <2>2. TypeOK'
        BY <1>6, <2>1, FourResources
        DEF PanicHolding, PanicStarts, Walking, IInv, LeaseInv, TypeOK,
            LeaseTypeOK
    <2>3. Held'
        BY <1>6
        DEF PanicHolding, PanicStarts, Walking, IInv, Held, TypeOK, PlacesOK,
            Walks
    <2>4. ASSUME NEW u \in Thread, pc'[u] \in Walks, stdout' = u
          PROVE  slot'[u] <= Len(ledger')
        BY <1>6, <2>4, PagerAssumption
        DEF PanicHolding, PanicStarts, Walking, IInv, PlacesOK
    <2>5. ASSUME NEW u \in Thread, stdout' = u
          PROVE  pc'[u] \in Walks \cup {"setup", "writing", "turning"}
        BY <1>6, <2>5, PagerAssumption
        DEF PanicHolding, PanicStarts, Walking, IInv, PlacesOK
    <2>6. Stopped' /\ Alive'
        BY <1>6
        DEF PanicHolding, PanicStarts, Walking, IInv, Stopped, Alive, PlacesOK
    <2>7. Taken'
        BY <1>6
        DEF PanicHolding, PanicStarts, Walking, IInv, Taken,
            TakenSignalEndsProcess, Finished, PlacesOK
    <2> QED
        BY <2>2, <2>3, <2>4, <2>5, <2>6, <2>7 DEF IInv, Slots, Owner
<1> QED
    BY <1>1, <1>2, <1>3, <1>4, <1>5, <1>6

(* A walk: only its holder changes the ledger, one slot at a time. *)
LEMMA WalkKeeps ==
    ASSUME IInv, LeaseInv', faults' \in 0..MaxFaults,
           \E t \in Thread : Walk(t)
    PROVE  IInv'
<1> USE DEF At, Goto, Running, lease, signals, Thread, Ended
<1>1. CASE \E t \in Thread : BeginWalk(t)
    <2>1. Len(ledger) \in 0..4
        BY FourSlots DEF IInv, LeaseInv, NoDuplicates
    <2>2. PlacesOK'
        BY <2>1, <1>1 DEF BeginWalk, IInv, TypeOK, PlacesOK
    <2>3. TypeOK'
        BY <2>1, <1>1, <2>2, FourResources
        DEF BeginWalk, IInv, TypeOK, LeaseTypeOK
    <2>4. Held'
        BY <2>1, <1>1, PagerAssumption DEF BeginWalk, IInv, Held, PlacesOK
    <2>5. ASSUME NEW u \in Thread, pc'[u] \in Walks, stdout' = u
          PROVE  slot'[u] <= Len(ledger')
        BY <2>1, <1>1, <2>5 DEF BeginWalk, IInv, TypeOK, PlacesOK
    <2>6. ASSUME NEW u \in Thread, stdout' = u
          PROVE  pc'[u] \in Walks \cup {"setup", "writing", "turning"}
        BY <2>1, <1>1, <2>6 DEF BeginWalk, IInv, PlacesOK
    <2>7. Stopped' /\ Alive'
        BY <2>1, <1>1 DEF BeginWalk, IInv, Stopped, Alive, Inked, PlacesOK
    <2>8. Taken'
        BY <2>1, <1>1
        DEF BeginWalk, IInv, Taken, TakenSignalEndsProcess, Finished, PlacesOK
    <2> QED
        BY <2>3, <2>4, <2>5, <2>6, <2>7, <2>8 DEF IInv, Slots, Owner
<1>2. CASE \E t \in Thread : ReleaseNext(t)
    <2>1. PICK t \in Thread : ReleaseNext(t)
        BY <1>2
    <2>2. /\ slot' = [slot EXCEPT ![t] = @ - 1]
          /\ stdout = t /\ pc[t] \in Walks /\ slot[t] \in 1..Len(ledger)
          /\ slot[t] - 1 <= Len(ledger')
          /\ UNCHANGED <<exited, stdout, pc, task, active, signals, panicked,
                         process>>
        BY <2>1, ReleaseSettles DEF ReleaseNext, Walking, IInv, TypeOK, Slots
    <2>3. exited \/ pc["reactor"] = "unborn"
        BY <2>2
        DEF IInv, Stopped, TypeOK, PlacesOK, ReactorAt, ReaderAt, MonitorAt
    <2>4. PlacesOK'
        BY <2>2, <2>3 DEF IInv, TypeOK, PlacesOK
    <2>5. TypeOK'
        BY <2>2, <2>3, <2>4, FourResources
        DEF IInv, LeaseInv, TypeOK, LeaseTypeOK
    <2>6. Held'
        BY <2>2, <2>3 DEF IInv, Held, PlacesOK, Walks
    <2>7. ASSUME NEW u \in Thread, pc'[u] \in Walks, stdout' = u
          PROVE  slot'[u] <= Len(ledger')
        BY <2>2, <2>3, <2>7 DEF IInv, TypeOK, PlacesOK
    <2>8. ASSUME NEW u \in Thread, stdout' = u
          PROVE  pc'[u] \in Walks \cup {"setup", "writing", "turning"}
        BY <2>2, <2>3, <2>8 DEF IInv, PlacesOK
    <2>9. Stopped' /\ Alive'
        BY <2>2, <2>3 DEF IInv, Stopped, Alive, PlacesOK
    <2>10. Taken'
        BY <2>2, <2>3
        DEF IInv, Taken, TakenSignalEndsProcess, Finished, PlacesOK
    <2> QED
        BY <2>5, <2>6, <2>7, <2>8, <2>9, <2>10 DEF IInv, Slots, Owner
<1>3. CASE \E t \in Thread : EndWalk(t)
    <2>1. PICK t \in Thread : EndWalk(t)
        BY <1>3
    <2>2. /\ t \in {"main", "reactor", "reader"}
          /\ t = "main" => AfterWalk(t) \in {"cleanup", "wait", "scope"}
          /\ t # "main" => AfterWalk(t) \in {"done", "failed", "panicked"}
        BY <2>1
        DEF EndWalk, Walking, AfterWalk, IInv, TypeOK, PlacesOK, MainAt,
            ReactorAt, ReaderAt, Walks
    <2>3. PlacesOK'
        BY <2>1, <2>2
        DEF EndWalk, Walking, IInv, TypeOK, PlacesOK, MainAt, ReactorAt,
            ReaderAt
    <2>4. TypeOK'
        BY <2>1, <2>2, <2>3 DEF EndWalk, Walking, IInv, TypeOK, LeaseTypeOK
    <2>5. Held'
        BY <2>1, <2>2 DEF EndWalk, Walking, IInv, Held, TypeOK, PlacesOK, Walks
    <2>6. ASSUME NEW u \in Thread, pc'[u] \in Walks, stdout' = u
          PROVE  slot'[u] <= Len(ledger')
        BY <2>1, <2>2, <2>6, PagerAssumption
        DEF EndWalk, Walking, IInv, PlacesOK
    <2>7. ASSUME NEW u \in Thread, stdout' = u
          PROVE  pc'[u] \in Walks \cup {"setup", "writing", "turning"}
        BY <2>1, <2>2, <2>7, PagerAssumption
        DEF EndWalk, Walking, IInv, PlacesOK
    <2>8. Stopped' /\ Alive'
        BY <2>1, <2>2 DEF EndWalk, Walking, IInv, Stopped, Alive, PlacesOK
    <2>9. Taken'
        BY <2>1, <2>2
        DEF EndWalk, Walking, IInv, Taken, TakenSignalEndsProcess, Finished,
            PlacesOK
    <2> QED
        BY <2>4, <2>5, <2>6, <2>7, <2>8, <2>9 DEF IInv, Slots, Owner
<1> QED
    BY <1>1, <1>2, <1>3 DEF Walk

----------------------------------------------------------------------------

LEMMA Stuttering ==
    ASSUME IInv, UNCHANGED vars
    PROVE  IInv'
<1>1. TypeOK' /\ LeaseInv'
    BY DEF IInv, TypeOK, LeaseTypeOK, PlacesOK, LeaseInv, NoDuplicates,
           ObligationsCoverModes, Pending, vars, lease, signals
<1>2. Held' /\ Owner' /\ Slots' /\ Stopped' /\ Alive'
    BY DEF IInv, Held, Owner, Slots, Stopped, Alive, Inked, vars, lease
<1>3. Taken'
    BY DEF IInv, Taken, TakenSignalEndsProcess, Finished, vars, signals
<1> QED
    BY <1>1, <1>2, <1>3 DEF IInv

LEMMA NextKeeps ==
    ASSUME IInv, [Next]_vars
    PROVE  IInv'
<1>1. CASE UNCHANGED vars
    BY <1>1, Stuttering
<1>2. CASE Next
    <2>1. LeaseInv' /\ faults' \in 0..MaxFaults
        BY <1>2, StepsAreLeaseSteps, LeaseStepKeeps DEF IInv
    <2>2. CASE \E t \in Thread : Walk(t)
        BY <2>1, <2>2, WalkKeeps
    <2>3. CASE MainStep
        BY <2>1, <2>2, <2>3, MainKeeps DEF MainStep, Thread
    <2>4. CASE ReactorStep
        BY <2>1, <2>2, <2>4, ReactorKeeps DEF ReactorStep, Thread
    <2>5. CASE ReaderStep
        BY <2>1, <2>2, <2>5, ReaderKeeps DEF ReaderStep, Thread
    <2>6. CASE MonitorStep
        BY <2>1, <2>2, <2>6, MonitorKeeps DEF MonitorStep, Thread
    <2>7. CASE Environment
        BY <2>1, <2>7, EnvironmentKeeps DEF Environment
    <2>8. CASE Over
        BY <2>8, Stuttering DEF Over
    <2> QED
        BY <1>2, <2>3, <2>4, <2>5, <2>6, <2>7, <2>8 DEF Next
<1> QED
    BY <1>1, <1>2

LEMMA Invariance == Spec => []IInv
BY InitIInv, NextKeeps, PTL DEF Spec

(* Every variable of the pager keeps its type; in particular no walk ever  *)
(* looks for a fifth slot in the ledger of terminal_lease.rs.              *)
THEOREM PagerTypeCorrect == Spec => []TypeOK
<1>1. IInv => TypeOK
    BY DEF IInv
<1> QED
    BY <1>1, Invariance, PTL

(* Whatever fails or panics half way, every mode in force on the terminal  *)
(* has an obligation in the session's ledger (TerminalLease::acquire).     *)
THEOREM ModesAreOwed == Spec => []ObligationsCoverModes
<1>1. IInv => ObligationsCoverModes
    BY DEF IInv, LeaseInv
<1> QED
    BY <1>1, Invariance, PTL

(* A write that passed PagerOutput's check of the stop flag lands on the   *)
(* alternate screen, whatever the other threads do meanwhile.              *)
THEOREM FramesStayInside == Spec => []WritesStayOnAlternateScreen
<1>1. IInv => WritesStayOnAlternateScreen
    BY DEF IInv, Held, Inked, WritesStayOnAlternateScreen, At
<1> QED
    BY <1>1, Invariance, PTL

(* A signal the monitor took (TerminationSignals::take) is not swallowed:  *)
(* the session does not return normally after it.                          *)
THEOREM SignalsAreNotSwallowed == Spec => []TakenSignalEndsProcess
<1>1. IInv => TakenSignalEndsProcess
    BY DEF IInv, Taken
<1> QED
    BY <1>1, Invariance, PTL

----------------------------------------------------------------------------

(* Outside setup, a step that takes a mode finds an obligation already.    *)
LEMMA TakersOweAlready ==
    ASSUME IInv, Next, pc["main"] \notin {"begin", "setup"}, ledger = <<>>
    PROVE  UNCHANGED <<modes, ledger>>
<1>1. modes = {}
    BY DEF IInv, LeaseInv, ObligationsCoverModes, Pending
<1>2. pc["reactor"] # "turning"
    BY <1>1 DEF IInv, Held, Inked
<1>3. \A t \in Thread : ~(Walking(t) /\ slot[t] > 0)
    BY FourResources DEF IInv, TypeOK, Slots, Walking
<1>4. ASSUME NEW t \in Thread, Walk(t) PROVE UNCHANGED <<modes, ledger>>
    BY <1>3, <1>4 DEF Walk, BeginWalk, ReleaseNext, EndWalk, lease
<1>5. CASE MainStep
    BY <1>4, <1>5
    DEF MainStep, Thread, WriteDirectly, BeginSetup, SetupNext, SetupFails,
        Join, Unwind, JoinMonitor, Return, At, lease
<1>6. CASE ReactorStep
    BY <1>2, <1>4, <1>6
    DEF ReactorStep, Thread, BeginFirstFrame, BeginWrite, Write, WriteFails,
        Listen, ListenTimesOut, PauseInput, BeginCursor, TurnCursor,
        CursorFails, TypingStops, At, lease
<1>7. CASE ReaderStep
    BY <1>4, <1>7
    DEF ReaderStep, Thread, ReaderStops, ReaderPolls, ReaderPolled,
        ReaderFails, ReaderClassifies, lease
<1>8. CASE MonitorStep
    BY <1>4, <1>8
    DEF MonitorStep, Thread, TakeSignal, MonitorLeaves, Terminate, lease
<1>9. CASE Environment
    <2>1. ASSUME NEW t \in Thread, PanicHolding(t) PROVE FALSE
        BY <1>2, <1>3, <2>1 DEF PanicHolding
    <2> QED
        BY <1>9, <2>1
        DEF Environment, Redraw, Quit, Search, Type, Deliver, Panic,
            PanicWriting, lease
<1>10. CASE Over
    BY <1>10 DEF Over, vars, lease
<1> QED
    BY <1>5, <1>6, <1>7, <1>8, <1>9, <1>10 DEF Next

(* What the pager has given back, by any thread, it never takes again: in  *)
(* particular PagerTerminal::cursor_visible cannot hide the cursor of a    *)
(* terminal that was restored while a search was under way.                *)
THEOREM GivenBackForGood == Spec => NothingIsTakenAgain
<1> DEFINE Keeps == ledger = <<>> /\ pc["main"] \notin {"begin", "setup"}
                        => ledger' = <<>> /\ modes' = {}
<1>1. ASSUME IInv, [Next]_vars PROVE [Keeps]_vars
    <2>1. ledger = <<>> => modes = {}
        BY <1>1 DEF IInv, LeaseInv, ObligationsCoverModes, Pending
    <2> QED
        BY <1>1, <2>1, TakersOweAlready
<1> QED
    BY <1>1, Invariance, PTL DEF Spec, NothingIsTakenAgain

----------------------------------------------------------------------------
(***************************************************************************)
(* Counting.  Whatever is still owed has outlived every walk over the      *)
(* ledger so far, and each of them cost a failed operation.  Main walks    *)
(* once more at each place of its way out, so the failures so far and the  *)
(* walks to come never add up to less than it takes to give back.          *)
(***************************************************************************)
Needed == IF panicked = {} /\ ~terminating THEN 4 ELSE 2

(* The walks main still starts after the one it is at, this one included.  *)
Left ==
    CASE pc["main"] \in {"undo", "errorRestore", "hook"} -> 3
      [] pc["main"] \in {"cleanup", "scope", "recatch"}  -> 2
      [] pc["main"] \in {"wait", "drop"}                 -> 1
      [] OTHER                                           -> 4

Leaving ==
    {"undo", "errorRestore", "hook", "cleanup", "scope", "recatch", "wait",
     "drop"}

(* Thread t has walked past an obligation without releasing it.            *)
Passed(t) == stdout = t /\ pc[t] \in Walks /\ slot[t] < Len(ledger)

Owing == Len(ledger) > 0

Fresh == pc["main"] = "begin" \/ pc["reactor"] = "done" => ~Owing

Tried == \A t \in Thread : Passed(t) => faults >= 1

Enough ==
    Running /\ pc["main"] \in Leaving /\ Owing =>
        /\ faults + Left >= Needed
        /\ Passed("main") => faults + Left > Needed

Excused ==
    /\ pc["main"] \in {"setup", "join"}
    /\ exited \/ pc["reactor"] = "failed"
    /\ panicked = {} /\ ~terminating
    => faults >= 1 \/ pc["reactor"] \in {"loop", "restore", "done"}

Ending ==
    Owing =>
        /\ process = "returned" => faults >= 4
        /\ process = "panicked" => faults >= 2
        /\ process = "signalled" => faults >= 1

Count == Fresh /\ Tried /\ Enough /\ Excused /\ Ending

LEMMA CountInit == Init => Count
<1> SUFFICES ASSUME Init PROVE Count
    OBVIOUS
<1>1. Len(ledger) = 0 /\ pc["main"] = "begin" /\ process = "running"
      /\ stdout = None
    BY DEF Init, LeaseInit, Thread
<1> QED
    BY <1>1, PagerAssumption
    DEF Count, Fresh, Tried, Enough, Excused, Ending, Owing, Passed, Leaving,
        Thread

(* The numbers the counting is about.                                      *)
LEMMA CountTypes ==
    ASSUME IInv
    PROVE  /\ Len(ledger) \in Nat
           /\ faults \in Nat
           /\ slot \in [Thread -> Nat]
           /\ Left \in 1..4
           /\ Needed \in {2, 4}
           /\ None \notin Thread
           /\ PlacesOK
<1>1. slot \in [Thread -> 0..4] /\ faults \in 0..MaxFaults /\ MaxFaults \in Nat
    BY FourResources, FaultsAssumption DEF IInv, TypeOK, LeaseTypeOK
<1>2. Len(ledger) \in Nat
    BY DEF IInv, LeaseInv
<1> QED
    BY <1>1, <1>2, PagerAssumption DEF IInv, TypeOK, Left, Needed, Thread

(* A panic or a signal that was taken asks for less.                       *)
LEMMA NeededFalls ==
    ASSUME panicked \subseteq panicked', terminating => terminating'
    PROVE  Needed' <= Needed /\ Needed' \in {2, 4} /\ Needed \in {2, 4}
BY DEF Needed

(* A step that is not main's, takes nothing when nothing is owed, and      *)
(* leaves no further obligation behind a walk.                             *)
LEMMA AsideCounts ==
    ASSUME IInv, Count, Running, process' = process,
           faults' \in Nat, faults' >= faults, Len(ledger') \in Nat,
           Owing' => Owing,
           pc'["main"] = pc["main"],
           panicked \subseteq panicked', terminating => terminating',
           \A t \in Thread : Passed(t)' => Passed(t),
           pc'["reactor"] = "done" => pc["reactor"] = "done" \/ ~Owing',
           Excused'
    PROVE  Count'
<1>1. Fresh'
    BY DEF Count, Fresh
<1>2. Tried'
    BY CountTypes DEF Count, Tried
<1>3. Enough'
    <2>1. Left' = Left /\ Left \in 1..4
        BY DEF Left
    <2>2. Needed' <= Needed /\ Needed' \in {2, 4} /\ Needed \in {2, 4}
        BY NeededFalls
    <2>3. Passed("main")' => Passed("main")
        BY DEF Thread
    <2>4. ASSUME pc["main"] \in Leaving, Owing'
          PROVE  /\ faults' + Left >= Needed'
                 /\ Passed("main")' => faults' + Left > Needed'
        <3>1. /\ faults + Left >= Needed
              /\ Passed("main") => faults + Left > Needed
            BY <2>4 DEF Count, Enough
        <3>2. faults \in Nat
            BY CountTypes
        <3>3. \A a, b, c, d, e \in Nat :
                  a >= b /\ d <= c =>
                      /\ (b + e >= c => a + e >= d)
                      /\ (b + e > c => a + e > d)
            OBVIOUS
        <3>4. {Left, Needed, Needed'} \subseteq Nat
            BY <2>1, <2>2
        <3> QED
            BY <2>2, <2>3, <3>1, <3>2, <3>3, <3>4
    <2> QED
        BY <2>1, <2>4 DEF Enough
<1>4. Ending'
    BY DEF Ending, Running
<1> QED
    BY <1>1, <1>2, <1>3, <1>4 DEF Count

(* Main's steps other than the steps of a walk.                            *)
LEMMA MainCounts ==
    ASSUME IInv, Count,
           WriteDirectly \/ Unwind \/ JoinMonitor \/ Return \/ BeginSetup
           \/ SetupNext \/ SetupFails \/ Join
    PROVE  Count'
<1> USE CountTypes DEF Thread
<1>0. /\ Running /\ pc["main"] \in MainAt
      /\ pc["main"] \notin Walks => stdout # "main" \/ pc["main"] = "setup"
    <2>1. pc["main"] \notin Walks => stdout # "main" \/ pc["main"] = "setup"
        BY DEF IInv, Owner, PlacesOK, MainAt
    <2> QED
        BY <2>1
        DEF WriteDirectly, Unwind, JoinMonitor, Return, Walking, BeginSetup,
            SetupNext, SetupFails, Join, At, PlacesOK
<1>1. CASE WriteDirectly \/ BeginSetup
    <2>1. /\ ~Owing' /\ pc'["main"] # "begin"
          /\ \A t \in {"reactor", "reader", "monitor"} : pc'[t] = pc[t]
          /\ UNCHANGED <<lease, process>>
        BY <1>1
        DEF WriteDirectly, BeginSetup, At, Goto, Count, Fresh, Owing, PlacesOK,
            lease
    <2>2. Tried'
        BY <1>1, <2>1
        DEF WriteDirectly, BeginSetup, At, Goto, Count, Tried, Passed, Owing,
            PlacesOK, Walks, lease
    <2>3. Excused'
        BY <1>1, <2>1
        DEF WriteDirectly, BeginSetup, At, Goto, Excused, PlacesOK, IInv, Held
    <2> QED
        BY <2>1, <2>2, <2>3 DEF Count, Fresh, Enough, Ending
<1>2. CASE Unwind \/ JoinMonitor
    <2>1. /\ pc["main"] \in {"scope", "wait"}
          /\ pc'["main"] = IF pc["main"] = "scope" THEN "recatch" ELSE "drop"
          /\ \A t \in {"reactor", "reader", "monitor"} : pc'[t] = pc[t]
          /\ UNCHANGED <<lease, stdout, slot, panicked, terminating, process>>
        BY <1>2 DEF Unwind, JoinMonitor, At, Goto, PlacesOK, signals
    <2>2. Left' = Left /\ Needed' = Needed /\ Owing' = Owing
        BY <2>1 DEF Left, Needed, Owing, lease
    <2>3. \A t \in Thread : Passed(t)' => Passed(t) /\ t # "main"
        BY <1>0, <2>1 DEF Passed, lease, Walks, IInv, Owner
    <2>4. Fresh' /\ Tried'
        BY <2>1, <2>2, <2>3 DEF Count, Fresh, Tried, lease
    <2>5. Enough'
        BY <2>1, <2>2, <2>3 DEF Count, Enough, Leaving, Running, lease
    <2>6. Excused' /\ Ending'
        BY <1>0, <2>1 DEF Excused, Ending, Running
    <2> QED
        BY <2>4, <2>5, <2>6 DEF Count
<1>3. CASE Return
    <2>1. /\ pc["main"] = "drop"
          /\ Passed("main") \/ ~Owing
          /\ process' = IF panicked = {} THEN "returned" ELSE "panicked"
          /\ UNCHANGED <<lease, pc, panicked, terminating>>
          /\ stdout' = None
        BY <1>3 DEF Return, Walking, Passed, Owing, Walks, signals
    <2>2. Fresh' /\ Tried' /\ Enough'
        BY <2>1
        DEF Count, Fresh, Tried, Enough, Passed, Owing, Running, lease
    <2>3. Excused'
        BY <1>3 DEF Return, Walking, Excused
    <2>4. ASSUME Owing' PROVE faults' > Needed - 1
        BY <1>0, <1>3, <2>1, <2>4
        DEF Return, Walking, Count, Enough, Left, Leaving, Owing, lease
    <2>5. panicked = {} => Needed = 4
        BY <1>3
        DEF Return, Walking, IInv, Taken, Finished, Needed, Ended
    <2>6. Ending'
        BY <2>1, <2>4, <2>5 DEF Ending, lease
    <2> QED
        BY <2>2, <2>3, <2>6 DEF Count
<1>4. CASE SetupNext
    <2>1. /\ pc["main"] = "setup" /\ pc["reactor"] = "unborn"
          /\ pc'["main"] \in {"setup", "join"}
          /\ pc'["reactor"] \in {"unborn", "start"}
          /\ \A t \in Thread \ {"main"} : pc'[t] \in Walks => pc[t] \in Walks
          /\ stdout = "main" /\ stdout' \in {"main", None}
          /\ UNCHANGED <<exited, panicked, terminating, process, faults>>
        BY <1>4
        DEF SetupNext, At, Acquired, IInv, Held, PlacesOK, Walks, signals
    <2>2. \A t \in Thread : ~Passed(t)'
        BY <2>1 DEF Passed, Walks
    <2>3. Fresh' /\ Tried' /\ Enough' /\ Ending'
        BY <1>0, <2>1, <2>2
        DEF Fresh, Tried, Enough, Ending, Leaving, Running
    <2>4. Excused'
        BY <2>1 DEF Count, Excused
    <2> QED
        BY <2>3, <2>4 DEF Count
<1>5. CASE SetupFails
    <2>1. /\ pc'["main"] = "undo" /\ pc'["reactor"] = "unborn"
          /\ stdout' = "main" /\ slot'["main"] = Len(ledger')
          /\ faults' = faults + 1
          /\ process' = process
        BY <1>5 DEF SetupFails, At, Goto, Fault, IInv, Held, PlacesOK
    <2>2. Len(ledger') \in Nat
        BY <1>5, SetupTakesModes
        DEF SetupFails, At, AcquireBroken, IInv, Held, LeaseInv
    <2>3. \A t \in Thread : ~Passed(t)'
        BY <2>1, <2>2 DEF Passed
    <2>4. Left' = 3 /\ Needed' \in {2, 4}
        BY <2>1 DEF Left, Needed
    <2>5. Fresh' /\ Tried' /\ Ending'
        BY <1>0, <2>1, <2>3 DEF Fresh, Tried, Ending, Running
    <2>6. Enough'
        BY <2>1, <2>3, <2>4 DEF Enough
    <2>7. Excused'
        BY <2>1 DEF Excused
    <2> QED
        BY <2>5, <2>6, <2>7 DEF Count
<1>6. CASE Join
    <2>1. /\ pc["main"] = "join"
          /\ UNCHANGED <<lease, stdout, slot, terminating, process>>
          /\ pc'["main"] \in {"hook", "errorRestore", "cleanup"}
          /\ \A t \in {"reactor", "reader", "monitor"} : pc'[t] = pc[t]
        BY <1>6 DEF Join, At, Goto, PlacesOK, signals
    <2>2. \A t \in Thread : Passed(t)' => Passed(t) /\ t # "main"
        BY <1>0, <2>1 DEF Passed, lease, Walks
    <2>3. Fresh' /\ Tried' /\ Excused' /\ Ending'
        BY <1>0, <2>1, <2>2
        DEF Count, Fresh, Tried, Excused, Ending, Owing, Running, lease
    <2>4. ~Passed("main")'
        BY <2>2
    <2>5. CASE pc'["main"] = "hook"
        <3>1. panicked' # {}
            BY <1>6, <2>1, <2>5 DEF Join, Goto, PlacesOK
        <3>2. Left' = 3 /\ Needed' = 2
            BY <2>5, <3>1 DEF Left, Needed
        <3> QED
            BY <2>1, <2>3, <2>4, <3>2 DEF Count, Enough, lease
    <2>6. CASE pc'["main"] = "cleanup"
        <3>1. pc["reactor"] = "done"
            BY <1>6, <2>1, <2>6 DEF Join, Goto, PlacesOK, Finished, Ended, Workers
        <3>2. ~Owing'
            BY <2>1, <3>1 DEF Count, Fresh, Owing, lease
        <3> QED
            BY <2>3, <3>2 DEF Count, Enough
    <2>7. CASE pc'["main"] = "errorRestore"
        <3>1. /\ pc["reactor"] \in {"done", "failed"}
              /\ UNCHANGED panicked
            BY <1>6, <2>1, <2>7 DEF Join, Goto, PlacesOK, Finished, Ended, Workers
        <3>2. Left' = 3 /\ Needed' = Needed
            BY <2>1, <2>7, <3>1 DEF Left, Needed
        <3>3. CASE pc["reactor"] = "done"
            <4>1. ~Owing'
                BY <2>1, <3>3 DEF Count, Fresh, Owing, lease
            <4> QED
                BY <2>3, <4>1 DEF Count, Enough
        <3>4. CASE pc["reactor"] = "failed"
            <4>1. Needed = 4 => faults >= 1
                BY <2>1, <3>4 DEF Count, Excused, Needed
            <4> QED
                BY <2>1, <2>3, <2>4, <3>2, <4>1 DEF Count, Enough, lease
        <3> QED
            BY <3>1, <3>3, <3>4
    <2> QED
        BY <2>1, <2>5, <2>6, <2>7
<1> QED
    BY <1>1, <1>2, <1>3, <1>4, <1>5, <1>6

(* A step of another thread that neither walks nor touches the terminal.   *)
LEMMA QuietCounts ==
    ASSUME IInv, Count, Running,
           UNCHANGED <<stdout, slot, process>>, Len(ledger') = Len(ledger),
           faults' \in Nat, faults' >= faults,
           panicked \subseteq panicked', terminating => terminating',
           NEW t \in Thread \ {"main"}, NEW x, Goto(t, x),
           stdout # t,
           t = "reactor" => x # "done",
           Excused'
    PROVE  Count'
<1>1. pc'["main"] = pc["main"] /\ \A u \in Thread : u # t => pc'[u] = pc[u]
    BY CountTypes DEF Goto, PlacesOK, Thread
<1>2. \A u \in Thread : Passed(u)' => Passed(u)
    BY <1>1 DEF Passed
<1>3. Owing' = Owing
    BY DEF Owing
<1>4. pc'["reactor"] = "done" => pc["reactor"] = "done"
    BY <1>1, CountTypes DEF Goto, PlacesOK, Thread
<1> QED
    BY <1>1, <1>2, <1>3, <1>4, AsideCounts, CountTypes

LEMMA ReactorCounts ==
    ASSUME IInv, Count,
           \/ BeginFirstFrame \/ Listen \/ ListenTimesOut \/ PauseInput
           \/ TypingStops \/ Redraw \/ Quit \/ Search \/ Type
    PROVE  Count'
<1> USE DEF At, Running
<1>1. /\ Running /\ stdout # "reactor"
      /\ pc["reactor"] \in {"start", "loop", "listen", "pause", "typing"}
      /\ UNCHANGED <<lease, stdout, slot, panicked, terminating, process>>
    BY DEF BeginFirstFrame, Listen, ListenTimesOut, PauseInput, TypingStops,
           Redraw, Quit, Search, Type, IInv, Owner, Walks, Thread, signals
<1>2. PICK x : Goto("reactor", x) /\ x # "done"
    BY DEF BeginFirstFrame, Listen, ListenTimesOut, PauseInput, TypingStops,
           Redraw, Quit, Search, Type, ReactorFails
<1>3. pc'["reactor"] = x /\ pc'["main"] = pc["main"]
    BY <1>2, CountTypes DEF Goto, PlacesOK, Thread
<1>4. \/ exited' = exited /\ (x = "failed" => exited)
      \/ x = "loop"
      \/ exited
    BY <1>3, CountTypes
    DEF BeginFirstFrame, Listen, ListenTimesOut, PauseInput, TypingStops,
        Redraw, Quit, Search, Type, ReactorFails, Goto, PlacesOK, Thread
<1>5. pc["reactor"] = "loop" /\ exited => x = "restore"
    BY <1>1, <1>3, CountTypes
    DEF BeginFirstFrame, Listen, ListenTimesOut, PauseInput, TypingStops,
        Redraw, Quit, Search, Type, ReactorFails, Goto, PlacesOK, Thread
<1>6. Excused'
    BY <1>1, <1>3, <1>4, <1>5 DEF Count, Excused, lease
<1> QED
    BY <1>1, <1>2, <1>6, CountTypes, QuietCounts DEF Thread, lease

(* The reactor's steps at standard output.                                 *)
LEMMA DrawCounts ==
    ASSUME IInv, Count, LeaseInv', faults' \in 0..MaxFaults,
           BeginWrite \/ Write \/ WriteFails \/ BeginCursor \/ TurnCursor
           \/ CursorFails
    PROVE  Count'
<1> USE CountTypes, FaultsAssumption DEF At, Goto, Running, Thread
<1>1. /\ Running /\ process' = process
      /\ pc["reactor"] \in {"draw", "writing", "cursor", "turning"}
      /\ UNCHANGED <<slot, panicked, terminating>>
    BY DEF BeginWrite, Write, WriteFails, BeginCursor, TurnCursor, CursorFails,
           signals
<1>2. pc'["main"] = pc["main"] /\ pc'["reader"] = pc["reader"]
      /\ pc'["monitor"] = pc["monitor"]
    BY DEF BeginWrite, Write, WriteFails, BeginCursor, TurnCursor, CursorFails,
           ReactorFails, PlacesOK
<1>3. /\ pc'["reactor"] \notin Walks /\ pc'["reactor"] # "done"
      /\ pc'["reactor"] = "failed" \/ exited' => exited \/ faults' = faults + 1
    BY DEF BeginWrite, Write, WriteFails, BeginCursor, TurnCursor, CursorFails,
           ReactorFails, AfterWrite, Fault, PlacesOK, Walks, IInv, TypeOK, Tasks
<1>4. faults' \in Nat /\ faults' >= faults
    BY DEF BeginWrite, Write, WriteFails, BeginCursor, TurnCursor, CursorFails,
           Acquired, Released, Fault, lease
<1>5. Len(ledger') \in Nat
    BY DEF LeaseInv
<1>6. Owing' => Owing
    <2>1. CASE UNCHANGED ledger
        BY <2>1 DEF Owing
    <2>2. CASE TurnCursor \/ CursorFails
        <3>1. Inked
            BY <2>2 DEF TurnCursor, CursorFails, IInv, Held
        <3> QED
            BY <3>1 DEF Inked, IInv, LeaseInv, ObligationsCoverModes, Pending, Owing
    <2> QED
        BY <2>1, <2>2 DEF BeginWrite, Write, WriteFails, BeginCursor, lease
<1>7. \A t \in Thread : Passed(t)' => Passed(t)
    <2>1. stdout' \in {"reactor", None}
        BY DEF BeginWrite, Write, WriteFails, BeginCursor, TurnCursor,
               CursorFails, IInv, Held
    <2>2. CASE stdout' \in {"reactor", None}
        BY <1>3, <2>2 DEF Passed
    <2> QED
        BY <2>1, <2>2
<1>8. Excused'
    BY <1>1, <1>2, <1>3, <1>4 DEF Count, Excused
<1> QED
    BY <1>1, <1>2, <1>3, <1>4, <1>5, <1>6, <1>7, <1>8, AsideCounts

LEMMA ReaderCounts ==
    ASSUME IInv, Count,
           ReaderStops \/ ReaderPolls \/ ReaderPolled \/ ReaderFails
           \/ ReaderClassifies
    PROVE  Count'
<1> USE DEF At, Running
<1>1. /\ Running /\ stdout # "reader"
      /\ pc["reader"] \in {"idle", "poll", "classify"}
      /\ UNCHANGED <<ledger, stdout, slot, panicked, terminating, process>>
    BY DEF ReaderStops, ReaderPolls, ReaderPolled, ReaderFails,
           ReaderClassifies, IInv, Owner, Walks, Thread, signals, lease
<1>2. PICK x : Goto("reader", x)
    BY DEF ReaderStops, ReaderPolls, ReaderPolled, ReaderFails, ReaderClassifies
<1>3. pc'["reactor"] = pc["reactor"] /\ pc'["main"] = pc["main"]
    BY <1>2, CountTypes DEF Goto, PlacesOK, Thread
<1>4. \/ exited' = exited /\ faults' = faults
      \/ faults' = faults + 1
    BY DEF ReaderStops, ReaderPolls, ReaderPolled, ReaderFails,
           ReaderClassifies, Fault, lease
<1>5. faults' \in Nat /\ faults' >= faults
    BY <1>4, CountTypes
<1>6. Excused'
    BY <1>1, <1>3, <1>4, <1>5, CountTypes DEF Count, Excused
<1> QED
    BY <1>1, <1>2, <1>5, <1>6, CountTypes, QuietCounts DEF Thread

LEMMA MonitorCounts ==
    ASSUME IInv, Count, TakeSignal \/ MonitorLeaves \/ Terminate \/ Deliver
    PROVE  Count'
<1>1. CASE TakeSignal \/ MonitorLeaves
    <2> USE DEF At, Running
    <2>1. /\ Running /\ stdout # "monitor"
          /\ UNCHANGED <<lease, stdout, slot, panicked, process>>
          /\ terminating => terminating'
        BY <1>1
        DEF TakeSignal, MonitorLeaves, IInv, Owner, Walks, Thread, signals
    <2>2. PICK x : Goto("monitor", x)
        BY <1>1 DEF TakeSignal, MonitorLeaves
    <2>3. pc'["reactor"] = pc["reactor"] /\ pc'["main"] = pc["main"]
        BY <2>2, CountTypes DEF Goto, PlacesOK, Thread
    <2>4. Excused'
        BY <1>1, <2>1, <2>3
        DEF TakeSignal, MonitorLeaves, Count, Excused, signals, lease
    <2> QED
        BY <2>1, <2>2, <2>4, CountTypes, QuietCounts DEF Thread, lease
<1>2. CASE Terminate
    <2>1. /\ Passed("monitor") \/ ~Owing
          /\ process' = "signalled"
          /\ UNCHANGED <<lease, exited, stdout, pc, slot, panicked, terminating>>
        BY <1>2 DEF Terminate, Walking, Passed, Owing, signals
    <2>2. Owing => faults >= 1
        BY <2>1 DEF Count, Tried, Thread
    <2> QED
        BY <2>1, <2>2
        DEF Count, Fresh, Tried, Enough, Excused, Ending, Running, Passed, Owing,
            lease
<1>3. CASE Deliver
    <2>1. /\ process = "running" /\ process' \in {"running", "cut"}
          /\ UNCHANGED <<lease, exited, stdout, pc, slot, panicked, terminating>>
        BY <1>3 DEF Deliver, Running
    <2>2. Left' = Left /\ Needed' = Needed
        BY <2>1 DEF Left, Needed
    <2> QED
        BY <2>1, <2>2
        DEF Count, Fresh, Tried, Enough, Excused, Ending, Running, Passed, Owing,
            lease
<1> QED
    BY <1>1, <1>2, <1>3

LEMMA WalkCounts ==
    ASSUME IInv, Count, LeaseInv', faults' \in 0..MaxFaults,
           NEW t \in Thread, Walk(t)
    PROVE  Count'
<1> USE FaultsAssumption
<1>0. Len(ledger') \in Nat /\ faults' \in Nat
    BY DEF LeaseInv
<1>1. CASE BeginWalk(t)
    <2>1. /\ Running /\ stdout = None /\ stdout' = t
          /\ slot'[t] = Len(ledger)
          /\ UNCHANGED <<lease, exited, pc, panicked, terminating, process>>
        BY <1>1, CountTypes DEF BeginWalk, signals
    <2>2. \A u \in Thread : ~Passed(u)'
        BY <2>1, CountTypes DEF Passed, lease
    <2>3. Excused'
        BY <2>1 DEF Count, Excused, lease
    <2> QED
        BY <1>0, <2>1, <2>2, <2>3, CountTypes, AsideCounts DEF Fresh, Count, Owing, lease
<1>2. CASE ReleaseNext(t)
    <2>1. /\ Running /\ stdout = t /\ slot[t] > 0 /\ slot[t] <= Len(ledger)
          /\ slot'[t] = slot[t] - 1
          /\ UNCHANGED <<exited, stdout, pc, panicked, terminating, process>>
        BY <1>2, CountTypes DEF ReleaseNext, Walking, IInv, Slots, signals
    <2>2. CASE Released(slot[t])
        <3>1. Len(ledger) - 1 \in Nat
            BY <2>1, CountTypes
        <3>2. faults' = faults /\ Len(ledger') = Len(ledger) - 1
            BY <2>2, <3>1 DEF Released, Cleared
        <3>3. \A u \in Thread : Passed(u)' => Passed(u)
            BY <2>1, <3>2, CountTypes DEF Passed
        <3>4. Owing' => Owing
            BY <3>2, CountTypes DEF Owing
        <3>5. Excused'
            BY <2>1, <3>2 DEF Count, Excused
        <3>6. pc'["reactor"] = "done" => pc["reactor"] = "done"
            BY <2>1
        <3> QED
            BY <1>0, <2>1, <3>2, <3>3, <3>4, <3>5, <3>6, CountTypes, AsideCounts
    <2>3. CASE ReleaseBroken(slot[t]) /\ Fault
        <3>1. faults' = faults + 1 /\ ledger' = ledger
            BY <2>3 DEF ReleaseBroken, Fault
        <3>2. Fresh' /\ Tried' /\ Excused' /\ Ending'
            BY <2>1, <3>1, CountTypes
            DEF Count, Fresh, Tried, Excused, Ending, Owing, Running
        <3>3. Left' = Left /\ Needed' = Needed
            BY <2>1 DEF Left, Needed
        <3>4. Enough'
            BY <2>1, <3>1, <3>3, CountTypes DEF Count, Enough, Owing, Running
        <3> QED
            BY <3>2, <3>4 DEF Count
    <2> QED
        BY <1>2, <2>2, <2>3 DEF ReleaseNext
<1>3. CASE EndWalk(t)
    <2>1. /\ Running /\ stdout = t /\ slot[t] = 0 /\ stdout' = None
          /\ pc[t] \in Walks \ {"drop"} /\ t # "monitor"
          /\ pc'[t] = AfterWalk(t)
          /\ \A u \in Thread \ {t} : pc'[u] = pc[u]
          /\ UNCHANGED <<lease, exited, panicked, terminating, process>>
        BY <1>3, CountTypes DEF EndWalk, Walking, Goto, PlacesOK, signals
    <2>2. \A u \in Thread : ~Passed(u)'
        BY <2>1, CountTypes DEF Passed
    <2>3. Owing => Passed(t)
        BY <2>1, CountTypes DEF Passed, Owing
    <2>4. Owing' = Owing
        BY <2>1 DEF Owing, lease
    <2>5. CASE t = "main"
        <3>1. /\ pc["main"] \in
                     {"undo", "errorRestore", "cleanup", "recatch", "hook"}
              /\ pc'["main"] = IF pc["main"] \in {"undo", "errorRestore"}
                               THEN "cleanup"
                               ELSE IF pc["main"] = "hook" THEN "scope" ELSE "wait"
            BY <2>1, <2>5, CountTypes DEF AfterWalk, PlacesOK, MainAt, Walks
        <3>2. Left' = Left - 1 /\ Left \in 1..4 /\ Needed' = Needed
            BY <2>1, <3>1 DEF Left, Needed
        <3>3. pc'["reactor"] = pc["reactor"]
            BY <2>1, <2>5 DEF Thread
        <3>4. Fresh' /\ Tried' /\ Excused' /\ Ending'
            BY <2>1, <2>2, <2>4, <3>1, <3>3
            DEF Count, Fresh, Tried, Excused, Ending, Running
        <3>5. Owing => faults + Left > Needed
            BY <2>1, <2>3, <2>5, <3>1 DEF Count, Enough, Leaving
        <3>6. Enough'
            BY <2>1, <2>2, <2>4, <3>2, <3>5, CountTypes DEF Enough, Thread, lease
        <3> QED
            BY <3>4, <3>6 DEF Count
    <2>6. CASE t \in {"reactor", "reader"}
        <3>1. pc'["main"] = pc["main"]
            BY <2>1, <2>6 DEF Thread
        <3>2. pc'["reactor"] = "done" => pc["reactor"] = "done" \/ ~Owing'
            BY <2>1, <2>4, <2>6, CountTypes
            DEF AfterWalk, Owing, PlacesOK, ReactorAt, Walks, Ended, Thread
        <3>3. Excused'
            <4>1. CASE t = "reader"
                BY <2>1, <3>1, <4>1 DEF Count, Excused, Thread, lease
            <4>2. CASE t = "reactor" /\ pc["reactor"] = "restore"
                <5>1. /\ pc'["reactor"] = IF ledger = <<>> THEN "done" ELSE "failed"
                      /\ ledger = <<>> \/ Owing
                    BY <2>1, <4>2, CountTypes DEF AfterWalk, Owing, IInv, LeaseInv
                <5>2. Owing => faults' >= 1
                    BY <2>1, <2>3 DEF Count, Tried, lease
                <5> QED
                    BY <5>1, <5>2 DEF Excused
            <4>3. CASE t = "reactor" /\ pc["reactor"] # "restore"
                <5>1. exited
                    BY <2>1 DEF IInv, Stopped
                <5> QED
                    BY <2>1, <3>1, <4>3, <5>1, CountTypes
                    DEF Count, Excused, PlacesOK, ReactorAt, Walks, Ended, lease
            <4> QED
                BY <2>6, <4>1, <4>2, <4>3
        <3> QED
            BY <1>0, <2>1, <2>2, <2>4, <3>1, <3>2, <3>3, CountTypes, AsideCounts
            DEF lease
    <2> QED
        BY <2>1, <2>5, <2>6 DEF Thread
<1> QED
    BY <1>1, <1>2, <1>3 DEF Walk

LEMMA PanicCounts ==
    ASSUME IInv, Count, LeaseInv', NEW t \in Thread,
           Panic(t) \/ PanicHolding(t) \/ (PanicWriting /\ t = "reactor")
    PROVE  Count'
<1>1. /\ Running /\ panicked' = panicked \cup {t}
      /\ UNCHANGED <<faults, terminating, process>>
      /\ Len(ledger') \in Nat
      /\ Excused'
    <2>1. PanicStarts(t)
        BY DEF Panic, PanicHolding, PanicWriting
    <2>2. /\ Running /\ panicked' = panicked \cup {t}
          /\ UNCHANGED <<faults, terminating, process>>
        BY <2>1 DEF PanicStarts, signals
    <2>3. Len(ledger') \in Nat
        BY DEF LeaseInv
    <2>4. Excused'
        BY <2>2 DEF Excused
    <2> QED
        BY <2>2, <2>3, <2>4
<1>2. CASE Panic(t)
    <2>1. /\ t \in {"reactor", "reader"} /\ Goto(t, "hook")
          /\ pc[t] \in {"draw", "listen", "typing", "classify"}
          /\ UNCHANGED <<ledger, stdout, slot>>
        BY <1>2 DEF Panic
    <2>2. stdout # t
        BY <2>1 DEF IInv, Owner, Walks
    <2> QED
        BY <1>1, <2>1, <2>2, CountTypes, QuietCounts
<1>3. CASE PanicWriting /\ t = "reactor"
    <2>1. /\ pc["reactor"] = "writing" /\ Goto("reactor", "hook")
          /\ slot' = [slot EXCEPT !["reactor"] = Len(ledger)]
          /\ UNCHANGED <<ledger, stdout>>
        BY <1>3 DEF PanicWriting
    <2>2. stdout = "reactor"
        BY <2>1 DEF IInv, Held
    <2>3. pc'["main"] = pc["main"] /\ pc'["reactor"] = "hook"
        BY <2>1, CountTypes DEF Goto, PlacesOK, Thread
    <2>4. \A u \in Thread : ~Passed(u)'
        BY <2>1, <2>2, CountTypes DEF Passed, Thread
    <2>5. Owing' = Owing
        BY <2>1 DEF Owing
    <2> QED
        BY <1>1, <2>3, <2>4, <2>5, CountTypes, AsideCounts
<1>4. CASE PanicHolding(t)
    <2>1. /\ stdout' = None
          /\ pc'[t] = IF t = "main" THEN "recatch" ELSE "panicked"
          /\ \A u \in Thread \ {t} : pc'[u] = pc[u]
        BY <1>4, CountTypes DEF PanicHolding, Goto, PlacesOK
    <2>2. \A u \in Thread : ~Passed(u)'
        BY <2>1, CountTypes DEF Passed
    <2>3. CASE t = "main"
        <3>1. pc'["main"] = "recatch" /\ pc'["reactor"] = pc["reactor"]
            BY <2>1, <2>3 DEF Thread
        <3>2. Left' = 2 /\ Needed' = 2
            BY <1>1, <3>1 DEF Left, Needed
        <3>3. pc["reactor"] = "unborn" \/ UNCHANGED ledger
            BY <1>4, <2>3 DEF PanicHolding, ReleaseBroken, IInv, Held
        <3>4. Fresh' /\ Tried' /\ Ending'
            BY <1>1, <2>2, <3>1, <3>3
            DEF Count, Fresh, Tried, Ending, Owing, Running
        <3>5. Enough'
            BY <1>1, <2>2, <3>2, CountTypes DEF Enough, Thread
        <3> QED
            BY <1>1, <3>4, <3>5 DEF Count
    <2>4. CASE t # "main"
        <3>1. pc'["main"] = pc["main"]
              /\ (pc'["reactor"] = "done" => pc["reactor"] = "done")
            BY <2>1, <2>4 DEF Thread
        <3>2. Owing' => Owing
            <4>1. CASE pc["reactor"] = "turning"
                BY <4>1
                DEF Inked, IInv, Held, LeaseInv, ObligationsCoverModes, Pending,
                    Owing
            <4>2. CASE UNCHANGED ledger
                BY <4>2 DEF Owing
            <4> QED
                BY <1>4, <2>4, <4>1, <4>2 DEF PanicHolding, ReleaseBroken
        <3> QED
            BY <1>1, <2>2, <3>1, <3>2, CountTypes, AsideCounts
    <2> QED
        BY <2>3, <2>4
<1> QED
    BY <1>2, <1>3, <1>4

LEMMA CountKeeps ==
    ASSUME IInv, Count, [Next]_vars
    PROVE  Count'
<1>1. CASE UNCHANGED vars
    <2>1. Left' = Left /\ Needed' = Needed /\ Owing' = Owing
        BY <1>1 DEF Left, Needed, Owing, vars, signals, lease
    <2>2. \A t \in Thread : Passed(t)' = Passed(t)
        BY <1>1 DEF Passed, vars, lease
    <2>3. Fresh' /\ Tried' /\ Excused' /\ Ending'
        BY <1>1, <2>1, <2>2
        DEF Count, Fresh, Tried, Excused, Ending, vars, signals, lease
    <2>4. Enough'
        BY <1>1, <2>1, <2>2
        DEF Count, Enough, Running, Thread, vars, lease
    <2> QED
        BY <2>3, <2>4 DEF Count
<1>2. CASE Next
    <2>1. LeaseInv' /\ faults' \in 0..MaxFaults
        BY <1>2, StepsAreLeaseSteps, LeaseStepKeeps DEF IInv
    <2>2. CASE \E t \in Thread : Walk(t)
        BY <2>1, <2>2, WalkCounts
    <2>3. CASE MainStep
        BY <2>2, <2>3, MainCounts DEF MainStep, Thread
    <2>4. CASE ReactorStep
        BY <2>1, <2>2, <2>4, ReactorCounts, DrawCounts DEF ReactorStep, Thread
    <2>5. CASE ReaderStep
        BY <2>2, <2>5, ReaderCounts DEF ReaderStep, Thread
    <2>6. CASE MonitorStep
        BY <2>2, <2>6, MonitorCounts DEF MonitorStep, Thread
    <2>7. CASE Environment
        BY <2>1, <2>7, ReactorCounts, MonitorCounts, PanicCounts
        DEF Environment, Thread
    <2>8. CASE Over
        BY <1>1, <2>8 DEF Over
    <2> QED
        BY <1>2, <2>3, <2>4, <2>5, <2>6, <2>7, <2>8 DEF Next
<1> QED
    BY <1>1, <1>2

(* However the pager's process ends by its own code, the terminal is the   *)
(* user's again: a session that returns outlives three failed terminal     *)
(* operations, one that panics outlives one, and one that ends by a signal *)
(* gives everything back if nothing fails.                                 *)
THEOREM TerminalGivenBack == Spec => []GivesTheTerminalBack
<1>1. Spec => []Count
    BY CountInit, CountKeeps, Invariance, PTL DEF Spec
<1>2. IInv /\ Count => GivesTheTerminalBack
    <2> SUFFICES ASSUME IInv, Count,
                        \/ process = "returned" /\ faults <= 3
                        \/ process = "panicked" /\ faults <= 1
                        \/ process = "signalled" /\ faults = 0
                 PROVE  modes = {}
        BY DEF GivesTheTerminalBack
    <2>1. ~Owing
        BY CountTypes DEF Count, Ending
    <2>2. Len(ledger) = 0
        BY <2>1, CountTypes DEF Owing
    <2> QED
        BY <2>2 DEF IInv, LeaseInv, ObligationsCoverModes, Pending
<1> QED
    BY <1>1, <1>2, Invariance, PTL
=============================================================================
