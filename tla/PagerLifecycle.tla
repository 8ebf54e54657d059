--------------------------- MODULE PagerLifecycle ---------------------------
(***************************************************************************)
(* The life of the static pager (crates/mant/src/delivery/pager.rs, its    *)
(* lifecycle.rs, signals.rs and the drivers of the vendored core/init.rs): *)
(* four threads share standard output, a stop flag and one ledger of       *)
(* terminal modes, and the terminal must be given back however the session *)
(* ends: the user quits, a worker fails, a worker panics, a signal comes.  *)
(*                                                                         *)
(*   main     page_all: take the modes, run the two workers, give back     *)
(*   reactor  start_reactor: draw, handle commands, ask for a search       *)
(*   reader   event_reader: poll the terminal for input                    *)
(*   monitor  poll for a termination signal, give back, die of it          *)
(*                                                                         *)
(* Locks.  Standard output is `stdout`.  The ledger's mutex is only taken  *)
(* below it, so whoever walks the ledger holds both.  The pager state's    *)
(* mutex is held by the reactor at HoldsState; the gate of the input       *)
(* reader is held by the reader while it polls.                            *)
(*                                                                         *)
(* A store to the stop flag that comes just before a wait for standard     *)
(* output (restore_then, the panic hook) belongs to the step before that   *)
(* wait: nothing reads between them.                                       *)
(***************************************************************************)
EXTENDS TerminalLease, FiniteSets

CONSTANTS
    MaxPanics,  \* bound: threads in which a panic starts
    None        \* nobody

ASSUME PagerAssumption ==
    /\ MaxPanics \in Nat
    /\ None \notin {"main", "reactor", "reader", "monitor"}

Thread  == {"main", "reactor", "reader", "monitor"}
Workers == {"reactor", "reader"}

(* The order in which the pager takes the modes. *)
SetupOrder == <<"AlternateScreen", "RawMode", "MouseCapture", "HiddenCursor">>

(* What the reactor writes: the first frame, a redraw, the search prompt,  *)
(* the echo of a key, the end of the prompt and the flush after it.        *)
Tasks == {"start", "redraw", "ask", "type", "answer", "resume"}

Ended == {"done", "failed", "panicked"}

(* Where a thread gives the terminal back. *)
Walks ==
    {"undo", "restore", "errorRestore", "cleanup", "hook", "recatch", "drop"}

VARIABLES
    exited,     \* the stop flag every thread polls
    stdout,     \* who holds standard output
    pc,         \* where each thread is
    slot,       \* the ledger slot a thread is at while it holds the ledger
    task,       \* what the reactor is writing
    active,     \* whether the input reader may poll
    ready,      \* PostPagerStart ran: the monitor may act on a signal
    signal,     \* a termination signal is pending
    terminating,\* the monitor took one: the next has its default action
    panicked,   \* the threads that panicked
    process     \* how the process ended

signals == <<ready, signal, terminating>>
vars == <<lease, exited, stdout, pc, slot, task, active, signals, panicked,
          process>>

Running == process = "running"
At(t, label) == Running /\ pc[t] = label
Goto(t, label) == pc' = [pc EXCEPT ![t] = label]
Finished(t) == pc[t] \in Ended

(* The reactor holds the pager state while it draws or handles a command. *)
HoldsState ==
    pc["reactor"] \in
        {"draw", "writing", "cursor", "turning", "typing", "pause", "hook"}

Init ==
    /\ LeaseInit
    /\ exited = FALSE
    /\ stdout = None
    /\ pc = [t \in Thread |-> IF t = "main" THEN "begin"
                             ELSE IF t = "monitor" THEN "watch" ELSE "unborn"]
    /\ slot = [t \in Thread |-> 0]
    /\ task = "start"
    /\ active = TRUE
    /\ ready = FALSE
    /\ signal = FALSE
    /\ terminating = FALSE
    /\ panicked = {}
    /\ process = "running"

----------------------------------------------------------------------------
(***************************************************************************)
(* Giving back, by any thread: wait for standard output, walk the ledger   *)
(* from the newest obligation to the oldest, let go.                       *)
(***************************************************************************)
Walking(t) == Running /\ pc[t] \in Walks /\ stdout = t

BeginWalk(t) ==
    /\ Running
    /\ pc[t] \in Walks
    /\ stdout = None
    /\ stdout' = t
    /\ slot' = [slot EXCEPT ![t] = Len(ledger)]
    /\ UNCHANGED <<lease, exited, pc, task, active, signals, panicked, process>>

ReleaseNext(t) ==
    /\ Walking(t)
    /\ slot[t] > 0
    /\ Released(slot[t]) \/ (ReleaseBroken(slot[t]) /\ Fault)
    /\ slot' = [slot EXCEPT ![t] = @ - 1]
    /\ UNCHANGED <<exited, stdout, pc, task, active, signals, panicked, process>>

(* Where a thread goes once its walk is over.  Whatever a walk could not   *)
(* release is still in the ledger: that is its error.                      *)
AfterWalk(t) ==
    CASE pc[t] = "undo"         -> "cleanup"
      [] pc[t] = "errorRestore" -> "cleanup"
      [] pc[t] = "cleanup"      -> "wait"
      [] pc[t] = "recatch"      -> "wait"
      [] pc[t] = "restore"      -> IF ledger = <<>> THEN "done" ELSE "failed"
      [] pc[t] = "hook"         -> IF t = "main" THEN "scope" ELSE "panicked"

EndWalk(t) ==
    /\ Walking(t)
    /\ slot[t] = 0
    /\ pc[t] # "drop" /\ t # "monitor"
    /\ stdout' = None
    /\ Goto(t, AfterWalk(t))
    /\ UNCHANGED <<lease, exited, slot, task, active, signals, panicked, process>>

(* The monitor terminates with standard output still held. *)
Terminate ==
    /\ Walking("monitor")
    /\ slot["monitor"] = 0
    /\ process' = "signalled"
    /\ UNCHANGED <<lease, exited, stdout, pc, slot, task, active, signals,
                   panicked>>

(* The last owner drops the terminal; main then returns or unwinds. *)
Return ==
    /\ Walking("main") /\ pc["main"] = "drop"
    /\ slot["main"] = 0
    /\ process' = IF panicked = {} THEN "returned" ELSE "panicked"
    /\ stdout' = None
    /\ UNCHANGED <<lease, exited, pc, slot, task, active, signals, panicked>>

----------------------------------------------------------------------------
(* Main. *)

(* Text that fits the screen is written directly: no mode is ever taken.   *)
WriteDirectly ==
    /\ At("main", "begin")
    /\ Goto("main", "wait")
    /\ UNCHANGED <<lease, exited, stdout, slot, task, active, signals, panicked,
                   process>>

BeginSetup ==
    /\ At("main", "begin")
    /\ stdout = None
    /\ IF exited
       THEN Goto("main", "cleanup") /\ UNCHANGED <<stdout, slot>>
       ELSE /\ Goto("main", "setup")
            /\ stdout' = "main"
            /\ slot' = [slot EXCEPT !["main"] = 1]
    /\ UNCHANGED <<lease, exited, task, active, signals, panicked, process>>

\* Mutant: one slot too many.
SetupNextTooFar ==
    /\ At("main", "setup")
    /\ Acquired(SetupOrder[slot["main"]])
    /\ slot' = [slot EXCEPT !["main"] = @ + 1]
    /\ UNCHANGED <<exited, stdout, pc, task, active, signals, panicked, process>>

(* The next mode is taken; after the last one the workers start. *)
SetupNext ==
    /\ At("main", "setup")
    /\ Acquired(SetupOrder[slot["main"]])
    /\ IF slot["main"] < Len(SetupOrder)
       THEN /\ slot' = [slot EXCEPT !["main"] = @ + 1]
            /\ UNCHANGED <<stdout, pc>>
       ELSE /\ slot' = [slot EXCEPT !["main"] = 0]
            /\ stdout' = None
            /\ pc' = [pc EXCEPT !["main"] = "join", !["reactor"] = "start",
                                !["reader"] = "idle"]
    /\ UNCHANGED <<exited, task, active, signals, panicked, process>>

(* Setup fails: stop, and undo what was attempted under the same locks. *)
SetupFails ==
    /\ At("main", "setup")
    /\ AcquireBroken(SetupOrder[slot["main"]])
    /\ Fault
    /\ exited' = TRUE
    /\ Goto("main", "undo")
    /\ slot' = [slot EXCEPT !["main"] = Len(ledger')]
    /\ UNCHANGED <<stdout, task, active, signals, panicked, process>>

(* The reader is joined first; a worker's panic is main's panic, and the   *)
(* scope waits for the other worker before it unwinds.                     *)
Join ==
    /\ At("main", "join")
    /\ Finished("reader")
    /\ \/ /\ \E w \in Workers : pc[w] = "panicked"
          /\ pc["reader"] = "panicked" \/ Finished("reactor")
          /\ exited' = TRUE
          /\ panicked' = panicked \cup {"main"}
          /\ Goto("main", "hook")
       \/ /\ Finished("reactor")
          /\ \A w \in Workers : pc[w] # "panicked"
          /\ Goto("main", IF \E w \in Workers : pc[w] = "failed"
                          THEN "errorRestore" ELSE "cleanup")
          /\ exited' = TRUE
          /\ UNCHANGED panicked
    /\ UNCHANGED <<lease, stdout, slot, task, active, signals, process>>

Unwind ==
    /\ At("main", "scope")
    /\ Finished("reactor")
    /\ exited' = TRUE
    /\ Goto("main", "recatch")
    /\ UNCHANGED <<lease, stdout, slot, task, active, signals, panicked, process>>

\* Mutant: main returns without waiting for the monitor.
JoinMonitorEarly ==
    /\ At("main", "wait")
    /\ Goto("main", "drop")
    /\ UNCHANGED <<lease, exited, stdout, slot, task, active, signals, panicked,
                   process>>

(* `done` is dropped; the monitor is joined before anything else. *)
JoinMonitor ==
    /\ At("main", "wait")
    /\ Finished("monitor")
    /\ Goto("main", "drop")
    /\ UNCHANGED <<lease, exited, stdout, slot, task, active, signals, panicked,
                   process>>

----------------------------------------------------------------------------
(* The reactor. *)

ReactorFails ==
    /\ Goto("reactor", "failed")
    /\ exited' = TRUE

(* The pager state is taken for the first frame. *)
BeginFirstFrame ==
    /\ At("reactor", "start")
    /\ pc["reader"] # "hook"
    /\ Goto("reactor", "draw")
    /\ UNCHANGED <<lease, exited, stdout, slot, task, active, signals, panicked,
                   process>>

\* Mutant: the stop flag is read before standard output is locked.
BeginWriteUnlocked ==
    /\ At("reactor", "draw")
    /\ IF exited THEN ReactorFails ELSE Goto("reactor", "writing") /\ UNCHANGED exited
    /\ UNCHANGED <<lease, stdout, slot, task, active, signals, panicked, process>>

(* PagerOutput: the stop flag is read with standard output already held.   *)
(* One write stands for the writes of a draw.                              *)
BeginWrite ==
    /\ At("reactor", "draw")
    /\ stdout = None
    /\ IF exited
       THEN ReactorFails /\ UNCHANGED stdout
       ELSE /\ Goto("reactor", "writing")
            /\ stdout' = "reactor"
            /\ UNCHANGED exited
    /\ UNCHANGED <<lease, slot, task, active, signals, panicked, process>>

AfterWrite ==
    CASE task \in {"start", "redraw", "resume"} -> "loop"
      [] task \in {"ask", "answer"}             -> "cursor"
      [] task = "type"                          -> "typing"

\* Mutant: the monitor is never told that the session has started.
WriteUnannounced ==
    /\ At("reactor", "writing")
    /\ stdout' = None
    /\ Goto("reactor", AfterWrite)
    /\ active' = (active \/ task = "resume")
    /\ UNCHANGED <<lease, exited, slot, task, signals, panicked, process>>

Write ==
    /\ At("reactor", "writing")
    /\ stdout' = None
    /\ Goto("reactor", AfterWrite)
    /\ ready' = (ready \/ task = "start")
    /\ active' = (active \/ task = "resume")
    /\ UNCHANGED <<lease, exited, slot, task, signal, terminating, panicked,
                   process>>

WriteFails ==
    /\ At("reactor", "writing")
    /\ Fault
    /\ stdout' = None
    /\ ReactorFails
    /\ UNCHANGED <<modes, ledger, slot, task, active, signals, panicked, process>>

(* The static loop looks at the stop flag, then waits 100 ms for a command. *)
Listen ==
    /\ At("reactor", "loop")
    /\ Goto("reactor", IF exited THEN "restore" ELSE "listen")
    /\ UNCHANGED <<lease, exited, stdout, slot, task, active, signals, panicked,
                   process>>

ListenTimesOut ==
    /\ At("reactor", "listen")
    /\ Goto("reactor", "loop")
    /\ UNCHANGED <<lease, exited, stdout, slot, task, active, signals, panicked,
                   process>>

Redraw ==
    /\ At("reactor", "listen")
    /\ pc["reader"] # "hook"
    /\ task' = "redraw"
    /\ Goto("reactor", "draw")
    /\ UNCHANGED <<lease, exited, stdout, slot, active, signals, panicked, process>>

Quit ==
    /\ At("reactor", "listen")
    /\ pc["reader"] # "hook"
    /\ exited' = TRUE
    /\ Goto("reactor", "loop")
    /\ UNCHANGED <<lease, stdout, slot, task, active, signals, panicked, process>>

(* A search pauses the input reader; its gate is held while it polls. *)
Search ==
    /\ At("reactor", "listen")
    /\ pc["reader"] # "hook"
    /\ Goto("reactor", "pause")
    /\ UNCHANGED <<lease, exited, stdout, slot, task, active, signals, panicked,
                   process>>

PauseInput ==
    /\ At("reactor", "pause")
    /\ pc["reader"] # "poll"
    /\ active' = FALSE
    /\ IF exited THEN ReactorFails ELSE Goto("reactor", "draw") /\ UNCHANGED exited
    /\ task' = "ask"
    /\ UNCHANGED <<lease, stdout, slot, signals, panicked, process>>

(* cursor_visible: show it after the prompt, hide it after the answer. *)
BeginCursor ==
    /\ At("reactor", "cursor")
    /\ stdout = None
    /\ IF exited
       THEN ReactorFails /\ UNCHANGED stdout
       ELSE /\ Goto("reactor", "turning")
            /\ stdout' = "reactor"
            /\ UNCHANGED exited
    /\ UNCHANGED <<lease, slot, task, active, signals, panicked, process>>

CursorSlot(i) == i \in 1..Len(ledger) /\ ledger[i] = "HiddenCursor"

TurnCursor ==
    /\ At("reactor", "turning")
    /\ \/ /\ task = "ask"
          /\ \E i \in 1..Len(ledger) : CursorSlot(i) /\ Released(i)
          /\ task' = "type"
       \/ /\ task = "ask"
          /\ ~Pending("HiddenCursor")
          /\ task' = "type"
          /\ UNCHANGED lease
       \/ /\ task = "answer"
          /\ Acquired("HiddenCursor")
          /\ task' = "resume"
       \/ /\ task = "answer"
          /\ Pending("HiddenCursor")
          /\ task' = "resume"
          /\ UNCHANGED lease
    /\ stdout' = None
    /\ Goto("reactor", "draw")
    /\ UNCHANGED <<exited, slot, active, signals, panicked, process>>

CursorFails ==
    /\ At("reactor", "turning")
    /\ Fault
    /\ \/ /\ task = "ask"
          /\ \E i \in 1..Len(ledger) : CursorSlot(i) /\ ReleaseBroken(i)
       \/ /\ task = "answer"
          /\ AcquireBroken("HiddenCursor")
    /\ stdout' = None
    /\ ReactorFails
    /\ UNCHANGED <<slot, task, active, signals, panicked, process>>

(* The search prompt: a key is echoed, the query is finished, or the       *)
(* session has stopped, which the prompt polls for.                        *)
Type ==
    /\ At("reactor", "typing")
    /\ task' \in {"type", "answer"}
    /\ Goto("reactor", "draw")
    /\ UNCHANGED <<lease, exited, stdout, slot, active, signals, panicked, process>>

\* Mutant: the search prompt blocks until the next key.
TypingStopsNever == FALSE /\ UNCHANGED vars

TypingStops ==
    /\ At("reactor", "typing")
    /\ exited
    /\ ReactorFails
    /\ UNCHANGED <<lease, stdout, slot, task, active, signals, panicked, process>>

----------------------------------------------------------------------------
(* The input reader. *)

(* A paused reader wakes up every 100 ms to look at the stop flag. *)
ReaderStops ==
    /\ At("reader", "idle")
    /\ exited
    /\ Goto("reader", "done")
    /\ UNCHANGED <<lease, exited, stdout, slot, task, active, signals, panicked,
                   process>>

ReaderPolls ==
    /\ At("reader", "idle")
    /\ ~exited
    /\ active
    /\ Goto("reader", "poll")
    /\ UNCHANGED <<lease, exited, stdout, slot, task, active, signals, panicked,
                   process>>

(* The poll times out, or brings an event. *)
ReaderPolled ==
    /\ At("reader", "poll")
    /\ \E next \in {"idle", "classify"} : Goto("reader", next)
    /\ UNCHANGED <<lease, exited, stdout, slot, task, active, signals, panicked,
                   process>>

ReaderFails ==
    /\ At("reader", "poll")
    /\ Fault
    /\ exited' = TRUE
    /\ Goto("reader", "failed")
    /\ UNCHANGED <<modes, ledger, stdout, slot, task, active, signals, panicked,
                   process>>

(* An event is classified, and sent on, under the pager state's mutex. *)
ReaderClassifies ==
    /\ At("reader", "classify")
    /\ ~HoldsState
    /\ Goto("reader", "idle")
    /\ UNCHANGED <<lease, exited, stdout, slot, task, active, signals, panicked,
                   process>>

----------------------------------------------------------------------------
(* Signals and the monitor. *)

(* A handler only records the signal; once the monitor acts on one, the    *)
(* next ends the process where it stands.                                  *)
Deliver ==
    /\ Running
    /\ ~Finished("monitor")
    /\ IF terminating
       THEN process' = "cut" /\ UNCHANGED signal
       ELSE signal' = TRUE /\ UNCHANGED process
    /\ UNCHANGED <<lease, exited, stdout, pc, slot, task, active, ready,
                   terminating, panicked>>

TakeSignal ==
    /\ At("monitor", "watch")
    /\ signal
    /\ ready \/ pc["main"] = "wait"
    /\ signal' = FALSE
    /\ terminating' = TRUE
    /\ exited' = TRUE
    /\ Goto("monitor", "restore")
    /\ UNCHANGED <<lease, stdout, slot, task, active, ready, panicked, process>>

MonitorLeaves ==
    /\ At("monitor", "watch")
    /\ pc["main"] = "wait"
    /\ ~signal
    /\ Goto("monitor", "done")
    /\ UNCHANGED <<lease, exited, stdout, slot, task, active, signals, panicked,
                   process>>

----------------------------------------------------------------------------
(***************************************************************************)
(* Panics.  The hook raises the stop flag and gives the terminal back in   *)
(* the panicking thread.  It never waits for the ledger its own thread     *)
(* holds: it leaves that to the boundary that catches the unwinding.       *)
(***************************************************************************)
\* Mutant: the hook gives the terminal back without stopping the session.
PanicStartsQuietly(t) ==
    /\ Running
    /\ Cardinality(panicked) < MaxPanics
    /\ panicked' = panicked \cup {t}
    /\ UNCHANGED <<faults, exited, task, active, signals, process>>

PanicStarts(t) ==
    /\ Running
    /\ Cardinality(panicked) < MaxPanics
    /\ panicked' = panicked \cup {t}
    /\ exited' = TRUE
    /\ UNCHANGED <<faults, task, active, signals, process>>

Panic(t) ==
    /\ PanicStarts(t)
    /\ \/ /\ t = "reactor"
          /\ pc[t] \in {"draw", "listen", "typing"}
          /\ pc[t] = "listen" => pc["reader"] # "hook"
       \/ t = "reader" /\ pc[t] = "classify" /\ ~HoldsState
    /\ Goto(t, "hook")
    /\ UNCHANGED <<modes, ledger, stdout, slot>>

(* Standard output is reentrant: the hook walks at once. *)
PanicWriting ==
    /\ PanicStarts("reactor")
    /\ pc["reactor"] = "writing"
    /\ Goto("reactor", "hook")
    /\ slot' = [slot EXCEPT !["reactor"] = Len(ledger)]
    /\ UNCHANGED <<modes, ledger, stdout>>

(* A terminal operation breaks off by a panic, with the ledger held. *)
PanicHolding(t) ==
    /\ PanicStarts(t)
    /\ \/ /\ t = "main" /\ pc[t] = "setup"
          /\ AcquireBroken(SetupOrder[slot[t]])
       \/ /\ Walking(t) /\ pc[t] \notin {"hook", "recatch", "drop"}
          /\ slot[t] > 0
          /\ ReleaseBroken(slot[t])
       \/ /\ t = "reactor" /\ pc[t] = "turning"
          /\ \/ /\ task = "ask"
                /\ \E i \in 1..Len(ledger) : CursorSlot(i) /\ ReleaseBroken(i)
             \/ task = "answer" /\ AcquireBroken("HiddenCursor")
    /\ stdout' = None
    /\ slot' = [slot EXCEPT ![t] = 0]
    /\ Goto(t, IF t = "main" THEN "recatch" ELSE "panicked")

----------------------------------------------------------------------------

Walk(t) == BeginWalk(t) \/ ReleaseNext(t) \/ EndWalk(t)

MainStep ==
    \/ WriteDirectly \/ BeginSetup \/ SetupNext \/ SetupFails
    \/ Join \/ Unwind \/ JoinMonitor
    \/ Walk("main") \/ Return

ReactorStep ==
    \/ BeginFirstFrame \/ BeginWrite \/ Write \/ WriteFails
    \/ Listen \/ ListenTimesOut
    \/ PauseInput \/ BeginCursor \/ TurnCursor \/ CursorFails \/ TypingStops
    \/ Walk("reactor")

ReaderStep ==
    \/ ReaderStops \/ ReaderPolls \/ ReaderPolled \/ ReaderFails
    \/ ReaderClassifies
    \/ Walk("reader")

MonitorStep ==
    \/ TakeSignal \/ MonitorLeaves
    \/ Walk("monitor") \/ Terminate

(* What the user does, when signals come, and what breaks. *)
Environment ==
    \/ Redraw \/ Quit \/ Search \/ Type
    \/ Deliver
    \/ \E t \in Thread : Panic(t) \/ PanicHolding(t)
    \/ PanicWriting

Over == ~Running /\ UNCHANGED vars

Next ==
    MainStep \/ ReactorStep \/ ReaderStep \/ MonitorStep \/ Environment \/ Over

Spec == Init /\ [][Next]_vars

(* The operating system schedules every thread, and every wait of the code *)
(* is for a lock or has a timeout.  Nobody has to press a key.             *)
FairSpec ==
    /\ Spec
    /\ WF_vars(MainStep)
    /\ WF_vars(ReactorStep)
    /\ WF_vars(ReaderStep)
    /\ WF_vars(MonitorStep)

----------------------------------------------------------------------------

MainAt ==
    {"begin", "setup", "undo", "join", "errorRestore", "cleanup", "hook",
     "scope", "recatch", "wait", "drop"}
ReactorAt ==
    {"unborn", "start", "draw", "writing", "loop", "listen", "pause", "cursor",
     "turning", "typing", "restore", "hook"} \cup Ended
ReaderAt == {"unborn", "idle", "poll", "classify", "hook"} \cup Ended
MonitorAt == {"watch", "restore"} \cup Ended

(* Each thread is at a place of its own code. *)
PlacesOK ==
    /\ pc \in [Thread -> MainAt \cup ReactorAt \cup ReaderAt \cup MonitorAt]
    /\ pc["main"] \in MainAt
    /\ pc["reactor"] \in ReactorAt
    /\ pc["reader"] \in ReaderAt
    /\ pc["monitor"] \in MonitorAt

(* Every variable keeps its type. *)
TypeOK ==
    /\ LeaseTypeOK
    /\ PlacesOK
    /\ exited \in BOOLEAN
    /\ stdout \in Thread \cup {None}
    /\ slot \in [Thread -> 0..Cardinality(Resource)]
    /\ task \in Tasks
    /\ active \in BOOLEAN
    /\ ready \in BOOLEAN
    /\ signal \in BOOLEAN
    /\ terminating \in BOOLEAN
    /\ panicked \subseteq Thread
    /\ process \in {"running", "returned", "panicked", "signalled", "cut"}

(***************************************************************************)
(* PagerOutput closes "the check/write race": whatever the other threads   *)
(* do between the reactor's check of the stop flag and its write, the      *)
(* write never lands on the screen the user gets back.                     *)
(***************************************************************************)
WritesStayOnAlternateScreen ==
    At("reactor", "writing") => "AlternateScreen" \in modes

(***************************************************************************)
(* Once the session has given everything back, no thread takes a mode      *)
(* again: a search that was under way when the panic hook restored the     *)
(* terminal cannot hide the cursor afterwards.                             *)
(***************************************************************************)
NothingIsTakenAgain ==
    [][ledger = <<>> /\ pc["main"] \notin {"begin", "setup"}
         => ledger' = <<>> /\ modes' = {}]_vars

(***************************************************************************)
(* However the process ends by its own code, the terminal is the user's    *)
(* again.  A session that returns tries each release often enough to       *)
(* outlive three failed operations, one that panics outlives one; a        *)
(* session that ends by a signal tries each release once.                  *)
(***************************************************************************)
GivesTheTerminalBack ==
    \/ process = "returned" /\ faults <= 3
    \/ process = "panicked" /\ faults <= 1
    \/ process = "signalled" /\ faults = 0
    => modes = {}

(* A signal the monitor has taken is never swallowed by a normal return.   *)
TakenSignalEndsProcess == process = "returned" => ~terminating

(* A signal that was recorded ends the process: a handler may come before  *)
(* the setup is done, during a search, or after the last frame.            *)
SignalEndsProcess == signal ~> ~Running

(* Once the stop flag is up the process ends: no thread stays blocked on a *)
(* lock, on paused input or in the search prompt.                          *)
StopEndsProcess == exited ~> ~Running
=============================================================================
