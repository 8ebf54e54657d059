# A verification project for ManT

ManT (`crates/*`, Rust) is a reader for manual pages and Markdown documents: a
command line, a terminal UI, and an MCP server over one document engine.  Most
of it is a pure pipeline (parse, validate, query, render).  What is hard to
test lives at its edges: directories that are replaced by commands that can be
killed, a terminal that must be given back whatever happens, a server that
must answer every line it accepted, a reader that goes back to pages which
have changed since, a graph of links that is cut off at its limits.  This
project models those edges in TLA+, checks them with TLC and proves the most
important facts with TLAPS.

## 1. Inventory

Paths are relative to `crates/`.

| Component | State it keeps | Operations | What makes it correct | Modelled |
|---|---|---|---|---|
| **Managed source store** `mant-sources/src/update.rs`, `update/*` | `.update.lock`, `<name>`, `<name>.backup`, `.prune-<name>-<pid>`, private workspaces | `--update-docs`, `--prune-docs`, `--dry-run`; lock, fetch, stage, activate, recover, isolate, remove | one writer; a source always resolves to the old or the new tree; reports tell what is on disk; it heals | `SourceStore`, `SourcePromise`, `StaleSnapshot` |
| **Metadata and ownership** `metadata.rs`, `installed.rs`, `inspection.rs` | `.mant-source.toml` in each tree | fingerprint, match, count, identity | a stale or damaged tree is never trusted; only owned trees are removed | its decisions, in `SourceStore` |
| **Source configuration** `config.rs`, `settings*.rs` | `sources.toml`, `mant.toml` | load, parse, validate, precedence | loaded once per command; names cannot collide | the loaded copy, in `SourceStore` |
| **Legacy migration** `migration.rs` | the copy plan, staged and linked files, two locks | plan, stage, hard-link, unstage, roll back | what it reports as copied is the old store's present content, whatever earlier attempts left; repeatable once stale locks are removed; never removes what it did not publish | `Migration` |
| **Terminal lease and pager** `mant/src/delivery/*`, the patched `minus` crate | restoration ledger, signal counters, output latch | acquire, restore, panic, signal | the terminal is given back, in reverse order, on every exit | `TerminalLease`, `PagerLifecycle` |
| **Reader navigation** `mant-ui/src/app/*`, loop of `terminal/session.rs` | document, place, back and forward, tabs, search scope, pending open, redraw | open, follow, back, forward, tabs, search, serve, tick | history, tabs, places, results and screen agree | `ReaderNavigation` |
| **MCP transport and query gate** `mant/src/mcp/*` | line framing, bounded streams, error queue, four query permits | read, forward, refuse, merge, shut down | every line is answered or the session ends; never more than four queries | `McpTransport` |
| **Scope loader** `mant-loader/src/scope_load/*` | documents, queue, caches and records of one request | validate, load roots, follow links breadth-first | bounded; shortest depths; every link accounted for | `ScopeLoad` |
| **Reader terminal session** `terminal/session.rs`, `terminal/backend.rs` | a second restoration ledger | set up, suspend, leave | as the pager's, on one thread | its ledger only (`TerminalLease`) |
| **Reader index** `registry.rs`, `registry/*` | one scan per request, no lock | load, scan, select | sees a tree the store published | no |
| **TLDR cache** `mant/src/host/maintenance/tldr.rs` | the cache checkout | clone to a temporary directory, rename, pull | readers never see half a cache | no |
| **UI input and layout** `mant-ui/src/*` | focus, viewports, wrapped lines | keys to commands, layout | sequential | no |
| **Query, projection, engine** `mant-query`, `mant-engine` | none | select, page, search | pages partition the result | no |
| **IR, codecs, renderers, protocol types** `mant-ir`, `mant-codec`, `mant-render`, `mant-protocol` | none | pure functions on documents | their own tests | no |
| **libmandoc-rs** | the C library's global state behind a lock | FFI | outside (vendored C) | no |

How they interact: the command line and the MCP server call the engine; the
engine reads documents through the loader and the reader index; the store, the
migration and the TLDR cache are separate commands that change the directories
the index reads, without any lock between writers and readers (`ScopeLoad`
has this as pages that appear and vanish while a request runs, `Migration` has
both updaters beside it).  The UI runs one engine request at a time on its
event loop and applies the answer to its own state.  The pager and the reader
own a terminal through the same ledger; the MCP server owns standard output.

What is hard about them is listed, line by line, in `PROJECT.json` under
"hazards": kills and failures between two renames, configurations loaded
before a lock is held, signals and panics while a thread holds standard
output, replies that overtake answers, queues that wait for each other, places
remembered in a snapshot that was replaced, limits that shift indices, caches
and cut-offs decided before a page was known.

## 2. Plan

The order follows what a user loses when the code is wrong: first installed
documents, then the terminal, then an answer, then a place.

| | Modules | Composition | State |
|---|---|---|---|
| 1 | `SourceStore`, `SourcePromise`, `StaleSnapshot` | the promise is the abstract specification the store implements; `StaleSnapshot` adds a history variable | checked and proved |
| 2 | `TerminalLease`, `PagerLifecycle` | the pager takes the ledger's steps | checked and proved |
| 3 | `ReaderNavigation` | the reader's ledger inside the loop that drives it | checked and proved |
| 4 | `McpTransport` | both proxies, the library and the client around the permits | checked and proved |
| 5 | `ScopeLoad` | a request beside one installation or removal | checked and proved |
| 6 | `Migration` | the migration beside the updaters of both stores | checked and proved |
| 7 | the reader's terminal session on `TerminalLease`; the reader index beside `SourceStore`; the TLDR cache; paging of `mant-query` | | not done (section 7) |

The modules that are proved about use no recursive operator.  Each has its
proofs in `<module>_proofs`; `SourcePromise_proofs` holds the refinement.  The
`MC*` modules give TLC the constants that a configuration file cannot write.

## 3. Modules and the code

### SourceStore

One process slot is one pid.  A slot runs one command at a time; `Kill` ends it
between any two steps, and the slot can then be used again, as a pid can.
Every fallible call of the code that touches the disk is a step of its own, in
the code's order, with a successful and a failing outcome; a rename or the
exclusive creation of the lock file is atomic.

| State | Code |
|---|---|
| `config`, `cfg[p]` | `sources.toml`, and the copy a command loaded before it took the lock |
| `lock` | `sources/.update.lock`, `UpdateLock` |
| `target[s]`, `backup[s]`, `tomb[p][s]` | `<name>`, `<name>.backup`, `.prune-<name>-<pid>` |
| `pc`, `command`, `todo`, `job` | the stack of one command: `SourceUpdateContext`, the loop of `prune_document_sources` |
| `remote` | the revision the remote serves |
| `calm` | set once, by `Settle`: from then on nothing fails, nobody is killed, nothing is edited |

| Actions | Code |
|---|---|
| `Start`, `AcquireLock`, `LockRefused`, `Report`, `Finish` | `update_document_sources`, `prune_document_sources`, `UpdateLock` |
| `Prepare` ... `Stage` | `SourceUpdateContext::prepare`, `git::update`, `download_archive`, `install_selected_documents` |
| `RecoverAgain`, `Preserve`, `SyncPreserved`, `Activate`, `ActivateFails`, `SyncActivated`, `Discard`, `SyncDiscarded` | `replace_with`, line by line |
| `DiscoverOrphans` ... `SyncRemoved` | `inspect_unconfigured_sources`, `prune_orphan` |
| `Kill`, `ClearStaleLock`, `EditConfig`, `Publish`, `Settle` | the environment: SIGKILL, the operator, the user, the remote |

A tree is its revision, the fingerprint of the configuration it was fetched
under, and how much of it an interrupted `remove_dir_all` left: all of it,
some documents gone (`partial`), metadata gone too (`bare`).  Those three are
what the code's checks tell apart.

`SourcePromise` is the abstract store: a source resolves to a tree, an update
replaces it in one step by a complete one, a prune condemns it and then spares
or withdraws it.  The mapping (end of `SourceStore`) lets a source resolve to
its public directory, or to what the next update will recover, or, while a
prune may still put it back, to the tombstone.

`StaleSnapshot` adds `fresh[p]`: the sources some update activated since `p`
loaded its configuration.

### TerminalLease

The restoration ledger alone: `modes` is what is really in force on the
terminal, `ledger` is `pending`.  A failed operation may or may not have
changed the terminal.  The module has no next-state relation; the sessions
that own a ledger take its steps.

### PagerLifecycle

Four threads: `main` (`page_all`), `reactor` and `reader` (the two workers of
`init_core`) and `monitor` (the signal monitor of `pager.rs`).  `stdout` is the
holder of standard output's lock, `exited` the stop flag, `active` the input
gate, `ready`/`signal`/`terminating` the atomics of the signal handlers.  The
pager state's mutex is not a variable: the reactor holds it exactly at the
places of `HoldsState`.  The ledger's mutex is only ever taken below standard
output, by the same thread.

| Actions | Code |
|---|---|
| `BeginWalk`, `ReleaseNext`, `EndWalk` | `restore_then`, `restore_for_panic` and `Drop`, for every caller; `AfterWalk` says where each caller goes |
| `BeginSetup`, `SetupNext`, `SetupFails` | `PagerTerminal::setup` |
| `Join`, `Unwind`, `JoinMonitor`, `Return` | the scope of `init_core`, `with_panic_cleanup`, the scope of `pager::run`, `Drop` |
| `BeginFirstFrame`, `BeginWrite`, `Write`, `WriteFails` | `start_reactor`, `PagerOutput` |
| `Listen`, `ListenTimesOut`, `Redraw`, `Quit`, `Search` | the static loop and `handle_event` |
| `PauseInput`, `BeginCursor`, `TurnCursor`, `CursorFails`, `Type`, `TypingStops` | `FetchSearchQuery`, `fetch_input`, `cursor_visible` |
| `Reader...` | `event_reader`, `read_active_event` |
| `Deliver`, `TakeSignal`, `MonitorLeaves`, `Terminate` | `TerminationSignals`, the monitor's loop |
| `Panic`, `PanicWriting`, `PanicHolding` | the panic hook: a thread panics while it holds the pager state, standard output, or the ledger |

### ReaderNavigation

The loop of the reader is: tick, draw if something visible changed, wait for an
event, handle it, let the host serve what it asked for.  A snapshot is one
loaded document; opening an address again gives a new snapshot whose outline
may have lost the place a history remembers.

| State | Code |
|---|---|
| `docs` | every document bundle loaded (`Arc`), with its address and outline; a `Weak` is its number |
| `current`, `place` | `session.current_bundle`, the selected item; scrolling may select any |
| `back`, `forward`, `tabs`, `activeTab` | `NavigationState`, with `HISTORY_LIMIT` |
| `scope`, `base` | `scope_documents`, `scope_base_len` |
| `scan`, `hits`, `wanted` | the page search: the document it looks at next, its matches, the move to a match that a key has asked for |
| `pending` | `PendingEffects.open` |
| `overlay`, `notice` | menu, help, finder, reference chooser; the status line |
| `redraw`, `unseen`, `pc` | the loop's dirty flag; what changed since the last frame; where the loop is |

| Actions | Code |
|---|---|
| `Commit`, `SyncTab`, `Replace`, `CompleteLoaded`, `Refuse` (operators) | `NavigationState::commit` and `sync_tab`, `replace_document_view`, `complete_loaded_navigation`, `report_open_error` |
| `LookOn`, `Select`, `Fulfil`, `Stop` (operators) | `advance_page_search`, `select_active_search_match`, `fulfill_page_search_move`, `SearchState::suspend` and `close` |
| `FollowLink`, `PickDocument`, `Back`, `Forward` | `open_selected_reference`, `activate_link_target`, `handle_finder_key`, `navigate_history`, with `request_open` and `jump_to_anchor` |
| `PressTab` | `handle_document_tab_mouse`, `activate_document_tab` |
| `Read`, `TurnOverlay`, `EditSearch`, `GoToHit` | `select_relative`, `handle_overlay_key`, `schedule_page_search`, `select_search_relative` and Enter in the prompt |
| `NothingToServe`, `OpenFails`, `OpenSucceeds` | `service_open_request` and the host's answer |
| `Turn` (with `Tick`) | one turn of the loop of `run`: `App::tick`, the frame if one is owed or the tick reports a change, the poll |

A tick may let a search go on by a document and make the move that was asked
for, which may open another document of the scope; or it lets the selection
follow the scroll.  Frames of a running search are throttled
(`search/repaint.rs`): whether such a tick asks for a frame is left open,
except that the end of the scan and a move that was made always do.

### McpTransport

    client --stdin--> input --inbound--> service --outbound--> output
                          \------------errors--------------------^  |
    client <-------------------------stdout-----------------------/

Every arrow is bounded, so every sender may have to wait.  The client, the
pipes and the protocol library (rmcp) are external: the library may give up the
handshake, before or after it answered the first message, starts a handler for
each call, drops the handler of a cancelled one, and stops when its input ends,
with or without the answers under way.

| State | Code |
|---|---|
| `sent`, `inputEnd`, `unread`, `deaf` | the client |
| `input`, `stdin`, `inbound`, `inboundEnd` | `proxy_input`, the duplex stream it forwards to |
| `errors` | the queue of error replies (`ERROR_QUEUE_CAPACITY`) |
| `service`, `call`, `worker`, `free` | the library; `QueryService`: its handlers, `spawn_blocking` and the semaphore |
| `outbound`, `output`, `partial`, `stdout` | `proxy_output` and its buffer of a line that is not whole |
| `process` | `run_stdio` |

| Actions | Code |
|---|---|
| `ReadLine`, `ForwardLine`, `RefuseLine`, `EndInput` | `proxy_input`: framing, the limits on length and depth, the error reply, shutdown |
| `Accept`, `RefuseStart`, `TakeMessage`, `Stop` | the library (external); while only the first message has been answered (`Greeting`), the start can still fail, and `run_stdio` then aborts the proxies |
| `Admit`, `WorkerEnds`, `AnswerBegins`, `AnswerEnds` | `QueryService::query`, `query_scope`, `discover` (the permit moves into the worker), and the library writing an answer in two pieces |
| `TakeAnswer`, `WriteLine`, `LinesWritten`, `TakeError`, `WriteError`, `EndOutput` | `proxy_output`: the two arms of its `select!`, and its buffer of pieces; when the service's stream ends, an unfinished answer is ended as a line and replies may still follow |
| `Join`, `Abandon` | `run_stdio`: joining the proxies, or aborting them when the service could not start |

### ScopeLoad

One request.  A step is one root, one reference, or one document taken from
the queue; between two steps another process may install or remove a page
(`Update`).  Which page a lookup selects is a table (`Candidates`), read
through the caches of the request.  What the tables may hold is assumed and
checked by TLC on the instance (`SpellingAssumption`): no two references of a
page are spelled alike (`collect_references` removes repeats by spelling; two
spellings of one page, or two paths that leave the namespace, stay); an exact
reference is looked up by the catalog path of its page and selects that page or nothing
(`ScopeReference::selector`, `query_catalog_address`); any other that names a
page prefers that page (`known_reference_address`); and a manual that the
general lookup selects is the one the lookup of manuals selects
(`query_named_with_mode` tries the same candidates and passes over those that
are no manuals).

| State | Code |
|---|---|
| `links`, `installed` | the documents on disk |
| `query`, `phase`, `root` | the `DocumentScope`, and how far the loader is |
| `documents`, `scoped`, `content` | documents in admission order, their depth, root indices and parents; `content_bytes` |
| `queue`, `current`, `pending` | the breadth-first queue, the document being followed, its references left |
| `failures`, `resolved` | `ResolutionFailures`, `resolved_queries` |
| `edges`, `frontier`, `unresolved`, `referenceLimits` | the records of the answer |

| Actions | Code |
|---|---|
| `Validate` | `validate_document_scope` |
| `RootFails`, `RootRepeats`, `RootLoads`, `RootOverBudget`, `RootsDone` | `resolve_roots`, `insert_root` |
| `FollowDocument`, `BoundaryDocument`, `QueueIsEmpty` | `follow_links`, `record_depth_frontier` |
| `FollowKnown`, `FollowAtLimit`, `FollowEscapes`, `FollowFails`, `FollowRepeats`, `FollowLoads`, `FollowOverBudget` | `follow_reference`, one early return each |

### Migration

Three files stand for all: the source configuration and, in one source, its
metadata and a page.  The old store has a generation, which an update of it
advances, and some generations have no page; copying the configuration makes
repositories absolute, and metadata must then be rewritten ("moved") to keep
matching it.  Targets are named by path, so what another process has renamed
in between is met as it is: a directory is a value that moves with its files
and with the temporary names the migration has put into it.

A lock is a file that only its holder's `Drop` removes (`UpdateLock`): free,
held, or stale after a kill.  A stale one refuses every migration and every
update until the operator removes it (`ClearStaleLock`), as docs/sources.md
asks.

| State | Code |
|---|---|
| `old`, `oldLock` | the old store's generation and its `.update.lock` |
| `config`, `source`, `backup` | the directory of `sources.toml`, `<name>` and `<name>.backup` in the new store: files, and temporary names of this attempt |
| `newStore`, `newLock` | whether `data/sources` exists, and its `.update.lock` |
| `updater`, `reads`, `updates` | an updater of the new store, and the configuration it read before it took the lock |
| `step`, `next`, `plan`, `linked` | where the migration is, the file it works on, `Plan`'s copies, the targets it has linked |
| `raced` | observed only: how many updates took the new store's lock during this attempt |

| Actions | Code |
|---|---|
| `Start`, `PlanFile` | `migrate_with`: both locks, `prepare_sources`, `Plan::file` |
| `StageFile`, `LinkFile`, `UnstageFile`, `PermitFile` | `Plan::commit`, file by file: the copy beside its target, the hard link, the removal of the copy, the permissions |
| `RollbackFile`, `CleanUp` | its rollback: linked targets are removed by path, and a removal that fails is ignored; then the temporary names |
| `PlanFails`, `CallFails`, `Kill`, `ClearStaleLock` | a failing call, SIGKILL, the operator |
| `UpdateOld` | an update of the old store, in one step |
| `UpdateReads`, `UpdateLocks`, `UpdateRecovers`, `UpdatePreserves`, `UpdateActivates`, `UpdateRestores`, `UpdateDiscards`, `UpdateFails`, `UpdateEnds`, `UpdateDies` | an updater of the new store: `update_document_sources` and the two renames of `replace_with`, between which the migration may make the directory again |

## 4. Runs

Twelve runs; four of them refute a statement of the repository (section 5).

| Run | Instance | What it shows |
|---|---|---|
| `StorePrune` | updater and pruner, 1 Git source, 2 revisions | `PromiseKept` (the store implements its promise), `PublicTreesMoveWhole`, `OnlyOrphansAreIsolated`, `LeftoverTombstonesAreKept` |
| `StoreHeal` | updater and pruner, 1 Git source, 2 configurations | `ReportsMatchDisk`; liveness: `HeldLockIsFreed`, `Convergence` |
| `StoreTwoSources` | 2 updaters, a Git and an archive source, 2 revisions | `TypeOK`, `OneWriter`, `ReportedSourcesRest`: one source's failure or crash does not disturb another |
| `PagerSession` | 4 failed operations, 1 panic | `TypeOK`, `ObligationsCoverModes`, `WritesStayOnAlternateScreen`, `GivesTheTerminalBack`, `TakenSignalEndsProcess`, `NothingIsTakenAgain`; liveness: `SignalEndsProcess`, `StopEndsProcess` |
| `ReadPages` | readers of 1 and of 2 pages, limit 2, 3 snapshots | `TypeOK`, `TheActiveTabIsCurrent`, `HistoriesShareTheLimit`, `HitsNameTheirDocument`, `PlacesAreOfTheirSnapshot`, `ScreenShowsTheDocument`, `RefusalsChangeNothing`, `TimelineIsKept` |
| `McpSession` | 3 lines, 1 permit, 1 error reply, 2 pieces a pipe | `TypeOK`, `StdoutIsWholeLines`, `WorkersHoldThePermits`, `SuccessAnswersEveryBadLine`; liveness: `LinesAreAnswered`, `ClosedInputEndsProcess` |
| `ScopePages` | 5 pages, 16 link tables, 70 requests, 1 change on disk | `TypeOK`, `LimitsHold`, `DepthsAreShortest`, `NoFalseTruncation`, `LinksAreAnswered` |
| `MigrateStore` | 3 generations, one without a page, 2 updates, 3 kills or failures | `TypeOK`, `SuccessIsOneSnapshot`; liveness: `RepeatingCompletes` |
| `StoreFailed`, `StoreSnapshot`, `ReadScreen`, `MigrateRollback` | as the runs above, the last one without any fault | section 5 |

**Why these bounds.**

* *Store.*  The lock serialises writers, so two processes give every pair of
  steps of a critical section with a step outside it, and a killed process
  followed by its successor; a third adds only another one that waits.  Two
  revisions or configurations tell an old tree from a new one; `StoreHeal`
  needs two configurations to see a tree that is whole and current but was
  made for another configuration.  Two sources are the least with which a
  command has work left after one failed.  Faults and kills are not counted:
  until `calm`, each step may fail.
* *Pager.*  A session that returns attempts a release up to four times
  (reactor, worker failure, cleanup, drop), so with four failures the bounds in
  `GivesTheTerminalBack` are as large as the code allows: with one more
  tolerated failure TLC finds a mode left behind.  A second panic would be a
  panic in a hook or a scope that unwinds, which aborts the process.
* *Reader.*  A limit of two in place of 64 makes both ends of a history and the
  drop of the oldest tab happen within a few steps.  Three snapshots are a
  document, its replacement and a third between them; one document has no
  address (piped input), and an outline may have lost the one place that links
  name.  The limit and the snapshots are arbitrary in the proofs.
* *MCP.*  With one permit, one place in the error queue and two pieces a pipe,
  every bounded resource is exhausted by three lines: a call that waits for the
  permit, a reply that waits for the queue, an answer cut in two, a
  cancellation.  A pipe must hold two pieces (an answer), which the assumption
  on `PipeRoom` says.
* *Loader.*  The five pages have a chain as long as the largest depth, a cycle,
  a page reachable at two depths, one name shared by three pages, one page too
  big for the budget, a file outside every catalog and a path that leaves its
  namespace.  Requests take every depth up to 3 and every number of documents
  up to 4, and the invalid ones just outside.
* *Migration.*  Three files are the least with which a rollback may remove two
  and keep one.  Three generations give an update of the old store before and
  after an attempt that was killed, and one of them lacks the page that a
  leftover of another could supply.  Three faults are a killed attempt, a
  failed one and a removal its rollback could not make; two updates of the new
  store let one begin before an attempt and one during it.

**Symmetry** is used where both slots run the same commands and nothing
temporal other than safety is checked (`StoreTwoSources`).

**Fairness.**

* *Store:* `WF(HeldStep(p))`, a process inside its critical section keeps
  running; nothing makes a user start a command, and convergence therefore
  assumes that updates keep getting the lock.
* *Pager:* weak fairness of each thread.  The operating system runs every
  thread, and each wait of the code is for a lock that its holder gives back or
  has a timeout (20 ms in the monitor, 100 ms in the reactor, the reader and
  the prompt).  Keys, commands, signals and panics are not fair.
* *MCP:* weak fairness of the tasks and of a client that reads what it has not
  closed; strong fairness of each handler, because the semaphore is a queue, and
  of the two sources of output, because `select!` polls its ready arms in
  random order.  The client need not send or close anything.
* *Migration:* weak fairness of the migration, which the user repeats, and of
  the operator who removes a lock file whose process is gone; nothing in the
  code does the latter.  `RepeatingCompletes` speaks of the behaviours in which
  no update lands and an updater under way is over at last.
* The reader and the loader have no liveness property: a reader waits for its
  user, and a request is a finite walk over a finite queue.

Deadlock is checked in every run.  What is over stutters by an action of its
own (`Over`, `Answered`, `Finished`), so TLC would report a wait for each other
anywhere else, in particular between the four queues of the MCP transport and
between the pager's locks.

## 5. What the code does not keep

Four statements of the repository that a run refutes:

* `StoreFailed`: when the sync after the first rename of `replace_with` fails
  (transaction.rs:57), the update reports the source as failed and leaves it
  without its public directory, under `.backup` only.  docs/sources.md:216-217
  says a failed source leaves its prior installed directory untouched.  The
  next update recovers it.
* `StoreSnapshot`: a prune loads its configuration (prune.rs:26) before it gets
  the lock and can remove a source configured and installed in between;
  prune.rs:16-17 speaks of the active configuration.
* `ReadScreen`: under an open menu, help page or finder, pressing the tab that
  is open already reaches `handle_document_tab_mouse` (tabs.rs:94, called from
  menu.rs:425), which closes the overlay and answers `Unchanged`; the loop
  draws no frame, and the next key acts on a document the user does not see.
  app/mod.rs:59 says that nothing visible changed.
* `MigrateRollback`: the new store's lock is taken only if its directory exists
  when the migration starts (migration.rs:259), so an update may run beside it;
  the migration then fails and its rollback (migration.rs:189) removes the
  metadata the update has installed.  docs/configuration.md:170 says active
  updates are rejected, migration.rs:225 that installed files are retained.

More was met while modelling.  It follows from the modules and has no run of
its own:

* `remove_internal_dir` ignores its errors (transaction.rs:127-131), so a
  `.backup` may be incomplete.  A prune of its source does not look at it; when
  the source is configured again, recovery (transaction.rs:119) renames it to
  the public name as it is, although transaction.rs:62-63 counts on an intact
  one.  Only an update that gets through replaces it.
* When a signal ends the pager, each release is tried once and the process dies
  of the signal, without destructors; terminal_lease.rs:87-88 says a failed
  release is retried by an explicit retry or by Drop.
* When the MCP service cannot start, the proxies are aborted and error replies
  still queued are lost; docs/manuals/mant-protocol.md:2266-2267 says a
  malformed line receives an error.  (`SuccessAnswersEveryBadLine` therefore speaks of success,
  and `LinesAreAnswered` excuses a refused start.)
* A killed migration leaves its lock files behind, in the old store and, if that
  existed, in the new one; docs/configuration.md:170 calls migration repeatable
  without saying that they must be removed first.
* A migration that was killed after it linked some files, followed by an update
  of the old store, completes when repeated, but may leave a page of the earlier
  generation that the newer one does not have: `SuccessIsOneSnapshot` says that
  everything the old store has now is there, and not that nothing else is.
* When two updates take the new store's lock during one migration, which did not
  take it because the store did not exist, the second may meet the half-linked
  directory the first has set aside; nothing is claimed of such a success.

## 6. What is proved

All proofs are for any values of the constants, from the named assumptions of
the modules only.

| Theorem | Property | Argument |
|---|---|---|
| `SourceStore_proofs!TypeCorrect` | `TypeOK` | with `JobOK`: a job names a source wherever a step will use it.  `TypeOK` alone is not inductive: an install would index the directories by `None` |
| `SourceStore_proofs!MutualExclusion` | `OneWriter` | only `AcquireLock` enters the critical section, and it needs the lock file to be absent; a stale lock is only cleared when nobody holds it |
| `SourcePromise_proofs!StoreInvariant` | | `StoreInv`: the two above and `ActivatedInPlace`, a tree that was activated but not synced yet is still in place |
| `SourcePromise_proofs!StoreKeepsPromise` | `PromiseKept` | refinement, one lemma per action: each step is an abstract step or a stutter |
| `SourcePromise_proofs!TreesMoveWhole` | `PublicTreesMoveWhole` | the four steps that change a public name are renames |
| `SourcePromise_proofs!ReportInvariant`, `ReportsAreTrue` | `ReportsMatchDisk` | `ReportInv`, below: where the trees of a command's source are at each of its steps |
| `SourcePromise_proofs!OrphansOnly`, `TombstonesAreKept`, `ReportedRest` | `OnlyOrphansAreIsolated`, `LeftoverTombstonesAreKept`, `ReportedSourcesRest` | action properties from the same invariant: a command works on a source of its own list, and a prune's list has only sources its configuration does not name (`WorkOK`) |
| `PagerLifecycle_proofs!PagerTypeCorrect` | `TypeOK` | needs that a ledger has at most four obligations, which follows from never recording one twice |
| `PagerLifecycle_proofs!ModesAreOwed` | `ObligationsCoverModes` | every step of the session is a step of the ledger, which keeps it (`TerminalLease_proofs`) |
| `PagerLifecycle_proofs!FramesStayInside` | `WritesStayOnAlternateScreen` | who writes holds standard output and the screen is in force (`Held`); who gives back raised the flag first (`Stopped`); so while the flag is down a running reactor has its screen (`Alive`) |
| `PagerLifecycle_proofs!GivenBackForGood` | `NothingIsTakenAgain` | an action property from the same invariant: who may take a mode holds an obligation already |
| `PagerLifecycle_proofs!TerminalGivenBack` | `GivesTheTerminalBack` | `Count`, below: failures so far and attempts left never fall below what the ending requires |
| `PagerLifecycle_proofs!SignalsAreNotSwallowed` | `TakenSignalEndsProcess` | main drops the terminal only after the monitor ended, and a monitor that took a signal ends by dying of it or by a panic |
| `ReaderNavigation_proofs!ReaderInvariant` | | `ReaderInv`: what is remembered is a place of the snapshot it names, the active tab is that of the open snapshot, the histories share the limit, and a Back or Forward that waits for the host leads where its history ends.  Without the last part the commit after the host's answer could pop an empty history |
| `ReaderNavigation_proofs!TypeCorrect`, `PlacesStay`, `OneTabPerAddress`, `HistoriesFit`, `HitsStayTrue`, `ScreenIsTrue` | `TypeOK`, `PlacesAreOfTheirSnapshot`, `TheActiveTabIsCurrent`, `HistoriesShareTheLimit`, `HitsNameTheirDocument`, `ScreenShowsTheDocument` | parts of `ReaderInv`; snapshots are only added, so a place stays true |
| `ReaderNavigation_proofs!RefusalsAreHarmless`, `HistoryIsATimeline` | `RefusalsChangeNothing`, `TimelineIsKept` | action properties: a move takes the end of one history to the end of the other, and the shared limit leaves room for it |
| `McpTransport_proofs!TypeCorrect`, `PermitsFollowWorkers` | `TypeOK`, `WorkersHoldThePermits` | lines are numbered, so those in a pipe are increasing, and a call is in the stream to the service or with a handler, never both |
| `McpTransport_proofs!SuccessIsComplete` | `SuccessAnswersEveryBadLine` | a bad line is with input, in the error queue, with output or answered, unless a proxy failed or was aborted |
| `McpTransport_proofs!LinesStayWhole` | `StdoutIsWholeLines` | what is on its way to standard output begins with a head and alternates; output writes up to the last tail and error replies only between; error replies keep the order of their lines, so none is written twice |
| `ScopeLoad_proofs!TypeCorrect` | `TypeOK` | with the reference being followed belonging to a page |
| `ScopeLoad_proofs!BreadthFirst` | `DepthsAreShortest` | the queue is sorted by depth and no page is deeper than one level below the current one (`OrderOK`) |
| `ScopeLoad_proofs!NoFalseCut` | `NoFalseTruncation` | a link is cut off by the depth only while the last level is taken from the queue, and by the number only once it is reached: nothing is loaded after either, so a page that was not loaded then never is (`Closed`) |
| `ScopeLoad_proofs!LimitsKept` | `LimitsHold` | loading a root never looks at the number of documents: validation has made room for every root (`RoomForRoots`) |
| `ScopeLoad_proofs!EveryLinkIsAnswered` | `LinksAreAnswered` | the queue tells which references have been visited, each visit left an answer, and the caches agree with the disk (`RestOK`, `AnswersOK`, `CacheOK`, below) |
| `Migration_proofs!TypeCorrect` | `TypeOK` | |
| `Migration_proofs!OneSnapshot` | `SuccessIsOneSnapshot` | `SnapshotInv`, below: what is settled of an attempt nobody races, and where the directory of one that an update races can be |

Four of the invariants are worth a closer look.

* *What a command reports* (`ReportInv`).  `ReportsMatchDisk` speaks of one
  step, the report, and says nothing of how a command got there, so it is not
  inductive.  The invariant follows the trees of a command's source through all
  its steps (`InPlaceAt`): while it fetches, the installed tree is still the one
  it met; after the backup is made the public name is free and the backup is
  that tree; after the activation the public name is the staged tree; while a
  prune is at work the public name is free and the tombstone is what it
  renamed.  It also needs that the command works on a source of its list
  (`WorkOK`): what it has reported it must not touch again.  That no other process interferes is `OneWriter`: what is
  said holds only of a process with the lock, and the others leave the trees
  alone.
* *Giving the terminal back* (`Count`).  The property compares two numbers at
  the end of the process; the invariant compares them all along.  `Enough`: once
  main is on its way out, the failures so far and the attempts left are together
  at least what the ending requires, and one more while main has already passed
  an obligation it still owes (`Passed`).  `Tried`: who has passed an obligation
  met a failure.  `Excused`: when the stop flag is up without a signal or a
  panic, something failed or the reactor gives back by itself.  `Fresh`: before the session and after the reactor is done
  nothing is owed.
* *Answered links.*  A loaded page waits in the queue, is current, or has been
  taken and is finished (`Waiting`), and what is pending is the rest of what was
  collected from the current page (`TheRest`); so the set of references visited
  is a function of the state, with no history variable (`Visited`).  Each
  visited reference has an answer, and the only edges from a page are those of
  its visited references (`AnswersOK`).  While nothing changed on disk, a
  remembered failure is still a failure and a remembered page is still the one
  selected (`CacheOK`).  An edge made from an alias of a page that was loaded
  under another spelling is right because of `SpellingAssumption`: without it
  the alias might select another page.
* *One snapshot* (`SnapshotInv`).  While no update has raced the attempt, a file
  is settled once it was found equal or has been linked, and a settled file is
  what the old store, which is locked, still has (`SettledHolds`).  Whether
  metadata is relocated depends on the configuration, which the attempt decides
  first and nobody changes (`ConfigurationHolds`).  An update can only race an
  attempt that found no new store, so every file of the source is to be copied
  unless the update's was there first (`Traceable`).  The directory the attempt
  works in is then still in place (`Intact`), was set aside with its temporary
  names (`SetAside`), or has given way to the update's (`Replaced`).  In the
  last two cases the next link misses its temporary name; if the update came
  before staging, it meets a target that exists, or there is nothing to copy.  If staging made
  the directory again after its first files were set aside (`Doomed`), linking
  the first of them fails.  So a success leaves the attempt's files or the
  update's under the source's name, or the latter's backup, and never a mixture.

**Only model-checked:** the liveness properties (`HeldLockIsFreed`,
`Convergence`, `SignalEndsProcess`, `StopEndsProcess`, `LinesAreAnswered`,
`ClosedInputEndsProcess`, `RepeatingCompletes`), which the prover cannot reach.
Every invariant, action property and refinement a passing run checks is also a
theorem.  The four runs of section 5 refute statements and have nothing to
prove.

## 7. What is not modelled

* *Most of the repository by size* is parsing, validation, rendering and their
  tests: `mant-codec`, `mant-ir`, `mant-render`, `mant-protocol`, `mant-query`,
  `mant-engine`, the argument parser.  These are functions of one document,
  without state between calls, without concurrency and without failure other
  than returning an error.  A model of them would be a second implementation;
  their own test suites compare them with a reference.  The modules here
  therefore stand for a small share of the lines and for nearly all of the
  state that outlives a call.
* *Reader terminal session*: one thread sets up, suspends and leaves with the
  ledger `TerminalLease` models; none of the pager's interleavings exist.
* *Reader index*: a scan without a lock beside an update.  The store alone takes
  a run of a minute, and a reader in every state of it does not fit.  That a
  page appears or vanishes while it is being looked up is in `ScopeLoad`.
* *TLDR cache*: one clone to a temporary directory and a rename, or a pull that
  Git itself locks.  Two updates race by design; what happens is `rename(2)`'s
  and Git's to say.
* *Native bindings*: a vendored C library behind one lock.
* *Store*: power loss (a completed operation stays on disk, so the syncs matter
  only because they can fail); what a private workspace holds is one step.
  TOML parsing, path and name validation, archive and Git formats, the
  read-only inspection report, wording of messages.
* *Pager*: what is drawn (a draw is one write, although it makes several, each
  with its own check of the flag), user hooks before and after the session, a
  panic inside the hook (the process aborts), and signals between the end of
  the monitor and the end of the process, whose handlers are gone.
* *Reader navigation*: the row scrolled to, cell layout, the sidebar, what an
  overlay shows, the search of the outline, copying, discovery of the catalog.
  A search looks at one document a tick; the slices the code cuts a long
  document into change no result.
* *MCP*: what a message says beyond a call, a cancellation or a line that is no
  valid JSON; bytes within a piece.  Writing a line to standard output is one
  step, so that a proxy aborted in the middle of it (the service could not
  start) may cut a line is not seen.
* *Loader*: what one lookup selects (catalog precedence, manual paths,
  decompression, parsing) is a table; the order of the records.
* *Migration*: budgets, symbolic links, permissions (only that setting them
  needs the file) and the trees outside the source store; three files stand for
  all.  The user leaves `sources.toml` alone while a migration can run.
  Temporary names that a dead attempt left are in nobody's way, except that one
  with the same pid makes staging fail, which is one of `CallFails`.
