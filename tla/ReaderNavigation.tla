-------------------------- MODULE ReaderNavigation --------------------------
(***************************************************************************)
(* Where the reader is, was and may go again: the document, history and    *)
(* tab ledger of the terminal reader (crates/mant-ui/src/app/mod.rs,       *)
(* navigation_state.rs, tabs.rs, navigation.rs, search/page.rs), driven by *)
(* the loop of crates/mant/src/delivery/terminal/session.rs:               *)
(*                                                                         *)
(*   tick, draw if something visible changed, wait for an event, handle    *)
(*   it, let the host serve what it asked for.                             *)
(*                                                                         *)
(* A document the host loads is a new immutable snapshot: loading the same *)
(* address twice gives two snapshots, which may have different outlines.   *)
(* A snapshot is its place in `docs`; an Arc that nothing holds any more   *)
(* keeps its number, so a Weak pointer to it equals no current document.   *)
(*                                                                         *)
(* A place in a document is a member of its outline.  The host returns the *)
(* address it was asked for (request_for_address in application.rs), or    *)
(* any address for a manual name, or an error.  Cell layout, the row       *)
(* scrolled to, the sidebar and the overlays' own contents are left out; a *)
(* search is looked at document by document, whatever a slice reads.       *)
(***************************************************************************)
EXTENDS Naturals, Sequences

CONSTANTS
    Address,      \* addresses the host can open
    Target,       \* places a fragment or a reference occurrence can name
    Nil,          \* no address, no request
    Default,      \* no particular place (LocalTarget::Default)
    ByName,       \* a manual asked for by name
    Outlines,     \* the outlines a loaded document may have
    Scopes,       \* the documents a reader may start with
    HistoryLimit, \* HISTORY_LIMIT
    MaxDocs       \* bound: snapshots in one behaviour, the first ones included

ASSUME NavigationAssumption ==
    /\ Nil \notin Address /\ ByName \notin Address \cup {Nil}
    /\ Default \notin Target
    /\ Outlines \subseteq Seq(Target)
    /\ Scopes \subseteq Seq([address : Address \cup {Nil}, items : Outlines])
    /\ <<>> \notin Scopes
    /\ HistoryLimit \in Nat \ {0}
    /\ MaxDocs \in Nat

Overlays == {"none", "menu", "help", "finder", "references"}

VARIABLES
    docs,       \* every snapshot: its address and its outline
    current,    \* session.current_bundle
    place,      \* the selected item of its outline
    back,       \* locations a Back returns to, the next one last
    forward,    \* and a Forward
    tabs,       \* the document tabs
    activeTab,
    scope,      \* scope_documents: what a search runs over
    base,       \* scope_base_len: the documents the reader started with
    scan,       \* the next scope member a running search looks at, 0: none
    hits,       \* search.scope_matches: scope index and snapshot searched
    wanted,     \* search.pending_move is some: go to a hit once there is one
    pending,    \* PendingEffects.open
    overlay,
    notice,     \* a notice is on the status line
    redraw,     \* the loop owes a frame
    unseen,     \* what changed on the screen since the last frame
    pc          \* where the loop is

ledger == <<back, forward, tabs, activeTab>>
search == <<scope, scan, hits, wanted>>
vars == <<docs, current, place, ledger, search, base, pending, overlay,
          notice, redraw, unseen, pc>>

(* A place that can be returned to: HistoryLocation. *)
At(address, target, origin) ==
    [address |-> address, target |-> target, origin |-> origin]

Places(items) == {Default} \cup {items[i] : i \in DOMAIN items}
FirstPlace(items) == IF items = <<>> THEN Default ELSE Head(items)

(* What may be selected in a document: select_section_at_row.              *)
Landings(items) ==
    IF items = <<>> THEN {Default} ELSE {items[i] : i \in DOMAIN items}

Here == At(docs[current].address, place, current)

Shown == <<current, place, notice, tabs, activeTab>>

Init ==
    /\ docs \in Scopes
    /\ current = 1
    /\ place = FirstPlace(docs[1].items)
    /\ back = <<>> /\ forward = <<>>
    /\ tabs = <<At(docs[1].address, Default, 1)>>
    /\ activeTab = 1
    /\ scope = [i \in DOMAIN docs |-> i]
    /\ base = Len(docs)
    /\ scan = 0
    /\ hits = {}
    /\ wanted = FALSE
    /\ pending = Nil
    /\ overlay = "none"
    /\ notice = FALSE
    /\ redraw = TRUE
    /\ unseen = {}
    /\ pc = "loop"

-----------------------------------------------------------------------------
(* The ledger. *)

Push(history, location) ==
    Append(IF Len(history) = HistoryLimit THEN Tail(history) ELSE history,
           location)

Pop(history) == SubSeq(history, 1, Len(history) - 1)

\* Mutant: a new document leaves what lay ahead reachable.
CommitKeepsForward(direction) ==
    \/ /\ direction = "New"
       /\ back' = Push(back, Here) /\ UNCHANGED forward
    \/ /\ direction = "Back"
       /\ back' = Pop(back) /\ forward' = Push(forward, Here)
    \/ /\ direction = "Forward"
       /\ forward' = Pop(forward) /\ back' = Push(back, Here)

Commit(direction) ==
    \/ /\ direction = "New"
       /\ back' = Push(back, Here) /\ forward' = <<>>
    \/ /\ direction = "Back"
       /\ back' = Pop(back) /\ forward' = Push(forward, Here)
    \/ /\ direction = "Forward"
       /\ forward' = Pop(forward) /\ back' = Push(back, Here)

(* remember_tab: leave the open document's tab at the place being read. *)
RememberedTabs == [tabs EXCEPT ![activeTab].target = place]

\* Mutant: the index is taken before the oldest tab is dropped.
SyncTabOldLength(address, s) ==
    LET old == RememberedTabs
        same == {i \in DOMAIN old : old[i].address = address}
        kept == IF Len(old) = HistoryLimit THEN Tail(old) ELSE old
    IN  IF same # {}
        THEN LET i == CHOOSE i \in same : \A j \in same : i <= j
             IN /\ tabs' = [old EXCEPT ![i] =
                     At(address,
                        IF old[i].origin = s THEN old[i].target ELSE Default,
                        s)]
                /\ activeTab' = i
        ELSE /\ tabs' = Append(kept, At(address, Default, s))
             /\ activeTab' = Len(old) + 1

\* Mutant: tabs are told apart by snapshot, not by address.
SyncTabBySnapshot(address, s) ==
    LET old == RememberedTabs
        same == {i \in DOMAIN old : old[i].origin = s}
        kept == IF Len(old) = HistoryLimit THEN Tail(old) ELSE old
    IN  IF same # {}
        THEN LET i == CHOOSE i \in same : \A j \in same : i <= j
             IN /\ tabs' = [old EXCEPT ![i] =
                     At(address,
                        IF old[i].origin = s THEN old[i].target ELSE Default,
                        s)]
                /\ activeTab' = i
        ELSE /\ tabs' = Append(kept, At(address, Default, s))
             /\ activeTab' = Len(kept) + 1

\* Mutant: a reloaded document keeps the place of the old snapshot.
SyncTabKeepsPlace(address, s) ==
    LET old == RememberedTabs
        same == {i \in DOMAIN old : old[i].address = address}
        kept == IF Len(old) = HistoryLimit THEN Tail(old) ELSE old
    IN  IF same # {}
        THEN LET i == CHOOSE i \in same : \A j \in same : i <= j
             IN /\ tabs' = [old EXCEPT ![i] =
                     At(address,
                        old[i].target,
                        s)]
                /\ activeTab' = i
        ELSE /\ tabs' = Append(kept, At(address, Default, s))
             /\ activeTab' = Len(kept) + 1

(* sync_tab: the tab of an address, kept or opened, now shows snapshot s;  *)
(* a place is kept only if it is a place of this very snapshot.            *)
SyncTab(address, s) ==
    LET old == RememberedTabs
        same == {i \in DOMAIN old : old[i].address = address}
        kept == IF Len(old) = HistoryLimit THEN Tail(old) ELSE old
    IN  IF same # {}
        THEN LET i == CHOOSE i \in same : \A j \in same : i <= j
             IN /\ tabs' = [old EXCEPT ![i] =
                     At(address,
                        IF old[i].origin = s THEN old[i].target ELSE Default,
                        s)]
                /\ activeTab' = i
        ELSE /\ tabs' = Append(kept, At(address, Default, s))
             /\ activeTab' = Len(kept) + 1

(* A single-page reader searches what it shows; a reader of several pages  *)
(* keeps the pages it was given and at most one more.                      *)
SearchScope(s) ==
    LET given == SubSeq(scope, 1, base)
    IN  IF base = 1 THEN <<s>>
        ELSE IF \E i \in DOMAIN given : given[i] = s THEN given
        ELSE Append(given, s)

\* Mutant: the results of the old scope survive.
ReplaceKeepsHits(s, doc, target) ==
    /\ current' = s
    /\ place' = IF target = Default THEN FirstPlace(doc.items) ELSE target
    /\ SyncTab(doc.address, s)
    /\ scope' = SearchScope(s)
    /\ scan' = 0 /\ wanted' = FALSE /\ UNCHANGED hits
    /\ notice' = FALSE

(* replace_document_view for anything but a search result. *)
Replace(s, doc, target) ==
    /\ current' = s
    /\ place' = IF target = Default THEN FirstPlace(doc.items) ELSE target
    /\ SyncTab(doc.address, s)
    /\ scope' = SearchScope(s)
    /\ scan' = 0 /\ hits' = {} /\ wanted' = FALSE
    /\ notice' = FALSE

Refuse ==
    /\ notice' = TRUE
    /\ UNCHANGED <<current, place, ledger, search>>

\* Mutant: history is committed before the document is checked.
CompleteLoadedTooEarly(s, doc, target, direction) ==
    \/ /\ target \notin Places(doc.items)
       /\ notice' = TRUE
       /\ Commit(direction)
       /\ UNCHANGED <<docs, current, place, tabs, activeTab, search>>
    \/ /\ target \in Places(doc.items)
       /\ docs' = IF s \in DOMAIN docs THEN docs ELSE Append(docs, doc)
       /\ Commit(direction)
       /\ Replace(s, doc, target)

(* complete_loaded_navigation: only a document that has the place commits. *)
(* A commit also closes the overlay.                                       *)
CompleteLoaded(s, doc, target, direction) ==
    \/ /\ target \notin Places(doc.items)
       /\ Refuse
       /\ UNCHANGED docs
    \/ /\ target \in Places(doc.items)
       /\ docs' = IF s \in DOMAIN docs THEN docs ELSE Append(docs, doc)
       /\ Commit(direction)
       /\ Replace(s, doc, target)

(* What a handler, a service or a tick changes waits for the next frame. *)
Unseen ==
    unseen' = unseen
        \cup (IF Shown' # Shown THEN {"page"} ELSE {})
        \cup (IF overlay' # overlay THEN {"overlay"} ELSE {})

-----------------------------------------------------------------------------
(* The search. *)

(* advance_page_search: the scan looks at one more document, which may     *)
(* have hits; at MAX_PAGE_MATCHES it ends.                                 *)
LookOn(next, found) ==
    /\ next \in DOMAIN scope
    /\ scan' \in {next + 1, Len(scope) + 1}
    /\ hits' \in {found, found \cup {<<next, scope[next]>>}}

(* select_active_search_match: a hit in another document opens that        *)
(* document of the scope without the host, and keeps the search.           *)
Select(hit, said) ==
    /\ hit[1] \in DOMAIN scope
    /\ LET s == scope[hit[1]] IN
       /\ place' \in Landings(docs[s].items)
       /\ \/ /\ s = current
             /\ notice' \in {said, TRUE}
             /\ UNCHANGED <<current, ledger>>
          \/ /\ s # current
             /\ current' = s
             /\ Commit("New")
             /\ SyncTab(docs[s].address, s)
             /\ notice' = FALSE

(* fulfill_page_search_move, after the scan went on: a move that was asked *)
(* for is made as soon as the hits allow, given up when an overlay is open *)
(* or the scan ended without one, and waits otherwise.                     *)
Fulfil(asked, said) ==
    \/ /\ asked /\ overlay' = "none"
       /\ \E hit \in hits' : Select(hit, said)
       /\ wanted' = FALSE
    \/ /\ asked /\ overlay' = "none" => scan' \notin DOMAIN scope
       /\ wanted' = FALSE
       /\ notice' \in IF asked /\ overlay' = "none" THEN {said, TRUE} ELSE {said}
       /\ UNCHANGED <<current, place, ledger>>
    \/ /\ asked /\ overlay' = "none" /\ scan' \in DOMAIN scope
       /\ wanted' = TRUE
       /\ notice' = said
       /\ UNCHANGED <<current, place, ledger>>

(* close, suspend: the scan stops; without its query, so do its results.   *)
Stop ==
    /\ scan' = 0 /\ hits' \in {hits, {}} /\ wanted' = FALSE
    /\ UNCHANGED scope

-----------------------------------------------------------------------------
(* What an event may do.  Every handler ends with the host's turn; all but *)
(* one path owe a frame.                                                   *)

Ask(request) ==
    /\ pending' = request
    /\ UNCHANGED <<docs, current, place, ledger, search, notice>>

(* jump_to_anchor, then the commit its callers make when it moved. *)
Jump(target) ==
    /\ UNCHANGED <<docs, current, tabs, activeTab, search, pending>>
    /\ \/ /\ target \in Places(docs[current].items) \ {Default}
          /\ place' = target
          /\ notice' = FALSE
          /\ Commit("New")
       \/ /\ target \notin Places(docs[current].items)
          /\ notice' = TRUE
          /\ UNCHANGED <<place, back, forward>>

(* request_open: the document being read is not loaded again. *)
RequestOpen(address, target) ==
    \/ /\ address # docs[current].address
       /\ Ask([to |-> address, target |-> target, direction |-> "New"])
    \/ /\ address = docs[current].address
       /\ target # Default
       /\ Jump(target)
    \/ /\ address = docs[current].address
       /\ target = Default
       /\ place' = FirstPlace(docs[current].items)
       /\ Commit("New")
       /\ UNCHANGED <<docs, current, tabs, activeTab, search, pending, notice>>

\* Mutant: several events are handled before the host serves the first.
HandledInARow ==
    /\ pc = "event"
    /\ pc' \in {"event", "service"}
    /\ UNCHANGED base

Handled ==
    /\ pc = "event"
    /\ pc' = "service"
    /\ UNCHANGED base

(* A link, a reference, or a reference picked in the chooser. *)
FollowLink ==
    /\ Handled
    /\ overlay \in {"none", "references"}
    /\ overlay' = "none"
    /\ redraw' = TRUE
    /\ \/ \E t \in Target : Jump(t)
       \/ \E a \in Address, t \in Target \cup {Default} : RequestOpen(a, t)
       \/ Ask([to |-> ByName, target |-> Default, direction |-> "New"])
    /\ Unseen

(* A document picked in the finder. *)
PickDocument ==
    /\ Handled
    /\ overlay = "finder"
    /\ overlay' = "none"
    /\ redraw' = TRUE
    /\ \E a \in Address : RequestOpen(a, Default)
    /\ Unseen

(* navigate_history, from a key or from the menu.  A place of the open     *)
(* snapshot needs no host; a place that outlived it is refused.            *)
Navigate(history, direction) ==
    /\ Handled
    /\ overlay \in {"none", "menu"}
    /\ overlay' = "none"
    /\ redraw' = TRUE
    /\ \/ /\ history = <<>>
          /\ UNCHANGED <<docs, current, place, ledger, search, pending, notice>>
       \/ /\ history # <<>>
          /\ LET to == history[Len(history)]
             IN \/ /\ to.origin = current
                   /\ to.target \in Places(docs[current].items)
                   /\ Commit(direction)
                   /\ place' = IF to.target = Default THEN place ELSE to.target
                   /\ notice' = IF to.target = Default THEN notice ELSE FALSE
                   /\ UNCHANGED <<docs, current, tabs, activeTab, search,
                                  pending>>
                \/ /\ to.origin = current
                   /\ to.target \notin Places(docs[current].items)
                   /\ Refuse
                   /\ UNCHANGED <<docs, pending>>
                \/ /\ to.origin # current /\ to.address # Nil
                   /\ Ask([to |-> to.address, target |-> to.target,
                           direction |-> direction])
                \/ /\ to.origin # current /\ to.address = Nil
                   /\ CompleteLoaded(to.origin, docs[to.origin], to.target,
                                     direction)
                   /\ UNCHANGED pending
    /\ Unseen

Back    == Navigate(back, "Back")
Forward == Navigate(forward, "Forward")

(* handle_document_tab_mouse: it runs before the open menu, help page or   *)
(* finder sees the press, and closes it.                                   *)
PressTab(i) ==
    /\ Handled
    /\ i \in DOMAIN tabs
    /\ overlay # "references"
    /\ overlay' = "none"
    /\ \/ /\ i = activeTab
          /\ UNCHANGED <<docs, current, place, ledger, search, pending, notice,
                         redraw>>
       \/ /\ i # activeTab
          /\ tabs[i].address # Nil
          /\ redraw' = TRUE
          /\ Ask([to |-> tabs[i].address, target |-> tabs[i].target,
                  direction |-> "New"])
       \/ /\ i # activeTab
          /\ tabs[i].address = Nil
          /\ redraw' = TRUE
          /\ CompleteLoaded(tabs[i].origin, docs[tabs[i].origin],
                            tabs[i].target, "New")
          /\ UNCHANGED pending
    /\ Unseen

(* Any key that moves the reader inside the document, or scrolls it.       *)
Read ==
    /\ Handled
    /\ overlay \in {"none", "menu"}
    /\ overlay' = "none"
    /\ redraw' = TRUE
    /\ place' \in {place} \cup Landings(docs[current].items)
    /\ UNCHANGED <<docs, current, ledger, search, pending, notice>>
    /\ Unseen

(* A menu, help page, finder or reference chooser opens, Esc closes it, a  *)
(* menu opens the others, the menu bar shows through help and finder.  The *)
(* finder closes a page search.                                            *)
TurnOverlay(next) ==
    /\ Handled
    /\ \/ (overlay = "none") # (next = "none")
       \/ overlay = "menu" /\ next \in Overlays \ {"menu"}
       \/ overlay \in {"help", "finder"} /\ next = "menu"
    /\ overlay' = next
    /\ redraw' = TRUE
    /\ \/ next = "finder" /\ Stop
       \/ UNCHANGED search
    /\ UNCHANGED <<docs, current, place, ledger, pending, notice>>
    /\ Unseen

(* A new query drops the old results and starts a scan of the scope; a     *)
(* prompt that is closed, or gives way to that of the outline, stops it.   *)
EditSearch ==
    /\ Handled
    /\ overlay \in {"none", "menu"}
    /\ overlay' = "none"
    /\ \/ /\ scan' = 1 /\ hits' = {} /\ wanted' = FALSE
          /\ UNCHANGED scope
       \/ Stop
    /\ redraw' = TRUE
    /\ UNCHANGED <<docs, current, place, ledger, pending, notice>>
    /\ Unseen

(* Enter in the prompt, or the next or previous result: a scan that is     *)
(* stale starts over and one under way goes on, before the move is tried.  *)
GoToHit ==
    /\ Handled
    /\ overlay \in {"none", "menu"}
    /\ overlay' = "none"
    /\ \/ LookOn(scan, hits)
       \/ LookOn(1, {})
       \/ scan \notin DOMAIN scope /\ UNCHANGED <<scan, hits>>
    /\ Fulfil(TRUE, FALSE)
    /\ redraw' = TRUE
    /\ UNCHANGED <<docs, scope, pending>>
    /\ Unseen

Event ==
    \/ FollowLink
    \/ PickDocument
    \/ Back
    \/ Forward
    \/ \E i \in 1 .. HistoryLimit : PressTab(i)
    \/ Read
    \/ \E next \in Overlays : TurnOverlay(next)
    \/ EditSearch
    \/ GoToHit

-----------------------------------------------------------------------------
(* The loop. *)

(* service_pending: nothing was asked. *)
NothingToServe ==
    /\ pc = "service"
    /\ pending = Nil
    /\ pc' = "loop"
    /\ UNCHANGED <<docs, current, place, ledger, search, base, pending, overlay,
                   notice, redraw>>
    /\ Unseen

(* The host fails: report_open_error. *)
OpenFails ==
    /\ pc = "service"
    /\ pending # Nil
    /\ pending' = Nil
    /\ Refuse
    /\ redraw' = TRUE
    /\ pc' = "loop"
    /\ UNCHANGED <<docs, base, overlay>>
    /\ Unseen

(* The host loads a snapshot of the address, with whatever outline. *)
OpenSucceeds ==
    /\ pc = "service"
    /\ pending # Nil
    /\ Len(docs) < MaxDocs
    /\ pending' = Nil
    /\ \E address \in Address, items \in Outlines :
         /\ pending.to \in {address, ByName}
         /\ CompleteLoaded(Len(docs) + 1,
                           [address |-> address, items |-> items],
                           pending.target, pending.direction)
    /\ overlay' = IF docs' = docs THEN overlay ELSE "none"
    /\ redraw' = TRUE
    /\ pc' = "loop"
    /\ UNCHANGED base
    /\ Unseen

\* Mutant: the move of a search is not reported by the tick that makes it.
TickHidesMoves(reports) ==
    \/ UNCHANGED <<current, place, ledger, search, notice>>
    \/ /\ LookOn(scan, hits)
       /\ Fulfil(wanted, notice)
       /\ scan' \notin DOMAIN scope => reports
       /\ UNCHANGED scope
    \/ /\ place' \in Landings(docs[current].items)
       /\ reports
       /\ UNCHANGED <<current, ledger, search, notice>>

(* App::tick: nothing is due; or a running search goes on, and may make    *)
(* the move it was asked for; or the selection follows the scroll.  Frames *)
(* of a search are throttled, but never that of its end or of a move; what *)
(* else is timed (a notice of a copy, a resize) may ask for one any time.  *)
Tick(reports) ==
    \/ UNCHANGED <<current, place, ledger, search, notice>>
    \/ /\ LookOn(scan, hits)
       /\ Fulfil(wanted, notice)
       /\ scan' \notin DOMAIN scope \/ (wanted /\ ~wanted') => reports
       /\ UNCHANGED scope
    \/ /\ place' \in Landings(docs[current].items)
       /\ reports
       /\ UNCHANGED <<current, ledger, search, notice>>

(* One turn of the loop up to the poll, which may time out: a frame is     *)
(* drawn if one is owed or the tick reports a change.                      *)
Turn ==
    /\ pc = "loop"
    /\ pc' \in {"loop", "event"}
    /\ UNCHANGED <<docs, base, pending, overlay>>
    /\ \E reports \in BOOLEAN :
         /\ Tick(reports)
         /\ IF redraw \/ reports THEN unseen' = {} ELSE Unseen
    /\ redraw' = FALSE

Next ==
    \/ Event
    \/ NothingToServe
    \/ OpenFails
    \/ OpenSucceeds
    \/ Turn

Spec == Init /\ [][Next]_vars

-----------------------------------------------------------------------------
(* Properties. *)

Location ==
    [address : Address \cup {Nil}, target : Target \cup {Default},
     origin : Nat]

(* Every variable has its type. *)
TypeOK ==
    /\ docs \in Seq([address : Address \cup {Nil}, items : Outlines])
    /\ current \in DOMAIN docs
    /\ place \in Target \cup {Default}
    /\ back \in Seq(Location) /\ forward \in Seq(Location)
    /\ tabs \in Seq(Location)
    /\ activeTab \in DOMAIN tabs
    /\ scope \in Seq(Nat) /\ base \in 1 .. Len(scope)
    /\ scan \in Nat
    /\ hits \subseteq Nat \X Nat /\ wanted \in BOOLEAN
    /\ pending = Nil \/ pending \in
         [to : Address \cup {ByName}, target : Target \cup {Default},
          direction : {"New", "Back", "Forward"}]
    /\ overlay \in Overlays
    /\ notice \in BOOLEAN /\ redraw \in BOOLEAN
    /\ unseen \subseteq {"page", "overlay"}
    /\ pc \in {"loop", "event", "service"}

Locations(history) == {history[i] : i \in DOMAIN history}

(* Whatever is remembered of a snapshot is a place of that snapshot: a     *)
(* step back inside the open document, and a tab left and come back to,    *)
(* land where the reader was.  The code resets a tab's place when its      *)
(* document is loaded anew, because a reference occurrence is private to   *)
(* the snapshot it was scanned from.                                       *)
PlacesAreOfTheirSnapshot ==
    /\ place \in Places(docs[current].items)
    /\ \A l \in Locations(back) \cup Locations(forward) \cup Locations(tabs) :
         /\ l.origin \in DOMAIN docs
         /\ l.address = docs[l.origin].address
         /\ l.target \in Places(docs[l.origin].items)

(* One tab per address, the active one that of the document being read,    *)
(* also when the oldest tab was dropped at the limit.                      *)
TheActiveTabIsCurrent ==
    /\ Len(tabs) <= HistoryLimit
    /\ activeTab \in DOMAIN tabs
    /\ tabs[activeTab].origin = current
    /\ \A i, j \in DOMAIN tabs : tabs[i].address = tabs[j].address => i = j

(* The two histories together never outgrow one: a Back that moves a       *)
(* location to the other side never drops one there.                       *)
HistoriesShareTheLimit == Len(back) + Len(forward) <= HistoryLimit

(* A search result still names the snapshot it was found in, although only *)
(* its index into the scope is kept and the scope changes under a search.  *)
HitsNameTheirDocument ==
    \A hit \in hits : hit[1] \in DOMAIN scope /\ scope[hit[1]] = hit[2]

Addresses(history) == [i \in DOMAIN history |-> history[i].address]
Reversed(seq) == [i \in DOMAIN seq |-> seq[Len(seq) + 1 - i]]
Timeline ==
    Addresses(back) \o <<docs[current].address>> \o Reversed(Addresses(forward))
Past == Addresses(back) \o <<docs[current].address>>

(* Back and Forward move along the documents visited and never change      *)
(* them, also when the step waited for the host, which commits it later;   *)
(* anything else goes on from where the reader is, forgetting what lay     *)
(* ahead and, at the limit, the oldest.                                    *)
TimelineIsKept ==
    [][\/ Timeline' = Timeline
       \/ /\ forward' = <<>>
          /\ \/ Addresses(back)' = Past
             \/ Addresses(back)' = Tail(Past) /\ Len(back) = HistoryLimit]_vars

(* An open that fails, or whose document lacks the place, changes nothing  *)
(* but the status line: history and tabs are committed only by a document  *)
(* that was checked.                                                       *)
RefusalsChangeNothing ==
    [][pending # Nil /\ pending' = Nil /\ docs' = docs
         => notice' /\ UNCHANGED <<current, place, ledger, scope>>]_vars

(* While the loop waits for an event, the screen shows the document, the   *)
(* place, the tabs and the notice of the state the event will act on.      *)
ScreenShowsTheDocument == pc = "event" => "page" \notin unseen

(* UpdateOutcome::Unchanged is documented as "Only non-visible bookkeeping *)
(* changed, if anything.": while the loop waits, the screen also shows the *)
(* overlay the next key will act on.                                       *)
ScreenIsCurrent == pc = "event" => unseen = {}
=============================================================================
