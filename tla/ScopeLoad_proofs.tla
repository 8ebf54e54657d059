---------------------------- MODULE ScopeLoad_proofs ----------------------------
(***************************************************************************)
(* Proofs about ScopeLoad: types, the bounds of a request, that the        *)
(* traversal is breadth-first and cuts off nothing it has loaded, and that *)
(* every link of a page it has finished with is answered, for any pages,   *)
(* links, requests and any number of concurrent updates.                   *)
(*                                                                         *)
(* The argument is about levels.  The queue is sorted by depth, lies       *)
(* between the depth of the current page and one more, and nothing loaded  *)
(* is deeper; so an edge from the current page never shortens a way.  The  *)
(* first page at the depth limit, and the first link met at the document   *)
(* limit, are followed by no further admission and no further alias, so    *)
(* what was not known to be loaded then never will be.                     *)
(*                                                                         *)
(* That links are answered rests on the queue: a page is waiting in it,    *)
(* current with the references still pending, or finished, so the queue    *)
(* tells which references of which page have been visited.  Each of those  *)
(* left an edge, a frontier entry or a reason, and while no update came    *)
(* between, the caches the answer was read from agree with the disk.       *)
(***************************************************************************)
EXTENDS ScopeLoad, TLAPS, WellFoundedInduction

USE DEF Loaded

Limit == {"max-depth", "max-documents", "max-content-bytes"}
Scoped == [depth : Nat, rootIndices : SUBSET Nat, reachedFrom : SUBSET Address]
EdgesOver(pages) == [from : pages, to : pages, kind : EdgeKind]

(* The parts of TypeOK a step treats separately. *)
WalkOK ==
    /\ links \in LinkTables /\ query \in Requests
    /\ phase \in {"validate", "roots", "follow", "invalid", "none", "done"}
    /\ root \in Nat \ {0}
    /\ queue \in Seq(Loaded)
    /\ current \in Loaded \cup {None}
    /\ pending \in Seq(ScopeReference)
LoadsOK ==
    /\ documents \in Seq(Address)
    /\ Loaded \subseteq Address
    /\ scoped \in [Loaded -> Scoped]
    /\ content \in Nat
    /\ failures \subseteq ResolutionKey
    /\ resolved \in [ResolutionKey -> Loaded \cup {None}]
GraphOK ==
    /\ edges \subseteq EdgesOver(Loaded)
    /\ frontier \subseteq [from : Loaded, target : ScopeReference, limit : Limit]
    /\ \A u \in unresolved :
         \/ u \in {None} \X Selector \X {"missing", "unregistered", "budget"}
         \/ u \in Loaded \X ScopeReference \X {"missing", "unregistered", "escapes"}
    /\ referenceLimits \subseteq Loaded
WorldOK == installed \subseteq Address /\ updates \in Nat

LEMMA TypeParts == TypeOK <=> WalkOK /\ LoadsOK /\ GraphOK /\ WorldOK
  BY DEF TypeOK, WalkOK, LoadsOK, GraphOK, WorldOK, Scoped, EdgesOver, Limit

----------------------------------------------------------------------------
(* What the operators of the model do. *)

(* The references collected from a page are references. *)
LEMMA CollectedType ==
  ASSUME links \in LinkTables, NEW page \in Address
  PROVE  Collected(page) \in Seq(ScopeReference)
  <1>1. links[page] \in Seq(ScopeReference)
    BY ScopeAssumption
  <1>2. CASE Len(links[page]) <= MaxReferences
    <2>1. Collected(page) = links[page]
      BY <1>1, <1>2 DEF Collected
    <2> QED BY <1>1, <2>1
  <1>3. CASE ~(Len(links[page]) <= MaxReferences)
    <2>1. Collected(page) = SubSeq(links[page], 1, MaxReferences)
      BY <1>3 DEF Collected
    <2>2. Collected(page) = [i \in 1 .. MaxReferences |-> links[page][i]]
      BY <1>1, <1>3, <2>1, ScopeAssumption
    <2>3. MaxReferences \in Nat /\ MaxReferences <= Len(links[page])
      BY <1>1, <1>3, ScopeAssumption
    <2>4. \A i \in 1 .. MaxReferences : links[page][i] \in ScopeReference
      BY <1>1, <2>3
    <2> QED BY <2>2, <2>3, <2>4
  <1> QED BY <1>2, <1>3

(* A key of a reference that has a selector is a key. *)
LEMMA KeyType ==
  ASSUME NEW r \in ScopeReference, r.selector # None
  PROVE  Key(r) \in ResolutionKey
  BY DEF Key, PolicyOf, ResolutionKey, Policy, ScopeReference

(* Recording edges to loaded pages changes the parents of pages only. *)
LEMMA RecordFacts ==
  ASSUME LoadsOK, GraphOK, NEW new \in SUBSET EdgesOver(Loaded), RecordExistingEdges(new)
  PROVE  /\ DOMAIN scoped' = Loaded
         /\ scoped' \in [Loaded -> Scoped]
         /\ edges' = edges \cup new /\ edges' \subseteq EdgesOver(Loaded)
         /\ \A page \in Loaded :
              /\ scoped'[page].depth = scoped[page].depth
              /\ scoped'[page].rootIndices = scoped[page].rootIndices
              /\ scoped'[page].reachedFrom = scoped[page].reachedFrom
                   \cup {e.from : e \in {e \in new : e.to = page /\ e.from # page}}
  <1> DEFINE Parents(page) == {e.from : e \in {e \in new : e.to = page /\ e.from # page}}
  <1>1. scoped' = [page \in Loaded |->
                     [scoped[page] EXCEPT !.reachedFrom = @ \cup Parents(page)]]
    BY DEF RecordExistingEdges
  <1>2. \A page \in Loaded : Parents(page) \subseteq Address
    BY DEF EdgesOver, LoadsOK
  <1>3. \A page \in Loaded : scoped[page] \in Scoped
    BY DEF LoadsOK
  <1> HIDE DEF Parents
  <1>4. \A page \in Loaded :
          /\ scoped'[page] = [scoped[page] EXCEPT !.reachedFrom = @ \cup Parents(page)]
          /\ scoped'[page] \in Scoped
    BY <1>1, <1>2, <1>3 DEF Scoped
  <1>5. DOMAIN scoped' = Loaded /\ scoped' \in [Loaded -> Scoped]
    BY <1>1, <1>4
  <1>6. \A page \in Loaded :
          /\ scoped'[page].depth = scoped[page].depth
          /\ scoped'[page].rootIndices = scoped[page].rootIndices
          /\ scoped'[page].reachedFrom = scoped[page].reachedFrom \cup Parents(page)
    BY <1>3, <1>4 DEF Scoped
  <1>7. edges' = edges \cup new /\ edges' \subseteq EdgesOver(Loaded)
    BY DEF RecordExistingEdges, GraphOK
  <1> QED BY <1>5, <1>6, <1>7 DEF Parents

(* Admitting a page adds it to every ledger and leaves the others alone. *)
LEMMA AdmitFacts ==
  ASSUME WalkOK, LoadsOK, NEW page \in Address, NEW depth \in Nat,
         NEW roots \in SUBSET Nat, NEW parents \in SUBSET Address,
         Admit(page, depth, roots, parents)
  PROVE  /\ DOMAIN scoped' = Loaded \cup {page}
         /\ scoped' \in [Loaded \cup {page} -> Scoped]
         /\ scoped'[page] = [depth |-> depth, rootIndices |-> roots, reachedFrom |-> parents]
         /\ \A p \in Loaded : p # page => scoped'[p] = scoped[p]
         /\ documents' = Append(documents, page) /\ documents' \in Seq(Address)
         /\ queue' = Append(queue, page) /\ queue' \in Seq(Loaded \cup {page})
         /\ content' = content + Size[page] /\ content' \in Nat
  <1>1. queue \in Seq(Loaded \cup {page})
    BY DEF WalkOK
  <1>2. Size[page] \in Nat
    BY ScopeAssumption
  <1>3. queue' \in Seq(Loaded \cup {page})
    BY <1>1 DEF Admit
  <1>4. [depth |-> depth, rootIndices |-> roots, reachedFrom |-> parents] \in Scoped
    BY DEF Scoped
  <1>5. scoped' = [p \in Loaded \cup {page} |-> IF p = page
          THEN [depth |-> depth, rootIndices |-> roots, reachedFrom |-> parents]
          ELSE scoped[p]]
    BY DEF Admit
  <1>6. DOMAIN scoped' = Loaded \cup {page} /\ scoped' \in [Loaded \cup {page} -> Scoped]
    BY <1>4, <1>5 DEF LoadsOK
  <1>7. /\ scoped'[page] = [depth |-> depth, rootIndices |-> roots, reachedFrom |-> parents]
        /\ \A p \in Loaded : p # page => scoped'[p] = scoped[p]
    BY <1>5
  <1> QED BY <1>2, <1>3, <1>6, <1>7 DEF Admit, LoadsOK

----------------------------------------------------------------------------
(* Type correctness. *)

LEMMA InitTyped == Init => TypeOK
  <1> SUFFICES ASSUME Init PROVE TypeOK
    OBVIOUS
  <1>1. scoped = [page \in {} |-> None] /\ Loaded = {}
    BY DEF Init
  <1>2. scoped \in [Loaded -> Scoped]
    BY <1>1
  <1>3. LoadsOK
    BY <1>1, <1>2 DEF Init, LoadsOK
  <1>4. WalkOK
    BY <1>1, ScopeAssumption DEF Init, WalkOK
  <1>5. GraphOK
    BY <1>1 DEF Init, GraphOK
  <1>6. WorldOK
    BY DEF Init, WorldOK
  <1> QED BY <1>3, <1>4, <1>5, <1>6, TypeParts

(* The root being resolved. *)
LEMMA RootFacts ==
  ASSUME WalkOK, NextRoot
  PROVE  /\ RootKey \in ResolutionKey /\ RootKey[1] \in Selector
         /\ root' = root + 1 /\ root' \in Nat \ {0}
         /\ WalkOK /\ phase' = "roots" /\ phase = "roots"
  <1>1. query \in Request
    BY ScopeAssumption DEF WalkOK
  <1>2. query.documents \in Seq(Selector) /\ root \in 1 .. Len(query.documents)
    BY <1>1 DEF Request, NextRoot, WalkOK
  <1>3. query.documents[root] \in Selector
    BY <1>2
  <1> QED BY <1>3 DEF RootKey, ResolutionKey, Policy, NextRoot, WalkOK

(* Remembering a loaded root. *)
LEMMA RememberFacts ==
  ASSUME LoadsOK, NEW pages, Loaded \subseteq pages, NEW page \in pages, RememberRoot(page)
  PROVE  resolved' \in [ResolutionKey -> pages \cup {None}]
  BY DEF RememberRoot, LoadsOK

(* Pages are only added: what names loaded pages keeps its type. *)
LEMMA WalkKept ==
  ASSUME WalkOK, Loaded \subseteq Loaded', UNCHANGED <<links, query>>,
         phase' \in {"validate", "roots", "follow", "invalid", "none", "done"},
         root' \in Nat \ {0}, queue' \in Seq(Loaded'),
         current' \in Loaded' \cup {None}, pending' \in Seq(ScopeReference)
  PROVE  WalkOK'
  BY DEF WalkOK

LEMMA GraphKept ==
  ASSUME GraphOK, Loaded \subseteq Loaded',
         edges' \subseteq EdgesOver(Loaded'),
         frontier' = frontier, unresolved' = unresolved, referenceLimits' = referenceLimits
  PROVE  GraphOK'
  BY DEF GraphOK

LEMMA LoadsKept ==
  ASSUME LoadsOK, UNCHANGED loads
  PROVE  LoadsOK'
  BY DEF LoadsOK, loads

LEMMA WorldKept ==
  ASSUME WorldOK, UNCHANGED world
  PROVE  WorldOK'
  BY DEF WorldOK, world

LEMMA NextParts == WalkOK' /\ LoadsOK' /\ GraphOK' /\ WorldOK' => TypeOK'
  BY DEF TypeOK, WalkOK, LoadsOK, GraphOK, WorldOK, Scoped, EdgesOver, Limit

(* Recording something unresolved about a loaded page or a root. *)
LEMMA UnresolvedFacts ==
  ASSUME GraphOK, DOMAIN scoped' = Loaded, NEW from, NEW what, NEW reason,
         RecordUnresolved(from, what, reason),
         UNCHANGED <<frontier, referenceLimits>>, edges' \subseteq EdgesOver(Loaded),
         \/ from = None /\ what \in Selector /\ reason \in {"missing", "unregistered", "budget"}
         \/ /\ from \in Loaded /\ what \in ScopeReference
            /\ reason \in {"missing", "unregistered", "escapes"}
  PROVE  GraphOK'
  BY DEF RecordUnresolved, GraphOK

(* Between the queue and the request: the steps that load nothing. *)
LEMMA QuietTyped ==
  ASSUME TypeOK, RootFails \/ RootOverBudget \/ Validate \/ RootsDone
                 \/ QueueIsEmpty \/ Update \/ Answered
  PROVE  TypeOK'
  <1>0. WalkOK /\ LoadsOK /\ GraphOK /\ WorldOK
    BY TypeParts
  <1>1. CASE RootFails
    <2>1. /\ RootKey \in ResolutionKey /\ RootKey[1] \in Selector
          /\ root' \in Nat \ {0} /\ phase' \in {"roots"}
      BY <1>0, <1>1, RootFacts DEF RootFails
    <2>2. /\ UNCHANGED <<links, query, current, pending, queue, scoped>>
          /\ UNCHANGED world /\ UNCHANGED <<edges, frontier, referenceLimits>>
          /\ UNCHANGED <<documents, content, resolved>>
      BY <1>1 DEF RootFails, NextRoot, world
    <2>3. failures' \subseteq ResolutionKey
      BY <1>0, <1>1, <2>1 DEF RootFails, LoadsOK
    <2>4. LoadsOK'
      BY <1>0, <2>2, <2>3 DEF LoadsOK
    <2>5. GraphOK'
      <3>1. /\ RecordUnresolved(None, RootKey[1], CachedAnswer(RootKey))
            /\ CachedAnswer(RootKey) \in {"missing", "unregistered"}
        BY <1>1 DEF RootFails
      <3>2. edges' \subseteq EdgesOver(Loaded)
        BY <1>0, <2>2 DEF GraphOK
      <3> QED BY <1>0, <2>1, <2>2, <3>1, <3>2, UnresolvedFacts
    <2>6. WalkOK'
      BY <1>0, <2>1, <2>2 DEF WalkOK
    <2> QED BY <2>2, <2>4, <2>5, <2>6, <1>0, WorldKept, NextParts
  <1>2. CASE RootOverBudget
    <2>1. RootKey[1] \in Selector /\ root' \in Nat \ {0} /\ phase' \in {"roots"}
      BY <1>0, <1>2, RootFacts DEF RootOverBudget
    <2>2. /\ UNCHANGED <<links, query, current, pending, queue>> /\ UNCHANGED loads
          /\ UNCHANGED world /\ UNCHANGED <<edges, frontier, referenceLimits>>
      BY <1>2 DEF RootOverBudget, NextRoot, world
    <2>3. scoped' = scoped
      BY <2>2 DEF loads
    <2>4. GraphOK'
      <3>1. RecordUnresolved(None, RootKey[1], "budget")
        BY <1>2 DEF RootOverBudget
      <3>2. edges' \subseteq EdgesOver(Loaded)
        BY <1>0, <2>2 DEF GraphOK
      <3> QED BY <1>0, <2>1, <2>2, <2>3, <3>1, <3>2, UnresolvedFacts
    <2>5. WalkOK'
      BY <1>0, <2>1, <2>2, <2>3 DEF WalkOK
    <2> QED BY <1>0, <2>2, <2>4, <2>5, LoadsKept, WorldKept, NextParts
  <1>3. CASE Validate \/ RootsDone \/ QueueIsEmpty \/ Answered
    <2>1. /\ UNCHANGED world /\ UNCHANGED loads /\ UNCHANGED graph
          /\ UNCHANGED <<query, root, queue, current, pending>>
          /\ phase' = phase \/ phase' \in {"roots", "invalid", "none", "follow", "done"}
      BY <1>3 DEF Validate, RootsDone, QueueIsEmpty, Answered, vars, walk
    <2>2. scoped' = scoped /\ links' = links
      BY <2>1 DEF loads, world
    <2>3. GraphOK'
      BY <1>0, <2>1, <2>2 DEF graph, GraphOK
    <2>4. WalkOK'
      BY <1>0, <2>1, <2>2 DEF WalkOK
    <2> QED BY <1>0, <2>1, <2>3, <2>4, LoadsKept, WorldKept, NextParts
  <1>4. CASE Update
    <2>1. UNCHANGED links /\ UNCHANGED walk /\ UNCHANGED loads /\ UNCHANGED graph
      BY <1>4 DEF Update
    <2>2. scoped' = scoped
      BY <2>1 DEF loads
    <2>3. GraphOK'
      BY <1>0, <2>1, <2>2 DEF graph, GraphOK
    <2>4. WalkOK'
      BY <1>0, <2>1, <2>2 DEF walk, WalkOK
    <2>5. WorldOK'
      BY <1>0, <1>4 DEF Update, WorldOK
    <2> QED BY <1>0, <2>1, <2>3, <2>4, <2>5, LoadsKept, NextParts
  <1> QED BY <1>1, <1>2, <1>3, <1>4

(* A root selects a page. *)
LEMMA RootTyped ==
  ASSUME TypeOK, RootRepeats \/ RootLoads
  PROVE  TypeOK'
  <1> DEFINE page == CachedAnswer(RootKey)
  <1>0. WalkOK /\ LoadsOK /\ GraphOK /\ WorldOK /\ NextRoot
    BY TypeParts DEF RootRepeats, RootLoads
  <1>1. /\ UNCHANGED <<links, query, current, pending>> /\ UNCHANGED world
        /\ UNCHANGED <<edges, frontier, referenceLimits, failures, unresolved>>
    BY <1>0 DEF RootRepeats, RootLoads, NextRoot, world
  <1>2. root' \in Nat \ {0} /\ root \in Nat /\ phase' = "roots"
    BY <1>0, RootFacts DEF WalkOK
  <1>3. CASE RootRepeats
    <2>1. /\ page \in Loaded /\ RememberRoot(page)
          /\ scoped' = [scoped EXCEPT ![page].rootIndices = @ \cup {root}]
          /\ UNCHANGED <<queue, documents, content>>
      BY <1>3 DEF RootRepeats
    <2> HIDE DEF page
    <2>2. scoped[page] \in Scoped
      BY <1>0, <2>1 DEF LoadsOK
    <2>3. DOMAIN scoped' = Loaded /\ scoped' \in [Loaded -> Scoped]
      <3>1. [scoped[page] EXCEPT !.rootIndices = @ \cup {root}] \in Scoped
        BY <2>2, <1>2 DEF Scoped
      <3> QED BY <1>0, <2>1, <3>1 DEF LoadsOK
    <2>4. resolved' \in [ResolutionKey -> Loaded \cup {None}]
      BY <1>0, <2>1, RememberFacts
    <2>5. LoadsOK'
      BY <1>0, <2>1, <2>3, <2>4, <1>1 DEF LoadsOK
    <2>6. WalkOK'
      BY <1>0, <2>1, <2>3, <1>1, <1>2 DEF WalkOK
    <2>7. GraphOK'
      BY <1>0, <2>3, <1>1 DEF GraphOK
    <2> QED BY <1>0, <1>1, <2>5, <2>6, <2>7, WorldKept, NextParts
  <1>4. CASE RootLoads
    <2>1. page \in Address /\ RememberRoot(page) /\ Admit(page, 0, {root}, {})
      BY <1>4 DEF RootLoads
    <2> HIDE DEF page
    <2>2. /\ DOMAIN scoped' = Loaded \cup {page}
          /\ scoped' \in [Loaded \cup {page} -> Scoped]
          /\ documents' \in Seq(Address) /\ content' \in Nat
          /\ queue' \in Seq(Loaded \cup {page})
      <3>1. {root} \in SUBSET Nat /\ {} \in SUBSET Address /\ 0 \in Nat
        BY <1>2
      <3> QED BY ONLY <1>0, <2>1, <3>1, AdmitFacts
    <2>3. resolved' \in [ResolutionKey -> (Loaded \cup {page}) \cup {None}]
      BY <1>0, <2>1, RememberFacts
    <2>4. LoadsOK'
      BY <1>0, <2>1, <2>2, <2>3, <1>1 DEF LoadsOK
    <2>5. GraphOK'
      <3>1. edges' \subseteq EdgesOver(Loaded')
        BY <1>0, <1>1, <2>2 DEF GraphOK, EdgesOver
      <3> QED BY <1>0, <1>1, <2>2, <3>1, GraphKept
    <2>6. WalkOK'
      BY <1>0, <2>2, <1>1, <1>2 DEF WalkOK
    <2> QED BY <1>0, <1>1, <2>4, <2>5, <2>6, WorldKept, NextParts
  <1> QED BY <1>3, <1>4
----------------------------------------------------------------------------
(* Following links. *)

(* Somebody's references are pending only while there is a current page. *)
Typed == TypeOK /\ (pending # <<>> => current # None)

(* Taking a page from the queue. *)
LEMMA TakeFacts ==
  ASSUME WalkOK, LoadsOK, GraphOK, TakeFromQueue, NEW here, here = Head(queue)
  PROVE  /\ here \in Loaded /\ here \in Address /\ here # None
         /\ current' = here /\ queue' = Tail(queue) /\ queue' \in Seq(Loaded)
         /\ Collected(here) \in Seq(ScopeReference)
         /\ referenceLimits' \subseteq Loaded
         /\ UNCHANGED world /\ UNCHANGED <<links, query, phase, root>>
         /\ UNCHANGED <<documents, content, failures, resolved, unresolved>>
         /\ phase = "follow" /\ queue # <<>> /\ pending = <<>>
  <1>1. queue \in Seq(Loaded) /\ queue # <<>>
    BY DEF WalkOK, TakeFromQueue
  <1>2. here \in Loaded /\ Tail(queue) \in Seq(Loaded)
    BY <1>1
  <1>3. here \in Address /\ here # None
    BY <1>2, ScopeAssumption DEF LoadsOK
  <1>4. Collected(here) \in Seq(ScopeReference)
    BY <1>3, CollectedType DEF WalkOK
  <1> QED BY <1>1, <1>2, <1>3, <1>4 DEF TakeFromQueue, world, GraphOK

(* The edges and the frontier a page at the depth limit adds. *)
BoundaryNew(here) ==
    {Edge(here, Known(r), r) : r \in {r \in Range(Collected(here)) : Known(r) \in Loaded}}
BoundaryCut(here) ==
    {[from |-> here, target |-> r, limit |-> "max-depth"] :
        r \in Range(Collected(here)) \ {r \in Range(Collected(here)) : Known(r) \in Loaded}}

LEMMA BoundaryFacts ==
  ASSUME WalkOK, LoadsOK, GraphOK, BoundaryDocument, NEW here, here = Head(queue)
  PROVE  /\ BoundaryNew(here) \in SUBSET EdgesOver(Loaded)
         /\ RecordExistingEdges(BoundaryNew(here))
         /\ frontier' = frontier \cup BoundaryCut(here)
         /\ BoundaryCut(here) \subseteq
              [from : Loaded, target : ScopeReference, limit : {"max-depth"}]
         /\ scoped[here].depth >= query.maxDepth /\ pending' = pending
  <1>1. here \in Loaded /\ Collected(here) \in Seq(ScopeReference)
    BY TakeFacts DEF BoundaryDocument
  <1>2. \A r \in Range(Collected(here)) : r \in ScopeReference
    BY <1>1 DEF Range
  <1>3. \A r \in ScopeReference : Known(r) \in Loaded =>
          Edge(here, Known(r), r) \in EdgesOver(Loaded)
    BY <1>1 DEF Edge, EdgesOver, ScopeReference
  <1>4. BoundaryNew(here) \in SUBSET EdgesOver(Loaded)
    BY <1>2, <1>3 DEF BoundaryNew
  <1>5. BoundaryCut(here) \subseteq
              [from : Loaded, target : ScopeReference, limit : {"max-depth"}]
    BY <1>1, <1>2 DEF BoundaryCut
  <1> QED BY <1>4, <1>5 DEF BoundaryDocument, BoundaryNew, BoundaryCut

LEMMA TakeTyped ==
  ASSUME Typed, FollowDocument \/ BoundaryDocument
  PROVE  Typed'
  <1> DEFINE here == Head(queue)
  <1>0. WalkOK /\ LoadsOK /\ GraphOK /\ WorldOK /\ TakeFromQueue
    BY TypeParts DEF Typed, FollowDocument, BoundaryDocument
  <1>1. /\ here \in Loaded /\ here # None /\ current' = here /\ queue' \in Seq(Loaded)
        /\ Collected(here) \in Seq(ScopeReference)
        /\ referenceLimits' \subseteq Loaded
        /\ UNCHANGED world /\ UNCHANGED <<links, query, phase, root>>
        /\ UNCHANGED <<documents, content, failures, resolved, unresolved>>
        /\ phase = "follow" /\ pending = <<>>
    BY <1>0, TakeFacts
  <1>2. CASE FollowDocument
    <2>1. /\ pending' = Collected(here) /\ UNCHANGED <<scoped, edges, frontier>>
      BY <1>2 DEF FollowDocument
    <2> HIDE DEF here
    <2>2. WalkOK'
      BY <1>0, <1>1, <2>1 DEF WalkOK
    <2>3. LoadsOK' /\ GraphOK'
      BY <1>0, <1>1, <2>1 DEF LoadsOK, GraphOK
    <2> QED BY <1>0, <1>1, <2>2, <2>3, WorldKept, NextParts DEF Typed
  <1>3. CASE BoundaryDocument
    <2>1. /\ BoundaryNew(here) \in SUBSET EdgesOver(Loaded)
          /\ RecordExistingEdges(BoundaryNew(here))
          /\ frontier' = frontier \cup BoundaryCut(here)
          /\ BoundaryCut(here) \subseteq
               [from : Loaded, target : ScopeReference, limit : {"max-depth"}]
          /\ pending' = pending
      BY <1>0, <1>3, BoundaryFacts
    <2> HIDE DEF here
    <2>2. /\ DOMAIN scoped' = Loaded /\ scoped' \in [Loaded -> Scoped]
          /\ edges' \subseteq EdgesOver(Loaded)
      BY <1>0, <2>1, RecordFacts
    <2>3. WalkOK'
      BY <1>0, <1>1, <2>1, <2>2 DEF WalkOK
    <2>4. LoadsOK'
      BY <1>0, <1>1, <2>2 DEF LoadsOK
    <2>5. frontier' \subseteq [from : Loaded, target : ScopeReference, limit : Limit]
      <3>1. BoundaryCut(here) \subseteq [from : Loaded, target : ScopeReference, limit : Limit]
        BY <2>1 DEF Limit
      <3> QED BY <1>0, <2>1, <3>1 DEF GraphOK
    <2>6. GraphOK'
      BY <1>0, <1>1, <2>2, <2>5 DEF GraphOK
    <2> QED BY <1>0, <1>1, <2>1, <2>3, <2>4, <2>6, WorldKept, NextParts DEF Typed
  <1> QED BY <1>2, <1>3

(* Taking the next reference of the current page. *)
LEMMA ReferenceFacts ==
  ASSUME Typed, NextReference
  PROVE  /\ WalkOK /\ LoadsOK /\ GraphOK /\ WorldOK
         /\ Head(pending) \in ScopeReference /\ pending' \in Seq(ScopeReference)
         /\ pending # <<>> /\ current # None /\ current \in Loaded /\ current' = current
         /\ UNCHANGED <<links, query, phase, root, referenceLimits>> /\ UNCHANGED world
         /\ phase = "follow"
         /\ WorldOK'
  <1>1. WalkOK /\ LoadsOK /\ GraphOK /\ WorldOK /\ pending # <<>> /\ current # None
    BY TypeParts DEF Typed, NextReference
  <1>2. pending \in Seq(ScopeReference) /\ current \in Loaded
    BY <1>1 DEF WalkOK
  <1>3. Head(pending) \in ScopeReference /\ Tail(pending) \in Seq(ScopeReference)
    BY <1>1, <1>2
  <1>4. UNCHANGED world
    BY DEF NextReference
  <1>5. WorldOK'
    BY <1>1, <1>4, WorldKept
  <1> QED BY <1>1, <1>2, <1>3, <1>4, <1>5 DEF NextReference, world

LEMMA FrontierFacts ==
  ASSUME Typed, NextReference, NEW limit \in Limit,
         frontier' = frontier \cup {Frontier(Head(pending), limit)}
  PROVE  frontier' \subseteq [from : Loaded, target : ScopeReference, limit : Limit]
  BY ReferenceFacts DEF GraphOK, Frontier

LEMMA FollowTyped ==
  ASSUME Typed, FollowKnown \/ FollowAtLimit \/ FollowEscapes \/ FollowFails
                \/ FollowRepeats \/ FollowLoads \/ FollowOverBudget
  PROVE  Typed'
  <1> DEFINE reference == Head(pending)
             key == Key(reference)
             page == CachedAnswer(key)
  <1>0. NextReference
    BY DEF FollowKnown, FollowAtLimit, FollowEscapes, FollowFails, FollowRepeats,
           FollowLoads, FollowOverBudget
  <1>1. /\ WalkOK /\ LoadsOK /\ GraphOK /\ WorldOK /\ WorldOK'
        /\ reference \in ScopeReference /\ pending' \in Seq(ScopeReference)
        /\ current # None /\ current \in Loaded /\ current' = current
        /\ UNCHANGED <<links, query, phase, root, referenceLimits>>
    BY <1>0, ReferenceFacts
  <1>2. Loads(reference) => key \in ResolutionKey
    BY <1>1, KeyType DEF Loads
  <1>w. ASSUME Loaded \subseteq Loaded', queue' \in Seq(Loaded'), LoadsOK', GraphOK'
        PROVE  Typed'
    <2>1. WalkOK'
      BY <1>1, <1>w DEF WalkOK
    <2> QED BY <1>1, <1>w, <2>1, NextParts DEF Typed
  <1>q. queue \in Seq(Loaded)
    BY <1>1 DEF WalkOK
  <1>3. CASE FollowKnown
    <2>1. /\ Known(reference) \in Loaded
          /\ RecordExistingEdges({Edge(current, Known(reference), reference)})
          /\ UNCHANGED <<queue, documents, content, failures, resolved, frontier, unresolved>>
      BY <1>3 DEF FollowKnown
    <2> HIDE DEF reference
    <2>2. {Edge(current, Known(reference), reference)} \in SUBSET EdgesOver(Loaded)
      BY <1>1, <2>1 DEF Edge, EdgesOver, ScopeReference
    <2>3. /\ DOMAIN scoped' = Loaded /\ scoped' \in [Loaded -> Scoped]
          /\ edges' \subseteq EdgesOver(Loaded)
      BY <1>1, <2>1, <2>2, RecordFacts
    <2>4. LoadsOK' /\ GraphOK'
      BY <1>1, <2>1, <2>3 DEF LoadsOK, GraphOK
    <2> QED BY <1>w, <1>q, <2>1, <2>3, <2>4
  <1>4. CASE FollowAtLimit \/ FollowOverBudget
    <2>1. /\ UNCHANGED loads /\ UNCHANGED <<queue, edges, unresolved>>
          /\ \E limit \in Limit : frontier' = frontier \cup {Frontier(reference, limit)}
      BY <1>4 DEF FollowAtLimit, FollowOverBudget, Limit
    <2>2. frontier' \subseteq [from : Loaded, target : ScopeReference, limit : Limit]
      BY <1>0, <2>1, FrontierFacts
    <2>3. scoped' = scoped
      BY <2>1 DEF loads
    <2>4. LoadsOK' /\ GraphOK'
      BY <1>1, <2>1, <2>2, <2>3, LoadsKept DEF GraphOK
    <2> QED BY <1>w, <1>q, <2>1, <2>3, <2>4
  <1>5. CASE FollowEscapes
    <2>1. /\ UNCHANGED loads /\ UNCHANGED <<queue, edges, frontier>>
          /\ RecordUnresolved(current, reference, "escapes")
      BY <1>5 DEF FollowEscapes
    <2>2. scoped' = scoped
      BY <2>1 DEF loads
    <2> HIDE DEF reference
    <2>3. edges' \subseteq EdgesOver(Loaded)
      BY <1>1, <2>1 DEF GraphOK
    <2>4. LoadsOK' /\ GraphOK'
      BY <1>1, <2>1, <2>2, <2>3, LoadsKept, UnresolvedFacts
    <2> QED BY <1>w, <1>q, <2>1, <2>2, <2>4
  <1>6. CASE FollowFails
    <2>1. /\ page \in {"missing", "unregistered"} /\ Loads(reference)
          /\ failures' = IF page = "missing" THEN failures \cup {key} ELSE failures
          /\ RecordUnresolved(current, reference, page)
          /\ UNCHANGED <<queue, documents, scoped, content, resolved, edges, frontier>>
      BY <1>6 DEF FollowFails
    <2>2. failures' \subseteq ResolutionKey
      BY <1>1, <1>2, <2>1 DEF LoadsOK
    <2> HIDE DEF reference, page
    <2>3. edges' \subseteq EdgesOver(Loaded)
      BY <1>1, <2>1 DEF GraphOK
    <2>4. LoadsOK'
      BY <1>1, <2>1, <2>2 DEF LoadsOK
    <2>5. GraphOK'
      BY <1>1, <2>1, <2>3, UnresolvedFacts
    <2> QED BY <1>w, <1>q, <2>1, <2>4, <2>5
  <1>7. CASE FollowRepeats
    <2>1. /\ Loads(reference) /\ page \in Loaded
          /\ RecordExistingEdges({Edge(current, page, reference)})
          /\ resolved' = [resolved EXCEPT ![key] = page]
          /\ UNCHANGED <<queue, documents, content, failures, frontier, unresolved>>
      BY <1>7 DEF FollowRepeats
    <2>2. resolved' \in [ResolutionKey -> Loaded \cup {None}]
      BY <1>1, <1>2, <2>1 DEF LoadsOK
    <2> HIDE DEF reference, page
    <2>3. {Edge(current, page, reference)} \in SUBSET EdgesOver(Loaded)
      BY <1>1, <2>1 DEF Edge, EdgesOver, ScopeReference
    <2>4. /\ DOMAIN scoped' = Loaded /\ scoped' \in [Loaded -> Scoped]
          /\ edges' \subseteq EdgesOver(Loaded)
      BY <1>1, <2>1, <2>3, RecordFacts
    <2>5. LoadsOK' /\ GraphOK'
      BY <1>1, <2>1, <2>2, <2>4 DEF LoadsOK, GraphOK
    <2> QED BY <1>w, <1>q, <2>1, <2>4, <2>5
  <1>8. CASE FollowLoads
    <2>1. /\ Loads(reference) /\ page \in Address \ Loaded
          /\ Admit(page, scoped[current].depth + 1, {}, {current})
          /\ edges' = edges \cup {Edge(current, page, reference)}
          /\ resolved' = [resolved EXCEPT ![key] = page]
          /\ UNCHANGED <<failures, frontier, unresolved>>
      BY <1>8 DEF FollowLoads
    <2>2. resolved' \in [ResolutionKey -> (Loaded \cup {page}) \cup {None}]
      BY <1>1, <1>2, <2>1 DEF LoadsOK
    <2> HIDE DEF reference, page
    <2>3. /\ DOMAIN scoped' = Loaded \cup {page}
          /\ scoped' \in [Loaded \cup {page} -> Scoped]
          /\ documents' \in Seq(Address) /\ content' \in Nat
          /\ queue' \in Seq(Loaded \cup {page})
      <3>1. scoped[current].depth + 1 \in Nat /\ {current} \in SUBSET Address
        BY <1>1 DEF LoadsOK, Scoped
      <3>2. {} \in SUBSET Nat
        OBVIOUS
      <3> QED BY ONLY <1>1, <2>1, <3>1, <3>2, AdmitFacts
    <2>4. LoadsOK'
      BY <1>1, <2>1, <2>2, <2>3 DEF LoadsOK
    <2>5. edges' \subseteq EdgesOver(Loaded')
      <3>1. Edge(current, page, reference) \in EdgesOver(Loaded')
        BY <1>1, <2>3 DEF Edge, EdgesOver, ScopeReference
      <3>2. edges \subseteq EdgesOver(Loaded')
        BY <1>1, <2>3 DEF GraphOK, EdgesOver
      <3> QED BY <2>1, <3>1, <3>2
    <2>6. GraphOK'
      BY <1>1, <2>1, <2>3, <2>5, GraphKept
    <2> QED BY <1>w, <2>3, <2>4, <2>6
  <1> QED BY <1>3, <1>4, <1>5, <1>6, <1>7, <1>8

(* Every step keeps the types. *)
LEMMA NextTyped == Typed /\ [Next]_vars => Typed'
  <1> SUFFICES ASSUME Typed, [Next]_vars PROVE Typed'
    OBVIOUS
  <1>0. TypeOK
    BY DEF Typed
  <1>1. CASE RootFails \/ RootOverBudget \/ Validate \/ RootsDone
             \/ QueueIsEmpty \/ Update \/ Answered
    <2>1. TypeOK'
      BY <1>0, <1>1, QuietTyped
    <2>2. UNCHANGED <<pending, current>>
      BY <1>1 DEF RootFails, RootOverBudget, NextRoot, Validate, RootsDone, QueueIsEmpty,
                  Update, Answered, vars, walk
    <2> QED BY <2>1, <2>2 DEF Typed
  <1>2. CASE RootRepeats \/ RootLoads
    <2>1. UNCHANGED <<pending, current>>
      BY <1>2 DEF RootRepeats, RootLoads, NextRoot
    <2> QED BY <1>0, <1>2, <2>1, RootTyped DEF Typed
  <1>3. CASE FollowDocument \/ BoundaryDocument
    BY <1>3, TakeTyped
  <1>4. CASE FollowKnown \/ FollowAtLimit \/ FollowEscapes \/ FollowFails
             \/ FollowRepeats \/ FollowLoads \/ FollowOverBudget
    BY <1>4, FollowTyped
  <1>5. CASE UNCHANGED vars
    <2>1. UNCHANGED <<links, installed, updates, query, phase, root, queue, current, pending,
                      documents, scoped, content, failures, resolved,
                      edges, frontier, unresolved, referenceLimits>>
      BY <1>5 DEF vars, world, walk, loads, graph
    <2> QED BY <2>1 DEF Typed, TypeOK
  <1> QED BY <1>1, <1>2, <1>3, <1>4, <1>5 DEF Next, Roots, Follow

LEMMA AlwaysTyped == Spec => []Typed
  <1>1. Init => Typed
    BY InitTyped DEF Init, Typed
  <1> QED BY <1>1, NextTyped, PTL DEF Spec

(* Every reachable state of a request is well typed: whatever names loaded *)
(* pages (the queue, aliases, edges, the frontier) names loaded pages.     *)
THEOREM TypeCorrect == Spec => []TypeOK
  <1>1. Typed => TypeOK
    BY DEF Typed
  <1> QED BY <1>1, AlwaysTyped, PTL
----------------------------------------------------------------------------
(* What a step does to the pages: they are added, never deepened. *)

(* The steps that leave the pages, their depths and the walk alone. *)
Still ==
    /\ UNCHANGED <<documents, scoped, queue, current, content, resolved, edges, query>>
    /\ \/ pending' = pending
       \/ pending # <<>> /\ pending' = Tail(pending)

(* The phase stays, or the walk is over. *)
Onward == \/ phase' = phase
          \/ phase = "follow" /\ phase' = "done"

LEMMA NextCases ==
  ASSUME Typed, [Next]_vars
  PROVE  \/ Still /\ frontier' = frontier /\ Onward
         \/ Still /\ frontier' = frontier /\ pending' = pending /\ (Validate \/ RootsDone)
         \/ RootRepeats \/ RootLoads \/ FollowDocument \/ BoundaryDocument
         \/ FollowKnown \/ FollowRepeats \/ FollowLoads
         \/ Still /\ FollowAtLimit
         \/ Still /\ FollowOverBudget
  <1>1. CASE RootFails \/ RootOverBudget
    <2>1. Still /\ frontier' = frontier /\ Onward
      BY <1>1 DEF RootFails, RootOverBudget, NextRoot, Still, loads, Onward
    <2> QED BY <2>1
  <1>2. CASE Validate \/ RootsDone
    <2>1. Still /\ frontier' = frontier /\ pending' = pending
      BY <1>2 DEF Validate, RootsDone, Still, loads, graph
    <2> QED BY <1>2, <2>1
  <1>3. CASE QueueIsEmpty
    <2>1. Still /\ frontier' = frontier /\ Onward
      BY <1>3 DEF QueueIsEmpty, Still, loads, graph, Onward
    <2> QED BY <2>1
  <1>4. CASE Update \/ Answered \/ UNCHANGED vars
    <2>1. UNCHANGED walk /\ UNCHANGED loads /\ UNCHANGED graph
      BY <1>4 DEF Update, Answered, vars
    <2>2. Still /\ frontier' = frontier /\ Onward
      BY <2>1 DEF walk, Still, loads, graph, Onward
    <2> QED BY <2>2
  <1>5. CASE FollowEscapes \/ FollowFails
    BY <1>5 DEF FollowEscapes, FollowFails, NextReference, Still, loads, Onward
  <1>6. CASE FollowAtLimit \/ FollowOverBudget
    BY <1>6 DEF FollowAtLimit, FollowOverBudget, NextReference, Still, loads
  <1> QED BY <1>1, <1>2, <1>3, <1>4, <1>5, <1>6 DEF Next, Roots, Follow

(* A root another root has selected is recorded, at the depth it has. *)
LEMMA RepeatFacts ==
  ASSUME Typed, RootRepeats
  PROVE  /\ phase = "roots" /\ phase' = "roots" /\ root \in Nat
         /\ DOMAIN scoped' = Loaded
         /\ \A p \in Loaded : /\ scoped'[p].depth = scoped[p].depth
                              /\ scoped'[p].reachedFrom = scoped[p].reachedFrom
                              /\ \/ scoped'[p].rootIndices = scoped[p].rootIndices
                                 \/ scoped'[p].rootIndices = scoped[p].rootIndices \cup {root}
         /\ UNCHANGED <<documents, queue, current, pending, content, edges, frontier, query>>
  <1> DEFINE page == CachedAnswer(RootKey)
  <1>1. WalkOK /\ LoadsOK /\ NextRoot
    BY TypeParts DEF Typed, RootRepeats
  <1>2. /\ page \in Loaded
        /\ scoped' = [scoped EXCEPT ![page].rootIndices = @ \cup {root}]
        /\ UNCHANGED <<queue, documents, content>>
    BY DEF RootRepeats
  <1> HIDE DEF page
  <1>3. \A p \in Loaded : scoped[p] \in Scoped
    BY <1>1 DEF LoadsOK
  <1>4. /\ DOMAIN scoped' = Loaded
        /\ scoped'[page] = [scoped[page] EXCEPT !.rootIndices = @ \cup {root}]
        /\ \A p \in Loaded : p # page => scoped'[p] = scoped[p]
    BY <1>1, <1>2 DEF LoadsOK
  <1>5. /\ scoped'[page].depth = scoped[page].depth
        /\ scoped'[page].reachedFrom = scoped[page].reachedFrom
        /\ scoped'[page].rootIndices = scoped[page].rootIndices \cup {root}
    BY <1>2, <1>3, <1>4 DEF Scoped
  <1> QED BY <1>1, <1>2, <1>4, <1>5 DEF NextRoot, WalkOK

(* A root that is loaded. *)
LEMMA RootLoadFacts ==
  ASSUME Typed, RootLoads, NEW page, page = CachedAnswer(RootKey)
  PROVE  /\ phase = "roots" /\ phase' = "roots" /\ page \in Address \ Loaded
         /\ root \in Nat \ {0} /\ root' = root + 1
         /\ query \in Request /\ root <= Len(query.documents)
         /\ DOMAIN scoped' = Loaded \cup {page}
         /\ \A p \in Loaded : scoped'[p] = scoped[p]
         /\ scoped'[page] = [depth |-> 0, rootIndices |-> {root}, reachedFrom |-> {}]
         /\ documents' = Append(documents, page) /\ queue' = Append(queue, page)
         /\ content' = content + Size[page] /\ Fits(page)
         /\ UNCHANGED <<current, pending, edges, frontier, query>>
  <1>1. WalkOK /\ LoadsOK /\ NextRoot
    BY TypeParts DEF Typed, RootLoads
  <1>2. page \in Address \ Loaded /\ Admit(page, 0, {root}, {}) /\ Fits(page)
    BY DEF RootLoads
  <1>3. {root} \in SUBSET Nat /\ {} \in SUBSET Address /\ 0 \in Nat
    BY <1>1 DEF WalkOK
  <1>4. /\ DOMAIN scoped' = Loaded \cup {page}
        /\ scoped'[page] = [depth |-> 0, rootIndices |-> {root}, reachedFrom |-> {}]
        /\ \A p \in Loaded : p # page => scoped'[p] = scoped[p]
        /\ documents' = Append(documents, page) /\ queue' = Append(queue, page)
        /\ content' = content + Size[page]
    BY <1>2 DEF Admit
  <1>5. query \in Request /\ root <= Len(query.documents)
    BY <1>1, ScopeAssumption DEF WalkOK, NextRoot
  <1> QED BY <1>1, <1>2, <1>4, <1>5 DEF RootLoads, NextRoot, WalkOK

(* An edge to a page that is loaded: known before or known by its lookup. *)
LEMMA EdgeFacts ==
  ASSUME Typed, FollowKnown \/ FollowRepeats
  PROVE  \E page \in Loaded :
           LET e == Edge(current, page, Head(pending)) IN
           /\ {e} \in SUBSET EdgesOver(Loaded)
           /\ e.from = current /\ e.to = page
           /\ RecordExistingEdges({e})
           /\ DOMAIN scoped' = Loaded /\ edges' = edges \cup {e}
           /\ \A p \in Loaded :
                /\ scoped'[p].depth = scoped[p].depth
                /\ scoped'[p].rootIndices = scoped[p].rootIndices
                /\ scoped'[p].reachedFrom = scoped[p].reachedFrom
                     \cup {x.from : x \in {x \in {e} : x.to = p /\ x.from # p}}
           /\ UNCHANGED <<documents, queue, current, content, query, phase, frontier>>
           /\ pending # <<>> /\ pending' = Tail(pending) /\ current \in Loaded
  <1>1. /\ WalkOK /\ LoadsOK /\ GraphOK /\ NextReference
        /\ Head(pending) \in ScopeReference /\ current \in Loaded
    BY ReferenceFacts DEF FollowKnown, FollowRepeats
  <1>2. PICK page \in Loaded : RecordExistingEdges({Edge(current, page, Head(pending))})
    BY DEF FollowKnown, FollowRepeats
  <1> DEFINE e == Edge(current, page, Head(pending))
  <1>3. {e} \in SUBSET EdgesOver(Loaded) /\ e.from = current /\ e.to = page
    BY <1>1, <1>2 DEF Edge, EdgesOver, ScopeReference
  <1> HIDE DEF e
  <1>4. /\ DOMAIN scoped' = Loaded /\ edges' = edges \cup {e}
        /\ \A p \in Loaded :
             /\ scoped'[p].depth = scoped[p].depth
             /\ scoped'[p].rootIndices = scoped[p].rootIndices
             /\ scoped'[p].reachedFrom = scoped[p].reachedFrom
                  \cup {x.from : x \in {x \in {e} : x.to = p /\ x.from # p}}
    <2>1. RecordExistingEdges({e})
      BY <1>2 DEF e
    <2> QED BY ONLY <1>1, <1>3, <2>1, RecordFacts
  <1>5. UNCHANGED <<documents, queue, current, content, query, phase, frontier>>
    BY DEF FollowKnown, FollowRepeats, NextReference
  <1> QED BY <1>1, <1>2, <1>3, <1>4, <1>5 DEF e, NextReference

(* A page that is admitted below the current one. *)
LEMMA LoadFacts ==
  ASSUME Typed, FollowLoads, NEW page, page = CachedAnswer(Key(Head(pending)))
  PROVE  LET e == Edge(current, page, Head(pending)) IN
         /\ page \in Address \ Loaded /\ current \in Loaded /\ current # page
         /\ e.from = current /\ e.to = page /\ edges' = edges \cup {e}
         /\ DOMAIN scoped' = Loaded \cup {page}
         /\ \A p \in Loaded : scoped'[p] = scoped[p]
         /\ scoped'[page] = [depth |-> scoped[current].depth + 1, rootIndices |-> {},
                             reachedFrom |-> {current}]
         /\ documents' = Append(documents, page) /\ queue' = Append(queue, page)
         /\ content' = content + Size[page] /\ Fits(page)
         /\ ~AtDocumentLimit
         /\ UNCHANGED <<current, query, phase, frontier>>
         /\ phase = "follow" /\ pending # <<>> /\ pending' = Tail(pending)
  <1>1. /\ WalkOK /\ LoadsOK /\ GraphOK /\ NextReference
        /\ Head(pending) \in ScopeReference /\ current \in Loaded /\ phase = "follow"
    BY ReferenceFacts DEF FollowLoads
  <1>2. /\ page \in Address \ Loaded /\ Fits(page) /\ ~AtDocumentLimit
        /\ Admit(page, scoped[current].depth + 1, {}, {current})
        /\ edges' = edges \cup {Edge(current, page, Head(pending))}
    BY DEF FollowLoads, Loads
  <1>3. /\ scoped[current].depth + 1 \in Nat /\ {current} \in SUBSET Address
        /\ {} \in SUBSET Nat
    BY <1>1 DEF LoadsOK, Scoped
  <1>4. /\ DOMAIN scoped' = Loaded \cup {page}
        /\ scoped'[page] = [depth |-> scoped[current].depth + 1, rootIndices |-> {},
                            reachedFrom |-> {current}]
        /\ \A p \in Loaded : p # page => scoped'[p] = scoped[p]
        /\ documents' = Append(documents, page) /\ queue' = Append(queue, page)
        /\ content' = content + Size[page]
    BY <1>2 DEF Admit
  <1> QED BY <1>1, <1>2, <1>4 DEF FollowLoads, NextReference, Edge

(* A page taken from the queue, followed or at the depth limit. *)
LEMMA VisitFacts ==
  ASSUME Typed, FollowDocument \/ BoundaryDocument
  PROVE  /\ queue # <<>> /\ pending = <<>> /\ phase = "follow"
         /\ current' = Head(queue) /\ current' \in Loaded /\ current' # None
         /\ queue' = Tail(queue)
         /\ UNCHANGED <<documents, content, resolved, query, phase>>
         /\ DOMAIN scoped' = Loaded
         /\ \A p \in Loaded : /\ scoped'[p].depth = scoped[p].depth
                              /\ scoped'[p].rootIndices = scoped[p].rootIndices
  <1>0. WalkOK /\ LoadsOK /\ GraphOK /\ TakeFromQueue
    BY TypeParts DEF Typed, FollowDocument, BoundaryDocument
  <1>1. /\ queue # <<>> /\ pending = <<>> /\ phase = "follow"
        /\ current' = Head(queue) /\ current' \in Loaded /\ current' # None
        /\ queue' = Tail(queue)
        /\ UNCHANGED <<documents, content, resolved, query, phase>>
    BY <1>0, TakeFacts
  <1>2. CASE FollowDocument
    BY <1>1, <1>2 DEF FollowDocument
  <1>3. CASE BoundaryDocument
    <2>1. /\ BoundaryNew(Head(queue)) \in SUBSET EdgesOver(Loaded)
          /\ RecordExistingEdges(BoundaryNew(Head(queue)))
      BY <1>0, <1>3, BoundaryFacts
    <2>2. /\ DOMAIN scoped' = Loaded
          /\ \A p \in Loaded : /\ scoped'[p].depth = scoped[p].depth
                               /\ scoped'[p].rootIndices = scoped[p].rootIndices
      BY <1>0, <2>1, RecordFacts
    <2> QED BY <1>1, <2>2
  <1> QED BY <1>2, <1>3
----------------------------------------------------------------------------
(* Levels. *)

(* Before links are followed nothing has been followed. *)
NotYet ==
    phase \notin {"follow", "done"} =>
        current = None /\ pending = <<>> /\ edges = {} /\ frontier = {}
Sorted ==
    \A i, j \in 1 .. Len(queue) : i <= j => scoped[queue[i]].depth <= scoped[queue[j]].depth
(* Only roots are loaded until the first page is visited. *)
RootLevel ==
    current = None => edges = {} /\ \A p \in Loaded : scoped[p].depth = 0
(* What is loaded is at most one below the current page, what waits is not *)
(* above it.                                                               *)
OneLevelBelow ==
    current # None =>
        /\ \A p \in Loaded : scoped[p].depth <= scoped[current].depth + 1
        /\ \A i \in 1 .. Len(queue) : scoped[current].depth <= scoped[queue[i]].depth
AboveTheLimit ==
    pending # <<>> => scoped[current].depth < query.maxDepth
OrderOK == NotYet /\ Sorted /\ RootLevel /\ OneLevelBelow /\ AboveTheLimit

LEMMA DepthType ==
  ASSUME Typed
  PROVE  /\ \A p \in Loaded : scoped[p] \in Scoped /\ scoped[p].depth \in Nat
         /\ queue \in Seq(Loaded) /\ query \in Request
         /\ current \in Loaded \cup {None} /\ Loaded \subseteq Address /\ None \notin Loaded
  BY TypeParts, ScopeAssumption DEF Typed, LoadsOK, WalkOK, Scoped

LEMMA HeadFirst ==
  ASSUME Typed, queue # <<>>
  PROVE  /\ Len(queue) >= 1 /\ Head(queue) = queue[1] /\ Head(queue) \in Loaded
         /\ Tail(queue) \in Seq(Loaded) /\ Len(Tail(queue)) = Len(queue) - 1
         /\ \A i \in 1 .. Len(Tail(queue)) : Tail(queue)[i] = queue[i + 1] /\ i + 1 \in 1 .. Len(queue)
  BY DepthType

(* A page joins the end of the queue. *)
LEMMA Joined ==
  ASSUME Typed, NEW page, queue' = Append(queue, page)
  PROVE  /\ Len(queue') = Len(queue) + 1 /\ queue'[Len(queue) + 1] = page
         /\ \A i \in 1 .. Len(queue) : queue'[i] = queue[i] /\ queue[i] \in Loaded
         /\ \A i \in 1 .. Len(queue') : i \in 1 .. Len(queue) \/ i = Len(queue) + 1
         /\ Len(queue) \in Nat
  BY DepthType

LEMMA InitOrdered == Init => OrderOK
  BY DEF Init, OrderOK, NotYet, Sorted, RootLevel, OneLevelBelow, AboveTheLimit

(* Steps that change no depth, no queue and not the current page. *)
LEMMA StillOrdered ==
  ASSUME Typed, OrderOK, DOMAIN scoped' = Loaded,
         \A p \in Loaded : scoped'[p].depth = scoped[p].depth,
         UNCHANGED <<queue, current, query>>,
         \/ pending' = pending
         \/ pending # <<>> /\ pending' = Tail(pending),
         Onward \/ phase \in {"validate", "roots"},
         phase' \notin {"follow", "done"} =>
             pending' = pending /\ edges' = edges /\ frontier' = frontier,
         current = None => edges' = edges
  PROVE  OrderOK'
  <1>1. \A i \in 1 .. Len(queue) : queue[i] \in Loaded
    BY DepthType
  <1>2. NotYet'
    BY DEF OrderOK, NotYet, Onward
  <1>3. Sorted' /\ RootLevel' /\ OneLevelBelow'
    BY <1>1, DepthType DEF OrderOK, Sorted, RootLevel, OneLevelBelow
  <1>4. pending' # <<>> => pending # <<>>
    OBVIOUS
  <1>5. AboveTheLimit'
    BY <1>4, DepthType DEF OrderOK, AboveTheLimit, Typed
  <1> QED BY <1>2, <1>3, <1>5 DEF OrderOK

LEMMA RootOrdered ==
  ASSUME Typed, OrderOK, RootLoads
  PROVE  OrderOK'
  <1>1. PICK page : page = CachedAnswer(RootKey)
    OBVIOUS
  <1>2. /\ phase = "roots" /\ phase' = "roots"
        /\ DOMAIN scoped' = Loaded \cup {page}
        /\ \A p \in Loaded : scoped'[p] = scoped[p]
        /\ scoped'[page] = [depth |-> 0, rootIndices |-> {root}, reachedFrom |-> {}]
        /\ queue' = Append(queue, page)
        /\ UNCHANGED <<current, pending, edges, frontier, query>>
    BY <1>1, RootLoadFacts
  <1>3. current = None /\ pending = <<>> /\ \A p \in Loaded : scoped[p].depth = 0
    BY <1>2 DEF OrderOK, NotYet, RootLevel
  <1>4. \A p \in Loaded' : scoped'[p].depth = 0
    BY <1>2, <1>3
  <1>5. \A i \in 1 .. Len(queue') : queue'[i] \in Loaded'
    BY <1>2, Joined
  <1>6. NotYet' /\ Sorted' /\ RootLevel' /\ OneLevelBelow' /\ AboveTheLimit'
    BY <1>2, <1>3, <1>4, <1>5 DEF OrderOK, NotYet, Sorted, RootLevel, OneLevelBelow, AboveTheLimit
  <1> QED BY <1>6 DEF OrderOK

LEMMA LoadOrdered ==
  ASSUME Typed, OrderOK, FollowLoads
  PROVE  OrderOK'
  <1>1. PICK page : page = CachedAnswer(Key(Head(pending)))
    OBVIOUS
  <1>2. /\ phase = "follow" /\ phase' = "follow" /\ pending # <<>>
        /\ current \in Loaded /\ current # None /\ page \notin Loaded
        /\ DOMAIN scoped' = Loaded \cup {page}
        /\ \A p \in Loaded : scoped'[p] = scoped[p]
        /\ scoped'[page].depth = scoped[current].depth + 1
        /\ queue' = Append(queue, page)
        /\ UNCHANGED <<current, query>>
    <2>1. /\ phase = "follow" /\ phase' = "follow" /\ pending # <<>>
          /\ current \in Loaded /\ page \notin Loaded
          /\ DOMAIN scoped' = Loaded \cup {page}
          /\ \A p \in Loaded : scoped'[p] = scoped[p]
          /\ scoped'[page] = [depth |-> scoped[current].depth + 1, rootIndices |-> {},
                              reachedFrom |-> {current}]
          /\ queue' = Append(queue, page)
          /\ UNCHANGED <<current, query, phase>>
      BY <1>1, LoadFacts
    <2> QED BY <2>1, DepthType
  <1>3. scoped[current].depth \in Nat /\ \A p \in Loaded : scoped[p].depth \in Nat
    BY <1>2, DepthType
  <1>4. NotYet' /\ RootLevel'
    BY <1>2 DEF NotYet, RootLevel
  <1>5. Sorted'
    <2> SUFFICES ASSUME NEW i \in 1 .. Len(queue'), NEW j \in 1 .. Len(queue'), i <= j
                 PROVE  scoped'[queue'[i]].depth <= scoped'[queue'[j]].depth
      BY DEF Sorted
    <2>1. CASE j \in 1 .. Len(queue)
      <3>1. i \in 1 .. Len(queue)
        BY <2>1, <1>2, Joined
      <3> QED BY <2>1, <3>1, <1>2, Joined DEF OrderOK, Sorted
    <2>2. CASE j = Len(queue) + 1
      <3>1. scoped'[queue'[j]].depth = scoped[current].depth + 1
        BY <2>2, <1>2, Joined
      <3>2. CASE i \in 1 .. Len(queue)
        <4>1. queue'[i] \in Loaded /\ scoped'[queue'[i]] = scoped[queue'[i]]
          BY <3>2, <1>2, Joined
        <4> QED BY <3>1, <4>1, <1>2 DEF OrderOK, OneLevelBelow
      <3>3. CASE i = Len(queue) + 1
        BY <3>1, <3>3, <2>2, <1>3
      <3> QED BY <3>2, <3>3, <1>2, Joined
    <2> QED BY <2>1, <2>2, <1>2, Joined
  <1>6. OneLevelBelow'
    <2>1. \A p \in Loaded' : scoped'[p].depth <= scoped'[current'].depth + 1
      BY <1>2, <1>3 DEF OrderOK, OneLevelBelow
    <2>2. ASSUME NEW i \in 1 .. Len(queue')
          PROVE  scoped'[current'].depth <= scoped'[queue'[i]].depth
      <3>1. CASE i \in 1 .. Len(queue)
        BY <3>1, <1>2, Joined DEF OrderOK, OneLevelBelow
      <3>2. CASE i = Len(queue) + 1
        BY <3>2, <1>2, <1>3, Joined
      <3> QED BY <3>1, <3>2, <1>2, Joined
    <2> QED BY <2>1, <2>2 DEF OneLevelBelow
  <1>7. AboveTheLimit'
    BY <1>2 DEF OrderOK, AboveTheLimit
  <1> QED BY <1>4, <1>5, <1>6, <1>7 DEF OrderOK

(* The next page is not above the current one and not above its followers. *)
LEMMA NextLevel ==
  ASSUME Typed, OrderOK, queue # <<>>, NEW here, here = Head(queue)
  PROVE  /\ here \in Loaded
         /\ \A p \in Loaded : scoped[p].depth <= scoped[here].depth + 1
         /\ \A i \in 1 .. Len(queue) : scoped[here].depth <= scoped[queue[i]].depth
         /\ current # None => scoped[current].depth <= scoped[here].depth
  <1>1. here = queue[1] /\ here \in Loaded /\ 1 \in 1 .. Len(queue)
    BY HeadFirst, DepthType
  <1>2. \A p \in Loaded : scoped[p].depth \in Nat
    BY DepthType
  <1>3. CASE current = None
    BY <1>1, <1>2, <1>3 DEF OrderOK, Sorted, RootLevel
  <1>4. CASE current # None
    <2>1. current \in Loaded
      BY <1>4, DepthType
    <2> QED BY <1>1, <1>2, <1>4, <2>1 DEF OrderOK, Sorted, OneLevelBelow
  <1> QED BY <1>3, <1>4

LEMMA VisitOrdered ==
  ASSUME Typed, OrderOK, FollowDocument \/ BoundaryDocument
  PROVE  OrderOK'
  <1> DEFINE here == Head(queue)
  <1>1. /\ queue # <<>> /\ phase = "follow" /\ pending = <<>>
        /\ current' = here /\ here \in Loaded /\ here # None
        /\ queue' = Tail(queue) /\ UNCHANGED <<query, phase>>
        /\ DOMAIN scoped' = Loaded
        /\ \A p \in Loaded : scoped'[p].depth = scoped[p].depth
    BY VisitFacts
  <1>2. /\ \A p \in Loaded : scoped[p].depth <= scoped[here].depth + 1
        /\ \A i \in 1 .. Len(queue) : scoped[here].depth <= scoped[queue[i]].depth
    BY <1>1, NextLevel
  <1>3. pending' # <<>> => scoped[here].depth < query.maxDepth
    BY <1>1 DEF FollowDocument, BoundaryDocument
  <1>4. /\ Len(queue') = Len(queue) - 1 /\ Len(queue) \in Nat
        /\ \A i \in 1 .. Len(queue') :
               /\ queue'[i] = queue[i + 1] /\ i + 1 \in 1 .. Len(queue)
               /\ queue[i + 1] \in Loaded
    BY <1>1, HeadFirst, DepthType
  <1> HIDE DEF here
  <1>5. NotYet' /\ RootLevel' /\ AboveTheLimit'
    BY <1>1, <1>3 DEF NotYet, RootLevel, AboveTheLimit
  <1>6. OneLevelBelow'
    BY <1>1, <1>2, <1>4 DEF OneLevelBelow
  <1>7. Sorted'
    <2> SUFFICES ASSUME NEW i \in 1 .. Len(queue'), NEW j \in 1 .. Len(queue'), i <= j
                 PROVE  scoped'[queue'[i]].depth <= scoped'[queue'[j]].depth
      BY DEF Sorted
    <2>1. i + 1 <= j + 1 /\ i + 1 \in 1 .. Len(queue) /\ j + 1 \in 1 .. Len(queue)
      BY <1>4
    <2>2. scoped[queue[i + 1]].depth <= scoped[queue[j + 1]].depth
      BY <2>1 DEF OrderOK, Sorted
    <2> QED BY <1>1, <1>4, <2>2
  <1> QED BY <1>5, <1>6, <1>7 DEF OrderOK

LEMMA NextOrdered == Typed /\ OrderOK /\ [Next]_vars => OrderOK'
  <1> SUFFICES ASSUME Typed, OrderOK, [Next]_vars PROVE OrderOK'
    OBVIOUS
  <1>1. CASE Still /\ frontier' = frontier /\ Onward
    <2>1. pending # <<>> => phase \in {"follow", "done"}
      BY DEF OrderOK, NotYet
    <2>2. /\ DOMAIN scoped' = Loaded /\ \A p \in Loaded : scoped'[p].depth = scoped[p].depth
          /\ UNCHANGED <<queue, current, query, edges, frontier>>
          /\ pending' = pending \/ (pending # <<>> /\ pending' = Tail(pending))
      BY <1>1 DEF Still
    <2>3. phase' \notin {"follow", "done"} => pending' = pending
      BY <1>1, <2>1, <2>2 DEF Onward
    <2> QED BY <1>1, <2>2, <2>3, StillOrdered
  <1>2. CASE Still /\ frontier' = frontier /\ pending' = pending /\ (Validate \/ RootsDone)
    <2>1. phase \in {"validate", "roots"}
      BY <1>2 DEF Validate, RootsDone
    <2> QED BY <1>2, <2>1, StillOrdered DEF Still
  <1>3. CASE RootRepeats
    BY <1>3, RepeatFacts, StillOrdered DEF Onward
  <1>4. CASE FollowKnown \/ FollowRepeats
    <2>1. current # None /\ phase = "follow" /\ phase' = "follow"
      BY <1>4, ReferenceFacts DEF FollowKnown, FollowRepeats
    <2> QED BY <1>4, <2>1, EdgeFacts, StillOrdered DEF Onward
  <1>5. CASE Still /\ (FollowAtLimit \/ FollowOverBudget)
    <2>1. current # None /\ phase = "follow" /\ phase' = "follow"
      BY <1>5, ReferenceFacts DEF FollowAtLimit, FollowOverBudget
    <2> QED BY <1>5, <2>1, StillOrdered DEF Still, Onward
  <1> QED BY <1>1, <1>2, <1>3, <1>4, <1>5, NextCases, RootOrdered, LoadOrdered, VisitOrdered
LEMMA AlwaysOrdered == Spec => [](Typed /\ OrderOK)
  <1>1. Init => Typed
    BY InitTyped DEF Init, Typed
  <1> QED BY <1>1, InitOrdered, NextTyped, NextOrdered, PTL DEF Spec

----------------------------------------------------------------------------
(* Breadth-first traversal. *)

Parents(page, set) == {e.from : e \in {e \in set : e.to = page}} \ {page}

(* DepthsAreShortest, of one edge and of one page. *)
ShortEdge(e) == scoped[e.to].depth <= scoped[e.from].depth + 1
Rooted(page) == scoped[page].depth = 0 <=> scoped[page].rootIndices # {}
HasParent(page) ==
    scoped[page].depth > 0 =>
        \E parent \in scoped[page].reachedFrom :
            scoped[page].depth = scoped[parent].depth + 1
KnowsParents(page) == scoped[page].reachedFrom = Parents(page, edges)

LEMMA ShortestParts ==
  DepthsAreShortest <=>
    /\ \A e \in edges : ShortEdge(e)
    /\ \A page \in Loaded : Rooted(page) /\ HasParent(page) /\ KnowsParents(page)
  BY DEF DepthsAreShortest, ShortEdge, Rooted, HasParent, KnowsParents, Parents

LEMMA ShortestPartsNext ==
  ASSUME \A e \in edges' : ShortEdge(e)',
         \A page \in Loaded' : Rooted(page)' /\ HasParent(page)' /\ KnowsParents(page)'
  PROVE  DepthsAreShortest'
  BY DEF DepthsAreShortest, ShortEdge, Rooted, HasParent, KnowsParents, Parents

(* Edges between loaded pages that shorten no way. *)
LEMMA RecordShortest ==
  ASSUME Typed, DepthsAreShortest, NEW new \in SUBSET EdgesOver(Loaded),
         RecordExistingEdges(new), \A e \in new : ShortEdge(e)
  PROVE  DepthsAreShortest'
  <1>1. LoadsOK /\ GraphOK
    BY TypeParts DEF Typed
  <1>2. /\ DOMAIN scoped' = Loaded /\ edges' = edges \cup new
        /\ \A p \in Loaded :
             /\ scoped'[p].depth = scoped[p].depth
             /\ scoped'[p].rootIndices = scoped[p].rootIndices
             /\ scoped'[p].reachedFrom = scoped[p].reachedFrom
                  \cup {e.from : e \in {e \in new : e.to = p /\ e.from # p}}
    BY <1>1, RecordFacts
  <1>3. \A e \in edges' : e.to \in Loaded /\ e.from \in Loaded
    BY <1>1, <1>2 DEF GraphOK, EdgesOver
  <1>4. \A e \in edges' : ShortEdge(e)'
    BY <1>2, <1>3, ShortestParts DEF ShortEdge
  <1>5. ASSUME NEW page \in Loaded PROVE Rooted(page)' /\ HasParent(page)' /\ KnowsParents(page)'
    <2>1. Rooted(page) /\ HasParent(page) /\ KnowsParents(page)
      BY <1>5, ShortestParts
    <2>2. Rooted(page)'
      BY <1>2, <2>1 DEF Rooted
    <2>3. \A p \in scoped[page].reachedFrom : p \in Loaded
      BY <1>2, <1>3, <2>1 DEF KnowsParents, Parents
    <2>4. HasParent(page)'
      BY <1>2, <2>1, <2>3 DEF HasParent
    <2>5. KnowsParents(page)'
      <3>1. {e.from : e \in {e \in new : e.to = page /\ e.from # page}} = Parents(page, new)
        BY DEF Parents
      <3>2. Parents(page, edges \cup new) = Parents(page, edges) \cup Parents(page, new)
        BY DEF Parents
      <3>3. scoped'[page].reachedFrom = Parents(page, edges')
        BY <1>2, <2>1, <3>1, <3>2 DEF KnowsParents
      <3> QED BY <3>3 DEF KnowsParents, Parents
    <2> QED BY <2>2, <2>4, <2>5
  <1> QED BY <1>2, <1>4, <1>5, ShortestPartsNext

LEMMA RepeatShortest ==
  ASSUME Typed, OrderOK, DepthsAreShortest, RootRepeats
  PROVE  DepthsAreShortest'
  <1>1. /\ phase = "roots" /\ DOMAIN scoped' = Loaded /\ edges' = edges
        /\ \A p \in Loaded : /\ scoped'[p].depth = scoped[p].depth
                             /\ scoped'[p].reachedFrom = scoped[p].reachedFrom
                             /\ \/ scoped'[p].rootIndices = scoped[p].rootIndices
                                \/ scoped'[p].rootIndices = scoped[p].rootIndices \cup {root}
    BY RepeatFacts
  <1>2. edges = {} /\ \A p \in Loaded : scoped[p].depth = 0
    BY <1>1 DEF OrderOK, NotYet, RootLevel
  <1>3. \A e \in edges' : ShortEdge(e)'
    BY <1>1, <1>2
  <1>4. ASSUME NEW page \in Loaded PROVE Rooted(page)' /\ HasParent(page)' /\ KnowsParents(page)'
    <2>1. Rooted(page) /\ KnowsParents(page)
      BY <1>4, ShortestParts
    <2> QED BY <1>1, <1>2, <2>1 DEF Rooted, HasParent, KnowsParents, Parents
  <1> QED BY <1>1, <1>3, <1>4, ShortestPartsNext

LEMMA RootShortest ==
  ASSUME Typed, OrderOK, DepthsAreShortest, RootLoads
  PROVE  DepthsAreShortest'
  <1>1. PICK page : page = CachedAnswer(RootKey)
    OBVIOUS
  <1>2. /\ phase = "roots" /\ page \notin Loaded /\ DOMAIN scoped' = Loaded \cup {page}
        /\ \A p \in Loaded : scoped'[p] = scoped[p]
        /\ scoped'[page] = [depth |-> 0, rootIndices |-> {root}, reachedFrom |-> {}]
        /\ edges' = edges
    BY <1>1, RootLoadFacts
  <1>3. edges = {} /\ \A p \in Loaded : scoped[p].depth = 0
    BY <1>2 DEF OrderOK, NotYet, RootLevel
  <1>4. \A e \in edges' : ShortEdge(e)'
    BY <1>2, <1>3
  <1>5. ASSUME NEW p \in Loaded PROVE Rooted(p)' /\ HasParent(p)' /\ KnowsParents(p)'
    <2>1. Rooted(p) /\ KnowsParents(p)
      BY <1>5, ShortestParts
    <2> QED BY <1>2, <1>3, <2>1 DEF Rooted, HasParent, KnowsParents, Parents
  <1>6. Rooted(page)' /\ HasParent(page)' /\ KnowsParents(page)'
    BY <1>2, <1>3 DEF Rooted, HasParent, KnowsParents, Parents
  <1> QED BY <1>2, <1>4, <1>5, <1>6, ShortestPartsNext

LEMMA LoadShortest ==
  ASSUME Typed, OrderOK, DepthsAreShortest, FollowLoads
  PROVE  DepthsAreShortest'
  <1>1. PICK page : page = CachedAnswer(Key(Head(pending)))
    OBVIOUS
  <1> DEFINE new == Edge(current, page, Head(pending))
  <1>2. /\ page \notin Loaded /\ current \in Loaded /\ current # page
        /\ new.from = current /\ new.to = page /\ edges' = edges \cup {new}
        /\ DOMAIN scoped' = Loaded \cup {page}
        /\ \A p \in Loaded : scoped'[p] = scoped[p]
        /\ scoped'[page] = [depth |-> scoped[current].depth + 1, rootIndices |-> {},
                            reachedFrom |-> {current}]
    BY <1>1, LoadFacts
  <1> HIDE DEF new
  <1>3. scoped[current].depth \in Nat
    BY <1>2, DepthType
  <1>4. \A e \in edges : e.to \in Loaded /\ e.from \in Loaded
    BY TypeParts DEF Typed, GraphOK, EdgesOver
  <1>5. \A e \in edges' : ShortEdge(e)'
    BY <1>2, <1>3, <1>4, ShortestParts DEF ShortEdge
  <1>6. \A p \in Loaded : Parents(p, edges') = Parents(p, edges)
    BY <1>2 DEF Parents
  <1>7. Parents(page, edges') = {current}
    BY <1>2, <1>4 DEF Parents
  <1>8. ASSUME NEW p \in Loaded PROVE Rooted(p)' /\ HasParent(p)' /\ KnowsParents(p)'
    <2>1. Rooted(p) /\ HasParent(p) /\ KnowsParents(p)
      BY <1>8, ShortestParts
    <2>2. \A q \in scoped[p].reachedFrom : q \in Loaded
      BY <1>4, <2>1 DEF KnowsParents, Parents
    <2>3. Rooted(p)' /\ HasParent(p)'
      BY <1>2, <2>1, <2>2 DEF Rooted, HasParent
    <2>4. scoped'[p].reachedFrom = Parents(p, edges')
      BY <1>2, <1>6, <2>1 DEF KnowsParents
    <2> QED BY <2>3, <2>4 DEF KnowsParents, Parents
  <1>9. Rooted(page)' /\ HasParent(page)' /\ KnowsParents(page)'
    <2>1. Rooted(page)' /\ HasParent(page)'
      BY <1>2, <1>3 DEF Rooted, HasParent
    <2>2. scoped'[page].reachedFrom = Parents(page, edges')
      BY <1>2, <1>7
    <2> QED BY <2>1, <2>2 DEF KnowsParents, Parents
  <1> QED BY <1>2, <1>5, <1>8, <1>9, ShortestPartsNext

LEMMA NextShortest == Typed /\ OrderOK /\ DepthsAreShortest /\ [Next]_vars => DepthsAreShortest'
  <1> SUFFICES ASSUME Typed, OrderOK, DepthsAreShortest, [Next]_vars PROVE DepthsAreShortest'
    OBVIOUS
  <1>1. CASE UNCHANGED <<scoped, edges>>
    BY <1>1 DEF DepthsAreShortest
  <1>2. CASE FollowKnown \/ FollowRepeats
    <2>1. PICK page \in Loaded :
            /\ {Edge(current, page, Head(pending))} \in SUBSET EdgesOver(Loaded)
            /\ Edge(current, page, Head(pending)).from = current
            /\ Edge(current, page, Head(pending)).to = page
            /\ RecordExistingEdges({Edge(current, page, Head(pending))})
            /\ current \in Loaded
      BY <1>2, EdgeFacts
    <2>2. ShortEdge(Edge(current, page, Head(pending)))
      BY <2>1, DepthType DEF ShortEdge, OrderOK, OneLevelBelow
    <2> QED BY <2>1, <2>2, RecordShortest
  <1>3. CASE BoundaryDocument
    <2> DEFINE here == Head(queue)
    <2>1. /\ BoundaryNew(here) \in SUBSET EdgesOver(Loaded)
          /\ RecordExistingEdges(BoundaryNew(here))
      BY <1>3, BoundaryFacts, TypeParts DEF Typed
    <2>2. \A p \in Loaded : scoped[p].depth <= scoped[here].depth + 1
      BY <1>3, VisitFacts, NextLevel
    <2>3. \A e \in BoundaryNew(here) : e.from = here /\ e.to \in Loaded
      BY DEF BoundaryNew, Edge
    <2>4. \A e \in BoundaryNew(here) : ShortEdge(e)
      BY <2>2, <2>3 DEF ShortEdge
    <2> HIDE DEF here
    <2> QED BY <2>1, <2>4, RecordShortest
  <1>4. CASE FollowDocument
    BY <1>1, <1>4 DEF FollowDocument
  <1> QED BY <1>1, <1>2, <1>3, <1>4, NextCases, RepeatShortest, RootShortest, LoadShortest DEF Still

(* Traversal is breadth-first, for every request: no edge is a shorter way *)
(* to a page than its depth, and the recorded parents are the edges.       *)
THEOREM BreadthFirst == Spec => []DepthsAreShortest
  <1>1. Init => DepthsAreShortest
    BY DEF Init, DepthsAreShortest
  <1> QED BY <1>1, AlwaysOrdered, NextShortest, PTL DEF Spec
----------------------------------------------------------------------------
(* What was cut off. *)

(* Once a link is cut off for the number of documents none is admitted any *)
(* more; once one is cut off for the depth the current page and those that *)
(* follow are at the limit.                                                *)
Closed(f) ==
    /\ f.limit = "max-documents" => AtDocumentLimit /\ Known(f.target) \notin Loaded
    /\ f.limit = "max-depth" =>
         /\ current # None /\ scoped[current].depth >= query.maxDepth
         /\ Known(f.target) \notin Loaded
AllClosed == \A f \in frontier : Closed(f)

LEMMA ClosedCuts ==
  ASSUME Typed, AllClosed
  PROVE  NoFalseTruncation
  BY TypeParts DEF Typed, GraphOK, Limit, AllClosed, Closed, NoFalseTruncation

(* While references are followed below the depth limit and below the       *)
(* document limit nothing is cut off but for its size.                     *)
LEMMA NothingCut ==
  ASSUME Typed, OrderOK, AllClosed, NextReference, ~AtDocumentLimit, NEW f \in frontier
  PROVE  f.limit \notin {"max-documents", "max-depth"}
  <1>1. scoped[current].depth < query.maxDepth
    BY DEF OrderOK, AboveTheLimit, NextReference
  <1>2. scoped[current].depth \in Nat /\ query.maxDepth \in Nat
    BY DepthType, ReferenceFacts DEF Request
  <1> QED BY <1>1, <1>2 DEF AllClosed, Closed

(* What is known of a reference depends on the pages and the aliases. *)
LEMMA KnownStays ==
  ASSUME DOMAIN scoped' = Loaded, resolved' = resolved, NEW r
  PROVE  Known(r)' = Known(r)
  BY DEF Known

LEMMA ClosedStays ==
  ASSUME Typed, AllClosed, DOMAIN scoped' = Loaded, resolved' = resolved,
         \A p \in Loaded : scoped'[p].depth = scoped[p].depth,
         UNCHANGED <<documents, query, current, frontier>>
  PROVE  AllClosed'
  <1> SUFFICES ASSUME NEW f \in frontier PROVE Closed(f)'
    BY DEF AllClosed
  <1>1. Closed(f) /\ Known(f.target)' = Known(f.target)
    BY KnownStays DEF AllClosed
  <1> QED BY <1>1, DepthType DEF Closed, AtDocumentLimit

LEMMA NextClosed == Typed /\ OrderOK /\ AllClosed /\ [Next]_vars => AllClosed'
  <1> SUFFICES ASSUME Typed, OrderOK, AllClosed, [Next]_vars PROVE AllClosed'
    OBVIOUS
  <1>1. CASE Still /\ frontier' = frontier
    BY <1>1, ClosedStays DEF Still
  <1>2. CASE RootRepeats \/ RootLoads
    <2>1. frontier' = frontier /\ phase = "roots"
      BY <1>2, RepeatFacts, RootLoadFacts
    <2> QED BY <2>1 DEF OrderOK, NotYet, AllClosed
  <1>3. CASE FollowKnown
    BY <1>3, EdgeFacts, ClosedStays DEF FollowKnown
  <1>4. CASE FollowRepeats \/ FollowLoads
    <2>1. NextReference /\ ~AtDocumentLimit /\ frontier' = frontier
      BY <1>4 DEF FollowRepeats, FollowLoads, Loads
    <2>2. \A f \in frontier : f.limit \notin {"max-documents", "max-depth"}
      BY <2>1, NothingCut
    <2> QED BY <2>1, <2>2 DEF AllClosed, Closed
  <1>5. CASE Still /\ FollowAtLimit
    <2>1. /\ frontier' = frontier \cup {Frontier(Head(pending), "max-documents")}
          /\ Known(Head(pending)) \notin Loaded /\ AtDocumentLimit
          /\ UNCHANGED <<documents, scoped, resolved, query, current>>
      BY <1>5 DEF FollowAtLimit, Still
    <2>2. ASSUME NEW f \in frontier PROVE Closed(f)'
      <3>1. Closed(f) /\ Known(f.target)' = Known(f.target)
        BY <2>1, KnownStays DEF AllClosed
      <3> QED BY <2>1, <3>1 DEF Closed, AtDocumentLimit
    <2>3. ASSUME NEW f, f = Frontier(Head(pending), "max-documents") PROVE Closed(f)'
      <3>1. f.limit = "max-documents" /\ f.target = Head(pending)
        BY <2>3 DEF Frontier
      <3>2. Known(f.target)' = Known(f.target)
        BY <2>1, KnownStays
      <3> QED BY <2>1, <3>1, <3>2 DEF Closed, AtDocumentLimit
    <2> QED BY <2>1, <2>2, <2>3 DEF AllClosed
  <1>6. CASE Still /\ FollowOverBudget
    <2>1. /\ frontier' = frontier \cup {Frontier(Head(pending), "max-content-bytes")}
          /\ NextReference /\ ~AtDocumentLimit
      BY <1>6 DEF FollowOverBudget, Loads
    <2>2. \A f \in frontier' : f.limit \notin {"max-documents", "max-depth"}
      BY <2>1, NothingCut DEF Frontier
    <2> QED BY <2>2 DEF AllClosed, Closed
  <1>7. CASE FollowDocument
    <2>1. /\ current' = Head(queue) /\ UNCHANGED <<scoped, frontier, query, documents, resolved>>
          /\ scoped[Head(queue)].depth < query.maxDepth /\ queue # <<>>
      BY <1>7, VisitFacts DEF FollowDocument
    <2>2. ASSUME NEW f \in frontier PROVE Closed(f)'
      <3>1. Closed(f)
        BY DEF AllClosed
      <3>2. f.limit # "max-depth"
        <4> SUFFICES ASSUME f.limit = "max-depth" PROVE FALSE
          OBVIOUS
        <4>1. current # None /\ scoped[current].depth >= query.maxDepth
          BY <3>1 DEF Closed
        <4>2. scoped[current].depth <= scoped[Head(queue)].depth /\ Head(queue) \in Loaded
          BY <2>1, <4>1, NextLevel
        <4> QED BY <2>1, <4>1, <4>2, DepthType DEF Request
      <3>3. Known(f.target)' = Known(f.target)
        BY <2>1, KnownStays
      <3> QED BY <2>1, <3>1, <3>2, <3>3 DEF Closed, AtDocumentLimit
    <2> QED BY <2>1, <2>2 DEF AllClosed
  <1>8. CASE BoundaryDocument
    <2> DEFINE here == Head(queue)
    <2>1. /\ current' = here /\ here \in Loaded /\ queue # <<>> /\ here # None
          /\ UNCHANGED <<documents, resolved, query>> /\ DOMAIN scoped' = Loaded
          /\ \A p \in Loaded : scoped'[p].depth = scoped[p].depth
      BY <1>8, VisitFacts
    <2>2. /\ frontier' = frontier \cup BoundaryCut(here)
          /\ scoped[here].depth >= query.maxDepth
      BY <1>8, BoundaryFacts, TypeParts DEF Typed
    <2>3. current # None => scoped[current].depth <= scoped[here].depth
      BY <2>1, NextLevel
    <2>4. \A r : Known(r)' = Known(r)
      BY <2>1, KnownStays
    <2>5. \A f \in BoundaryCut(here) : f.limit = "max-depth" /\ Known(f.target) \notin Loaded
      BY DEF BoundaryCut
    <2> HIDE DEF here
    <2>6. ASSUME NEW f \in frontier PROVE Closed(f)'
      <3>1. Closed(f)
        BY DEF AllClosed
      <3> QED BY <2>1, <2>2, <2>4, <3>1 DEF Closed, AtDocumentLimit
    <2>7. ASSUME NEW f \in BoundaryCut(here) PROVE Closed(f)'
      BY <2>1, <2>2, <2>4, <2>5 DEF Closed
    <2> QED BY <2>2, <2>6, <2>7 DEF AllClosed
  <1> QED BY <1>1, <1>2, <1>3, <1>4, <1>5, <1>6, <1>7, <1>8, NextCases

(* A link reported as cut off by the depth or the number of documents does *)
(* not lead to a page of the same answer, however late that was loaded.    *)
THEOREM NoFalseCut == Spec => []NoFalseTruncation
  <1>1. Init => AllClosed
    BY DEF Init, AllClosed
  <1>2. Typed /\ AllClosed => NoFalseTruncation
    BY ClosedCuts
  <1> QED BY <1>1, <1>2, AlwaysOrdered, NextClosed, PTL DEF Spec
----------------------------------------------------------------------------
(* The bounds of the request. *)

Injective(s) == \A i, j \in 1 .. Len(s) : s[i] = s[j] => i = j
InBudget == content <= MaxContent
(* The validation of the request leaves room for every root. *)
RoomForRoots ==
    /\ phase \in {"validate", "invalid"} => root = 1 /\ documents = <<>>
    /\ phase = "roots" =>
         Len(documents) < root /\ Len(query.documents) <= query.maxDocuments
    /\ phase \notin {"validate", "invalid"} => Len(documents) <= query.maxDocuments
(* The list and the index of the loaded documents agree. *)
ListedOnce == Range(documents) = Loaded /\ Injective(documents)
BoundsOK == InBudget /\ RoomForRoots /\ ListedOnce /\ Injective(queue)

LEMMA BoundsLimits ==
  ASSUME Typed, BoundsOK
  PROVE  LimitsHold
  <1>1. documents \in Seq(Address) /\ queue \in Seq(Loaded)
    BY TypeParts DEF Typed, LoadsOK, WalkOK
  <1>2. DOMAIN documents = 1 .. Len(documents) /\ DOMAIN queue = 1 .. Len(queue)
    BY <1>1
  <1> QED BY <1>2 DEF BoundsOK, InBudget, RoomForRoots, ListedOnce, Injective, LimitsHold

LEMMA AppendOnce ==
  ASSUME NEW S, NEW s \in Seq(S), NEW x, x \notin Range(s), Injective(s)
  PROVE  Injective(Append(s, x)) /\ Range(Append(s, x)) = Range(s) \cup {x}
  <1>0. PICK t : t = Append(s, x)
    OBVIOUS
  <1>1. s \in Seq(S \cup {x}) /\ t \in Seq(S \cup {x}) /\ Len(t) = Len(s) + 1
    BY <1>0
  <1>2. t[Len(s) + 1] = x /\ Len(s) \in Nat /\ \A i \in 1 .. Len(s) : t[i] = s[i] /\ s[i] \in Range(s)
    BY <1>0, <1>1 DEF Range
  <1>3. \A i \in 1 .. Len(t) : i \in 1 .. Len(s) \/ i = Len(s) + 1
    BY <1>1
  <1>4. Range(t) = {t[i] : i \in 1 .. Len(t)} /\ Range(s) = {s[i] : i \in 1 .. Len(s)}
    BY <1>1 DEF Range
  <1>5. Injective(t)
    BY <1>1, <1>2, <1>3 DEF Injective
  <1>6. Range(t) = Range(s) \cup {x}
    <2>1. \A y \in Range(t) : y \in Range(s) \cup {x}
      BY <1>2, <1>3, <1>4
    <2>2. \A y \in Range(s) : y \in Range(t)
      BY <1>1, <1>2, <1>4
    <2>3. x \in Range(t)
      BY <1>1, <1>2, <1>4
    <2> QED BY <2>1, <2>2, <2>3
  <1> QED BY <1>0, <1>5, <1>6

LEMMA TailOnce ==
  ASSUME NEW S, NEW s \in Seq(S), s # <<>>, Injective(s)
  PROVE  Injective(Tail(s))
  BY DEF Injective

(* A page that is not loaded joins the documents and the queue. *)
LEMMA AdmitListed ==
  ASSUME Typed, ListedOnce, Injective(queue), NEW page, page \notin Loaded,
         documents' = Append(documents, page), queue' = Append(queue, page),
         DOMAIN scoped' = Loaded \cup {page}
  PROVE  ListedOnce' /\ Injective(queue)' /\ Len(documents') = Len(documents) + 1
  <1>1. documents \in Seq(Address) /\ queue \in Seq(Loaded)
    BY TypeParts DEF Typed, LoadsOK, WalkOK
  <1>2. page \notin Range(documents)
    BY DEF ListedOnce
  <1>3. page \notin Range(queue)
    BY <1>1 DEF Range
  <1>4. Injective(documents') /\ Range(documents') = Loaded \cup {page}
    <2>1. Injective(Append(documents, page)) /\ Range(Append(documents, page)) = Loaded \cup {page}
      BY <1>1, <1>2, AppendOnce DEF ListedOnce
    <2> QED BY <2>1
  <1>5. Injective(queue')
    <2>1. Injective(Append(queue, page))
      BY <1>1, <1>3, AppendOnce
    <2> QED BY <2>1
  <1>6. Len(documents') = Len(documents) + 1
    BY <1>1
  <1> QED BY <1>4, <1>5, <1>6 DEF ListedOnce, Injective

LEMMA FitsFacts ==
  ASSUME Typed, NEW page \in Address, Fits(page), content' = content + Size[page]
  PROVE  InBudget'
  BY DEF Fits, InBudget

LEMMA InitBounded == Init => BoundsOK
  <1> SUFFICES ASSUME Init PROVE BoundsOK
    OBVIOUS
  <1>1. Range(documents) = {} /\ Loaded = {}
    BY DEF Init, Range
  <1>2. Injective(documents) /\ Injective(queue)
    BY DEF Init, Injective
  <1> QED BY <1>1, <1>2, ScopeAssumption DEF Init, BoundsOK, InBudget, RoomForRoots, ListedOnce

LEMMA NextBounded == Typed /\ BoundsOK /\ [Next]_vars => BoundsOK'
  <1> SUFFICES ASSUME Typed, BoundsOK, [Next]_vars PROVE BoundsOK'
    OBVIOUS
  <1>0. /\ documents \in Seq(Address) /\ queue \in Seq(Loaded) /\ root \in Nat \ {0}
        /\ query \in Request /\ Len(documents) \in Nat
    BY TypeParts, ScopeAssumption DEF Typed, LoadsOK, WalkOK
  <1>1. CASE FollowDocument \/ BoundaryDocument
    <2>1. /\ queue # <<>> /\ queue' = Tail(queue) /\ phase = "follow"
          /\ UNCHANGED <<documents, content, query, phase>> /\ DOMAIN scoped' = Loaded
      BY <1>1, VisitFacts
    <2>2. Injective(queue')
      BY <1>0, <2>1, TailOnce DEF BoundsOK
    <2> QED BY <2>1, <2>2 DEF BoundsOK, InBudget, RoomForRoots, ListedOnce, Injective
  <1>2. CASE RootLoads
    <2>1. PICK page : page = CachedAnswer(RootKey)
      OBVIOUS
    <2>2. /\ phase = "roots" /\ phase' = "roots" /\ page \in Address \ Loaded
          /\ root' = root + 1 /\ root <= Len(query.documents)
          /\ DOMAIN scoped' = Loaded \cup {page}
          /\ documents' = Append(documents, page) /\ queue' = Append(queue, page)
          /\ content' = content + Size[page] /\ Fits(page) /\ query' = query
      BY <1>2, <2>1, RootLoadFacts
    <2>3. ListedOnce' /\ Injective(queue)' /\ Len(documents') = Len(documents) + 1
      BY <2>2, AdmitListed DEF BoundsOK
    <2>4. Len(query.documents) \in Nat /\ query.maxDocuments \in Nat
      BY <1>0 DEF Request
    <2>5. RoomForRoots'
      BY <1>0, <2>2, <2>3, <2>4 DEF BoundsOK, RoomForRoots
    <2>6. InBudget'
      BY <2>2, FitsFacts
    <2> QED BY <2>3, <2>5, <2>6 DEF BoundsOK
  <1>3. CASE FollowLoads
    <2>1. PICK page : page = CachedAnswer(Key(Head(pending)))
      OBVIOUS
    <2>2. /\ phase = "follow" /\ phase' = "follow" /\ page \in Address \ Loaded
          /\ DOMAIN scoped' = Loaded \cup {page}
          /\ documents' = Append(documents, page) /\ queue' = Append(queue, page)
          /\ content' = content + Size[page] /\ Fits(page) /\ query' = query
          /\ ~AtDocumentLimit
      BY <1>3, <2>1, LoadFacts
    <2>3. ListedOnce' /\ Injective(queue)' /\ Len(documents') = Len(documents) + 1
      BY <2>2, AdmitListed DEF BoundsOK
    <2>4. query.maxDocuments \in Nat
      BY <1>0 DEF Request
    <2>5. RoomForRoots'
      BY <1>0, <2>2, <2>3, <2>4 DEF RoomForRoots, AtDocumentLimit
    <2>6. InBudget'
      BY <2>2, FitsFacts
    <2> QED BY <2>3, <2>5, <2>6 DEF BoundsOK
  <1>4. CASE FollowKnown \/ FollowRepeats
    <2>1. /\ phase = "follow" /\ DOMAIN scoped' = Loaded
          /\ UNCHANGED <<documents, queue, content, query, phase>>
      BY <1>4, EdgeFacts, ReferenceFacts DEF FollowKnown, FollowRepeats
    <2> QED BY <2>1 DEF BoundsOK, InBudget, RoomForRoots, ListedOnce, Injective
  <1>5. CASE RootRepeats
    <2>1. /\ phase = "roots" /\ phase' = "roots" /\ DOMAIN scoped' = Loaded
          /\ UNCHANGED <<documents, queue, content, query>>
      BY <1>5, RepeatFacts
    <2>2. root' = root + 1
      BY <1>5 DEF RootRepeats, NextRoot
    <2> QED BY <1>0, <2>1, <2>2 DEF BoundsOK, InBudget, RoomForRoots, ListedOnce, Injective
  <1>6. ASSUME UNCHANGED <<documents, scoped, queue, content, query>>, RoomForRoots'
        PROVE  BoundsOK'
    BY <1>6 DEF BoundsOK, InBudget, ListedOnce, Injective
  <1>7. CASE RootFails \/ RootOverBudget
    <2>1. /\ root' = root + 1 /\ phase = "roots" /\ phase' = "roots"
          /\ UNCHANGED <<documents, scoped, queue, content, query>>
      BY <1>7 DEF RootFails, RootOverBudget, NextRoot, loads
    <2>2. RoomForRoots'
      BY <1>0, <2>1 DEF BoundsOK, RoomForRoots
    <2> QED BY <1>6, <2>1, <2>2
  <1>8. CASE Validate
    <2>1. /\ phase = "validate" /\ phase' = IF ValidScope THEN "roots" ELSE "invalid"
          /\ UNCHANGED <<documents, scoped, queue, content, query, root>>
      BY <1>8 DEF Validate, loads
    <2>2. root = 1 /\ documents = <<>> /\ Len(documents) = 0
      BY <2>1 DEF BoundsOK, RoomForRoots
    <2>3. ValidScope => Len(query.documents) <= query.maxDocuments
      BY <1>0 DEF ValidScope, Request
    <2>4. query.maxDocuments \in Nat
      BY <1>0 DEF Request
    <2>5. RoomForRoots'
      BY <2>1, <2>2, <2>3, <2>4 DEF RoomForRoots
    <2> QED BY <1>6, <2>1, <2>5
  <1>9. CASE RootsDone \/ QueueIsEmpty
    <2>1. /\ phase \notin {"validate", "invalid"} /\ phase' \in {"none", "follow", "done"}
          /\ UNCHANGED <<documents, scoped, queue, content, query, root>>
      BY <1>9 DEF RootsDone, QueueIsEmpty, loads
    <2>2. RoomForRoots'
      BY <2>1 DEF BoundsOK, RoomForRoots
    <2> QED BY <1>6, <2>1, <2>2
  <1>10. CASE Update \/ Answered \/ UNCHANGED vars
    <2>1. UNCHANGED walk /\ UNCHANGED loads
      BY <1>10 DEF Update, Answered, vars
    <2>2. UNCHANGED <<documents, scoped, queue, content, query, root, phase>>
      BY <2>1 DEF walk, loads
    <2>3. RoomForRoots'
      BY <2>2 DEF BoundsOK, RoomForRoots
    <2> QED BY <1>6, <2>2, <2>3
  <1>11. CASE FollowEscapes \/ FollowFails \/ FollowAtLimit \/ FollowOverBudget
    <2>1. UNCHANGED <<documents, scoped, queue, content, query, root, phase>>
      BY <1>11 DEF FollowEscapes, FollowFails, FollowAtLimit, FollowOverBudget,
                   NextReference, loads
    <2>2. RoomForRoots'
      BY <2>1 DEF BoundsOK, RoomForRoots
    <2> QED BY <1>6, <2>1, <2>2
  <1> QED BY <1>1, <1>2, <1>3, <1>4, <1>5, <1>7, <1>8, <1>9, <1>10, <1>11
          DEF Next, Roots, Follow

(* No answer is larger than its request allows, and a page is loaded and   *)
(* queued once, whatever is installed or removed meanwhile.                *)
THEOREM LimitsKept == Spec => []LimitsHold
  <1>1. Typed /\ BoundsOK => LimitsHold
    BY BoundsLimits
  <1> QED BY <1>1, InitBounded, AlwaysTyped, NextBounded, PTL DEF Spec
----------------------------------------------------------------------------
(* What lookups select. *)

LEMMA LeastIndex ==
  ASSUME NEW S \in SUBSET Nat, S # {}
  PROVE  \E i \in S : \A j \in S : i <= j
  <1>1. PICK i \in S : \A j \in S : ~(<<j, i>> \in OpToRel(<, Nat))
    BY NatLessThanWellFounded, WFMin, Zenon
  <1>2. ASSUME NEW j \in S, ~(i <= j) PROVE FALSE
    <2>1. i \in Nat /\ j \in Nat
      OBVIOUS
    <2>2. j < i
      BY <1>2, <2>1
    <2>3. <<j, i>> \in OpToRel(<, Nat)
      BY <2>1, <2>2, Zenon DEF OpToRel
    <2> QED BY <1>1, <2>3
  <1> QED BY <1>2

(* A lookup gives a page or a reason, and a reason is no page. *)
LEMMA AnswerKinds ==
  ASSUME NEW key \in ResolutionKey
  PROVE  /\ Answer(key) \in Address \cup {"missing", "unregistered"}
         /\ "missing" \notin Address \cup {None} /\ "unregistered" \notin Address \cup {None}
         /\ Candidates[key] \in Seq(Address)
         /\ DOMAIN Candidates[key] = 1 .. Len(Candidates[key]) /\ Len(Candidates[key]) \in Nat
         /\ Installed(key) \subseteq 1 .. Len(Candidates[key])
  <1>1. Candidates[key] \in Seq(Address)
    BY ScopeAssumption
  <1>2. /\ DOMAIN Candidates[key] = 1 .. Len(Candidates[key]) /\ Len(Candidates[key]) \in Nat
        /\ Installed(key) \subseteq 1 .. Len(Candidates[key])
    BY <1>1 DEF Installed
  <1>3. Installed(key) # {} => \E i \in Installed(key) : \A j \in Installed(key) : i <= j
    <2>1. Installed(key) \in SUBSET Nat
      BY <1>2
    <2> QED BY <2>1, LeastIndex
  <1>4. Answer(key) \in Address \cup {"missing", "unregistered"}
    BY <1>1, <1>2, <1>3 DEF Answer
  <1> QED BY <1>1, <1>2, <1>4, ScopeAssumption

(* The page a lookup selects is the most preferred one that is installed. *)
LEMMA AnswerFacts ==
  ASSUME NEW key \in ResolutionKey, Answer(key) \in Address
  PROVE  /\ key[1] \notin Unregistered
         /\ \E i \in Installed(key) : /\ \A j \in Installed(key) : i <= j
                                      /\ Answer(key) = Candidates[key][i]
         /\ Answer(key) \in installed
  <1>1. key[1] \notin Unregistered /\ Installed(key) # {}
    BY AnswerKinds DEF Answer
  <1>2. Installed(key) \in SUBSET Nat
    BY AnswerKinds
  <1>3. \E i \in Installed(key) : \A j \in Installed(key) : i <= j
    BY <1>1, <1>2, LeastIndex
  <1> DEFINE least == CHOOSE i \in Installed(key) : \A j \in Installed(key) : i <= j
  <1>4. Answer(key) = Candidates[key][least]
    BY <1>1 DEF Answer
  <1>5. least \in Installed(key) /\ \A j \in Installed(key) : least <= j
    BY <1>3
  <1>6. Candidates[key][least] \in installed
    BY <1>5 DEF Installed
  <1> QED BY <1>1, <1>4, <1>5, <1>6

LEMMA AnswerIs ==
  ASSUME NEW key \in ResolutionKey, key[1] \notin Unregistered,
         NEW i \in Installed(key), \A j \in Installed(key) : i <= j
  PROVE  Answer(key) = Candidates[key][i]
  <1> DEFINE least == CHOOSE x \in Installed(key) : \A j \in Installed(key) : x <= j
  <1>1. Answer(key) = Candidates[key][least]
    BY DEF Answer
  <1>2. least \in Installed(key) /\ \A j \in Installed(key) : least <= j
    OBVIOUS
  <1> HIDE DEF least
  <1>3. least <= i /\ i <= least /\ least \in Nat /\ i \in Nat
    BY <1>2, AnswerKinds
  <1> QED BY <1>1, <1>3

(* The negative cache turns a page into a reason, never into another page. *)
LEMMA CachedFacts ==
  ASSUME NEW key \in ResolutionKey, CachedAnswer(key) \in Address
  PROVE  Answer(key) = CachedAnswer(key)
  BY AnswerKinds DEF CachedAnswer

(* What the spelling of a reference says of its lookup. *)
LEMMA SpellingFacts ==
  ASSUME links \in LinkTables, NEW page \in Address, NEW r \in Range(links[page])
  PROVE  /\ r \in ScopeReference
         /\ r.target = None => (r.exact => r.selector = None)
         /\ r.target # None =>
              /\ r.selector # None /\ r.selector \notin Unregistered
              /\ Key(r) \in ResolutionKey
              /\ Candidates[Key(r)] # <<>> /\ Candidates[Key(r)][1] = r.target
              /\ r.exact => Candidates[Key(r)] = <<r.target>>
  <1>1. links[page] \in Seq(ScopeReference)
    BY ScopeAssumption
  <1>2. r \in ScopeReference
    BY <1>1 DEF Range
  <1>3. ASSUME r.target = None PROVE r.exact => r.selector = None
    BY <1>3, SpellingAssumption
  <1>4. ASSUME r.target # None
        PROVE  /\ r.selector \in Selector \ Unregistered
               /\ Candidates[Key(r)] # <<>> /\ Candidates[Key(r)][1] = r.target
               /\ r.exact => Candidates[Key(r)] = <<r.target>>
    BY <1>4, SpellingAssumption DEF Key
  <1>5. r.target # None => r.selector # None
    BY <1>4, ScopeAssumption
  <1>6. r.selector # None => Key(r) \in ResolutionKey
    BY <1>2, KeyType
  <1> QED BY <1>2, <1>3, <1>4, <1>5, <1>6

(* The page a reference names, once installed, is what its lookup selects. *)
LEMMA PreferredAnswer ==
  ASSUME links \in LinkTables, NEW page \in Address, NEW r \in Range(links[page]),
         r.target # None, r.target \in installed
  PROVE  Answer(Key(r)) = r.target
  <1>1. /\ Key(r) \in ResolutionKey /\ Key(r)[1] \notin Unregistered
        /\ Candidates[Key(r)] # <<>> /\ Candidates[Key(r)][1] = r.target
    BY SpellingFacts DEF Key
  <1>2. 1 \in Installed(Key(r)) /\ \A j \in Installed(Key(r)) : 1 <= j
    <2>1. 1 \in 1 .. Len(Candidates[Key(r)])
      BY <1>1, AnswerKinds
    <2> QED BY <1>1, <2>1, AnswerKinds DEF Installed
  <1> QED BY <1>1, <1>2, AnswerIs

(* The lookup of an exact reference selects its page or nothing. *)
LEMMA ExactAnswer ==
  ASSUME links \in LinkTables, NEW page \in Address, NEW r \in Range(links[page]),
         r.exact, r.selector # None, Answer(Key(r)) \in Address
  PROVE  Answer(Key(r)) = r.target
  <1>1. r.target # None /\ Key(r) \in ResolutionKey /\ Candidates[Key(r)] = <<r.target>>
    BY SpellingFacts
  <1>2. PICK i \in Installed(Key(r)) : Answer(Key(r)) = Candidates[Key(r)][i]
    BY <1>1, AnswerFacts
  <1>3. i \in DOMAIN Candidates[Key(r)]
    BY <1>2 DEF Installed
  <1>4. i = 1
    BY <1>1, <1>3
  <1> QED BY <1>1, <1>2, <1>4

(* A root that turned out to be a manual is what a lookup of manuals only  *)
(* selects.                                                                *)
LEMMA AliasAnswer ==
  ASSUME NEW selector \in Selector, Answer(<<selector, "Combined">>) \in ManualPages
  PROVE  Answer(<<selector, "ManualOnly">>) = Answer(<<selector, "Combined">>)
  <1>0. PICK key, alias : key = <<selector, "Combined">> /\ alias = <<selector, "ManualOnly">>
    OBVIOUS
  <1>1. key \in ResolutionKey /\ alias \in ResolutionKey /\ key[1] = selector /\ alias[1] = selector
    BY <1>0 DEF ResolutionKey, Policy
  <1>2. Answer(key) \in Address /\ Answer(key) \in ManualPages
    BY <1>0, ScopeAssumption
  <1>3. /\ selector \notin Unregistered /\ Answer(key) \in installed
        /\ \E i \in Installed(key) : /\ \A j \in Installed(key) : i <= j
                                     /\ Answer(key) = Candidates[key][i]
    BY <1>1, <1>2, AnswerFacts
  <1>4. PICK i \in Installed(key) :
          (\A j \in Installed(key) : i <= j) /\ Answer(key) = Candidates[key][i]
    BY <1>3
  <1>5. i \in DOMAIN Candidates[key]
    BY DEF Installed
  <1>6. PICK j \in DOMAIN Candidates[alias] :
          /\ Candidates[alias][j] = Candidates[key][i]
          /\ \A k \in 1 .. j - 1 : \E h \in 1 .. i - 1 :
                Candidates[key][h] = Candidates[alias][k]
    <2>1. \A x \in DOMAIN Candidates[key] : Candidates[key][x] \in ManualPages =>
            \E y \in DOMAIN Candidates[alias] :
              /\ Candidates[alias][y] = Candidates[key][x]
              /\ \A k \in 1 .. y - 1 : \E h \in 1 .. x - 1 :
                   Candidates[key][h] = Candidates[alias][k]
      BY <1>0, SpellingAssumption
    <2> QED BY <1>2, <1>4, <1>5, <2>1
  <1>7. j \in Installed(alias)
    BY <1>3, <1>4, <1>6 DEF Installed
  <1>8. i \in Nat /\ j \in Nat /\ DOMAIN Candidates[key] = 1 .. Len(Candidates[key])
        /\ Len(Candidates[key]) \in Nat /\ i <= Len(Candidates[key])
    BY <1>1, <1>4, <1>7, AnswerKinds
  <1>9. ASSUME NEW k \in Installed(alias) PROVE j <= k
    <2>1. k \in Nat /\ k >= 1 /\ Candidates[alias][k] \in installed
      BY <1>1, AnswerKinds DEF Installed
    <2>2. SUFFICES ASSUME k < j PROVE FALSE
      BY <1>8, <2>1
    <2>3. k \in 1 .. j - 1
      BY <1>8, <2>1, <2>2
    <2>4. PICK h \in 1 .. i - 1 : Candidates[key][h] = Candidates[alias][k]
      BY <1>6, <2>3
    <2>5. h \in DOMAIN Candidates[key] /\ h < i /\ h \in Nat
      BY <1>8
    <2>6. h \in Installed(key)
      BY <2>1, <2>4, <2>5 DEF Installed
    <2> QED BY <1>4, <1>8, <2>5, <2>6
  <1>10. Answer(alias) = Candidates[alias][j]
    BY <1>1, <1>3, <1>7, <1>9, AnswerIs
  <1> QED BY <1>0, <1>4, <1>6, <1>10
----------------------------------------------------------------------------
(* How far the links of each page have been followed. *)

(* Followed, told from the queue alone. *)
Visited(page) ==
    IF page \in Range(queue) THEN {}
    ELSE IF page = current
    THEN {Collected(page)[i] : i \in 1 .. Len(Collected(page)) - Len(pending)}
    ELSE Range(Collected(page))

(* A page waits or has been taken; none is taken before the roots are done.*)
Waiting ==
    /\ current \notin Range(queue)
    /\ current = None => Loaded \subseteq Range(queue)
(* What is pending is the rest of what was collected. *)
TheRest ==
    current # None =>
        /\ Len(pending) <= Len(Collected(current))
        /\ \A i \in 1 .. Len(pending) :
             pending[i] = Collected(current)[Len(Collected(current)) - Len(pending) + i]
(* The walk ends when nothing waits. *)
Finished == phase = "done" /\ query.followLinks => queue = <<>> /\ pending = <<>>
(* A page that was not scanned completely is marked when it is taken. *)
Marked ==
    \A page \in Loaded :
        page \in Range(queue) \/ ~Incomplete(page) \/ page \in referenceLimits
RestOK == Waiting /\ TheRest /\ Finished /\ Marked

(* The references collected from a page are the first of its own, each once. *)
LEMMA CollectedFacts ==
  ASSUME links \in LinkTables, NEW page \in Address
  PROVE  /\ Collected(page) \in Seq(ScopeReference) /\ Len(Collected(page)) \in Nat
         /\ Injective(Collected(page))
         /\ Range(Collected(page)) \subseteq Range(links[page])
         /\ ~Incomplete(page) => Collected(page) = links[page]
  <1>1. links[page] \in Seq(ScopeReference) /\ Collected(page) \in Seq(ScopeReference)
    BY ScopeAssumption, CollectedType
  <1>2. Injective(links[page])
    <2>1. DOMAIN links[page] = 1 .. Len(links[page])
      BY <1>1
    <2>2. \A i, j \in DOMAIN links[page] : links[page][i] = links[page][j] => i = j
      BY SpellingAssumption
    <2> QED BY <2>1, <2>2 DEF Injective
  <1>3. /\ Len(Collected(page)) \in Nat /\ Len(Collected(page)) <= Len(links[page])
        /\ \A i \in 1 .. Len(Collected(page)) : Collected(page)[i] = links[page][i]
        /\ ~Incomplete(page) => Collected(page) = links[page]
    <2>1. CASE Len(links[page]) <= MaxReferences
      <3>1. Collected(page) = links[page]
        BY <1>1, <2>1 DEF Collected
      <3> QED BY <1>1, <3>1
    <2>2. CASE ~(Len(links[page]) <= MaxReferences)
      <3>1. Collected(page) = SubSeq(links[page], 1, MaxReferences)
        BY <2>2 DEF Collected
      <3>2. MaxReferences \in Nat /\ MaxReferences <= Len(links[page])
        BY <1>1, <2>2, ScopeAssumption
      <3>3. Collected(page) = [i \in 1 .. MaxReferences |-> links[page][i]]
        BY <1>1, <3>1, <3>2
      <3>4. Len(Collected(page)) = MaxReferences
        BY <1>1, <3>2, <3>3
      <3>5. Incomplete(page)
        BY <1>1, <2>2, <3>2 DEF Incomplete
      <3> QED BY <3>2, <3>3, <3>4, <3>5
    <2> QED BY <2>1, <2>2
  <1>4. Injective(Collected(page))
    BY <1>1, <1>2, <1>3 DEF Injective
  <1>5. Range(Collected(page)) \subseteq Range(links[page])
    <2>1. /\ DOMAIN Collected(page) = 1 .. Len(Collected(page))
          /\ DOMAIN links[page] = 1 .. Len(links[page]) /\ Len(links[page]) \in Nat
      BY <1>1
    <2>2. \A i \in 1 .. Len(Collected(page)) : i \in 1 .. Len(links[page])
      BY <1>3, <2>1
    <2> QED BY <1>3, <2>1, <2>2 DEF Range
  <1> QED BY <1>1, <1>3, <1>4, <1>5

(* What is left in a queue whose elements are distinct. *)
LEMMA TailRange ==
  ASSUME NEW S, NEW s \in Seq(S), s # <<>>, Injective(s)
  PROVE  Range(Tail(s)) = Range(s) \ {Head(s)} /\ Head(s) \in Range(s)
  <1>1. /\ Len(s) \in Nat /\ Len(s) >= 1 /\ Head(s) = s[1] /\ DOMAIN s = 1 .. Len(s)
        /\ Tail(s) \in Seq(S) /\ Len(Tail(s)) = Len(s) - 1
        /\ DOMAIN Tail(s) = 1 .. Len(s) - 1
        /\ \A i \in 1 .. Len(s) - 1 : Tail(s)[i] = s[i + 1]
    OBVIOUS
  <1>2. ASSUME NEW x \in Range(Tail(s)) PROVE x \in Range(s) \ {Head(s)}
    <2>1. PICK i \in 1 .. Len(s) - 1 : x = s[i + 1]
      BY <1>1 DEF Range
    <2>2. i + 1 \in 1 .. Len(s) /\ i + 1 # 1 /\ 1 \in 1 .. Len(s)
      BY <1>1
    <2>3. x # s[1]
      BY <2>1, <2>2 DEF Injective
    <2> QED BY <1>1, <2>1, <2>2, <2>3 DEF Range
  <1>3. ASSUME NEW x \in Range(s), x # Head(s) PROVE x \in Range(Tail(s))
    <2>1. PICK i \in 1 .. Len(s) : x = s[i]
      BY <1>1 DEF Range
    <2>2. i # 1
      BY <1>1, <1>3, <2>1
    <2>3. i - 1 \in 1 .. Len(s) - 1 /\ (i - 1) + 1 = i
      BY <1>1, <2>2
    <2>4. x = Tail(s)[i - 1]
      BY <1>1, <2>1, <2>3
    <2> QED BY <1>1, <2>3, <2>4 DEF Range
  <1>4. Head(s) \in Range(s)
    BY <1>1 DEF Range
  <1> QED BY <1>2, <1>3, <1>4

(* The steps that take nothing from the queue and follow nothing. *)
Aside == \/ RootFails \/ RootRepeats \/ RootOverBudget \/ RootsDone \/ Validate
         \/ QueueIsEmpty \/ Update \/ Answered \/ UNCHANGED vars
(* The steps that follow the next reference. *)
FollowOne == \/ FollowKnown \/ FollowAtLimit \/ FollowEscapes \/ FollowFails
             \/ FollowRepeats \/ FollowLoads \/ FollowOverBudget

LEMMA NextKinds ==
  ASSUME [Next]_vars
  PROVE  Aside \/ RootLoads \/ FollowDocument \/ BoundaryDocument \/ FollowOne
  BY DEF Next, Roots, Follow, Aside, FollowOne

LEMMA LinksStay ==
  ASSUME Typed, [Next]_vars
  PROVE  links' = links /\ query' = query /\ \A page : Collected(page)' = Collected(page)
  <1>1. UNCHANGED <<links, query>>
    BY DEF Next, Roots, Follow, vars, world, walk, Validate, RootFails, RootRepeats, RootLoads,
           RootOverBudget, RootsDone, NextRoot, FollowDocument, BoundaryDocument, TakeFromQueue,
           QueueIsEmpty, FollowKnown, FollowAtLimit, FollowEscapes, FollowFails, FollowRepeats,
           FollowLoads, FollowOverBudget, NextReference, Update, Answered
  <1> QED BY <1>1 DEF Collected

LEMMA AsideFacts ==
  ASSUME Typed, Aside
  PROVE  /\ UNCHANGED <<links, query, queue, current, pending, edges, frontier, referenceLimits>>
         /\ DOMAIN scoped' = Loaded
         /\ \/ unresolved' = unresolved
            \/ \E what, reason : RecordUnresolved(None, what, reason)
         /\ phase' = "done" /\ query.followLinks =>
              phase = "done" \/ (queue = <<>> /\ pending = <<>>)
  <1>1. CASE RootFails
    BY <1>1 DEF RootFails, NextRoot, world
  <1>2. CASE RootOverBudget
    BY <1>2 DEF RootOverBudget, NextRoot, world, loads
  <1>3. CASE RootRepeats
    <2>1. phase' = "roots" /\ DOMAIN scoped' = Loaded
      BY <1>3, RepeatFacts
    <2> QED BY <1>3, <2>1 DEF RootRepeats, NextRoot, world
  <1>4. CASE RootsDone \/ Validate \/ QueueIsEmpty
    <2>1. UNCHANGED world /\ UNCHANGED loads /\ UNCHANGED graph
          /\ UNCHANGED <<query, queue, current, pending>>
      BY <1>4 DEF RootsDone, Validate, QueueIsEmpty
    <2>2. phase' = "done" /\ query.followLinks => queue = <<>> /\ pending = <<>>
      BY <1>4 DEF RootsDone, Validate, QueueIsEmpty
    <2> QED BY <2>1, <2>2 DEF world, loads, graph
  <1>5. CASE Update \/ Answered \/ UNCHANGED vars
    <2>1. UNCHANGED links /\ UNCHANGED walk /\ UNCHANGED loads /\ UNCHANGED graph
      BY <1>5 DEF Update, Answered, vars, world
    <2> QED BY <2>1 DEF walk, loads, graph
  <1> QED BY <1>1, <1>2, <1>3, <1>4, <1>5 DEF Aside

LEMMA FollowOneFacts ==
  ASSUME Typed, FollowOne
  PROVE  /\ NextReference
         /\ \/ queue' = queue /\ DOMAIN scoped' = Loaded
            \/ \E page \in Address \ Loaded :
                 queue' = Append(queue, page) /\ DOMAIN scoped' = Loaded \cup {page}
  <1>1. CASE FollowLoads
    <2>1. PICK page : page = CachedAnswer(Key(Head(pending)))
      OBVIOUS
    <2>2. /\ page \in Address \ Loaded
          /\ queue' = Append(queue, page) /\ DOMAIN scoped' = Loaded \cup {page}
      BY <1>1, <2>1, LoadFacts
    <2> QED BY <1>1, <2>2 DEF FollowLoads
  <1>2. CASE FollowKnown \/ FollowRepeats
    <2>1. queue' = queue /\ DOMAIN scoped' = Loaded
      BY <1>2, EdgeFacts
    <2> QED BY <1>2, <2>1 DEF FollowKnown, FollowRepeats
  <1>3. CASE FollowAtLimit \/ FollowEscapes \/ FollowFails \/ FollowOverBudget
    BY <1>3 DEF FollowAtLimit, FollowEscapes, FollowFails, FollowOverBudget, loads
  <1> QED BY <1>1, <1>2, <1>3 DEF FollowOne

(* A page that is not loaded joins the queue. *)
LEMMA QueueGrows ==
  ASSUME Typed, Injective(queue), NEW page, page \notin Loaded, queue' = Append(queue, page)
  PROVE  Range(queue') = Range(queue) \cup {page} /\ Range(queue) \subseteq Loaded
  <1>1. queue \in Seq(Loaded)
    BY DepthType
  <1>2. Range(queue) \subseteq Loaded
    BY <1>1 DEF Range
  <1>3. Range(Append(queue, page)) = Range(queue) \cup {page}
    BY <1>1, <1>2, AppendOnce
  <1> QED BY <1>2, <1>3

(* The next reference is the first that has not been followed. *)
LEMMA RestFacts ==
  ASSUME Typed, RestOK, NextReference
  PROVE  /\ current \in Loaded /\ current \notin Range(queue)
         /\ Head(pending) \in Range(Collected(current)) /\ Head(pending) \notin Visited(current)
         /\ {Collected(current)[i] : i \in 1 .. Len(Collected(current)) - Len(Tail(pending))}
              = Visited(current) \cup {Head(pending)}
         /\ Len(Tail(pending)) <= Len(Collected(current))
         /\ \A i \in 1 .. Len(Tail(pending)) :
              Tail(pending)[i] =
                Collected(current)[Len(Collected(current)) - Len(Tail(pending)) + i]
  <1>1. /\ current \in Loaded /\ current # None /\ pending # <<>> /\ links \in LinkTables
        /\ pending \in Seq(ScopeReference) /\ current \in Address /\ current \notin Range(queue)
    BY ReferenceFacts, DepthType DEF WalkOK, RestOK, Waiting
  <1> DEFINE c == Collected(current)
             m == Len(pending)
             n == Len(c)
  <1>2. c \in Seq(ScopeReference) /\ n \in Nat /\ Injective(c) /\ DOMAIN c = 1 .. n
    BY <1>1, CollectedFacts
  <1>3. m <= n /\ \A i \in 1 .. m : pending[i] = c[n - m + i]
    BY <1>1 DEF RestOK, TheRest
  <1> HIDE DEF c
  <1>4. /\ m \in Nat /\ m >= 1 /\ Head(pending) = pending[1] /\ Len(Tail(pending)) = m - 1
        /\ \A i \in 1 .. m - 1 : Tail(pending)[i] = pending[i + 1]
    BY <1>1
  <1> HIDE DEF m, n
  <1>5. Head(pending) = c[n - m + 1] /\ n - m + 1 \in 1 .. n
    BY <1>2, <1>3, <1>4
  <1>6. Visited(current) = {c[i] : i \in 1 .. n - m}
    BY <1>1 DEF Visited, c, m, n
  <1>7. n - (m - 1) = (n - m) + 1 /\ n - m \in Nat
    BY <1>2, <1>3, <1>4
  <1>8. {c[i] : i \in 1 .. n - (m - 1)} = Visited(current) \cup {Head(pending)}
    <2>1. \A i : i \in 1 .. n - (m - 1) <=> i \in 1 .. n - m \/ i = n - m + 1
      BY <1>2, <1>4, <1>7
    <2> QED BY <1>5, <1>6, <2>1
  <1>9. Head(pending) \notin Visited(current)
    <2> SUFFICES ASSUME NEW i \in 1 .. n - m, c[i] = c[n - m + 1] PROVE FALSE
      BY <1>5, <1>6
    <2>1. i \in 1 .. n
      BY <1>2, <1>4, <1>7
    <2>2. \A x, y \in 1 .. n : c[x] = c[y] => x = y
      BY <1>2 DEF Injective, n
    <2>3. i = n - m + 1
      BY <2>1, <2>2, <1>5
    <2> QED BY <1>7, <2>3
  <1>10. Head(pending) \in Range(c)
    BY <1>2, <1>5 DEF Range
  <1>11. ASSUME NEW i \in 1 .. m - 1 PROVE Tail(pending)[i] = c[n - (m - 1) + i]
    <2>1. i + 1 \in 1 .. m /\ n - m + (i + 1) = n - (m - 1) + i
      BY <1>2, <1>4
    <2> QED BY <1>3, <1>4, <2>1
  <1>12. m - 1 <= n
    BY <1>2, <1>3, <1>4
  <1> QED BY <1>1, <1>4, <1>8, <1>9, <1>10, <1>11, <1>12 DEF c, m, n

(* What a step adds to what has been visited. *)
LEMMA VisitedAside ==
  ASSUME Typed, Aside, [Next]_vars
  PROVE  DOMAIN scoped' = Loaded /\ \A page \in Loaded : Visited(page)' = Visited(page)
  <1>1. UNCHANGED <<queue, current, pending>> /\ DOMAIN scoped' = Loaded
    BY AsideFacts
  <1>2. \A page : Collected(page)' = Collected(page)
    BY LinksStay
  <1> QED BY <1>1, <1>2 DEF Visited

LEMMA VisitedRoot ==
  ASSUME Typed, BoundsOK, RestOK, OrderOK, RootLoads, [Next]_vars,
         NEW page, page = CachedAnswer(RootKey)
  PROVE  /\ \A p \in Loaded : Visited(p)' = {} /\ Visited(p) = {}
         /\ Visited(page)' = {}
  <1>1. /\ phase = "roots" /\ page \notin Loaded /\ queue' = Append(queue, page)
    BY RootLoadFacts
  <1>2. Range(queue') = Range(queue) \cup {page}
    BY <1>1, QueueGrows DEF BoundsOK
  <1>3. Loaded \subseteq Range(queue)
    BY <1>1 DEF OrderOK, NotYet, RestOK, Waiting
  <1> QED BY <1>2, <1>3 DEF Visited

(* Following a reference puts at most a page that is new into the queue. *)
LEMMA QueueFollows ==
  ASSUME Typed, BoundsOK, FollowOne
  PROVE  /\ \A p \in Loaded : p \in Range(queue') <=> p \in Range(queue)
         /\ \A p \in Loaded' : p \notin Loaded => p \in Range(queue')
  <1>1. CASE queue' = queue /\ DOMAIN scoped' = Loaded
    BY <1>1
  <1>2. ASSUME NEW page \in Address \ Loaded,
               queue' = Append(queue, page), DOMAIN scoped' = Loaded \cup {page}
        PROVE  /\ \A p \in Loaded : p \in Range(queue') <=> p \in Range(queue)
               /\ \A p \in Loaded' : p \notin Loaded => p \in Range(queue')
    <2>1. Range(queue') = Range(queue) \cup {page}
      BY <1>2, QueueGrows DEF BoundsOK
    <2> QED BY <1>2, <2>1
  <1> QED BY <1>1, <1>2, FollowOneFacts

LEMMA VisitedFollow ==
  ASSUME Typed, BoundsOK, RestOK, FollowOne, [Next]_vars
  PROVE  /\ \A p \in Loaded : p # current => Visited(p)' = Visited(p)
         /\ Visited(current)' = Visited(current) \cup {Head(pending)}
         /\ \A p \in Loaded' : p \notin Loaded => Visited(p)' = {}
         /\ current' = current /\ current \in Loaded
  <1>1. NextReference
    BY FollowOneFacts
  <1>2. /\ current' = current /\ pending' = Tail(pending) /\ links' = links
        /\ current \in Loaded /\ current \notin Range(queue)
        /\ {Collected(current)[i] : i \in 1 .. Len(Collected(current)) - Len(Tail(pending))}
              = Visited(current) \cup {Head(pending)}
    BY <1>1, RestFacts, LinksStay DEF NextReference
  <1>4. \A p \in Loaded : p \in Range(queue') <=> p \in Range(queue)
    BY QueueFollows
  <1>5. \A p \in Loaded' : p \notin Loaded => p \in Range(queue')
    BY QueueFollows
  <1>6. \A p : Collected(p)' = Collected(p)
    BY LinksStay
  <1>7. ASSUME NEW p \in Loaded, p # current PROVE Visited(p)' = Visited(p)
    BY <1>2, <1>4, <1>6, <1>7 DEF Visited
  <1>8. Visited(current)' = Visited(current) \cup {Head(pending)}
    <2>1. current \notin Range(queue')
      BY <1>2, <1>4
    <2>2. Visited(current)' =
            {Collected(current)[i] : i \in 1 .. Len(Collected(current)) - Len(Tail(pending))}
      BY <1>2, <1>6, <2>1 DEF Visited
    <2> QED BY <1>2, <2>2
  <1>9. \A p \in Loaded' : p \notin Loaded => Visited(p)' = {}
    BY <1>5 DEF Visited
  <1> QED BY <1>2, <1>7, <1>8, <1>9

LEMMA VisitedTake ==
  ASSUME Typed, BoundsOK, RestOK, FollowDocument \/ BoundaryDocument, [Next]_vars,
         NEW here, here = Head(queue)
  PROVE  /\ here \in Loaded /\ DOMAIN scoped' = Loaded /\ current' = here
         /\ Visited(here) = {}
         /\ \A p \in Loaded : p # here => Visited(p)' = Visited(p)
         /\ FollowDocument => Visited(here)' = {}
         /\ BoundaryDocument => Visited(here)' = Range(Collected(here))
  <1>1. /\ queue # <<>> /\ pending = <<>> /\ current' = here /\ here \in Loaded /\ here # None
        /\ queue' = Tail(queue) /\ DOMAIN scoped' = Loaded
    BY VisitFacts
  <1>2. Range(queue') = Range(queue) \ {here} /\ here \in Range(queue)
    BY <1>1, TailRange, DepthType DEF BoundsOK
  <1>3. \A p : Collected(p)' = Collected(p)
    BY LinksStay
  <1>4. ASSUME NEW p \in Loaded
        PROVE  /\ Collected(p) \in Seq(ScopeReference) /\ Len(Collected(p)) \in Nat
               /\ {Collected(p)[i] : i \in 1 .. Len(Collected(p)) - Len(<<>>)} = Range(Collected(p))
               /\ {Collected(p)[i] : i \in 1 .. Len(Collected(p)) - Len(Collected(p))} = {}
    <2>1. p \in Address /\ links \in LinkTables
      BY TypeParts, DepthType DEF Typed, WalkOK
    <2>2. Collected(p) \in Seq(ScopeReference) /\ Len(Collected(p)) \in Nat
      BY <2>1, CollectedFacts
    <2>3. Len(Collected(p)) - Len(<<>>) = Len(Collected(p))
      BY <2>2
    <2>4. DOMAIN Collected(p) = 1 .. Len(Collected(p))
      BY <2>2
    <2>5. Len(Collected(p)) - Len(Collected(p)) = 0 /\ 1 .. 0 = {}
      BY <2>2
    <2> QED BY <2>2, <2>3, <2>4, <2>5 DEF Range
  <1>5. Visited(here) = {}
    BY <1>2 DEF Visited
  <1>6. ASSUME NEW p \in Loaded, p # here PROVE Visited(p)' = Visited(p)
    <2>1. p \in Range(queue') <=> p \in Range(queue)
      BY <1>2, <1>6
    <2>2. p # current'
      BY <1>1, <1>6
    <2>3. p = current => {Collected(p)[i] : i \in 1 .. Len(Collected(p)) - Len(pending)}
                           = Range(Collected(p))
      BY <1>1, <1>4
    <2> QED BY <1>3, <2>1, <2>2, <2>3 DEF Visited
  <1>7. Visited(here)' = {Collected(here)[i] : i \in 1 .. Len(Collected(here)) - Len(pending')}
    BY <1>1, <1>2, <1>3 DEF Visited
  <1>8. FollowDocument => Visited(here)' = {}
    <2>1. FollowDocument => pending' = Collected(here)
      BY DEF FollowDocument
    <2> QED BY <1>1, <1>4, <1>7, <2>1
  <1>9. BoundaryDocument => Visited(here)' = Range(Collected(here))
    <2>1. BoundaryDocument => pending' = <<>>
      BY <1>1 DEF BoundaryDocument
    <2> QED BY <1>1, <1>4, <1>7, <2>1
  <1> QED BY <1>1, <1>5, <1>6, <1>8, <1>9

LEMMA NextRest ==
  ASSUME Typed, OrderOK, BoundsOK, RestOK, [Next]_vars
  PROVE  RestOK'
  <1>0. /\ links' = links /\ query' = query
        /\ \A p : Collected(p)' = Collected(p) /\ Incomplete(p)' = Incomplete(p)
    BY LinksStay DEF Incomplete
  <1>1. CASE Aside
    <2>1. /\ UNCHANGED <<links, query, queue, current, pending, referenceLimits>>
          /\ DOMAIN scoped' = Loaded
          /\ phase' = "done" /\ query.followLinks =>
               phase = "done" \/ (queue = <<>> /\ pending = <<>>)
      BY <1>1, AsideFacts
    <2>2. Waiting' /\ Marked'
      BY <1>0, <2>1 DEF RestOK, Waiting, Marked
    <2>3. TheRest'
      BY <1>0, <2>1 DEF RestOK, TheRest
    <2>4. Finished'
      BY <2>1 DEF RestOK, Finished
    <2> QED BY <2>2, <2>3, <2>4 DEF RestOK
  <1>2. CASE RootLoads
    <2>1. PICK page : page = CachedAnswer(RootKey)
      OBVIOUS
    <2>2. /\ phase' = "roots" /\ phase = "roots" /\ page \notin Loaded /\ page \in Address
          /\ DOMAIN scoped' = Loaded \cup {page}
          /\ queue' = Append(queue, page) /\ UNCHANGED <<current, pending>>
      BY <1>2, <2>1, RootLoadFacts
    <2>3. Range(queue') = Range(queue) \cup {page} /\ current = None
      BY <2>2, QueueGrows DEF BoundsOK, OrderOK, NotYet
    <2>4. page # None
      BY <2>2, ScopeAssumption
    <2>5. referenceLimits' = referenceLimits
      BY <1>2 DEF RootLoads, NextRoot
    <2>6. Waiting' /\ Marked'
      BY <1>0, <2>2, <2>3, <2>4, <2>5 DEF RestOK, Waiting, Marked
    <2>7. TheRest' /\ Finished'
      BY <2>2, <2>3 DEF TheRest, Finished
    <2> QED BY <2>6, <2>7 DEF RestOK
  <1>3. CASE FollowDocument \/ BoundaryDocument
    <2> DEFINE here == Head(queue)
    <2>1. /\ queue # <<>> /\ pending = <<>> /\ phase' = "follow"
          /\ current' = here /\ here \in Loaded /\ here # None
          /\ queue' = Tail(queue) /\ DOMAIN scoped' = Loaded
      BY <1>3, VisitFacts
    <2>2. Range(queue') = Range(queue) \ {here} /\ here \in Range(queue)
      BY <2>1, TailRange, DepthType DEF BoundsOK
    <2>3. referenceLimits' = IF Incomplete(here) THEN referenceLimits \cup {here}
                             ELSE referenceLimits
      BY <1>3 DEF FollowDocument, BoundaryDocument, TakeFromQueue
    <2>4. pending' = Collected(here) \/ pending' = <<>>
      BY <1>3, <2>1 DEF FollowDocument, BoundaryDocument
    <2>5. Collected(here) \in Seq(ScopeReference) /\ Len(Collected(here)) \in Nat
      BY <2>1, CollectedFacts, TypeParts, DepthType DEF Typed, WalkOK
    <2> HIDE DEF here
    <2>6. Waiting' /\ Marked' /\ Finished'
      BY <1>0, <2>1, <2>2, <2>3 DEF RestOK, Waiting, Marked, Finished
    <2>7. TheRest'
      <3>1. CASE pending' = Collected(here)
        <4>1. \A i \in 1 .. Len(Collected(here)) :
                Len(Collected(here)) - Len(Collected(here)) + i = i
          BY <2>5
        <4> QED BY <1>0, <2>1, <2>5, <3>1, <4>1 DEF TheRest
      <3>2. CASE pending' = <<>>
        <4>1. Len(pending') = 0 /\ 1 .. 0 = {}
          BY <3>2
        <4> QED BY <1>0, <2>1, <2>5, <4>1 DEF TheRest
      <3> QED BY <2>4, <3>1, <3>2
    <2> QED BY <2>6, <2>7 DEF RestOK
  <1>4. CASE FollowOne
    <2>1. NextReference
      BY <1>4, FollowOneFacts
    <2>2. /\ current' = current /\ pending' = Tail(pending) /\ phase' = "follow"
          /\ referenceLimits' = referenceLimits
          /\ current \in Loaded /\ current # None /\ current \notin Range(queue)
          /\ Len(Tail(pending)) <= Len(Collected(current))
          /\ \A i \in 1 .. Len(Tail(pending)) :
               Tail(pending)[i] =
                 Collected(current)[Len(Collected(current)) - Len(Tail(pending)) + i]
      BY <2>1, RestFacts, ReferenceFacts DEF NextReference
    <2>4. /\ \A p \in Loaded : p \in Range(queue') <=> p \in Range(queue)
          /\ \A p \in Loaded' : p \notin Loaded => p \in Range(queue')
      BY <1>4, QueueFollows
    <2>5. Waiting' /\ Marked' /\ Finished'
      BY <1>0, <2>2, <2>4 DEF RestOK, Waiting, Marked, Finished
    <2>6. TheRest'
      BY <1>0, <2>2 DEF TheRest
    <2> QED BY <2>5, <2>6 DEF RestOK
  <1> QED BY <1>1, <1>2, <1>3, <1>4, NextKinds

LEMMA InitRest == Init => RestOK
  <1> SUFFICES ASSUME Init PROVE RestOK
    OBVIOUS
  <1>1. Range(queue) = {} /\ Loaded = {}
    BY DEF Init, Range
  <1> QED BY <1>1 DEF Init, RestOK, Waiting, TheRest, Finished, Marked
----------------------------------------------------------------------------
(* What the request remembers is what the disk says. *)

CacheOK ==
    updates = 0 =>
        /\ \A key \in failures : Answer(key) = "missing"
        /\ \A key \in ResolutionKey : resolved[key] # None => resolved[key] = Answer(key)
        /\ Loaded \subseteq installed

LEMMA WorldStays ==
  ASSUME Typed, [Next]_vars, updates' = 0
  PROVE  /\ updates = 0 /\ installed' = installed
         /\ \A key : Answer(key)' = Answer(key)
  <1>1. updates \in Nat
    BY TypeParts DEF Typed, WorldOK
  <1>2. CASE Update
    BY <1>1, <1>2 DEF Update
  <1>3. CASE UNCHANGED world
    BY <1>3 DEF world, Answer, Installed
  <1>4. Update \/ UNCHANGED world
    BY DEF Next, Roots, Follow, vars, Validate, RootFails, RootRepeats, RootLoads,
           RootOverBudget, RootsDone, NextRoot, FollowDocument, BoundaryDocument, TakeFromQueue,
           QueueIsEmpty, FollowKnown, FollowAtLimit, FollowEscapes, FollowFails, FollowRepeats,
           FollowLoads, FollowOverBudget, NextReference, Answered
  <1> QED BY <1>2, <1>3, <1>4

(* A failure is remembered when the lookup finds nothing. *)
LEMMA FailureKept ==
  ASSUME CacheOK, updates = 0, NEW key \in ResolutionKey, CachedAnswer(key) = "missing"
  PROVE  Answer(key) = "missing"
  BY DEF CacheOK, CachedAnswer

LEMMA NextCache ==
  ASSUME Typed, CacheOK, [Next]_vars
  PROVE  CacheOK'
  <1> SUFFICES ASSUME updates' = 0 PROVE CacheOK'
    BY DEF CacheOK
  <1>1. updates = 0 /\ installed' = installed /\ \A key : Answer(key)' = Answer(key)
    BY WorldStays
  <1>2. /\ \A key \in failures : Answer(key) = "missing"
        /\ \A key \in ResolutionKey : resolved[key] # None => resolved[key] = Answer(key)
        /\ Loaded \subseteq installed
    BY <1>1 DEF CacheOK
  <1>3. CASE UNCHANGED <<failures, resolved>> /\ DOMAIN scoped' = Loaded
    BY <1>1, <1>2, <1>3 DEF CacheOK
  <1>4. ASSUME UNCHANGED <<resolved, scoped>>, NEW key \in ResolutionKey,
               CachedAnswer(key) \in {"missing", "unregistered"},
               failures' = IF CachedAnswer(key) = "missing" THEN failures \cup {key} ELSE failures
        PROVE  CacheOK'
    <2>1. CachedAnswer(key) = "missing" => Answer(key) = "missing"
      BY <1>1, FailureKept
    <2> QED BY <1>1, <1>2, <1>4, <2>1 DEF CacheOK
  <1>5. ASSUME failures' = failures, NEW page \in Address, page \in installed,
               DOMAIN scoped' \subseteq Loaded \cup {page},
               \A key \in ResolutionKey : \/ resolved'[key] = resolved[key]
                                          \/ resolved'[key] = page /\ Answer(key) = page
        PROVE  CacheOK'
    BY <1>1, <1>2, <1>5 DEF CacheOK
  <1>6. CASE RootFails
    <2>1. RootKey \in ResolutionKey
      BY <1>6, RootFacts, TypeParts DEF RootFails, Typed
    <2> QED BY <1>4, <1>6, <2>1 DEF RootFails
  <1>7. CASE RootRepeats \/ RootLoads
    <2>1. PICK page : page = CachedAnswer(RootKey)
      OBVIOUS
    <2>2. RootKey \in ResolutionKey /\ RootKey[1] \in Selector
      BY <1>7, RootFacts, TypeParts DEF RootRepeats, RootLoads, Typed
    <2>3. page \in Address /\ RememberRoot(page) /\ failures' = failures
      BY <1>7, <2>1, DepthType DEF RootRepeats, RootLoads
    <2>4. DOMAIN scoped' \subseteq Loaded \cup {page}
      BY <1>7, <2>1, RepeatFacts, RootLoadFacts
    <2>5. Answer(RootKey) = page /\ page \in installed
      BY <2>1, <2>2, <2>3, CachedFacts, AnswerFacts
    <2>6. RootKey = <<RootKey[1], "Combined">>
      BY DEF RootKey
    <2>7. page \in ManualPages => Answer(<<RootKey[1], "ManualOnly">>) = page
      BY <2>2, <2>5, <2>6, AliasAnswer
    <2>8. ASSUME NEW key \in ResolutionKey
          PROVE  resolved'[key] = resolved[key] \/ (resolved'[key] = page /\ Answer(key) = page)
      BY <2>3, <2>5, <2>7 DEF RememberRoot
    <2> QED BY <1>5, <2>3, <2>4, <2>5, <2>8
  <1>8. CASE FollowFails
    <2>1. Key(Head(pending)) \in ResolutionKey
      BY <1>8, ReferenceFacts, KeyType DEF FollowFails, Loads
    <2> QED BY <1>4, <1>8, <2>1 DEF FollowFails
  <1>9. CASE FollowRepeats \/ FollowLoads
    <2>1. PICK page, key : page = CachedAnswer(key) /\ key = Key(Head(pending))
      OBVIOUS
    <2>2. key \in ResolutionKey
      BY <1>9, <2>1, ReferenceFacts, KeyType DEF FollowRepeats, FollowLoads, Loads
    <2>3. page \in Address /\ failures' = failures /\ resolved' = [resolved EXCEPT ![key] = page]
      BY <1>9, <2>1, DepthType DEF FollowRepeats, FollowLoads
    <2>4. DOMAIN scoped' \subseteq Loaded \cup {page}
      <3>1. CASE FollowRepeats
        BY <3>1, EdgeFacts
      <3>2. CASE FollowLoads
        BY <2>1, <3>2, LoadFacts
      <3> QED BY <1>9, <3>1, <3>2
    <2>5. Answer(key) = page /\ page \in installed
      BY <2>1, <2>2, <2>3, CachedFacts, AnswerFacts
    <2>6. \A k \in ResolutionKey : \/ resolved'[k] = resolved[k]
                                   \/ resolved'[k] = page /\ Answer(k) = page
      BY <2>2, <2>3, <2>5, TypeParts DEF Typed, LoadsOK
    <2> QED BY <1>5, <2>3, <2>4, <2>5, <2>6
  <1>10. CASE FollowKnown
    <2>1. DOMAIN scoped' = Loaded
      BY <1>10, EdgeFacts
    <2> QED BY <1>3, <1>10, <2>1 DEF FollowKnown
  <1>11. CASE FollowDocument \/ BoundaryDocument
    BY <1>3, <1>11, VisitFacts DEF FollowDocument, BoundaryDocument, TakeFromQueue
  <1>12. CASE \/ RootOverBudget \/ RootsDone \/ Validate \/ QueueIsEmpty \/ Update \/ Answered
              \/ UNCHANGED vars \/ FollowAtLimit \/ FollowEscapes \/ FollowOverBudget
    <2>1. UNCHANGED loads
      BY <1>12 DEF RootOverBudget, RootsDone, Validate, QueueIsEmpty, Update, Answered, vars,
                   FollowAtLimit, FollowEscapes, FollowOverBudget
    <2> QED BY <1>3, <2>1 DEF loads
  <1> QED BY <1>6, <1>7, <1>8, <1>9, <1>10, <1>11, <1>12 DEF Next, Roots, Follow

LEMMA InitCache == Init => CacheOK
  BY DEF Init, CacheOK

(* What is known of a reference without a lookup is what a lookup selects. *)
LEMMA KnownFacts ==
  ASSUME Typed, NEW page \in Address, NEW r \in Range(links[page]), Known(r) \in Loaded
  PROVE  /\ r.exact => Known(r) = r.target
         /\ r.selector # None
         /\ CacheOK /\ updates = 0 => Known(r) = Answer(Key(r))
  <1>1. links \in LinkTables /\ resolved \in [ResolutionKey -> Loaded \cup {None}]
    BY TypeParts DEF Typed, WalkOK, LoadsOK
  <1>2. None \notin Loaded
    BY DepthType
  <1>3. CASE r.target # None /\ (r.exact \/ r.target \in Loaded)
    <2>1. Known(r) = r.target
      BY <1>3 DEF Known
    <2>2. r.selector # None
      BY <1>1, <1>3, SpellingFacts
    <2>3. CacheOK /\ updates = 0 => Known(r) = Answer(Key(r))
      BY <1>1, <1>3, <2>1, PreferredAnswer DEF CacheOK
    <2> QED BY <2>1, <2>2, <2>3
  <1>4. CASE ~(r.target # None /\ (r.exact \/ r.target \in Loaded))
    <2>1. Known(r) = IF r.selector = None THEN None ELSE resolved[Key(r)]
      BY <1>4 DEF Known
    <2>2. r.selector # None /\ Known(r) = resolved[Key(r)]
      BY <1>2, <2>1
    <2>3. Key(r) \in ResolutionKey
      BY <1>1, <2>2, SpellingFacts, KeyType
    <2>4. ~r.exact
      BY <1>1, <1>4, <2>2, SpellingFacts
    <2>5. CacheOK /\ updates = 0 => Known(r) = Answer(Key(r))
      BY <1>2, <2>2, <2>3 DEF CacheOK
    <2> QED BY <2>2, <2>4, <2>5
  <1> QED BY <1>3, <1>4
----------------------------------------------------------------------------
(* Every link that was followed is answered. *)

HasAnswer(page, r) == HasEdge(page, r) \/ InFrontier(page, r) \/ IsUnresolved(page, r)
(* The frontier and what is unresolved speak of links that were followed. *)
AnsweredAt(page) ==
    /\ \A r \in Visited(page) : HasAnswer(page, r)
    /\ \A f \in frontier : f.from = page => f.target \in Visited(page)
    /\ \A u \in unresolved : u[1] = page => u[2] \in Visited(page)
(* AgreesWithDisk, of one link and of one page. *)
IsRight(page, r) ==
    /\ IsUnresolved(page, r) => r.selector = None \/ Answer(Key(r)) \notin Address
    /\ InFrontier(page, r) => ~IsUnresolved(page, r)
    /\ ~InFrontier(page, r) /\ ~IsUnresolved(page, r) =>
          Edge(page, Answer(Key(r)), r) \in edges
Leads(e, page, r) == r.selector # None /\ e = Edge(page, Answer(Key(r)), r)
AgreesAt(page) ==
    /\ \A r \in Visited(page) : IsRight(page, r)
    /\ \A e \in edges : e.from = page => \E r \in Visited(page) : Leads(e, page, r)
AnswersOK ==
    \A page \in Loaded : AnsweredAt(page) /\ (updates = 0 => AgreesAt(page))

(* How the next reference is answered: by an edge, in the frontier or as   *)
(* unresolved.                                                             *)
ByEdge(from, h) ==
    \E to \in Loaded' :
      /\ edges' = edges \cup {Edge(from, to, h)} /\ UNCHANGED <<frontier, unresolved>>
      /\ h.exact => to = h.target
      /\ updates = 0 => Leads(Edge(from, to, h), from, h)
InCut(from, h) ==
    \E f : /\ f.from = from /\ f.target = h /\ frontier' = frontier \cup {f}
           /\ UNCHANGED <<edges, unresolved>>
AsReason(from, h) ==
    \E reason :
      /\ unresolved' = unresolved \cup {<<from, h, reason>>} /\ UNCHANGED <<edges, frontier>>
      /\ updates = 0 => h.selector = None \/ Answer(Key(h)) \notin Address

LEMMA NextFollowed ==
  ASSUME Typed, RestOK, NextReference
  PROVE  /\ current \in Address /\ links \in LinkTables
         /\ Head(pending) \in Range(links[current]) /\ Head(pending) \in ScopeReference
  <1>1. links \in LinkTables /\ Head(pending) \in ScopeReference
    BY ReferenceFacts DEF WalkOK
  <1>2. current \in Address /\ Head(pending) \in Range(Collected(current))
    BY RestFacts, DepthType
  <1> QED BY <1>1, <1>2, CollectedFacts

LEMMA FollowAnswers ==
  ASSUME Typed, RestOK, CacheOK, FollowOne
  PROVE  ByEdge(current, Head(pending)) \/ InCut(current, Head(pending))
         \/ AsReason(current, Head(pending))
  <1>1. PICK h, c : h = Head(pending) /\ c = current
    OBVIOUS
  <1>2. NextReference
    BY FollowOneFacts
  <1>3. /\ c \in Address /\ h \in Range(links[c]) /\ h \in ScopeReference
        /\ links \in LinkTables
    BY <1>1, <1>2, NextFollowed
  <1>4. CASE FollowKnown
    <2>1. /\ Known(h) \in Loaded /\ RecordExistingEdges({Edge(c, Known(h), h)})
          /\ UNCHANGED <<frontier, unresolved>>
      BY <1>1, <1>4 DEF FollowKnown
    <2>2. edges' = edges \cup {Edge(c, Known(h), h)} /\ DOMAIN scoped' = Loaded
      BY <2>1 DEF RecordExistingEdges
    <2>3. /\ h.exact => Known(h) = h.target
          /\ updates = 0 => Leads(Edge(c, Known(h), h), c, h)
      BY <1>3, <2>1, KnownFacts DEF Leads
    <2> QED BY <1>1, <2>1, <2>2, <2>3 DEF ByEdge
  <1>5. CASE FollowRepeats \/ FollowLoads
    <2>1. PICK page : page = CachedAnswer(Key(h))
      OBVIOUS
    <2>2. h.selector # None /\ page \in Address
      BY <1>1, <1>5, <2>1, DepthType DEF FollowRepeats, FollowLoads, Loads
    <2>3. /\ edges' = edges \cup {Edge(c, page, h)} /\ UNCHANGED <<frontier, unresolved>>
      BY <1>1, <1>5, <2>1 DEF FollowRepeats, FollowLoads, RecordExistingEdges
    <2>4. page \in Loaded'
      <3>1. CASE FollowRepeats
        BY <1>1, <2>1, <3>1, EdgeFacts DEF FollowRepeats
      <3>2. CASE FollowLoads
        BY <1>1, <2>1, <3>2, LoadFacts
      <3> QED BY <1>5, <3>1, <3>2
    <2>5. Answer(Key(h)) = page
      BY <1>3, <2>1, <2>2, KeyType, CachedFacts
    <2>6. h.exact => page = h.target
      BY <1>3, <2>2, <2>5, ExactAnswer
    <2>7. Leads(Edge(c, page, h), c, h)
      BY <2>2, <2>5 DEF Leads
    <2> QED BY <1>1, <2>3, <2>4, <2>6, <2>7 DEF ByEdge
  <1>6. CASE FollowAtLimit \/ FollowOverBudget
    <2>1. \E limit : frontier' = frontier \cup {Frontier(h, limit)}
      BY <1>1, <1>6 DEF FollowAtLimit, FollowOverBudget
    <2>2. UNCHANGED <<edges, unresolved>>
      BY <1>6 DEF FollowAtLimit, FollowOverBudget
    <2>3. \A limit : Frontier(h, limit).from = c /\ Frontier(h, limit).target = h
      BY <1>1 DEF Frontier
    <2> QED BY <1>1, <2>1, <2>2, <2>3 DEF InCut
  <1>7. CASE FollowEscapes
    BY <1>1, <1>7 DEF FollowEscapes, RecordUnresolved, AsReason
  <1>8. CASE FollowFails
    <2>1. /\ CachedAnswer(Key(h)) \in {"missing", "unregistered"}
          /\ unresolved' = unresolved \cup {<<c, h, CachedAnswer(Key(h))>>}
          /\ UNCHANGED <<edges, frontier>> /\ h.selector # None
      BY <1>1, <1>8 DEF FollowFails, RecordUnresolved, Loads
    <2>2. Key(h) \in ResolutionKey
      BY <1>3, <2>1, KeyType
    <2>3. updates = 0 => Answer(Key(h)) \notin Address
      BY <2>1, <2>2, FailureKept, AnswerKinds DEF CachedAnswer
    <2> QED BY <1>1, <2>1, <2>3 DEF AsReason
  <1> QED BY <1>4, <1>5, <1>6, <1>7, <1>8 DEF FollowOne

(* An answer stays: nothing recorded is withdrawn, and what is recorded of *)
(* other links leaves this one alone.                                      *)
LEMMA StaysAnswered ==
  ASSUME NEW page, NEW r, HasAnswer(page, r), edges \subseteq edges',
         frontier \subseteq frontier', unresolved \subseteq unresolved'
  PROVE  HasAnswer(page, r)'
  BY DEF HasAnswer, HasEdge, InFrontier, IsUnresolved

LEMMA StaysRight ==
  ASSUME NEW page, NEW r, IsRight(page, r), edges \subseteq edges',
         InFrontier(page, r)' <=> InFrontier(page, r),
         IsUnresolved(page, r)' <=> IsUnresolved(page, r),
         \A key : Answer(key)' = Answer(key)
  PROVE  IsRight(page, r)'
  <1>1. Answer(Key(r))' = Answer(Key(r))
    BY DEF Key, PolicyOf
  <1> QED BY <1>1 DEF IsRight, Edge

LEMMA LeadsStays ==
  ASSUME \A key : Answer(key)' = Answer(key), NEW e, NEW page, NEW r, Leads(e, page, r)
  PROVE  Leads(e, page, r)'
  <1>1. Answer(Key(r))' = Answer(Key(r))
    BY DEF Key, PolicyOf
  <1> QED BY <1>1 DEF Leads, Edge

(* A page nothing new is said about. *)
LEMMA PageUntouched ==
  ASSUME NEW page, AnsweredAt(page), Visited(page)' = Visited(page),
         edges \subseteq edges', frontier \subseteq frontier', unresolved \subseteq unresolved',
         \A e \in edges' \ edges : e.from # page,
         \A f \in frontier' \ frontier : f.from # page,
         \A u \in unresolved' \ unresolved : u[1] # page
  PROVE  /\ AnsweredAt(page)'
         /\ (\A key : Answer(key)' = Answer(key)) /\ AgreesAt(page) => AgreesAt(page)'
  <1>1. AnsweredAt(page)'
    BY StaysAnswered DEF AnsweredAt
  <1>2. ASSUME \A key : Answer(key)' = Answer(key), AgreesAt(page) PROVE AgreesAt(page)'
    <2>1. ASSUME NEW r \in Visited(page) PROVE IsRight(page, r)'
      <3>1. InFrontier(page, r)' <=> InFrontier(page, r)
        BY DEF InFrontier
      <3>2. IsUnresolved(page, r)' <=> IsUnresolved(page, r)
        BY DEF IsUnresolved
      <3> QED BY <1>2, <3>1, <3>2, StaysRight DEF AgreesAt
    <2>2. ASSUME NEW e \in edges', e.from = page
          PROVE  \E r \in Visited(page) : Leads(e, page, r)'
      <3>1. e \in edges
        BY <2>2
      <3>2. PICK r \in Visited(page) : Leads(e, page, r)
        BY <1>2, <2>2, <3>1 DEF AgreesAt
      <3> QED BY <1>2, <3>2, LeadsStays
    <2> QED BY <2>1, <2>2 DEF AgreesAt
  <1> QED BY <1>1, <1>2

(* A page nothing is said about and nothing of which has been followed. *)
LEMMA PageFresh ==
  ASSUME NEW page, Visited(page)' = {}, \A e \in edges' : e.from # page,
         \A f \in frontier' : f.from # page, \A u \in unresolved' : u[1] # page
  PROVE  AnsweredAt(page)' /\ AgreesAt(page)'
  BY DEF AnsweredAt, AgreesAt

(* The current page, with the next of its links answered. *)
LEMMA PageFollowed ==
  ASSUME NEW c, NEW h, AnsweredAt(c), h \notin Visited(c), Visited(c)' = Visited(c) \cup {h},
         ByEdge(c, h) \/ InCut(c, h) \/ AsReason(c, h)
  PROVE  /\ AnsweredAt(c)'
         /\ updates = 0 /\ (\A key : Answer(key)' = Answer(key)) /\ AgreesAt(c) => AgreesAt(c)'
  <1>1. /\ edges \subseteq edges' /\ frontier \subseteq frontier' /\ unresolved \subseteq unresolved'
    BY DEF ByEdge, InCut, AsReason
  <1>2. \A f \in frontier' \ frontier : f.from = c /\ f.target = h
    BY DEF ByEdge, InCut, AsReason
  <1>3. \A u \in unresolved' \ unresolved : u[1] = c /\ u[2] = h
    BY DEF ByEdge, InCut, AsReason
  <1>4. ~InFrontier(c, h) /\ ~IsUnresolved(c, h)
    BY DEF AnsweredAt, InFrontier, IsUnresolved
  <1>5. HasAnswer(c, h)'
    <2>1. CASE ByEdge(c, h)
      <3>1. PICK to \in Loaded' : /\ edges' = edges \cup {Edge(c, to, h)}
                                  /\ h.exact => to = h.target
        BY <2>1 DEF ByEdge
      <3>2. /\ Edge(c, to, h) \in edges'
            /\ Edge(c, to, h).from = c /\ Edge(c, to, h).kind = h.kind /\ Edge(c, to, h).to = to
        BY <3>1 DEF Edge
      <3> QED BY <3>1, <3>2 DEF HasAnswer, HasEdge
    <2>2. CASE InCut(c, h)
      BY <2>2 DEF InCut, HasAnswer, InFrontier
    <2>3. CASE AsReason(c, h)
      <3>1. PICK reason : unresolved' = unresolved \cup {<<c, h, reason>>}
        BY <2>3 DEF AsReason
      <3>2. <<c, h, reason>>[1] = c /\ <<c, h, reason>>[2] = h /\ <<c, h, reason>> \in unresolved'
        BY <3>1
      <3>3. IsUnresolved(c, h)'
        BY <3>2 DEF IsUnresolved
      <3> QED BY <3>3 DEF HasAnswer
    <2> QED BY <2>1, <2>2, <2>3
  <1>6. AnsweredAt(c)'
    <2>1. \A r \in Visited(c) : HasAnswer(c, r)'
      BY <1>1, StaysAnswered DEF AnsweredAt
    <2>2. \A f \in frontier' : f.from = c => f.target \in Visited(c) \cup {h}
      BY <1>2 DEF AnsweredAt
    <2>3. \A u \in unresolved' : u[1] = c => u[2] \in Visited(c) \cup {h}
      BY <1>3 DEF AnsweredAt
    <2> QED BY <1>5, <2>1, <2>2, <2>3 DEF AnsweredAt
  <1>7. ASSUME updates = 0, \A key : Answer(key)' = Answer(key), AgreesAt(c) PROVE AgreesAt(c)'
    <2>0. Answer(Key(h))' = Answer(Key(h))
      BY <1>7 DEF Key, PolicyOf
    <2>1. ASSUME NEW r \in Visited(c) PROVE IsRight(c, r)'
      <3>1. r # h
        OBVIOUS
      <3>2. InFrontier(c, r)' <=> InFrontier(c, r)
        BY <1>1, <1>2, <3>1 DEF InFrontier
      <3>3. IsUnresolved(c, r)' <=> IsUnresolved(c, r)
        BY <1>1, <1>3, <3>1 DEF IsUnresolved
      <3> QED BY <1>1, <1>7, <3>2, <3>3, StaysRight DEF AgreesAt
    <2>2. IsRight(c, h)'
      <3>1. CASE ByEdge(c, h)
        <4>1. PICK to \in Loaded' : /\ edges' = edges \cup {Edge(c, to, h)}
                                    /\ Leads(Edge(c, to, h), c, h)
          BY <1>7, <3>1 DEF ByEdge
        <4>2. ~InFrontier(c, h)' /\ ~IsUnresolved(c, h)'
          BY <1>4, <3>1 DEF ByEdge, InFrontier, IsUnresolved
        <4>3. Edge(c, Answer(Key(h)), h)' \in edges'
          BY <2>0, <4>1 DEF Leads, Edge
        <4> QED BY <4>2, <4>3 DEF IsRight
      <3>2. CASE InCut(c, h)
        <4>1. InFrontier(c, h)'
          BY <3>2 DEF InCut, InFrontier
        <4>2. ~IsUnresolved(c, h)'
          BY <1>4, <3>2 DEF InCut, IsUnresolved
        <4> QED BY <4>1, <4>2 DEF IsRight
      <3>3. CASE AsReason(c, h)
        <4>1. PICK reason : /\ unresolved' = unresolved \cup {<<c, h, reason>>}
                            /\ frontier' = frontier
                            /\ h.selector = None \/ Answer(Key(h)) \notin Address
          BY <1>7, <3>3 DEF AsReason
        <4>2. IsUnresolved(c, h)'
          <5>1. /\ <<c, h, reason>>[1] = c /\ <<c, h, reason>>[2] = h
                /\ <<c, h, reason>> \in unresolved'
            BY <4>1
          <5> QED BY <5>1 DEF IsUnresolved
        <4>3. ~InFrontier(c, h)'
          BY <1>4, <4>1 DEF InFrontier
        <4> QED BY <2>0, <4>1, <4>2, <4>3 DEF IsRight
      <3> QED BY <3>1, <3>2, <3>3
    <2>3. ASSUME NEW e \in edges', e.from = c
          PROVE  \E r \in Visited(c) \cup {h} : Leads(e, c, r)'
      <3>1. CASE e \in edges
        <4>1. PICK r \in Visited(c) : Leads(e, c, r)
          BY <1>7, <2>3, <3>1 DEF AgreesAt
        <4> QED BY <1>7, <4>1, LeadsStays
      <3>2. CASE e \notin edges
        <4>1. ByEdge(c, h)
          BY <2>3, <3>2 DEF InCut, AsReason
        <4>2. PICK to \in Loaded' : /\ edges' = edges \cup {Edge(c, to, h)}
                                    /\ Leads(Edge(c, to, h), c, h)
          BY <1>7, <4>1 DEF ByEdge
        <4>3. e = Edge(c, to, h)
          BY <2>3, <3>2, <4>2
        <4> QED BY <1>7, <4>2, <4>3, LeadsStays
      <3> QED BY <3>1, <3>2
    <2> QED BY <2>1, <2>2, <2>3 DEF AgreesAt
  <1> QED BY <1>6, <1>7

(* A page at the depth limit: what is known to be loaded is an edge, the   *)
(* rest is cut off.                                                        *)
LEMMA PageCut ==
  ASSUME Typed, CacheOK, BoundaryDocument, NEW here \in Loaded, here = Head(queue),
         AnsweredAt(here), Visited(here) = {}, Visited(here)' = Range(Collected(here))
  PROVE  /\ AnsweredAt(here)'
         /\ updates = 0 /\ (\A key : Answer(key)' = Answer(key)) /\ AgreesAt(here)
              => AgreesAt(here)'
  <1>1. /\ edges' = edges \cup BoundaryNew(here) /\ frontier' = frontier \cup BoundaryCut(here)
        /\ unresolved' = unresolved
    BY BoundaryFacts, TypeParts DEF Typed, RecordExistingEdges, BoundaryDocument, TakeFromQueue
  <1>2. /\ \A f \in frontier : f.from # here
        /\ \A u \in unresolved : u[1] # here
    BY DEF AnsweredAt
  <1>3. here \in Address /\ Range(Collected(here)) \subseteq Range(links[here])
    BY CollectedFacts, DepthType, TypeParts DEF Typed, WalkOK
  <1>4. \A r \in Range(Collected(here)) : Known(r) \in Loaded =>
          /\ r.exact => Known(r) = r.target
          /\ updates = 0 => r.selector # None /\ Known(r) = Answer(Key(r))
          /\ Edge(here, Known(r), r) \in BoundaryNew(here)
    BY <1>3, KnownFacts DEF BoundaryNew
  <1>5. \A r \in Range(Collected(here)) :
          InFrontier(here, r)' <=> Known(r) \notin Loaded
    <2> SUFFICES ASSUME NEW r \in Range(Collected(here))
                 PROVE  InFrontier(here, r)' <=> Known(r) \notin Loaded
      OBVIOUS
    <2>1. ASSUME Known(r) \notin Loaded PROVE InFrontier(here, r)'
      <3>1. [from |-> here, target |-> r, limit |-> "max-depth"] \in frontier'
        BY <1>1, <2>1 DEF BoundaryCut
      <3> QED BY <3>1 DEF InFrontier
    <2>2. ASSUME InFrontier(here, r)' PROVE Known(r) \notin Loaded
      <3>1. PICK f \in frontier' : f.from = here /\ f.target = r
        BY <2>2 DEF InFrontier
      <3>2. f \in BoundaryCut(here)
        BY <1>1, <1>2, <3>1
      <3> QED BY <3>1, <3>2 DEF BoundaryCut
    <2> QED BY <2>1, <2>2
  <1>6. \A r : ~IsUnresolved(here, r)'
    BY <1>1, <1>2 DEF IsUnresolved
  <1>7. AnsweredAt(here)'
    <2>1. ASSUME NEW r \in Range(Collected(here)) PROVE HasAnswer(here, r)'
      <3>1. CASE Known(r) \in Loaded
        <4>1. Edge(here, Known(r), r) \in edges' /\ (r.exact => Known(r) = r.target)
          BY <1>1, <1>4, <3>1
        <4>2. /\ Edge(here, Known(r), r).from = here /\ Edge(here, Known(r), r).kind = r.kind
              /\ Edge(here, Known(r), r).to = Known(r)
          BY DEF Edge
        <4> QED BY <4>1, <4>2 DEF HasAnswer, HasEdge
      <3>2. CASE Known(r) \notin Loaded
        BY <1>5, <3>2 DEF HasAnswer
      <3> QED BY <3>1, <3>2
    <2>2. \A f \in frontier' : f.from = here => f.target \in Range(Collected(here))
      BY <1>1, <1>2 DEF BoundaryCut
    <2>3. \A u \in unresolved' : u[1] # here
      BY <1>1, <1>2
    <2> QED BY <2>1, <2>2, <2>3 DEF AnsweredAt
  <1>8. ASSUME updates = 0, \A key : Answer(key)' = Answer(key), AgreesAt(here)
        PROVE  AgreesAt(here)'
    <2>1. ASSUME NEW r \in Range(Collected(here)) PROVE IsRight(here, r)'
      <3>1. Answer(Key(r))' = Answer(Key(r))
        BY <1>8 DEF Key, PolicyOf
      <3>2. CASE Known(r) \in Loaded
        <4>1. Edge(here, Answer(Key(r)), r) \in edges'
          BY <1>1, <1>4, <1>8, <3>2
        <4>2. Edge(here, Answer(Key(r)), r)' \in edges'
          BY <3>1, <4>1 DEF Edge
        <4> QED BY <1>5, <1>6, <3>2, <4>2 DEF IsRight
      <3>3. CASE Known(r) \notin Loaded
        BY <1>5, <1>6, <3>3 DEF IsRight
      <3> QED BY <3>2, <3>3
    <2>2. ASSUME NEW e \in edges', e.from = here
          PROVE  \E r \in Range(Collected(here)) : Leads(e, here, r)'
      <3>1. e \in BoundaryNew(here)
        BY <1>1, <1>8, <2>2 DEF AgreesAt
      <3>2. PICK r \in Range(Collected(here)) : Known(r) \in Loaded /\ e = Edge(here, Known(r), r)
        BY <3>1 DEF BoundaryNew
      <3>3. Leads(e, here, r)
        BY <1>4, <1>8, <3>2 DEF Leads
      <3> QED BY <1>8, <3>3, LeadsStays
    <2> QED BY <2>1, <2>2 DEF AgreesAt
  <1> QED BY <1>7, <1>8

LEMMA NextAnswered ==
  ASSUME Typed, OrderOK, BoundsOK, RestOK, CacheOK, AnswersOK, [Next]_vars
  PROVE  AnswersOK'
  <1>0. /\ GraphOK /\ None \notin Loaded /\ updates \in Nat
        /\ \A e \in edges : e.from \in Loaded
        /\ \A f \in frontier : f.from \in Loaded
        /\ \A u \in unresolved : u[1] \in Loaded \cup {None}
    BY TypeParts, DepthType DEF Typed, GraphOK, WorldOK, EdgesOver
  <1>w. updates' = 0 => updates = 0 /\ \A key : Answer(key)' = Answer(key)
    BY WorldStays
  <1>1. CASE Aside
    <2>1. /\ UNCHANGED <<edges, frontier>> /\ DOMAIN scoped' = Loaded
          /\ \/ unresolved' = unresolved
             \/ \E what, reason : RecordUnresolved(None, what, reason)
      BY <1>1, AsideFacts
    <2>2. unresolved \subseteq unresolved' /\ \A u \in unresolved' \ unresolved : u[1] = None
      BY <2>1 DEF RecordUnresolved
    <2>3. \A p \in Loaded : Visited(p)' = Visited(p)
      BY <1>1, VisitedAside
    <2>4. ASSUME NEW p \in Loaded PROVE AnsweredAt(p)' /\ (updates' = 0 => AgreesAt(p)')
      <3>1. AnsweredAt(p) /\ (updates = 0 => AgreesAt(p)) /\ p # None
        BY <1>0 DEF AnswersOK
      <3>2. /\ \A e \in edges' \ edges : e.from # p
            /\ \A f \in frontier' \ frontier : f.from # p
            /\ \A u \in unresolved' \ unresolved : u[1] # p
            /\ edges \subseteq edges' /\ frontier \subseteq frontier'
        BY <2>1, <2>2, <3>1
      <3>3. Visited(p)' = Visited(p)
        BY <2>3
      <3> QED BY <1>w, <2>2, <3>1, <3>2, <3>3, PageUntouched
    <2> QED BY <2>1, <2>4 DEF AnswersOK
  <1>2. CASE RootLoads
    <2>1. PICK page : page = CachedAnswer(RootKey)
      OBVIOUS
    <2>2. /\ page \in Address /\ page \notin Loaded /\ UNCHANGED <<edges, frontier>>
          /\ DOMAIN scoped' = Loaded \cup {page}
      BY <1>2, <2>1, RootLoadFacts
    <2>3. unresolved' = unresolved /\ page # None
      BY <1>2, <2>2, ScopeAssumption DEF RootLoads
    <2>4. \A p \in Loaded : Visited(p)' = {} /\ Visited(p) = {}
      BY <1>2, <2>1, VisitedRoot
    <2>5. Visited(page)' = {}
      BY <1>2, <2>1, VisitedRoot
    <2>6. ASSUME NEW p \in Loaded PROVE AnsweredAt(p)' /\ (updates' = 0 => AgreesAt(p)')
      <3>1. AnsweredAt(p) /\ (updates = 0 => AgreesAt(p)) /\ Visited(p)' = Visited(p)
        BY <2>4 DEF AnswersOK
      <3> QED BY <1>w, <2>2, <2>3, <3>1, PageUntouched
    <2>7. AnsweredAt(page)' /\ AgreesAt(page)'
      BY <1>0, <2>2, <2>3, <2>5, PageFresh
    <2> QED BY <2>2, <2>6, <2>7 DEF AnswersOK
  <1>3. CASE FollowDocument
    <2>1. PICK here : here = Head(queue)
      OBVIOUS
    <2>2. UNCHANGED <<edges, frontier, unresolved>>
      BY <1>3 DEF FollowDocument, TakeFromQueue
    <2>3. /\ DOMAIN scoped' = Loaded
          /\ \A p \in Loaded : Visited(p)' = Visited(p)
      BY <1>3, <2>1, VisitedTake
    <2>4. ASSUME NEW p \in Loaded PROVE AnsweredAt(p)' /\ (updates' = 0 => AgreesAt(p)')
      <3>1. AnsweredAt(p) /\ (updates = 0 => AgreesAt(p)) /\ Visited(p)' = Visited(p)
        BY <2>3 DEF AnswersOK
      <3> QED BY <1>w, <2>2, <3>1, PageUntouched
    <2> QED BY <2>3, <2>4 DEF AnswersOK
  <1>4. CASE BoundaryDocument
    <2>1. PICK here : here = Head(queue)
      OBVIOUS
    <2>2. /\ here \in Loaded /\ DOMAIN scoped' = Loaded /\ Visited(here) = {}
          /\ \A p \in Loaded : p # here => Visited(p)' = Visited(p)
          /\ Visited(here)' = Range(Collected(here))
      BY <1>4, <2>1, VisitedTake
    <2>3. /\ edges' = edges \cup BoundaryNew(here) /\ frontier' = frontier \cup BoundaryCut(here)
          /\ unresolved' = unresolved
      BY <1>4, <2>1, BoundaryFacts, TypeParts
         DEF Typed, RecordExistingEdges, BoundaryDocument, TakeFromQueue
    <2>4. /\ \A e \in BoundaryNew(here) : e.from = here
          /\ \A f \in BoundaryCut(here) : f.from = here
      BY DEF BoundaryNew, BoundaryCut, Edge
    <2>5. AnsweredAt(here) /\ (updates = 0 => AgreesAt(here))
      BY <2>2 DEF AnswersOK
    <2>6. AnsweredAt(here)' /\ (updates' = 0 => AgreesAt(here)')
      BY <1>4, <1>w, <2>1, <2>2, <2>5, PageCut
    <2>7. ASSUME NEW p \in Loaded, p # here
          PROVE  AnsweredAt(p)' /\ (updates' = 0 => AgreesAt(p)')
      <3>1. AnsweredAt(p) /\ (updates = 0 => AgreesAt(p)) /\ Visited(p)' = Visited(p)
        BY <2>2, <2>7 DEF AnswersOK
      <3>2. /\ \A e \in edges' \ edges : e.from # p
            /\ \A f \in frontier' \ frontier : f.from # p
            /\ \A u \in unresolved' \ unresolved : u[1] # p
            /\ edges \subseteq edges' /\ frontier \subseteq frontier'
            /\ unresolved \subseteq unresolved'
        BY <2>3, <2>4, <2>7
      <3> QED BY <1>w, <3>1, <3>2, PageUntouched
    <2> QED BY <2>2, <2>6, <2>7 DEF AnswersOK
  <1>5. CASE FollowOne
    <2>1. PICK c, h : c = current /\ h = Head(pending)
      OBVIOUS
    <2>2. /\ c \in Loaded /\ Visited(c)' = Visited(c) \cup {h}
          /\ \A p \in Loaded : p # c => Visited(p)' = Visited(p)
          /\ \A p \in Loaded' : p \notin Loaded => Visited(p)' = {}
      BY <1>5, <2>1, VisitedFollow
    <2>3. h \notin Visited(c)
      BY <1>5, <2>1, FollowOneFacts, RestFacts
    <2>4. ByEdge(c, h) \/ InCut(c, h) \/ AsReason(c, h)
      BY <1>5, <2>1, FollowAnswers
    <2>5. /\ edges \subseteq edges' /\ frontier \subseteq frontier'
          /\ unresolved \subseteq unresolved'
          /\ \A e \in edges' \ edges : e.from = c
          /\ \A f \in frontier' \ frontier : f.from = c
          /\ \A u \in unresolved' \ unresolved : u[1] = c
      <3>1. CASE ByEdge(c, h)
        <4>1. PICK to : edges' = edges \cup {Edge(c, to, h)} /\ UNCHANGED <<frontier, unresolved>>
          BY <3>1 DEF ByEdge
        <4>2. Edge(c, to, h).from = c
          BY DEF Edge
        <4> QED BY <4>1, <4>2
      <3>2. CASE InCut(c, h)
        <4>1. PICK f : f.from = c /\ frontier' = frontier \cup {f} /\ UNCHANGED <<edges, unresolved>>
          BY <3>2 DEF InCut
        <4> QED BY <4>1
      <3>3. CASE AsReason(c, h)
        <4>1. PICK reason : /\ unresolved' = unresolved \cup {<<c, h, reason>>}
                            /\ UNCHANGED <<edges, frontier>>
          BY <3>3 DEF AsReason
        <4> QED BY <4>1
      <3> QED BY <2>4, <3>1, <3>2, <3>3
    <2>6. AnsweredAt(c)' /\ (updates' = 0 => AgreesAt(c)')
      <3>1. AnsweredAt(c) /\ (updates = 0 => AgreesAt(c))
        BY <2>2 DEF AnswersOK
      <3> QED BY <1>w, <2>2, <2>3, <2>4, <3>1, PageFollowed
    <2>7. ASSUME NEW p \in Loaded, p # c
          PROVE  AnsweredAt(p)' /\ (updates' = 0 => AgreesAt(p)')
      <3>1. AnsweredAt(p) /\ (updates = 0 => AgreesAt(p)) /\ Visited(p)' = Visited(p)
        BY <2>2, <2>7 DEF AnswersOK
      <3>2. /\ \A e \in edges' \ edges : e.from # p
            /\ \A f \in frontier' \ frontier : f.from # p
            /\ \A u \in unresolved' \ unresolved : u[1] # p
        BY <2>5, <2>7
      <3> QED BY <1>w, <2>5, <3>1, <3>2, PageUntouched
    <2>8. ASSUME NEW p \in Loaded', p \notin Loaded
          PROVE  AnsweredAt(p)' /\ (updates' = 0 => AgreesAt(p)')
      <3>1. p # None
        <4>1. Typed'
          BY NextTyped
        <4>2. Loaded' \subseteq Address
          BY <4>1, TypeParts DEF Typed, TypeOK
        <4> QED BY <4>2, ScopeAssumption
      <3>2. /\ \A e \in edges' : e.from # p
            /\ \A f \in frontier' : f.from # p
            /\ \A u \in unresolved' : u[1] # p
        BY <1>0, <2>2, <2>5, <2>8, <3>1
      <3> QED BY <2>2, <2>8, <3>2, PageFresh
    <2> QED BY <2>6, <2>7, <2>8 DEF AnswersOK
  <1> QED BY <1>1, <1>2, <1>3, <1>4, <1>5, NextKinds

LEMMA InitAnswered == Init => AnswersOK
  BY DEF Init, AnswersOK

(* The references that have been followed are told by the queue. *)
LEMMA FollowedIsVisited ==
  ASSUME OrderOK, RestOK, NEW page \in Loaded
  PROVE  Followed(page) = Visited(page)
  <1>1. phase \in {"validate", "roots"} => page \in Range(queue)
    BY DEF OrderOK, NotYet, RestOK, Waiting
  <1> QED BY <1>1 DEF Followed, Visited

LEMMA AnswersFollowed ==
  ASSUME Typed, OrderOK, RestOK, AnswersOK
  PROVE  LinksAreAnswered
  <1> SUFFICES ASSUME NEW page \in Loaded
               PROVE  /\ \A r \in Followed(page) :
                           HasEdge(page, r) \/ InFrontier(page, r) \/ IsUnresolved(page, r)
                      /\ (phase = "done" /\ query.followLinks /\ page \notin referenceLimits)
                           => Followed(page) = Reference(page)
                      /\ updates = 0 => AgreesWithDisk(page)
    BY DEF LinksAreAnswered
  <1>1. /\ Followed(page) = Visited(page)
        /\ AnsweredAt(page) /\ (updates = 0 => AgreesAt(page))
    BY FollowedIsVisited DEF AnswersOK
  <1>2. \A r \in Followed(page) :
          HasEdge(page, r) \/ InFrontier(page, r) \/ IsUnresolved(page, r)
    BY <1>1 DEF AnsweredAt, HasAnswer
  <1>3. ASSUME phase = "done", query.followLinks, page \notin referenceLimits
        PROVE  Followed(page) = Reference(page)
    <2>1. queue = <<>> /\ pending = <<>>
      BY <1>3 DEF RestOK, Finished
    <2>2. page \notin Range(queue)
      BY <2>1 DEF Range
    <2>3. Collected(page) = links[page] /\ Collected(page) \in Seq(ScopeReference)
      BY <1>3, <2>2, CollectedFacts, DepthType, TypeParts DEF Typed, WalkOK, RestOK, Marked
    <2>4. /\ Len(Collected(page)) - Len(pending) = Len(Collected(page))
          /\ DOMAIN Collected(page) = 1 .. Len(Collected(page))
      BY <2>1, <2>3
    <2>5. Visited(page) = Range(Collected(page))
      BY <2>2, <2>4 DEF Visited, Range
    <2> QED BY <1>1, <2>3, <2>5 DEF Reference
  <1>4. updates = 0 => AgreesWithDisk(page)
    BY <1>1 DEF AgreesAt, AgreesWithDisk, IsRight, Leads
  <1> QED BY <1>2, <1>3, <1>4

(* Every link that was followed is an edge, in the frontier or unresolved, *)
(* a page that was not scanned completely is marked, and with nothing      *)
(* changing meanwhile each edge leads to what a lookup of its link selects *)
(* now: the caches of a request give no answer the disk does not.          *)
THEOREM EveryLinkIsAnswered == Spec => []LinksAreAnswered
  <1> DEFINE Inv == Typed /\ OrderOK /\ BoundsOK /\ RestOK /\ CacheOK /\ AnswersOK
  <1>1. Init => Inv
    BY InitTyped, InitOrdered, InitBounded, InitRest, InitCache, InitAnswered DEF Init, Typed
  <1>2. Inv /\ [Next]_vars => Inv'
    BY NextTyped, NextOrdered, NextBounded, NextRest, NextCache, NextAnswered
  <1>3. Inv => LinksAreAnswered
    BY AnswersFollowed
  <1> HIDE DEF Inv
  <1> QED BY <1>1, <1>2, <1>3, PTL DEF Spec
=============================================================================
