------------------------------- MODULE ScopeLoad -------------------------------
(***************************************************************************)
(* Loading a document scope (crates/mant-loader/src/scope_load/resolve.rs, *)
(* references.rs): the documents a request names and, breadth-first, the   *)
(* documents they link to, under bounds on depth, documents and bytes.     *)
(*                                                                         *)
(* One request runs; between two of its loads another process may install  *)
(* or remove a document (a source update, an edit).  Everything else the   *)
(* request does is on its own state, so a step is one root, one reference  *)
(* that may be loaded, or one document taken from the queue.               *)
(*                                                                         *)
(* A reference of a document is a record: its edge kind, how it is spelled *)
(* there, the selector it is loaded by (None: a relative path that leaves  *)
(* its namespace), the page its spelling names (None: a manual without a   *)
(* section) and whether that page is meant exactly.  A reason is missing,  *)
(* unregistered, escapes or budget.                                        *)
(***************************************************************************)
EXTENDS Naturals, Sequences, FiniteSets, Functions

CONSTANTS
    Address,         \* the pages there may be
    ManualPages,     \* those that are manuals
    None,            \* no address, no selector, no document
    Selector,        \* what a root or a reference is looked up by
    Spelling,        \* how a reference is written in its page
    LinkTables,      \* the references each page may have, in source order
    Requests,        \* the requests a caller may send
    Candidates,      \* the pages a lookup may select, most preferred first
    Unregistered,    \* selectors of readable files without an address
    Size,            \* the bytes a page retains
    MaxContent,      \* MAX_SCOPE_CONTENT_BYTES
    MaxReferences,   \* MAX_REFERENCES: references collected from one page
    MaxRoots,        \* MAX_SCOPE_DOCUMENTS
    DepthCap,        \* MAX_SCOPE_DEPTH
    DocumentCap,     \* MAX_SCOPE_DOCUMENT_LIMIT
    MaxUpdates       \* bound: installations and removals during the request

EdgeKind == {"document", "manual"}

(* DocumentScope: whether it sets a bound, and the effective bounds. *)
Request == [documents : Seq(Selector), followLinks : BOOLEAN, limited : BOOLEAN,
            maxDepth : Nat, maxDocuments : Nat]

ScopeReference == [kind : EdgeKind, spelling : Spelling, selector : Selector \cup {None},
                   target : Address \cup {None}, exact : BOOLEAN]

Policy == {"Combined", "ManualOnly"}
ResolutionKey == Selector \X Policy

ASSUME ScopeAssumption ==
    /\ None \notin Address \cup Selector
    /\ {"missing", "unregistered"} \cap (Address \cup {None}) = {}
    /\ ManualPages \subseteq Address
    /\ LinkTables \subseteq [Address -> Seq(ScopeReference)]
    /\ Requests \subseteq Request
    /\ Candidates \in [ResolutionKey -> Seq(Address)]
    /\ Unregistered \subseteq Selector
    /\ Size \in [Address -> Nat]
    /\ MaxContent \in Nat /\ MaxReferences \in Nat /\ MaxRoots \in Nat
    /\ DepthCap \in Nat /\ DocumentCap \in Nat /\ MaxUpdates \in Nat

VARIABLES
    links,           \* the references each page has
    installed,       \* the pages that exist
    updates,         \* how often that changed
    query,           \* the request
    phase,           \* validate, roots, follow, done, or an error
    root,            \* the index of the next root
    documents,       \* the pages loaded, in order
    scoped,          \* for each of them depth, rootIndices and reachedFrom
    queue,           \* loaded pages whose references are still to follow
    current,         \* the page being followed
    pending,         \* its references still to follow
    content,         \* content_bytes
    failures,        \* the lookups that failed
    resolved,        \* the page each successful lookup selected
    edges, frontier, unresolved, referenceLimits

world == <<links, installed, updates>>
walk  == <<query, phase, root, queue, current, pending>>
loads == <<documents, scoped, content, failures, resolved>>
graph == <<edges, frontier, unresolved, referenceLimits>>
vars  == <<world, walk, loads, graph>>

Loaded == DOMAIN scoped

----------------------------------------------------------------------------
(* Lookups. *)

(* LoadPolicy of a reference of this kind. *)
PolicyOf(kind) == IF kind = "manual" THEN "ManualOnly" ELSE "Combined"

\* Mutant: a lookup is remembered by its selector alone.
KeyBare(reference) == <<reference.selector, "Combined">>

(* The key a reference is looked up and remembered by. *)
Key(reference) == <<reference.selector, PolicyOf(reference.kind)>>

(* What loading gives now: the most preferred page there is, or a reason.  *)
Installed(key) == {i \in DOMAIN Candidates[key] : Candidates[key][i] \in installed}
Answer(key) ==
    IF key[1] \in Unregistered THEN "unregistered"
    ELSE IF Installed(key) = {} THEN "missing"
    ELSE Candidates[key][CHOOSE i \in Installed(key) :
                            \A j \in Installed(key) : i <= j]

(* The same through the negative cache of this request. *)
CachedAnswer(key) == IF key \in failures THEN "missing" ELSE Answer(key)

(* The identity a reference is known to have without loading it: the page  *)
(* it means exactly, the page its spelling names when that is loaded, or   *)
(* the page an equal lookup selected.                                      *)
Known(reference) ==
    IF reference.target # None /\ (reference.exact \/ reference.target \in Loaded)
    THEN reference.target
    ELSE IF reference.selector = None THEN None ELSE resolved[Key(reference)]

(* The references collected from a page: no more than are retained. *)
Collected(page) ==
    SubSeq(links[page], 1, IF Len(links[page]) <= MaxReferences
                           THEN Len(links[page]) ELSE MaxReferences)
Incomplete(page) == Len(links[page]) > MaxReferences

(* What spellings mean, for the aliases a request keeps.  No two            *)
(* references of a page are spelled alike (collect_references); several may *)
(* have one selector.  One that is exact looks up the catalog path of its   *)
(* page, which selects that page or nothing (ScopeReference::selector,      *)
(* query_catalog_address); one that is not prefers the page it spells       *)
(* (known_reference_address).  A manual the general lookup selects is the   *)
(* one the lookup of manuals selects (query_named_with_mode).               *)
ASSUME SpellingAssumption ==
    /\ \A table \in LinkTables, page \in Address :
         \A i, j \in DOMAIN table[page] :
            /\ table[page][i].kind = table[page][j].kind
            /\ table[page][i].spelling = table[page][j].spelling
            => i = j
    /\ \A table \in LinkTables, page \in Address : \A r \in Range(table[page]) :
         IF r.target = None
         THEN r.exact => r.selector = None
         ELSE LET candidates == Candidates[<<r.selector, PolicyOf(r.kind)>>]
              IN  /\ r.selector \in Selector \ Unregistered
                  /\ candidates # <<>> /\ candidates[1] = r.target
                  /\ r.exact => candidates = <<r.target>>
    /\ \A selector \in Selector :
         LET all     == Candidates[<<selector, "Combined">>]
             manuals == Candidates[<<selector, "ManualOnly">>]
         IN  \A i \in DOMAIN all : all[i] \in ManualPages =>
               \E j \in DOMAIN manuals :
                   /\ manuals[j] = all[i]
                   /\ \A k \in 1 .. j - 1 : \E h \in 1 .. i - 1 : all[h] = manuals[k]

----------------------------------------------------------------------------
(* What is recorded. *)

Edge(from, to, reference) == [from |-> from, to |-> to, kind |-> reference.kind]

(* Edges to pages that are loaded; a page is not its own parent. *)
RecordExistingEdges(new) ==
    /\ edges' = edges \cup new
    /\ scoped' = [page \in Loaded |-> [scoped[page] EXCEPT !.reachedFrom =
           @ \cup {e.from : e \in {e \in new : e.to = page /\ e.from # page}}]]

RecordUnresolved(from, selector, reason) ==
    unresolved' = unresolved \cup {<<from, selector, reason>>}

Frontier(reference, limit) ==
    [from |-> current, target |-> reference, limit |-> limit]

AtDocumentLimit == Len(documents) >= query.maxDocuments

Fits(page) == content + Size[page] <= MaxContent

\* Mutant: a page is followed before those that were found earlier.
AdmitFirst(page, depth, roots, parents) ==
    /\ documents' = Append(documents, page)
    /\ scoped' = [p \in Loaded \cup {page} |->
           IF p = page
           THEN [depth |-> depth, rootIndices |-> roots, reachedFrom |-> parents]
           ELSE scoped[p]]
    /\ queue' = <<page>> \o queue
    /\ content' = content + Size[page]

(* commit_document, once the page is known to fit. *)
Admit(page, depth, roots, parents) ==
    /\ documents' = Append(documents, page)
    /\ scoped' = [p \in Loaded \cup {page} |->
           IF p = page
           THEN [depth |-> depth, rootIndices |-> roots, reachedFrom |-> parents]
           ELSE scoped[p]]
    /\ queue' = Append(queue, page)
    /\ content' = content + Size[page]

----------------------------------------------------------------------------
Init ==
    /\ links \in LinkTables
    /\ installed \in SUBSET Address
    /\ updates = 0
    /\ query \in Requests
    /\ phase = "validate"
    /\ root = 1
    /\ documents = <<>> /\ scoped = [page \in {} |-> None]
    /\ queue = <<>> /\ current = None /\ pending = <<>>
    /\ content = 0
    /\ failures = {}
    /\ resolved = [key \in ResolutionKey |-> None]
    /\ edges = {} /\ frontier = {} /\ unresolved = {} /\ referenceLimits = {}

\* Mutant: the document limit may be below the number of roots.
ValidScopeSmall ==
    /\ Len(query.documents) \in 1 .. MaxRoots
    /\ query.limited => query.followLinks
    /\ query.maxDepth <= DepthCap
    /\ query.maxDocuments \in 1 .. DocumentCap

(* validate_document_scope, with the texts of the selectors valid. *)
ValidScope ==
    /\ Len(query.documents) \in 1 .. MaxRoots
    /\ query.limited => query.followLinks
    /\ query.maxDepth <= DepthCap
    /\ query.maxDocuments \in Len(query.documents) .. DocumentCap

Validate ==
    /\ phase = "validate"
    /\ phase' = IF ValidScope THEN "roots" ELSE "invalid"
    /\ UNCHANGED <<world, query, root, queue, current, pending, loads, graph>>

(***************************************************************************)
(* The roots, in the order of the request.                                 *)
(***************************************************************************)

RootKey == <<query.documents[root], "Combined">>

(* A loaded root answers later lookups of its selector; one that turned    *)
(* out to be a manual page also answers those that accept manuals only.    *)
RememberRoot(page) ==
    resolved' = [key \in ResolutionKey |->
        IF \/ key = RootKey
           \/ key = <<RootKey[1], "ManualOnly">> /\ page \in ManualPages
        THEN page ELSE resolved[key]]

NextRoot ==
    /\ phase = "roots" /\ root <= Len(query.documents)
    /\ root' = root + 1
    /\ UNCHANGED <<world, query, phase, current, pending, edges, frontier, referenceLimits>>

(* The selector names nothing readable, or something without an address. *)
RootFails ==
    /\ NextRoot
    /\ CachedAnswer(RootKey) \in {"missing", "unregistered"}
    /\ failures' = IF CachedAnswer(RootKey) = "missing" THEN failures \cup {RootKey} ELSE failures
    /\ RecordUnresolved(None, RootKey[1], CachedAnswer(RootKey))
    /\ UNCHANGED <<queue, documents, scoped, content, resolved>>

(* Another root already selected the page. *)
RootRepeats ==
    /\ NextRoot
    /\ CachedAnswer(RootKey) \in Loaded
    /\ scoped' = [scoped EXCEPT ![CachedAnswer(RootKey)].rootIndices = @ \cup {root}]
    /\ RememberRoot(CachedAnswer(RootKey))
    /\ UNCHANGED <<queue, documents, content, failures, unresolved>>

RootLoads ==
    /\ NextRoot
    /\ CachedAnswer(RootKey) \in Address \ Loaded
    /\ Fits(CachedAnswer(RootKey))
    /\ Admit(CachedAnswer(RootKey), 0, {root}, {})
    /\ RememberRoot(CachedAnswer(RootKey))
    /\ UNCHANGED <<failures, unresolved>>

RootOverBudget ==
    /\ NextRoot
    /\ CachedAnswer(RootKey) \in Address \ Loaded
    /\ ~Fits(CachedAnswer(RootKey))
    /\ RecordUnresolved(None, RootKey[1], "budget")
    /\ UNCHANGED <<queue, loads>>

(* No root could be loaded; links are not wanted; or they are followed. *)
RootsDone ==
    /\ phase = "roots" /\ root > Len(query.documents)
    /\ phase' = IF documents = <<>> THEN "none"
                ELSE IF query.followLinks THEN "follow" ELSE "done"
    /\ UNCHANGED <<world, query, root, queue, current, pending, loads, graph>>

(***************************************************************************)
(* Following links.                                                        *)
(***************************************************************************)

TakeFromQueue ==
    /\ phase = "follow" /\ pending = <<>> /\ queue # <<>>
    /\ current' = Head(queue) /\ queue' = Tail(queue)
    /\ referenceLimits' = IF Incomplete(Head(queue))
                          THEN referenceLimits \cup {Head(queue)} ELSE referenceLimits
    /\ UNCHANGED <<world, query, phase, root, documents, content, failures,
                   resolved, unresolved>>

FollowDocument ==
    /\ TakeFromQueue
    /\ scoped[Head(queue)].depth < query.maxDepth
    /\ pending' = Collected(Head(queue))
    /\ UNCHANGED <<scoped, edges, frontier>>

(* record_depth_frontier: at the depth limit nothing is loaded.  What is   *)
(* known to be loaded is still an edge.                                    *)
BoundaryDocument ==
    /\ TakeFromQueue
    /\ scoped[Head(queue)].depth >= query.maxDepth
    /\ LET here  == Head(queue)
           all   == Range(Collected(here))
           known == {r \in all : Known(r) \in Loaded}
       IN  /\ RecordExistingEdges({Edge(here, Known(r), r) : r \in known})
           /\ frontier' = frontier \cup
                  {[from |-> here, target |-> r, limit |-> "max-depth"] : r \in all \ known}
    /\ UNCHANGED pending

QueueIsEmpty ==
    /\ phase = "follow" /\ pending = <<>> /\ queue = <<>>
    /\ phase' = "done"
    /\ UNCHANGED <<world, query, root, queue, current, pending, loads, graph>>

(* follow_reference takes the next reference of the current document. *)
NextReference ==
    /\ phase = "follow" /\ pending # <<>>
    /\ pending' = Tail(pending)
    /\ UNCHANGED <<world, query, phase, root, current, referenceLimits>>

FollowKnown ==
    /\ NextReference
    /\ Known(Head(pending)) \in Loaded
    /\ RecordExistingEdges({Edge(current, Known(Head(pending)), Head(pending))})
    /\ UNCHANGED <<queue, documents, content, failures, resolved, frontier, unresolved>>

\* Mutant: at the limit nothing is looked up among the loaded pages.
FollowAtLimitFirst ==
    /\ NextReference
    /\ AtDocumentLimit
    /\ frontier' = frontier \cup {Frontier(Head(pending), "max-documents")}
    /\ UNCHANGED <<queue, loads, edges, unresolved>>

FollowAtLimit ==
    /\ NextReference
    /\ Known(Head(pending)) \notin Loaded
    /\ AtDocumentLimit
    /\ frontier' = frontier \cup {Frontier(Head(pending), "max-documents")}
    /\ UNCHANGED <<queue, loads, edges, unresolved>>

(* Only what is not known to be loaded, below the limit, is loaded. *)
Loads(reference) ==
    /\ Known(reference) \notin Loaded
    /\ ~AtDocumentLimit
    /\ reference.selector # None

FollowEscapes ==
    /\ NextReference
    /\ Known(Head(pending)) \notin Loaded /\ ~AtDocumentLimit
    /\ Head(pending).selector = None
    /\ RecordUnresolved(current, Head(pending), "escapes")
    /\ UNCHANGED <<queue, loads, edges, frontier>>

FollowFails ==
    /\ NextReference
    /\ Loads(Head(pending))
    /\ LET key == Key(Head(pending)) IN
       /\ CachedAnswer(key) \in {"missing", "unregistered"}
       /\ failures' = IF CachedAnswer(key) = "missing" THEN failures \cup {key} ELSE failures
       /\ RecordUnresolved(current, Head(pending), CachedAnswer(key))
    /\ UNCHANGED <<queue, documents, scoped, content, resolved, edges, frontier>>

(* The lookup selected a page that is loaded under another spelling. *)
FollowRepeats ==
    /\ NextReference
    /\ Loads(Head(pending))
    /\ LET reference == Head(pending)
           page == CachedAnswer(Key(reference))
       IN  /\ page \in Loaded
           /\ RecordExistingEdges({Edge(current, page, reference)})
           /\ resolved' = [resolved EXCEPT ![Key(reference)] = page]
    /\ UNCHANGED <<queue, documents, content, failures, frontier, unresolved>>

FollowLoads ==
    /\ NextReference
    /\ Loads(Head(pending))
    /\ LET reference == Head(pending)
           page == CachedAnswer(Key(reference))
       IN  /\ page \in Address \ Loaded
           /\ Fits(page)
           /\ Admit(page, scoped[current].depth + 1, {}, {current})
           /\ edges' = edges \cup {Edge(current, page, reference)}
           /\ resolved' = [resolved EXCEPT ![Key(reference)] = page]
    /\ UNCHANGED <<failures, frontier, unresolved>>

\* Mutant: a lookup is remembered although its page was not admitted.
FollowOverBudgetRemembered ==
    /\ NextReference
    /\ Loads(Head(pending))
    /\ LET page == CachedAnswer(Key(Head(pending))) IN
       /\ page \in Address \ Loaded
       /\ ~Fits(page)
    /\ frontier' = frontier \cup {Frontier(Head(pending), "max-content-bytes")}
    /\ resolved' = [resolved EXCEPT ![Key(Head(pending))] = CachedAnswer(Key(Head(pending)))]
    /\ UNCHANGED <<queue, documents, scoped, content, failures, edges, unresolved>>

FollowOverBudget ==
    /\ NextReference
    /\ Loads(Head(pending))
    /\ LET page == CachedAnswer(Key(Head(pending))) IN
       /\ page \in Address \ Loaded
       /\ ~Fits(page)
    /\ frontier' = frontier \cup {Frontier(Head(pending), "max-content-bytes")}
    /\ UNCHANGED <<queue, loads, edges, unresolved>>

(***************************************************************************)
(* Another process installs or removes a page between two steps.           *)
(***************************************************************************)
Update ==
    /\ phase \in {"roots", "follow"}
    /\ updates < MaxUpdates
    /\ \E page \in Address :
           installed' = IF page \in installed THEN installed \ {page}
                        ELSE installed \cup {page}
    /\ updates' = updates + 1
    /\ UNCHANGED <<links, walk, loads, graph>>

Roots == RootFails \/ RootRepeats \/ RootLoads \/ RootOverBudget \/ RootsDone

Follow ==
    \/ FollowDocument \/ BoundaryDocument \/ QueueIsEmpty
    \/ FollowKnown \/ FollowAtLimit \/ FollowEscapes
    \/ FollowFails \/ FollowRepeats \/ FollowLoads \/ FollowOverBudget

(* The request has its answer. *)
Answered ==
    /\ phase \in {"invalid", "none", "done"}
    /\ UNCHANGED vars

Next == Validate \/ Roots \/ Follow \/ Update \/ Answered

Spec == Init /\ [][Next]_vars

----------------------------------------------------------------------------
Reference(page) == Range(links[page])
Pages == Address \cup {None}

TypeOK ==
    /\ links \in LinkTables /\ installed \subseteq Address /\ updates \in Nat
    /\ query \in Requests
    /\ phase \in {"validate", "roots", "follow", "invalid", "none", "done"}
    /\ root \in Nat \ {0}
    /\ documents \in Seq(Address)
    /\ Loaded \subseteq Address
    /\ scoped \in [Loaded -> [depth : Nat, rootIndices : SUBSET Nat,
                              reachedFrom : SUBSET Address]]
    /\ queue \in Seq(Loaded)
    /\ current \in Loaded \cup {None}
    /\ pending \in Seq(ScopeReference)
    /\ content \in Nat
    /\ failures \subseteq ResolutionKey
    /\ resolved \in [ResolutionKey -> Loaded \cup {None}]
    /\ edges \subseteq [from : Loaded, to : Loaded, kind : EdgeKind]
    /\ frontier \subseteq [from : Loaded, target : ScopeReference,
           limit : {"max-depth", "max-documents", "max-content-bytes"}]
    /\ \A u \in unresolved :
         \/ u \in {None} \X Selector \X {"missing", "unregistered", "budget"}
         \/ u \in Loaded \X ScopeReference \X {"missing", "unregistered", "escapes"}
    /\ referenceLimits \subseteq Loaded

(* The bounds of the request hold, a page is loaded once, and it waits in  *)
(* the queue at most once.  Loading a root never looks at the document     *)
(* limit: only the validation of the request makes room for every root.    *)
(* (commit_document, insert_root, validate_document_scope.)                *)
LimitsHold ==
    /\ content <= MaxContent
    /\ phase # "validate" /\ phase # "invalid" => Len(documents) <= query.maxDocuments
    /\ Range(documents) = Loaded
    /\ \A i, j \in DOMAIN documents : documents[i] = documents[j] => i = j
    /\ \A i, j \in DOMAIN queue : queue[i] = queue[j] => i = j

(* Traversal is breadth-first: no edge is a shorter way to a page than its *)
(* depth says, a page below the roots has a parent one level up, and       *)
(* reachedFrom names each page an edge comes from, once and not itself.    *)
(* A page admitted too deep would cut off what it links to at maxDepth.    *)
DepthsAreShortest ==
    /\ \A e \in edges : scoped[e.to].depth <= scoped[e.from].depth + 1
    /\ \A page \in Loaded :
         /\ scoped[page].depth = 0 <=> scoped[page].rootIndices # {}
         /\ scoped[page].depth > 0 =>
                \E parent \in scoped[page].reachedFrom :
                    scoped[page].depth = scoped[parent].depth + 1
         /\ scoped[page].reachedFrom =
                {e.from : e \in {e \in edges : e.to = page}} \ {page}

(* A link reported as cut off by the depth or by the number of documents   *)
(* does not lead to a page the same answer contains, however late that     *)
(* page was loaded and under whatever name it is known                     *)
(* (record_depth_frontier, known_reference_address).                       *)
NoFalseTruncation ==
    \A f \in frontier : f.limit # "max-content-bytes" => Known(f.target) \notin Loaded

(* The references of a page that have been followed. *)
Followed(page) ==
    IF page \in Range(queue) \/ phase \in {"validate", "roots"} THEN {}
    ELSE IF page = current
    THEN {Collected(page)[i] : i \in 1 .. Len(Collected(page)) - Len(pending)}
    ELSE Range(Collected(page))

InFrontier(page, reference) ==
    \E f \in frontier : f.from = page /\ f.target = reference
IsUnresolved(page, reference) ==
    \E u \in unresolved : u[1] = page /\ u[2] = reference
HasEdge(page, reference) ==
    \E e \in edges : /\ e.from = page /\ e.kind = reference.kind
                     /\ reference.exact => e.to = reference.target

(* With nothing changing meanwhile a link leads to what a lookup selects,  *)
(* whatever aliases and failures were remembered on the way; nothing else  *)
(* is an edge, and a link to a missing page is not said to lead anywhere.  *)
AgreesWithDisk(page) ==
    /\ \A r \in Followed(page) :
         /\ IsUnresolved(page, r) => r.selector = None \/ Answer(Key(r)) \notin Address
         /\ InFrontier(page, r) => ~IsUnresolved(page, r)
         /\ ~InFrontier(page, r) /\ ~IsUnresolved(page, r) =>
               Edge(page, Answer(Key(r)), r) \in edges
    /\ \A e \in edges : e.from = page =>
         \E r \in Followed(page) : r.selector # None /\ e = Edge(page, Answer(Key(r)), r)

(* Every link of a page that was followed is an edge, in the frontier or   *)
(* unresolved, or the page is marked as not scanned completely; and the    *)
(* request-local caches give no answer the disk does not                   *)
(* (follow_reference, ResolutionFailures, resolved_queries).               *)
LinksAreAnswered ==
    \A page \in Loaded :
        /\ \A r \in Followed(page) :
              HasEdge(page, r) \/ InFrontier(page, r) \/ IsUnresolved(page, r)
        /\ (phase = "done" /\ query.followLinks /\ page \notin referenceLimits)
              => Followed(page) = Reference(page)
        /\ updates = 0 => AgreesWithDisk(page)
=============================================================================
