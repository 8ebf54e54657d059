----------------------- MODULE ReaderNavigation_proofs -----------------------
(***************************************************************************)
(* Proofs about ReaderNavigation, for any pages, outlines, limit and       *)
(* number of snapshots.                                                    *)
(*                                                                         *)
(* One invariant carries them all: whatever the ledger remembers is a      *)
(* place of the snapshot it names, the active tab shows the open snapshot, *)
(* the histories share one limit, and a step back or forward that waits    *)
(* for the host still leads to the address its history ends with.  The     *)
(* last part makes it inductive: without it a commit that comes after the  *)
(* host's answer could pop an empty history, or another address.           *)
(***************************************************************************)
EXTENDS ReaderNavigation, SequenceTheorems, TLAPS

Doc == [address : Address \cup {Nil}, items : Outlines]

(* The places that can be returned to in some snapshots. *)
PlaceOf(ds) ==
    {l \in Location :
        /\ l.origin \in DOMAIN ds
        /\ l.address = ds[l.origin].address
        /\ l.target \in Places(ds[l.origin].items)}

(* Later snapshots are added, none is changed. *)
Grows(ds, es) ==
    /\ ds \in Seq(Doc) /\ es \in Seq(Doc)
    /\ DOMAIN ds \subseteq DOMAIN es
    /\ \A i \in DOMAIN ds : es[i] = ds[i]

PageOK ==
    /\ docs \in Seq(Doc)
    /\ current \in DOMAIN docs
    /\ place \in Places(docs[current].items)

HistoryOK ==
    /\ back \in Seq(PlaceOf(docs)) /\ forward \in Seq(PlaceOf(docs))
    /\ Len(back) + Len(forward) <= HistoryLimit

TabsOK ==
    /\ tabs \in Seq(PlaceOf(docs))
    /\ Len(tabs) <= HistoryLimit
    /\ activeTab \in DOMAIN tabs
    /\ tabs[activeTab].origin = current
    /\ \A i, j \in DOMAIN tabs : tabs[i].address = tabs[j].address => i = j

SearchOK ==
    /\ scope \in Seq(DOMAIN docs) /\ base \in 1 .. Len(scope)
    /\ scan \in Nat /\ wanted \in BOOLEAN
    /\ hits \subseteq Nat \X Nat
    /\ HitsNameTheirDocument

ReaderOK == PageOK /\ HistoryOK /\ TabsOK /\ SearchOK

Request ==
    [to : Address \cup {ByName}, target : Target \cup {Default},
     direction : {"New", "Back", "Forward"}]

(* A step along a history leads to the address the history ends with. *)
Leads(direction, address) ==
    /\ direction = "Back" => back # <<>> /\ address = back[Len(back)].address
    /\ direction = "Forward" =>
         forward # <<>> /\ address = forward[Len(forward)].address

PendingOK ==
    /\ pending = Nil \/ pending \in Request
    /\ pending # Nil =>
         /\ pc = "service"
         /\ pending.to # ByName => Leads(pending.direction, pending.to)
         /\ pending.to = ByName => pending.direction = "New"

ScreenOK ==
    /\ overlay \in Overlays
    /\ notice \in BOOLEAN /\ redraw \in BOOLEAN
    /\ unseen \subseteq {"page", "overlay"}
    /\ pc \in {"loop", "event", "service"}
    /\ "page" \in unseen => redraw
    /\ ScreenShowsTheDocument

ReaderInv == ReaderOK /\ PendingOK /\ ScreenOK

-----------------------------------------------------------------------------
(* Outlines and snapshots. *)

LEMMA PlacesType ==
    ASSUME NEW items \in Outlines
    PROVE  /\ items \in Seq(Target)
           /\ Places(items) \subseteq Target \cup {Default}
           /\ Default \in Places(items)
           /\ FirstPlace(items) \in Places(items)
<1>1. items \in Seq(Target)
  BY NavigationAssumption
<1>2. /\ DOMAIN items = 1 .. Len(items) /\ Len(items) \in Nat
      /\ \A i \in DOMAIN items : items[i] \in Target
  BY <1>1
<1>3. items # <<>> => Head(items) = items[1] /\ 1 \in DOMAIN items
  BY <1>1
<1> QED
  BY <1>1, <1>2, <1>3 DEF Places, FirstPlace

LEMMA DocType ==
    ASSUME NEW ds \in Seq(Doc), NEW i \in DOMAIN ds
    PROVE  /\ i \in Nat
           /\ ds[i] \in Doc
           /\ ds[i].address \in Address \cup {Nil}
           /\ ds[i].items \in Outlines
<1>1. DOMAIN ds = 1 .. Len(ds) /\ Len(ds) \in Nat
  OBVIOUS
<1>2. i \in Nat /\ ds[i] \in Doc
  BY <1>1
<1> QED
  BY <1>2 DEF Doc

LEMMA PlacesGrow ==
    ASSUME NEW ds, NEW es, Grows(ds, es)
    PROVE  PlaceOf(ds) \subseteq PlaceOf(es)
BY DEF Grows, PlaceOf

LEMMA OneMore ==
    ASSUME NEW ds \in Seq(Doc), NEW doc \in Doc
    PROVE  /\ Grows(ds, Append(ds, doc))
           /\ Len(ds) + 1 \in DOMAIN Append(ds, doc)
           /\ Append(ds, doc)[Len(ds) + 1] = doc
           /\ Append(ds, doc) # ds
           /\ Len(ds) + 1 \notin DOMAIN ds
<1>1. /\ Append(ds, doc) \in Seq(Doc)
      /\ Len(Append(ds, doc)) = Len(ds) + 1
      /\ \A i \in 1 .. Len(ds) : Append(ds, doc)[i] = ds[i]
      /\ Append(ds, doc)[Len(ds) + 1] = doc
      /\ Len(ds) \in Nat
  BY AppendProperties
<1>2. DOMAIN ds = 1 .. Len(ds) /\ DOMAIN Append(ds, doc) = 1 .. Len(ds) + 1
  BY <1>1
<1>3. Append(ds, doc) # ds
  BY <1>1
<1>4. Len(ds) + 1 \in DOMAIN Append(ds, doc) /\ Len(ds) + 1 \notin DOMAIN ds
  BY <1>1, <1>2
<1>5. Grows(ds, Append(ds, doc))
  <2> DEFINE es == Append(ds, doc)
  <2>1. es \in Seq(Doc) /\ DOMAIN es = 1 .. Len(ds) + 1
        /\ \A i \in 1 .. Len(ds) : es[i] = ds[i]
    BY <1>1, <1>2
  <2> HIDE DEF es
  <2> QED
    BY <2>1, <1>1, <1>2 DEF Grows, es
<1> QED
  BY <1>1, <1>3, <1>4, <1>5

LEMMA PlaceHere ==
    ASSUME NEW ds \in Seq(Doc), NEW s \in DOMAIN ds,
           NEW target \in Places(ds[s].items)
    PROVE  At(ds[s].address, target, s) \in PlaceOf(ds)
<1>1. /\ s \in Nat /\ ds[s].address \in Address \cup {Nil}
      /\ ds[s].items \in Outlines
  BY DocType
<1>2. target \in Target \cup {Default}
  BY <1>1, PlacesType
<1> QED
  BY <1>1, <1>2 DEF At, PlaceOf, Location

-----------------------------------------------------------------------------
(* Histories. *)

LEMMA PushType ==
    ASSUME NEW S, NEW history \in Seq(S), NEW location \in S,
           Len(history) <= HistoryLimit
    PROVE  /\ Push(history, location) \in Seq(S)
           /\ Len(Push(history, location))
                = IF Len(history) = HistoryLimit THEN HistoryLimit
                  ELSE Len(history) + 1
           /\ Push(history, location)[Len(Push(history, location))] = location
<1>0. HistoryLimit \in Nat \ {0} /\ Len(history) \in Nat
  BY NavigationAssumption
<1>1. CASE Len(history) = HistoryLimit
  <2>1. history # <<>>
    BY <1>0, <1>1
  <2>2. Tail(history) \in Seq(S) /\ Len(Tail(history)) = HistoryLimit - 1
    BY <2>1, <1>1, HeadTailProperties
  <2> QED
    BY <2>2, <1>0, <1>1, AppendProperties DEF Push
<1>2. CASE Len(history) # HistoryLimit
  BY <1>0, <1>2, AppendProperties DEF Push
<1> QED
  BY <1>1, <1>2

LEMMA PopType ==
    ASSUME NEW S, NEW history \in Seq(S), history # <<>>
    PROVE  /\ Pop(history) \in Seq(S)
           /\ Len(Pop(history)) = Len(history) - 1
           /\ \A i \in 1 .. Len(history) - 1 : Pop(history)[i] = history[i]
           /\ Len(history) \in Nat \ {0}
           /\ history[Len(history)] \in S
<1>1. Len(history) \in Nat \ {0}
  BY EmptySeq
<1>2. \A i \in 1 .. Len(history) - 1 : history[i] \in S
  BY <1>1
<1>3. /\ SubSeq(history, 1, Len(history) - 1) \in Seq(S)
      /\ Len(SubSeq(history, 1, Len(history) - 1)) = Len(history) - 1
      /\ \A i \in 1 .. Len(history) - 1 :
            SubSeq(history, 1, Len(history) - 1)[i] = history[i]
  <2> DEFINE n == Len(history) - 1
  <2>1. n \in Int /\ 1 \in Int /\ n \in Nat
    BY <1>1
  <2>2. \A i \in 1 .. n : history[i] \in S
    BY <1>2
  <2> HIDE DEF n
  <2>3. /\ SubSeq(history, 1, n) \in Seq(S)
        /\ Len(SubSeq(history, 1, n)) = IF 1 <= n THEN n - 1 + 1 ELSE 0
        /\ \A i \in 1 .. n - 1 + 1 : SubSeq(history, 1, n)[i] = history[1 + i - 1]
    BY <2>1, <2>2, SubSeqProperties
  <2>4. /\ Len(SubSeq(history, 1, n)) = n
        /\ \A i \in 1 .. n : SubSeq(history, 1, n)[i] = history[i]
    BY <2>1, <2>3
  <2> QED
    BY <2>3, <2>4 DEF n
<1>4. history[Len(history)] \in S
  BY <1>1
<1> QED
  BY <1>1, <1>3, <1>4 DEF Pop

(* Committing a step keeps the histories good and within their limit. *)
LEMMA CommitKeeps ==
    ASSUME PageOK, HistoryOK, NEW direction, NEW address,
           Commit(direction), Leads(direction, address)
    PROVE  /\ back' \in Seq(PlaceOf(docs)) /\ forward' \in Seq(PlaceOf(docs))
           /\ Len(back') + Len(forward') <= HistoryLimit
<1> DEFINE S == PlaceOf(docs)
<1>1. Here \in S
  BY PlaceHere DEF PageOK, Here
<1>2. /\ back \in Seq(S) /\ forward \in Seq(S)
      /\ Len(back) \in Nat /\ Len(forward) \in Nat
      /\ Len(back) + Len(forward) <= HistoryLimit
      /\ HistoryLimit \in Nat \ {0}
  BY NavigationAssumption DEF HistoryOK
<1>3. Len(back) <= HistoryLimit /\ Len(forward) <= HistoryLimit
  BY <1>2
<1> HIDE DEF S
<1>4. /\ Push(back, Here) \in Seq(S)
      /\ Len(Push(back, Here)) = IF Len(back) = HistoryLimit
                                 THEN HistoryLimit ELSE Len(back) + 1
  BY <1>1, <1>2, <1>3, PushType
<1>5. /\ Push(forward, Here) \in Seq(S)
      /\ Len(Push(forward, Here)) = IF Len(forward) = HistoryLimit
                                    THEN HistoryLimit ELSE Len(forward) + 1
  BY <1>1, <1>2, <1>3, PushType
<1>6. CASE direction = "New"
  <2>1. back' = Push(back, Here) /\ forward' = <<>>
    BY <1>6 DEF Commit
  <2> QED
    BY <2>1, <1>2, <1>4 DEF S
<1>7. CASE direction = "Back"
  <2>1. back' = Pop(back) /\ forward' = Push(forward, Here) /\ back # <<>>
    BY <1>7 DEF Commit, Leads
  <2>2. Pop(back) \in Seq(S) /\ Len(Pop(back)) = Len(back) - 1
        /\ Len(back) \in Nat \ {0}
    BY <2>1, <1>2, PopType
  <2> QED
    BY <2>1, <2>2, <1>2, <1>5 DEF S
<1>8. CASE direction = "Forward"
  <2>1. forward' = Pop(forward) /\ back' = Push(back, Here) /\ forward # <<>>
    BY <1>8 DEF Commit, Leads
  <2>2. Pop(forward) \in Seq(S) /\ Len(Pop(forward)) = Len(forward) - 1
        /\ Len(forward) \in Nat \ {0}
    BY <2>1, <1>2, PopType
  <2> QED
    BY <2>1, <2>2, <1>2, <1>4 DEF S
<1> QED
  BY <1>6, <1>7, <1>8 DEF Commit

-----------------------------------------------------------------------------
(* Tabs and the search scope. *)

OneTabEach(ts) ==
    \A i, j \in DOMAIN ts : ts[i].address = ts[j].address => i = j

LEMMA RememberedType ==
    ASSUME PageOK, TabsOK
    PROVE  /\ RememberedTabs \in Seq(PlaceOf(docs))
           /\ Len(RememberedTabs) = Len(tabs)
           /\ OneTabEach(RememberedTabs)
<1> DEFINE S == PlaceOf(docs)
           e == [tabs[activeTab] EXCEPT !.target = place]
<1>1. /\ tabs \in Seq(S) /\ activeTab \in 1 .. Len(tabs)
      /\ tabs[activeTab] \in S /\ tabs[activeTab].origin = current
      /\ DOMAIN tabs = 1 .. Len(tabs)
  BY DEF TabsOK
<1>2. /\ current \in DOMAIN docs /\ docs[current].items \in Outlines
      /\ place \in Target \cup {Default}
  BY DocType, PlacesType DEF PageOK
<1>3. e \in S /\ e.address = tabs[activeTab].address
  BY <1>1, <1>2 DEF PlaceOf, Location, PageOK
<1>4. RememberedTabs = [tabs EXCEPT ![activeTab] = e]
  BY DEF RememberedTabs
<1> HIDE DEF S, e
<1>5. /\ RememberedTabs \in Seq(S) /\ Len(RememberedTabs) = Len(tabs)
      /\ \A j \in 1 .. Len(tabs) :
            RememberedTabs[j] = IF j = activeTab THEN e ELSE tabs[j]
  BY <1>1, <1>3, <1>4, ExceptSeq
<1>6. \A j \in 1 .. Len(tabs) : RememberedTabs[j].address = tabs[j].address
  BY <1>5, <1>3
<1>7. DOMAIN RememberedTabs = 1 .. Len(tabs)
  BY <1>5
<1>8. OneTabEach(RememberedTabs)
  BY <1>1, <1>6, <1>7 DEF TabsOK, OneTabEach
<1> QED
  BY <1>5, <1>8 DEF S

(* A tab synced with a snapshot is the active one and shows it. *)
LEMMA SyncKeeps ==
    ASSUME PageOK, TabsOK, NEW ds, Grows(docs, ds), NEW s \in DOMAIN ds,
           SyncTab(ds[s].address, s)
    PROVE  /\ tabs' \in Seq(PlaceOf(ds))
           /\ Len(tabs') <= HistoryLimit
           /\ activeTab' \in DOMAIN tabs'
           /\ tabs'[activeTab'].origin = s
           /\ OneTabEach(tabs')
<1> DEFINE S == PlaceOf(ds)
           address == ds[s].address
           old == RememberedTabs
           same == {i \in DOMAIN old : old[i].address = address}
           kept == IF Len(old) = HistoryLimit THEN Tail(old) ELSE old
<1>1. /\ old \in Seq(S) /\ Len(old) = Len(tabs) /\ OneTabEach(old)
      /\ Len(old) \in Nat /\ Len(old) <= HistoryLimit
      /\ HistoryLimit \in Nat \ {0}
  BY RememberedType, PlacesGrow, SeqMonotonic, NavigationAssumption DEF TabsOK
<1>2. ds \in Seq(Doc)
  BY DEF Grows
<1>3. \A i \in DOMAIN old : old[i] \in S
  BY <1>1
<1>4. At(address, Default, s) \in S
  BY <1>2, DocType, PlacesType, PlaceHere
<1>5. DOMAIN old = 1 .. Len(old)
  BY <1>1
<1>6. CASE same # {}
  <2>1. PICK i \in same :
          /\ tabs' = [old EXCEPT ![i] =
                 At(address, IF old[i].origin = s THEN old[i].target ELSE Default, s)]
          /\ activeTab' = i
    <3> DEFINE i == CHOOSE i \in same : \A j \in same : i <= j
    <3>1. i \in same
      <4>1. \E k \in same : \A j \in same : k <= j
        <5>1. PICK k \in same : TRUE
          BY <1>6
        <5>2. \A j \in same : j = k
          BY <1>1, <5>1 DEF OneTabEach
        <5>3. k \in Nat
          BY <1>5, <5>1
        <5> QED
          BY <5>2, <5>3
      <4> QED
        BY <4>1
    <3>2. /\ tabs' = [old EXCEPT ![i] =
                 At(address, IF old[i].origin = s THEN old[i].target ELSE Default, s)]
          /\ activeTab' = i
      BY <1>6 DEF SyncTab
    <3> QED
      BY <3>1, <3>2
  <2> DEFINE e == At(address, IF old[i].origin = s THEN old[i].target ELSE Default, s)
  <2>2. i \in 1 .. Len(old) /\ old[i] \in S /\ old[i].address = address
    BY <2>1, <1>3, <1>5
  <2>3. e \in S
    <3>1. CASE old[i].origin = s
      <4>1. old[i].target \in Places(ds[s].items)
        BY <2>2, <3>1 DEF PlaceOf
      <4> QED
        BY <4>1, <3>1, <1>2, PlaceHere
    <3>2. CASE old[i].origin # s
      BY <3>2, <1>4
    <3> QED
      BY <3>1, <3>2
  <2>4. e.origin = s /\ e.address = address
    BY DEF At
  <2> HIDE DEF S, e, old, same, address
  <2>5. tabs' = [old EXCEPT ![i] = e] /\ activeTab' = i
    BY <2>1 DEF e
  <2>6. /\ tabs' \in Seq(S) /\ Len(tabs') = Len(old)
        /\ \A j \in 1 .. Len(old) : tabs'[j] = IF j = i THEN e ELSE old[j]
    BY <1>1, <2>2, <2>3, <2>5, ExceptSeq
  <2>7. DOMAIN tabs' = 1 .. Len(old)
    BY <2>6
  <2>8. \A j \in 1 .. Len(old) : tabs'[j].address = old[j].address
    BY <2>6, <2>2, <2>4
  <2>9. OneTabEach(tabs')
    BY <1>1, <1>5, <2>7, <2>8 DEF OneTabEach
  <2>10. tabs'[activeTab'].origin = s
    BY <2>2, <2>4, <2>5, <2>6
  <2> QED
    BY <1>1, <2>2, <2>5, <2>6, <2>7, <2>9, <2>10 DEF S
<1>7. CASE same = {}
  <2> DEFINE e == At(address, Default, s)
  <2>1. tabs' = Append(kept, e) /\ activeTab' = Len(kept) + 1
    BY <1>7 DEF SyncTab
  <2>2. \A j \in DOMAIN old : old[j].address # address
    BY <1>7
  <2>3. e.address = address /\ e.origin = s
    BY DEF At
  <2> HIDE DEF S, e, address, old
  <2>4. /\ kept \in Seq(S) /\ Len(kept) \in Nat /\ Len(kept) < HistoryLimit
        /\ \E d \in {0, 1} : \A j \in 1 .. Len(kept) :
              j + d \in 1 .. Len(old) /\ kept[j] = old[j + d]
    <3>1. CASE Len(old) = HistoryLimit
      <4>1. old # <<>>
        BY <3>1, <1>1
      <4>2. /\ Tail(old) \in Seq(S) /\ Len(Tail(old)) = Len(old) - 1
            /\ \A j \in 1 .. Len(Tail(old)) : Tail(old)[j] = old[j + 1]
        BY <4>1, <1>1, HeadTailProperties
      <4>3. \A j \in 1 .. Len(kept) : j + 1 \in 1 .. Len(old) /\ kept[j] = old[j + 1]
        BY <4>2, <3>1, <1>1
      <4> QED
        BY <4>2, <4>3, <3>1, <1>1
    <3>2. CASE Len(old) # HistoryLimit
      <4>1. \A j \in 1 .. Len(kept) : j + 0 \in 1 .. Len(old) /\ kept[j] = old[j + 0]
        BY <3>2, <1>1
      <4> QED
        BY <4>1, <3>2, <1>1
    <3> QED
      BY <3>1, <3>2
  <2> HIDE DEF kept
  <2>5. /\ tabs' \in Seq(S) /\ Len(tabs') = Len(kept) + 1
        /\ \A j \in 1 .. Len(kept) : tabs'[j] = kept[j]
        /\ tabs'[Len(kept) + 1] = e
    BY <2>1, <2>4, <1>4, AppendProperties DEF e
  <2>6. PICK d \in {0, 1} : \A j \in 1 .. Len(kept) :
            j + d \in 1 .. Len(old) /\ tabs'[j] = old[j + d]
    BY <2>4, <2>5
  <2>7. DOMAIN tabs' = 1 .. Len(kept) + 1
    BY <2>4, <2>5
  <2>8. OneTabEach(tabs')
    <3> SUFFICES ASSUME NEW i \in 1 .. Len(kept) + 1, NEW j \in 1 .. Len(kept) + 1,
                        tabs'[i].address = tabs'[j].address
                 PROVE  i = j
      BY <2>7 DEF OneTabEach
    <3>1. \A k \in 1 .. Len(kept) : tabs'[k].address # address
      BY <2>6, <2>2, <1>5
    <3>2. tabs'[Len(kept) + 1].address = address
      BY <2>5, <2>3
    <3>3. CASE i \in 1 .. Len(kept) /\ j \in 1 .. Len(kept)
      <4>1. /\ i + d \in DOMAIN old /\ j + d \in DOMAIN old
            /\ old[i + d].address = old[j + d].address
        BY <3>3, <2>6, <1>5
      <4>2. i + d = j + d
        BY <4>1, <1>1 DEF OneTabEach
      <4> QED
        BY <4>2, <2>4
    <3> QED
      BY <3>1, <3>2, <3>3, <2>4
  <2>9. tabs'[activeTab'].origin = s
    BY <2>1, <2>3, <2>5
  <2> QED
    BY <2>1, <2>4, <2>5, <2>7, <2>8, <2>9, <1>1 DEF S
<1> QED
  BY <1>6, <1>7

LEMMA ScopeType ==
    ASSUME SearchOK, NEW ds, Grows(docs, ds), NEW s \in DOMAIN ds
    PROVE  /\ SearchScope(s) \in Seq(DOMAIN ds)
           /\ base \in 1 .. Len(SearchScope(s))
<1> DEFINE D == DOMAIN ds
           given == SubSeq(scope, 1, base)
<1>1. /\ scope \in Seq(D) /\ base \in Nat \ {0} /\ base <= Len(scope)
      /\ Len(scope) \in Nat
  BY SeqMonotonic DEF SearchOK, Grows
<1>2. \A i \in 1 .. base : scope[i] \in D
  BY <1>1
<1> HIDE DEF D
<1>3. given \in Seq(D) /\ Len(given) = base
  <2>1. base \in Int /\ 1 \in Int /\ 1 <= base
    BY <1>1
  <2>2. given \in Seq(D) /\ Len(given) = IF 1 <= base THEN base - 1 + 1 ELSE 0
    BY <2>1, <1>2, SubSeqProperties
  <2> QED
    BY <2>1, <2>2, <1>1
<1> HIDE DEF given
<1>4. Append(given, s) \in Seq(D) /\ Len(Append(given, s)) = base + 1
  BY <1>3, AppendProperties DEF D
<1>5. <<s>> \in Seq(D) /\ Len(<<s>>) = 1
  BY DEF D
<1>6. SearchScope(s) \in {<<s>>, given, Append(given, s)}
      /\ (base # 1 => SearchScope(s) \in {given, Append(given, s)})
  BY DEF SearchScope, given
<1> QED
  BY <1>1, <1>3, <1>4, <1>5, <1>6 DEF D

-----------------------------------------------------------------------------
(* What the reader shows and remembers, one lemma per way to change it. *)

page == <<docs, current, place, ledger, search, base>>

LEMMA NothingMoves ==
    ASSUME ReaderOK, UNCHANGED page
    PROVE  ReaderOK'
BY DEF ReaderOK, PageOK, HistoryOK, TabsOK, SearchOK, page, ledger, search,
       HitsNameTheirDocument

LEMMA SameSearch ==
    ASSUME ReaderOK, docs' = docs, UNCHANGED <<search, base>>
    PROVE  SearchOK'
BY DEF ReaderOK, SearchOK, search, HitsNameTheirDocument

LEMMA JumpKeeps ==
    ASSUME ReaderOK, NEW target, Jump(target), UNCHANGED base
    PROVE  ReaderOK'
<1>1. UNCHANGED <<docs, current, tabs, activeTab, search>>
  BY DEF Jump
<1>2. CASE /\ target \in Places(docs[current].items) \ {Default}
           /\ place' = target
           /\ Commit("New")
  <2>1. PageOK'
    BY <1>1, <1>2 DEF ReaderOK, PageOK
  <2>2. Leads("New", Nil)
    BY DEF Leads
  <2>3. HistoryOK'
    BY <1>1, <1>2, <2>2, CommitKeeps DEF ReaderOK, HistoryOK
  <2>4. TabsOK'
    BY <1>1 DEF ReaderOK, TabsOK
  <2> QED
    BY <1>1, <2>1, <2>3, <2>4, SameSearch DEF ReaderOK
<1>3. CASE UNCHANGED <<place, back, forward>>
  BY <1>1, <1>3, NothingMoves DEF page, ledger
<1> QED
  BY <1>2, <1>3 DEF Jump

LEMMA AskKeeps ==
    ASSUME ReaderOK, NEW request, Ask(request), UNCHANGED base
    PROVE  ReaderOK'
BY NothingMoves DEF Ask, page

LEMMA RequestOpenKeeps ==
    ASSUME ReaderOK, NEW address, NEW target, RequestOpen(address, target),
           UNCHANGED base
    PROVE  ReaderOK'
<1>1. CASE \E request : Ask(request)
  BY <1>1, AskKeeps
<1>2. CASE Jump(target)
  BY <1>2, JumpKeeps
<1>3. CASE /\ place' = FirstPlace(docs[current].items)
           /\ Commit("New")
           /\ UNCHANGED <<docs, current, tabs, activeTab, search>>
  <2>1. PageOK'
    BY <1>3, DocType, PlacesType DEF ReaderOK, PageOK
  <2>2. Leads("New", Nil)
    BY DEF Leads
  <2>3. HistoryOK'
    BY <1>3, <2>2, CommitKeeps DEF ReaderOK, HistoryOK
  <2>4. TabsOK'
    BY <1>3 DEF ReaderOK, TabsOK
  <2> QED
    BY <1>3, <2>1, <2>3, <2>4, SameSearch DEF ReaderOK
<1> QED
  BY <1>1, <1>2, <1>3 DEF RequestOpen

LEMMA SelfGrows ==
    ASSUME PageOK
    PROVE  Grows(docs, docs)
BY DEF PageOK, Grows

(* A document that was checked is shown, remembered and searched. *)
LEMMA ShowKeeps ==
    ASSUME ReaderOK, Grows(docs, docs'), NEW s \in DOMAIN docs',
           NEW target \in Places(docs'[s].items),
           NEW direction, NEW address, Leads(direction, address),
           Commit(direction), Replace(s, docs'[s], target), UNCHANGED base
    PROVE  ReaderOK'
<1>1. docs' \in Seq(Doc)
  BY DEF Grows
<1>2. docs'[s].items \in Outlines
  BY <1>1, DocType
<1>3. PageOK'
  <2>1. current' = s /\ place' = IF target = Default
                                 THEN FirstPlace(docs'[s].items) ELSE target
    BY DEF Replace
  <2>2. place' \in Places(docs'[s].items)
    BY <2>1, <1>2, PlacesType
  <2> QED
    BY <1>1, <2>1, <2>2 DEF PageOK
<1>4. HistoryOK'
  <2>1. /\ back' \in Seq(PlaceOf(docs)) /\ forward' \in Seq(PlaceOf(docs))
        /\ Len(back') + Len(forward') <= HistoryLimit
    BY CommitKeeps DEF ReaderOK
  <2>2. PlaceOf(docs) \subseteq PlaceOf(docs')
    BY PlacesGrow
  <2>3. back' \in Seq(PlaceOf(docs')) /\ forward' \in Seq(PlaceOf(docs'))
    BY <2>1, <2>2, SeqMonotonic
  <2> QED
    BY <2>1, <2>3 DEF HistoryOK
<1>5. TabsOK'
  <2>1. SyncTab(docs'[s].address, s) /\ current' = s
    BY DEF Replace
  <2>2. /\ tabs' \in Seq(PlaceOf(docs'))
        /\ Len(tabs') <= HistoryLimit
        /\ activeTab' \in DOMAIN tabs'
        /\ tabs'[activeTab'].origin = s
        /\ OneTabEach(tabs')
    BY <2>1, SyncKeeps DEF ReaderOK
  <2> QED
    BY <2>1, <2>2 DEF TabsOK, OneTabEach
<1>6. SearchOK'
  <2>1. /\ scope' = SearchScope(s) /\ scan' = 0 /\ hits' = {}
        /\ wanted' = FALSE /\ base' = base
    BY DEF Replace
  <2>2. SearchScope(s) \in Seq(DOMAIN docs') /\ base \in 1 .. Len(SearchScope(s))
    BY ScopeType DEF ReaderOK
  <2> QED
    BY <2>1, <2>2 DEF SearchOK, HitsNameTheirDocument
<1> QED
  BY <1>3, <1>4, <1>5, <1>6 DEF ReaderOK

LEMMA RefuseKeeps ==
    ASSUME ReaderOK, Refuse, UNCHANGED <<docs, base>>
    PROVE  ReaderOK'
BY NothingMoves DEF Refuse, page

LEMMA CompleteKeeps ==
    ASSUME ReaderOK, NEW s, NEW doc, NEW target, NEW direction, NEW address,
           \/ s \in DOMAIN docs /\ doc = docs[s]
           \/ s = Len(docs) + 1 /\ doc \in Doc,
           Leads(direction, address),
           CompleteLoaded(s, doc, target, direction), UNCHANGED base
    PROVE  ReaderOK'
<1>1. CASE Refuse /\ UNCHANGED docs
  BY <1>1, RefuseKeeps
<1>2. CASE /\ target \in Places(doc.items)
           /\ docs' = IF s \in DOMAIN docs THEN docs ELSE Append(docs, doc)
           /\ Commit(direction)
           /\ Replace(s, doc, target)
  <2>1. PageOK
    BY DEF ReaderOK
  <2>2. Grows(docs, docs') /\ s \in DOMAIN docs' /\ docs'[s] = doc
    <3>1. CASE s \in DOMAIN docs /\ doc = docs[s]
      BY <3>1, <1>2, <2>1, SelfGrows
    <3>2. CASE s = Len(docs) + 1 /\ doc \in Doc
      BY <3>2, <1>2, <2>1, OneMore DEF PageOK
    <3> QED
      BY <3>1, <3>2
  <2> QED
    BY <1>2, <2>2, ShowKeeps
<1> QED
  BY <1>1, <1>2 DEF CompleteLoaded

LEMMA LandingsArePlaces ==
    ASSUME NEW items PROVE Landings(items) \subseteq Places(items)
BY DEF Landings, Places

(* The scan goes on, or starts over, with hits that are good. *)
LEMMA LookKeeps ==
    ASSUME ReaderOK, NEW next \in Nat, NEW found \in {hits, {}},
           LookOn(next, found), wanted' \in BOOLEAN,
           UNCHANGED <<docs, scope, base>>
    PROVE  SearchOK'
<1>1. scope \in Seq(DOMAIN docs) /\ docs \in Seq(Doc) /\ Len(scope) \in Nat
  BY DEF ReaderOK, PageOK, SearchOK
<1>2. next \in DOMAIN scope /\ scan' \in Nat
  BY <1>1 DEF LookOn
<1>3. scope[next] \in Nat
  BY <1>1, <1>2
<1>4. hits' \subseteq found \cup {<<next, scope[next]>>}
  BY DEF LookOn
<1>5. hits' \subseteq Nat \X Nat
  BY <1>3, <1>4 DEF ReaderOK, SearchOK
<1>6. \A hit \in found : hit[1] \in DOMAIN scope /\ scope[hit[1]] = hit[2]
  BY DEF ReaderOK, SearchOK, HitsNameTheirDocument
<1>7. \A hit \in hits' : hit[1] \in DOMAIN scope /\ scope[hit[1]] = hit[2]
  BY <1>2, <1>4, <1>6
<1> QED
  BY <1>2, <1>5, <1>7 DEF ReaderOK, SearchOK, HitsNameTheirDocument

LEMMA StopKeeps ==
    ASSUME ReaderOK, Stop, UNCHANGED <<docs, base>>
    PROVE  SearchOK'
BY DEF ReaderOK, SearchOK, Stop, HitsNameTheirDocument

(* A hit is opened: what the search knows may change in the same step. *)
LEMMA SelectKeeps ==
    ASSUME ReaderOK, NEW hit, NEW said, Select(hit, said), UNCHANGED docs
    PROVE  PageOK' /\ HistoryOK' /\ TabsOK'
<1> DEFINE s == scope[hit[1]]
<1>1. hit[1] \in DOMAIN scope /\ place' \in Landings(docs[s].items)
  BY DEF Select
<1>2. s \in DOMAIN docs /\ place' \in Places(docs[s].items)
  <2>1. scope \in Seq(DOMAIN docs)
    BY DEF ReaderOK, SearchOK
  <2> QED
    BY <2>1, <1>1, LandingsArePlaces
<1>3. CASE s = current /\ UNCHANGED <<current, ledger>>
  <2>1. PageOK'
    BY <1>2, <1>3 DEF ReaderOK, PageOK
  <2>2. HistoryOK' /\ TabsOK'
    BY <1>3 DEF ReaderOK, HistoryOK, TabsOK, ledger
  <2> QED
    BY <2>1, <2>2
<1>4. CASE current' = s /\ Commit("New") /\ SyncTab(docs[s].address, s)
  <2>1. PageOK'
    BY <1>2, <1>4 DEF ReaderOK, PageOK
  <2>2. Leads("New", Nil)
    BY DEF Leads
  <2>3. HistoryOK'
    BY <1>4, <2>2, CommitKeeps DEF ReaderOK, HistoryOK
  <2>4. TabsOK'
    <3>1. /\ tabs' \in Seq(PlaceOf(docs))
          /\ Len(tabs') <= HistoryLimit
          /\ activeTab' \in DOMAIN tabs'
          /\ tabs'[activeTab'].origin = s
          /\ OneTabEach(tabs')
      BY <1>2, <1>4, SelfGrows, SyncKeeps DEF ReaderOK
    <3> QED
      BY <1>4, <3>1 DEF TabsOK, OneTabEach
  <2> QED
    BY <2>1, <2>3, <2>4
<1> QED
  BY <1>3, <1>4 DEF Select

LEMMA FulfilKeeps ==
    ASSUME ReaderOK, NEW asked \in BOOLEAN, NEW said \in BOOLEAN,
           Fulfil(asked, said), UNCHANGED docs
    PROVE  /\ PageOK' /\ HistoryOK' /\ TabsOK'
           /\ wanted' \in BOOLEAN /\ notice' \in BOOLEAN
<1>1. CASE \E hit \in hits' : Select(hit, said) /\ wanted' = FALSE
  <2>1. PICK hit \in hits' : Select(hit, said)
    BY <1>1
  <2>2. notice' \in BOOLEAN
    BY <2>1 DEF Select
  <2> QED
    BY <1>1, <2>1, <2>2, SelectKeeps
<1>2. CASE /\ UNCHANGED <<current, place, ledger>>
           /\ wanted' \in BOOLEAN /\ notice' \in BOOLEAN
  BY <1>2 DEF ReaderOK, PageOK, HistoryOK, TabsOK, ledger
<1> QED
  BY <1>1, <1>2 DEF Fulfil

-----------------------------------------------------------------------------
(* What waits for the host, and what the screen owes. *)

LEMMA PendingKept ==
    ASSUME PendingOK, pc = "event", pending' = pending
    PROVE  PendingOK'
BY DEF PendingOK

LEMMA Asked ==
    ASSUME NEW to \in Address \cup {ByName},
           NEW target \in Target \cup {Default},
           NEW direction \in {"New", "Back", "Forward"},
           to # ByName => Leads(direction, to),
           to = ByName => direction = "New",
           Ask([to |-> to, target |-> target, direction |-> direction]),
           pc' = "service"
    PROVE  PendingOK'
<1> DEFINE r == [to |-> to, target |-> target, direction |-> direction]
<1>1. pending' = r /\ back' = back /\ forward' = forward
  BY DEF Ask, ledger
<1>2. r \in Request /\ r.to = to /\ r.direction = direction
  BY DEF Request
<1> HIDE DEF r
<1>3. r.to # ByName => Leads(r.direction, r.to)'
  BY <1>1, <1>2 DEF Leads
<1> QED
  BY <1>1, <1>2, <1>3 DEF PendingOK, Leads

LEMMA EventScreen ==
    ASSUME ScreenOK, pc' = "service", Unseen, notice' \in BOOLEAN,
           overlay' \in Overlays,
           redraw' = TRUE \/ (redraw' = redraw /\ Shown' = Shown)
    PROVE  ScreenOK'
BY DEF ScreenOK, Unseen, ScreenShowsTheDocument

LEMMA CompleteNotice ==
    ASSUME NEW s, NEW doc, NEW target, NEW direction,
           CompleteLoaded(s, doc, target, direction)
    PROVE  notice' \in BOOLEAN
BY DEF CompleteLoaded, Refuse, Replace

LEMMA RequestNotice ==
    ASSUME ScreenOK, NEW address, NEW target, RequestOpen(address, target)
    PROVE  notice' \in BOOLEAN
BY DEF ScreenOK, RequestOpen, Ask, Jump

LEMMA RequestPending ==
    ASSUME PendingOK, pc = "event", pc' = "service",
           NEW address \in Address, NEW target \in Target \cup {Default},
           RequestOpen(address, target)
    PROVE  PendingOK'
<1>1. CASE Ask([to |-> address, target |-> target, direction |-> "New"])
  <2>1. Leads("New", address) /\ address # ByName
    BY NavigationAssumption DEF Leads
  <2> QED
    BY <1>1, <2>1, Asked
<1>2. CASE pending' = pending
  BY <1>2, PendingKept
<1> QED
  BY <1>1, <1>2 DEF RequestOpen, Jump

(* The last location of a history, and what it leads to. *)
LEMMA LastPlace ==
    ASSUME HistoryOK, NEW history \in {back, forward}, history # <<>>
    PROVE  history[Len(history)] \in PlaceOf(docs)
BY PopType DEF HistoryOK

-----------------------------------------------------------------------------
(* Every event keeps the invariant. *)

LEMMA FollowStep ==
    ASSUME ReaderInv, FollowLink PROVE ReaderInv'
<1>1. /\ ReaderOK /\ PendingOK /\ ScreenOK
      /\ pc = "event" /\ pc' = "service" /\ base' = base
      /\ Unseen /\ overlay' \in Overlays /\ redraw' = TRUE
  BY DEF ReaderInv, FollowLink, Handled, Overlays
<1>2. CASE \E t \in Target : Jump(t)
  <2>1. PICK t \in Target : Jump(t)
    BY <1>2
  <2>2. ReaderOK'
    BY <1>1, <2>1, JumpKeeps
  <2>3. pending' = pending /\ notice' \in BOOLEAN
    BY <1>1, <2>1 DEF Jump, ScreenOK
  <2> QED
    BY <1>1, <2>2, <2>3, PendingKept, EventScreen DEF ReaderInv
<1>3. CASE \E a \in Address, t \in Target \cup {Default} : RequestOpen(a, t)
  <2>1. PICK a \in Address, t \in Target \cup {Default} : RequestOpen(a, t)
    BY <1>3
  <2>2. ReaderOK'
    BY <1>1, <2>1, RequestOpenKeeps
  <2>3. PendingOK'
    BY <1>1, <2>1, RequestPending
  <2>4. notice' \in BOOLEAN
    BY <1>1, <2>1, RequestNotice
  <2> QED
    BY <1>1, <2>2, <2>3, <2>4, EventScreen DEF ReaderInv
<1>4. CASE Ask([to |-> ByName, target |-> Default, direction |-> "New"])
  <2>1. ReaderOK'
    BY <1>1, <1>4, AskKeeps
  <2>2. PendingOK'
    BY <1>1, <1>4, Asked
  <2>3. notice' \in BOOLEAN
    BY <1>1, <1>4 DEF Ask, ScreenOK
  <2> QED
    BY <1>1, <2>1, <2>2, <2>3, EventScreen DEF ReaderInv
<1> QED
  BY <1>2, <1>3, <1>4 DEF FollowLink

LEMMA PickStep ==
    ASSUME ReaderInv, PickDocument PROVE ReaderInv'
<1>1. /\ ReaderOK /\ PendingOK /\ ScreenOK
      /\ pc = "event" /\ pc' = "service" /\ base' = base
      /\ Unseen /\ overlay' \in Overlays /\ redraw' = TRUE
  BY DEF ReaderInv, PickDocument, Handled, Overlays
<1>2. PICK a \in Address : RequestOpen(a, Default)
  BY DEF PickDocument
<1>3. ReaderOK'
  BY <1>1, <1>2, RequestOpenKeeps
<1>4. PendingOK'
  BY <1>1, <1>2, RequestPending
<1>5. notice' \in BOOLEAN
  BY <1>1, <1>2, RequestNotice
<1> QED
  BY <1>1, <1>3, <1>4, <1>5, EventScreen DEF ReaderInv

(* A step along a history. *)
LEMMA NavigateStep ==
    ASSUME ReaderInv, NEW history, NEW direction,
           \/ history = back /\ direction = "Back"
           \/ history = forward /\ direction = "Forward",
           Navigate(history, direction)
    PROVE  ReaderInv'
<1>1. /\ ReaderOK /\ PendingOK /\ ScreenOK
      /\ pc = "event" /\ pc' = "service" /\ base' = base
      /\ Unseen /\ overlay' \in Overlays /\ redraw' = TRUE
  BY DEF ReaderInv, Navigate, Handled, Overlays
<1>2. CASE /\ history = <<>>
           /\ UNCHANGED <<docs, current, place, ledger, search, pending, notice>>
  <2>1. ReaderOK'
    BY <1>1, <1>2, NothingMoves DEF page
  <2>2. pending' = pending /\ notice' \in BOOLEAN
    BY <1>1, <1>2 DEF ScreenOK
  <2> QED
    BY <1>1, <2>1, <2>2, PendingKept, EventScreen DEF ReaderInv
<1>3. CASE history # <<>>
  <2> DEFINE to == history[Len(history)]
  <2>1. to \in PlaceOf(docs)
    BY <1>1, <1>3, LastPlace DEF ReaderOK
  <2>2. /\ to.origin \in DOMAIN docs /\ to.address = docs[to.origin].address
        /\ to.target \in Places(docs[to.origin].items)
        /\ to.address \in Address \cup {Nil}
        /\ to.target \in Target \cup {Default}
    BY <2>1 DEF PlaceOf, Location
  <2>3. Leads(direction, to.address)
    BY <1>3 DEF Leads
  <2> HIDE DEF to
  <2>4. CASE /\ to.origin = current
             /\ Commit(direction)
             /\ place' = IF to.target = Default THEN place ELSE to.target
             /\ notice' = IF to.target = Default THEN notice ELSE FALSE
             /\ UNCHANGED <<docs, current, tabs, activeTab, search, pending>>
    <3>1. PageOK'
      BY <1>1, <2>2, <2>4 DEF ReaderOK, PageOK
    <3>2. HistoryOK'
      BY <1>1, <2>3, <2>4, CommitKeeps DEF ReaderOK, HistoryOK
    <3>3. TabsOK'
      BY <1>1, <2>4 DEF ReaderOK, TabsOK
    <3>4. SearchOK'
      BY <1>1, <2>4, SameSearch
    <3>5. notice' \in BOOLEAN /\ pending' = pending
      BY <1>1, <2>4 DEF ScreenOK
    <3> QED
      BY <1>1, <3>1, <3>2, <3>3, <3>4, <3>5, PendingKept, EventScreen
         DEF ReaderInv, ReaderOK
  <2>5. CASE Refuse /\ UNCHANGED <<docs, pending>>
    <3>1. ReaderOK'
      BY <1>1, <2>5, RefuseKeeps
    <3>2. notice' \in BOOLEAN /\ pending' = pending
      BY <2>5 DEF Refuse
    <3> QED
      BY <1>1, <3>1, <3>2, PendingKept, EventScreen DEF ReaderInv
  <2>6. CASE /\ to.address # Nil
             /\ Ask([to |-> to.address, target |-> to.target,
                     direction |-> direction])
    <3>1. ReaderOK'
      BY <1>1, <2>6, AskKeeps
    <3>2. to.address \in Address /\ to.address # ByName
      BY <2>2, <2>6, NavigationAssumption
    <3>3. PendingOK'
      BY <1>1, <2>2, <2>3, <2>6, <3>2, Asked
    <3>4. notice' \in BOOLEAN
      BY <1>1, <2>6 DEF Ask, ScreenOK
    <3> QED
      BY <1>1, <3>1, <3>3, <3>4, EventScreen DEF ReaderInv
  <2>7. CASE /\ CompleteLoaded(to.origin, docs[to.origin], to.target, direction)
             /\ UNCHANGED pending
    <3>1. ReaderOK'
      BY <1>1, <2>2, <2>3, <2>7, CompleteKeeps
    <3>2. notice' \in BOOLEAN
      BY <2>7, CompleteNotice
    <3> QED
      BY <1>1, <2>7, <3>1, <3>2, PendingKept, EventScreen DEF ReaderInv
  <2> QED
    BY <1>3, <2>4, <2>5, <2>6, <2>7 DEF Navigate, to
<1> QED
  BY <1>2, <1>3 DEF Navigate

LEMMA PressStep ==
    ASSUME ReaderInv, NEW i, PressTab(i) PROVE ReaderInv'
<1>1. /\ ReaderOK /\ PendingOK /\ ScreenOK
      /\ pc = "event" /\ pc' = "service" /\ base' = base
      /\ Unseen /\ overlay' \in Overlays /\ i \in DOMAIN tabs
  BY DEF ReaderInv, PressTab, Handled, Overlays
<1>2. CASE UNCHANGED <<docs, current, place, ledger, search, pending, notice,
                       redraw>>
  <2>1. ReaderOK'
    BY <1>1, <1>2, NothingMoves DEF page
  <2>2. pending' = pending /\ notice' \in BOOLEAN /\ redraw' = redraw
        /\ Shown' = Shown
    BY <1>1, <1>2 DEF ScreenOK, Shown, ledger
  <2> QED
    BY <1>1, <2>1, <2>2, PendingKept, EventScreen DEF ReaderInv
<1>3. tabs[i] \in PlaceOf(docs)
  BY <1>1 DEF ReaderOK, TabsOK
<1>4. /\ tabs[i].origin \in DOMAIN docs
      /\ tabs[i].address = docs[tabs[i].origin].address
      /\ tabs[i].address \in Address \cup {Nil}
      /\ tabs[i].target \in Target \cup {Default}
  BY <1>3 DEF PlaceOf, Location
<1>5. \A a : Leads("New", a)
  BY DEF Leads
<1>6. CASE /\ tabs[i].address # Nil
           /\ redraw' = TRUE
           /\ Ask([to |-> tabs[i].address, target |-> tabs[i].target,
                   direction |-> "New"])
  <2>1. ReaderOK'
    BY <1>1, <1>6, AskKeeps
  <2>2. tabs[i].address \in Address /\ tabs[i].address # ByName
    BY <1>4, <1>6, NavigationAssumption
  <2>3. PendingOK'
    BY <1>1, <1>4, <1>5, <1>6, <2>2, Asked
  <2>4. notice' \in BOOLEAN
    BY <1>1, <1>6 DEF Ask, ScreenOK
  <2> QED
    BY <1>1, <1>6, <2>1, <2>3, <2>4, EventScreen DEF ReaderInv
<1>7. CASE /\ redraw' = TRUE
           /\ CompleteLoaded(tabs[i].origin, docs[tabs[i].origin],
                             tabs[i].target, "New")
           /\ UNCHANGED pending
  <2>1. ReaderOK'
    BY <1>1, <1>4, <1>5, <1>7, CompleteKeeps
  <2>2. notice' \in BOOLEAN
    BY <1>7, CompleteNotice
  <2> QED
    BY <1>1, <1>7, <2>1, <2>2, PendingKept, EventScreen DEF ReaderInv
<1> QED
  BY <1>2, <1>6, <1>7 DEF PressTab

LEMMA ReadStep ==
    ASSUME ReaderInv, Read PROVE ReaderInv'
<1>1. /\ ReaderOK /\ PendingOK /\ ScreenOK
      /\ pc = "event" /\ pc' = "service" /\ base' = base
      /\ Unseen /\ overlay' \in Overlays /\ redraw' = TRUE
      /\ UNCHANGED <<docs, current, ledger, search, pending, notice>>
  BY DEF ReaderInv, Read, Handled, Overlays
<1>2. place' \in Places(docs[current].items)
  BY <1>1, LandingsArePlaces DEF Read, ReaderOK, PageOK
<1>3. PageOK'
  BY <1>1, <1>2 DEF ReaderOK, PageOK
<1>4. HistoryOK' /\ TabsOK'
  BY <1>1 DEF ReaderOK, HistoryOK, TabsOK, ledger
<1>5. SearchOK'
  BY <1>1, SameSearch
<1>6. notice' \in BOOLEAN
  BY <1>1 DEF ScreenOK
<1> QED
  BY <1>1, <1>3, <1>4, <1>5, <1>6, PendingKept, EventScreen DEF ReaderInv, ReaderOK

LEMMA OverlayStep ==
    ASSUME ReaderInv, NEW next \in Overlays, TurnOverlay(next) PROVE ReaderInv'
<1>1. /\ ReaderOK /\ PendingOK /\ ScreenOK
      /\ pc = "event" /\ pc' = "service" /\ base' = base
      /\ Unseen /\ overlay' \in Overlays /\ redraw' = TRUE
      /\ Stop \/ UNCHANGED search
      /\ UNCHANGED <<docs, current, place, ledger, pending, notice>>
  BY DEF ReaderInv, TurnOverlay, Handled
<1>2. PageOK' /\ HistoryOK' /\ TabsOK'
  BY <1>1 DEF ReaderOK, PageOK, HistoryOK, TabsOK, ledger
<1>3. SearchOK'
  BY <1>1, StopKeeps, SameSearch
<1>4. notice' \in BOOLEAN
  BY <1>1 DEF ScreenOK
<1> QED
  BY <1>1, <1>2, <1>3, <1>4, PendingKept, EventScreen DEF ReaderInv, ReaderOK

LEMMA EditSearchStep ==
    ASSUME ReaderInv, EditSearch PROVE ReaderInv'
<1>1. /\ ReaderOK /\ PendingOK /\ ScreenOK
      /\ pc = "event" /\ pc' = "service" /\ base' = base
      /\ Unseen /\ overlay' \in Overlays /\ redraw' = TRUE
      /\ UNCHANGED <<docs, current, place, ledger, pending, notice>>
  BY DEF ReaderInv, EditSearch, Handled, Overlays
<1>2. PageOK' /\ HistoryOK' /\ TabsOK'
  BY <1>1 DEF ReaderOK, PageOK, HistoryOK, TabsOK, ledger
<1>3. SearchOK'
  <2>1. CASE scan' = 1 /\ hits' = {} /\ wanted' = FALSE /\ UNCHANGED scope
    BY <1>1, <2>1 DEF ReaderOK, SearchOK, HitsNameTheirDocument
  <2>2. CASE Stop
    BY <1>1, <2>2, StopKeeps
  <2> QED
    BY <2>1, <2>2 DEF EditSearch
<1>4. notice' \in BOOLEAN
  BY <1>1 DEF ScreenOK
<1> QED
  BY <1>1, <1>2, <1>3, <1>4, PendingKept, EventScreen DEF ReaderInv, ReaderOK

LEMMA HitStep ==
    ASSUME ReaderInv, GoToHit PROVE ReaderInv'
<1>1. /\ ReaderOK /\ PendingOK /\ ScreenOK
      /\ pc = "event" /\ pc' = "service" /\ base' = base
      /\ Unseen /\ overlay' \in Overlays /\ redraw' = TRUE
      /\ Fulfil(TRUE, FALSE)
      /\ UNCHANGED <<docs, scope, pending>>
  BY DEF ReaderInv, GoToHit, Handled, Overlays
<1>2. /\ PageOK' /\ HistoryOK' /\ TabsOK'
      /\ wanted' \in BOOLEAN /\ notice' \in BOOLEAN
  BY <1>1, FulfilKeeps
<1>3. SearchOK'
  <2>1. scan \in Nat
    BY <1>1 DEF ReaderOK, SearchOK
  <2>2. CASE LookOn(scan, hits)
    BY <1>1, <1>2, <2>1, <2>2, LookKeeps
  <2>3. CASE LookOn(1, {})
    BY <1>1, <1>2, <2>3, LookKeeps
  <2>4. CASE UNCHANGED <<scan, hits>>
    BY <1>1, <1>2, <2>4 DEF ReaderOK, SearchOK, HitsNameTheirDocument
  <2> QED
    BY <2>2, <2>3, <2>4 DEF GoToHit
<1> QED
  BY <1>1, <1>2, <1>3, PendingKept, EventScreen DEF ReaderInv, ReaderOK

-----------------------------------------------------------------------------
(* The loop. *)

LEMMA LoopScreen ==
    ASSUME ScreenOK, pc' \in {"loop", "service"}, Unseen, notice' \in BOOLEAN,
           overlay' \in Overlays,
           redraw' = TRUE \/ (redraw' = redraw /\ Shown' = Shown)
    PROVE  ScreenOK'
BY DEF ScreenOK, Unseen, ScreenShowsTheDocument

LEMMA NothingStep ==
    ASSUME ReaderInv, NothingToServe PROVE ReaderInv'
<1>1. /\ ReaderOK /\ PendingOK /\ ScreenOK
      /\ pc' = "loop" /\ Unseen /\ pending = Nil
      /\ UNCHANGED <<docs, current, place, ledger, search, base, pending,
                     overlay, notice, redraw>>
  BY DEF ReaderInv, NothingToServe
<1>2. ReaderOK'
  BY <1>1, NothingMoves DEF page
<1>3. PendingOK'
  BY <1>1 DEF PendingOK
<1>4. notice' \in BOOLEAN /\ overlay' \in Overlays /\ Shown' = Shown
  BY <1>1 DEF ScreenOK, Shown, ledger
<1> QED
  BY <1>1, <1>2, <1>3, <1>4, LoopScreen DEF ReaderInv

LEMMA FailStep ==
    ASSUME ReaderInv, OpenFails PROVE ReaderInv'
<1>1. /\ ReaderOK /\ PendingOK /\ ScreenOK
      /\ pc' = "loop" /\ Unseen /\ pending' = Nil /\ Refuse /\ redraw' = TRUE
      /\ UNCHANGED <<docs, base, overlay>>
  BY DEF ReaderInv, OpenFails
<1>2. ReaderOK'
  BY <1>1, RefuseKeeps
<1>3. PendingOK'
  BY <1>1 DEF PendingOK
<1>4. notice' \in BOOLEAN /\ overlay' \in Overlays
  BY <1>1 DEF ScreenOK, Refuse
<1> QED
  BY <1>1, <1>2, <1>3, <1>4, LoopScreen DEF ReaderInv

(* What the host was asked for leads where its history ends. *)
LEMMA AnswerLeads ==
    ASSUME ReaderInv, pending # Nil, NEW a \in Address,
           pending.to \in {a, ByName}
    PROVE  Leads(pending.direction, a)
BY DEF ReaderInv, PendingOK, Leads

LEMMA SucceedStep ==
    ASSUME ReaderInv, OpenSucceeds PROVE ReaderInv'
<1>1. /\ ReaderOK /\ PendingOK /\ ScreenOK
      /\ pc' = "loop" /\ Unseen /\ pending # Nil /\ pending' = Nil
      /\ redraw' = TRUE /\ base' = base
      /\ overlay' \in {overlay, "none"}
  BY DEF ReaderInv, OpenSucceeds
<1>2. PICK address \in Address, items \in Outlines :
          /\ pending.to \in {address, ByName}
          /\ CompleteLoaded(Len(docs) + 1,
                            [address |-> address, items |-> items],
                            pending.target, pending.direction)
  BY DEF OpenSucceeds
<1>3. Leads(pending.direction, address)
  BY <1>1, <1>2, AnswerLeads
<1>4. [address |-> address, items |-> items] \in Doc
  BY DEF Doc
<1>5. ReaderOK'
  BY <1>1, <1>2, <1>3, <1>4, CompleteKeeps
<1>6. PendingOK'
  BY <1>1 DEF PendingOK
<1>7. notice' \in BOOLEAN
  BY <1>2, CompleteNotice
<1>8. overlay' \in Overlays
  BY <1>1 DEF ScreenOK, Overlays
<1> QED
  BY <1>1, <1>5, <1>6, <1>7, <1>8, LoopScreen DEF ReaderInv

(* What a tick changes it either reports, or leaves as it is shown: a move *)
(* of a search is made by the step that gives up wanting it.               *)
LEMMA TickShows ==
    ASSUME ReaderOK, NEW reports \in BOOLEAN, Tick(reports), ~reports
    PROVE  Shown' = Shown
<1>1. CASE UNCHANGED <<current, place, ledger, search, notice>>
  BY <1>1 DEF Shown, ledger
<1>2. CASE /\ Fulfil(wanted, notice)
           /\ scan' \in DOMAIN scope /\ (wanted => wanted')
           /\ UNCHANGED scope
  <2>1. /\ wanted \in BOOLEAN
        /\ UNCHANGED <<current, place, ledger, notice>>
    BY <1>2 DEF Fulfil, ReaderOK, SearchOK
  <2> QED
    BY <2>1 DEF Shown, ledger
<1> QED
  BY <1>1, <1>2 DEF Tick

LEMMA TickKeeps ==
    ASSUME ReaderOK, notice \in BOOLEAN, NEW reports \in BOOLEAN,
           Tick(reports), UNCHANGED <<docs, base>>
    PROVE  ReaderOK' /\ notice' \in BOOLEAN
<1>1. CASE UNCHANGED <<current, place, ledger, search, notice>>
  BY <1>1, NothingMoves DEF page
<1>2. CASE /\ LookOn(scan, hits)
           /\ Fulfil(wanted, notice)
           /\ UNCHANGED scope
  <2>1. scan \in Nat /\ wanted \in BOOLEAN
    BY DEF ReaderOK, SearchOK
  <2>2. /\ PageOK' /\ HistoryOK' /\ TabsOK'
        /\ wanted' \in BOOLEAN /\ notice' \in BOOLEAN
    BY <1>2, <2>1, FulfilKeeps
  <2>3. SearchOK'
    BY <1>2, <2>1, <2>2, LookKeeps
  <2> QED
    BY <2>2, <2>3 DEF ReaderOK
<1>3. CASE /\ place' \in Landings(docs[current].items)
           /\ UNCHANGED <<current, ledger, search, notice>>
  <2>1. PageOK'
    BY <1>3, LandingsArePlaces DEF ReaderOK, PageOK
  <2>2. HistoryOK' /\ TabsOK'
    BY <1>3 DEF ReaderOK, HistoryOK, TabsOK, ledger
  <2>3. SearchOK'
    BY <1>3, SameSearch
  <2> QED
    BY <1>3, <2>1, <2>2, <2>3 DEF ReaderOK
<1> QED
  BY <1>1, <1>2, <1>3 DEF Tick

LEMMA TurnStep ==
    ASSUME ReaderInv, Turn PROVE ReaderInv'
<1>1. /\ ReaderOK /\ PendingOK /\ ScreenOK /\ pc = "loop"
      /\ pc' \in {"loop", "event"} /\ redraw' = FALSE
      /\ UNCHANGED <<docs, base, pending, overlay>>
  BY DEF ReaderInv, Turn
<1>2. PICK reports \in BOOLEAN :
        /\ Tick(reports)
        /\ IF redraw \/ reports THEN unseen' = {} ELSE Unseen
  BY DEF Turn
<1>3. ReaderOK' /\ notice' \in BOOLEAN
  BY <1>1, <1>2, TickKeeps DEF ScreenOK
<1>4. PendingOK'
  BY <1>1 DEF PendingOK
<1>5. "page" \notin unseen' /\ unseen' \subseteq {"page", "overlay"}
  <2>1. CASE redraw \/ reports
    BY <1>2, <2>1
  <2>2. CASE ~redraw /\ ~reports
    <3>1. Shown' = Shown
      BY <1>1, <1>2, <2>2, TickShows
    <3> QED
      BY <1>1, <1>2, <2>2, <3>1 DEF Unseen, ScreenOK
  <2> QED
    BY <2>1, <2>2
<1>6. ScreenOK'
  BY <1>1, <1>3, <1>5 DEF ScreenOK, ScreenShowsTheDocument
<1> QED
  BY <1>3, <1>4, <1>6 DEF ReaderInv

LEMMA InitInv == Init => ReaderInv
<1> SUFFICES ASSUME Init PROVE ReaderInv
  OBVIOUS
<1>1. docs \in Scopes /\ docs \in Seq(Doc) /\ docs # <<>>
  BY NavigationAssumption DEF Init, Doc
<1>2. 1 \in DOMAIN docs /\ Len(docs) \in Nat \ {0} /\ DOMAIN docs = 1 .. Len(docs)
  BY <1>1, EmptySeq
<1>3. docs[1].items \in Outlines
  BY <1>1, <1>2, DocType
<1>4. PageOK
  BY <1>1, <1>2, <1>3, PlacesType DEF Init, PageOK
<1>5. At(docs[1].address, Default, 1) \in PlaceOf(docs)
  BY <1>1, <1>2, <1>3, PlacesType, PlaceHere
<1>6. HistoryOK
  BY NavigationAssumption DEF Init, HistoryOK
<1>7. TabsOK
  <2> DEFINE e == At(docs[1].address, Default, 1)
  <2>1. tabs = <<e>> /\ activeTab = 1 /\ current = 1 /\ e.origin = 1
    BY DEF Init, At
  <2>2. /\ e \in PlaceOf(docs) /\ HistoryLimit \in Nat \ {0}
    BY <1>5, NavigationAssumption
  <2> HIDE DEF e
  <2> QED
    BY <2>1, <2>2 DEF TabsOK
<1>8. SearchOK
  <2>1. scope = [i \in 1 .. Len(docs) |-> i]
    BY <1>2 DEF Init
  <2>2. scope \in Seq(DOMAIN docs) /\ Len(scope) = Len(docs)
    BY <1>2, <2>1
  <2>3. base = Len(docs) /\ scan = 0 /\ hits = {}
    BY DEF Init
  <2>4. wanted \in BOOLEAN
    BY DEF Init
  <2>5. base \in 1 .. Len(scope) /\ scan \in Nat /\ hits \subseteq Nat \X Nat
    BY <1>2, <2>2, <2>3
  <2>6. HitsNameTheirDocument
    BY <2>3 DEF HitsNameTheirDocument
  <2> QED
    BY <2>2, <2>4, <2>5, <2>6 DEF SearchOK
<1>9. PendingOK
  BY DEF Init, PendingOK
<1>10. ScreenOK
  BY DEF Init, ScreenOK, Overlays, ScreenShowsTheDocument
<1> QED
  BY <1>4, <1>6, <1>7, <1>8, <1>9, <1>10 DEF ReaderInv, ReaderOK

LEMMA NextInv == ReaderInv /\ [Next]_vars => ReaderInv'
<1> SUFFICES ASSUME ReaderInv, [Next]_vars PROVE ReaderInv'
  OBVIOUS
<1>1. CASE Event
  <2>1. CASE FollowLink
    BY <2>1, FollowStep
  <2>2. CASE PickDocument
    BY <2>2, PickStep
  <2>3. CASE Back
    BY <2>3, NavigateStep DEF Back
  <2>4. CASE Forward
    BY <2>4, NavigateStep DEF Forward
  <2>5. CASE \E i \in 1 .. HistoryLimit : PressTab(i)
    BY <2>5, PressStep
  <2>6. CASE Read
    BY <2>6, ReadStep
  <2>7. CASE \E next \in Overlays : TurnOverlay(next)
    BY <2>7, OverlayStep
  <2>8. CASE EditSearch
    BY <2>8, EditSearchStep
  <2>9. CASE GoToHit
    BY <2>9, HitStep
  <2> QED
    BY <1>1, <2>1, <2>2, <2>3, <2>4, <2>5, <2>6, <2>7, <2>8, <2>9 DEF Event
<1>2. CASE NothingToServe
  BY <1>2, NothingStep
<1>3. CASE OpenFails
  BY <1>3, FailStep
<1>4. CASE OpenSucceeds
  BY <1>4, SucceedStep
<1>5. CASE Turn
  BY <1>5, TurnStep
<1>6. CASE UNCHANGED vars
  <2>1. UNCHANGED page
    BY <1>6 DEF vars, page
  <2>2. ReaderOK'
    BY <2>1, NothingMoves DEF ReaderInv
  <2>3. PendingOK'
    BY <1>6 DEF ReaderInv, PendingOK, Leads, vars, ledger
  <2>4. ScreenOK'
    BY <1>6 DEF ReaderInv, ScreenOK, ScreenShowsTheDocument, vars
  <2> QED
    BY <2>2, <2>3, <2>4 DEF ReaderInv
<1> QED
  BY <1>1, <1>2, <1>3, <1>4, <1>5, <1>6 DEF Next

(* The reader keeps its ledger good in every step. *)
THEOREM ReaderInvariant == Spec => []ReaderInv
BY InitInv, NextInv, PTL DEF Spec

-----------------------------------------------------------------------------
(* What follows from it. *)

LEMMA InvTypes == ReaderInv => TypeOK
<1> SUFFICES ASSUME ReaderInv PROVE TypeOK
  OBVIOUS
<1>1. PageOK /\ HistoryOK /\ TabsOK /\ SearchOK /\ PendingOK /\ ScreenOK
  BY DEF ReaderInv, ReaderOK
<1>2. PlaceOf(docs) \subseteq Location
  BY DEF PlaceOf
<1>3. back \in Seq(Location) /\ forward \in Seq(Location) /\ tabs \in Seq(Location)
  BY <1>1, <1>2, SeqMonotonic DEF HistoryOK, TabsOK
<1>4. docs \in Seq([address : Address \cup {Nil}, items : Outlines])
      /\ current \in DOMAIN docs
  BY <1>1 DEF PageOK, Doc
<1>5. place \in Target \cup {Default}
  BY <1>1, DocType, PlacesType DEF PageOK
<1>6. scope \in Seq(Nat)
  <2>1. DOMAIN docs \subseteq Nat
    BY <1>1 DEF PageOK
  <2> QED
    BY <1>1, <2>1, SeqMonotonic DEF SearchOK
<1>7. /\ activeTab \in DOMAIN tabs
      /\ base \in 1 .. Len(scope) /\ scan \in Nat
      /\ hits \subseteq Nat \X Nat /\ wanted \in BOOLEAN
  BY <1>1 DEF TabsOK, SearchOK
<1>8. pending = Nil \/ pending \in Request
  BY <1>1 DEF PendingOK
<1>9. /\ overlay \in Overlays
      /\ notice \in BOOLEAN /\ redraw \in BOOLEAN
      /\ unseen \subseteq {"page", "overlay"}
      /\ pc \in {"loop", "event", "service"}
  BY <1>1 DEF ScreenOK
<1> QED
  BY <1>3, <1>4, <1>5, <1>6, <1>7, <1>8, <1>9 DEF TypeOK, Request

(* Every variable of the reader has its type. *)
THEOREM TypeCorrect == Spec => []TypeOK
BY ReaderInvariant, InvTypes, PTL

LEMMA InvPlaces == ReaderInv => PlacesAreOfTheirSnapshot
<1> SUFFICES ASSUME ReaderInv PROVE PlacesAreOfTheirSnapshot
  OBVIOUS
<1>1. PageOK /\ HistoryOK /\ TabsOK
  BY DEF ReaderInv, ReaderOK
<1>2. \A S, history : history \in Seq(S) => Locations(history) \subseteq S
  BY DEF Locations
<1>3. Locations(back) \cup Locations(forward) \cup Locations(tabs)
        \subseteq PlaceOf(docs)
  BY <1>1, <1>2 DEF HistoryOK, TabsOK
<1> QED
  BY <1>1, <1>3 DEF PageOK, PlaceOf, PlacesAreOfTheirSnapshot

(* Whatever is remembered of a snapshot is a place of that snapshot: a     *)
(* Back inside the open document and a tab come back to land on something. *)
THEOREM PlacesStay == Spec => []PlacesAreOfTheirSnapshot
BY ReaderInvariant, InvPlaces, PTL

LEMMA InvTab == ReaderInv => TheActiveTabIsCurrent
BY DEF ReaderInv, ReaderOK, TabsOK, TheActiveTabIsCurrent

(* One tab per address, the active one that of the open document, also     *)
(* when the oldest tab was dropped at the limit.                           *)
THEOREM OneTabPerAddress == Spec => []TheActiveTabIsCurrent
BY ReaderInvariant, InvTab, PTL

LEMMA InvHistories == ReaderInv => HistoriesShareTheLimit
BY DEF ReaderInv, ReaderOK, HistoryOK, HistoriesShareTheLimit

(* Back and Forward together never outgrow one history: moving a location  *)
(* to the other side never drops one there.                                *)
THEOREM HistoriesFit == Spec => []HistoriesShareTheLimit
BY ReaderInvariant, InvHistories, PTL

LEMMA InvHits == ReaderInv => HitsNameTheirDocument
BY DEF ReaderInv, ReaderOK, SearchOK

(* A search result names the snapshot it was found in.                     *)
THEOREM HitsStayTrue == Spec => []HitsNameTheirDocument
BY ReaderInvariant, InvHits, PTL

LEMMA InvScreen == ReaderInv => ScreenShowsTheDocument
BY DEF ReaderInv, ScreenOK

(* While the loop waits for an event, the screen shows the document the    *)
(* event will act on.                                                      *)
THEOREM ScreenIsTrue == Spec => []ScreenShowsTheDocument
BY ReaderInvariant, InvScreen, PTL

-----------------------------------------------------------------------------
(* What a step may do to the past and to what lies ahead. *)

LEMMA RefusalStep ==
    ASSUME ReaderInv, [Next]_vars, pending # Nil, pending' = Nil, docs' = docs
    PROVE  notice' /\ UNCHANGED <<current, place, ledger, scope>>
<1>1. pc = "service" /\ PageOK
  BY DEF ReaderInv, PendingOK, ReaderOK
<1>2. CASE OpenFails
  BY <1>2 DEF OpenFails, Refuse, search
<1>3. CASE OpenSucceeds
  <2>1. PICK address \in Address, items \in Outlines :
          CompleteLoaded(Len(docs) + 1,
                         [address |-> address, items |-> items],
                         pending.target, pending.direction)
    BY <1>3 DEF OpenSucceeds
  <2> DEFINE doc == [address |-> address, items |-> items]
  <2>2. doc \in Doc
    BY DEF Doc
  <2>3. Append(docs, doc) # docs /\ Len(docs) + 1 \notin DOMAIN docs
    BY <1>1, <2>2, OneMore DEF PageOK
  <2>4. Refuse
    BY <2>1, <2>3 DEF CompleteLoaded
  <2> QED
    BY <2>4 DEF Refuse, search
<1>4. CASE Turn \/ UNCHANGED vars
  BY <1>4 DEF Turn, vars
<1>5. ~Event
  BY <1>1 DEF Event, FollowLink, PickDocument, Back, Forward, Navigate,
     PressTab, Read, TurnOverlay, EditSearch, GoToHit, Handled
<1>6. ~NothingToServe
  BY DEF NothingToServe
<1> QED
  BY <1>2, <1>3, <1>4, <1>5, <1>6 DEF Next

(* An open that fails, or whose document lacks the place, changes nothing  *)
(* but the status line.                                                    *)
THEOREM RefusalsAreHarmless == Spec => RefusalsChangeNothing
BY ReaderInvariant, RefusalStep, PTL DEF Spec, RefusalsChangeNothing

(* The timeline of two histories around an address. *)
Around(before, address, after) ==
    Addresses(before) \o <<address>> \o Reversed(Addresses(after))

Known == Address \cup {Nil}

LEMMA AddressesType ==
    ASSUME NEW history \in Seq(Location)
    PROVE  /\ Addresses(history) \in Seq(Known)
           /\ Len(Addresses(history)) = Len(history)
           /\ \A i \in 1 .. Len(history) : Addresses(history)[i] = history[i].address
<1>1. DOMAIN history = 1 .. Len(history) /\ Len(history) \in Nat
  OBVIOUS
<1>0. \A i \in 1 .. Len(history) : history[i] \in Location
  BY <1>1
<1>2. \A i \in 1 .. Len(history) : history[i].address \in Known
  BY <1>0 DEF Location, Known
<1>3. Addresses(history) = [i \in 1 .. Len(history) |-> history[i].address]
  BY <1>1 DEF Addresses
<1> QED
  BY <1>1, <1>2, <1>3

LEMMA ReversedType ==
    ASSUME NEW S, NEW seq \in Seq(S)
    PROVE  /\ Reversed(seq) \in Seq(S)
           /\ Len(Reversed(seq)) = Len(seq)
           /\ \A i \in 1 .. Len(seq) : Reversed(seq)[i] = seq[Len(seq) + 1 - i]
<1>1. DOMAIN seq = 1 .. Len(seq) /\ Len(seq) \in Nat
  OBVIOUS
<1>2. Reversed(seq) = [i \in 1 .. Len(seq) |-> seq[Len(seq) + 1 - i]]
  BY <1>1 DEF Reversed
<1>3. \A i \in 1 .. Len(seq) : seq[Len(seq) + 1 - i] \in S
  BY <1>1
<1> QED
  BY <1>1, <1>2, <1>3

(* What a sequence must be to be Around(before, address, after). *)
IsAround(s, before, address, after) ==
    /\ s \in Seq(Known) /\ Len(s) = Len(before) + 1 + Len(after)
    /\ \A i \in 1 .. Len(before) + 1 + Len(after) :
         s[i] = IF i <= Len(before) THEN before[i].address
                ELSE IF i = Len(before) + 1 THEN address
                ELSE after[Len(before) + 2 + Len(after) - i].address

LEMMA AroundType ==
    ASSUME NEW before \in Seq(Location), NEW after \in Seq(Location),
           NEW address \in Known
    PROVE  /\ Around(before, address, after) \in Seq(Known)
           /\ Len(Around(before, address, after)) = Len(before) + 1 + Len(after)
           /\ \A i \in 1 .. Len(before) + 1 + Len(after) :
                Around(before, address, after)[i] =
                  IF i <= Len(before) THEN before[i].address
                  ELSE IF i = Len(before) + 1 THEN address
                  ELSE after[Len(before) + 2 + Len(after) - i].address
<1> DEFINE b == Addresses(before)
           r == Reversed(Addresses(after))
           m == b \o <<address>>
<1>0. Len(before) \in Nat /\ Len(after) \in Nat
  OBVIOUS
<1>1. /\ b \in Seq(Known) /\ Len(b) = Len(before)
      /\ \A i \in 1 .. Len(before) : b[i] = before[i].address
  BY AddressesType
<1>2. /\ r \in Seq(Known) /\ Len(r) = Len(after)
      /\ \A i \in 1 .. Len(after) : r[i] = after[Len(after) + 1 - i].address
  <2>1. /\ Addresses(after) \in Seq(Known) /\ Len(Addresses(after)) = Len(after)
        /\ \A i \in 1 .. Len(after) : Addresses(after)[i] = after[i].address
    BY AddressesType
  <2>2. /\ r \in Seq(Known) /\ Len(r) = Len(after)
        /\ \A i \in 1 .. Len(after) : r[i] = Addresses(after)[Len(after) + 1 - i]
    BY <2>1, ReversedType
  <2>3. \A i \in 1 .. Len(after) : Len(after) + 1 - i \in 1 .. Len(after)
    BY <1>0
  <2> QED
    BY <2>1, <2>2, <2>3
<1>3. /\ <<address>> \in Seq(Known) /\ Len(<<address>>) = 1
      /\ <<address>>[1] = address
  OBVIOUS
<1> HIDE DEF b, r
<1>4. /\ m \in Seq(Known) /\ Len(m) = Len(before) + 1
      /\ \A i \in 1 .. Len(before) + 1 :
            m[i] = IF i <= Len(before) THEN before[i].address ELSE address
  <2>1. /\ m \in Seq(Known) /\ Len(m) = Len(b) + 1
        /\ \A i \in 1 .. Len(b) + 1 :
              m[i] = IF i <= Len(b) THEN b[i] ELSE <<address>>[i - Len(b)]
    BY <1>1, <1>3, ConcatProperties
  <2>2. \A i \in 1 .. Len(before) + 1 : i > Len(before) => i - Len(before) = 1
    BY <1>0
  <2> QED
    BY <1>0, <1>1, <1>3, <2>1, <2>2
<1> HIDE DEF m
<1>5. /\ m \o r \in Seq(Known) /\ Len(m \o r) = Len(m) + Len(r)
      /\ \A i \in 1 .. Len(m) + Len(r) :
            (m \o r)[i] = IF i <= Len(m) THEN m[i] ELSE r[i - Len(m)]
  BY <1>2, <1>4, ConcatProperties
<1>6. Around(before, address, after) = m \o r
  BY DEF Around, m, b, r
<1>7. ASSUME NEW i \in 1 .. Len(before) + 1 + Len(after)
      PROVE  (m \o r)[i] =
                  IF i <= Len(before) THEN before[i].address
                  ELSE IF i = Len(before) + 1 THEN address
                  ELSE after[Len(before) + 2 + Len(after) - i].address
  <2>1. CASE i <= Len(before) + 1
    BY <2>1, <1>0, <1>2, <1>4, <1>5
  <2>2. CASE i > Len(before) + 1
    <3>0. i \in Nat /\ i <= Len(before) + 1 + Len(after) /\ Len(m) = Len(before) + 1
      BY <1>0, <1>4
    <3>1. PICK j \in 1 .. Len(after) : j = i - Len(m)
      <4>1. i - Len(m) \in 1 .. Len(after)
        BY <2>2, <1>0, <3>0
      <4> QED
        BY <4>1
    <3>2. Len(after) + 1 - j = Len(before) + 2 + Len(after) - i
      BY <3>1, <1>0, <1>4
    <3>3. i \in 1 .. Len(m) + Len(r) /\ ~(i <= Len(m))
      BY <2>2, <1>0, <1>2, <1>4
    <3>4. (m \o r)[i] = r[j]
      BY <3>1, <3>3, <1>5
    <3>5. r[j] = after[Len(after) + 1 - j].address
      BY <1>2
    <3>6. ~(i <= Len(before)) /\ i # Len(before) + 1
      BY <2>2, <1>0
    <3> QED
      BY <3>2, <3>4, <3>5, <3>6
  <2>3. i \in Int /\ Len(before) \in Int
    BY <1>0
  <2>4. i <= Len(before) + 1 \/ i > Len(before) + 1
    BY <2>3
  <2> QED
    BY <2>1, <2>2, <2>4
<1>8. Len(m \o r) = Len(before) + 1 + Len(after)
  BY <1>2, <1>4, <1>5
<1> QED
  BY <1>5, <1>6, <1>7, <1>8

(* Moving one location over the address leaves the timeline alone. *)
LEMMA OneStep ==
    ASSUME NEW before \in Seq(Location), before # <<>>,
           NEW after \in Seq(Location), NEW here \in Location
    PROVE  Around(before, here.address, after)
             = Around(Pop(before), before[Len(before)].address, Append(after, here))
<1> DEFINE to == before[Len(before)].address
           n == Len(before)
           k == Len(after)
           next == Append(after, here)
           rest == Pop(before)
           x == Around(before, here.address, after)
           y == Around(rest, to, next)
<1>1. /\ n \in Nat \ {0} /\ k \in Nat
      /\ rest \in Seq(Location) /\ Len(rest) = n - 1
      /\ \A i \in 1 .. n - 1 : rest[i] = before[i]
      /\ before[n] \in Location
  BY PopType
<1>2. /\ next \in Seq(Location) /\ Len(next) = k + 1
      /\ \A i \in 1 .. k : next[i] = after[i]
      /\ next[k + 1] = here
  BY AppendProperties
<1>3. to \in Known /\ here.address \in Known
  BY <1>1 DEF Location, Known
<1>4. /\ x \in Seq(Known) /\ Len(x) = n + 1 + k
      /\ \A i \in 1 .. n + 1 + k :
            x[i] = IF i <= n THEN before[i].address
                   ELSE IF i = n + 1 THEN here.address
                   ELSE after[n + 2 + k - i].address
  BY <1>3, AroundType
<1> HIDE DEF next, to, rest, x
<1>5. /\ y \in Seq(Known) /\ Len(y) = Len(rest) + 1 + Len(next)
      /\ \A i \in 1 .. Len(rest) + 1 + Len(next) :
            y[i] = IF i <= Len(rest) THEN rest[i].address
                   ELSE IF i = Len(rest) + 1 THEN to
                   ELSE next[Len(rest) + 2 + Len(next) - i].address
  <2>1. rest \in Seq(Location) /\ next \in Seq(Location) /\ to \in Known
    BY <1>1, <1>2, <1>3
  <2>2. \A b, a \in Seq(Location), c \in Known : IsAround(Around(b, c, a), b, c, a)
    BY AroundType DEF IsAround
  <2>3. IsAround(y, rest, to, next)
    BY <2>1, <2>2
  <2> HIDE DEF y
  <2> QED
    BY <2>3 DEF IsAround
<1> HIDE DEF y, n, k
<1>6. /\ Len(rest) + 1 + Len(next) = n + 1 + k
      /\ Len(rest) + 1 = n
      /\ \A i \in 1 .. n + 1 + k : Len(rest) + 2 + Len(next) - i = n + 2 + k - i
  BY <1>1, <1>2
<1>9. \A i \in 1 .. n + 1 + k :
         y[i] = IF i <= n - 1 THEN rest[i].address
                ELSE IF i = n THEN to
                ELSE next[n + 2 + k - i].address
  BY <1>1, <1>5, <1>6
<1>7. ASSUME NEW i \in 1 .. n + 1 + k PROVE x[i] = y[i]
  <2>1. CASE i <= n - 1
    <3>1. i \in 1 .. n - 1 /\ i <= n
      BY <2>1, <1>1
    <3>2. rest[i] = before[i]
      BY <3>1, <1>1
    <3>3. x[i] = before[i].address /\ y[i] = rest[i].address
      BY <2>1, <3>1, <1>4, <1>9
    <3> QED
      BY <3>2, <3>3
  <2>2. CASE i = n
    BY <2>2, <1>1, <1>4, <1>9 DEF to, n
  <2>3. CASE i = n + 1
    <3>1. n + 2 + k - i = k + 1 /\ ~(i <= n - 1) /\ i # n /\ ~(i <= n)
      BY <2>3, <1>1
    <3>2. y[i] = next[k + 1].address
      BY <3>1, <1>9
    <3> QED
      BY <2>3, <3>1, <3>2, <1>2, <1>4
  <2>4. CASE i > n + 1
    <3>1. PICK j \in 1 .. k : j = n + 2 + k - i
      BY <2>4, <1>1
    <3>3. ~(i <= n - 1) /\ i # n /\ ~(i <= n) /\ i # n + 1
      BY <2>4, <1>1
    <3>2. y[i] = next[j].address /\ x[i] = after[j].address
      BY <3>1, <3>3, <1>4, <1>9
    <3> QED
      BY <3>1, <3>2, <1>2
  <2>5. i \in Int /\ n \in Int
    BY <1>1
  <2>6. i <= n - 1 \/ i = n \/ i = n + 1 \/ i > n + 1
    BY <2>5
  <2> QED
    BY <2>1, <2>2, <2>3, <2>4, <2>6
<1>8. x = y
  <2>1. Len(x) = n + 1 + k /\ Len(y) = n + 1 + k
    BY <1>4, <1>5, <1>6
  <2>2. \A i \in 1 .. Len(x) : x[i] = y[i]
    BY <1>7, <2>1
  <2> QED
    BY <1>4, <1>5, <2>1, <2>2, SeqEqual
<1> QED
  BY <1>8 DEF x, y, to, n, next, rest

(* The same step in the other direction. *)
LEMMA OneStepAhead ==
    ASSUME NEW before \in Seq(Location), NEW after \in Seq(Location),
           after # <<>>, NEW here \in Location
    PROVE  Around(before, here.address, after)
             = Around(Append(before, here), after[Len(after)].address, Pop(after))
<1> DEFINE b == Append(before, here)
           p == Pop(after)
           to == after[Len(after)]
           n == Len(before)
           k == Len(after)
<1>1. /\ n \in Nat /\ k \in Nat \ {0}
      /\ p \in Seq(Location) /\ Len(p) = k - 1 /\ to \in Location
      /\ \A i \in 1 .. k - 1 : p[i] = after[i]
  BY PopType
<1>2. /\ b \in Seq(Location) /\ b # <<>> /\ Len(b) = n + 1
      /\ \A i \in 1 .. n : b[i] = before[i]
      /\ b[n + 1] = here
  BY AppendProperties
<1> HIDE DEF b, p, n, k
<1>3. Around(b, to.address, p) = Around(Pop(b), b[Len(b)].address, Append(p, to))
  BY <1>1, <1>2, OneStep
<1>4. Pop(b) = before
  <2>1. /\ Pop(b) \in Seq(Location) /\ Len(Pop(b)) = Len(b) - 1
        /\ \A i \in 1 .. Len(b) - 1 : Pop(b)[i] = b[i]
    BY <1>2, PopType
  <2>2. Len(b) - 1 = n
    BY <1>1, <1>2
  <2>3. \A i \in 1 .. Len(Pop(b)) : Pop(b)[i] = before[i]
    BY <2>1, <2>2, <1>2
  <2> QED
    BY <2>1, <2>2, <2>3, SeqEqual DEF n
<1>5. Append(p, to) = after
  <2> DEFINE q == Append(p, to)
  <2>1. /\ q \in Seq(Location) /\ Len(q) = Len(p) + 1
        /\ \A i \in 1 .. Len(p) : q[i] = p[i]
        /\ q[Len(p) + 1] = to
    BY <1>1, AppendProperties
  <2> HIDE DEF q
  <2>2. Len(q) = k /\ q[k] = to /\ \A i \in 1 .. k - 1 : q[i] = after[i]
    BY <1>1, <2>1
  <2>3. ASSUME NEW i \in 1 .. k PROVE q[i] = after[i]
    <3>1. i \in 1 .. k - 1 \/ i = k
      BY <1>1
    <3> QED
      BY <2>2, <3>1 DEF k
  <2>4. q = after
    BY <2>1, <2>2, <2>3, SeqEqual DEF k
  <2> QED
    BY <2>4 DEF q
<1>6. b[Len(b)] = here
  BY <1>2
<1>7. Around(b, to.address, p) = Around(before, here.address, after)
  BY <1>3, <1>4, <1>5, <1>6
<1> QED
  BY <1>7 DEF b, p

(* The past, and the past without its oldest entry. *)
LEMMA PushedPast ==
    ASSUME NEW history \in Seq(Location), NEW here \in Location,
           Len(history) <= HistoryLimit
    PROVE  \/ Addresses(Push(history, here)) = Addresses(history) \o <<here.address>>
           \/ /\ Addresses(Push(history, here))
                   = Tail(Addresses(history) \o <<here.address>>)
              /\ Len(history) = HistoryLimit
<1> DEFINE n == Len(history)
           a == Addresses(history)
           p == a \o <<here.address>>
           h == Push(history, here)
<1>1. n \in Nat /\ HistoryLimit \in Nat \ {0} /\ here.address \in Known
  BY NavigationAssumption DEF Location, Known
<1>2. /\ a \in Seq(Known) /\ Len(a) = n
      /\ \A i \in 1 .. n : a[i] = history[i].address
  BY AddressesType
<1>3. /\ p \in Seq(Known) /\ Len(p) = n + 1
      /\ \A i \in 1 .. n : p[i] = history[i].address
      /\ p[n + 1] = here.address
  <2>1. /\ <<here.address>> \in Seq(Known) /\ Len(<<here.address>>) = 1
        /\ <<here.address>>[1] = here.address
    BY <1>1
  <2> HIDE DEF a, n
  <2>2. /\ p \in Seq(Known) /\ Len(p) = Len(a) + Len(<<here.address>>)
        /\ \A i \in 1 .. Len(a) + Len(<<here.address>>) :
              p[i] = IF i <= Len(a) THEN a[i] ELSE <<here.address>>[i - Len(a)]
    BY <1>2, <2>1, ConcatProperties
  <2>3. n + 1 - n = 1 /\ n + 1 \in 1 .. n + 1 /\ ~(n + 1 <= n)
    BY <1>1
  <2>4. Len(p) = n + 1 /\ \A i \in 1 .. n + 1 :
              p[i] = IF i <= n THEN a[i] ELSE <<here.address>>[i - n]
    BY <2>1, <2>2, <1>2
  <2>5. p[n + 1] = here.address
    BY <2>1, <2>3, <2>4
  <2>6. \A i \in 1 .. n : p[i] = a[i]
    BY <2>4, <1>1
  <2> QED
    BY <1>2, <2>2, <2>4, <2>5, <2>6
<1>4. CASE n # HistoryLimit
  <2>1. h = Append(history, here)
    BY <1>4 DEF Push
  <2>2. /\ h \in Seq(Location) /\ Len(h) = n + 1
        /\ \A i \in 1 .. n : h[i] = history[i]
        /\ h[n + 1] = here
    BY <2>1, AppendProperties
  <2> HIDE DEF h, p, a, n
  <2>3. /\ Addresses(h) \in Seq(Known) /\ Len(Addresses(h)) = n + 1
        /\ \A i \in 1 .. n + 1 : Addresses(h)[i] = h[i].address
    BY <2>2, AddressesType
  <2>4. ASSUME NEW i \in 1 .. n + 1 PROVE Addresses(h)[i] = p[i]
    <3>1. i \in 1 .. n \/ i = n + 1
      BY <1>1
    <3>2. Addresses(h)[i] = h[i].address
      BY <2>3
    <3> QED
      BY <3>1, <3>2, <2>2, <1>3
  <2>5. Addresses(h) = p
    <3>1. Len(p) = Len(Addresses(h))
      BY <1>3, <2>3
    <3>2. \A i \in 1 .. Len(Addresses(h)) : Addresses(h)[i] = p[i]
      BY <2>3, <2>4
    <3> QED
      BY <1>3, <2>3, <3>1, <3>2, SeqEqual
  <2> QED
    BY <2>5 DEF h, p, a
<1>5. CASE n = HistoryLimit
  <2>1. h = Append(Tail(history), here) /\ history # <<>>
    BY <1>1, <1>5 DEF Push
  <2>2. /\ Tail(history) \in Seq(Location) /\ Len(Tail(history)) = n - 1
        /\ \A i \in 1 .. Len(Tail(history)) : Tail(history)[i] = history[i + 1]
    BY <2>1, HeadTailProperties
  <2> DEFINE t == Tail(history)
  <2> HIDE DEF t
  <2>3. /\ t \in Seq(Location) /\ Len(t) = n - 1
        /\ \A i \in 1 .. n - 1 : t[i] = history[i + 1]
    BY <2>2 DEF t
  <2>4. h = Append(t, here)
    BY <2>1 DEF t
  <2>5. /\ h \in Seq(Location) /\ Len(h) = Len(t) + 1
        /\ \A i \in 1 .. Len(t) : h[i] = t[i]
        /\ h[Len(t) + 1] = here
    BY <2>3, <2>4, AppendProperties
  <2> HIDE DEF h, p, a, n
  <2>6. /\ Len(h) = n /\ \A i \in 1 .. n - 1 : h[i] = history[i + 1]
        /\ h[n] = here
    BY <2>3, <2>5, <1>1
  <2>7. /\ Addresses(h) \in Seq(Known) /\ Len(Addresses(h)) = n
        /\ \A i \in 1 .. n : Addresses(h)[i] = h[i].address
    BY <2>5, <2>6, AddressesType
  <2>8. p # <<>>
    BY <1>1, <1>3
  <2>9. /\ Tail(p) \in Seq(Known) /\ Len(Tail(p)) = n
        /\ \A i \in 1 .. n : Tail(p)[i] = p[i + 1]
    <3>1. /\ Tail(p) \in Seq(Known) /\ Len(Tail(p)) = Len(p) - 1
          /\ \A i \in 1 .. Len(Tail(p)) : Tail(p)[i] = p[i + 1]
      BY <1>3, <2>8, HeadTailProperties
    <3>2. Len(p) - 1 = n
      BY <1>1, <1>3
    <3> QED
      BY <3>1, <3>2
  <2>10. ASSUME NEW i \in 1 .. n PROVE Addresses(h)[i] = Tail(p)[i]
    <3>1. Addresses(h)[i] = h[i].address /\ Tail(p)[i] = p[i + 1]
      BY <2>7, <2>9
    <3>2. CASE i = n
      BY <3>1, <3>2, <2>6, <1>3
    <3>3. CASE i # n
      <4>1. i \in 1 .. n - 1 /\ i + 1 \in 1 .. n
        BY <3>3, <1>1
      <4> QED
        BY <3>1, <4>1, <2>6, <1>3
    <3> QED
      BY <3>2, <3>3
  <2>11. Addresses(h) = Tail(p)
    <3>1. Len(Tail(p)) = Len(Addresses(h))
      BY <2>7, <2>9
    <3>2. \A i \in 1 .. Len(Addresses(h)) : Addresses(h)[i] = Tail(p)[i]
      BY <2>7, <2>10
    <3> QED
      BY <2>7, <2>9, <3>1, <3>2, SeqEqual
  <2> QED
    BY <2>11, <1>5 DEF h, p, a, n
<1> QED
  BY <1>4, <1>5

OnlyGoesOn ==
    \/ Timeline' = Timeline
    \/ /\ forward' = <<>>
       /\ \/ Addresses(back)' = Past
          \/ Addresses(back)' = Tail(Past) /\ Len(back) = HistoryLimit

(* A commit moves along the timeline or goes on from here. *)
LEMMA CommitGoesOn ==
    ASSUME ReaderOK, NEW direction, Commit(direction),
           Leads(direction, docs'[current'].address)
    PROVE  OnlyGoesOn
<1> DEFINE a == docs'[current'].address
<1>1. /\ back \in Seq(Location) /\ forward \in Seq(Location)
      /\ Len(back) + Len(forward) <= HistoryLimit
      /\ Len(back) \in Nat /\ Len(forward) \in Nat
      /\ HistoryLimit \in Nat \ {0}
  <2>1. PlaceOf(docs) \subseteq Location
    BY DEF PlaceOf
  <2> QED
    BY <2>1, SeqMonotonic, NavigationAssumption DEF ReaderOK, HistoryOK
<1>2. Here \in Location /\ Here.address = docs[current].address
  <2>1. Here \in PlaceOf(docs)
    BY PlaceHere DEF ReaderOK, PageOK, Here
  <2> QED
    BY <2>1 DEF PlaceOf, Here, At
<1>3. Timeline = Around(back, Here.address, forward)
  BY <1>2 DEF Timeline, Around
<1>4. Timeline' = Around(back', a, forward')
  BY DEF Timeline, Around, Addresses, Reversed
<1>5. Addresses(back)' = Addresses(back')
  BY DEF Addresses
<1>6. Past = Addresses(back) \o <<Here.address>>
  BY <1>2 DEF Past
<1>7. CASE direction = "New"
  <2>1. back' = Push(back, Here) /\ forward' = <<>>
    BY <1>7 DEF Commit
  <2>2. Len(back) <= HistoryLimit
    BY <1>1
  <2>3. \/ Addresses(back') = Addresses(back) \o <<Here.address>>
        \/ /\ Addresses(back') = Tail(Addresses(back) \o <<Here.address>>)
           /\ Len(back) = HistoryLimit
    BY <2>1, <2>2, <1>1, <1>2, PushedPast
  <2> QED
    BY <2>1, <2>3, <1>5, <1>6 DEF OnlyGoesOn
<1>8. CASE direction = "Back"
  <2>1. back' = Pop(back) /\ forward' = Push(forward, Here) /\ back # <<>>
        /\ a = back[Len(back)].address
    BY <1>8 DEF Commit, Leads
  <2>2. Len(forward) < HistoryLimit
    BY <2>1, <1>1, EmptySeq
  <2>3. forward' = Append(forward, Here)
    BY <2>1, <2>2 DEF Push
  <2> QED
    BY <2>1, <2>3, <1>1, <1>2, <1>3, <1>4, OneStep DEF OnlyGoesOn
<1>9. CASE direction = "Forward"
  <2>1. forward' = Pop(forward) /\ back' = Push(back, Here) /\ forward # <<>>
        /\ a = forward[Len(forward)].address
    BY <1>9 DEF Commit, Leads
  <2>2. Len(back) < HistoryLimit
    BY <2>1, <1>1, EmptySeq
  <2>3. back' = Append(back, Here)
    BY <2>1, <2>2 DEF Push
  <2> QED
    BY <2>1, <2>3, <1>1, <1>2, <1>3, <1>4, OneStepAhead DEF OnlyGoesOn
<1> QED
  BY <1>7, <1>8, <1>9 DEF Commit

LEMMA StaysPut ==
    ASSUME UNCHANGED <<back, forward>>,
           docs'[current'].address = docs[current].address
    PROVE  OnlyGoesOn
BY DEF OnlyGoesOn, Timeline, Addresses, Reversed

LEMMA NewGoesOn ==
    ASSUME ReaderOK, Commit("New")
    PROVE  OnlyGoesOn
<1>1. Leads("New", docs'[current'].address)
  BY DEF Leads
<1> QED
  BY <1>1, CommitGoesOn

LEMMA JumpGoesOn ==
    ASSUME ReaderOK, NEW target, Jump(target)
    PROVE  OnlyGoesOn
BY NewGoesOn, StaysPut DEF Jump

LEMMA FulfilGoesOn ==
    ASSUME ReaderOK, NEW asked, NEW said, Fulfil(asked, said), docs' = docs
    PROVE  OnlyGoesOn
<1>1. CASE \E hit \in hits' : Select(hit, said)
  <2>1. PICK hit \in hits' : Select(hit, said)
    BY <1>1
  <2>2. CASE Commit("New")
    BY <2>2, NewGoesOn
  <2>3. CASE UNCHANGED <<current, ledger>>
    BY <2>3, StaysPut DEF ledger
  <2> QED
    BY <2>1, <2>2, <2>3 DEF Select
<1>2. CASE UNCHANGED <<current, place, ledger>>
  BY <1>2, StaysPut DEF ledger
<1> QED
  BY <1>1, <1>2 DEF Fulfil

LEMMA RequestGoesOn ==
    ASSUME ReaderOK, NEW address, NEW target, RequestOpen(address, target)
    PROVE  OnlyGoesOn
<1>1. CASE \E request : Ask(request)
  BY <1>1, StaysPut DEF Ask, ledger
<1>2. CASE Jump(target)
  BY <1>2, JumpGoesOn
<1>3. CASE Commit("New")
  BY <1>3, NewGoesOn
<1> QED
  BY <1>1, <1>2, <1>3 DEF RequestOpen

LEMMA CompleteGoesOn ==
    ASSUME ReaderOK, NEW s, NEW doc, NEW target, NEW direction,
           \/ s \in DOMAIN docs /\ doc = docs[s]
           \/ s = Len(docs) + 1 /\ doc \in Doc,
           Leads(direction, doc.address),
           CompleteLoaded(s, doc, target, direction)
    PROVE  OnlyGoesOn
<1>1. CASE Refuse /\ UNCHANGED docs
  BY <1>1, StaysPut DEF Refuse, ledger
<1>2. CASE /\ docs' = IF s \in DOMAIN docs THEN docs ELSE Append(docs, doc)
           /\ Commit(direction)
           /\ Replace(s, doc, target)
  <2>1. docs \in Seq(Doc)
    BY DEF ReaderOK, PageOK
  <2>2. docs'[s] = doc
    <3>1. CASE s \in DOMAIN docs /\ doc = docs[s]
      BY <3>1, <1>2
    <3>2. CASE s = Len(docs) + 1 /\ doc \in Doc
      BY <3>2, <1>2, <2>1, OneMore
    <3> QED
      BY <3>1, <3>2
  <2>3. docs'[current'].address = doc.address
    BY <1>2, <2>2 DEF Replace
  <2>4. Leads(direction, docs'[current'].address)
    BY <2>3
  <2> QED
    BY <1>2, <2>4, CommitGoesOn
<1> QED
  BY <1>1, <1>2 DEF CompleteLoaded

LEMMA NavigateGoesOn ==
    ASSUME ReaderInv, NEW history, NEW direction,
           \/ history = back /\ direction = "Back"
           \/ history = forward /\ direction = "Forward",
           Navigate(history, direction)
    PROVE  OnlyGoesOn
<1>1. ReaderOK
  BY DEF ReaderInv
<1>2. CASE UNCHANGED <<docs, current, place, ledger, search, pending, notice>>
  BY <1>2, StaysPut DEF ledger
<1>3. CASE history # <<>>
  <2> DEFINE to == history[Len(history)]
  <2>1. to \in PlaceOf(docs)
    BY <1>1, <1>3, LastPlace DEF ReaderOK
  <2>2. to.origin \in DOMAIN docs /\ to.address = docs[to.origin].address
    BY <2>1 DEF PlaceOf
  <2>3. Leads(direction, to.address)
    BY <1>3 DEF Leads
  <2> HIDE DEF to
  <2>4. CASE /\ to.origin = current /\ Commit(direction)
             /\ UNCHANGED <<docs, current>>
    <3>1. Leads(direction, docs'[current'].address)
      BY <2>2, <2>3, <2>4
    <3> QED
      BY <1>1, <2>4, <3>1, CommitGoesOn
  <2>5. CASE Refuse /\ UNCHANGED docs
    BY <2>5, StaysPut DEF Refuse, ledger
  <2>6. CASE \E request : Ask(request)
    BY <2>6, StaysPut DEF Ask, ledger
  <2>7. CASE CompleteLoaded(to.origin, docs[to.origin], to.target, direction)
    <3>1. Leads(direction, docs[to.origin].address)
      BY <2>2, <2>3
    <3> QED
      BY <1>1, <2>2, <2>7, <3>1, CompleteGoesOn
  <2> QED
    BY <1>3, <2>4, <2>5, <2>6, <2>7 DEF Navigate, to
<1> QED
  BY <1>2, <1>3 DEF Navigate

LEMMA PressGoesOn ==
    ASSUME ReaderInv, NEW i, PressTab(i)
    PROVE  OnlyGoesOn
<1>1. ReaderOK /\ i \in DOMAIN tabs
  BY DEF ReaderInv, PressTab
<1>2. CASE UNCHANGED <<docs, current, ledger>>
  BY <1>2, StaysPut DEF ledger
<1>3. CASE \E request : Ask(request)
  BY <1>3, StaysPut DEF Ask, ledger
<1>4. CASE CompleteLoaded(tabs[i].origin, docs[tabs[i].origin], tabs[i].target, "New")
  <2>1. tabs[i] \in PlaceOf(docs)
    BY <1>1 DEF ReaderOK, TabsOK
  <2>2. tabs[i].origin \in DOMAIN docs
    BY <2>1 DEF PlaceOf
  <2>3. Leads("New", docs[tabs[i].origin].address)
    BY DEF Leads
  <2> QED
    BY <1>1, <1>4, <2>2, <2>3, CompleteGoesOn
<1> QED
  BY <1>2, <1>3, <1>4 DEF PressTab

LEMMA SucceedGoesOn ==
    ASSUME ReaderInv, OpenSucceeds
    PROVE  OnlyGoesOn
<1>1. ReaderOK /\ pending # Nil
  BY DEF ReaderInv, OpenSucceeds
<1>2. PICK address \in Address, items \in Outlines :
          /\ pending.to \in {address, ByName}
          /\ CompleteLoaded(Len(docs) + 1,
                            [address |-> address, items |-> items],
                            pending.target, pending.direction)
  BY DEF OpenSucceeds
<1> DEFINE doc == [address |-> address, items |-> items]
<1>3. doc \in Doc /\ doc.address = address
  BY DEF Doc
<1>4. Leads(pending.direction, doc.address)
  BY <1>1, <1>2, <1>3, AnswerLeads
<1> QED
  BY <1>1, <1>2, <1>3, <1>4, CompleteGoesOn

LEMMA StepGoesOn ==
    ASSUME ReaderInv, [Next]_vars
    PROVE  OnlyGoesOn
<1>1. ReaderOK
  BY DEF ReaderInv
<1>2. CASE FollowLink
  <2>1. CASE \E t \in Target : Jump(t)
    BY <1>1, <2>1, JumpGoesOn
  <2>2. CASE \E a \in Address, t \in Target \cup {Default} : RequestOpen(a, t)
    BY <1>1, <2>2, RequestGoesOn
  <2>3. CASE \E request : Ask(request)
    BY <2>3, StaysPut DEF Ask, ledger
  <2> QED
    BY <1>2, <2>1, <2>2, <2>3 DEF FollowLink
<1>3. CASE PickDocument
  BY <1>1, <1>3, RequestGoesOn DEF PickDocument
<1>4. CASE Back
  BY <1>4, NavigateGoesOn DEF Back
<1>5. CASE Forward
  BY <1>5, NavigateGoesOn DEF Forward
<1>6. CASE \E i \in 1 .. HistoryLimit : PressTab(i)
  BY <1>6, PressGoesOn
<1>7. CASE Read
  BY <1>7, StaysPut DEF Read, ledger
<1>8. CASE \E next \in Overlays : TurnOverlay(next)
  BY <1>8, StaysPut DEF TurnOverlay, ledger
<1>9. CASE EditSearch
  BY <1>9, StaysPut DEF EditSearch, ledger
<1>10. CASE GoToHit
  BY <1>1, <1>10, FulfilGoesOn DEF GoToHit
<1>11. CASE NothingToServe
  BY <1>11, StaysPut DEF NothingToServe, ledger
<1>12. CASE OpenFails
  BY <1>12, StaysPut DEF OpenFails, Refuse, ledger
<1>13. CASE OpenSucceeds
  BY <1>13, SucceedGoesOn
<1>14. CASE Turn
  <2>1. PICK reports \in BOOLEAN : Tick(reports)
    BY <1>14 DEF Turn
  <2>2. docs' = docs
    BY <1>14 DEF Turn
  <2>3. CASE Fulfil(wanted, notice)
    BY <1>1, <2>2, <2>3, FulfilGoesOn
  <2>4. CASE UNCHANGED <<current, ledger>>
    BY <2>2, <2>4, StaysPut DEF ledger
  <2> QED
    BY <2>1, <2>3, <2>4 DEF Tick
<1>15. CASE UNCHANGED vars
  BY <1>15, StaysPut DEF vars, ledger
<1> QED
  BY <1>2, <1>3, <1>4, <1>5, <1>6, <1>7, <1>8, <1>9, <1>10, <1>11, <1>12,
     <1>13, <1>14, <1>15 DEF Next, Event

(* Back and Forward move along the addresses visited and never change      *)
(* them, also when the host answers later; anything else goes on from      *)
(* where the reader is, forgetting what lay ahead and, at the limit, the   *)
(* oldest.                                                                 *)
THEOREM HistoryIsATimeline == Spec => TimelineIsKept
BY ReaderInvariant, StepGoesOn, PTL DEF Spec, TimelineIsKept, OnlyGoesOn
=============================================================================
