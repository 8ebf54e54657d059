----------------------------- MODULE MCScopeLoad -----------------------------
EXTENDS ScopeLoad

CONSTANTS G, D, M, X, B   \* Markdown pages, of which B is big, and the manuals
                          \* ed(1) and its extension ed(1p)

(* The selectors: a catalog path for each page; the name ed, which the     *)
(* page D and both manuals go by; a file outside every catalog.            *)
MCSelectors == {"g", "d", "m", "x", "b", "ed", "file"}
MCCandidates == [key \in ResolutionKey |->
    CASE key = <<"g", "Combined">> -> <<G>>
      [] key = <<"d", "Combined">> -> <<D>>
      [] key = <<"b", "Combined">> -> <<B>>
      [] key[1] = "m" -> <<M>>
      [] key[1] = "x" -> <<X>>
      [] key = <<"ed", "Combined">> -> <<D, M, X>>
      [] key = <<"ed", "ManualOnly">> -> <<M, X>>
      [] OTHER -> <<>>]

MCSpellings == {"g", "./g", "d", "m", "x", "b", "ed", "../up", "../../up"}
Link(kind, spelling, selector, target, exact) ==
    [kind |-> kind, spelling |-> spelling, selector |-> selector,
     target |-> target, exact |-> exact]
ToGuide    == Link("document", "g", "g", G, TRUE)
GuideAgain == Link("document", "./g", "g", G, TRUE)
ToOther    == Link("document", "d", "d", D, TRUE)
ToBig      == Link("document", "b", "b", B, TRUE)
ToManual   == Link("manual", "m", "m", M, TRUE)
ToPosix    == Link("manual", "x", "x", X, TRUE)
Cited      == Link("manual", "ed", "ed", M, FALSE)
Outside    == Link("document", "../up", None, None, TRUE)
Farther    == Link("document", "../../up", None, None, TRUE)

MCLinks == {[page \in {G, D, M, X, B} |->
                CASE page = G -> g [] page = D -> d [] page = M -> m
                  [] page = X -> <<Cited, ToBig>> [] OTHER -> <<>>] :
    g \in {<<ToOther, ToPosix, Cited>>, <<ToPosix, Cited>>},
    d \in {<<ToManual, Outside>>, <<ToGuide, ToManual>>,
           <<Outside, Farther>>, <<GuideAgain, ToGuide, ToManual>>},
    m \in {<<>>, <<ToPosix, ToOther>>}}

MCSize == [page \in {G, D, M, X, B} |-> IF page = B THEN 3 ELSE 1]

(* Who does not follow links gets the default bounds, 2 and 4 here. *)
Ask(roots, follow, depth, limit) ==
    [documents |-> roots, followLinks |-> follow, limited |-> follow,
     maxDepth |-> depth, maxDocuments |-> limit]
MCRequests ==
    {Ask(roots, TRUE, depth, limit) : depth \in 0 .. 3, limit \in 1 .. 4,
        roots \in {<<"g">>, <<"g", "ed">>, <<"ed", "ed">>, <<"file", "x">>}}
    \cup {Ask(<<>>, TRUE, 1, 1), Ask(<<"g">>, FALSE, 2, 4), Ask(<<"m", "b", "x">>, TRUE, 1, 4),
          Ask(<<"g", "d", "m", "x", "ed">>, TRUE, 1, 4),
          [Ask(<<"g">>, FALSE, 1, 2) EXCEPT !.limited = TRUE],
          Ask(<<"g">>, TRUE, 1, 5)}
=============================================================================
