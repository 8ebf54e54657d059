------------------------- MODULE MCReaderNavigation -------------------------
EXTENDS ReaderNavigation

CONSTANTS A, B, t

(* A document has the one place that links name, or it has lost it. *)
MCOutlines == {<<>>, <<t>>}

(* A reader of one page, and of two, one of them piped in and without an   *)
(* address.                                                                *)
OnePage == <<[address |-> A, items |-> <<t>>]>>
TwoPages == Append(OnePage, [address |-> Nil, items |-> <<t>>])
MCScopes == {OnePage, TwoPages}
=============================================================================
