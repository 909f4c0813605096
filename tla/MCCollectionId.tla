--------------------------- MODULE MCCollectionId ---------------------------
(***************************************************************************)
(* Books of at most two items with one top-level key.                      *)
(***************************************************************************)
EXTENDS CollectionId

CONSTANTS t1, t2,   \* titles
          u1, v1    \* a URL and a revision

TitleKey == <<"title">>

=============================================================================
