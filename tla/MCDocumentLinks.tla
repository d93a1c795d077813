-------------------------- MODULE MCDocumentLinks --------------------------
(* Instances of the document links for TLC. *)
EXTENDS DocumentLinks, TLC
CONSTANTS d1, d2, d3, w1, w2, ff, gg, tx, ty, A, B, C
TheFolders == {<<>>, <<ff>>, <<gg, ff>>}
TheStart == d1 :> [ws |-> w1, folder |-> <<ff>>, title |-> tx] @@
            d2 :> [ws |-> w1, folder |-> <<>>, title |-> tx] @@
            d3 :> [ws |-> w2, folder |-> <<ff>>, title |-> tx]
TheNames == w1 :> A @@ w2 :> B
TheOrder == d1 :> 3 @@ d2 :> 1 @@ d3 :> 2
=============================================================================
