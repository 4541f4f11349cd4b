---------------------------- MODULE MCCatalogue ----------------------------
(* Instances of Catalogue for TLC. *)
EXTENDS Catalogue, TLC

CONSTANTS n1, n2, f1, v1

TwoNames == {n1, n2}
OneFeed  == {f1}
OneEach  == f1 :> {v1}

\* Category names are alike.
Sym == Permutations(TwoNames)
=============================================================================
