----------------------------- MODULE MCAuthGate ------------------------------
(* Instances of AuthGate for TLC. *)
EXTENDS AuthGate, TLC

CONSTANTS t1, t2

TwoTabs  == {t1, t2}
Symmetry == Permutations(TwoTabs)
=============================================================================
