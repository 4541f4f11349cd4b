----------------------------- MODULE MCHistory -----------------------------
(* Instances of History for TLC. *)
EXTENDS History

CONSTANTS r1, r2, t1, t2, d1, d2

TwoRuns == {r1, r2}
Upload1 == {r1}
OneTab  == {t1}
TwoTabs == {t1, t2}
TwoDocs == {d1, d2}
=============================================================================
