--------------------------- MODULE MCNotebookUse ---------------------------
(* Instances of NotebookUse for TLC. *)
EXTENDS NotebookUse, TLC

CONSTANTS r1, r2, d1, p1, w1, t1, v1, v2

TwoRuns   == {r1, r2}
TwoVideos == {v1, v2}
Alike     == (r1 :> v1) @@ (r2 :> v1)
OneDraft  == {d1}
OnePage   == {p1}
OneWorker == {w1}
OneTab    == {t1}
=============================================================================
