------------------------- MODULE MCNotebookCleanup ---------------------------
(* Instances of NotebookCleanup for TLC. *)
EXTENDS NotebookCleanup, TLC

CONSTANTS r1, r2, d1, p1, w1, t1, c1, v1, v2

OneRun    == {r1}
TwoVideos == {v1, v2}
Alone     == (r1 :> v1)
OneDraft  == {d1}
OnePage   == {p1}
OneWorker == {w1}
OneCleaner == {c1}
OneTab    == {t1}
=============================================================================
