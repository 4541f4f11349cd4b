---------------------------- MODULE MCRunQueue ----------------------------
(* Instances of RunQueue for TLC. *)
EXTENDS RunQueue, TLC

CONSTANTS r1, r2, r3, p1, p2, w1, w2, v1, v2

TwoRuns   == {r1, r2}
ThreeRuns == {r1, r2, r3}
OnePage   == {p1}
TwoPages  == {p1, p2}
TwoWorkers == {w1, w2}
TwoVideos == {v1, v2}

\* Two runs of the same video and one of another.
Video2 == (r1 :> v1) @@ (r2 :> v1)
Video3 == (r1 :> v1) @@ (r2 :> v2) @@ (r3 :> v1)
Upload1 == {r1}
=============================================================================
