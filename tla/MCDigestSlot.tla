---------------------------- MODULE MCDigestSlot ----------------------------
(* Instances of DigestSlot for TLC. *)
EXTENDS DigestSlot

CONSTANTS d1, d2, d3, t1, t2

TwoDrafts   == {d1, d2}
ThreeDrafts == {d1, d2, d3}
OneTab    == {t1}
TwoTabs   == {t1, t2}
=============================================================================
