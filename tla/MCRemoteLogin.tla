--------------------------- MODULE MCRemoteLogin ---------------------------
(* Instances of RemoteLogin for TLC. *)
EXTENDS RemoteLogin

CONSTANTS t1, t2

OneTab  == {t1}
TwoTabs == {t1, t2}
=============================================================================
