-------------------------- MODULE MCSharedConnection --------------------------
(* Instances of SharedConnection: two results, one script. *)
EXTENDS SharedConnection

CONSTANT s1
=============================================================================
