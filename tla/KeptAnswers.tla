----------------------------- MODULE KeptAnswers -----------------------------
(***************************************************************************)
(* What the history promises of the answers that were paid for, without    *)
(* rows, IDs, uploads or plans: they are kept until the history links a    *)
(* document of them instead, or the user throws them away.  Nothing else   *)
(* takes them: no synchronisation, no upload that fails, no restart; and   *)
(* nothing brings them back.                                               *)
(***************************************************************************)
CONSTANTS
  Results,    \* results that are ever recorded
  Documents,  \* documents that are ever made
  NoResult

VARIABLES
  recorded,   \* results that were recorded
  kept,       \* those whose answers are in the history
  thrown,     \* those the user deleted
  linked,     \* documents that the history links
  madeOf      \* the result each document was made of

vars == <<recorded, kept, thrown, linked, madeOf>>

Made == {d \in Documents : madeOf[d] # NoResult}

Init ==
  /\ recorded = {}
  /\ kept = {}
  /\ thrown = {}
  /\ linked = {}
  /\ madeOf = [d \in Documents |-> NoResult]

Record(r) ==
  /\ r \notin recorded
  /\ recorded' = recorded \union {r}
  /\ kept' = kept \union {r}
  /\ UNCHANGED <<thrown, linked, madeOf>>

\* A document is made, of one result for ever.
Publish(r, d) ==
  /\ r \in recorded
  /\ madeOf[d] = NoResult
  /\ madeOf' = [madeOf EXCEPT ![d] = r]
  /\ UNCHANGED <<recorded, kept, thrown, linked>>

\* The answers go as the link of a document comes that holds them.
GiveUp(r) ==
  /\ r \in kept
  /\ kept' = kept \ {r}
  /\ \E d \in Documents : madeOf[d] = r /\ linked' = linked \union {d}
  /\ UNCHANGED <<recorded, thrown, madeOf>>

\* The user deletes answers, or a link; a link is deleted alone.
ThrowAway(r) ==
  /\ r \in recorded
  /\ thrown' = thrown \union {r}
  /\ \/ kept' = kept \ {r} /\ UNCHANGED linked
     \/ linked' \in SUBSET linked /\ UNCHANGED kept
  /\ UNCHANGED <<recorded, madeOf>>

\* A synchronisation: links come and go, and answers stay.
Synchronise ==
  /\ linked' \in SUBSET Made
  /\ UNCHANGED <<recorded, kept, thrown, madeOf>>

Next ==
  \/ \E r \in Results :
       \/ Record(r) \/ GiveUp(r) \/ ThrowAway(r)
       \/ \E d \in Documents : Publish(r, d)
  \/ Synchronise

Spec == Init /\ [][Next]_vars
=============================================================================
