----------------------------- MODULE SerialFifo -----------------------------
(***************************************************************************)
(* What the run queue promises, without threads, locks or pauses: jobs     *)
(* arrive in some order and are served one at a time in that order; a      *)
(* waiting job may leave, and then it is never served; a job is served at  *)
(* most once, and only the job being served may be recorded.               *)
(***************************************************************************)
EXTENDS Naturals

CONSTANT Jobs

VARIABLES
  arrival,   \* when each job arrived (0: not yet)
  waiting,   \* jobs that have arrived and are neither served nor gone
  serving,   \* the job being served, if any
  recorded   \* jobs whose result is on record

vars == <<arrival, waiting, serving, recorded>>

Init ==
  /\ arrival = [j \in Jobs |-> 0]
  /\ waiting = {}
  /\ serving = {}
  /\ recorded = {}

Arrive(j) ==
  /\ arrival[j] = 0
  /\ arrival' \in [Jobs -> Nat]
  /\ \A i \in Jobs : arrival[i] < arrival'[j]
  /\ \A i \in Jobs \ {j} : arrival'[i] = arrival[i]
  /\ waiting' = waiting \union {j}
  /\ UNCHANGED <<serving, recorded>>

Leave(j) ==
  /\ j \in waiting
  /\ waiting' = waiting \ {j}
  /\ UNCHANGED <<arrival, serving, recorded>>

Serve(j) ==
  /\ serving = {}
  /\ j \in waiting
  /\ \A i \in waiting : arrival[j] <= arrival[i]
  /\ waiting' = waiting \ {j}
  /\ serving' = {j}
  /\ UNCHANGED <<arrival, recorded>>

Record(j) ==
  /\ serving = {j}
  /\ recorded' = recorded \union {j}
  /\ UNCHANGED <<arrival, waiting, serving>>

Complete(j) ==
  /\ serving = {j}
  /\ serving' = {}
  /\ UNCHANGED <<arrival, waiting, recorded>>

Next == \E j \in Jobs : Arrive(j) \/ Leave(j) \/ Serve(j) \/ Record(j)
                        \/ Complete(j)

Spec == Init /\ [][Next]_vars
=============================================================================
