----------------------------- MODULE NotebookUse -----------------------------
(***************************************************************************)
(* Who uses NotebookLM: the run queue (RunQueue) and the digest            *)
(* (DigestSlot), which share one account.                                  *)
(*                                                                         *)
(* There is no lock over the two.  The worker waits while the digest       *)
(* registry is running (runner._drain, is_blocked), and the digest page    *)
(* disables its start button while active_count() > 0.  So the variable    *)
(* `blocked` of the one component is a state function of the other, and    *)
(* `busy` the other way round.                                             *)
(***************************************************************************)
EXTENDS Naturals, FiniteSets

CONSTANTS Runs, Videos, VideoOf, AutoSave, Pages, Workers, NoRun,
          Drafts, Tabs, NoDraft, MaxDocs

VARIABLES
  status, ticket, tickets, workerActive, paused, resumeDrawn,
  pagePc, pageRun, workerPc, workerRun, history, queueFaulted,
  slot, thread, pc, click, view, shown, seen, fresh, docs, digestFaulted

\* Bug: any digest on screen blocks the worker, the finished one too.
Blocked_AnyHandle == slot.status # "empty"

\* The worker's is_blocked: DigestRegistry.is_running.
Blocked == slot.status = "running"

Q == INSTANCE RunQueue WITH blocked <- Blocked, faulted <- queueFaulted
D == INSTANCE DigestSlot WITH busy <- Q!IsActive, faulted <- digestFaulted

ASSUME UseAssumption == Q!RunsAssumption /\ D!DigestAssumption

queueVars == <<status, ticket, tickets, workerActive, paused, resumeDrawn,
               pagePc, pageRun, workerPc, workerRun, history, queueFaulted>>
digestVars == <<slot, thread, pc, click, view, shown, seen, fresh, docs,
                digestFaulted>>
useVars == <<queueVars, digestVars>>

Init ==
  /\ slot = D!EmptySlot
  /\ Q!Init
  /\ D!Init

QueueStep(A) == UNCHANGED digestVars /\ A
DigestStep(A) == UNCHANGED queueVars /\ A

Next == QueueStep(Q!QueueNext) \/ DigestStep(D!DigestNext)

Spec == Init /\ [][Next]_useVars

\* The threads and scripts of both components run on; nobody has to press a
\* button.
Fairness ==
  /\ \A p \in Pages : WF_useVars(QueueStep(Q!PageStep(p)))
  /\ \A w \in Workers : WF_useVars(QueueStep(Q!WorkerGoesOn(w)))
  /\ \A t \in Tabs : /\ WF_useVars(DigestStep(D!ScriptStep(t)))
                     /\ WF_useVars(DigestStep(D!Tick(t)))
  /\ \A d \in Drafts : WF_useVars(DigestStep(D!BuildStep(d)))

FairSpec == Spec /\ Fairness

\* The gap the design accepts (8.3) is between the drawing of the start button
\* and the click.  Here it is closed: the slot is taken only while no run is
\* active.
NoLateStart == Blocked' /\ ~Blocked => ~Q!IsActive

FreshSpec == Init /\ [][Next /\ NoLateStart]_useVars

-----------------------------------------------------------------------------
(* Properties. *)

\* Runs that are using NotebookLM.
Asking == {r \in Runs : \E w \in Workers : /\ workerPc[w] = "pipeline"
                                           /\ workerRun[w] = r}

\* pages/ask.py: a video is not enqueued while it is queued or running, although
\* the check and the enqueue are two calls; with one tab, the setting the
\* design assumes (3).
NoDuplicatePending == Q!NoDuplicatePending

\* Both waits end: a queued run is served although digests come before it, or
\* it is seen to be paused, or a thread was lost.
QueueMovesOn ==
  \A r \in Runs : status[r] = "queued" ~>
    status[r] # "queued" \/ paused \/ queueFaulted \/ digestFaulted

\* What locks the digest page, the clean-up page and the remote login opens
\* again.
LocksOpen ==
  Q!IsActive \/ Blocked ~>
    ~(Q!IsActive \/ Blocked) \/ queueFaulted \/ digestFaulted

\* The success criterion of the queue's design (1): while the queue is at
\* work, no digest uses NotebookLM.  A run whose row was hidden does not count.
ExclusiveUse == (\A r \in Asking : status[r] = "gone") \/ D!Building = {}
=============================================================================
