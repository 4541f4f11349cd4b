------------------------------ MODULE RunQueue ------------------------------
(***************************************************************************)
(* The run queue of the app: services/run_store.py and run_registry.py     *)
(* (one lock, one dict of run handles, the worker slot and the pause) and  *)
(* services/runner.py (the page threads that enqueue and resume, and the   *)
(* worker thread that drains the queue).                                   *)
(*                                                                         *)
(* Every method of the registry runs under its lock and is one atomic      *)
(* action here.  What a page or a worker does BETWEEN two of those calls   *)
(* is not protected, so each thread has a program counter and the calls    *)
(* interleave freely.                                                      *)
(***************************************************************************)
EXTENDS Naturals, FiniteSets

CONSTANTS
  Runs,         \* run handles that can ever be enqueued (run_id is a uuid)
  Videos,       \* video IDs
  VideoOf,      \* the video each run asks about
  AutoSave,     \* the runs enqueued with the auto-save box ticked
  Pages,        \* page script threads (browser tabs) that enqueue and resume
  Workers,      \* thread identities a worker may be started on
  NoRun         \* "no run"

ASSUME RunsAssumption ==
  /\ VideoOf \in [Runs -> Videos]
  /\ AutoSave \subseteq Runs
  /\ NoRun \notin Runs

VARIABLES
  status,       \* handle.status; "new": not enqueued yet, "gone": removed
  ticket,       \* position of the handle in the dict (0: never inserted)
  tickets,      \* number of handles inserted so far
  workerActive, \* registry._worker_active
  paused,       \* registry._paused_reason is not None
  resumeDrawn,  \* some dashboard may still show the resume button
  blocked,      \* is_blocked(): a digest is using NotebookLM
  pagePc,       \* where each page thread is in runner.enqueue / resume
  pageRun,      \* the run the page is enqueueing
  workerPc,     \* where each worker thread is in _drain / _work
  workerRun,    \* the handle that worker got from claim_next
  history,      \* runs recorded in the SQLite history
  faulted       \* a thread failed to start, or a worker died

queueVars  == <<status, ticket, tickets, workerActive, paused, resumeDrawn>>
pageVars   == <<pagePc, pageRun>>
workerVars == <<workerPc, workerRun, history>>
vars == <<queueVars, pageVars, workerVars, blocked, faulted>>

Statuses == {"new", "queued", "running", "done", "failed", "gone"}
PagePcs == {"idle", "checked", "enqueued", "spawning", "releasing"}
WorkingPcs == {"metadata", "pipeline", "history", "upload", "finish"}
WorkerPcs == {"none", "poll", "claim", "pausing", "dying"} \union WorkingPcs

Init ==
  /\ status = [r \in Runs |-> "new"]
  /\ ticket = [r \in Runs |-> 0]
  /\ tickets = 0
  /\ workerActive = FALSE
  /\ paused = FALSE
  /\ resumeDrawn = FALSE
  /\ blocked = FALSE
  /\ pagePc = [p \in Pages |-> "idle"]
  /\ pageRun = [p \in Pages |-> NoRun]
  /\ workerPc = [w \in Workers |-> "none"]
  /\ workerRun = [w \in Workers |-> NoRun]
  /\ history = {}
  /\ faulted = FALSE

-----------------------------------------------------------------------------
(* What the registry's methods read. *)

Pending  == {"queued", "running"}
Finished == {"done", "failed"}
Queued   == {r \in Runs : status[r] = "queued"}

\* Bug: the newest queued handle first.
IsFirstQueued_Newest(r) ==
  /\ status[r] = "queued"
  /\ \A s \in Queued : ticket[r] >= ticket[s]

\* _first_queued: the earliest handle of the dict that is still queued.
IsFirstQueued(r) ==
  /\ status[r] = "queued"
  /\ \A s \in Queued : ticket[r] <= ticket[s]

\* Bug: a running video does not count.
IsPending_QueuedOnly(video) ==
  \E r \in Runs : VideoOf[r] = video /\ status[r] = "queued"

\* is_pending: the video is queued or running in the table.
IsPending(video) ==
  \E r \in Runs : VideoOf[r] = video /\ status[r] \in Pending

\* Bug: a queued run counts although the queue is paused.
IsActive_CountsPaused == \E r \in Runs : status[r] \in Pending

\* active_count() > 0: a run counts while it is running, and while it is
\* queued unless the queue is paused.
IsActive ==
  \E r \in Runs : \/ status[r] = "running"
                  \/ status[r] = "queued" /\ ~paused

\* Bug: the slot is handed out although it is taken.
WorkerNeeded_AnySlot == ~paused /\ Queued # {}

\* _take_worker_slot's condition.
WorkerNeeded == ~workerActive /\ ~paused /\ Queued # {}

\* finish and fail: a handle that was removed meanwhile is passed over.
Settle(r, outcome) ==
  status' = IF status[r] = "gone" THEN status
            ELSE [status EXCEPT ![r] = outcome]

-----------------------------------------------------------------------------
(* The pages. *)

\* The page's callback sees that the video is not pending (ask.py _enqueue,
\* _channel_enqueue.py _enqueue_each) and goes on to runner.enqueue.
Check(p, r) ==
  /\ pagePc[p] = "idle"
  /\ status[r] = "new"
  /\ \A q \in Pages : pageRun[q] # r
  /\ ~IsPending(VideoOf[r])
  /\ pagePc' = [pagePc EXCEPT ![p] = "checked"]
  /\ pageRun' = [pageRun EXCEPT ![p] = r]
  /\ UNCHANGED <<queueVars, workerVars, blocked, faulted>>

\* registry.enqueue puts the handle at the end of the dict.
Enqueue(p) ==
  /\ pagePc[p] = "checked"
  /\ status' = [status EXCEPT ![pageRun[p]] = "queued"]
  /\ tickets' = tickets + 1
  /\ ticket' = [ticket EXCEPT ![pageRun[p]] = tickets + 1]
  /\ pagePc' = [pagePc EXCEPT ![p] = "enqueued"]
  /\ pageRun' = [pageRun EXCEPT ![p] = NoRun]
  /\ UNCHANGED <<workerActive, paused, resumeDrawn, workerVars, blocked,
                 faulted>>

\* registry.acquire_worker, called after the handle is in.
AcquireWorker(p) ==
  /\ pagePc[p] = "enqueued"
  /\ workerActive' = (workerActive \/ WorkerNeeded)
  /\ pagePc' = [pagePc EXCEPT ![p] = IF WorkerNeeded THEN "spawning"
                                     ELSE "idle"]
  /\ UNCHANGED <<status, ticket, tickets, paused, resumeDrawn, pageRun,
                 workerVars, blocked, faulted>>

\* Bug: the resume button only lifts the pause and starts nobody.
Resume_NoWorker(p) ==
  /\ pagePc[p] = "idle"
  /\ resumeDrawn
  /\ paused' = FALSE
  /\ UNCHANGED <<status, ticket, tickets, workerActive, resumeDrawn, pageVars,
                 workerVars, blocked, faulted>>

\* The resume button: registry.resume lifts the pause and takes the slot if a
\* worker is needed.  A tab may press a button drawn while the queue was
\* paused although another tab has resumed it since.
Resume(p) ==
  /\ pagePc[p] = "idle"
  /\ resumeDrawn
  /\ paused' = FALSE
  /\ LET needed == ~workerActive /\ Queued # {}
     IN  /\ workerActive' = (workerActive \/ needed)
         /\ pagePc' = [pagePc EXCEPT ![p] = IF needed THEN "spawning"
                                            ELSE "idle"]
  /\ UNCHANGED <<status, ticket, tickets, resumeDrawn, pageRun, workerVars,
                 blocked, faulted>>

\* _start_worker: thread.start() succeeds.
StartThread(p) ==
  /\ pagePc[p] = "spawning"
  /\ \E w \in Workers :
       /\ workerPc[w] = "none"
       /\ workerPc' = [workerPc EXCEPT ![w] = "poll"]
  /\ pagePc' = [pagePc EXCEPT ![p] = "idle"]
  /\ UNCHANGED <<queueVars, pageRun, workerRun, history, blocked, faulted>>

\* _start_worker: thread.start() raises; the slot has still to be released.
StartFails(p) ==
  /\ pagePc[p] = "spawning"
  /\ pagePc' = [pagePc EXCEPT ![p] = "releasing"]
  /\ faulted' = TRUE
  /\ UNCHANGED <<queueVars, pageRun, workerVars, blocked>>

\* release_worker in _start_worker's except branch; the error goes on to the
\* page.
ReleaseUnstarted(p) ==
  /\ pagePc[p] = "releasing"
  /\ workerActive' = FALSE
  /\ pagePc' = [pagePc EXCEPT ![p] = "idle"]
  /\ UNCHANGED <<status, ticket, tickets, paused, resumeDrawn, pageRun,
                 workerVars, blocked, faulted>>

\* Bug: the last cancelled run leaves the queue paused.
Cancel_KeepsPause(r) ==
  /\ status[r] = "queued"
  /\ status' = [status EXCEPT ![r] = "gone"]
  /\ UNCHANGED <<ticket, tickets, workerActive, paused, resumeDrawn, pageVars,
                 workerVars, blocked, faulted>>

\* registry.cancel of a handle still queued; the last one lifts the pause.
Cancel(r) ==
  /\ status[r] = "queued"
  /\ status' = [status EXCEPT ![r] = "gone"]
  /\ paused' = (paused /\ Queued # {r})
  /\ UNCHANGED <<ticket, tickets, workerActive, resumeDrawn, pageVars,
                 workerVars, blocked, faulted>>

\* registry.discard.  The table offers it on a running row ("hide") and on a
\* finished one ("remove"), never on a queued one.
Discard(r) ==
  /\ status[r] \in {"running"} \union Finished
  /\ status' = [status EXCEPT ![r] = "gone"]
  /\ UNCHANGED <<ticket, tickets, workerActive, paused, resumeDrawn, pageVars,
                 workerVars, blocked, faulted>>

\* registry.discard_finished.
DiscardFinished ==
  /\ \E r \in Runs : status[r] \in Finished
  /\ status' = [r \in Runs |-> IF status[r] \in Finished THEN "gone"
                               ELSE status[r]]
  /\ UNCHANGED <<ticket, tickets, workerActive, paused, resumeDrawn, pageVars,
                 workerVars, blocked, faulted>>

PageStep(p) ==
  \/ Enqueue(p) \/ AcquireWorker(p)
  \/ StartThread(p) \/ StartFails(p) \/ ReleaseUnstarted(p)

Click ==
  \/ \E p \in Pages : Resume(p) \/ \E r \in Runs : Check(p, r)
  \/ \E r \in Runs : Cancel(r) \/ Discard(r)
  \/ DiscardFinished

-----------------------------------------------------------------------------
(* The worker thread. *)

\* _drain: is_blocked() came back false.  While it is true the thread sleeps
\* and asks again.
Poll(w) ==
  /\ workerPc[w] = "poll"
  /\ ~blocked
  /\ workerPc' = [workerPc EXCEPT ![w] = "claim"]
  /\ UNCHANGED <<queueVars, pageVars, workerRun, history, blocked, faulted>>

\* claim_next hands out the first queued run.
Claim(w) ==
  /\ workerPc[w] = "claim"
  /\ ~paused
  /\ \E r \in Runs :
       /\ IsFirstQueued(r)
       /\ status' = [status EXCEPT ![r] = "running"]
       /\ workerRun' = [workerRun EXCEPT ![w] = r]
  /\ workerPc' = [workerPc EXCEPT ![w] = "metadata"]
  /\ UNCHANGED <<ticket, tickets, workerActive, paused, resumeDrawn, pageVars,
                 history, blocked, faulted>>

\* claim_next has nothing to hand out: it frees the slot under the same lock
\* and the thread ends.
ClaimNothing(w) ==
  /\ workerPc[w] = "claim"
  /\ paused \/ Queued = {}
  /\ workerActive' = FALSE
  /\ workerPc' = [workerPc EXCEPT ![w] = "none"]
  /\ UNCHANGED <<status, ticket, tickets, paused, resumeDrawn, pageVars,
                 workerRun, history, blocked, faulted>>

\* _drain: is_blocked() or claim_next() raises, which ends the thread.
DrainDies(w) ==
  /\ workerPc[w] \in {"poll", "claim"}
  /\ workerPc' = [workerPc EXCEPT ![w] = "dying"]
  /\ faulted' = TRUE
  /\ UNCHANGED <<queueVars, pageVars, workerRun, history, blocked>>

\* run_steps.fetch_metadata never raises; the pipeline comes next.
FetchMetadata(w) ==
  /\ workerPc[w] = "metadata"
  /\ workerPc' = [workerPc EXCEPT ![w] = "pipeline"]
  /\ UNCHANGED <<queueVars, pageVars, workerRun, history, blocked, faulted>>

\* The pipeline returns a result.
PipelineSucceeds(w) ==
  /\ workerPc[w] = "pipeline"
  /\ workerPc' = [workerPc EXCEPT ![w] = "history"]
  /\ UNCHANGED <<queueVars, pageVars, workerRun, history, blocked, faulted>>

\* registry.fail for the worker's run; the worker goes on to pc `next`.
FailRun(w, next) ==
  /\ Settle(workerRun[w], "failed")
  /\ workerRun' = [workerRun EXCEPT ![w] = NoRun]
  /\ workerPc' = [workerPc EXCEPT ![w] = next]
  /\ UNCHANGED <<ticket, tickets, workerActive, paused, resumeDrawn, pageVars,
                 history, blocked>>

\* Bug: _work goes on to save the result after registry.fail.
PipelineFails_NoReturn(w) ==
  /\ workerPc[w] = "pipeline"
  /\ FailRun(w, "history")
  /\ UNCHANGED faulted

\* An error limited to this run: the worker takes the next one.
PipelineFails(w) ==
  /\ workerPc[w] = "pipeline"
  /\ FailRun(w, "poll")
  /\ UNCHANGED faulted

\* An error of errors.stops_queue: fail first, pause in a call of its own.
PipelineStops(w) ==
  /\ workerPc[w] = "pipeline"
  /\ FailRun(w, "pausing")
  /\ UNCHANGED faulted

\* Bug: only Exception is caught, and the run is left as it is.
PipelineDies_NoFail(w) ==
  /\ workerPc[w] = "pipeline"
  /\ workerPc' = [workerPc EXCEPT ![w] = "dying"]
  /\ workerRun' = [workerRun EXCEPT ![w] = NoRun]
  /\ faulted' = TRUE
  /\ UNCHANGED <<queueVars, pageVars, history, blocked>>

\* A BaseException: the run is failed and the exception ends the thread.
PipelineDies(w) ==
  /\ workerPc[w] = "pipeline"
  /\ FailRun(w, "dying")
  /\ faulted' = TRUE

\* registry.pause: only if a queued run is left.
PauseQueue(w) ==
  /\ workerPc[w] = "pausing"
  /\ paused' = (paused \/ Queued # {})
  /\ resumeDrawn' = (resumeDrawn \/ Queued # {})
  /\ workerPc' = [workerPc EXCEPT ![w] = "poll"]
  /\ UNCHANGED <<status, ticket, tickets, workerActive, pageVars, workerRun,
                 history, blocked, faulted>>

\* _drain's except branch releases the slot and lets the thread die.
ReleaseDying(w) ==
  /\ workerPc[w] = "dying"
  /\ workerActive' = FALSE
  /\ workerPc' = [workerPc EXCEPT ![w] = "none"]
  /\ UNCHANGED <<status, ticket, tickets, paused, resumeDrawn, pageVars,
                 workerRun, history, blocked, faulted>>

\* run_steps.save_history records the result; the upload follows when the run
\* was enqueued with auto-save.
SaveHistory(w) ==
  /\ workerPc[w] = "history"
  /\ history' = history \union {workerRun[w]}
  /\ workerPc' = [workerPc EXCEPT ![w] = IF workerRun[w] \in AutoSave
                                         THEN "upload" ELSE "finish"]
  /\ UNCHANGED <<queueVars, pageVars, workerRun, blocked, faulted>>

\* Bug: the error of the history is logged and the run goes on to finish.
HistoryFails_Swallowed(w) ==
  /\ workerPc[w] = "history"
  /\ workerPc' = [workerPc EXCEPT ![w] = "finish"]
  /\ UNCHANGED <<queueVars, pageVars, workerRun, history, blocked, faulted>>

\* run_steps.save_history fails the run.
HistoryFails(w) ==
  /\ workerPc[w] = "history"
  /\ FailRun(w, "poll")
  /\ UNCHANGED faulted

\* run_export.save_automatically returns an outcome, whatever it is.
Upload(w) ==
  /\ workerPc[w] = "upload"
  /\ workerPc' = [workerPc EXCEPT ![w] = "finish"]
  /\ UNCHANGED <<queueVars, pageVars, workerRun, history, blocked, faulted>>

\* registry.finish.
Finish(w) ==
  /\ workerPc[w] = "finish"
  /\ Settle(workerRun[w], "done")
  /\ workerRun' = [workerRun EXCEPT ![w] = NoRun]
  /\ workerPc' = [workerPc EXCEPT ![w] = "poll"]
  /\ UNCHANGED <<ticket, tickets, workerActive, paused, resumeDrawn, pageVars,
                 history, blocked, faulted>>

\* What a thread does sooner or later; a thread that waits need not die.
WorkerGoesOn(w) ==
  \/ Poll(w) \/ Claim(w) \/ ClaimNothing(w)
  \/ FetchMetadata(w)
  \/ PipelineSucceeds(w) \/ PipelineFails(w) \/ PipelineStops(w)
  \/ PipelineDies(w)
  \/ PauseQueue(w) \/ ReleaseDying(w)
  \/ SaveHistory(w) \/ HistoryFails(w) \/ Upload(w) \/ Finish(w)

WorkerStep(w) == WorkerGoesOn(w) \/ DrainDies(w)

-----------------------------------------------------------------------------
\* Anything else that uses NotebookLM begins or ends: the digest thread.
BlockToggle ==
  /\ blocked' = ~blocked
  /\ UNCHANGED <<queueVars, pageVars, workerVars, faulted>>

QueueNext ==
  \/ Click
  \/ \E p \in Pages : PageStep(p)
  \/ \E w \in Workers : WorkerStep(w)

Next == QueueNext \/ BlockToggle

Spec == Init /\ [][Next]_vars

-----------------------------------------------------------------------------
(* Properties. *)

TypeOK ==
  /\ status \in [Runs -> Statuses]
  /\ ticket \in [Runs -> Nat]
  /\ tickets \in Nat
  /\ workerActive \in BOOLEAN
  /\ paused \in BOOLEAN
  /\ resumeDrawn \in BOOLEAN
  /\ blocked \in BOOLEAN
  /\ pagePc \in [Pages -> PagePcs]
  /\ pageRun \in [Pages -> Runs \union {NoRun}]
  /\ workerPc \in [Workers -> WorkerPcs]
  /\ workerRun \in [Workers -> Runs \union {NoRun}]
  /\ history \subseteq Runs
  /\ faulted \in BOOLEAN

Working(w) == workerPc[w] \in WorkingPcs

\* Who holds the worker slot: the page that took it and has not started the
\* thread yet, or the thread.
HoldingPages   == {p \in Pages : pagePc[p] \in {"spawning", "releasing"}}
HoldingWorkers == {w \in Workers : workerPc[w] # "none"}

\* run_registry.py:12-14: there are never two workers.  The slot is taken
\* exactly when one page or one thread holds it, over every interleaving of
\* enqueue, resume, a failing start, a worker's exit and a worker's death.
OneWorker ==
  /\ \A p, q \in HoldingPages : p = q
  /\ \A v, w \in HoldingWorkers : v = w
  /\ HoldingPages = {} \/ HoldingWorkers = {}
  /\ workerActive <=> HoldingPages \union HoldingWorkers # {}

\* run_registry.py pause and cancel: the queue is paused only while a queued
\* run is left, so that a run enqueued later never waits for a forgotten pause.
PauseHasWaiting == paused => Queued # {}

\* Some thread is going to look at the queue.
WakeupPending == workerActive \/ \E p \in Pages : pagePc[p] = "enqueued"

\* run_registry.py:12-14: nor is there no worker.  As long as no thread start
\* failed and no worker died, a waiting run of a queue that is not paused has
\* a worker, or a page that is about to start one.
NoLostWakeup == ~faulted /\ ~paused /\ Queued # {} => WakeupPending

\* runner.py _work: a row never stays "running" without a worker that is still
\* working on it, and a worker's run is running unless the row was hidden.
RunningIsWorked ==
  /\ \A r \in Runs : status[r] = "running" =>
       \E w \in Workers : Working(w) /\ workerRun[w] = r
  /\ \A w \in Workers : Working(w) =>
       /\ workerRun[w] \in Runs
       /\ status[workerRun[w]] \in {"running", "gone"}

\* A done row has its answers in the history, and a failed row does not: no
\* outcome a user reads in the table contradicts the history page.
OutcomeMatchesHistory ==
  \A r \in Runs : /\ status[r] = "done" => r \in history
                  /\ status[r] = "failed" => r \notin history

\* What the proof of the invariants adds to them.  A page that passed the
\* duplicate check holds a run nobody else has; a handle has a ticket from
\* enqueue on; a worker between two runs holds none; a result is on record
\* from save_history on, and only then; a broken thread has left its mark.
PagesHoldNewRuns ==
  /\ \A p \in Pages : IF pagePc[p] = "checked"
                      THEN pageRun[p] \in Runs /\ status[pageRun[p]] = "new"
                      ELSE pageRun[p] = NoRun
  /\ \A p, q \in Pages : pageRun[p] = pageRun[q] => p = q \/ pageRun[p] = NoRun

TicketsInOrder ==
  \A r \in Runs : /\ ticket[r] <= tickets
                  /\ status[r] = "new" <=> ticket[r] = 0

RecordedPcs == {"upload", "finish"}

WorkersHoldClaimedRuns ==
  \A w \in Workers :
    IF Working(w)
    THEN workerRun[w] \in history <=> workerPc[w] \in RecordedPcs
    ELSE workerRun[w] = NoRun

UnservedNotRecorded ==
  \A r \in history : status[r] \in {"running", "done", "gone"}

BrokenThreadsLeaveMark ==
  /\ \A p \in Pages : pagePc[p] = "releasing" => faulted
  /\ \A w \in Workers : workerPc[w] = "dying" => faulted

IndInv ==
  /\ TypeOK
  /\ OneWorker
  /\ PauseHasWaiting
  /\ NoLostWakeup
  /\ RunningIsWorked
  /\ OutcomeMatchesHistory
  /\ PagesHoldNewRuns
  /\ TicketsInOrder
  /\ WorkersHoldClaimedRuns
  /\ UnservedNotRecorded
  /\ BrokenThreadsLeaveMark

\* The design's decision (3): a video is not enqueued while it is queued or
\* running.  Holds with one tab, not with two.
NoDuplicatePending ==
  \A r, s \in Runs : /\ VideoOf[r] = VideoOf[s]
                     /\ status[r] \in Pending /\ status[s] \in Pending
                     => r = s

\* The run a worker is working on, if any.
Serving == {r \in Runs : \E w \in Workers : Working(w) /\ workerRun[w] = r}

\* runner.py enqueue: runs reach NotebookLM one at a time, in the order they
\* were enqueued, each at most once, never after they were cancelled, and only
\* the run a worker holds gets into the history.
Fifo == INSTANCE SerialFifo WITH
          Jobs <- Runs,
          arrival <- ticket,
          waiting <- Queued,
          serving <- Serving,
          recorded <- history

ServesInOrder == Fifo!Spec
=============================================================================
