--------------------------- MODULE RunQueue_proofs ---------------------------
(***************************************************************************)
(* Proofs that RunQueue keeps its invariants, for any number of runs,      *)
(* pages and worker threads, and that it implements SerialFifo.            *)
(*                                                                         *)
(* The invariants are proved together, as IndInv: that a row is never      *)
(* "running" without a worker needs that there is one worker, that there   *)
(* is one worker needs the slot, and the slot's bookkeeping needs to know  *)
(* which runs are queued.                                                  *)
(***************************************************************************)
EXTENDS RunQueue, TLAPS

\* The invariants about the slot and the pause: they read program counters,
\* and of the table only whether something is queued.
SlotInv ==
  OneWorker /\ PauseHasWaiting /\ NoLostWakeup /\ BrokenThreadsLeaveMark

\* The invariants about the work: which run a worker holds, and its record.
WorkInv ==
  /\ RunningIsWorked /\ WorkersHoldClaimedRuns
  /\ UnservedNotRecorded /\ OutcomeMatchesHistory

\* The invariants about handles that are not served yet.
TableInv == PagesHoldNewRuns /\ TicketsInOrder

\* Nothing is enqueued, started or recorded at first.
LEMMA InitIndInv == Init => IndInv
<1> SUFFICES ASSUME Init PROVE IndInv
  OBVIOUS
<1> USE RunsAssumption DEF Init
<1>1. TypeOK
  BY DEF TypeOK, Statuses, PagePcs, WorkerPcs
<1>2. Queued = {} /\ HoldingPages = {} /\ HoldingWorkers = {}
  BY DEF Queued, HoldingPages, HoldingWorkers
<1>3. SlotInv
  BY <1>2 DEF SlotInv, OneWorker, PauseHasWaiting, NoLostWakeup,
       BrokenThreadsLeaveMark
<1>4. WorkInv
  BY DEF WorkInv, RunningIsWorked, WorkersHoldClaimedRuns, Working, WorkingPcs,
     UnservedNotRecorded, OutcomeMatchesHistory
<1>5. TableInv
  BY DEF TableInv, PagesHoldNewRuns, TicketsInOrder
<1> QED BY <1>1, <1>3, <1>4, <1>5 DEF IndInv, SlotInv, WorkInv, TableInv

-----------------------------------------------------------------------------

\* Every step keeps the variables in their types.  A worker records only the
\* run it holds, hence RunningIsWorked.
LEMMA TypeStep == ASSUME IndInv, [Next]_vars PROVE TypeOK'
<1> USE RunsAssumption DEF IndInv, TypeOK, Statuses, PagePcs, WorkerPcs,
        WorkingPcs, Finished, RunningIsWorked, Working, queueVars, pageVars,
        workerVars
<1>1. ASSUME NEW p \in Pages, Enqueue(p) PROVE TypeOK'
  BY <1>1 DEF Enqueue, PagesHoldNewRuns
<1>2. ASSUME NEW p \in Pages, AcquireWorker(p) PROVE TypeOK'
  BY <1>2 DEF AcquireWorker, WorkerNeeded
<1>3. ASSUME NEW p \in Pages, StartThread(p) PROVE TypeOK'
  BY <1>3 DEF StartThread
<1>4. ASSUME NEW p \in Pages, StartFails(p) PROVE TypeOK'
  BY <1>4 DEF StartFails
<1>5. ASSUME NEW p \in Pages, ReleaseUnstarted(p) PROVE TypeOK'
  BY <1>5 DEF ReleaseUnstarted
<1>6. ASSUME NEW p \in Pages, Resume(p) PROVE TypeOK'
  BY <1>6 DEF Resume
<1>7. ASSUME NEW p \in Pages, NEW r \in Runs, Check(p, r) PROVE TypeOK'
  BY <1>7 DEF Check
<1>8. ASSUME NEW r \in Runs, Cancel(r) PROVE TypeOK'
  BY <1>8 DEF Cancel
<1>9. ASSUME NEW r \in Runs, Discard(r) PROVE TypeOK'
  BY <1>9 DEF Discard
<1>10. ASSUME DiscardFinished PROVE TypeOK'
  BY <1>10 DEF DiscardFinished
<1>11. ASSUME NEW w \in Workers, Poll(w) PROVE TypeOK'
  BY <1>11 DEF Poll
<1>12. ASSUME NEW w \in Workers, Claim(w) PROVE TypeOK'
  BY <1>12 DEF Claim, IsFirstQueued
<1>13. ASSUME NEW w \in Workers, ClaimNothing(w) PROVE TypeOK'
  BY <1>13 DEF ClaimNothing
<1>14. ASSUME NEW w \in Workers, FetchMetadata(w) PROVE TypeOK'
  BY <1>14 DEF FetchMetadata
<1>15. ASSUME NEW w \in Workers, PipelineSucceeds(w) PROVE TypeOK'
  BY <1>15 DEF PipelineSucceeds
<1>16. ASSUME NEW w \in Workers, PipelineFails(w) PROVE TypeOK'
  BY <1>16 DEF PipelineFails, FailRun, Settle
<1>17. ASSUME NEW w \in Workers, PipelineStops(w) PROVE TypeOK'
  BY <1>17 DEF PipelineStops, FailRun, Settle
<1>18. ASSUME NEW w \in Workers, PipelineDies(w) PROVE TypeOK'
  BY <1>18 DEF PipelineDies, FailRun, Settle
<1>19. ASSUME NEW w \in Workers, PauseQueue(w) PROVE TypeOK'
  BY <1>19 DEF PauseQueue
<1>20. ASSUME NEW w \in Workers, ReleaseDying(w) PROVE TypeOK'
  BY <1>20 DEF ReleaseDying
<1>21. ASSUME NEW w \in Workers, SaveHistory(w) PROVE TypeOK'
  BY <1>21 DEF SaveHistory
<1>22. ASSUME NEW w \in Workers, HistoryFails(w) PROVE TypeOK'
  BY <1>22 DEF HistoryFails, FailRun, Settle
<1>23. ASSUME NEW w \in Workers, Upload(w) PROVE TypeOK'
  BY <1>23 DEF Upload
<1>24. ASSUME NEW w \in Workers, Finish(w) PROVE TypeOK'
  BY <1>24 DEF Finish, Settle
<1>25. ASSUME BlockToggle PROVE TypeOK'
  BY <1>25 DEF BlockToggle
<1>26. ASSUME NEW w \in Workers, DrainDies(w) PROVE TypeOK'
  BY <1>26 DEF DrainDies
<1>27. CASE UNCHANGED vars
  BY <1>27 DEF vars
<1> QED
  BY <1>1, <1>2, <1>3, <1>4, <1>5, <1>6, <1>7, <1>8, <1>9, <1>10, <1>11,
     <1>12, <1>13, <1>14, <1>15, <1>16, <1>17, <1>18, <1>19, <1>20, <1>21,
     <1>22, <1>23, <1>24, <1>25, <1>26, <1>27
  DEF Next, QueueNext, Click, PageStep, WorkerStep, WorkerGoesOn

\* Every step keeps one holder of the slot and loses no wakeup.  Queued stays
\* folded: each step first says what it does to the waiting runs.
LEMMA SlotStep == ASSUME IndInv, [Next]_vars PROVE SlotInv'
<1> USE RunsAssumption DEF IndInv, TypeOK, Statuses, PagePcs, WorkerPcs,
        WorkingPcs, SlotInv, OneWorker, PauseHasWaiting, NoLostWakeup,
        BrokenThreadsLeaveMark, HoldingPages, HoldingWorkers, WakeupPending,
        queueVars, pageVars, workerVars
<1>1. ASSUME NEW p \in Pages, Enqueue(p) PROVE SlotInv'
  <2>1. Queued' # {}
    BY <1>1 DEF Enqueue, Queued, PagesHoldNewRuns
  <2> QED BY <1>1, <2>1 DEF Enqueue
<1>2. ASSUME NEW p \in Pages, AcquireWorker(p) PROVE SlotInv'
  <2>1. Queued' = Queued
    BY <1>2 DEF AcquireWorker, Queued
  <2>2. CASE WorkerNeeded
    <3>1. pagePc' = [pagePc EXCEPT ![p] = "spawning"] /\ workerActive'
      BY <1>2, <2>2 DEF AcquireWorker
    <3> QED BY <1>2, <2>1, <2>2, <3>1 DEF AcquireWorker, WorkerNeeded
  <2>3. CASE ~WorkerNeeded
    <3>1. pagePc' = [pagePc EXCEPT ![p] = "idle"]
      BY <1>2, <2>3 DEF AcquireWorker
    <3>2. workerActive' = workerActive
      BY <1>2, <2>3 DEF AcquireWorker
    <3> QED BY <1>2, <2>1, <2>3, <3>1, <3>2 DEF AcquireWorker, WorkerNeeded
  <2> QED BY <2>2, <2>3
<1>3. ASSUME NEW p \in Pages, StartThread(p) PROVE SlotInv'
  <2>1. Queued' = Queued
    BY <1>3 DEF Queued, StartThread
  <2> QED BY <1>3, <2>1 DEF StartThread
<1>4. ASSUME NEW p \in Pages, StartFails(p) PROVE SlotInv'
  <2>1. Queued' = Queued
    BY <1>4 DEF Queued, StartFails
  <2> QED BY <1>4, <2>1 DEF StartFails
<1>5. ASSUME NEW p \in Pages, ReleaseUnstarted(p) PROVE SlotInv'
  <2>1. Queued' = Queued
    BY <1>5 DEF Queued, ReleaseUnstarted
  <2> QED BY <1>5, <2>1 DEF ReleaseUnstarted
<1>6. ASSUME NEW p \in Pages, Resume(p) PROVE SlotInv'
  <2>1. Queued' = Queued /\ ~paused'
    BY <1>6 DEF Resume, Queued
  <2>2. CASE ~workerActive /\ Queued # {}
    <3>1. pagePc' = [pagePc EXCEPT ![p] = "spawning"] /\ workerActive'
      BY <1>6, <2>2 DEF Resume
    <3> QED BY <1>6, <2>1, <2>2, <3>1 DEF Resume
  <2>3. CASE workerActive \/ Queued = {}
    <3>1. pagePc' = [pagePc EXCEPT ![p] = "idle"]
      BY <1>6, <2>3 DEF Resume
    <3>2. workerActive' = workerActive
      BY <1>6, <2>3 DEF Resume
    <3> QED BY <1>6, <2>1, <2>3, <3>1, <3>2 DEF Resume
  <2> QED BY <2>2, <2>3
<1>7. ASSUME NEW p \in Pages, NEW r \in Runs, Check(p, r) PROVE SlotInv'
  <2>1. Queued' = Queued
    BY <1>7 DEF Queued, Check
  <2> QED BY <1>7, <2>1 DEF Check
<1>8. ASSUME NEW r \in Runs, Cancel(r) PROVE SlotInv'
  <2>1. Queued' = Queued \ {r}
    BY <1>8 DEF Cancel, Queued
  <2>2. CASE Queued = {r}
    <3>1. ~paused'
      BY <1>8, <2>2 DEF Cancel
    <3> QED BY <1>8, <2>1, <2>2, <3>1 DEF Cancel
  <2>3. CASE Queued # {r}
    <3>1. paused' = paused
      BY <1>8, <2>3 DEF Cancel
    <3>2. Queued # {} => Queued' # {}
      BY <1>8, <2>1, <2>3
    <3> QED BY <1>8, <2>1, <2>3, <3>1, <3>2 DEF Cancel
  <2> QED BY <2>2, <2>3
<1>9. ASSUME NEW r \in Runs, Discard(r) PROVE SlotInv'
  <2>1. Queued' = Queued
    BY <1>9 DEF Queued, Discard, Finished
  <2> QED BY <1>9, <2>1 DEF Discard, Finished
<1>10. ASSUME DiscardFinished PROVE SlotInv'
  <2>1. Queued' = Queued
    BY <1>10 DEF Queued, DiscardFinished, Finished
  <2> QED BY <1>10, <2>1 DEF DiscardFinished, Finished
<1>11. ASSUME NEW w \in Workers, Poll(w) PROVE SlotInv'
  <2>1. Queued' = Queued
    BY <1>11 DEF Queued, Poll
  <2> QED BY <1>11, <2>1 DEF Poll
<1>12. ASSUME NEW w \in Workers, Claim(w) PROVE SlotInv'
  <2>1. workerActive /\ ~paused'
    BY <1>12 DEF Claim
  <2> QED BY <1>12, <2>1 DEF Claim
<1>13. ASSUME NEW w \in Workers, ClaimNothing(w) PROVE SlotInv'
  <2>1. Queued' = Queued
    BY <1>13 DEF Queued, ClaimNothing
  <2> QED BY <1>13, <2>1 DEF ClaimNothing
<1>14. ASSUME NEW w \in Workers, FetchMetadata(w) PROVE SlotInv'
  <2>1. Queued' = Queued
    BY <1>14 DEF Queued, FetchMetadata
  <2> QED BY <1>14, <2>1 DEF FetchMetadata
<1>15. ASSUME NEW w \in Workers, PipelineSucceeds(w) PROVE SlotInv'
  <2>1. Queued' = Queued
    BY <1>15 DEF Queued, PipelineSucceeds
  <2> QED BY <1>15, <2>1 DEF PipelineSucceeds
<1>16. ASSUME NEW w \in Workers, PipelineFails(w) PROVE SlotInv'
  <2>1. Queued' = Queued
    BY <1>16 DEF Queued, PipelineFails, FailRun, Settle, RunningIsWorked, Working
  <2> QED BY <1>16, <2>1 DEF PipelineFails, FailRun, Settle
<1>17. ASSUME NEW w \in Workers, PipelineStops(w) PROVE SlotInv'
  <2>1. Queued' = Queued
    BY <1>17 DEF Queued, PipelineStops, FailRun, Settle, RunningIsWorked, Working
  <2> QED BY <1>17, <2>1 DEF PipelineStops, FailRun, Settle
<1>18. ASSUME NEW w \in Workers, PipelineDies(w) PROVE SlotInv'
  <2>1. Queued' = Queued
    BY <1>18 DEF Queued, PipelineDies, FailRun, Settle, RunningIsWorked, Working
  <2> QED BY <1>18, <2>1 DEF PipelineDies, FailRun, Settle
<1>19. ASSUME NEW w \in Workers, PauseQueue(w) PROVE SlotInv'
  <2>1. Queued' = Queued
    BY <1>19 DEF Queued, PauseQueue
  <2> QED BY <1>19, <2>1 DEF PauseQueue
<1>20. ASSUME NEW w \in Workers, ReleaseDying(w) PROVE SlotInv'
  <2>1. Queued' = Queued
    BY <1>20 DEF Queued, ReleaseDying
  <2> QED BY <1>20, <2>1 DEF ReleaseDying
<1>21. ASSUME NEW w \in Workers, SaveHistory(w) PROVE SlotInv'
  <2>1. Queued' = Queued
    BY <1>21 DEF Queued, SaveHistory
  <2> QED BY <1>21, <2>1 DEF SaveHistory
<1>22. ASSUME NEW w \in Workers, HistoryFails(w) PROVE SlotInv'
  <2>1. Queued' = Queued
    BY <1>22 DEF Queued, HistoryFails, FailRun, Settle, RunningIsWorked, Working
  <2> QED BY <1>22, <2>1 DEF HistoryFails, FailRun, Settle
<1>23. ASSUME NEW w \in Workers, Upload(w) PROVE SlotInv'
  <2>1. Queued' = Queued
    BY <1>23 DEF Queued, Upload
  <2> QED BY <1>23, <2>1 DEF Upload
<1>24. ASSUME NEW w \in Workers, Finish(w) PROVE SlotInv'
  <2>1. Queued' = Queued
    BY <1>24 DEF Queued, Finish, Settle, RunningIsWorked, Working
  <2> QED BY <1>24, <2>1 DEF Finish, Settle
<1>25. ASSUME BlockToggle PROVE SlotInv'
  <2>1. Queued' = Queued
    BY <1>25 DEF Queued, BlockToggle
  <2> QED BY <1>25, <2>1 DEF BlockToggle
<1>26. ASSUME NEW w \in Workers, DrainDies(w) PROVE SlotInv'
  <2>1. Queued' = Queued
    BY <1>26 DEF Queued, DrainDies
  <2> QED BY <1>26, <2>1 DEF DrainDies
<1>27. CASE UNCHANGED vars
  BY <1>27 DEF vars, Queued
<1> QED
  BY <1>1, <1>2, <1>3, <1>4, <1>5, <1>6, <1>7, <1>8, <1>9, <1>10, <1>11,
     <1>12, <1>13, <1>14, <1>15, <1>16, <1>17, <1>18, <1>19, <1>20, <1>21,
     <1>22, <1>23, <1>24, <1>25, <1>26, <1>27
  DEF Next, QueueNext, Click, PageStep, WorkerStep, WorkerGoesOn

\* Every step keeps a worker for each running row, and outcomes that match the
\* history.  OneWorker excludes a second worker on the same run.
LEMMA WorkStep == ASSUME IndInv, [Next]_vars PROVE WorkInv'
<1> USE RunsAssumption DEF IndInv, TypeOK, Statuses, PagePcs, WorkerPcs,
        WorkingPcs, queueVars, pageVars, workerVars, RunningIsWorked,
        WorkersHoldClaimedRuns, UnservedNotRecorded, OutcomeMatchesHistory,
        Working, RecordedPcs, OneWorker, HoldingWorkers, PagesHoldNewRuns
<1>1. ASSUME NEW p \in Pages, PageStep(p) PROVE WorkInv'
  <2>1. RunningIsWorked' /\ WorkersHoldClaimedRuns'
    BY <1>1 DEF PageStep, Enqueue, AcquireWorker, StartThread, StartFails,
         ReleaseUnstarted
  <2>2. UnservedNotRecorded' /\ OutcomeMatchesHistory'
    BY <1>1 DEF PageStep, Enqueue, AcquireWorker, StartThread, StartFails,
         ReleaseUnstarted
  <2> QED BY <2>1, <2>2 DEF WorkInv
<1>2. ASSUME Click PROVE WorkInv'
  <2>1. RunningIsWorked' /\ WorkersHoldClaimedRuns'
    BY <1>2 DEF Click, Check, Resume, Cancel, Discard, DiscardFinished,
         Finished
  <2>2. UnservedNotRecorded' /\ OutcomeMatchesHistory'
    BY <1>2 DEF Click, Check, Resume, Cancel, Discard, DiscardFinished,
         Finished
  <2> QED BY <2>1, <2>2 DEF WorkInv
<1>3. ASSUME NEW w \in Workers, WorkerStep(w) PROVE WorkInv'
  <2>1. RunningIsWorked' /\ WorkersHoldClaimedRuns'
    BY <1>3 DEF WorkerStep, WorkerGoesOn, Poll, Claim, ClaimNothing, DrainDies,
         FetchMetadata,
         PipelineSucceeds, PipelineFails, PipelineStops, PipelineDies,
         PauseQueue, ReleaseDying, SaveHistory, HistoryFails, Upload,
         Finish, FailRun, Settle, IsFirstQueued
  <2>2. UnservedNotRecorded' /\ OutcomeMatchesHistory'
    BY <1>3 DEF WorkerStep, WorkerGoesOn, Poll, Claim, ClaimNothing, DrainDies,
         FetchMetadata,
         PipelineSucceeds, PipelineFails, PipelineStops, PipelineDies,
         PauseQueue, ReleaseDying, SaveHistory, HistoryFails, Upload,
         Finish, FailRun, Settle, IsFirstQueued
  <2> QED BY <2>1, <2>2 DEF WorkInv
<1>4. ASSUME BlockToggle PROVE WorkInv'
  BY <1>4 DEF BlockToggle, WorkInv
<1>5. CASE UNCHANGED vars
  BY <1>5 DEF vars, WorkInv
<1> QED BY <1>1, <1>2, <1>3, <1>4, <1>5 DEF Next, QueueNext

\* Every step keeps new runs apart from enqueued ones, and tickets in order.
LEMMA TableStep == ASSUME IndInv, [Next]_vars PROVE TableInv'
<1> USE RunsAssumption DEF IndInv, TypeOK, Statuses, PagePcs, WorkerPcs,
        WorkingPcs, queueVars, pageVars, workerVars, PagesHoldNewRuns,
        TicketsInOrder, RunningIsWorked, Working
<1>1. ASSUME NEW p \in Pages, PageStep(p) PROVE TableInv'
  <2>1. PagesHoldNewRuns'
    BY <1>1 DEF PageStep, Enqueue, AcquireWorker, StartThread, StartFails,
         ReleaseUnstarted
  <2>2. TicketsInOrder'
    BY <1>1 DEF PageStep, Enqueue, AcquireWorker, StartThread, StartFails,
         ReleaseUnstarted
  <2> QED BY <2>1, <2>2 DEF TableInv
<1>2. ASSUME Click PROVE TableInv'
  <2>1. PagesHoldNewRuns'
    BY <1>2 DEF Click, Check, Resume, Cancel, Discard, DiscardFinished,
         Finished
  <2>2. TicketsInOrder'
    BY <1>2 DEF Click, Check, Resume, Cancel, Discard, DiscardFinished,
         Finished
  <2> QED BY <2>1, <2>2 DEF TableInv
<1>3. ASSUME NEW w \in Workers, WorkerStep(w) PROVE TableInv'
  <2>1. PagesHoldNewRuns'
    BY <1>3 DEF WorkerStep, WorkerGoesOn, Poll, Claim, ClaimNothing, DrainDies,
         FetchMetadata,
         PipelineSucceeds, PipelineFails, PipelineStops, PipelineDies,
         PauseQueue, ReleaseDying, SaveHistory, HistoryFails, Upload,
         Finish, FailRun, Settle, IsFirstQueued
  <2>2. TicketsInOrder'
    BY <1>3 DEF WorkerStep, WorkerGoesOn, Poll, Claim, ClaimNothing, DrainDies,
         FetchMetadata,
         PipelineSucceeds, PipelineFails, PipelineStops, PipelineDies,
         PauseQueue, ReleaseDying, SaveHistory, HistoryFails, Upload,
         Finish, FailRun, Settle, IsFirstQueued
  <2> QED BY <2>1, <2>2 DEF TableInv
<1>4. ASSUME BlockToggle PROVE TableInv'
  BY <1>4 DEF BlockToggle, TableInv
<1>5. CASE UNCHANGED vars
  BY <1>5 DEF vars, TableInv
<1> QED BY <1>1, <1>2, <1>3, <1>4, <1>5 DEF Next, QueueNext

\* Every reachable state satisfies the inductive invariant.
THEOREM Inductive == Spec => []IndInv
<1>1. IndInv /\ [Next]_vars => IndInv'
  BY TypeStep, SlotStep, WorkStep, TableStep
  DEF IndInv, SlotInv, WorkInv, TableInv
<1> QED BY InitIndInv, <1>1, PTL DEF Spec

\* A worker's counter is always at a step of runner._work, and a row has one of
\* its six statuses, whatever fails.
THEOREM QueueTypeOK == Spec => []TypeOK
  BY Inductive, PTL DEF IndInv

\* run_registry.py:12-14, for any number of tabs: the worker slot is taken
\* exactly while one page or one thread holds it, so there are never two
\* workers.
THEOREM NeverTwoWorkers == Spec => []OneWorker
  BY Inductive, PTL DEF IndInv

\* run_registry.py:12-14: nor is there none.  Unless a thread was lost, a run
\* waiting in a queue that is not paused is about to be looked at.
THEOREM NeverNoWorker == Spec => []NoLostWakeup
  BY Inductive, PTL DEF IndInv

\* run_registry.py pause and cancel: the pause never outlives the waiting runs.
THEOREM PauseIsForSomething == Spec => []PauseHasWaiting
  BY Inductive, PTL DEF IndInv

\* runner.py _work: a row is "running" only while a worker works on it, and the
\* worker never works on a run that was cancelled before it was claimed.
THEOREM NoOrphanedRun == Spec => []RunningIsWorked
  BY Inductive, PTL DEF IndInv

\* runner.py _work: the outcome in the table never contradicts the history.
THEOREM OutcomeAgrees == Spec => []OutcomeMatchesHistory
  BY Inductive, PTL DEF IndInv

-----------------------------------------------------------------------------

\* One browser tab, as the design assumes.
OnePage == \E p : Pages = {p}

\* No run about video v waits or runs.
Unasked(v) == \A r \in Runs : VideoOf[r] = v => status[r] \notin Pending

\* A page that has passed the duplicate check may still rely on it.
CheckHolds == \A p \in Pages : pagePc[p] = "checked" => Unasked(VideoOf[pageRun[p]])

\* Only registry.enqueue makes a run pending.
LEMMA NobodyElseEnqueues ==
  ASSUME IndInv, [Next]_vars, \A p \in Pages : ~Enqueue(p),
         NEW r \in Runs, status'[r] \in Pending
  PROVE  status[r] \in Pending
<1> USE DEF IndInv, TypeOK, Statuses, Pending, queueVars
<1>1. ASSUME NEW p \in Pages, PageStep(p) PROVE status[r] \in Pending
  BY <1>1 DEF PageStep, AcquireWorker, StartThread, StartFails, ReleaseUnstarted
<1>2. ASSUME Click PROVE status[r] \in Pending
  BY <1>2 DEF Click, Check, Resume, Cancel, Discard, DiscardFinished, Finished
<1>3. ASSUME NEW w \in Workers, WorkerStep(w) PROVE status[r] \in Pending
  BY <1>3 DEF WorkerStep, WorkerGoesOn, Poll, Claim, ClaimNothing, DrainDies,
         FetchMetadata,
       PipelineSucceeds, PipelineFails, PipelineStops, PipelineDies,
       PauseQueue, ReleaseDying, SaveHistory, HistoryFails, Upload,
       Finish, FailRun, Settle, IsFirstQueued
<1>4. CASE BlockToggle \/ UNCHANGED vars
  BY <1>4 DEF BlockToggle, vars
<1> QED BY <1>1, <1>2, <1>3, <1>4 DEF Next, QueueNext

\* Pages pass the check only for a video that nobody asks about.
LEMMA ChecksAreMade ==
  ASSUME IndInv, [Next]_vars, NEW p \in Pages, pagePc'[p] = "checked"
  PROVE  \/ pagePc[p] = "checked" /\ pageRun'[p] = pageRun[p]
         \/ Unasked(VideoOf[pageRun'[p]])
<1> DEFINE Goal == \/ pagePc[p] = "checked" /\ pageRun'[p] = pageRun[p]
                   \/ Unasked(VideoOf[pageRun'[p]])
<1> USE DEF IndInv, TypeOK, PagePcs, pageVars
<1>1. ASSUME NEW q \in Pages, PageStep(q) PROVE Goal
  BY <1>1 DEF PageStep, Enqueue, AcquireWorker, StartThread, StartFails,
       ReleaseUnstarted
<1>2. ASSUME NEW q \in Pages, NEW r \in Runs, Check(q, r) PROVE Goal
  BY <1>2 DEF Check, IsPending, Unasked
<1>3. ASSUME NEW q \in Pages, Resume(q) PROVE Goal
  BY <1>3 DEF Resume
<1>4. ASSUME NEW r \in Runs, Cancel(r) \/ Discard(r) PROVE Goal
  BY <1>4 DEF Cancel, Discard
<1>5. CASE DiscardFinished
  BY <1>5 DEF DiscardFinished
<1>6. ASSUME NEW w \in Workers, WorkerStep(w) PROVE Goal
  BY <1>6 DEF WorkerStep, WorkerGoesOn, Poll, Claim, ClaimNothing, DrainDies,
         FetchMetadata,
       PipelineSucceeds, PipelineFails, PipelineStops, PipelineDies,
       PauseQueue, ReleaseDying, SaveHistory, HistoryFails, Upload,
       Finish, FailRun
<1>7. CASE BlockToggle \/ UNCHANGED vars
  BY <1>7 DEF BlockToggle, vars
<1> QED BY <1>1, <1>2, <1>3, <1>4, <1>5, <1>6, <1>7 DEF Next, QueueNext, Click

\* With one page nothing is enqueued between its check and its enqueue.
LEMMA OnePageStep ==
  ASSUME OnePage, IndInv, CheckHolds, NoDuplicatePending, [Next]_vars
  PROVE  CheckHolds' /\ NoDuplicatePending'
<1>1. CASE \A p \in Pages : ~Enqueue(p)
  <2>1. \A r \in Runs : status'[r] \in Pending => status[r] \in Pending
    BY <1>1, NobodyElseEnqueues
  <2>2. ASSUME NEW p \in Pages, pagePc'[p] = "checked"
        PROVE  Unasked(VideoOf[pageRun[p]])'
    <3>1. Unasked(VideoOf[pageRun'[p]])
      BY <2>2, ChecksAreMade DEF CheckHolds
    <3> QED BY <2>1, <3>1 DEF Unasked, Pending
  <2>3. CheckHolds'
    BY <2>2 DEF CheckHolds
  <2>4. NoDuplicatePending'
    BY <2>1 DEF NoDuplicatePending, Pending
  <2> QED BY <2>3, <2>4
<1>2. ASSUME NEW p \in Pages, Enqueue(p) PROVE CheckHolds' /\ NoDuplicatePending'
  <2>1. \A q \in Pages : q = p
    BY DEF OnePage
  <2>2. pagePc'[p] = "enqueued"
    BY <1>2 DEF Enqueue, IndInv, TypeOK
  <2>3. CheckHolds'
    BY <2>1, <2>2 DEF CheckHolds
  <2>4. /\ Unasked(VideoOf[pageRun[p]])
        /\ status' = [status EXCEPT ![pageRun[p]] = "queued"]
    BY <1>2 DEF Enqueue, CheckHolds
  <2>5. NoDuplicatePending'
    BY <2>4 DEF NoDuplicatePending, Unasked, Pending, IndInv, TypeOK
  <2> QED BY <2>3, <2>5
<1> QED BY <1>1, <1>2

\* pages/ask.py _enqueue: the check and the enqueue are two calls; with one tab
\* nobody comes between, so no two pending runs are about one video.
THEOREM OnePageNoDuplicate ==
  ASSUME OnePage PROVE Spec => []NoDuplicatePending
<1>1. Init => CheckHolds /\ NoDuplicatePending
  BY DEF Init, CheckHolds, NoDuplicatePending, Pending
<1>2. IndInv /\ CheckHolds /\ NoDuplicatePending /\ [Next]_vars
        => CheckHolds' /\ NoDuplicatePending'
  BY OnePageStep
<1> QED BY Inductive, <1>1, <1>2, PTL DEF Spec

-----------------------------------------------------------------------------
(* Facts about single runs, for the modules that use the queue. *)

\* Run r is in NotebookLM.
InPipeline(r) == \E w \in Workers : workerPc[w] = "pipeline" /\ workerRun[w] = r

\* Run r has got there, or never will.
Begun(r) ==
  /\ status[r] \notin {"new", "queued"}
  /\ \A w \in Workers : ~(workerPc[w] = "metadata" /\ workerRun[w] = r)

\* A worker asks about runs that it has claimed.
LEMMA PipelineIsBegun ==
  ASSUME IndInv, NEW r \in Runs, InPipeline(r)
  PROVE  Begun(r)
BY DEF InPipeline, Begun, IndInv, OneWorker, HoldingWorkers, RunningIsWorked,
       Working, WorkingPcs

\* A row that was hidden stays hidden.
LEMMA GoneStays ==
  ASSUME IndInv, [Next]_vars, NEW r \in Runs, status[r] = "gone"
  PROVE  status'[r] = "gone"
<1> USE DEF IndInv, TypeOK, Statuses, queueVars
<1>1. ASSUME NEW p \in Pages, PageStep(p) PROVE status'[r] = "gone"
  BY <1>1 DEF PageStep, Enqueue, AcquireWorker, StartThread, StartFails,
       ReleaseUnstarted, PagesHoldNewRuns
<1>2. ASSUME Click PROVE status'[r] = "gone"
  BY <1>2 DEF Click, Check, Resume, Cancel, Discard, DiscardFinished, Finished
<1>3. ASSUME NEW w \in Workers, WorkerStep(w) PROVE status'[r] = "gone"
  BY <1>3 DEF WorkerStep, WorkerGoesOn, Poll, Claim, ClaimNothing, DrainDies,
         FetchMetadata,
       PipelineSucceeds, PipelineFails, PipelineStops, PipelineDies,
       PauseQueue, ReleaseDying, SaveHistory, HistoryFails, Upload,
       Finish, FailRun, Settle, IsFirstQueued
<1>4. CASE BlockToggle \/ UNCHANGED vars
  BY <1>4 DEF BlockToggle, vars
<1> QED BY <1>1, <1>2, <1>3, <1>4 DEF Next, QueueNext

\* No run is enqueued twice, nor claimed twice.
LEMMA BegunStays ==
  ASSUME IndInv, [Next]_vars, NEW r \in Runs, Begun(r)
  PROVE  Begun(r)' /\ (InPipeline(r)' => InPipeline(r))
<1> DEFINE Goal == Begun(r)' /\ (InPipeline(r)' => InPipeline(r))
<1> USE DEF IndInv, TypeOK, Statuses, queueVars, workerVars, Begun, InPipeline
<1>1. ASSUME NEW p \in Pages, PageStep(p) PROVE Goal
  BY <1>1 DEF PageStep, Enqueue, AcquireWorker, StartThread, StartFails,
       ReleaseUnstarted, PagesHoldNewRuns
<1>2. ASSUME Click PROVE Goal
  BY <1>2 DEF Click, Check, Resume, Cancel, Discard, DiscardFinished, Finished
<1>3. ASSUME NEW w \in Workers, WorkerStep(w) PROVE Goal
  BY <1>3, RunsAssumption
     DEF WorkerStep, WorkerGoesOn, Poll, Claim, ClaimNothing, DrainDies,
         FetchMetadata,
       PipelineSucceeds, PipelineFails, PipelineStops, PipelineDies,
       PauseQueue, ReleaseDying, SaveHistory, HistoryFails, Upload,
       Finish, FailRun, Settle, IsFirstQueued
<1>4. CASE BlockToggle \/ UNCHANGED vars
  BY <1>4 DEF BlockToggle, vars
<1> QED BY <1>1, <1>2, <1>3, <1>4 DEF Next, QueueNext

\* While no run is active, only hidden ones are in NotebookLM.
LEMMA InactiveIsHidden ==
  ASSUME IndInv, ~IsActive, NEW r \in Runs, InPipeline(r)
  PROVE  status[r] = "gone"
BY DEF InPipeline, IsActive, IndInv, RunningIsWorked, Working, WorkingPcs

-----------------------------------------------------------------------------

\* No run is waiting, served or recorded at first.
LEMMA InitRefines == Init => Fifo!Init
  BY RunsAssumption DEF Init, Fifo!Init, Queued, Serving, Working, WorkingPcs

\* Every step of the queue is a step of SerialFifo or leaves it alone: enqueue
\* arrives, cancel leaves, claim_next serves, save_history records, finish and
\* fail complete.
LEMMA StepRefines ==
  ASSUME IndInv, [Next]_vars
  PROVE  [Fifo!Next]_(Fifo!vars)
<1> USE RunsAssumption DEF IndInv, TypeOK, Statuses, WorkerPcs, PagePcs,
        WorkingPcs, OneWorker, HoldingWorkers, RunningIsWorked,
        Working, queueVars, pageVars, workerVars
<1>1. ASSUME NEW p \in Pages, Enqueue(p) PROVE Fifo!Next
  <2>1. pageRun[p] \in Runs /\ status[pageRun[p]] = "new"
    BY <1>1 DEF Enqueue, PagesHoldNewRuns
  <2>2. Fifo!Arrive(pageRun[p])
    <3>1. Queued' = Queued \union {pageRun[p]}
      BY <1>1, <2>1 DEF Enqueue, Queued
    <3>2. Serving' = Serving
      BY <1>1 DEF Enqueue, Serving
    <3>3. /\ ticket' \in [Runs -> Nat]
          /\ \A r \in Runs : ticket[r] < ticket'[pageRun[p]]
          /\ \A r \in Runs \ {pageRun[p]} : ticket'[r] = ticket[r]
          /\ ticket[pageRun[p]] = 0
      BY <1>1, <2>1 DEF Enqueue, TicketsInOrder
    <3> QED BY <1>1, <3>1, <3>2, <3>3 DEF Enqueue, Fifo!Arrive
  <2> QED BY <2>1, <2>2 DEF Fifo!Next
<1>2. ASSUME NEW r \in Runs, Cancel(r) PROVE Fifo!Next
  <2>1. Queued' = Queued \ {r} /\ r \in Queued
    BY <1>2 DEF Cancel, Queued
  <2>2. Serving' = Serving
    BY <1>2 DEF Cancel, Serving
  <2> QED BY <1>2, <2>1, <2>2 DEF Cancel, Fifo!Leave, Fifo!Next
<1>3. ASSUME NEW w \in Workers, Claim(w) PROVE Fifo!Next
  <2>1. PICK r \in Runs : /\ IsFirstQueued(r)
                          /\ status' = [status EXCEPT ![r] = "running"]
                          /\ workerRun' = [workerRun EXCEPT ![w] = r]
    BY <1>3 DEF Claim
  <2>2. Serving = {}
    BY <1>3 DEF Claim, Serving
  <2>3. Serving' = {r}
    BY <1>3, <2>1 DEF Claim, Serving
  <2>4. Queued' = Queued \ {r}
    BY <2>1 DEF Queued
  <2>5. r \in Queued /\ \A s \in Queued : ticket[r] <= ticket[s]
    BY <2>1 DEF IsFirstQueued, Queued
  <2>6. Fifo!Serve(r)
    BY <1>3, <2>2, <2>3, <2>4, <2>5 DEF Claim, Fifo!Serve
  <2> QED BY <2>6 DEF Fifo!Next
<1>4. ASSUME NEW w \in Workers, SaveHistory(w) PROVE Fifo!Next
  <2>1. Serving = {workerRun[w]} /\ workerRun[w] \in Runs
    BY <1>4 DEF SaveHistory, Serving
  <2>2. Serving' = Serving
    BY <1>4 DEF SaveHistory, Serving
  <2>3. Queued' = Queued
    BY <1>4 DEF SaveHistory, Queued
  <2> QED BY <1>4, <2>1, <2>2, <2>3 DEF SaveHistory, Fifo!Record, Fifo!Next
<1>5. ASSUME NEW w \in Workers, NEW next \in {"poll", "pausing", "dying"},
             Working(w), workerPc' = [workerPc EXCEPT ![w] = next],
             workerRun' = [workerRun EXCEPT ![w] = NoRun],
             status' = status \/ \E s \in {"done", "failed"} : 
                       status' = [status EXCEPT ![workerRun[w]] = s],
             UNCHANGED <<ticket, history>>
      PROVE  Fifo!Next
  <2>1. Serving = {workerRun[w]} /\ workerRun[w] \in Runs
    BY <1>5 DEF Serving
  <2>2. Serving' = {}
    BY <1>5 DEF Serving
  <2>3. Queued' = Queued
    BY <1>5 DEF Queued
  <2> QED BY <1>5, <2>1, <2>2, <2>3 DEF Fifo!Complete, Fifo!Next
<1>6. ASSUME NEW w \in Workers,
             \/ PipelineFails(w) \/ PipelineStops(w) \/ PipelineDies(w)
             \/ HistoryFails(w) \/ Finish(w)
      PROVE  Fifo!Next
  BY <1>5, <1>6 DEF PipelineFails, PipelineStops, PipelineDies, HistoryFails,
       Finish, FailRun, Settle
<1>7. ASSUME UNCHANGED <<ticket, history, workerRun>>, Queued' = Queued,
             \A w \in Workers : Working(w)' <=> Working(w)
      PROVE  UNCHANGED Fifo!vars
  BY <1>7 DEF Fifo!vars, Serving
<1>8. ASSUME NEW p \in Pages,
             \/ AcquireWorker(p) \/ StartThread(p) \/ StartFails(p)
             \/ ReleaseUnstarted(p) \/ Resume(p)
             \/ \E r \in Runs : Check(p, r)
      PROVE  UNCHANGED Fifo!vars
  BY <1>7, <1>8 DEF Queued, AcquireWorker, StartThread, StartFails,
       ReleaseUnstarted, Resume, Check
<1>9. ASSUME (\E r \in Runs : Discard(r)) \/ DiscardFinished \/ BlockToggle
      PROVE  UNCHANGED Fifo!vars
  BY <1>7, <1>9 DEF Queued, Discard, DiscardFinished, Finished, BlockToggle
<1>10. ASSUME NEW w \in Workers,
              \/ Poll(w) \/ ClaimNothing(w) \/ DrainDies(w) \/ FetchMetadata(w)
              \/ PipelineSucceeds(w) \/ PauseQueue(w) \/ ReleaseDying(w)
              \/ Upload(w)
       PROVE  UNCHANGED Fifo!vars
  BY <1>7, <1>10 DEF Queued, Poll, ClaimNothing, DrainDies, FetchMetadata,
       PipelineSucceeds, PauseQueue, ReleaseDying, Upload
<1>11. CASE UNCHANGED vars
  BY <1>7, <1>11 DEF vars, Queued
<1>12. CASE \E p \in Pages : PageStep(p)
  BY <1>1, <1>8, <1>12 DEF PageStep
<1>13. CASE Click
  BY <1>2, <1>8, <1>9, <1>13 DEF Click
<1>14. CASE \E w \in Workers : WorkerStep(w)
  BY <1>3, <1>4, <1>6, <1>10, <1>14 DEF WorkerStep, WorkerGoesOn
<1> QED BY <1>9, <1>11, <1>12, <1>13, <1>14 DEF Next, QueueNext

\* runner.py enqueue: any number of tabs and threads together serve the runs
\* one at a time and in the order they were enqueued.
THEOREM Refinement == Spec => ServesInOrder
<1>1. IndInv /\ [Next]_vars => [Fifo!Next]_(Fifo!vars)
  BY StepRefines
<1> QED BY InitRefines, Inductive, <1>1, PTL DEF Spec, ServesInOrder, Fifo!Spec
=============================================================================
