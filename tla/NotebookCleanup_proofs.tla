------------------------ MODULE NotebookCleanup_proofs ------------------------
(***************************************************************************)
(* Proofs about the use of NotebookLM: answers do not colour one another   *)
(* (Pipelines), no video is asked about twice at a time (NotebookUse), and *)
(* the clean-up page spares the notebooks in use (NotebookCleanup).        *)
(*                                                                         *)
(* What is proved of the queue and of the digest on their own holds of     *)
(* them here, because each step of the whole is a step of either, and to   *)
(* the other one nothing or a change of `blocked` or `busy`.               *)
(***************************************************************************)
EXTENDS NotebookCleanup, TLAPS

QP == INSTANCE RunQueue_proofs WITH blocked <- Blocked, faulted <- queueFaulted
DP == INSTANCE DigestSlot_proofs WITH busy <- Q!IsActive,
                                      faulted <- digestFaulted

\* The setting of the design: one tab that enqueues, one on the digest page.
OnePage == \E p : Pages = {p}
OneTab == \E t : Tabs = {t}

AnyItem == [answered : BOOLEAN, heard : Nat]

PipelineTypes ==
  /\ talk \in [Owners -> Nat]
  /\ previous \in [Owners -> BOOLEAN]
  /\ items \in [Owners -> Seq(AnyItem)]

\* A conversation that holds an answer is one the pipeline knows of, and of a
\* pipeline that is running; a digest asks in one it has not asked in.
Conversations ==
  \A o \in Owners : talk[o] # 0 =>
    /\ previous[o]
    /\ o \in InUse
    /\ o \in Drafts => Len(items[o]) # 0

AskInv == PipelineTypes /\ Conversations /\ AnswersApart

-----------------------------------------------------------------------------
\* There is no conversation at first.
LEMMA InitAskInv == CleanupInit => AskInv
<1> SUFFICES ASSUME CleanupInit PROVE AskInv
  OBVIOUS
<1> USE DEF CleanupInit, PipelinesInit
<1>1. PipelineTypes
  BY DEF PipelineTypes
<1>2. Conversations
  BY DEF Conversations
<1>3. AnswersApart
  BY DEF AnswersApart
<1> QED BY <1>1, <1>2, <1>3 DEF AskInv

\* An answer, or a failed question, at the end of the items of owner o.
LEMMA OneMoreItem ==
  ASSUME AskInv, NEW o \in Owners, NEW n \in Nat, NEW b \in BOOLEAN,
         items' = [items EXCEPT ![o] = Append(@, Item(b, n))],
         b => n = 0
  PROVE  /\ items' \in [Owners -> Seq(AnyItem)]
         /\ AnswersApart'
         /\ \A e \in Owners : Len(items'[e]) = 0 => Len(items[e]) = 0 /\ e # o
<1> USE DEF AskInv, PipelineTypes
<1>1. Item(b, n) \in AnyItem /\ Item(b, n).answered = b /\ Item(b, n).heard = n
  BY DEF Item, AnyItem
<1> DEFINE x == Item(b, n)
<1> HIDE DEF x
<1>2. items' = [items EXCEPT ![o] = Append(@, x)] /\ x \in AnyItem
      /\ x.answered = b /\ x.heard = n
  BY <1>1 DEF x
<1>3. items' \in [Owners -> Seq(AnyItem)]
  BY <1>2
<1>4. ASSUME NEW e \in Owners, NEW i \in DOMAIN items'[e],
             items'[e][i].answered
      PROVE  items'[e][i].heard = 0
  <2>1. CASE e # o
    BY <1>2, <1>4, <2>1 DEF AnswersApart
  <2>2. CASE e = o
    <3>1. items'[o] = Append(items[o], x) /\ items[o] \in Seq(AnyItem)
      BY <1>2
    <3>2. CASE i = Len(items[o]) + 1
      BY <1>2, <1>4, <2>2, <3>1, <3>2
    <3>3. CASE i \in DOMAIN items[o]
      BY <1>2, <1>4, <2>2, <3>1, <3>3 DEF AnswersApart
    <3> QED BY <1>4, <2>2, <3>1, <3>2, <3>3
  <2> QED BY <2>1, <2>2
<1>5. AnswersApart'
  BY <1>4 DEF AnswersApart
<1>6. \A e \in Owners : Len(items'[e]) = 0 => Len(items[e]) = 0 /\ e # o
  <2>1. Len(items'[o]) = Len(items[o]) + 1 /\ Len(items[o]) \in Nat
    BY <1>2
  <2>2. \A e \in Owners : e # o => items'[e] = items[e]
    BY <1>2
  <2> QED BY <2>1, <2>2
<1> QED BY <1>3, <1>5, <1>6

\* InUse is about runs and digests alone.
LEMMA InUseStays == ASSUME UNCHANGED useVars PROVE InUse' = InUse
<1>1. UNCHANGED <<workerPc, workerRun, thread>>
  BY DEF useVars, queueVars, digestVars
<1>2. Asking' = Asking
  BY <1>1 DEF Asking
<1>3. D!Building' = D!Building
  BY <1>1 DEF D!Building
<1> QED BY <1>2, <1>3 DEF InUse

\* Owner o asks: it hears n answers and leaves m behind it.
LEMMA AskStep ==
  ASSUME AskInv, UNCHANGED useVars,
         NEW o \in Owners, o \in InUse, NEW n \in Nat, NEW b \in BOOLEAN,
         NEW m \in Nat, b => n = 0, m # 0 => b,
         items' = [items EXCEPT ![o] = Append(@, Item(b, n))],
         talk' = [talk EXCEPT ![o] = m],
         previous' = [previous EXCEPT ![o] = b]
  PROVE  AskInv'
<1>1. /\ items' \in [Owners -> Seq(AnyItem)]
      /\ AnswersApart'
      /\ \A e \in Owners : Len(items'[e]) = 0 => Len(items[e]) = 0 /\ e # o
  BY OneMoreItem
<1>2. InUse' = InUse
  BY InUseStays
<1>3. talk' \in [Owners -> Nat] /\ talk'[o] = m
      /\ \A e \in Owners : e # o => talk'[e] = talk[e]
  BY DEF AskInv, PipelineTypes
<1>4. previous' \in [Owners -> BOOLEAN]
      /\ (previous'[o] <=> b)
      /\ \A e \in Owners : e # o => (previous'[e] <=> previous[e])
  BY Zenon DEF AskInv, PipelineTypes
<1>5. Conversations'
  BY <1>1, <1>2, <1>3, <1>4 DEF AskInv, Conversations
<1> QED BY <1>1, <1>3, <1>4, <1>5 DEF AskInv, PipelineTypes

\* A step of the queue or the digest, and what it does to the pipelines.
LEMMA ReclaimStep == ASSUME AskInv, Reclaim PROVE AskInv'
<1> DEFINE ended == InUse \ InUse'
           kept == InUse' \union Answered'
<1> USE DEF AskInv, PipelineTypes
<1>1. /\ items' = [o \in Owners |-> IF o \in kept THEN items[o] ELSE <<>>]
      /\ talk' = [o \in Owners |-> IF o \in ended THEN 0 ELSE talk[o]]
      /\ previous' = [o \in Owners |-> o \notin ended /\ previous[o]]
  BY DEF Reclaim
<1>2. PipelineTypes'
  <2>1. <<>> \in Seq(AnyItem)
    OBVIOUS
  <2>2. items' \in [Owners -> Seq(AnyItem)]
    BY <1>1, <2>1
  <2>3. talk' \in [Owners -> Nat]
    BY <1>1
  <2>4. previous' \in [Owners -> BOOLEAN]
    BY <1>1
  <2> QED BY <2>2, <2>3, <2>4
<1>3. AnswersApart'
  BY <1>1 DEF AnswersApart
<1>4. ASSUME NEW o \in Owners, talk'[o] # 0
      PROVE  /\ previous'[o]
             /\ o \in InUse'
             /\ o \in Drafts => Len(items'[o]) # 0
  <2>1. o \notin ended /\ talk[o] # 0
    BY <1>1, <1>4
  <2>2. previous[o] /\ o \in InUse /\ (o \in Drafts => Len(items[o]) # 0)
    BY <2>1 DEF Conversations
  <2>3. o \in InUse'
    BY <2>1, <2>2
  <2>4. items'[o] = items[o]
    BY <1>1, <2>3
  <2> QED BY <1>1, <2>1, <2>2, <2>3, <2>4
<1>5. Conversations'
  BY <1>4 DEF Conversations
<1> QED BY <1>2, <1>3, <1>5

\* Steps that change neither conversation nor answers.
LEMMA AskInvStays ==
  ASSUME AskInv, UNCHANGED useVars, UNCHANGED <<talk, previous, items>>
  PROVE  AskInv'
<1>1. InUse' = InUse
  BY InUseStays
<1> QED BY <1>1 DEF AskInv, PipelineTypes, Conversations, AnswersApart

\* Every step keeps conversations apart: a question is put in one that is
\* new or was cut off before.
LEMMA CleanupStepAskInv ==
  ASSUME AskInv, [CleanupNext]_vars PROVE AskInv'
<1>1. CASE PipelinesNext
  <2>1. ASSUME NEW o \in Owners, CreateNotebook(o) \/ AddSource(o) PROVE AskInv'
    BY <2>1, AskInvStays DEF CreateNotebook, AddSource, askVars
  <2>2. ASSUME NEW r \in Runs, AnswerQuestion(r) PROVE AskInv'
    <3>1. /\ r \in Owners /\ r \in InUse /\ UNCHANGED useVars
          /\ Answer(r, IF previous[r] THEN 0 ELSE talk[r])
      BY <2>2 DEF AnswerQuestion, MayAsk, AtWork, Owners
    <3>2. (IF previous[r] THEN 0 ELSE talk[r]) = 0
      BY <3>1 DEF AskInv, PipelineTypes, Conversations
    <3>3. Answer(r, 0)
      BY <3>1, <3>2
    <3>4. /\ items' = [items EXCEPT ![r] = Append(@, Item(TRUE, 0))]
          /\ talk' = [talk EXCEPT ![r] = 1]
          /\ previous' = [previous EXCEPT ![r] = TRUE]
      BY <3>3 DEF Answer
    <3> QED BY <3>1, <3>4, AskStep
  <2>3. ASSUME NEW r \in Runs, QuestionFails(r) PROVE AskInv'
    <3>1. /\ r \in Owners /\ r \in InUse /\ UNCHANGED useVars
          /\ items' = [items EXCEPT ![r] = Append(@, Item(FALSE, 0))]
          /\ talk' = [talk EXCEPT ![r] = IF previous[r] THEN 0 ELSE @]
          /\ previous' = [previous EXCEPT ![r] = FALSE]
      BY <2>3 DEF QuestionFails, MayAsk, AtWork, Owners
    <3>2. talk' = [talk EXCEPT ![r] = 0]
      BY <3>1 DEF AskInv, PipelineTypes, Conversations
    <3> QED BY <3>1, <3>2, AskStep
  <2>4. ASSUME NEW d \in Drafts, AskForDigest(d) PROVE AskInv'
    <3>1. /\ d \in Owners /\ d \in InUse /\ UNCHANGED useVars
          /\ Answer(d, talk[d])
          /\ Len(items[d]) < 1 /\ d \notin Runs
      BY <2>4, PipelineAssumption
         DEF AskForDigest, MayAsk, AtWork, Owners, QuestionsOf
    <3>2. Len(items[d]) \in Nat
      BY <3>1 DEF AskInv, PipelineTypes
    <3>3. talk[d] = 0
      BY <3>1, <3>2 DEF AskInv, Conversations
    <3>4. /\ items' = [items EXCEPT ![d] = Append(@, Item(TRUE, 0))]
          /\ talk' = [talk EXCEPT ![d] = 1]
          /\ previous' = [previous EXCEPT ![d] = TRUE]
      BY <3>1, <3>3 DEF Answer
    <3> QED BY <3>1, <3>4, AskStep
  <2> QED BY <1>1, <2>1, <2>2, <2>3, <2>4, ReclaimStep DEF PipelinesNext
<1>2. ASSUME NEW c \in Cleaners, Cleanup(c) PROVE AskInv'
  <2>1. UNCHANGED useVars /\ UNCHANGED <<talk, previous, items>>
    BY <1>2 DEF Cleanup, Refresh, Redraw, ReadQueue, ReadDigest, Delete,
                DeleteEnds, pipelineVars, askVars
  <2> QED BY <2>1, AskInvStays
<1>3. CASE UNCHANGED vars
  BY <1>3, AskInvStays DEF vars, pipelineVars, askVars
<1> QED BY <1>1, <1>2, <1>3 DEF CleanupNext

\* services/nlm.py: a conversation that holds an answer is known to the
\* pipeline that runs, so that it is cut off before the next question.
THEOREM AskInductive == CleanupSpec => []AskInv
<1> QED BY InitAskInv, CleanupStepAskInv, PTL DEF CleanupSpec

\* services/nlm.py: no answer of a run or a digest is given in a conversation
\* that holds another one, with any number of runs, workers, digests, tabs,
\* questions and clean-up pages, whichever questions and pipelines fail.
THEOREM EveryAnswerAlone == CleanupSpec => []AnswersApart
<1>1. AskInv => AnswersApart
  BY DEF AskInv
<1> QED BY <1>1, AskInductive, PTL

-----------------------------------------------------------------------------
(* The queue and the digest inside the whole. *)

\* The runs of the whole are runs of the queue.
LEMMA QueueAssumptions == QP!RunsAssumption
  BY UseAssumption DEF Q!RunsAssumption, QP!RunsAssumption

\* The digests of the whole are digests of the slot.
LEMMA DigestAssumptions == DP!DigestAssumption
  BY UseAssumption DEF D!DigestAssumption, DP!DigestAssumption

\* The two instances of a component are about the same variables.
LEMMA SameQueueNext == Q!QueueNext => QP!QueueNext
BY DEF
  Q!QueueNext, Q!queueVars, Q!pageVars, Q!workerVars, Q!Pending, Q!Finished,
  Q!Queued, Q!IsFirstQueued, Q!IsPending, Q!WorkerNeeded, Q!Settle, Q!FailRun,
  Q!Click, Q!Check, Q!Resume, Q!Cancel, Q!Discard, Q!DiscardFinished,
  Q!PageStep, Q!Enqueue, Q!AcquireWorker, Q!StartThread, Q!StartFails,
  Q!ReleaseUnstarted, Q!WorkerStep, Q!WorkerGoesOn, Q!Poll, Q!Claim,
  Q!ClaimNothing, Q!DrainDies,
  Q!FetchMetadata, Q!PipelineSucceeds, Q!PipelineFails, Q!PipelineStops,
  Q!PipelineDies, Q!PauseQueue, Q!ReleaseDying, Q!SaveHistory, Q!HistoryFails,
  Q!Upload, Q!Finish,
  QP!QueueNext, QP!queueVars, QP!pageVars, QP!workerVars, QP!Pending,
  QP!Finished, QP!Queued, QP!IsFirstQueued, QP!IsPending, QP!WorkerNeeded,
  QP!Settle, QP!FailRun, QP!Click, QP!Check, QP!Resume, QP!Cancel, QP!Discard,
  QP!DiscardFinished, QP!PageStep, QP!Enqueue, QP!AcquireWorker,
  QP!StartThread, QP!StartFails, QP!ReleaseUnstarted, QP!WorkerStep,
  QP!WorkerGoesOn, QP!Poll,
  QP!Claim, QP!ClaimNothing, QP!DrainDies, QP!FetchMetadata, QP!PipelineSucceeds,
  QP!PipelineFails, QP!PipelineStops, QP!PipelineDies, QP!PauseQueue,
  QP!ReleaseDying, QP!SaveHistory, QP!HistoryFails, QP!Upload, QP!Finish

\* The same for the digest.
LEMMA SameDigestNext == D!DigestNext => DP!DigestNext
BY DEF
  D!DigestNext, D!threadVars, D!tabVars, D!EmptySlot, D!Startable, D!Finished,
  D!Failed, D!ButtonsOf, D!Drawn, D!Reaction, D!Unstarted, D!Buttons,
  D!UserStep, D!Press, D!Interrupt, D!Tick, D!ScriptStep, D!ReadRunning,
  D!ReadHandle, D!Start, D!Spawn, D!SpawnFails, D!AfterCreate, D!Create,
  D!CreateFails, D!Reset, D!ResetSaved, D!BuildStep, D!BuildSucceeds,
  D!BuildFails,
  DP!DigestNext, DP!threadVars, DP!tabVars, DP!EmptySlot, DP!Startable,
  DP!Finished, DP!Failed, DP!ButtonsOf, DP!Drawn, DP!Reaction, DP!Unstarted,
  DP!Buttons, DP!UserStep, DP!Press, DP!Interrupt, DP!Tick, DP!ScriptStep,
  DP!ReadRunning, DP!ReadHandle, DP!Start, DP!Spawn, DP!SpawnFails,
  DP!AfterCreate, DP!Create, DP!CreateFails, DP!Reset, DP!ResetSaved,
  DP!BuildStep, DP!BuildSucceeds, DP!BuildFails

\* Each step of the whole is one of the queue, for which the digest's steps
\* are changes of `blocked`.
LEMMA StepOfQueue == [Next]_useVars => [QP!Next]_(QP!vars)
<1> SUFFICES ASSUME [Next]_useVars PROVE [QP!Next]_(QP!vars)
  OBVIOUS
<1> USE DEF QP!vars, QP!queueVars, QP!pageVars, QP!workerVars, queueVars
<1>1. CASE QueueStep(Q!QueueNext)
  BY <1>1, SameQueueNext DEF QueueStep, QP!Next
<1>2. CASE DigestStep(D!DigestNext)
  <2>1. UNCHANGED queueVars
    BY <1>2 DEF DigestStep
  <2>2. CASE UNCHANGED Blocked
    BY <2>1, <2>2
  <2>3. CASE Blocked' # Blocked
    <3>1. Blocked' = ~Blocked
      BY <2>3 DEF Blocked
    <3> QED BY <2>1, <3>1 DEF QP!Next, QP!BlockToggle
  <2> QED BY <2>2, <2>3
<1>3. CASE UNCHANGED useVars
  BY <1>3 DEF useVars, digestVars, Blocked
<1> QED BY <1>1, <1>2, <1>3 DEF Next

\* Each step of the whole is one of the digest, for which the queue's steps
\* are changes of `busy`.
LEMMA StepOfDigest == [Next]_useVars => [DP!Next]_(DP!vars)
<1> SUFFICES ASSUME [Next]_useVars PROVE [DP!Next]_(DP!vars)
  OBVIOUS
<1> USE DEF DP!vars, DP!threadVars, DP!tabVars, digestVars
<1>1. CASE DigestStep(D!DigestNext)
  BY <1>1, SameDigestNext DEF DigestStep, DP!Next
<1>2. CASE QueueStep(Q!QueueNext)
  <2>1. UNCHANGED digestVars
    BY <1>2 DEF QueueStep
  <2>2. CASE UNCHANGED Q!IsActive
    BY <2>1, <2>2
  <2>3. CASE Q!IsActive' # Q!IsActive
    <3>1. Q!IsActive' = ~Q!IsActive
      BY <2>3 DEF Q!IsActive
    <3> QED BY <2>1, <3>1 DEF DP!Next, DP!BusyToggle
  <2> QED BY <2>2, <2>3
<1>3. CASE UNCHANGED useVars
  BY <1>3 DEF useVars, queueVars, Q!IsActive
<1> QED BY <1>1, <1>2, <1>3 DEF Next

\* The whole begins as its parts do.
LEMMA InitOfParts == Init => QP!Init /\ DP!Init
<1>1. Init => QP!Init
  BY DEF Init, Q!Init, QP!Init, D!EmptySlot, Blocked
<1>2. Init => DP!Init
  BY DEF Init, D!Init, DP!Init, D!EmptySlot, DP!EmptySlot, Q!Init, Q!IsActive
<1> QED BY <1>1, <1>2

\* NotebookUse: the whole implements each component.
THEOREM UseImplementsParts == Spec => QP!Spec /\ DP!Spec
BY InitOfParts, StepOfQueue, StepOfDigest, PTL DEF Spec, QP!Spec, DP!Spec

\* pages/ask.py _enqueue, with one tab and the digest at work beside the queue:
\* a video is never asked about twice at a time.
THEOREM NoVideoTwice ==
  ASSUME OnePage PROVE Spec => []NoDuplicatePending
<1>0. QP!OnePage
  BY DEF OnePage, QP!OnePage
<1>1. QP!Spec => []QP!NoDuplicatePending
  BY <1>0, QP!OnePageNoDuplicate, QueueAssumptions
<1>2. QP!NoDuplicatePending => NoDuplicatePending
  BY DEF QP!NoDuplicatePending, NoDuplicatePending, Q!NoDuplicatePending,
         QP!Pending, Q!Pending
<1> QED BY UseImplementsParts, <1>1, <1>2, PTL

\* A step of the pipelines or of the clean-up page is one of the whole.
LEMMA CleanupImplementsUse == CleanupSpec => Spec
<1>1. [CleanupNext]_vars => [Next]_useVars
  BY DEF CleanupNext, PipelinesNext, CreateNotebook, AddSource, AnswerQuestion,
         QuestionFails, AskForDigest, Cleanup, Refresh, Redraw, ReadQueue,
         ReadDigest, Delete, DeleteEnds, vars
<1>2. CleanupInit => Init
  BY DEF CleanupInit, PipelinesInit
<1> QED BY <1>1, <1>2, PTL DEF CleanupSpec, Spec

-----------------------------------------------------------------------------
(* The clean-up page.  Its list is older than its guards: what it holds has *)
(* a notebook already, so it is in use when the guards are read, or it     *)
(* never will be again.                                                    *)

\* The pipeline of o has begun; when it ends, it does not begin again.
Began(o) == IF o \in Runs THEN QP!Begun(o) ELSE thread[o] # "new"

\* Nobody minds if the notebook of o goes.
Spared(o) == Began(o) /\ (o \in InUse => o \in Runs /\ status[o] = "gone")

CleanupTypes ==
  /\ notebook \in [Owners -> {"none", "there", "gone"}]
  /\ listed \in [Cleaners -> SUBSET Owners]
  /\ todo \in [Cleaners -> SUBSET Owners]
  /\ cleanupPc \in [Cleaners -> {"idle", "queue", "digest", "deleting"}]
  /\ clicked \in [Cleaners -> BOOLEAN]
  /\ enabled \in [Cleaners -> BOOLEAN]

\* Whoever has a notebook, or had one, has begun.
HaveBegun ==
  /\ \A o \in Owners : notebook[o] # "none" => Began(o)
  /\ \A c \in Cleaners : \A o \in listed[c] : Began(o)

\* The script or the button of page c goes by guards that were open.
GuardsRead(c) ==
  \/ cleanupPc[c] = "deleting"
  \/ clicked[c] /\ cleanupPc[c] \in {"queue", "digest"}
  \/ enabled[c] /\ cleanupPc[c] = "idle"

QueueRead(c) == enabled[c] /\ cleanupPc[c] = "digest"

\* Page c deletes what it has listed.
TodoListed(c) ==
  todo[c] \subseteq listed[c] /\ (todo[c] # {} => cleanupPc[c] = "deleting")

GuardsHold ==
  \A c \in Cleaners :
    /\ TodoListed(c)
    /\ GuardsRead(c) => \A o \in listed[c] : Spared(o)
    /\ QueueRead(c) => \A o \in listed[c] : o \in Runs => Spared(o)

CleanInv == CleanupTypes /\ HaveBegun /\ GuardsHold

\* What the components keep.
PartsInv == QP!IndInv /\ DP!IInv /\ DP!FreshIsNew

\* Whose notebook is in use: the run a worker asks about, the digest that is
\* built.
LEMMA InUseIs ==
  ASSUME NEW o \in Owners
  PROVE  /\ o \in Runs => (o \in InUse <=> QP!InPipeline(o))
         /\ o \notin Runs => (o \in InUse <=> thread[o] = "building")
BY PipelineAssumption DEF Owners, InUse, Asking, D!Building, QP!InPipeline

\* Whoever uses a notebook has begun.
LEMMA InUseBegan ==
  ASSUME PartsInv, NEW o \in Owners, o \in InUse
  PROVE  Began(o)
<1>1. CASE o \in Runs
  BY <1>1, InUseIs, QP!PipelineIsBegun, QueueAssumptions DEF Began, PartsInv
<1>2. CASE o \notin Runs
  BY <1>2, InUseIs DEF Began
<1> QED BY <1>1, <1>2

\* No pipeline begins twice.
LEMMA BeganStays ==
  ASSUME PartsInv, [Next]_useVars, NEW o \in Owners, Began(o)
  PROVE  Began(o)' /\ (o \in InUse' => o \in InUse)
<1>1. CASE o \in Runs
  <2>1. QP!Begun(o)' /\ (QP!InPipeline(o)' => QP!InPipeline(o))
    BY <1>1, StepOfQueue, QP!BegunStays, QueueAssumptions DEF Began, PartsInv
  <2>2. o \in InUse' <=> QP!InPipeline(o)'
    BY <1>1, PipelineAssumption
       DEF InUse, Asking, D!Building, QP!InPipeline
  <2> QED BY <1>1, <2>1, <2>2, InUseIs DEF Began
<1>2. CASE o \notin Runs
  <2>1. o \in Drafts
    BY <1>2 DEF Owners
  <2>2. /\ thread'[o] # "new"
        /\ thread'[o] = "building" => thread[o] = "building"
    BY <1>2, <2>1, StepOfDigest, DP!FreshStep, DigestAssumptions
       DEF Began, PartsInv, DP!IInv
  <2>3. o \in InUse' <=> thread'[o] = "building"
    BY <1>2, <2>1 DEF InUse, Asking, D!Building
  <2> QED BY <1>2, <2>2, <2>3, InUseIs DEF Began
<1> QED BY <1>1, <1>2

\* A pipeline that has ended, or whose row was hidden, stays so.
LEMMA SparedStays ==
  ASSUME PartsInv, [Next]_useVars, NEW o \in Owners, Spared(o)
  PROVE  Spared(o)'
<1>1. Began(o)' /\ (o \in InUse' => o \in InUse)
  BY BeganStays DEF Spared
<1>2. ASSUME o \in Runs, status[o] = "gone" PROVE status'[o] = "gone"
  BY <1>2, StepOfQueue, QP!GoneStays, QueueAssumptions DEF PartsInv
<1> QED BY <1>1, <1>2 DEF Spared

-----------------------------------------------------------------------------

\* There are no notebooks and nothing is listed at first.
LEMMA InitCleanInv == CleanupInit => CleanInv
<1> SUFFICES ASSUME CleanupInit PROVE CleanInv
  OBVIOUS
<1> USE DEF CleanupInit, PipelinesInit
<1>1. CleanupTypes
  BY DEF CleanupTypes
<1>2. HaveBegun
  BY DEF HaveBegun
<1>3. GuardsHold
  BY DEF GuardsHold, GuardsRead, QueueRead, TodoListed
<1> QED BY <1>1, <1>2, <1>3 DEF CleanInv

\* A step of the pipelines.
LEMMA PipelinesStepClean ==
  ASSUME PartsInv, CleanInv, [Next]_useVars, UNCHANGED cleanupVars,
         notebook' \in [Owners -> {"none", "there", "gone"}],
         \A o \in Owners : notebook'[o] # "none" => Began(o)
  PROVE  CleanInv'
<1> USE DEF cleanupVars
<1>1. \A o \in Owners : Began(o) => Began(o)'
  BY BeganStays
<1>2. \A o \in Owners : Spared(o) => Spared(o)'
  BY SparedStays
<1>3. \A c \in Cleaners : listed[c] \subseteq Owners
  BY DEF CleanInv, CleanupTypes
<1>4. CleanupTypes'
  BY DEF CleanInv, CleanupTypes
<1>5. HaveBegun'
  BY <1>1, <1>3 DEF CleanInv, HaveBegun
<1>6. GuardsHold'
  <2> SUFFICES ASSUME NEW c \in Cleaners
               PROVE  /\ TodoListed(c)'
                      /\ GuardsRead(c)' => \A o \in listed'[c] : Spared(o)'
                      /\ QueueRead(c)' =>
                           \A o \in listed'[c] : o \in Runs => Spared(o)'
    BY DEF GuardsHold
  <2>1. (GuardsRead(c)' <=> GuardsRead(c)) /\ (QueueRead(c)' <=> QueueRead(c))
    BY DEF GuardsRead, QueueRead
  <2>2. listed'[c] = listed[c] /\ (TodoListed(c)' <=> TodoListed(c))
    BY DEF TodoListed
  <2> QED BY <1>2, <1>3, <2>1, <2>2 DEF CleanInv, GuardsHold
<1> QED BY <1>4, <1>5, <1>6 DEF CleanInv

\* Only pipelines that have begun get a notebook or lose it.
LEMMA ReclaimedHaveBegun ==
  ASSUME PartsInv, CleanInv, PipelinesNext
  PROVE  /\ [Next]_useVars
         /\ notebook' \in [Owners -> {"none", "there", "gone"}]
         /\ \A o \in Owners : notebook'[o] # "none" => Began(o)
<1> USE DEF CleanInv, CleanupTypes, HaveBegun
<1>1. ASSUME NEW o \in Owners, CreateNotebook(o)
      PROVE  /\ [Next]_useVars
             /\ notebook' \in [Owners -> {"none", "there", "gone"}]
             /\ \A e \in Owners : notebook'[e] # "none" => Began(e)
  <2>1. Began(o)
    BY <1>1, InUseBegan DEF CreateNotebook
  <2> QED BY <1>1, <2>1 DEF CreateNotebook
<1>2. ASSUME UNCHANGED <<useVars, notebook>>
      PROVE  /\ [Next]_useVars
             /\ notebook' \in [Owners -> {"none", "there", "gone"}]
             /\ \A e \in Owners : notebook'[e] # "none" => Began(e)
  BY <1>2
<1>3. CASE Next /\ Reclaim
  <2>1. PICK left :
          notebook' = [o \in Owners |->
                         IF o \in {e \in InUse \ InUse' : notebook[e] = "there"} \ left
                         THEN "gone" ELSE notebook[o]]
    BY <1>3 DEF Reclaim
  <2>2. ASSUME NEW o \in Owners, notebook'[o] # "none" PROVE notebook[o] # "none"
    BY <2>1, <2>2
  <2>3. notebook' \in [Owners -> {"none", "there", "gone"}]
    BY <2>1
  <2> QED BY <1>3, <2>2, <2>3
<1>4. ASSUME NEW o \in Owners, AddSource(o) PROVE UNCHANGED <<useVars, notebook>>
  BY <1>4 DEF AddSource
<1>5. ASSUME NEW r \in Runs, AnswerQuestion(r) \/ QuestionFails(r)
      PROVE  UNCHANGED <<useVars, notebook>>
  BY <1>5 DEF AnswerQuestion, QuestionFails
<1>6. ASSUME NEW d \in Drafts, AskForDigest(d)
      PROVE  UNCHANGED <<useVars, notebook>>
  BY <1>6 DEF AskForDigest
<1> QED BY <1>1, <1>2, <1>3, <1>4, <1>5, <1>6 DEF PipelinesNext

\* A step of page c: the other pages stay as they are.
LEMMA PageStepClean ==
  ASSUME PartsInv, CleanInv, UNCHANGED useVars, NEW c \in Cleaners,
         CleanupTypes',
         \A o \in Owners : notebook'[o] # "none" => Began(o),
         \A e \in Cleaners : e # c =>
           /\ listed'[e] = listed[e] /\ todo'[e] = todo[e]
           /\ cleanupPc'[e] = cleanupPc[e]
           /\ clicked'[e] = clicked[e] /\ enabled'[e] = enabled[e],
         \A o \in listed'[c] : Began(o),
         TodoListed(c)',
         GuardsRead(c)' => \A o \in listed'[c] : Spared(o),
         QueueRead(c)' => \A o \in listed'[c] : o \in Runs => Spared(o)
  PROVE  CleanInv'
<1>1. \A o \in Owners : Began(o) => Began(o)'
  BY BeganStays
<1>2. \A o \in Owners : Spared(o) => Spared(o)'
  BY SparedStays
<1>3. \A e \in Cleaners : listed'[e] \subseteq Owners
  BY DEF CleanupTypes
<1>4. HaveBegun'
  BY <1>1, <1>3 DEF CleanInv, HaveBegun
<1>5. ASSUME NEW e \in Cleaners
      PROVE  /\ TodoListed(e)'
             /\ GuardsRead(e)' => \A o \in listed'[e] : Spared(o)'
             /\ QueueRead(e)' =>
                  \A o \in listed'[e] : o \in Runs => Spared(o)'
  <2>1. CASE e = c
    BY <1>2, <1>3, <2>1
  <2>2. CASE e # c
    <3>1. (GuardsRead(e)' <=> GuardsRead(e)) /\ (QueueRead(e)' <=> QueueRead(e))
      BY <2>2 DEF GuardsRead, QueueRead
    <3>2. TodoListed(e)' <=> TodoListed(e)
      BY <2>2 DEF TodoListed
    <3> QED BY <1>2, <1>3, <2>2, <3>1, <3>2 DEF CleanInv, GuardsHold
  <2> QED BY <2>1, <2>2
<1>6. GuardsHold'
  BY <1>5 DEF GuardsHold
<1> QED BY <1>4, <1>6 DEF CleanInv

\* Only hidden runs are in NotebookLM while none is active, and no digest
\* while the slot is not running.
LEMMA GuardsTell ==
  ASSUME PartsInv, CleanInv, NEW c \in Cleaners, NEW o \in listed[c]
  PROVE  /\ ~Q!IsActive /\ o \in Runs => Spared(o)
         /\ ~Blocked /\ o \notin Runs => Spared(o)
<1>1. Began(o) /\ o \in Owners
  BY DEF CleanInv, HaveBegun, CleanupTypes
<1>2. ASSUME ~Q!IsActive, o \in Runs, o \in InUse PROVE status[o] = "gone"
  <2>1. ~QP!IsActive
    BY <1>2 DEF Q!IsActive, QP!IsActive
  <2> QED BY <1>1, <1>2, <2>1, InUseIs, QP!InactiveIsHidden, QueueAssumptions
          DEF PartsInv
<1>3. ASSUME ~Blocked, o \notin Runs PROVE o \notin InUse
  <2>1. o \in Drafts
    BY <1>1, <1>3 DEF Owners
  <2>2. thread[o] # "building"
    BY <1>3, <2>1 DEF PartsInv, DP!IInv, DP!SlotTracksBuilder, DP!Building,
                      Blocked
  <2> QED BY <1>1, <1>3, <2>2, InUseIs
<1> QED BY <1>1, <1>2, <1>3 DEF Spared

\* The clean-up page acts by guards that are younger than its list.
LEMMA CleanerStep ==
  ASSUME PartsInv, CleanInv, NEW c \in Cleaners, Cleanup(c)
  PROVE  CleanInv'
<1> USE DEF CleanInv, CleanupTypes, HaveBegun, GuardsHold, GuardsRead,
        QueueRead, TodoListed, pipelineVars
<1>1. CASE Refresh(c)
  <2>1. /\ listed' = [listed EXCEPT ![c] = {o \in Owners : notebook[o] = "there"}]
        /\ cleanupPc' = [cleanupPc EXCEPT ![c] = "queue"]
        /\ clicked' = [clicked EXCEPT ![c] = FALSE]
        /\ cleanupPc[c] = "idle"
        /\ UNCHANGED <<useVars, notebook, todo, enabled>>
    BY <1>1 DEF Refresh
  <2>2. ~GuardsRead(c)' /\ ~QueueRead(c)' /\ TodoListed(c)'
    BY <2>1
  <2>3. \A o \in listed'[c] : Began(o)
    BY <2>1
  <2>4. CleanupTypes'
    BY <2>1
  <2> QED BY <2>1, <2>2, <2>3, <2>4, PageStepClean
<1>2. CASE Redraw(c)
  <2>1. /\ cleanupPc' = [cleanupPc EXCEPT ![c] = "queue"]
        /\ cleanupPc[c] = "idle"
        /\ UNCHANGED <<useVars, notebook, listed, todo, enabled>>
    BY <1>2 DEF Redraw
  <2>2. /\ clicked' \in [Cleaners -> BOOLEAN]
        /\ clicked'[c] => enabled[c]
        /\ \A e \in Cleaners : e # c => clicked'[e] = clicked[e]
    <3>1. enabled[c] \in BOOLEAN
      OBVIOUS
    <3>2. CASE clicked' = [clicked EXCEPT ![c] = FALSE]
      BY <3>2
    <3>3. CASE clicked' = [clicked EXCEPT ![c] = enabled[c]]
      BY <3>1, <3>3, Zenon
    <3> QED BY <1>2, <3>2, <3>3 DEF Redraw
  <2>3. CleanupTypes'
    BY <2>1, <2>2
  <2>4. ~QueueRead(c)' /\ TodoListed(c)' /\ (GuardsRead(c)' => GuardsRead(c))
    BY <2>1, <2>2
  <2> QED BY <2>1, <2>2, <2>3, <2>4, PageStepClean
<1>3. CASE ReadQueue(c)
  BY <1>3, PageStepClean, GuardsTell DEF ReadQueue
<1>4. CASE ReadDigest(c)
  BY <1>4, PageStepClean, GuardsTell DEF ReadDigest
<1>5. CASE Delete(c)
  <2>1. PICK o \in todo[c] : /\ notebook' = [notebook EXCEPT ![o] = "gone"]
                             /\ todo' = [todo EXCEPT ![c] = @ \ {o}]
    BY <1>5 DEF Delete
  <2>2. /\ cleanupPc[c] = "deleting"
        /\ UNCHANGED <<useVars, listed, cleanupPc, clicked, enabled>>
    BY <1>5 DEF Delete
  <2>3. o \in listed[c] /\ Began(o) /\ o \in Owners
    BY <2>1
  <2>4. CleanupTypes'
    BY <2>1, <2>2, <2>3
  <2>5. TodoListed(c)'
    BY <2>1, <2>2
  <2>6. \A e \in Owners : notebook'[e] # "none" => Began(e)
    BY <2>1, <2>3
  <2>7. \A e \in Cleaners : e # c => todo'[e] = todo[e]
    BY <2>1
  <2> QED BY <2>2, <2>4, <2>5, <2>6, <2>7, PageStepClean
<1>6. CASE DeleteEnds(c)
  <2>1. /\ cleanupPc[c] = "deleting"
        /\ todo' = [todo EXCEPT ![c] = {}]
        /\ cleanupPc' = [cleanupPc EXCEPT ![c] = "idle"]
        /\ UNCHANGED <<useVars, notebook, clicked>>
    BY <1>6 DEF DeleteEnds
  <2>2. CASE todo[c] = {}
    <3>1. /\ listed' = [listed EXCEPT ![c] = {}]
          /\ enabled' = [enabled EXCEPT ![c] = FALSE]
      BY <1>6, <2>2 DEF DeleteEnds
    <3>2. CleanupTypes' /\ TodoListed(c)' /\ ~GuardsRead(c)' /\ ~QueueRead(c)'
      BY <2>1, <3>1
    <3> QED BY <2>1, <3>1, <3>2, PageStepClean
  <2>3. CASE todo[c] # {}
    <3>1. UNCHANGED <<listed, enabled>>
      BY <1>6, <2>3 DEF DeleteEnds
    <3>2. CleanupTypes' /\ TodoListed(c)' /\ ~QueueRead(c)'
      BY <2>1, <3>1
    <3>3. GuardsRead(c)
      BY <2>1
    <3> QED BY <2>1, <3>1, <3>2, <3>3, PageStepClean
  <2> QED BY <2>2, <2>3
<1> QED BY <1>1, <1>2, <1>3, <1>4, <1>5, <1>6 DEF Cleanup

\* Every step keeps the invariant of the clean-up page.
LEMMA CleanInvStep ==
  ASSUME PartsInv, CleanInv, [CleanupNext]_vars
  PROVE  CleanInv'
<1>1. CASE PipelinesNext /\ UNCHANGED cleanupVars
  BY <1>1, PipelinesStepClean, ReclaimedHaveBegun
<1>2. CASE UNCHANGED vars
  <2>1. [Next]_useVars /\ UNCHANGED <<cleanupVars, notebook>>
    BY <1>2 DEF vars, pipelineVars
  <2> QED BY <2>1, PipelinesStepClean DEF CleanInv, CleanupTypes, HaveBegun
<1> QED BY <1>1, <1>2, CleanerStep DEF CleanupNext

\* One tab on the digest page, as the digest's design assumes.
THEOREM CleanInductive ==
  ASSUME OneTab PROVE CleanupSpec => [](PartsInv /\ CleanInv)
<1>0. DP!OneTab
  BY DEF OneTab, DP!OneTab
<1>1. QP!Spec => []QP!IndInv
  BY QP!Inductive, QueueAssumptions
<1>2. DP!Spec => []DP!IInv
  BY <1>0, DP!InductiveForOneTab, DigestAssumptions
<1>3. DP!Spec => [](DP!TInv /\ DP!FreshIsNew)
  BY DP!StartedOnce, DigestAssumptions
<1>4. CleanupSpec => []PartsInv
  BY <1>1, <1>2, <1>3, CleanupImplementsUse, UseImplementsParts, PTL
     DEF PartsInv
<1>5. PartsInv /\ CleanInv /\ [CleanupNext]_vars => CleanInv'
  BY CleanInvStep
<1> QED BY InitCleanInv, <1>4, <1>5, PTL DEF CleanupSpec

\* pages/maintenance.py: with one tab on the digest page, and any number of
\* others, no notebook is deleted under a pipeline that works in it, except of
\* a run whose row was hidden.
THEOREM CleanupSpares ==
  ASSUME OneTab PROVE CleanupSpec => CleanupSparesActive
<1> DEFINE Spares ==
      \A o \in InUse \intersect InUse' :
        notebook[o] = "there" /\ notebook'[o] = "gone" =>
          o \in Runs /\ status[o] = "gone"
<1>1. ASSUME PartsInv, CleanInv, [CleanupNext]_vars PROVE [Spares]_vars
  <2> SUFFICES ASSUME NEW o \in InUse \intersect InUse',
                      notebook[o] = "there", notebook'[o] = "gone"
               PROVE  o \in Runs /\ status[o] = "gone"
    OBVIOUS
  <2>1. o \in Owners
    BY DEF InUse, Asking, D!Building, Owners
  <2>2. PICK c \in Cleaners : Delete(c)
    <3>1. ASSUME PipelinesNext PROVE FALSE
      <4>1. CASE Reclaim
        <5>1. PICK left :
                notebook' = [e \in Owners |->
                  IF e \in {f \in InUse \ InUse' : notebook[f] = "there"} \ left
                  THEN "gone" ELSE notebook[e]]
          BY <4>1 DEF Reclaim
        <5> QED BY <2>1, <5>1
      <4>2. ASSUME NEW e \in Owners, CreateNotebook(e) PROVE FALSE
        BY <1>1, <2>1, <4>2 DEF CreateNotebook, CleanInv, CleanupTypes
      <4>3. ASSUME NEW e \in Owners, AddSource(e) PROVE FALSE
        BY <4>3 DEF AddSource
      <4>4. ASSUME NEW r \in Runs, AnswerQuestion(r) \/ QuestionFails(r)
            PROVE  FALSE
        BY <4>4 DEF AnswerQuestion, QuestionFails
      <4>5. ASSUME NEW d \in Drafts, AskForDigest(d) PROVE FALSE
        BY <4>5 DEF AskForDigest
      <4> QED BY <3>1, <4>1, <4>2, <4>3, <4>4, <4>5 DEF PipelinesNext
    <3>2. notebook' # notebook
      OBVIOUS
    <3> QED BY <1>1, <3>1, <3>2
            DEF CleanupNext, Cleanup, Refresh, Redraw, ReadQueue, ReadDigest,
                DeleteEnds, vars, pipelineVars
  <2>3. o \in todo[c] /\ cleanupPc[c] = "deleting"
    <3>1. PICK d \in todo[c] : notebook' = [notebook EXCEPT ![d] = "gone"]
      BY <2>2 DEF Delete
    <3>2. o = d
      BY <1>1, <2>1, <3>1 DEF CleanInv, CleanupTypes
    <3> QED BY <2>2, <3>1, <3>2 DEF Delete
  <2>4. Spared(o)
    BY <1>1, <2>3 DEF CleanInv, GuardsHold, GuardsRead, TodoListed
  <2> QED BY <2>4 DEF Spared
<1> QED BY <1>1, CleanInductive, PTL DEF CleanupSpec, CleanupSparesActive
=============================================================================
