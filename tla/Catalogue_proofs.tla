--------------------------- MODULE Catalogue_proofs ---------------------------
(***************************************************************************)
(* Proofs about Catalogue: names of categories that runs need are not      *)
(* touched, and channels keep the defaults they were given, for any number *)
(* of categories, channels, videos and runs.                               *)
(*                                                                         *)
(* A run needs its categories while it waits or runs, and while it is in   *)
(* the history.  The page asks the registry and then the history, in this  *)
(* order, so a run that passes from the one to the other is seen by either *)
(* question; and a category that nobody needs stays so until it is written *)
(* because whoever enqueues is on another page.                            *)
(***************************************************************************)
EXTENDS Catalogue, SequenceTheorems, TLAPS

\* Row IDs of a table stand for different values.
Distinct(table) ==
  \A a, b \in Rows(table) : table[a] = table[b] => a = b

TableTypes ==
  /\ category \in [CategoryIds -> Names \cup {NoRow}]
  /\ channel \in [ChannelIds -> Feeds \cup {NoRow}]
  /\ Distinct(category)
  /\ Distinct(channel)
  /\ default \in [ChannelIds -> SUBSET Rows(category)]
  /\ \A k \in ChannelIds : default[k] # {} => k \in Rows(channel)
  /\ meant \in [Feeds -> SUBSET Names]

RunTypes ==
  /\ run \in Seq(Runs)
  /\ \A i \in DOMAIN run : run[i].links \subseteq Rows(category)

TabTypes ==
  /\ page \in {"ask", "runs", "categories", "channels"}
  /\ open \subseteq CategoryIds
  /\ step.at \in {"drawing", "renaming", "deleting"} => page = "categories"

\* A run on the dashboard or in the history that relies on category c.
Needs(r, c) ==
  /\ ~r.hidden
  /\ \/ Pending(r) /\ c \in DOMAIN r.chosen
     \/ r.kept /\ c \in r.links

\* A button that was drawn unlocked: nothing was enqueued since.
OpenUnqueued ==
  \A c \in open : page = "categories" /\ ~Queued(c)

Writing == step.at \in {"renaming", "deleting"}

\* The script is about to write a category that no run needs.
WriteAlone ==
  Writing => /\ step.id \in Rows(category)
             /\ step.at = "renaming" => step.name \in Names
             /\ \A i \in DOMAIN run : ~Needs(run[i], step.id)

IInv ==
  /\ TableTypes /\ RunTypes /\ TabTypes
  /\ OpenUnqueued /\ WriteAlone
  /\ PendingNamed /\ HistoryAsChosen /\ DefaultsMeant

-----------------------------------------------------------------------------

\* The named parts make up the type invariant.
LEMMA TypesMean == TableTypes /\ RunTypes /\ TabTypes => TypeOK
BY DEF TableTypes, RunTypes, TabTypes, TypeOK, Distinct, IsInjective, Restrict,
       Rows

\* The handles and rows are a sequence of runs.
LEMMA RunFacts ==
  ASSUME RunTypes
  PROVE  /\ Len(run) \in Nat
         /\ DOMAIN run = 1..Len(run)
         /\ run \in [1..Len(run) -> Runs]
         /\ \A i \in DOMAIN run : run[i] \in Runs
BY LenProperties DEF RunTypes

\* A run was asked for categories, each under a name.
LEMMA ChosenFacts ==
  ASSUME NEW r \in Runs
  PROVE  /\ DOMAIN r.chosen \subseteq CategoryIds
         /\ \A c \in DOMAIN r.chosen : r.chosen[c] \in Names
<1>1. PICK ids \in SUBSET CategoryIds : r.chosen \in [ids -> Names]
  BY DEF Runs
<1> QED BY <1>1

\* The tables are empty, and nothing is enqueued.
LEMMA InitIInv == Init => IInv
<1> SUFFICES ASSUME Init PROVE IInv
  OBVIOUS
<1> USE DEF Init, Rows
<1>1. TableTypes
  BY DEF TableTypes, Distinct
<1>2. run \in Seq(Runs) /\ DOMAIN run = {}
  <2>1. <<>> \in Seq(Runs) /\ Len(<<>>) = 0
    OBVIOUS
  <2> QED BY <2>1, LenProperties
<1>3. RunTypes /\ TabTypes
  BY <1>2 DEF RunTypes, TabTypes, Idle
<1>4. OpenUnqueued /\ PendingNamed /\ HistoryAsChosen
  BY <1>2 DEF OpenUnqueued, PendingNamed, HistoryAsChosen
<1>5. WriteAlone
  BY DEF WriteAlone, Writing, Idle
<1>6. DefaultsMeant
  BY DEF DefaultsMeant
<1> QED BY <1>1, <1>3, <1>4, <1>5, <1>6 DEF IInv

-----------------------------------------------------------------------------
(* Steps of runs. *)

\* Run r goes on as h: it is enqueued no more, no category is added to it but
\* by save_run, and a hidden row stays hidden.
Goes(r, h) ==
  /\ h.chosen = r.chosen
  /\ Pending(h) => Pending(r)
  /\ r.hidden => h.hidden
  /\ h.links \subseteq Rows(category)
  /\ h.kept => \/ r.kept /\ h.links = r.links
               \/ Pending(r) /\ h.links = DOMAIN r.chosen \cap Rows(category)

RunsGoOn ==
  /\ run' \in Seq(Runs)
  /\ DOMAIN run' = DOMAIN run
  /\ \A i \in DOMAIN run : Goes(run[i], run'[i])

\* When one handle goes on, and the others stay, all runs go on.
LEMMA OneRunGoesOn ==
  ASSUME RunTypes, NEW i \in DOMAIN run, NEW h \in Runs,
         run' = [run EXCEPT ![i] = h], Goes(run[i], h)
  PROVE  RunsGoOn
<1>1. i \in 1..Len(run) /\ run \in Seq(Runs)
  BY RunFacts DEF RunTypes
<1>2. /\ run' \in Seq(Runs)
      /\ Len(run') = Len(run)
      /\ \A j \in 1..Len(run) : run'[j] = IF j = i THEN h ELSE run[j]
  BY <1>1, ExceptSeq
<1>3. DOMAIN run' = DOMAIN run
  BY <1>2, RunFacts, LenProperties
<1>4. ASSUME NEW j \in DOMAIN run, j # i PROVE Goes(run[j], run'[j])
  <2>1. run'[j] = run[j]
    BY <1>2, <1>4, RunFacts
  <2> QED BY <2>1 DEF Goes, RunTypes
<1>5. Goes(run[i], run'[i])
  BY <1>1, <1>2
<1> QED BY <1>2, <1>3, <1>4, <1>5 DEF RunsGoOn

\* Runs that go on, over tables of categories that stay, keep what is said
\* of runs, and need and queue no category that they did not before.
LEMMA GoesOnKeeps ==
  ASSUME IInv, RunsGoOn, UNCHANGED category
  PROVE  /\ RunTypes' /\ PendingNamed' /\ HistoryAsChosen'
         /\ \A c : Queued(c)' => Queued(c)
         /\ \A c : \A i \in DOMAIN run' : Needs(run[i], c)' => Needs(run[i], c)
<1> USE DEF IInv
<1>1. \A i \in DOMAIN run' : i \in DOMAIN run /\ Goes(run[i], run'[i])
  BY DEF RunsGoOn
<1>2. RunTypes'
  BY <1>1 DEF RunsGoOn, RunTypes, Goes, Rows
<1>3. ASSUME NEW i \in DOMAIN run', Pending(run'[i]), ~run'[i].hidden,
             NEW c \in DOMAIN run'[i].chosen
      PROVE  category[c] = run'[i].chosen[c]
  BY <1>1, <1>3 DEF Goes, PendingNamed
<1>4. PendingNamed'
  BY <1>3 DEF PendingNamed, Pending
<1>5. ASSUME NEW i \in DOMAIN run, Pending(run[i]), ~run[i].hidden
      PROVE  DOMAIN run[i].chosen \cap Rows(category) = DOMAIN run[i].chosen
  <2>1. \A c \in DOMAIN run[i].chosen : c \in CategoryIds /\ category[c] \in Names
    BY <1>5, RunFacts, ChosenFacts DEF PendingNamed
  <2> QED BY <2>1, CatalogueAssumption DEF Rows, TableTypes
<1>6. ASSUME NEW i \in DOMAIN run', run'[i].kept, ~run'[i].hidden
      PROVE  /\ run'[i].links = DOMAIN run'[i].chosen
             /\ \A c \in run'[i].links : category[c] = run'[i].chosen[c]
  <2>1. i \in DOMAIN run /\ ~run[i].hidden /\ run'[i].chosen = run[i].chosen
    BY <1>1, <1>6 DEF Goes
  <2>2. CASE run[i].kept /\ run'[i].links = run[i].links
    BY <2>1, <2>2 DEF HistoryAsChosen
  <2>3. CASE /\ Pending(run[i])
             /\ run'[i].links = DOMAIN run[i].chosen \cap Rows(category)
    BY <1>5, <2>1, <2>3 DEF PendingNamed
  <2> QED BY <1>1, <1>6, <2>2, <2>3 DEF Goes
<1>7. HistoryAsChosen'
  BY <1>6 DEF HistoryAsChosen
<1>8. \A c : Queued(c)' => Queued(c)
  BY <1>1 DEF Queued, Pending, Goes
<1>9. ASSUME NEW c, NEW i \in DOMAIN run', Needs(run'[i], c)
      PROVE  Needs(run[i], c)
  BY <1>1, <1>9 DEF Needs, Goes
<1> QED BY <1>2, <1>4, <1>7, <1>8, <1>9 DEF Needs, Pending

tableVars == <<category, channel, default, meant>>

\* A step that leaves the tables alone.
LEMMA TablesStay ==
  ASSUME IInv, RunsGoOn, UNCHANGED tableVars,
         TabTypes', OpenUnqueued', WriteAlone'
  PROVE  IInv'
<1> USE DEF IInv, tableVars
<1>1. /\ RunTypes' /\ PendingNamed' /\ HistoryAsChosen'
  BY GoesOnKeeps
<1>2. TableTypes'
  BY DEF TableTypes, Distinct, Rows
<1>3. DefaultsMeant'
  BY DEF DefaultsMeant, Rows, NamesOf
<1> QED BY <1>1, <1>2, <1>3

\* A step of a run that the tab does not notice.
LEMMA RunStep ==
  ASSUME IInv, RunsGoOn, UNCHANGED <<tableVars, page, step, open>>
  PROVE  IInv'
<1> USE DEF IInv
<1>1. /\ \A c : Queued(c)' => Queued(c)
      /\ \A c : \A i \in DOMAIN run' : Needs(run[i], c)' => Needs(run[i], c)
  BY GoesOnKeeps DEF tableVars
<1>2. TabTypes'
  BY DEF TabTypes
<1>3. OpenUnqueued'
  BY <1>1 DEF OpenUnqueued
<1>4. WriteAlone'
  <2> SUFFICES ASSUME Writing'
               PROVE  /\ step'.id \in Rows(category)'
                      /\ step'.at = "renaming" => step'.name \in Names
                      /\ \A i \in DOMAIN run' : ~Needs(run[i], step.id)'
    BY DEF WriteAlone
  <2>1. Writing
    BY DEF Writing
  <2>2. \A i \in DOMAIN run' : i \in DOMAIN run
    BY DEF RunsGoOn
  <2>3. ASSUME NEW i \in DOMAIN run' PROVE ~Needs(run'[i], step.id)
    <3>1. ~Needs(run[i], step.id)
      BY <2>1, <2>2 DEF WriteAlone
    <3>2. Needs(run[i], step.id)' => Needs(run[i], step.id)
      BY <1>1
    <3> QED BY <3>1, <3>2 DEF Needs, Pending
  <2> QED BY <2>1, <2>3 DEF WriteAlone, Rows, tableVars, Needs, Pending
<1> QED BY <1>2, <1>3, <1>4, TablesStay

\* Runs that stay as they are go on.
LEMMA RunStays == ASSUME IInv, UNCHANGED run PROVE RunsGoOn
BY DEF IInv, RunTypes, RunsGoOn, Goes

\* The worker claims, fails and saves (services/runner.py, run_history.save_run).
LEMMA WorkerStep == ASSUME IInv, Worker PROVE IInv'
<1> USE DEF tableVars
<1>0. RunTypes
  BY DEF IInv
<1>1. CASE Claim
  <2>1. PICK i \in DOMAIN run :
          run[i].status = "queued" /\ run' = [run EXCEPT ![i].status = "running"]
    BY <1>1 DEF Claim
  <2> DEFINE h == [run[i] EXCEPT !.status = "running"]
  <2>2. h \in Runs /\ Goes(run[i], h)
    BY <1>0, <2>1, RunFacts DEF Runs, Goes, Pending, RunTypes
  <2>3. run' = [run EXCEPT ![i] = h]
    BY <2>1
  <2> HIDE DEF h
  <2>4. RunsGoOn
    BY <1>0, <2>2, <2>3, OneRunGoesOn
  <2> QED BY <1>1, <2>4, RunStep DEF Claim
<1>2. CASE Save
  <2>1. PICK i \in DOMAIN run :
          /\ run[i].status = "running"
          /\ run' = [run EXCEPT ![i] = [@ EXCEPT !.status = "saved", !.kept = TRUE,
                                  !.links = DOMAIN run[i].chosen \cap Rows(category)]]
    BY <1>2 DEF Save
  <2> DEFINE h == [run[i] EXCEPT !.status = "saved", !.kept = TRUE,
                                 !.links = DOMAIN run[i].chosen \cap Rows(category)]
  <2>2. h \in Runs /\ Goes(run[i], h)
    <3> DEFINE l == DOMAIN run[i].chosen \cap Rows(category)
    <3>1. run[i] \in Runs /\ l \in SUBSET CategoryIds
      BY <1>0, RunFacts DEF Rows, IInv, TableTypes
    <3>2. h = [run[i] EXCEPT !.status = "saved", !.kept = TRUE, !.links = l]
      OBVIOUS
    <3> HIDE DEF l, h
    <3>3. /\ h \in Runs
          /\ h.chosen = run[i].chosen /\ h.hidden = run[i].hidden
          /\ h.links = l
      BY <3>1, <3>2 DEF Runs
    <3>4. Goes(run[i], h)
      BY <2>1, <3>3 DEF Goes, Pending, l
    <3> QED BY <3>3, <3>4
  <2>3. run' = [run EXCEPT ![i] = h]
    BY <2>1
  <2> HIDE DEF h
  <2>4. RunsGoOn
    BY <1>0, <2>2, <2>3, OneRunGoesOn
  <2> QED BY <1>2, <2>4, RunStep DEF Save
<1>3. CASE Complete
  <2>1. PICK i \in DOMAIN run :
          /\ run[i].status \in {"running", "saved"}
          /\ run' = [run EXCEPT ![i].status =
                       IF run[i].status = "saved" THEN "done" ELSE "failed"]
    BY <1>3 DEF Complete
  <2> DEFINE h == [run[i] EXCEPT !.status =
                     IF run[i].status = "saved" THEN "done" ELSE "failed"]
  <2>2. h \in Runs /\ Goes(run[i], h)
    BY <1>0, <2>1, RunFacts DEF Runs, Goes, Pending, RunTypes
  <2>3. run' = [run EXCEPT ![i] = h]
    BY <2>1
  <2> HIDE DEF h
  <2>4. RunsGoOn
    BY <1>0, <2>2, <2>3, OneRunGoesOn
  <2> QED BY <1>3, <2>4, RunStep DEF Complete
<1> QED BY <1>1, <1>2, <1>3 DEF Worker

\* The dashboard and the history page.
LEMMA RunPageStep ==
  ASSUME IInv, Hide \/ Cancel \/ DeleteRun PROVE IInv'
<1> USE DEF tableVars
<1>0. RunTypes
  BY DEF IInv
<1>1. CASE Hide
  <2>1. PICK i \in DOMAIN run : run' = [run EXCEPT ![i].hidden = TRUE]
    BY <1>1 DEF Hide
  <2> DEFINE h == [run[i] EXCEPT !.hidden = TRUE]
  <2>2. h \in Runs /\ Goes(run[i], h)
    BY <1>0, <2>1, RunFacts DEF Runs, Goes, Pending, RunTypes
  <2>3. run' = [run EXCEPT ![i] = h]
    BY <2>1
  <2> HIDE DEF h
  <2>4. RunsGoOn
    BY <1>0, <2>2, <2>3, OneRunGoesOn
  <2> QED BY <1>1, <2>4, RunStep DEF Hide
<1>2. CASE Cancel
  <2>1. PICK i \in DOMAIN run : run' = [run EXCEPT ![i].status = "lost"]
    BY <1>2 DEF Cancel
  <2> DEFINE h == [run[i] EXCEPT !.status = "lost"]
  <2>2. h \in Runs /\ Goes(run[i], h)
    BY <1>0, <2>1, RunFacts DEF Runs, Goes, Pending, RunTypes
  <2>3. run' = [run EXCEPT ![i] = h]
    BY <2>1
  <2> HIDE DEF h
  <2>4. RunsGoOn
    BY <1>0, <2>2, <2>3, OneRunGoesOn
  <2> QED BY <1>2, <2>4, RunStep DEF Cancel
<1>3. CASE DeleteRun
  <2>1. PICK i \in DOMAIN run :
          run' = [run EXCEPT ![i] = [@ EXCEPT !.kept = FALSE, !.links = {}]]
    BY <1>3 DEF DeleteRun
  <2> DEFINE h == [run[i] EXCEPT !.kept = FALSE, !.links = {}]
  <2>2. h \in Runs /\ Goes(run[i], h)
    BY <1>0, <2>1, RunFacts DEF Runs, Goes, Pending, RunTypes
  <2>3. run' = [run EXCEPT ![i] = h]
    BY <2>1
  <2> HIDE DEF h
  <2>4. RunsGoOn
    BY <1>0, <2>2, <2>3, OneRunGoesOn
  <2> QED BY <1>3, <2>4, RunStep DEF DeleteRun
<1> QED BY <1>1, <1>2, <1>3

\* A restart forgets the handles and the session; the tables stay.
LEMMA RestartStep == ASSUME IInv, Restart PROVE IInv'
<1>0. RunTypes
  BY DEF IInv
<1>1. run' = [i \in 1..Len(run) |-> IF Pending(run[i])
                 THEN [run[i] EXCEPT !.status = "lost"] ELSE run[i]]
  BY <1>0, RunFacts DEF Restart
<1>2. ASSUME NEW i \in 1..Len(run)
      PROVE  run'[i] \in Runs /\ Goes(run[i], run'[i])
  <2>1. run[i] \in Runs /\ run[i].links \subseteq Rows(category)
    BY <1>0, RunFacts DEF RunTypes
  <2> DEFINE h == [run[i] EXCEPT !.status = "lost"]
  <2>2. h \in Runs /\ Goes(run[i], h)
    BY <2>1 DEF Runs, Goes, Pending
  <2>3. Goes(run[i], run[i])
    BY <2>1 DEF Goes
  <2>4. run'[i] = h \/ run'[i] = run[i]
    BY <1>1
  <2> HIDE DEF h
  <2> QED BY <2>1, <2>2, <2>3, <2>4
<1>3. run' \in [1..Len(run) -> Runs]
  BY <1>1, <1>2
<1>4. run' \in Seq(Runs) /\ DOMAIN run' = DOMAIN run
  BY <1>0, <1>3, RunFacts, SeqDef
<1>5. RunsGoOn
  BY <1>0, <1>2, <1>4, RunFacts DEF RunsGoOn
<1>6. TabTypes' /\ OpenUnqueued' /\ WriteAlone'
  BY DEF Restart, TabTypes, OpenUnqueued, WriteAlone, Writing, Idle
<1> QED BY <1>5, <1>6, TablesStay DEF Restart, tableVars

\* The tab moves on, and no run does.
LEMMA TabStep ==
  ASSUME IInv, UNCHANGED <<tableVars, run>>, TabTypes', OpenUnqueued', WriteAlone'
  PROVE  IInv'
BY RunStays, TablesStay

\* Another page replaces the script that draws.
LEMMA OpenPageStep ==
  ASSUME IInv, NEW p \in {"ask", "runs", "categories", "channels"}, OpenPage(p)
  PROVE  IInv'
<1>1. TabTypes' /\ OpenUnqueued' /\ WriteAlone'
  BY DEF OpenPage, TabTypes, OpenUnqueued, WriteAlone, Writing, Drawing, Idle
<1> QED BY <1>1, TabStep DEF OpenPage, tableVars

\* The drawn buttons are those of categories that no run in the registry has.
LEMMA FinishDrawStep == ASSUME IInv, FinishDraw PROVE IInv'
<1> USE DEF IInv
<1>1. TabTypes'
  BY DEF FinishDraw, TabTypes, TableTypes, Rows, Idle
<1>2. OpenUnqueued'
  BY DEF FinishDraw, OpenUnqueued, TabTypes, Queued, Pending
<1>3. WriteAlone'
  BY DEF FinishDraw, WriteAlone, Writing, Idle
<1> QED BY <1>1, <1>2, <1>3, TabStep DEF FinishDraw, tableVars

\* What is queued depends on the runs only.
LEMMA QueuedStays == ASSUME UNCHANGED run PROVE \A c : Queued(c)' <=> Queued(c)
BY DEF Queued, Pending

\* The service has looked at the history, and the registry was asked before.
LEMMA AskForStep ==
  ASSUME IInv, NEW c \in CategoryIds, NEW what,
         what.at \in {"renaming", "deleting"}, what.id = c,
         what.at = "renaming" => what.name \in Names,
         AskFor(c, what)
  PROVE  IInv'
<1> USE DEF IInv
<1>1. /\ OnCategories /\ c \in open \cap Rows(category)
      /\ step' = IF Used(c) THEN Drawing ELSE what
      /\ UNCHANGED <<tableVars, run, page, open>>
  BY DEF AskFor, tableVars
<1>2. TabTypes'
  BY <1>1 DEF TabTypes, OnCategories
<1>3. OpenUnqueued'
  BY <1>1, QueuedStays DEF OpenUnqueued
<1>4. CASE Used(c)
  <2>1. WriteAlone'
    BY <1>1, <1>4 DEF WriteAlone, Writing, Drawing
  <2> QED BY <1>1, <1>2, <1>3, <2>1, TabStep
<1>5. CASE ~Used(c)
  <2>1. \A i \in DOMAIN run : ~Needs(run[i], c)
    BY <1>1, <1>5 DEF Needs, Used, OpenUnqueued, Queued
  <2>2. step' = what /\ step'.id = c
    BY <1>1, <1>5
  <2>3. \A i \in DOMAIN run' : ~Needs(run[i], step.id)'
    BY <1>1, <2>1, <2>2 DEF Needs, Pending
  <2>4. c \in Rows(category)'
    BY <1>1 DEF Rows, tableVars
  <2>5. WriteAlone'
    BY <2>2, <2>3, <2>4 DEF WriteAlone
  <2> QED BY <1>1, <1>2, <1>3, <2>5, TabStep
<1> QED BY <1>4, <1>5

\* A check of a channel changes what was found, and nothing else.
LEMMA CheckStep ==
  ASSUME IInv, FinishCheck \/ \E k \in ChannelIds : StartCheck(k)
  PROVE  IInv'
<1> USE DEF IInv
<1>1. /\ UNCHANGED <<tableVars, run, page, open>>
      /\ step'.at \notin {"drawing", "renaming", "deleting"}
  BY DEF FinishCheck, StartCheck, tableVars, Idle
<1>2. TabTypes' /\ WriteAlone'
  BY <1>1 DEF TabTypes, WriteAlone, Writing
<1>3. OpenUnqueued'
  BY <1>1, QueuedStays DEF OpenUnqueued
<1> QED BY <1>1, <1>2, <1>3, TabStep

-----------------------------------------------------------------------------
(* New runs.                                                               *)

\* A new handle has the chosen categories under their names of now.
LEMMA NewRunFacts ==
  ASSUME IInv, NEW v \in Videos, NEW ids, ids \subseteq Rows(category), ids # {}
  PROVE  /\ NewRun(v, ids) \in Runs
         /\ NewRun(v, ids).links = {}
         /\ ~NewRun(v, ids).kept
         /\ DOMAIN NewRun(v, ids).chosen = ids
         /\ \A c \in ids : NewRun(v, ids).chosen[c] = category[c]
<1>1. ids \in (SUBSET CategoryIds) \ {{}}
  <2>1. Rows(category) \subseteq CategoryIds
    BY DEF Rows, IInv, TableTypes
  <2> QED BY <2>1
<1>2. [c \in ids |-> category[c]] \in [ids -> Names]
  BY DEF Rows, IInv, TableTypes
<1>3. NewRun(v, ids).chosen \in UNION {[s -> Names] : s \in (SUBSET CategoryIds) \ {{}}}
  BY <1>1, <1>2 DEF NewRun
<1> QED BY <1>3 DEF NewRun, Runs

\* New runs come from pages on which no category is being edited, and are
\* about categories that are there (components/category_picker.py).
LEMMA EnqueueStep ==
  ASSUME IInv, step = Idle, page # "categories",
         NEW vs, vs \subseteq Videos, NEW ids, EnqueueEach(vs, ids),
         UNCHANGED <<tableVars, page, step, open>>
  PROVE  IInv'
<1> DEFINE new == {v \in vs : ~IsPending(v)}
           kept == KeepRegistered(ids)
<1>0. RunTypes
  BY DEF IInv
<1>1. kept \subseteq Rows(category) /\ kept # {}
  BY DEF EnqueueEach, KeepRegistered
<1>2. PICK n \in 0..(MaxRuns - Len(run)) : \E order \in Injection(1..n, new) :
        run' = run \o [i \in 1..n |-> NewRun(order[i], kept)]
  BY DEF EnqueueEach
<1>3. PICK order \in [1..n -> new] :
        run' = run \o [i \in 1..n |-> NewRun(order[i], kept)]
  BY <1>2 DEF Injection
<1> DEFINE q == [i \in 1..n |-> NewRun(order[i], kept)]
<1>4. n \in Nat
  BY <1>0, <1>2, RunFacts, CatalogueAssumption
<1>5. \A i \in 1..n : order[i] \in Videos
  BY <1>3
<1>6. q \in [1..n -> Runs] /\ \A i \in 1..n : q[i] = NewRun(order[i], kept)
  BY <1>1, <1>5, NewRunFacts
<1> HIDE DEF q, new, kept
<1>7. q \in Seq(Runs) /\ Len(q) = n
  <2>1. q \in Seq(Runs)
    BY <1>4, <1>6, SeqDef
  <2> QED BY <1>4, <1>6, <2>1, LenProperties
<1>8. run' = run \o q
  BY <1>3 DEF q
<1>9. /\ run' \in Seq(Runs)
      /\ Len(run') = Len(run) + n
      /\ \A i \in 1..(Len(run) + n) :
           run'[i] = IF i <= Len(run) THEN run[i] ELSE q[i - Len(run)]
  BY <1>0, <1>7, <1>8, ConcatProperties DEF RunTypes
<1>10. DOMAIN run' = 1..(Len(run) + n)
  BY <1>9, LenProperties
<1>11. ASSUME NEW i \in DOMAIN run'
       PROVE  \/ i \in DOMAIN run /\ run'[i] = run[i]
              \/ /\ run'[i].links = {} /\ ~run'[i].kept
                 /\ \A c \in DOMAIN run'[i].chosen :
                      run'[i].chosen[c] = category[c]
  <2>1. CASE i <= Len(run)
    BY <1>0, <1>4, <1>9, <1>10, <2>1, RunFacts
  <2>2. CASE ~(i <= Len(run))
    <3>1. i - Len(run) \in 1..n
      BY <1>0, <1>4, <1>10, <2>2, RunFacts
    <3>2. run'[i] = q[i - Len(run)]
      BY <1>9, <1>10, <2>2
    <3>3. PICK v \in Videos : run'[i] = NewRun(v, kept)
      BY <1>5, <1>6, <3>1, <3>2
    <3> QED BY <1>1, <3>3, NewRunFacts
  <2> QED BY <2>1, <2>2
<1> USE DEF IInv, tableVars
<1>12. RunTypes'
  BY <1>9, <1>11 DEF RunTypes, Rows
<1>13. PendingNamed'
  BY <1>11 DEF PendingNamed, Pending
<1>14. HistoryAsChosen'
  BY <1>11 DEF HistoryAsChosen
<1>15. TableTypes' /\ TabTypes' /\ DefaultsMeant'
  BY DEF TableTypes, TabTypes, Distinct, DefaultsMeant, NamesOf, Rows
<1>16. OpenUnqueued' /\ WriteAlone'
  BY DEF OpenUnqueued, WriteAlone, Writing, Idle
<1> QED BY <1>12, <1>13, <1>14, <1>15, <1>16

-----------------------------------------------------------------------------
(* The tables.                                                             *)

\* Categories that runs need keep their names.
LEMMA RunsKept ==
  ASSUME IInv, UNCHANGED run,
         \A c \in Rows(category) :
           \/ c \in Rows(category)' /\ category'[c] = category[c]
           \/ \A i \in DOMAIN run : ~Needs(run[i], c),
         \A i \in DOMAIN run : run[i].links \subseteq Rows(category)'
  PROVE  RunTypes' /\ PendingNamed' /\ HistoryAsChosen'
<1> USE DEF IInv
<1>1. RunTypes'
  BY DEF RunTypes
<1>2. ASSUME NEW i \in DOMAIN run, NEW c, Needs(run[i], c)
      PROVE  category'[c] = run[i].chosen[c]
  <2>1. category[c] = run[i].chosen[c]
    BY <1>2 DEF Needs, PendingNamed, HistoryAsChosen
  <2>2. c \in DOMAIN run[i].chosen
    BY <1>2 DEF Needs, HistoryAsChosen
  <2>3. c \in Rows(category)
    BY <2>1, <2>2, RunFacts, ChosenFacts, CatalogueAssumption
       DEF Rows, TableTypes
  <2> QED BY <1>2, <2>1, <2>3
<1>3. PendingNamed'
  BY <1>2 DEF PendingNamed, Needs, Pending
<1>4. HistoryAsChosen'
  BY <1>2 DEF HistoryAsChosen, Needs
<1> QED BY <1>1, <1>3, <1>4

\* The tab goes back to drawing the category page.
LEMMA RedrawKeeps ==
  ASSUME IInv, step' = Drawing, page = "categories", UNCHANGED <<run, page, open>>
  PROVE  TabTypes' /\ OpenUnqueued' /\ WriteAlone'
<1>1. TabTypes'
  BY DEF IInv, TabTypes
<1>2. OpenUnqueued'
  BY QueuedStays DEF IInv, OpenUnqueued
<1>3. WriteAlone'
  BY DEF WriteAlone, Writing, Drawing
<1> QED BY <1>1, <1>2, <1>3

\* A new category gets an ID that no row, run or channel holds.
LEMMA AddCategoryStep ==
  ASSUME IInv, NEW n \in Names, AddCategory(n)
  PROVE  IInv'
<1> USE DEF IInv
<1>1. TabTypes' /\ OpenUnqueued' /\ WriteAlone'
  BY RedrawKeeps DEF AddCategory, OnCategories
<1>2. CASE UNCHANGED category
  BY <1>1, <1>2, RunStays, TablesStay DEF AddCategory, tableVars
<1>3. CASE /\ ~Taken(category, n)
           /\ \E c \in CategoryIds :
                IsNextId(category, c) /\ category' = [category EXCEPT ![c] = n]
  <2>1. PICK c \in CategoryIds :
          IsNextId(category, c) /\ category' = [category EXCEPT ![c] = n]
    BY <1>3
  <2>2. c \notin Rows(category)
    BY <2>1 DEF IsNextId, CategoryIds
  <2>3. /\ category' \in [CategoryIds -> Names \cup {NoRow}]
        /\ category'[c] = n
        /\ \A d \in Rows(category) : category'[d] = category[d]
        /\ Rows(category)' = Rows(category) \cup {c}
    BY <2>1, <2>2, CatalogueAssumption DEF Rows, TableTypes
  <2>4. UNCHANGED <<channel, default, run, meant>>
    BY DEF AddCategory
  <2>5. Distinct(category)'
    BY <1>3, <2>3 DEF Distinct, TableTypes, Taken, Rows
  <2>6. TableTypes'
    BY <2>3, <2>4, <2>5 DEF TableTypes, Distinct, Rows
  <2>7. RunTypes' /\ PendingNamed' /\ HistoryAsChosen'
    BY <2>3, <2>4, RunsKept DEF RunTypes
  <2>8. ASSUME NEW k \in Rows(channel) PROVE NamesOf(default[k])' = NamesOf(default[k])
    BY <2>3, <2>4, <2>8 DEF NamesOf, TableTypes, Rows
  <2>9. DefaultsMeant'
    BY <2>4, <2>8 DEF DefaultsMeant, Rows
  <2> QED BY <1>1, <2>6, <2>7, <2>9
<1> QED BY <1>2, <1>3 DEF AddCategory

\* categories.rename_category: the category that gets a new name is needed by
\* no run.
LEMMA WriteNameStep == ASSUME IInv, WriteName PROVE IInv'
<1> USE DEF IInv
<1>1. /\ step.at = "renaming" /\ step.name \in Names
      /\ step.id \in Rows(category) /\ step.id \in CategoryIds
      /\ page = "categories"
      /\ \A i \in DOMAIN run : ~Needs(run[i], step.id)
  BY DEF WriteName, WriteAlone, Writing, TabTypes, TableTypes, Rows
<1>2. TabTypes' /\ OpenUnqueued' /\ WriteAlone'
  BY <1>1, RedrawKeeps DEF WriteName
<1>3. CASE UNCHANGED <<category, meant>>
  BY <1>2, <1>3, RunStays, TablesStay DEF WriteName, tableVars
<1>4. CASE /\ ~Taken([category EXCEPT ![step.id] = NoRow], step.name)
           /\ category' = [category EXCEPT ![step.id] = step.name]
           /\ meant' = Renamed(meant, category[step.id], step.name)
  <2> DEFINE id == step.id
             old == category[step.id]
             name == step.name
  <2>1. /\ category' \in [CategoryIds -> Names \cup {NoRow}]
        /\ category'[id] = name
        /\ \A c \in CategoryIds : c # id => category'[c] = category[c]
        /\ Rows(category)' = Rows(category)
    BY <1>1, <1>4, CatalogueAssumption DEF Rows, TableTypes
  <2>2. \A c \in CategoryIds : c # id => category[c] # name
    BY <1>1, <1>4 DEF Taken, TableTypes
  <2>3. UNCHANGED <<channel, default, run>>
    BY DEF WriteName
  <2>4. Distinct(category)'
    BY <1>1, <2>1, <2>2 DEF Distinct, TableTypes, Rows
  <2>5. meant' \in [Feeds -> SUBSET Names]
    BY <1>1, <1>4 DEF Renamed, TableTypes
  <2>6. TableTypes'
    BY <2>1, <2>3, <2>4, <2>5 DEF TableTypes, Distinct, Rows
  <2>7. RunTypes' /\ PendingNamed' /\ HistoryAsChosen'
    <3>1. \A c \in Rows(category) : c \in CategoryIds
      BY DEF Rows, TableTypes
    <3> QED BY <1>1, <2>1, <2>3, <3>1, RunsKept DEF RunTypes
  <2>8. ASSUME NEW k \in Rows(channel)
        PROVE  NamesOf(default[k])' = meant'[channel[k]]
    <3>1. default[k] \subseteq Rows(category) /\ channel[k] \in Feeds
      BY DEF TableTypes, Rows
    <3>2. meant'[channel[k]] = {IF n = old THEN name ELSE n : n \in meant[channel[k]]}
      BY <1>4, <3>1 DEF Renamed
    <3>3. \A c \in default[k] : category'[c] = IF category[c] = old THEN name
                                              ELSE category[c]
      BY <1>1, <2>1, <3>1 DEF TableTypes, Distinct, Rows
    <3>4. NamesOf(default[k])' = {category'[c] : c \in default[k]}
      BY <2>3 DEF NamesOf
    <3>5. meant[channel[k]] = {category[c] : c \in default[k]}
      BY DEF DefaultsMeant, NamesOf
    <3> HIDE DEF old, name
    <3> QED BY <3>2, <3>3, <3>4, <3>5
  <2>9. DefaultsMeant'
    BY <2>3, <2>8 DEF DefaultsMeant, Rows
  <2> QED BY <1>2, <2>6, <2>7, <2>9
<1> QED BY <1>3, <1>4 DEF WriteName

\* categories.delete_category: the deleted category is needed by no run, and
\* no channel has it by default afterwards.
LEMMA WriteDeletionStep == ASSUME IInv, WriteDeletion PROVE IInv'
<1> USE DEF IInv
<1>1. /\ step.at = "deleting"
      /\ step.id \in Rows(category) /\ step.id \in CategoryIds
      /\ page = "categories"
      /\ \A i \in DOMAIN run : ~Needs(run[i], step.id)
  BY DEF WriteDeletion, WriteAlone, Writing, TabTypes, TableTypes, Rows
<1>2. TabTypes' /\ OpenUnqueued' /\ WriteAlone'
  BY <1>1, RedrawKeeps DEF WriteDeletion
<1>3. CASE UNCHANGED <<category, default, meant>>
  BY <1>2, <1>3, RunStays, TablesStay DEF WriteDeletion, tableVars
<1>4. CASE /\ ~Used(step.id)
           /\ category' = [category EXCEPT ![step.id] = NoRow]
           /\ default' = [k \in ChannelIds |-> default[k] \ {step.id}]
           /\ meant' = [f \in Feeds |-> meant[f] \ {category[step.id]}]
  <2> DEFINE id == step.id
             old == category[step.id]
  <2>1. /\ category' \in [CategoryIds -> Names \cup {NoRow}]
        /\ \A c \in CategoryIds : c # id => category'[c] = category[c]
        /\ Rows(category)' = Rows(category) \ {id}
    BY <1>1, <1>4, CatalogueAssumption DEF Rows, TableTypes
  <2>2. UNCHANGED <<channel, run>>
    BY DEF WriteDeletion
  <2>3. Distinct(category)'
    BY <1>1, <2>1 DEF Distinct, TableTypes, Rows
  <2>4. meant' \in [Feeds -> SUBSET Names]
    BY <1>4 DEF TableTypes
  <2>5. default' \in [ChannelIds -> SUBSET Rows(category)']
    BY <1>4, <2>1 DEF TableTypes
  <2>6. TableTypes'
    BY <1>4, <2>1, <2>2, <2>3, <2>4, <2>5 DEF TableTypes, Distinct, Rows
  <2>7. RunTypes' /\ PendingNamed' /\ HistoryAsChosen'
    <3>1. \A c \in Rows(category) : c \in CategoryIds
      BY DEF Rows, TableTypes
    <3>2. \A i \in DOMAIN run : run[i].links \subseteq Rows(category)'
      BY <1>4, <2>1 DEF Used, RunTypes
    <3> QED BY <1>1, <2>1, <2>2, <3>1, <3>2, RunsKept
  <2>8. ASSUME NEW k \in Rows(channel)
        PROVE  NamesOf(default[k])' = meant'[channel[k]]
    <3>1. /\ default[k] \subseteq Rows(category) /\ channel[k] \in Feeds
          /\ k \in ChannelIds
      BY DEF TableTypes, Rows
    <3>2. meant'[channel[k]] = meant[channel[k]] \ {old}
      BY <1>4, <3>1
    <3>3. default'[k] = default[k] \ {id}
      BY <1>4, <3>1
    <3>4. \A c \in default[k] : c # id => category'[c] = category[c]
                                          /\ category[c] # old
      BY <1>1, <2>1, <3>1 DEF TableTypes, Distinct, Rows
    <3>5. NamesOf(default[k])' = {category'[c] : c \in default[k] \ {id}}
      BY <3>3 DEF NamesOf
    <3>6. meant[channel[k]] = {category[c] : c \in default[k]}
      BY DEF DefaultsMeant, NamesOf
    <3>7. category[id] = old
      OBVIOUS
    <3> HIDE DEF old, id
    <3> QED BY <3>2, <3>4, <3>5, <3>6, <3>7
  <2>9. DefaultsMeant'
    BY <2>2, <2>8 DEF DefaultsMeant, Rows
  <2> QED BY <1>2, <2>6, <2>7, <2>9
<1> QED BY <1>3, <1>4 DEF WriteDeletion

\* What a step of the channel page keeps.
LEMMA ChannelPageKeeps ==
  ASSUME IInv, OnChannels, UNCHANGED <<category, run, page, step, open>>
  PROVE  /\ RunTypes' /\ PendingNamed' /\ HistoryAsChosen'
         /\ TabTypes' /\ OpenUnqueued' /\ WriteAlone'
<1> USE DEF IInv
<1>1. RunTypes' /\ PendingNamed' /\ HistoryAsChosen'
  BY RunStays, GoesOnKeeps
<1>2. TabTypes' /\ OpenUnqueued'
  BY QueuedStays DEF TabTypes, OpenUnqueued
<1>3. WriteAlone'
  BY DEF OnChannels, WriteAlone, Writing, Idle
<1> QED BY <1>1, <1>2, <1>3

\* channels.add_channel: a new channel has no defaults but those given with it.
LEMMA AddChannelStep ==
  ASSUME IInv, NEW f \in Feeds, NEW ids \in Chosen, AddChannel(f, ids)
  PROVE  IInv'
<1> USE DEF IInv
<1>1. PICK k \in ChannelIds :
        /\ IsNextId(channel, k)
        /\ channel' = [channel EXCEPT ![k] = f]
        /\ default' = [default EXCEPT ![k] = @ \cup KeepRegistered(ids)]
  BY DEF AddChannel
<1>2. /\ ~Taken(channel, f)
      /\ meant' = [meant EXCEPT ![f] = NamesOf(ids)]
      /\ UNCHANGED <<category, run>>
  BY DEF AddChannel
<1>3. k \notin Rows(channel)
  BY <1>1 DEF IsNextId, ChannelIds
<1>4. /\ ids \subseteq Rows(category) /\ KeepRegistered(ids) = ids
      /\ default[k] = {}
  BY <1>3 DEF Chosen, KeepRegistered, TableTypes
<1>5. /\ channel' \in [ChannelIds -> Feeds \cup {NoRow}]
      /\ channel'[k] = f
      /\ \A j \in ChannelIds : j # k => channel'[j] = channel[j]
      /\ Rows(channel)' = Rows(channel) \cup {k}
  BY <1>1, CatalogueAssumption DEF Rows, TableTypes
<1>6. /\ default' \in [ChannelIds -> SUBSET Rows(category)]
      /\ default'[k] = ids
      /\ \A j \in ChannelIds : j # k => default'[j] = default[j]
  BY <1>1, <1>4 DEF TableTypes
<1>7. \A j \in ChannelIds : channel[j] # f
  BY <1>2 DEF Taken, TableTypes
<1>8. NamesOf(ids) \subseteq Names
  BY <1>4 DEF NamesOf, Rows, TableTypes
<1>9. meant' \in [Feeds -> SUBSET Names]
  BY <1>2, <1>8 DEF TableTypes
<1>10. Distinct(channel)'
  BY <1>5, <1>7 DEF Distinct, TableTypes, Rows
<1>11. TableTypes'
  BY <1>2, <1>5, <1>6, <1>9, <1>10 DEF TableTypes, Distinct, Rows
<1>12. ASSUME NEW j \in Rows(channel)'
       PROVE  NamesOf(default[j])' = meant'[channel'[j]]
  <2>1. CASE j = k
    BY <1>2, <1>5, <1>6, <2>1 DEF NamesOf, TableTypes
  <2>2. CASE j # k
    <3>1. j \in Rows(channel) /\ j \in ChannelIds
      BY <1>5, <2>2 DEF Rows, TableTypes
    <3>2. meant'[channel'[j]] = meant[channel[j]]
      BY <1>2, <1>5, <1>7, <2>2, <3>1 DEF TableTypes
    <3>3. NamesOf(default[j])' = NamesOf(default[j])
      BY <1>2, <1>6, <2>2, <3>1 DEF NamesOf
    <3> QED BY <3>1, <3>2, <3>3 DEF DefaultsMeant
  <2> QED BY <2>1, <2>2
<1>13. DefaultsMeant'
  BY <1>12 DEF DefaultsMeant
<1>14. OnChannels /\ UNCHANGED <<category, run, page, step, open>>
  BY DEF AddChannel
<1> QED BY <1>11, <1>13, <1>14, ChannelPageKeeps

\* channels.set_default_categories replaces the defaults by those chosen.
LEMMA SetDefaultsStep ==
  ASSUME IInv, NEW k \in ChannelIds, NEW ids \in Chosen, SetDefaults(k, ids)
  PROVE  IInv'
<1> USE DEF IInv
<1>1. /\ channel[k] # NoRow /\ channel[k] \in Feeds /\ k \in Rows(channel)
      /\ default' = [default EXCEPT ![k] = KeepRegistered(ids)]
      /\ meant' = [meant EXCEPT ![channel[k]] = NamesOf(ids)]
      /\ UNCHANGED <<category, channel, run>>
  BY DEF SetDefaults, TableTypes, Rows
<1>2. ids \subseteq Rows(category) /\ KeepRegistered(ids) = ids
  BY DEF Chosen, KeepRegistered
<1>3. /\ default' \in [ChannelIds -> SUBSET Rows(category)]
      /\ default'[k] = ids
      /\ \A j \in ChannelIds : j # k => default'[j] = default[j]
  BY <1>1, <1>2 DEF TableTypes
<1>4. NamesOf(ids) \subseteq Names
  BY <1>2 DEF NamesOf, Rows, TableTypes
<1>5. meant' \in [Feeds -> SUBSET Names]
  BY <1>1, <1>4 DEF TableTypes
<1>6. TableTypes'
  BY <1>1, <1>3, <1>5 DEF TableTypes, Distinct, Rows
<1>7. ASSUME NEW j \in Rows(channel)
      PROVE  NamesOf(default[j])' = meant'[channel[j]]
  <2>1. CASE j = k
    BY <1>1, <1>3, <2>1 DEF NamesOf, TableTypes
  <2>2. CASE j # k
    <3>1. j \in ChannelIds /\ channel[j] # channel[k] /\ channel[j] \in Feeds
      BY <1>1, <2>2 DEF Rows, TableTypes, Distinct
    <3>2. meant'[channel[j]] = meant[channel[j]]
      BY <1>1, <3>1 DEF TableTypes
    <3>3. NamesOf(default[j])' = NamesOf(default[j])
      BY <1>1, <1>3, <2>2, <3>1 DEF NamesOf
    <3> QED BY <3>2, <3>3 DEF DefaultsMeant
  <2> QED BY <2>1, <2>2
<1>8. DefaultsMeant'
  BY <1>1, <1>7 DEF DefaultsMeant, Rows
<1>9. OnChannels /\ UNCHANGED <<category, run, page, step, open>>
  BY DEF SetDefaults
<1> QED BY <1>6, <1>8, <1>9, ChannelPageKeeps

\* channels.delete_channel takes the defaults along.
LEMMA DeleteChannelStep ==
  ASSUME IInv, NEW k \in ChannelIds, DeleteChannel(k)
  PROVE  IInv'
<1> USE DEF IInv
<1>1. /\ channel[k] # NoRow /\ channel[k] \in Feeds /\ k \in Rows(channel)
      /\ channel' = [channel EXCEPT ![k] = NoRow]
      /\ default' = [default EXCEPT ![k] = {}]
      /\ meant' = [meant EXCEPT ![channel[k]] = {}]
      /\ UNCHANGED <<category, run>>
  BY DEF DeleteChannel, TableTypes, Rows
<1>2. /\ channel' \in [ChannelIds -> Feeds \cup {NoRow}]
      /\ \A j \in ChannelIds : j # k => channel'[j] = channel[j]
      /\ Rows(channel)' = Rows(channel) \ {k}
  BY <1>1, CatalogueAssumption DEF Rows, TableTypes
<1>3. /\ default' \in [ChannelIds -> SUBSET Rows(category)]
      /\ default'[k] = {}
      /\ \A j \in ChannelIds : j # k => default'[j] = default[j]
  BY <1>1 DEF TableTypes
<1>4. meant' \in [Feeds -> SUBSET Names]
  BY <1>1 DEF TableTypes
<1>5. Distinct(channel)'
  BY <1>2 DEF Distinct, TableTypes, Rows
<1>6. TableTypes'
  BY <1>1, <1>2, <1>3, <1>4, <1>5 DEF TableTypes, Distinct, Rows
<1>7. ASSUME NEW j \in Rows(channel)'
      PROVE  NamesOf(default[j])' = meant'[channel'[j]]
  <2>1. j # k /\ j \in Rows(channel) /\ j \in ChannelIds
    BY <1>2 DEF Rows, TableTypes
  <2>2. channel[j] # channel[k] /\ channel[j] \in Feeds
    BY <1>1, <2>1 DEF Rows, TableTypes, Distinct
  <2>3. meant'[channel'[j]] = meant[channel[j]]
    BY <1>1, <1>2, <2>1, <2>2 DEF TableTypes
  <2>4. NamesOf(default[j])' = NamesOf(default[j])
    BY <1>1, <1>3, <2>1 DEF NamesOf
  <2> QED BY <2>1, <2>3, <2>4 DEF DefaultsMeant
<1>8. DefaultsMeant'
  BY <1>7 DEF DefaultsMeant
<1>9. OnChannels /\ UNCHANGED <<category, run, page, step, open>>
  BY DEF DeleteChannel
<1> QED BY <1>6, <1>8, <1>9, ChannelPageKeeps

-----------------------------------------------------------------------------

\* Every step keeps the invariant.
LEMMA IInvStep == ASSUME IInv, [Next]_vars PROVE IInv'
<1>1. CASE Worker
  BY <1>1, WorkerStep
<1>2. ASSUME NEW p \in {"ask", "runs", "categories", "channels"}, OpenPage(p)
      PROVE  IInv'
  BY <1>2, OpenPageStep
<1>3. ASSUME NEW v \in Videos, NEW ids \in Chosen, Ask(v, ids) PROVE IInv'
  BY <1>3, EnqueueStep DEF Ask, tableVars
<1>4. CASE Hide \/ Cancel \/ DeleteRun
  BY <1>4, RunPageStep
<1>5. CASE FinishDraw
  BY <1>5, FinishDrawStep
<1>6. ASSUME NEW n \in Names, AddCategory(n) PROVE IInv'
  BY <1>6, AddCategoryStep
<1>7. ASSUME NEW c \in CategoryIds, NEW n \in Names, RenameCategory(c, n)
      PROVE  IInv'
  BY <1>7, AskForStep DEF RenameCategory
<1>8. ASSUME NEW c \in CategoryIds, DeleteCategory(c) PROVE IInv'
  BY <1>8, AskForStep DEF DeleteCategory
<1>9. CASE WriteName \/ WriteDeletion
  BY <1>9, WriteNameStep, WriteDeletionStep
<1>10. ASSUME NEW f \in Feeds, NEW ids \in Chosen, AddChannel(f, ids) PROVE IInv'
  BY <1>10, AddChannelStep
<1>11. ASSUME NEW k \in ChannelIds, NEW ids \in Chosen, SetDefaults(k, ids)
       PROVE  IInv'
  BY <1>11, SetDefaultsStep
<1>12. ASSUME NEW k \in ChannelIds, DeleteChannel(k) PROVE IInv'
  BY <1>12, DeleteChannelStep
<1>13. CASE FinishCheck \/ \E k \in ChannelIds : StartCheck(k)
  BY <1>13, CheckStep
<1>14. ASSUME NEW vs \in SUBSET Videos, NEW ids \in Chosen, EnqueueFound(vs, ids)
       PROVE  IInv'
  BY <1>14, EnqueueStep DEF EnqueueFound, OnChannels, tableVars
<1>15. CASE Restart
  BY <1>15, RestartStep
<1>16. CASE UNCHANGED vars
  BY <1>16, RunStays, RunStep DEF vars, tableVars
<1> QED BY <1>1, <1>2, <1>3, <1>4, <1>5, <1>6, <1>7, <1>8, <1>9, <1>10, <1>11,
           <1>12, <1>13, <1>14, <1>15, <1>16 DEF Next

\* The inductive invariant, for all constants.
THEOREM Inductive == Spec => []IInv
<1> QED BY InitIInv, IInvStep, PTL DEF Spec

\* The invariant TypeOK: names and channels stay unique, and no link outlives
\* the row it names (services/store.py, _SCHEMA).
THEOREM CatalogueTypeOK == Spec => []TypeOK
<1>1. IInv => TypeOK
  BY TypesMean DEF IInv
<1> QED BY <1>1, Inductive, PTL

\* pages/category_admin.py: the categories of a run that waits or runs on the
\* dashboard keep their names, with any number of runs and categories.
THEOREM PendingKeepNames == Spec => []PendingNamed
<1>1. IInv => PendingNamed
  BY DEF IInv
<1> QED BY <1>1, Inductive, PTL

\* services/run_history.save_run and categories.rename_category: a result in
\* the history has every category it was asked for, under the name of then,
\* unless its row was hidden while it ran.
THEOREM ResultsKeepCategories == Spec => []HistoryAsChosen
<1>1. IInv => HistoryAsChosen
  BY DEF IInv
<1> QED BY <1>1, Inductive, PTL

\* services/channels.py: a channel has the default categories it was given and
\* no others, although row IDs are used again.
THEOREM ChannelsKeepDefaults == Spec => []DefaultsMeant
<1>1. IInv => DefaultsMeant
  BY DEF IInv
<1> QED BY <1>1, Inductive, PTL
=============================================================================
