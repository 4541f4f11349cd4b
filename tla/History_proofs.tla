---------------------------- MODULE History_proofs ----------------------------
(***************************************************************************)
(* Proofs about History: the types, for any number of tabs; that answers   *)
(* are not lost, links open the right document and no result has two       *)
(* documents, for one tab beside the worker.                               *)
(*                                                                         *)
(* An upload remembers a row ID over two calls of Outline, and SQLite      *)
(* gives the ID of a deleted row again.  The claim keeps two uploads of    *)
(* one row apart; that the row is still of the result that was uploaded    *)
(* follows from who else is there: a tab that uploads deletes nothing, and *)
(* a worker that uploads saves no other result.                            *)
(***************************************************************************)
EXTENDS History, FiniteSetTheorems, TLAPS

\* One browser tab on the history page.
OneTab == \E t : Tabs = {t}

Uploading == {"claim", "recheck", "create", "mark"}
Claimed   == {"recheck", "create", "mark"}

\* Rows and documents are of results that were saved.
Known ==
  /\ \A i \in Ids : rows[i].run \in saved \union {NoRun}
  /\ \A d \in Docs : wiki[d] = "new" <=> docRun[d] = NoRun
  /\ \A t \in Tabs : \A d \in listed[t] \union plan[t].creates :
       wiki[d] # "new"

\* What an upload holds, and that no two hold one row.
Uploads ==
  /\ \A s \in Savers : pc[s] \in Uploading \union {"load"} => held[s].id \in Ids
  /\ \A s \in Savers : pc[s] \in Uploading => held[s].run \in saved
  /\ \A s \in Savers : pc[s] = "mark" =>
       held[s].doc \in Docs /\ docRun[held[s].doc] = held[s].run
  /\ \A s, u \in Savers :
       pc[s] \in Claimed /\ pc[u] \in Claimed /\ held[s].id = held[u].id => s = u

TInv == TypeOK /\ Known /\ Uploads

-----------------------------------------------------------------------------
(* One tab. *)

\* An unsaved row that an upload holds is of the result it uploads; the row of
\* the tab's upload is there.
HoldsItsRow ==
  /\ \A s \in Savers : pc[s] \in Uploading /\ held[s].id \in Unsaved =>
       rows[held[s].id].run = held[s].run
  /\ \A t \in Tabs : pc[t] \in Uploading => held[t].id \in Live(rows)

\* A result has its answers once.
AnswersOnce ==
  \A i, j \in Unsaved : rows[i].run = rows[j].run => i = j

\* Uploads of results without trouble.
Sends(s, r) == pc[s] \in {"create", "mark"} /\ held[s].run = r

\* A result without trouble is sent by one upload, from the row with its
\* answers; it has no document before.
SentOnce ==
  /\ \A s, u \in Savers : \A r \in saved \ troubled :
       Sends(s, r) /\ Sends(u, r) => s = u
  /\ \A s \in Savers : \A r \in saved \ troubled : \A i \in Unsaved :
       Sends(s, r) /\ rows[i].run = r => i = held[s].id
  /\ \A s \in Savers : \A r \in saved \ troubled : \A d \in Docs :
       Sends(s, r) /\ pc[s] = "create" => docRun[d] # r

\* A document of a result that has its answers is about to be linked.
AboutToLink ==
  \A i \in Unsaved, d \in Docs :
    docRun[d] = rows[i].run /\ rows[i].run \notin troubled =>
      \E s \in Savers : pc[s] = "mark" /\ held[s].id = i /\ held[s].doc = d

AtMostOne ==
  \A r \in saved \ troubled : \A d, e \in DocsOf(r) : d = e

IInv ==
  /\ TInv /\ HoldsItsRow /\ AnswersSafe /\ LinkMatches
  /\ AnswersOnce /\ SentOnce /\ AboutToLink /\ AtMostOne

-----------------------------------------------------------------------------
(* What a synchronisation does to the rows. *)

\* An exported row may go, and a document of the plan may come to an ID that no
\* unsaved row has; nothing else happens.
LEMMA ApplyRows ==
  ASSUME TypeOK, NEW t \in Tabs, Apply(t)
  PROVE  /\ rows' = [i \in Ids |-> rows'[i]]
         /\ \A i \in Ids :
              \/ rows'[i] = rows[i]
              \/ rows'[i] = NoRow /\ Exported(i)
              \/ \E d \in plan[t].creates :
                   /\ rows'[i] = [run |-> docRun[d], doc |-> d]
                   /\ i \notin Unsaved
<1> DEFINE kept == DeleteRuns(plan[t].deletes)
           new == plan[t].creates \ {kept[i].doc : i \in Ids}
<1>1. /\ kept = [i \in Ids |-> kept[i]]
      /\ \A i \in Ids : kept[i] = rows[i] \/ (kept[i] = NoRow /\ Exported(i))
  <2>1. kept = [i \in Ids |-> IF <<i, rows[i].doc>> \in plan[t].deletes
                              THEN NoRow ELSE rows[i]]
    BY DEF DeleteRuns
  <2>2. plan[t].deletes \subseteq Ids \X Docs
    BY DEF TypeOK
  <2>3. \A i \in Ids : <<i, rows[i].doc>> \in plan[t].deletes => Exported(i)
    BY <2>2, HistoryAssumption DEF Exported
  <2>4. ASSUME NEW i \in Ids
        PROVE  kept[i] = rows[i] \/ (kept[i] = NoRow /\ Exported(i))
    <3> HIDE DEF kept
    <3>1. kept[i] = IF <<i, rows[i].doc>> \in plan[t].deletes THEN NoRow
                    ELSE rows[i]
      BY <2>1
    <3>2. CASE <<i, rows[i].doc>> \in plan[t].deletes
      <4>1. kept[i] = NoRow
        BY <3>1, <3>2
      <4>2. Exported(i)
        BY <2>3, <3>2
      <4> QED BY <4>1, <4>2
    <3>3. CASE <<i, rows[i].doc>> \notin plan[t].deletes
      BY <3>1, <3>3
    <3> QED BY <3>2, <3>3
  <2>5. kept = [i \in Ids |-> kept[i]]
    <3> HIDE DEF kept
    <3> QED BY <2>1
  <2> QED BY <2>4, <2>5
<1>2. rows' \in InsertExported(kept, plan[t].creates)
  BY DEF Apply
<1> HIDE DEF kept
<1>3. PICK put \in [Ids -> new \union {NoDoc}] :
        /\ rows' = WithRows(kept, put)
        /\ \A i \in Ids : put[i] # NoDoc => \A j \in Live(kept) : j < i
  BY <1>2, Zenon DEF InsertExported
<1>4. rows' = [i \in Ids |-> rows'[i]]
  BY <1>3 DEF WithRows
<1>5. ASSUME NEW i \in Ids, put[i] # NoDoc
      PROVE  /\ put[i] \in plan[t].creates
             /\ rows'[i] = [run |-> docRun[put[i]], doc |-> put[i]]
             /\ i \notin Unsaved
  <2>1. put[i] \in plan[t].creates
    BY <1>3, <1>5
  <2>2. rows'[i] = [run |-> docRun[put[i]], doc |-> put[i]]
    BY <1>3, <1>5 DEF WithRows
  <2>3. i \notin Live(kept)
    BY <1>3, <1>5 DEF Ids
  <2>4. i \notin Unsaved
    BY <1>1, <2>3 DEF Live, Unsaved
  <2> QED BY <2>1, <2>2, <2>4
<1>6. \A i \in Ids : put[i] = NoDoc => rows'[i] = kept[i]
  BY <1>3 DEF WithRows
<1> QED BY <1>1, <1>4, <1>5, <1>6

-----------------------------------------------------------------------------
(* Any number of tabs. *)

\* Nothing is saved or uploaded at first.
LEMMA InitTInv == Init => TInv
<1> SUFFICES ASSUME Init PROVE TInv
  OBVIOUS
<1> USE HistoryAssumption DEF Init, NoRow, Nothing, EmptyPlan, Savers
<1>1. TypeOK
  BY DEF TypeOK
<1>2. Known /\ Uploads
  BY DEF Known, Uploads, Uploading, Claimed
<1> QED BY <1>1, <1>2 DEF TInv

\* The types without what uploads hold, and that.
TableTypes ==
  /\ rows \in [Ids -> [run : Runs \union {NoRun}, doc : Docs \union {NoDoc}]]
  /\ \A i \in Ids : rows[i].run = NoRun => rows[i] = NoRow
  /\ saved \subseteq Runs /\ thrown \subseteq saved /\ troubled \subseteq saved
  /\ wiki \in [Docs -> {"new", "there", "trashed"}]
  /\ docRun \in [Docs -> saved \union {NoRun}]

SyncTypes ==
  /\ listed \in [Tabs -> SUBSET Docs]
  /\ plan \in [Tabs -> [deletes : SUBSET (Ids \X Docs), creates : SUBSET Docs]]
  /\ armed \in [Tabs -> 0..MaxId]

Pcs == Uploading \union {"idle", "load", "plan"}
HeldType == [id : 0..MaxId, run : saved \union {NoRun}, doc : Docs \union {NoDoc}]

UploadTypes ==
  /\ saving \subseteq Ids
  /\ pc \in [Savers -> Pcs]
  /\ held \in [Savers -> HeldType]
  /\ \A s \in Savers : pc[s] \in Claimed => held[s].id \in saving

\* The type invariant, in three parts.
LEMMA TypeParts == TypeOK <=> TableTypes /\ SyncTypes /\ UploadTypes
BY DEF TypeOK, TableTypes, SyncTypes, UploadTypes, Pcs, Uploading, Claimed,
       HeldType

\* The same after a step.
LEMMA TypePartsNext == TypeOK' <=> TableTypes' /\ SyncTypes' /\ UploadTypes'
BY DEF TypeOK, TableTypes, SyncTypes, UploadTypes, Pcs, Uploading, Claimed,
       HeldType

\* A step of the upload of s, which may claim an ID, or release its own.
LEMMA UploadMoves ==
  ASSUME UploadTypes, Uploads, NEW s \in Savers, NEW p \in Pcs,
         saved \subseteq saved', NEW h \in HeldType',
         pc' = [pc EXCEPT ![s] = p], held' = [held EXCEPT ![s] = h],
         saving' \subseteq Ids, saving \ saving' \subseteq {held[s].id},
         saving' # saving => pc[s] \in Claimed \union {"claim"},
         saving \subseteq saving' \/ pc[s] \in Claimed,
         p \in Claimed => h.id \in saving'
  PROVE  UploadTypes'
<1>1. held' \in [Savers -> HeldType']
  BY DEF UploadTypes, HeldType
<1>2. pc' \in [Savers -> Pcs]
  BY DEF UploadTypes
<1>3. ASSUME NEW u \in Savers, pc'[u] \in Claimed PROVE held'[u].id \in saving'
  <2>1. CASE u = s
    BY <1>3, <2>1 DEF UploadTypes
  <2>2. CASE u # s
    BY <1>3, <2>2 DEF UploadTypes, Uploads, Claimed
  <2> QED BY <2>1, <2>2
<1> QED BY <1>1, <1>2, <1>3 DEF UploadTypes, Pcs

\* The end of an upload.
LEMMA UploadEnds ==
  ASSUME UploadTypes, Uploads, NEW s \in Savers, End(s), UNCHANGED saved,
         \/ UNCHANGED saving
         \/ saving' = saving \ {held[s].id} /\ pc[s] \in Claimed
  PROVE  UploadTypes'
<1>1. Nothing \in HeldType'
  BY HistoryAssumption DEF Nothing, HeldType
<1>2. /\ pc' = [pc EXCEPT ![s] = "idle"] /\ held' = [held EXCEPT ![s] = Nothing]
      /\ "idle" \in Pcs /\ "idle" \notin Claimed
  BY DEF End, Pcs, Claimed
<1>3. /\ saving' \subseteq Ids /\ saving \ saving' \subseteq {held[s].id}
      /\ saving' # saving => pc[s] \in Claimed
      /\ saving \subseteq saving' \/ pc[s] \in Claimed
  BY DEF UploadTypes
<1> QED BY <1>1, <1>2, <1>3, UploadMoves

\* Every step keeps the types.
LEMMA TypeOKStep == ASSUME TInv, [Next]_vars PROVE TypeOK'
<1>0. TableTypes /\ SyncTypes /\ UploadTypes /\ Known /\ Uploads
  BY TypeParts DEF TInv
<1> SUFFICES TableTypes' /\ SyncTypes' /\ UploadTypes'
  BY TypePartsNext
<1> USE HistoryAssumption
<1>1. ASSUME NEW r \in Runs, NEW i \in Ids, SaveRun(r, i)
      PROVE  TableTypes' /\ SyncTypes' /\ UploadTypes'
  <2>1. TableTypes'
    BY <1>0, <1>1 DEF SaveRun, outline, TableTypes
  <2>2. SyncTypes'
    BY <1>0, <1>1 DEF SaveRun, syncs, SyncTypes
  <2>3. CASE r \in AutoSave
    <3> DEFINE h == [Nothing EXCEPT !.id = i]
    <3>1. h \in HeldType'
      BY DEF Nothing, HeldType, Ids
    <3>2. /\ saved \subseteq saved' /\ UNCHANGED saving
          /\ pc' = [pc EXCEPT ![Worker] = "load"]
          /\ held' = [held EXCEPT ![Worker] = h]
      BY <1>1, <2>3 DEF SaveRun
    <3> HIDE DEF h
    <3>3. UploadTypes'
      BY <1>0, <3>1, <3>2, UploadMoves
         DEF UploadTypes, Pcs, Uploading, Claimed, Savers
    <3> QED BY <2>1, <2>2, <3>3
  <2>4. CASE r \notin AutoSave
    <3>1. saved \subseteq saved' /\ UNCHANGED <<saving, pc, held>>
      BY <1>1, <2>4 DEF SaveRun
    <3>2. UploadTypes'
      BY <1>0, <3>1 DEF UploadTypes, HeldType
    <3> QED BY <2>1, <2>2, <3>2
  <2> QED BY <2>3, <2>4
<1>2. CASE Load
  <2>1. TableTypes' /\ SyncTypes'
    BY <1>0, <1>2
       DEF Load, database, outline, syncs, TableTypes, SyncTypes, uploads
  <2>2. CASE held[Worker].id \in Live(rows)
    <3> DEFINE h == [held[Worker] EXCEPT !.run = rows[held[Worker].id].run]
    <3>1. h \in HeldType'
      BY <1>0, <1>2, <2>2
         DEF Load, database, UploadTypes, TableTypes, Known, HeldType, Live,
             Savers
    <3>2. /\ UNCHANGED <<saved, saving>>
          /\ pc' = [pc EXCEPT ![Worker] = "claim"]
          /\ held' = [held EXCEPT ![Worker] = h]
      BY <1>2, <2>2 DEF Load, database
    <3> HIDE DEF h
    <3>3. UploadTypes'
      BY <1>0, <3>1, <3>2, UploadMoves
         DEF UploadTypes, Pcs, Uploading, Claimed, Savers
    <3> QED BY <2>1, <3>3
  <2>3. CASE held[Worker].id \notin Live(rows)
    <3>1. End(Worker) /\ UNCHANGED <<saved, saving>>
      BY <1>2, <2>3 DEF Load, End, database
    <3>2. UploadTypes'
      BY <1>0, <3>1, UploadEnds DEF Savers
    <3> QED BY <2>1, <3>2
  <2> QED BY <2>2, <2>3
<1>3. ASSUME NEW s \in Savers, Upload(s)
      PROVE  TableTypes' /\ SyncTypes' /\ UploadTypes'
  <2>1. CASE Claim(s)
    <3>1. TableTypes' /\ SyncTypes'
      BY <1>0, <2>1
         DEF Claim, database, outline, syncs, TableTypes, SyncTypes
    <3>2. CASE held[s].id \in saving
      <4>1. UploadTypes'
        BY <1>0, <2>1, <3>2, UploadEnds DEF Claim, database
      <4> QED BY <3>1, <4>1
    <3>3. CASE held[s].id \notin saving
      <4>1. /\ pc[s] = "claim" /\ UNCHANGED <<held, saved>>
            /\ saving' = saving \union {held[s].id}
            /\ pc' = [pc EXCEPT ![s] = "recheck"]
        BY <2>1, <3>3 DEF Claim, database
      <4>2. held[s].id \in Ids
        BY <1>0, <4>1 DEF Uploads, Uploading
      <4>3. UploadTypes'
        BY <1>0, <4>1, <4>2
           DEF UploadTypes, Pcs, Uploading, Claimed, HeldType
      <4> QED BY <3>1, <4>3
    <3> QED BY <3>2, <3>3
  <2>2. CASE Recheck(s)
    <3>1. SyncTypes'
      BY <1>0, <2>2 DEF Recheck, syncs, SyncTypes
    <3>2. held[s].run \in saved
      BY <1>0, <2>2 DEF Recheck, Uploads, Uploading
    <3>3. TableTypes'
      BY <1>0, <2>2, <3>2 DEF Recheck, database, outline, TableTypes
    <3>4. CASE Exported(held[s].id)
      <4>1. UploadTypes'
        BY <1>0, <2>2, <3>4, UploadEnds DEF Recheck, database, Claimed
      <4> QED BY <3>1, <3>3, <4>1
    <3>5. CASE ~Exported(held[s].id)
      <4>1. /\ pc[s] = "recheck" /\ UNCHANGED <<held, saved, saving>>
            /\ pc' = [pc EXCEPT ![s] = "create"]
        BY <2>2, <3>5 DEF Recheck, database
      <4>2. UploadTypes'
        BY <1>0, <4>1 DEF UploadTypes, Pcs, Uploading, Claimed, HeldType
      <4> QED BY <3>1, <3>3, <4>2
    <3> QED BY <3>4, <3>5
  <2>3. CASE Create(s)
    <3>1. SyncTypes'
      BY <1>0, <2>3 DEF Create, syncs, SyncTypes
    <3>2. PICK d \in Docs : Made(s, d) /\ held' = [held EXCEPT ![s].doc = d]
      BY <2>3 DEF Create
    <3>3. held[s].run \in saved
      BY <1>0, <2>3 DEF Create, Uploads, Uploading
    <3>4. TableTypes'
      BY <1>0, <2>3, <3>2, <3>3 DEF Create, Made, database, TableTypes
    <3> DEFINE h == [held[s] EXCEPT !.doc = d]
    <3>5. h \in HeldType'
      BY <1>0, <2>3 DEF Create, database, UploadTypes, HeldType
    <3>6. /\ pc[s] = "create" /\ UNCHANGED <<saved, saving>>
          /\ pc' = [pc EXCEPT ![s] = "mark"]
          /\ held' = [held EXCEPT ![s] = h]
      BY <2>3, <3>2 DEF Create, database
    <3>8. h.id = held[s].id
      BY <1>0 DEF UploadTypes, HeldType
    <3> HIDE DEF h
    <3>7. UploadTypes'
      BY <1>0, <3>5, <3>6, <3>8, UploadMoves
         DEF UploadTypes, Pcs, Uploading, Claimed
    <3> QED BY <3>1, <3>4, <3>7
  <2>4. CASE CreateFails(s)
    <3>1. SyncTypes'
      BY <1>0, <2>4 DEF CreateFails, syncs, SyncTypes
    <3>2. held[s].run \in saved
      BY <1>0, <2>4 DEF CreateFails, Uploads, Uploading
    <3>3. TableTypes'
      BY <1>0, <2>4, <3>2 DEF CreateFails, Made, database, outline, TableTypes
    <3>4. UploadTypes'
      BY <1>0, <2>4, UploadEnds DEF CreateFails, database, Claimed
    <3> QED BY <3>1, <3>3, <3>4
  <2>5. CASE Mark(s)
    <3>1. SyncTypes'
      BY <1>0, <2>5 DEF Mark, syncs, SyncTypes
    <3>2. TableTypes'
      BY <1>0, <2>5
         DEF Mark, outline, TableTypes, UploadTypes, HeldType, Unsaved, Live,
             NoRow
    <3>3. UploadTypes'
      BY <1>0, <2>5, UploadEnds DEF Mark, Claimed
    <3> QED BY <3>1, <3>2, <3>3
  <2>6. CASE MarkFails(s)
    <3>1. SyncTypes'
      BY <1>0, <2>6 DEF MarkFails, syncs, SyncTypes
    <3>2. held[s].run \in saved
      BY <1>0, <2>6 DEF MarkFails, Uploads, Uploading
    <3>3. TableTypes'
      BY <1>0, <2>6, <3>2 DEF MarkFails, database, outline, TableTypes
    <3>4. UploadTypes'
      BY <1>0, <2>6, UploadEnds DEF MarkFails, database, Claimed
    <3> QED BY <3>1, <3>3, <3>4
  <2> QED BY <1>3, <2>1, <2>2, <2>3, <2>4, <2>5, <2>6 DEF Upload
<1>4. ASSUME NEW t \in Tabs, NEW i \in Ids, Export(t, i)
      PROVE  TableTypes' /\ SyncTypes' /\ UploadTypes'
  <2>1. TableTypes' /\ SyncTypes'
    BY <1>0, <1>4 DEF Export, database, outline, syncs, TableTypes, SyncTypes
  <2> DEFINE h == [id |-> i, run |-> rows[i].run, doc |-> NoDoc]
  <2>2. h \in HeldType'
    <3>1. rows[i].run \in saved' \union {NoRun}
      BY <1>0, <1>4 DEF Export, database, Known
    <3> QED BY <3>1 DEF HeldType, Ids
  <2>3. /\ UNCHANGED <<saved, saving>> /\ t \in Savers
        /\ pc' = [pc EXCEPT ![t] = "claim"]
        /\ held' = [held EXCEPT ![t] = h]
    BY <1>4 DEF Export, database, Savers
  <2> HIDE DEF h
  <2>4. UploadTypes'
    BY <1>0, <2>2, <2>3, UploadMoves DEF UploadTypes, Pcs, Uploading, Claimed
  <2> QED BY <2>1, <2>4
<1>5. ASSUME UNCHANGED <<saved, uploads, pc>> PROVE UploadTypes'
  BY <1>0, <1>5 DEF uploads, UploadTypes, HeldType
<1>6. ASSUME NEW t \in Tabs, NEW i \in Ids, Arm(t, i)
      PROVE  TableTypes' /\ SyncTypes' /\ UploadTypes'
  BY <1>0, <1>5, <1>6
     DEF Arm, Ids, database, outline, uploads, syncs, TableTypes, SyncTypes
<1>7. ASSUME NEW t \in Tabs, Disarm(t)
      PROVE  TableTypes' /\ SyncTypes' /\ UploadTypes'
  BY <1>0, <1>5, <1>7
     DEF Disarm, database, outline, uploads, syncs, TableTypes, SyncTypes
<1>8. ASSUME NEW t \in Tabs, Confirm(t)
      PROVE  TableTypes' /\ SyncTypes' /\ UploadTypes'
  <2>1. rows[armed[t]].run \in saved
    BY <1>0, <1>8 DEF Confirm, Live, TableTypes, Known
  <2>2. TableTypes'
    BY <1>0, <1>8, <2>1 DEF Confirm, outline, uploads, TableTypes, NoRow
  <2>3. SyncTypes'
    BY <1>0, <1>8 DEF Confirm, syncs, SyncTypes
  <2>4. UNCHANGED <<saved, uploads, pc>>
    BY <1>8 DEF Confirm
  <2> QED BY <1>5, <2>2, <2>3, <2>4
<1>9. ASSUME NEW t \in Tabs, NEW p \in Pcs, UNCHANGED <<saved, uploads>>,
             pc[t] = "idle" \/ pc[t] = "plan",
             p \in {"idle", "plan"}, pc' = [pc EXCEPT ![t] = p]
      PROVE  UploadTypes'
  <2>1. held \in [Savers -> HeldType'] /\ t \in Savers
    BY <1>0, <1>9 DEF UploadTypes, HeldType, Savers
  <2> QED BY <1>0, <1>9, <2>1 DEF uploads, UploadTypes, Claimed
<1>10. ASSUME NEW t \in Tabs, List(t)
       PROVE  TableTypes' /\ SyncTypes' /\ UploadTypes'
  <2>1. TableTypes' /\ SyncTypes' /\ UNCHANGED <<saved, uploads>>
    BY <1>0, <1>10
       DEF List, database, outline, uploads, TableTypes, SyncTypes
  <2> QED BY <1>9, <1>10, <2>1 DEF List, Pcs
<1>11. ASSUME NEW t \in Tabs, ListFails(t) \/ CancelPlan(t)
       PROVE  TableTypes' /\ SyncTypes' /\ UploadTypes'
  <2>1. /\ plan' = [plan EXCEPT ![t] = EmptyPlan]
        /\ UNCHANGED <<database, outline, uploads, listed, armed, pc>>
    BY <1>11 DEF ListFails, CancelPlan
  <2>2. EmptyPlan \in [deletes : SUBSET (Ids \X Docs), creates : SUBSET Docs]
    BY DEF EmptyPlan
  <2>3. SyncTypes'
    BY <1>0, <2>1, <2>2 DEF SyncTypes
  <2>4. TableTypes'
    BY <1>0, <2>1 DEF database, outline, uploads, TableTypes
  <2> QED BY <1>5, <2>1, <2>3, <2>4 DEF database
<1>12. ASSUME NEW t \in Tabs, Plan(t)
       PROVE  TableTypes' /\ SyncTypes' /\ UploadTypes'
  <2>1. TableTypes' /\ SyncTypes' /\ UNCHANGED <<saved, uploads>>
    BY <1>0, <1>12
       DEF Plan, database, outline, uploads, TableTypes, SyncTypes
  <2> QED BY <1>9, <1>12, <2>1 DEF Plan, Pcs
<1>13. ASSUME NEW t \in Tabs, Apply(t)
       PROVE  TableTypes' /\ SyncTypes' /\ UploadTypes'
  <2>1. /\ plan' = [plan EXCEPT ![t] = EmptyPlan]
        /\ UNCHANGED <<saved, thrown, outline, uploads, listed, armed, pc>>
    BY <1>13 DEF Apply
  <2>2. EmptyPlan \in [deletes : SUBSET (Ids \X Docs), creates : SUBSET Docs]
    BY DEF EmptyPlan
  <2>3. SyncTypes'
    BY <1>0, <2>1, <2>2 DEF SyncTypes
  <2>4. ASSUME NEW i \in Ids
        PROVE  /\ rows'[i] \in [run : Runs \union {NoRun},
                                doc : Docs \union {NoDoc}]
               /\ rows'[i].run = NoRun => rows'[i] = NoRow
    <3>1. NoRow \in [run : Runs \union {NoRun}, doc : Docs \union {NoDoc}]
      BY DEF NoRow
    <3>2. ASSUME NEW d \in plan[t].creates
          PROVE  d \in Docs /\ docRun[d] \in saved
      BY <1>0 DEF TableTypes, SyncTypes, Known
    <3>3. \/ rows'[i] = rows[i]
          \/ rows'[i] = NoRow
          \/ \E d \in plan[t].creates : rows'[i] = [run |-> docRun[d], doc |-> d]
      BY <1>13, ApplyRows DEF TInv
    <3>4. CASE rows'[i] = rows[i]
      BY <1>0, <3>4 DEF TableTypes
    <3>5. ASSUME NEW d \in plan[t].creates,
                 rows'[i] = [run |-> docRun[d], doc |-> d]
          PROVE  /\ rows'[i] \in [run : Runs \union {NoRun},
                                  doc : Docs \union {NoDoc}]
                 /\ rows'[i].run # NoRun
      BY <1>0, <3>2, <3>5 DEF TableTypes
    <3> QED BY <3>1, <3>3, <3>4, <3>5
  <2>5. rows' = [i \in Ids |-> rows'[i]]
    BY <1>13, ApplyRows DEF TInv
  <2>6. rows' \in [Ids -> [run : Runs \union {NoRun}, doc : Docs \union {NoDoc}]]
    BY <2>4, <2>5
  <2>7. TableTypes' /\ UNCHANGED <<saved, uploads, pc>>
    BY <1>0, <2>1, <2>4, <2>6 DEF TableTypes, outline, uploads
  <2> QED BY <1>5, <2>3, <2>7
<1>14. ASSUME NEW d \in Docs, Trash(d)
       PROVE  TableTypes' /\ SyncTypes' /\ UploadTypes'
  <2>1. TableTypes'
    BY <1>0, <1>14 DEF Trash, database, uploads, TableTypes
  <2>2. SyncTypes'
    BY <1>0, <1>14 DEF Trash, syncs, SyncTypes
  <2> QED BY <1>5, <1>14, <2>1, <2>2 DEF Trash, database
<1>15. CASE Restart
  <2>1. TableTypes'
    BY <1>0, <1>15
       DEF Restart, database, outline, TableTypes, Uploads, Uploading
  <2>2. SyncTypes'
    BY <1>15 DEF Restart, SyncTypes, EmptyPlan
  <2>3. UploadTypes'
    BY <1>15
       DEF Restart, database, UploadTypes, Pcs, Claimed, HeldType, Nothing
  <2> QED BY <2>1, <2>2, <2>3
<1>16. CASE UNCHANGED vars
  <2>1. TableTypes'
    BY <1>0, <1>16 DEF vars, database, outline, uploads, TableTypes
  <2>2. SyncTypes'
    BY <1>0, <1>16 DEF vars, syncs, SyncTypes
  <2> QED BY <1>5, <1>16, <2>1, <2>2 DEF vars, database
<1> QED BY <1>1, <1>2, <1>3, <1>4, <1>6, <1>7, <1>8, <1>10, <1>11, <1>12, <1>13,
           <1>14, <1>15, <1>16 DEF Next

\* Every step keeps rows and documents to results that were saved.
LEMMA KnownStep == ASSUME TInv, [Next]_vars PROVE Known'
<1>0. TableTypes /\ SyncTypes /\ UploadTypes /\ Known /\ Uploads
  BY TypeParts DEF TInv
<1> USE HistoryAssumption
<1>1. ASSUME NEW r \in Runs, NEW i \in Ids, SaveRun(r, i) PROVE Known'
  BY <1>0, <1>1 DEF SaveRun, outline, syncs, TableTypes, Known
<1>2. CASE Load
  BY <1>0, <1>2 DEF Load, database, outline, syncs, Known
<1>3. ASSUME NEW s \in Savers, NEW d \in Docs, Made(s, d),
             pc[s] = "create", UNCHANGED <<database, syncs>>
      PROVE  Known'
  <2>1. held[s].run \in saved \ {NoRun}
    BY <1>0, <1>3 DEF Uploads, Uploading, TableTypes
  <2> QED BY <1>0, <1>3, <2>1 DEF Made, database, syncs, TableTypes, Known
<1>4. ASSUME UNCHANGED <<database, outline, syncs>> PROVE Known'
  BY <1>0, <1>4 DEF database, outline, syncs, Known
<1>5. ASSUME NEW s \in Savers, Upload(s) PROVE Known'
  <2>1. CASE Create(s)
    BY <1>3, <2>1 DEF Create
  <2>2. CASE CreateFails(s)
    BY <1>3, <1>4, <2>2 DEF CreateFails
  <2>3. CASE Mark(s)
    BY <1>0, <2>3 DEF Mark, outline, syncs, Unsaved, Live, TableTypes, Known
  <2> QED BY <1>4, <1>5, <2>1, <2>2, <2>3
          DEF Upload, Claim, Recheck, MarkFails
<1>6. ASSUME NEW t \in Tabs, NEW i \in Ids, Export(t, i) \/ Arm(t, i)
      PROVE  Known'
  BY <1>4, <1>6 DEF Export, Arm
<1>7. ASSUME NEW t \in Tabs, Disarm(t) PROVE Known'
  BY <1>4, <1>7 DEF Disarm
<1>8. ASSUME NEW t \in Tabs, Confirm(t) PROVE Known'
  BY <1>0, <1>8 DEF Confirm, outline, syncs, TableTypes, Known, NoRow
<1>9. ASSUME NEW t \in Tabs, List(t) PROVE Known'
  BY <1>0, <1>9 DEF List, database, outline, SyncTypes, Known
<1>10. ASSUME NEW t \in Tabs, plan' = [plan EXCEPT ![t] = EmptyPlan],
              UNCHANGED <<wiki, docRun, listed>>
       PROVE  \A u \in Tabs : \A d \in listed'[u] \union plan'[u].creates :
                wiki'[d] # "new"
  BY <1>0, <1>10 DEF SyncTypes, EmptyPlan, Known
<1>11. ASSUME NEW t \in Tabs, ListFails(t) \/ CancelPlan(t) PROVE Known'
  BY <1>0, <1>10, <1>11 DEF ListFails, CancelPlan, database, outline, Known
<1>12. ASSUME NEW t \in Tabs, Plan(t) PROVE Known'
  BY <1>0, <1>12 DEF Plan, database, outline, SyncTypes, Known
<1>13. ASSUME NEW t \in Tabs, Apply(t) PROVE Known'
  <2>1. /\ plan' = [plan EXCEPT ![t] = EmptyPlan]
        /\ UNCHANGED <<saved, outline, listed>>
    BY <1>13 DEF Apply
  <2>2. ASSUME NEW i \in Ids PROVE rows'[i].run \in saved \union {NoRun}
    <3>1. CASE rows'[i] = rows[i]
      BY <1>0, <3>1 DEF Known
    <3>2. CASE rows'[i] = NoRow
      BY <3>2 DEF NoRow
    <3>3. ASSUME NEW d \in plan[t].creates,
                 rows'[i] = [run |-> docRun[d], doc |-> d]
          PROVE  rows'[i].run \in saved \union {NoRun}
      BY <1>0, <3>3 DEF TableTypes, SyncTypes
    <3> QED BY <1>13, <3>1, <3>2, <3>3, ApplyRows DEF TInv
  <2> QED BY <1>0, <1>10, <2>1, <2>2 DEF outline, Known
<1>14. ASSUME NEW d \in Docs, Trash(d) PROVE Known'
  BY <1>0, <1>14 DEF Trash, database, syncs, TableTypes, Known
<1>15. CASE Restart
  BY <1>0, <1>15 DEF Restart, database, outline, Known, EmptyPlan
<1>16. CASE UNCHANGED vars
  BY <1>4, <1>16 DEF vars
<1> QED BY <1>1, <1>2, <1>5, <1>6, <1>7, <1>8, <1>9, <1>11, <1>12, <1>13, <1>14,
           <1>15, <1>16 DEF Next

\* Every step keeps uploads to rows of their own (run_export._claimed).
LEMMA UploadsStep == ASSUME TInv, [Next]_vars PROVE Uploads'
<1>0. TableTypes /\ SyncTypes /\ UploadTypes /\ Known /\ Uploads
  BY TypeParts DEF TInv
<1> USE HistoryAssumption DEF Uploading, Claimed
<1>1. ASSUME UNCHANGED <<saved, docRun, pc, held>> PROVE Uploads'
  BY <1>0, <1>1 DEF Uploads
\* One upload starts, ends or takes a step, and has no document yet.
<1>2. ASSUME NEW s \in Savers, saved \subseteq saved', pc'[s] # "mark",
             pc'[s] \in Uploading \union {"load"} => held'[s].id \in Ids,
             pc'[s] \in Uploading => held'[s].run \in saved',
             \A u \in Savers :
               /\ u # s => pc'[u] = pc[u] /\ held'[u] = held[u]
               /\ u # s /\ pc[u] \in Claimed /\ pc'[s] \in Claimed =>
                    held[u].id # held'[s].id,
             \A d \in Docs : docRun[d] \in saved => docRun'[d] = docRun[d]
      PROVE  Uploads'
  <2>1. \A u \in Savers : pc[u] = "mark" =>
          docRun'[held[u].doc] = docRun[held[u].doc]
    BY <1>0, <1>2 DEF Uploads
  <2> QED BY <1>0, <1>2, <2>1 DEF Uploads
<1>3. ASSUME NEW s \in Savers, End(s), UNCHANGED saved,
             \A d \in Docs : docRun[d] \in saved => docRun'[d] = docRun[d]
      PROVE  Uploads'
  <2>1. /\ pc'[s] = "idle"
        /\ \A u \in Savers : u # s => pc'[u] = pc[u] /\ held'[u] = held[u]
    BY <1>0, <1>3 DEF End, UploadTypes
  <2> QED BY <1>2, <1>3, <2>1
<1>4. ASSUME NEW r \in Runs, NEW i \in Ids, SaveRun(r, i) PROVE Uploads'
  <2>1. CASE r \in AutoSave
    <3> DEFINE h == [Nothing EXCEPT !.id = i]
    <3>1. h.id = i
      BY DEF Nothing
    <3>2. /\ pc' = [pc EXCEPT ![Worker] = "load"]
          /\ held' = [held EXCEPT ![Worker] = h]
          /\ saved \subseteq saved' /\ docRun' = docRun
      BY <1>4, <2>1 DEF SaveRun, outline
    <3> HIDE DEF h
    <3>3. /\ pc'[Worker] = "load" /\ held'[Worker].id \in Ids
          /\ \A u \in Savers : u # Worker => pc'[u] = pc[u] /\ held'[u] = held[u]
          /\ Worker \in Savers
      BY <1>0, <3>1, <3>2 DEF UploadTypes, Savers
    <3> QED BY <1>2, <3>2, <3>3
  <2>2. CASE r \notin AutoSave
    BY <1>0, <1>4, <2>2 DEF SaveRun, outline, Uploads
  <2> QED BY <2>1, <2>2
<1>5. CASE Load
  <2>1. CASE held[Worker].id \in Live(rows)
    <3> DEFINE h == [held[Worker] EXCEPT !.run = rows[held[Worker].id].run]
    <3>1. h.id \in Ids /\ h.run \in saved
      BY <1>0, <2>1
         DEF Live, UploadTypes, HeldType, TableTypes, Known, Savers
    <3>2. /\ pc' = [pc EXCEPT ![Worker] = "claim"]
          /\ held' = [held EXCEPT ![Worker] = h]
          /\ UNCHANGED <<saved, docRun>>
      BY <1>5, <2>1 DEF Load, database, outline
    <3> HIDE DEF h
    <3>3. /\ pc'[Worker] = "claim" /\ held'[Worker] = h
          /\ \A u \in Savers : u # Worker => pc'[u] = pc[u] /\ held'[u] = held[u]
          /\ Worker \in Savers
      BY <1>0, <3>2 DEF UploadTypes, Savers
    <3> QED BY <1>2, <3>1, <3>2, <3>3
  <2>2. CASE held[Worker].id \notin Live(rows)
    BY <1>3, <1>5, <2>2 DEF Load, End, database, outline, Savers
  <2> QED BY <2>1, <2>2
<1>6. ASSUME NEW s \in Savers, Upload(s) PROVE Uploads'
  <2>1. CASE Claim(s)
    <3>1. CASE held[s].id \in saving
      BY <1>3, <2>1, <3>1 DEF Claim, database, outline
    <3>2. CASE held[s].id \notin saving
      <4>1. /\ pc[s] = "claim" /\ UNCHANGED <<held, saved, docRun>>
            /\ pc' = [pc EXCEPT ![s] = "recheck"]
        BY <2>1, <3>2 DEF Claim, database, outline
      <4>2. /\ pc'[s] = "recheck"
            /\ \A u \in Savers : u # s => pc'[u] = pc[u] /\ held'[u] = held[u]
        BY <1>0, <4>1 DEF UploadTypes
      <4>3. /\ held[s].id \in Ids /\ held[s].run \in saved
            /\ \A u \in Savers : pc[u] \in Claimed => held[u].id # held[s].id
        BY <1>0, <3>2, <4>1 DEF Uploads, UploadTypes
      <4> QED BY <1>2, <4>1, <4>2, <4>3
    <3> QED BY <3>1, <3>2
  <2>2. CASE Recheck(s)
    <3>1. CASE Exported(held[s].id)
      BY <1>3, <2>2, <3>1 DEF Recheck, database, outline
    <3>2. CASE ~Exported(held[s].id)
      <4>1. /\ pc[s] = "recheck" /\ UNCHANGED <<held, saved, docRun>>
            /\ pc' = [pc EXCEPT ![s] = "create"]
        BY <2>2, <3>2 DEF Recheck, database, outline
      <4> QED BY <1>0, <4>1 DEF Uploads, UploadTypes
    <3> QED BY <3>1, <3>2
  <2>3. ASSUME NEW d \in Docs, Made(s, d)
        PROVE  \A e \in Docs : docRun[e] \in saved => docRun'[e] = docRun[e]
    BY <1>0, <2>3 DEF Made, TableTypes, Known
  <2>4. CASE Create(s)
    <3>1. PICK d \in Docs : Made(s, d) /\ held' = [held EXCEPT ![s].doc = d]
      BY <2>4 DEF Create
    <3>2. /\ pc[s] = "create" /\ UNCHANGED saved
          /\ pc' = [pc EXCEPT ![s] = "mark"]
      BY <2>4 DEF Create, database
    <3>3. docRun'[d] = held[s].run
      BY <1>0, <3>1 DEF Made, TableTypes
    <3>4. /\ held'[s].id = held[s].id /\ held'[s].run = held[s].run
          /\ held'[s].doc = d
          /\ \A u \in Savers : u # s => held'[u] = held[u]
      BY <1>0, <3>1 DEF UploadTypes, HeldType
    <3>5. \A u \in Savers : pc[u] = "mark" =>
            docRun'[held[u].doc] = docRun[held[u].doc]
      BY <1>0, <2>3, <3>1 DEF Uploads
    <3> QED BY <1>0, <3>2, <3>3, <3>4, <3>5 DEF Uploads, UploadTypes
  <2>5. CASE CreateFails(s)
    BY <1>3, <2>3, <2>5 DEF CreateFails, database, outline
  <2>6. CASE Mark(s)
    BY <1>3, <2>6 DEF Mark, outline
  <2>7. CASE MarkFails(s)
    BY <1>3, <2>7 DEF MarkFails, database, outline
  <2> QED BY <1>6, <2>1, <2>2, <2>4, <2>5, <2>6, <2>7 DEF Upload
<1>7. ASSUME NEW t \in Tabs, NEW i \in Ids, Export(t, i) PROVE Uploads'
  <2> DEFINE h == [id |-> i, run |-> rows[i].run, doc |-> NoDoc]
  <2>1. h.id = i /\ h.run \in saved
    BY <1>0, <1>7 DEF Export, Unsaved, Live, TableTypes, Known
  <2>2. /\ pc' = [pc EXCEPT ![t] = "claim"]
        /\ held' = [held EXCEPT ![t] = h]
        /\ UNCHANGED <<saved, docRun>>
    BY <1>7 DEF Export, database, outline
  <2> HIDE DEF h
  <2>3. /\ pc'[t] = "claim" /\ held'[t] = h /\ t \in Savers
        /\ \A u \in Savers : u # t => pc'[u] = pc[u] /\ held'[u] = held[u]
    BY <1>0, <2>2 DEF UploadTypes, Savers
  <2> QED BY <1>2, <2>1, <2>2, <2>3
<1>8. ASSUME NEW t \in Tabs, NEW i \in Ids, Arm(t, i) PROVE Uploads'
  BY <1>1, <1>8 DEF Arm, database, outline, uploads
<1>9. ASSUME NEW t \in Tabs,
             \/ Disarm(t) \/ Confirm(t) \/ ListFails(t) \/ CancelPlan(t)
             \/ Apply(t)
      PROVE  Uploads'
  BY <1>1, <1>9
     DEF Disarm, Confirm, ListFails, CancelPlan, Apply, database, outline,
         uploads
<1>10. ASSUME NEW t \in Tabs, List(t) \/ Plan(t) PROVE Uploads'
  <2>1. PICK p \in {"plan", "idle"} : pc' = [pc EXCEPT ![t] = p]
    BY <1>10 DEF List, Plan
  <2>2. UNCHANGED <<held, saved, docRun>> /\ pc \in [Savers -> Pcs] /\ t \in Savers
    BY <1>0, <1>10
       DEF List, Plan, database, outline, uploads, UploadTypes, Savers
  <2> QED BY <1>0, <2>1, <2>2 DEF Uploads
<1>11. ASSUME NEW d \in Docs, Trash(d) PROVE Uploads'
  BY <1>1, <1>11 DEF Trash, database, uploads
<1>12. CASE Restart
  BY <1>12 DEF Restart, Uploads
<1>13. CASE UNCHANGED vars
  BY <1>1, <1>13 DEF vars, database, outline, uploads
<1> QED BY <1>4, <1>5, <1>6, <1>7, <1>8, <1>9, <1>10, <1>11, <1>12, <1>13 DEF Next

\* Every step keeps what holds for any number of tabs.
LEMMA TInvStep == ASSUME TInv, [Next]_vars PROVE TInv'
BY TypeOKStep, KnownStep, UploadsStep DEF TInv

\* The invariant TypeOK, for any number of tabs: rows, documents and uploads are
\* of results that were saved, and whoever uploads a row has claimed its ID
\* (run_export._claimed).
THEOREM HistoryTypeOK == Spec => []TypeOK
<1>1. TInv => TypeOK
  BY DEF TInv
<1> QED BY <1>1, InitTInv, TInvStep, PTL DEF Spec

-----------------------------------------------------------------------------
(* One tab. *)

Core == /\ HoldsItsRow /\ AnswersSafe /\ LinkMatches
        /\ AnswersOnce /\ SentOnce /\ AboutToLink /\ AtMostOne

\* An unsaved row is there, is of a saved result, and has no document.
LEMMA UnsavedRows ==
  ASSUME TInv, NEW i \in Unsaved
  PROVE  /\ i \in Ids /\ i \in Live(rows)
         /\ rows[i].run \in saved /\ rows[i].doc = NoDoc
BY TypeParts DEF TInv, Unsaved, Live, Exported, TableTypes, Known

\* The saver s moves on and has not begun, or not gone on, to send a document.
LEMMA QuietMove ==
  ASSUME TInv, Core, NEW s \in Savers,
         UNCHANGED <<rows, saved, thrown, docRun>>, troubled \subseteq troubled',
         \A u \in Savers : u # s => pc'[u] = pc[u] /\ held'[u] = held[u],
         pc'[s] \notin {"create", "mark"},
         pc'[s] \in Uploading /\ held'[s].id \in Unsaved =>
           rows[held'[s].id].run = held'[s].run,
         s \in Tabs /\ pc'[s] \in Uploading => held'[s].id \in Live(rows),
         pc[s] = "mark" => held[s].run \in troubled'
  PROVE  Core'
<1>1. Unsaved' = Unsaved /\ Live(rows)' = Live(rows)
  BY DEF Unsaved, Live, Exported
<1>2. HoldsItsRow'
  BY <1>1 DEF Core, HoldsItsRow, Savers
<1>3. AnswersSafe' /\ LinkMatches' /\ AnswersOnce'
  BY <1>1
     DEF Core, AnswersSafe, LinkMatches, AnswersOnce, HasAnswers, DocsOf, Exported
<1>4. \A u \in Savers : \A r : Sends(u, r)' => u # s /\ Sends(u, r)
  BY DEF Sends
<1>5. SentOnce'
  BY <1>1, <1>4 DEF Core, SentOnce, Sends
<1>6. AboutToLink'
  <2> SUFFICES ASSUME NEW i \in Unsaved, NEW d \in Docs,
                      docRun[d] = rows[i].run, rows[i].run \notin troubled'
               PROVE  \E u \in Savers :
                        pc'[u] = "mark" /\ held'[u].id = i /\ held'[u].doc = d
    BY <1>1 DEF AboutToLink
  <2>1. PICK u \in Savers : pc[u] = "mark" /\ held[u].id = i /\ held[u].doc = d
    BY DEF Core, AboutToLink
  <2>2. held[u].run = rows[i].run
    BY <2>1 DEF TInv, Uploads
  <2>3. u # s
    BY <2>1, <2>2
  <2> QED BY <2>1, <2>3
<1>7. AtMostOne'
  BY DEF Core, AtMostOne, DocsOf
<1> QED BY <1>2, <1>3, <1>5, <1>6, <1>7 DEF Core

\* Rows go, or come from documents.
LEMMA RowsMove ==
  ASSUME TInv, Core, UNCHANGED <<saved, troubled, docRun, pc, held>>,
         \A i \in Unsaved' : i \in Unsaved /\ rows'[i] = rows[i],
         \A t \in Tabs : pc[t] \notin Uploading
  PROVE  HoldsItsRow' /\ AnswersOnce' /\ SentOnce' /\ AboutToLink' /\ AtMostOne'
<1>1. HoldsItsRow'
  BY DEF Core, HoldsItsRow
<1>2. AnswersOnce'
  BY DEF Core, AnswersOnce
<1>3. SentOnce'
  BY DEF Core, SentOnce, Sends
<1>4. AboutToLink'
  BY DEF Core, AboutToLink
<1>5. AtMostOne'
  BY DEF Core, AtMostOne, DocsOf
<1> QED BY <1>1, <1>2, <1>3, <1>4, <1>5

\* A document is made of the result of s.
LEMMA MadeOf ==
  ASSUME TInv, NEW s \in Savers, NEW d \in Docs, Made(s, d),
         pc[s] = "create"
  PROVE  /\ held[s].run \in saved /\ docRun[d] = NoRun
         /\ docRun'[d] = held[s].run
         /\ \A e \in Docs : e # d => docRun'[e] = docRun[e]
         /\ \A e \in Docs : docRun[e] \in saved => docRun'[e] = docRun[e]
BY TypeParts, HistoryAssumption
   DEF TInv, Made, TableTypes, Known, Uploads, Uploading

\* A document made of what an upload holds loses no answer and breaks no link.
LEMMA MadeKeeps ==
  ASSUME TInv, Core, NEW s \in Savers, NEW d \in Docs, Made(s, d),
         pc[s] = "create", UNCHANGED <<rows, saved, thrown>>
  PROVE  AnswersSafe' /\ LinkMatches' /\ AnswersOnce'
<1>1. \A e \in Docs : docRun[e] \in saved => docRun'[e] = docRun[e]
  BY MadeOf
<1>2. AnswersSafe'
  BY <1>1 DEF Core, AnswersSafe, HasAnswers, DocsOf, Unsaved, Live, Exported
<1>3. LinkMatches'
  <2>1. \A i \in Ids : Exported(i) =>
          rows[i].doc \in Docs /\ rows[i].run \in saved
    BY TypeParts DEF TInv, TableTypes, Known, Exported, NoRow
  <2> QED BY <1>1, <2>1 DEF Core, LinkMatches, Exported
<1>4. AnswersOnce'
  BY DEF Core, AnswersOnce, Unsaved, Live, Exported
<1> QED BY <1>2, <1>3, <1>4

\* run_history.save_run: the new row, whatever its ID, is of a result that no
\* upload holds.
LEMMA CoreSaveRun ==
  ASSUME TInv, Core, NEW r \in Runs, NEW i \in Ids, SaveRun(r, i)
  PROVE  Core'
<1> USE HistoryAssumption
<1>1. /\ i \notin Live(rows) /\ r \notin saved /\ r # NoRun
      /\ pc[Worker] = "idle" /\ saved' = saved \union {r}
      /\ UNCHANGED <<thrown, docRun, troubled>>
  BY DEF SaveRun, IsNextId, outline, Ids
<1>2. /\ rows'[i] = [run |-> r, doc |-> NoDoc]
      /\ \A j \in Ids : j # i => rows'[j] = rows[j]
  BY TypeParts DEF SaveRun, TInv, TableTypes
<1>3. Unsaved' = Unsaved \union {i}
  BY <1>1, <1>2 DEF Unsaved, Live, Exported, NoRow
<1>4. /\ pc'[Worker] \notin Uploading
      /\ \A u \in Savers : u # Worker => pc'[u] = pc[u] /\ held'[u] = held[u]
  BY <1>1, TypeParts DEF SaveRun, TInv, UploadTypes, Uploading
<1>5. HoldsItsRow'
  <2>1. ASSUME NEW s \in Savers, pc'[s] \in Uploading, held'[s].id \in Unsaved'
        PROVE  rows'[held'[s].id].run = held'[s].run
    <3>1. s \in Tabs /\ pc'[s] = pc[s] /\ held'[s] = held[s]
      BY <1>4, <2>1 DEF Savers
    <3>2. held[s].id \in Live(rows)
      BY <2>1, <3>1 DEF Core, HoldsItsRow
    <3>3. held[s].id \in Unsaved /\ held[s].id # i
      BY <1>1, <1>3, <2>1, <3>1, <3>2
    <3> QED BY <1>2, <2>1, <3>1, <3>3, UnsavedRows DEF Core, HoldsItsRow, Savers
  <2>2. ASSUME NEW t \in Tabs, pc'[t] \in Uploading
        PROVE  held'[t].id \in Live(rows)'
    <3>1. pc'[t] = pc[t] /\ held'[t] = held[t] /\ held[t].id \in Live(rows)
      BY <1>4, <2>2 DEF Core, HoldsItsRow, Savers
    <3> QED BY <1>1, <1>2, <3>1 DEF Live
  <2> QED BY <2>1, <2>2 DEF HoldsItsRow
<1>6. ASSUME NEW q \in saved', NEW j \in Unsaved', rows'[j].run = q, q \in saved
      PROVE  j \in Unsaved /\ rows'[j] = rows[j]
  BY <1>1, <1>2, <1>3, <1>6, UnsavedRows
<1>7. \A j \in Unsaved : j # i /\ rows'[j] = rows[j] /\ rows[j].run \in saved
  BY <1>1, <1>2, UnsavedRows
<1>8. AnswersSafe'
  <2>1. HasAnswers(r)'
    BY <1>2, <1>3 DEF HasAnswers
  <2>2. \A q \in saved : HasAnswers(q) => HasAnswers(q)'
    BY <1>3, <1>7 DEF HasAnswers
  <2> QED BY <1>1, <2>1, <2>2 DEF Core, AnswersSafe, DocsOf
<1>9. LinkMatches'
  BY <1>1, <1>2 DEF Core, LinkMatches, Exported
<1>10. AnswersOnce'
  BY <1>1, <1>2, <1>3, <1>7 DEF Core, AnswersOnce
<1>11. \A u \in Savers : \A q : Sends(u, q)' => Sends(u, q) /\ q \in saved
                                            /\ pc'[u] = pc[u] /\ held'[u] = held[u]
  BY <1>4 DEF Sends, Uploading, TInv, Uploads
<1>12. SentOnce'
  BY <1>1, <1>6, <1>11 DEF Core, SentOnce
<1>13. AboutToLink'
  <2> SUFFICES ASSUME NEW j \in Unsaved', NEW d \in Docs,
                      docRun[d] = rows'[j].run, rows'[j].run \notin troubled
               PROVE  \E s \in Savers :
                        pc'[s] = "mark" /\ held'[s].id = j /\ held'[s].doc = d
    BY <1>1 DEF AboutToLink
  <2>1. docRun[d] \in saved \union {NoRun}
    BY TypeParts DEF TInv, TableTypes
  <2>2. j \in Unsaved /\ rows'[j] = rows[j]
    BY <1>1, <1>2, <1>3, <1>7, <2>1
  <2>3. PICK s \in Savers : pc[s] = "mark" /\ held[s].id = j /\ held[s].doc = d
    BY <2>2 DEF Core, AboutToLink
  <2> QED BY <1>1, <1>4, <2>3
<1>14. AtMostOne'
  <2>1. DocsOf(r)' = {}
    BY <1>1, TypeParts DEF DocsOf, TInv, TableTypes
  <2> QED BY <1>1, <2>1 DEF Core, AtMostOne, DocsOf
<1> QED BY <1>5, <1>8, <1>9, <1>10, <1>12, <1>13, <1>14 DEF Core

\* run_export.save reads the row again after its claim: no link yet.
LEMMA CoreRecheck ==
  ASSUME TInv, Core, NEW s \in Savers, Recheck(s), ~Exported(held[s].id)
  PROVE  Core'
<1> DEFINE i == held[s].id
           r == held[s].run
<1>1. /\ pc[s] = "recheck" /\ UNCHANGED <<rows, saved, thrown, docRun, held>>
      /\ pc' = [pc EXCEPT ![s] = "create"]
      /\ troubled' = IF i \in Live(rows) THEN troubled ELSE troubled \union {r}
  BY DEF Recheck, database, outline
<1>2. /\ pc'[s] = "create"
      /\ \A u \in Savers : u # s => pc'[u] = pc[u]
  BY <1>1, TypeParts DEF TInv, UploadTypes
<1>3. Unsaved' = Unsaved /\ Live(rows)' = Live(rows) /\ troubled \subseteq troubled'
  BY <1>1 DEF Unsaved, Live, Exported
<1>4. HoldsItsRow'
  BY <1>1, <1>2, <1>3 DEF Core, HoldsItsRow, Uploading, Savers
<1>5. AnswersSafe' /\ LinkMatches' /\ AnswersOnce'
  BY <1>1, <1>3
     DEF Core, AnswersSafe, LinkMatches, AnswersOnce, HasAnswers, DocsOf, Exported
<1>6. ASSUME r \notin troubled'
      PROVE  /\ i \in Unsaved /\ rows[i].run = r
             /\ \A u \in Savers : u # s /\ Sends(u, r) => FALSE
             /\ \A d \in Docs : docRun[d] # r
  <2>1. i \in Live(rows)
    BY <1>1, <1>6
  <2>2. i \in Unsaved /\ rows[i].run = r
    BY <1>1, <2>1 DEF Unsaved, Core, HoldsItsRow, Uploading
  <2>3. r \in saved \ troubled
    BY <1>1, <1>6, <2>1 DEF TInv, Uploads, Uploading
  <2>4. ASSUME NEW u \in Savers, u # s, Sends(u, r) PROVE FALSE
    <3>1. i = held[u].id
      BY <2>2, <2>3, <2>4 DEF Core, SentOnce
    <3> QED BY <1>1, <2>4, <3>1 DEF TInv, Uploads, Claimed, Sends
  <2>5. ASSUME NEW d \in Docs, docRun[d] = r PROVE FALSE
    <3>1. PICK u \in Savers : pc[u] = "mark" /\ held[u].id = i
      BY <2>2, <2>3, <2>5 DEF Core, AboutToLink
    <3> QED BY <1>1, <3>1 DEF TInv, Uploads, Claimed
  <2> QED BY <2>2, <2>4, <2>5
<1>7. \A u \in Savers : \A q \in saved \ troubled' :
        Sends(u, q)' => \/ u = s /\ q = r
                        \/ u # s /\ Sends(u, q) /\ q # r /\ pc'[u] = pc[u]
  BY <1>1, <1>2, <1>6 DEF Sends
<1>8. SentOnce'
  <2>1. ASSUME NEW u \in Savers, NEW v \in Savers, NEW q \in saved \ troubled',
               Sends(u, q)', Sends(v, q)'
        PROVE  u = v
    BY <1>3, <1>7, <2>1 DEF Core, SentOnce
  <2>2. ASSUME NEW u \in Savers, NEW q \in saved \ troubled', NEW j \in Unsaved,
               Sends(u, q)', rows[j].run = q
        PROVE  j = held[u].id
    BY <1>3, <1>6, <1>7, <2>2 DEF Core, SentOnce, AnswersOnce
  <2>3. ASSUME NEW u \in Savers, NEW q \in saved \ troubled', NEW d \in Docs,
               Sends(u, q)', pc'[u] = "create"
        PROVE  docRun[d] # q
    BY <1>3, <1>6, <1>7, <2>3 DEF Core, SentOnce
  <2> QED BY <1>1, <1>3, <2>1, <2>2, <2>3 DEF SentOnce
<1>9. AboutToLink'
  BY <1>1, <1>2, <1>3 DEF Core, AboutToLink
<1>10. AtMostOne'
  BY <1>1, <1>3 DEF Core, AtMostOne, DocsOf
<1> QED BY <1>4, <1>5, <1>8, <1>9, <1>10 DEF Core

\* The document is made of the result whose row the upload holds.
LEMMA CoreCreate ==
  ASSUME TInv, Core, NEW s \in Savers, Create(s)
  PROVE  Core'
<1> DEFINE r == held[s].run
<1>1. /\ pc[s] = "create" /\ UNCHANGED <<rows, saved, thrown, troubled>>
      /\ pc' = [pc EXCEPT ![s] = "mark"]
  BY DEF Create, database
<1>2. PICK d \in Docs : Made(s, d) /\ held' = [held EXCEPT ![s].doc = d]
  BY DEF Create
<1>3. /\ pc'[s] = "mark" /\ \A u \in Savers : u # s => pc'[u] = pc[u]
      /\ held'[s].id = held[s].id /\ held'[s].run = r /\ held'[s].doc = d
      /\ \A u \in Savers : u # s => held'[u] = held[u]
  BY <1>1, <1>2, TypeParts DEF TInv, UploadTypes, HeldType
<1>4. Unsaved' = Unsaved /\ Live(rows)' = Live(rows)
  BY <1>1 DEF Unsaved, Live, Exported
<1>5. HoldsItsRow'
  BY <1>1, <1>3, <1>4 DEF Core, HoldsItsRow, Uploading, Savers
<1>6. AnswersSafe' /\ LinkMatches' /\ AnswersOnce'
  BY <1>1, <1>2, MadeKeeps
<1>7. /\ r \in saved /\ docRun'[d] = r
      /\ \A e \in Docs : e # d => docRun'[e] = docRun[e]
  BY <1>1, <1>2, MadeOf
<1>8. \A u \in Savers : \A q : Sends(u, q)' => Sends(u, q)
  BY <1>1, <1>3 DEF Sends
<1>9. SentOnce'
  <2>1. ASSUME NEW u \in Savers, NEW q \in saved \ troubled, NEW e \in Docs,
               Sends(u, q)', pc'[u] = "create"
        PROVE  docRun'[e] # q
    <3>1. u # s /\ Sends(u, q) /\ pc[u] = "create"
      BY <1>3, <1>8, <2>1
    <3>2. q # r
      BY <1>1, <3>1 DEF Core, SentOnce, Sends
    <3> QED BY <1>7, <3>1, <3>2 DEF Core, SentOnce
  <2>2. ASSUME NEW u \in Savers, NEW v \in Savers, NEW q \in saved \ troubled,
               Sends(u, q)', Sends(v, q)'
        PROVE  u = v
    BY <1>8, <2>2 DEF Core, SentOnce
  <2>3. ASSUME NEW u \in Savers, NEW q \in saved \ troubled, NEW j \in Unsaved,
               Sends(u, q)', rows[j].run = q
        PROVE  j = held'[u].id
    <3>1. j = held[u].id
      BY <1>8, <2>3 DEF Core, SentOnce
    <3> QED BY <1>3, <3>1
  <2> QED BY <1>1, <1>4, <2>1, <2>2, <2>3 DEF SentOnce
<1>10. AboutToLink'
  <2> SUFFICES ASSUME NEW i \in Unsaved, NEW e \in Docs,
                      docRun'[e] = rows[i].run, rows[i].run \notin troubled
               PROVE  \E u \in Savers :
                        pc'[u] = "mark" /\ held'[u].id = i /\ held'[u].doc = e
    BY <1>1, <1>4 DEF AboutToLink
  <2>1. CASE e = d
    <3>1. i = held[s].id
      BY <1>1, <1>7, <2>1, UnsavedRows DEF Core, SentOnce, Sends
    <3> QED BY <1>3, <2>1, <3>1
  <2>2. CASE e # d
    <3>1. PICK u \in Savers : pc[u] = "mark" /\ held[u].id = i /\ held[u].doc = e
      BY <1>7, <2>2 DEF Core, AboutToLink
    <3>2. u # s
      BY <1>1, <3>1
    <3> QED BY <1>3, <3>1, <3>2
  <2> QED BY <2>1, <2>2
<1>11. AtMostOne'
  <2>1. r \notin troubled => \A e \in Docs : docRun[e] # r
    BY <1>1, <1>7 DEF Core, SentOnce, Sends
  <2> QED BY <1>1, <1>7, <2>1 DEF Core, AtMostOne, DocsOf
<1> QED BY <1>5, <1>6, <1>9, <1>10, <1>11 DEF Core

\* A request that failed may have made a document; that result has trouble.
LEMMA CoreCreateFails ==
  ASSUME TInv, Core, NEW s \in Savers, CreateFails(s)
  PROVE  Core'
<1>1. /\ pc[s] = "create" /\ UNCHANGED <<rows, saved, thrown>>
      /\ troubled' = troubled \union {held[s].run}
      /\ pc'[s] = "idle"
      /\ \A u \in Savers : u # s => pc'[u] = pc[u] /\ held'[u] = held[u]
  BY TypeParts DEF CreateFails, End, database, TInv, UploadTypes
<1>2. CASE UNCHANGED outline
  BY <1>1, <1>2, QuietMove DEF outline, Uploading
<1>3. ASSUME NEW d \in Docs, Made(s, d) PROVE Core'
  <2>1. Unsaved' = Unsaved /\ Live(rows)' = Live(rows)
    BY <1>1 DEF Unsaved, Live, Exported
  <2>2. HoldsItsRow'
    BY <1>1, <2>1 DEF Core, HoldsItsRow, Uploading, Savers
  <2>3. AnswersSafe' /\ LinkMatches' /\ AnswersOnce'
    BY <1>1, <1>3, MadeKeeps
  <2>4. /\ docRun'[d] = held[s].run
        /\ \A e \in Docs : e # d => docRun'[e] = docRun[e]
    BY <1>1, <1>3, MadeOf
  <2>5. \A e \in Docs, q \in saved \ troubled' : docRun'[e] = q => docRun[e] = q
    BY <1>1, <2>4
  <2>6. \A u \in Savers : \A q : Sends(u, q)' =>
          u # s /\ Sends(u, q) /\ pc'[u] = pc[u] /\ held'[u] = held[u]
    BY <1>1 DEF Sends
  <2>7. SentOnce'
    BY <1>1, <2>1, <2>5, <2>6 DEF Core, SentOnce
  <2>8. AboutToLink'
    <3> SUFFICES ASSUME NEW i \in Unsaved, NEW e \in Docs,
                        docRun'[e] = rows[i].run, rows[i].run \notin troubled'
                 PROVE  \E u \in Savers :
                          pc'[u] = "mark" /\ held'[u].id = i /\ held'[u].doc = e
      BY <1>1, <2>1 DEF AboutToLink
    <3>1. docRun[e] = rows[i].run /\ rows[i].run \notin troubled
      BY <1>1, <2>5, UnsavedRows
    <3>2. PICK u \in Savers : pc[u] = "mark" /\ held[u].id = i /\ held[u].doc = e
      BY <3>1 DEF Core, AboutToLink
    <3> QED BY <1>1, <3>2
  <2>9. AtMostOne'
    BY <1>1, <2>5 DEF Core, AtMostOne, DocsOf
  <2> QED BY <2>2, <2>3, <2>7, <2>8, <2>9 DEF Core
<1> QED BY <1>2, <1>3 DEF CreateFails

\* run_links.mark_exported: the row is still of the result that was uploaded.
LEMMA CoreMark ==
  ASSUME TInv, Core, NEW s \in Savers, Mark(s)
  PROVE  Core'
<1> DEFINE i == held[s].id
<1>1. /\ pc[s] = "mark" /\ i \in Unsaved
      /\ rows' = [rows EXCEPT ![i].doc = held[s].doc]
      /\ UNCHANGED <<saved, thrown, docRun, troubled>>
      /\ pc'[s] = "idle"
      /\ \A u \in Savers : u # s => pc'[u] = pc[u] /\ held'[u] = held[u]
  BY TypeParts DEF Mark, End, outline, TInv, UploadTypes
<1>2. /\ held[s].doc \in Docs /\ held[s].run \in saved
      /\ docRun[held[s].doc] = held[s].run /\ rows[i].run = held[s].run
  BY <1>1 DEF TInv, Uploads, Uploading, Core, HoldsItsRow
<1>3. /\ rows'[i].run = rows[i].run /\ rows'[i].doc = held[s].doc
      /\ \A j \in Ids : j # i => rows'[j] = rows[j]
  BY <1>1, UnsavedRows, TypeParts DEF TInv, TableTypes
<1>4. Unsaved' = Unsaved \ {i}
  BY <1>1, <1>2, <1>3, HistoryAssumption DEF Unsaved, Live, Exported
<1>5. Live(rows)' = Live(rows)
  BY <1>1, <1>2, <1>3, UnsavedRows, HistoryAssumption DEF Live, NoRow
<1>6. \A j \in Unsaved : j \in Ids
  BY UnsavedRows
<1>7. HoldsItsRow'
  BY <1>1, <1>3, <1>4, <1>5, <1>6 DEF Core, HoldsItsRow, Uploading, Savers
<1>8. AnswersSafe'
  <2>1. ASSUME NEW q \in saved, HasAnswers(q)
        PROVE  HasAnswers(q)' \/ DocsOf(q) # {}
    <3>1. PICK j \in Unsaved : rows[j].run = q
      BY <2>1 DEF HasAnswers
    <3>2. CASE j = i
      BY <1>2, <3>1, <3>2 DEF DocsOf
    <3>3. CASE j # i
      BY <1>3, <1>4, <1>6, <3>1, <3>3 DEF HasAnswers
    <3> QED BY <3>2, <3>3
  <2> QED BY <1>1, <2>1 DEF Core, AnswersSafe, DocsOf
<1>9. LinkMatches'
  BY <1>1, <1>2, <1>3 DEF Core, LinkMatches, Exported
<1>10. AnswersOnce'
  BY <1>3, <1>4, <1>6 DEF Core, AnswersOnce
<1>11. \A u \in Savers : \A q : Sends(u, q)' =>
         u # s /\ Sends(u, q) /\ pc'[u] = pc[u] /\ held'[u] = held[u]
  BY <1>1 DEF Sends
<1>12. SentOnce'
  BY <1>1, <1>3, <1>4, <1>6, <1>11 DEF Core, SentOnce
<1>13. AboutToLink'
  <2> SUFFICES ASSUME NEW j \in Unsaved, j # i, NEW d \in Docs,
                      docRun[d] = rows[j].run, rows[j].run \notin troubled
               PROVE  \E u \in Savers :
                        pc'[u] = "mark" /\ held'[u].id = j /\ held'[u].doc = d
    BY <1>1, <1>3, <1>4, <1>6 DEF AboutToLink
  <2>1. PICK u \in Savers : pc[u] = "mark" /\ held[u].id = j /\ held[u].doc = d
    BY DEF Core, AboutToLink
  <2> QED BY <1>1, <2>1
<1>14. AtMostOne'
  BY <1>1 DEF Core, AtMostOne, DocsOf
<1> QED BY <1>7, <1>8, <1>9, <1>10, <1>12, <1>13, <1>14 DEF Core

\* run_history.delete_run by the only tab: the tab has no
\* upload of the row.
LEMMA CoreConfirm ==
  ASSUME OneTab, TInv, Core, NEW t \in Tabs, Confirm(t)
  PROVE  Core'
<1> DEFINE i == armed[t]
<1>1. /\ pc[t] = "idle" /\ i \in Live(rows)
      /\ thrown' = thrown \union {rows[i].run}
      /\ UNCHANGED <<saved, docRun, troubled, pc, held>>
  BY DEF Confirm, outline, uploads
<1>2. /\ rows'[i] = NoRow
      /\ \A j \in Ids : j # i => rows'[j] = rows[j]
  BY TypeParts DEF Confirm, Live, TInv, TableTypes
<1>3. Unsaved' = Unsaved \ {i}
  BY <1>2 DEF Unsaved, Live, Exported
<1>4. \A j \in Unsaved' : j \in Unsaved /\ rows'[j] = rows[j]
  BY <1>2, <1>3, UnsavedRows
<1>5. \A u \in Tabs : pc[u] \notin Uploading
  BY <1>1 DEF OneTab, Uploading
<1>6. HoldsItsRow' /\ AnswersOnce' /\ SentOnce' /\ AboutToLink' /\ AtMostOne'
  BY <1>1, <1>4, <1>5, RowsMove
<1>7. AnswersSafe'
  <2>1. ASSUME NEW r \in saved, HasAnswers(r) PROVE HasAnswers(r)' \/ r \in thrown'
    <3>1. PICK j \in Unsaved : rows[j].run = r
      BY <2>1 DEF HasAnswers
    <3>2. CASE j = i
      BY <1>1, <3>1, <3>2
    <3>3. CASE j # i
      BY <1>2, <1>3, <3>1, <3>3, UnsavedRows DEF HasAnswers
    <3> QED BY <3>2, <3>3
  <2> QED BY <1>1, <2>1 DEF Core, AnswersSafe, DocsOf
<1>8. LinkMatches'
  BY <1>1, <1>2 DEF Core, LinkMatches, Exported, NoRow
<1> QED BY <1>6, <1>7, <1>8 DEF Core

\* history_sync.apply by the only tab deletes no row with answers.
LEMMA CoreApply ==
  ASSUME OneTab, TInv, Core, NEW t \in Tabs, Apply(t)
  PROVE  Core'
<1>1. pc[t] = "idle" /\ UNCHANGED <<saved, thrown, docRun, troubled, pc, held>>
  BY DEF Apply, outline, uploads
<1>2. \A d \in plan[t].creates : d \in Docs
  BY TypeParts DEF TInv, SyncTypes
<1>3. ASSUME NEW j \in Unsaved' PROVE j \in Unsaved /\ rows'[j] = rows[j]
  <2>1. j \in Ids /\ rows'[j] # NoRow /\ rows'[j].doc = NoDoc
    BY <1>3 DEF Unsaved, Live, Exported
  <2>2. rows'[j] = rows[j]
    <3>1. ASSUME NEW d \in plan[t].creates,
                 rows'[j] = [run |-> docRun[d], doc |-> d]
          PROVE  FALSE
      BY <1>2, <2>1, <3>1, HistoryAssumption
    <3> QED BY <2>1, <3>1, ApplyRows DEF TInv
  <2> QED BY <2>1, <2>2 DEF Unsaved, Live, Exported
<1>4. ASSUME NEW j \in Unsaved PROVE j \in Unsaved' /\ rows'[j] = rows[j]
  <2>1. j \in Ids /\ j \in Live(rows) /\ ~Exported(j)
    BY DEF Unsaved, Live
  <2>2. rows'[j] = rows[j]
    BY <2>1, ApplyRows DEF TInv
  <2> QED BY <2>1, <2>2 DEF Unsaved, Live, Exported
<1>5. \A u \in Tabs : pc[u] \notin Uploading
  BY <1>1 DEF OneTab, Uploading
<1>6. HoldsItsRow' /\ AnswersOnce' /\ SentOnce' /\ AboutToLink' /\ AtMostOne'
  BY <1>1, <1>3, <1>5, RowsMove
<1>7. AnswersSafe'
  <2>1. \A r : HasAnswers(r) => HasAnswers(r)'
    BY <1>4 DEF HasAnswers
  <2> QED BY <1>1, <2>1 DEF Core, AnswersSafe, DocsOf
<1>8. ASSUME NEW i \in Ids, Exported(i)' PROVE docRun[rows'[i].doc] = rows'[i].run
  <2>1. CASE rows'[i] = rows[i]
    BY <1>8, <2>1 DEF Core, LinkMatches, Exported
  <2>2. CASE rows'[i] = NoRow
    BY <1>8, <2>2 DEF Exported, NoRow
  <2>3. ASSUME NEW d \in plan[t].creates,
               rows'[i] = [run |-> docRun[d], doc |-> d]
        PROVE  docRun[rows'[i].doc] = rows'[i].run
    BY <2>3
  <2> QED BY <2>1, <2>2, <2>3, ApplyRows DEF TInv
<1>9. LinkMatches'
  BY <1>1, <1>8 DEF LinkMatches
<1> QED BY <1>6, <1>7, <1>9 DEF Core

\* A restart ends all uploads; the tables and documents stay.
LEMMA CoreRestart == ASSUME TInv, Core, Restart PROVE Core'
<1>1. /\ UNCHANGED <<rows, saved, thrown, docRun>>
      /\ \A s \in Savers : pc'[s] = "idle"
      /\ troubled \subseteq troubled'
      /\ \A s \in Savers : pc[s] = "mark" => held[s].run \in troubled'
  BY DEF Restart, database, outline
<1>2. Unsaved' = Unsaved
  BY <1>1 DEF Unsaved, Live, Exported
<1>3. HoldsItsRow'
  BY <1>1 DEF HoldsItsRow, Uploading, Savers
<1>4. AnswersSafe' /\ LinkMatches' /\ AnswersOnce'
  BY <1>1, <1>2
     DEF Core, AnswersSafe, LinkMatches, AnswersOnce, HasAnswers, DocsOf, Exported
<1>5. SentOnce'
  BY <1>1 DEF SentOnce, Sends
<1>6. AboutToLink'
  <2> SUFFICES ASSUME NEW i \in Unsaved, NEW d \in Docs,
                      docRun[d] = rows[i].run, rows[i].run \notin troubled'
               PROVE  FALSE
    BY <1>1, <1>2 DEF AboutToLink
  <2>1. PICK s \in Savers : pc[s] = "mark" /\ held[s].id = i /\ held[s].doc = d
    BY <1>1 DEF Core, AboutToLink
  <2> QED BY <1>1, <2>1 DEF TInv, Uploads
<1>7. AtMostOne'
  BY <1>1 DEF Core, AtMostOne, DocsOf
<1> QED BY <1>3, <1>4, <1>5, <1>6, <1>7 DEF Core

\* Nothing is saved or uploaded at first.
LEMMA InitIInv == Init => IInv
<1> SUFFICES ASSUME Init PROVE IInv
  OBVIOUS
<1>1. saved = {} /\ \A i \in Ids : rows[i] = NoRow
  BY DEF Init
<1>2. Unsaved = {} /\ \A i \in Ids : ~Exported(i)
  BY <1>1 DEF Unsaved, Live, Exported, NoRow
<1>3. HoldsItsRow
  BY DEF Init, HoldsItsRow, Uploading, Savers
<1>4. AnswersSafe /\ LinkMatches /\ AnswersOnce /\ SentOnce /\ AboutToLink
      /\ AtMostOne
  BY <1>1, <1>2
     DEF AnswersSafe, LinkMatches, AnswersOnce, SentOnce, AboutToLink, AtMostOne
<1> QED BY <1>3, <1>4, InitTInv DEF IInv

\* Every step keeps the invariant of one tab.
LEMMA IInvStep == ASSUME OneTab, IInv, [Next]_vars PROVE IInv'
<1>0. TInv /\ Core /\ TInv'
  BY TInvStep DEF IInv, Core
<1> SUFFICES Core'
  BY <1>0 DEF IInv, Core
<1>1. ASSUME NEW r \in Runs, NEW i \in Ids, SaveRun(r, i) PROVE Core'
  BY <1>0, <1>1, CoreSaveRun
<1>2. ASSUME NEW s \in Savers, NEW p, NEW h, pc' = [pc EXCEPT ![s] = p],
             held' = [held EXCEPT ![s] = h]
      PROVE  /\ pc'[s] = p /\ held'[s] = h
             /\ \A u \in Savers : u # s => pc'[u] = pc[u] /\ held'[u] = held[u]
  BY <1>0, <1>2, TypeParts DEF TInv, UploadTypes
<1>3. ASSUME NEW s \in Savers, End(s), troubled \subseteq troubled',
             UNCHANGED <<rows, saved, thrown, docRun>>,
             pc[s] = "mark" => held[s].run \in troubled'
      PROVE  Core'
  <2>1. /\ pc'[s] = "idle"
        /\ \A u \in Savers : u # s => pc'[u] = pc[u] /\ held'[u] = held[u]
    BY <1>2, <1>3 DEF End
  <2> QED BY <1>0, <1>3, <2>1, QuietMove DEF Uploading
<1>4. CASE Load
  <2>1. /\ pc[Worker] = "load" /\ Worker \in Savers /\ Worker \notin Tabs
        /\ UNCHANGED <<rows, saved, thrown, docRun, troubled>>
    BY <1>4, HistoryAssumption DEF Load, database, outline, Savers
  <2>2. CASE held[Worker].id \in Live(rows)
    <3> DEFINE h == [held[Worker] EXCEPT !.run = rows[held[Worker].id].run]
    <3>1. h.id = held[Worker].id /\ h.run = rows[held[Worker].id].run
      BY <1>0, <2>1, TypeParts DEF TInv, UploadTypes, HeldType
    <3>2. pc' = [pc EXCEPT ![Worker] = "claim"] /\ held' = [held EXCEPT ![Worker] = h]
      BY <1>4, <2>2 DEF Load
    <3> HIDE DEF h
    <3>3. rows[h.id].run = h.run
      BY <3>1
    <3>4. /\ pc'[Worker] = "claim" /\ held'[Worker] = h
          /\ \A u \in Savers : u # Worker => pc'[u] = pc[u] /\ held'[u] = held[u]
      BY <1>2, <2>1, <3>2
    <3> QED BY <1>0, <2>1, <3>3, <3>4, QuietMove
  <2>3. CASE held[Worker].id \notin Live(rows)
    BY <1>3, <1>4, <2>1, <2>3 DEF Load, End
  <2> QED BY <2>2, <2>3
<1>5. ASSUME NEW s \in Savers, Upload(s) PROVE Core'
  <2>1. CASE Claim(s)
    <3>1. CASE held[s].id \in saving
      BY <1>3, <2>1, <3>1 DEF Claim, database, outline
    <3>2. CASE held[s].id \notin saving
      <4>1. /\ pc[s] = "claim" /\ pc' = [pc EXCEPT ![s] = "recheck"]
            /\ held' = held
            /\ UNCHANGED <<rows, saved, thrown, docRun, troubled>>
        BY <2>1, <3>2 DEF Claim, database, outline
      <4>2. held' = [held EXCEPT ![s] = held[s]]
        BY <1>0, <4>1, TypeParts DEF TInv, UploadTypes
      <4>3. /\ held[s].id \in Unsaved => rows[held[s].id].run = held[s].run
            /\ s \in Tabs => held[s].id \in Live(rows)
        BY <1>0, <4>1 DEF Core, HoldsItsRow, Uploading
      <4>4. /\ pc'[s] = "recheck" /\ held'[s] = held[s]
            /\ \A u \in Savers : u # s => pc'[u] = pc[u] /\ held'[u] = held[u]
        BY <1>2, <4>1, <4>2
      <4> QED BY <1>0, <4>1, <4>3, <4>4, QuietMove
    <3> QED BY <3>1, <3>2
  <2>2. CASE Recheck(s)
    <3>1. CASE Exported(held[s].id)
      <4>1. /\ End(s) /\ pc[s] = "recheck" /\ troubled \subseteq troubled'
            /\ UNCHANGED <<rows, saved, thrown, docRun>>
        BY <2>2, <3>1 DEF Recheck, database, outline
      <4> QED BY <1>3, <4>1
    <3>2. CASE ~Exported(held[s].id)
      BY <1>0, <2>2, <3>2, CoreRecheck
    <3> QED BY <3>1, <3>2
  <2>3. CASE Create(s)
    BY <1>0, <2>3, CoreCreate
  <2>4. CASE CreateFails(s)
    BY <1>0, <2>4, CoreCreateFails
  <2>5. CASE Mark(s)
    BY <1>0, <2>5, CoreMark
  <2>6. CASE MarkFails(s)
    <3>1. /\ End(s) /\ troubled' = troubled \union {held[s].run}
          /\ UNCHANGED <<rows, saved, thrown, docRun>>
      BY <2>6 DEF MarkFails, database, outline
    <3> QED BY <1>3, <3>1
  <2> QED BY <1>5, <2>1, <2>2, <2>3, <2>4, <2>5, <2>6 DEF Upload
<1>6. ASSUME NEW t \in Tabs, NEW i \in Ids, Export(t, i) PROVE Core'
  <2> DEFINE h == [id |-> i, run |-> rows[i].run, doc |-> NoDoc]
  <2>1. /\ pc[t] = "idle" /\ i \in Unsaved /\ t \in Savers
        /\ pc' = [pc EXCEPT ![t] = "claim"] /\ held' = [held EXCEPT ![t] = h]
        /\ UNCHANGED <<rows, saved, thrown, docRun, troubled>>
    BY <1>6 DEF Export, database, outline, Savers
  <2>2. rows[h.id].run = h.run /\ h.id \in Live(rows)
    BY <1>0, <2>1, UnsavedRows
  <2> HIDE DEF h
  <2>3. /\ pc'[t] = "claim" /\ held'[t] = h
        /\ \A u \in Savers : u # t => pc'[u] = pc[u] /\ held'[u] = held[u]
    BY <1>2, <2>1
  <2> QED BY <1>0, <2>1, <2>2, <2>3, QuietMove
<1>7. ASSUME UNCHANGED <<rows, saved, thrown, docRun, troubled, pc, held>>
      PROVE  Core'
  BY <1>0, <1>7
     DEF Core, HoldsItsRow, AnswersSafe, LinkMatches, AnswersOnce, SentOnce,
         AboutToLink, AtMostOne, Unsaved, Live, Exported, HasAnswers, DocsOf,
         Sends
<1>8. ASSUME NEW t \in Tabs, NEW i \in Ids, Arm(t, i) PROVE Core'
  BY <1>7, <1>8 DEF Arm, database, outline, uploads
<1>9. ASSUME NEW t \in Tabs, Disarm(t) \/ ListFails(t) \/ CancelPlan(t)
      PROVE  Core'
  BY <1>7, <1>9
     DEF Disarm, ListFails, CancelPlan, database, outline, uploads
<1>10. ASSUME NEW t \in Tabs, Confirm(t) PROVE Core'
  BY <1>0, <1>10, CoreConfirm
<1>11. ASSUME NEW t \in Tabs, List(t) \/ Plan(t) PROVE Core'
  <2>1. PICK p \in {"plan", "idle"} : pc' = [pc EXCEPT ![t] = p]
    BY <1>11 DEF List, Plan
  <2>2. /\ UNCHANGED <<rows, saved, thrown, docRun, troubled, held>>
        /\ t \in Savers /\ pc[t] # "mark"
    BY <1>11 DEF List, Plan, database, outline, uploads, Savers
  <2>4. /\ pc'[t] = p
        /\ \A u \in Savers : u # t => pc'[u] = pc[u] /\ held'[u] = held[u]
    BY <1>0, <2>1, <2>2, TypeParts DEF TInv, UploadTypes
  <2> QED BY <1>0, <2>2, <2>4, QuietMove DEF Uploading
<1>12. ASSUME NEW t \in Tabs, Apply(t) PROVE Core'
  BY <1>0, <1>12, CoreApply
<1>13. ASSUME NEW d \in Docs, Trash(d) PROVE Core'
  BY <1>7, <1>13 DEF Trash, database, uploads
<1>14. CASE Restart
  BY <1>0, <1>14, CoreRestart
<1>15. CASE UNCHANGED vars
  BY <1>7, <1>15 DEF vars, database, outline, uploads
<1> QED BY <1>1, <1>4, <1>5, <1>6, <1>8, <1>9, <1>10, <1>11, <1>12, <1>13,
           <1>14, <1>15 DEF Next

\* The invariant, for one tab and any number of results, documents and rows.
THEOREM InductiveForOneTab == ASSUME OneTab PROVE Spec => []IInv
<1>1. Init => IInv  BY InitIInv
<1>2. IInv /\ [Next]_vars => IInv'  BY IInvStep
<1> QED BY <1>1, <1>2, PTL DEF Spec

\* The invariant AnswersSafe: with one tab the answers of a result are in its
\* row until a document holds them or the user deletes the row, although row
\* IDs are used again (run_links.mark_exported, run_history_sync.delete_runs).
THEOREM AnswersStay == ASSUME OneTab PROVE Spec => []AnswersSafe
<1>1. IInv => AnswersSafe
  BY DEF IInv
<1> QED BY <1>1, InductiveForOneTab, PTL

\* The invariant LinkMatches: with one tab the link of a row opens the document
\* that was made of that row's result (run_links.mark_exported).
THEOREM LinksOpenTheirOwn == ASSUME OneTab PROVE Spec => []LinkMatches
<1>1. IInv => LinkMatches
  BY DEF IInv
<1> QED BY <1>1, InductiveForOneTab, PTL

\* The invariant OneDocument: with one tab beside the worker, no result has two
\* documents, unless an upload of it met trouble (run_export.save, _claimed).
THEOREM NoSecondDocument == ASSUME OneTab PROVE Spec => []OneDocument
<1>1. ASSUME IInv PROVE OneDocument
  <2> SUFFICES ASSUME NEW r \in saved \ troubled
               PROVE  Cardinality(DocsOf(r)) <= 1
    BY DEF OneDocument
  <2>1. CASE DocsOf(r) = {}
    BY <2>1, FS_EmptySet
  <2>2. CASE DocsOf(r) # {}
    <3>1. PICK d \in DocsOf(r) : TRUE
      BY <2>2
    <3>2. DocsOf(r) = {d}
      BY <1>1, <3>1 DEF IInv, AtMostOne
    <3>3. Cardinality({d}) = 1
      BY FS_Singleton
    <3> QED BY <3>2, <3>3
  <2> QED BY <2>1, <2>2
<1> QED BY <1>1, InductiveForOneTab, PTL

-----------------------------------------------------------------------------
(* KeptAnswers. *)

\* The results whose answers are in the table, and the documents it links.
Kept == {rows[i].run : i \in Unsaved}
Linked == {rows[i].doc : i \in Live(rows)} \ {NoDoc}

\* What leaves table and documents alone is a stutter: reads, claims, buttons,
\* plans, uploads that end without a document, restarts.
LEMMA QuietStutters ==
  ASSUME UNCHANGED <<rows, saved, thrown, docRun>>
  PROVE  UNCHANGED Answers!vars
BY DEF Answers!vars, Unsaved, Live, Exported

\* run_history.save_run records a result.
LEMMA SaveRecords ==
  ASSUME TInv, NEW r \in Runs, NEW i \in Ids, SaveRun(r, i)
  PROVE  Answers!Record(r)
<1> USE HistoryAssumption
<1>1. /\ i \notin Live(rows) /\ r \notin saved /\ r # NoRun
      /\ saved' = saved \union {r} /\ UNCHANGED <<thrown, docRun>>
  BY DEF SaveRun, IsNextId, outline, Ids
<1>2. /\ rows'[i] = [run |-> r, doc |-> NoDoc]
      /\ \A j \in Ids : j # i => rows'[j] = rows[j]
  BY TypeParts DEF SaveRun, TInv, TableTypes
<1>3. Unsaved' = Unsaved \union {i} /\ Live(rows)' = Live(rows) \union {i}
  BY <1>1, <1>2 DEF Unsaved, Live, Exported, NoRow
<1>4. /\ \A j \in Unsaved : rows'[j] = rows[j]
      /\ \A j \in Live(rows) : rows'[j] = rows[j]
  BY <1>1, <1>2, UnsavedRows DEF Live
<1>5. Kept' = Kept \union {r}
  BY <1>2, <1>3, <1>4 DEF Kept
<1>6. Linked' = Linked
  BY <1>2, <1>3, <1>4 DEF Linked
<1> QED BY <1>1, <1>5, <1>6 DEF Answers!Record, Kept, Linked

\* Outline makes a document, and answers or fails to answer.
LEMMA UploadPublishes ==
  ASSUME TInv, NEW s \in Savers, NEW d \in Docs, Made(s, d), pc[s] = "create",
         UNCHANGED <<rows, saved, thrown>>
  PROVE  Answers!Publish(held[s].run, d)
<1>1. held[s].run \in saved /\ docRun[d] = NoRun
  BY MadeOf
<1>2. docRun' = [docRun EXCEPT ![d] = held[s].run]
  BY DEF Made
<1>3. Kept' = Kept /\ Linked' = Linked
  BY DEF Kept, Linked, Unsaved, Live, Exported
<1> QED BY <1>1, <1>2, <1>3 DEF Answers!Publish, Kept, Linked

\* mark_exported gives up the answers of the result it uploaded.
LEMMA MarkGivesUp ==
  ASSUME TInv, Core, NEW s \in Savers, Mark(s)
  PROVE  \E r \in Runs : Answers!GiveUp(r)
<1> DEFINE i == held[s].id
<1>1. /\ pc[s] = "mark" /\ i \in Unsaved
      /\ rows' = [rows EXCEPT ![i].doc = held[s].doc]
      /\ UNCHANGED <<saved, thrown, docRun>>
  BY DEF Mark, outline
<1>2. /\ held[s].doc \in Docs /\ held[s].run \in saved
      /\ docRun[held[s].doc] = held[s].run /\ rows[i].run = held[s].run
  BY <1>1 DEF TInv, Uploads, Uploading, Core, HoldsItsRow
<1>3. /\ rows'[i].run = rows[i].run /\ rows'[i].doc = held[s].doc
      /\ \A j \in Ids : j # i => rows'[j] = rows[j]
  BY <1>1, UnsavedRows, TypeParts DEF TInv, TableTypes
<1>4. Unsaved' = Unsaved \ {i}
  BY <1>1, <1>2, <1>3, HistoryAssumption DEF Unsaved, Live, Exported
<1>5. Live(rows)' = Live(rows)
  BY <1>1, <1>2, <1>3, UnsavedRows, HistoryAssumption DEF Live, NoRow
<1>6. /\ i \in Live(rows) /\ rows[i].doc = NoDoc
      /\ \A j \in Live(rows) : j \in Ids
      /\ \A j \in Unsaved : j \in Ids
  BY <1>1, UnsavedRows DEF Live
<1>7. Kept' = Kept \ {held[s].run} /\ held[s].run \in Kept
  <2>1. \A j \in Unsaved : rows[j].run = held[s].run => j = i
    BY <1>1, <1>2 DEF Core, AnswersOnce
  <2> QED BY <1>1, <1>2, <1>3, <1>4, <1>6, <2>1 DEF Kept
<1>8. Linked' = Linked \union {held[s].doc}
  BY <1>2, <1>3, <1>5, <1>6, HistoryAssumption DEF Linked
<1>9. held[s].run \in Runs
  BY <1>2, TypeParts DEF TInv, TableTypes
<1> QED BY <1>1, <1>2, <1>7, <1>8, <1>9
           DEF Answers!GiveUp, Kept, Linked

\* delete_run throws away a result: its answers, or the link of its document.
LEMMA ConfirmThrowsAway ==
  ASSUME TInv, Core, NEW t \in Tabs, Confirm(t)
  PROVE  \E r \in Runs : Answers!ThrowAway(r)
<1> DEFINE i == armed[t]
           r == rows[i].run
<1>1. /\ i \in Live(rows) /\ i \in Ids
      /\ thrown' = thrown \union {r}
      /\ UNCHANGED <<saved, docRun>>
  BY DEF Confirm, outline, Live
<1>2. /\ rows'[i] = NoRow
      /\ \A j \in Ids : j # i => rows'[j] = rows[j]
  BY TypeParts DEF Confirm, Live, TInv, TableTypes
<1>3. r \in saved /\ r \in Runs
  <2>1. r # NoRun
    BY <1>1, TypeParts DEF TInv, TableTypes, Live
  <2> QED BY <1>1, <2>1, TypeParts DEF TInv, TableTypes, Known
<1>4. Unsaved' = Unsaved \ {i} /\ Live(rows)' = Live(rows) \ {i}
  BY <1>2 DEF Unsaved, Live, Exported
<1>5. /\ \A j \in Unsaved : j # i => rows'[j] = rows[j]
      /\ \A j \in Live(rows) : j # i => rows'[j] = rows[j]
  BY <1>2, UnsavedRows DEF Live
<1>6. CASE i \in Unsaved
  <2>1. \A j \in Unsaved : rows[j].run = r => j = i
    BY <1>6 DEF Core, AnswersOnce
  <2>2. Kept' = Kept \ {r}
    <3> HIDE DEF r, i
    <3>1. \A j \in Unsaved \ {i} : rows'[j].run = rows[j].run /\ rows[j].run # r
      BY <1>5, <2>1
    <3>2. \A j \in Unsaved : rows[j].run # r => j \in Unsaved \ {i}
      BY DEF r
    <3> QED BY <1>4, <3>1, <3>2 DEF Kept
  <2>3. rows[i].doc = NoDoc
    BY <1>6, UnsavedRows
  <2>4. Linked' = Linked
    BY <1>4, <1>5, <2>3 DEF Linked
  <2> QED BY <1>1, <1>3, <2>2, <2>4 DEF Answers!ThrowAway, Kept, Linked
<1>7. CASE i \notin Unsaved
  <2>1. Kept' = Kept
    BY <1>4, <1>5, <1>7 DEF Kept
  <2>2. Linked' \in SUBSET Linked
    BY <1>4, <1>5 DEF Linked
  <2> QED BY <1>1, <1>3, <2>1, <2>2 DEF Answers!ThrowAway, Kept, Linked
<1> QED BY <1>6, <1>7

\* history_sync.apply changes links, to documents that were made.
LEMMA ApplySynchronises ==
  ASSUME TInv, TInv', LinkMatches', NEW t \in Tabs, Apply(t)
  PROVE  Answers!Synchronise
<1>1. UNCHANGED <<saved, thrown, docRun>>
  BY DEF Apply, outline
<1>2. \A d \in plan[t].creates : d \in Docs
  BY TypeParts DEF TInv, SyncTypes
<1>3. ASSUME NEW j \in Unsaved' PROVE j \in Unsaved /\ rows'[j] = rows[j]
  <2>1. j \in Ids /\ rows'[j] # NoRow /\ rows'[j].doc = NoDoc
    BY <1>3 DEF Unsaved, Live, Exported
  <2>2. rows'[j] = rows[j]
    <3>1. ASSUME NEW d \in plan[t].creates,
                 rows'[j] = [run |-> docRun[d], doc |-> d]
          PROVE  FALSE
      BY <1>2, <2>1, <3>1, HistoryAssumption
    <3> QED BY <2>1, <3>1, ApplyRows DEF TInv
  <2> QED BY <2>1, <2>2 DEF Unsaved, Live, Exported
<1>4. ASSUME NEW j \in Unsaved PROVE j \in Unsaved' /\ rows'[j] = rows[j]
  <2>1. j \in Ids /\ j \in Live(rows) /\ ~Exported(j)
    BY DEF Unsaved, Live
  <2>2. rows'[j] = rows[j]
    BY <2>1, ApplyRows DEF TInv
  <2> QED BY <2>1, <2>2 DEF Unsaved, Live, Exported
<1>5. Kept' = Kept
  BY <1>3, <1>4 DEF Kept
<1>6. ASSUME NEW d \in Linked' PROVE d \in Docs /\ docRun'[d] # NoRun
  <2>1. PICK i \in Live(rows)' : d = rows'[i].doc /\ d # NoDoc
    BY <1>6 DEF Linked
  <2>2. i \in Ids /\ rows'[i] # NoRow /\ Exported(i)'
    BY <2>1 DEF Live, Exported
  <2>3. rows'[i].run # NoRun /\ d \in Docs
    BY <2>1, <2>2, TypePartsNext DEF TInv, TableTypes
  <2>4. docRun'[d] = rows'[i].run
    BY <2>1, <2>2 DEF LinkMatches
  <2> QED BY <2>3, <2>4
<1>7. Linked' \in SUBSET Answers!Made
  BY <1>1, <1>6 DEF Answers!Made
<1> QED BY <1>1, <1>5, <1>7 DEF Answers!Synchronise, Kept, Linked

\* Every step with one tab is a step of KeptAnswers or a stutter.
LEMMA StepKeepsAnswers ==
  ASSUME OneTab, IInv, IInv', [Next]_vars
  PROVE  [Answers!Next]_(Answers!vars)
<1> USE DEF database, outline, uploads
<1>0. TInv /\ Core /\ TInv' /\ LinkMatches'
  BY DEF IInv, Core
<1>1. ASSUME NEW r \in Runs, NEW i \in Ids, SaveRun(r, i) PROVE Answers!Next
  BY <1>0, <1>1, SaveRecords DEF Answers!Next
<1>2. ASSUME NEW s \in Savers, NEW d \in Docs, Made(s, d), pc[s] = "create",
             UNCHANGED <<rows, saved, thrown>>
      PROVE  Answers!Next
  <2>1. held[s].run \in Runs
    BY <1>0, <1>2, MadeOf, TypeParts DEF TInv, TableTypes
  <2> QED BY <1>0, <1>2, <2>1, UploadPublishes DEF Answers!Next
<1>3. ASSUME NEW s \in Savers, Upload(s) PROVE [Answers!Next]_(Answers!vars)
  <2>1. CASE Claim(s) \/ Recheck(s) \/ MarkFails(s)
    BY <2>1, QuietStutters DEF Claim, Recheck, MarkFails
  <2>2. CASE Create(s)
    BY <1>2, <2>2 DEF Create
  <2>3. CASE CreateFails(s)
    BY <1>2, <2>3, QuietStutters DEF CreateFails
  <2>4. CASE Mark(s)
    <3>1. \E r \in Runs : Answers!GiveUp(r)
      BY <1>0, <2>4, MarkGivesUp
    <3> QED BY <3>1 DEF Answers!Next
  <2> QED BY <1>3, <2>1, <2>2, <2>3, <2>4 DEF Upload
<1>4. ASSUME NEW t \in Tabs, Confirm(t) PROVE Answers!Next
  BY <1>0, <1>4, ConfirmThrowsAway DEF Answers!Next
<1>5. ASSUME NEW t \in Tabs, Apply(t) PROVE Answers!Next
  BY <1>0, <1>5, ApplySynchronises DEF Answers!Next
<1>6. ASSUME NEW t \in Tabs, NEW i \in Ids, Export(t, i) \/ Arm(t, i)
      PROVE  UNCHANGED Answers!vars
  BY <1>6, QuietStutters DEF Export, Arm
<1>7. ASSUME NEW t \in Tabs,
             \/ Disarm(t) \/ List(t) \/ ListFails(t) \/ Plan(t) \/ CancelPlan(t)
      PROVE  UNCHANGED Answers!vars
  BY <1>7, QuietStutters DEF Disarm, List, ListFails, Plan, CancelPlan
<1>8. CASE Load \/ Restart
  BY <1>8, QuietStutters DEF Load, Restart
<1>9. ASSUME NEW d \in Docs, Trash(d) PROVE UNCHANGED Answers!vars
  BY <1>9, QuietStutters DEF Trash
<1>10. CASE UNCHANGED vars
  BY <1>10, QuietStutters DEF vars
<1> QED BY <1>1, <1>3, <1>4, <1>5, <1>6, <1>7, <1>8, <1>9, <1>10 DEF Next

\* The refinement AnswersKept: with one tab, rows, claims, plans and restarts
\* implement KeptAnswers.  Answers leave the history for the link of a document
\* that was made of them (run_links.mark_exported), or with the user
\* (run_history.delete_run), and nothing else moves them.
THEOREM AnswersRefine == ASSUME OneTab PROVE Spec => AnswersKept
<1>1. Init => Answers!Init
  <2> SUFFICES ASSUME Init PROVE Answers!Init
    OBVIOUS
  <2>1. Unsaved = {} /\ Live(rows) = {}
    BY DEF Init, Unsaved, Live, Exported, NoRow
  <2> QED BY <2>1 DEF Init, Answers!Init
<1>2. IInv /\ IInv' /\ [Next]_vars => [Answers!Next]_(Answers!vars)
  BY StepKeepsAnswers
<1> QED BY <1>1, <1>2, InductiveForOneTab, PTL DEF Spec, AnswersKept, Answers!Spec
===============================================================================
