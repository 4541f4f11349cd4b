------------------------------ MODULE History ------------------------------
(***************************************************************************)
(* The run history and its documents in Outline: services/run_history.py   *)
(* (rows of the table `runs` with their answers), services/run_export.py   *)
(* and run_links.py (a row's document is made and its answers are given    *)
(* up), services/history_sync.py with run_history_sync.py (rows and        *)
(* documents are brought into line), and the history page.                 *)
(*                                                                         *)
(* The worker thread records results and uploads them; every tab of the    *)
(* history page exports, deletes and synchronises.  A call on the database *)
(* is one transaction; a call on Outline takes time, and what was read     *)
(* before it may be out of date after it.  SQLite gives the largest row ID *)
(* again once its row was deleted.                                         *)
(***************************************************************************)
EXTENDS Naturals, FiniteSets

CONSTANTS
  Runs,      \* the results that are ever recorded
  AutoSave,  \* those enqueued with the auto-save box ticked
  Tabs,      \* browser tabs on the history page
  Worker,    \* the worker thread
  Docs,      \* documents Outline may come to hold
  MaxId,     \* bound: the largest row ID
  NoRun, NoDoc

ASSUME HistoryAssumption ==
  /\ AutoSave \subseteq Runs
  /\ Worker \notin Tabs
  /\ MaxId \in Nat
  /\ NoRun \notin Runs /\ NoDoc \notin Docs

VARIABLES
  rows,      \* the table: the result and the document of each row ID
  saved,     \* results that save_run has recorded
  thrown,    \* results whose row was deleted with the confirm button
  troubled,  \* results whose upload lost its row, or ended in an error or
             \* a restart
  wiki,      \* what Outline has of each document
  docRun,    \* the result each document was made of
  saving,    \* run_export._saving: row IDs claimed by an upload
  pc,        \* where the worker and each tab are
  held,      \* the row ID and result an upload works on, and its document
  listed,    \* the documents a tab's synchronisation has listed
  plan,      \* the plan in a tab's session
  armed      \* the row ID armed for deletion in a tab's session (0: none)

database == <<rows, saved, thrown>>
outline  == <<wiki, docRun>>
uploads  == <<saving, held, troubled>>
syncs    == <<listed, plan>>
vars == <<database, outline, uploads, syncs, armed, pc>>

Ids == 1..MaxId
Savers == Tabs \union {Worker}

NoRow == [run |-> NoRun, doc |-> NoDoc]
Nothing == [id |-> 0, run |-> NoRun, doc |-> NoDoc]
EmptyPlan == [deletes |-> {}, creates |-> {}]

Init ==
  /\ rows = [i \in Ids |-> NoRow]
  /\ saved = {}
  /\ thrown = {}
  /\ troubled = {}
  /\ wiki = [d \in Docs |-> "new"]
  /\ docRun = [d \in Docs |-> NoRun]
  /\ saving = {}
  /\ pc = [s \in Savers |-> "idle"]
  /\ held = [s \in Savers |-> Nothing]
  /\ listed = [t \in Tabs |-> {}]
  /\ plan = [t \in Tabs |-> EmptyPlan]
  /\ armed = [t \in Tabs |-> 0]

-----------------------------------------------------------------------------
(* The table. *)

Live(table) == {i \in Ids : table[i] # NoRow}

\* SQLite gives the next row the ID i: INTEGER PRIMARY KEY, no AUTOINCREMENT.
IsNextId(table, i) ==
  /\ \A j \in Live(table) : j < i
  /\ i = 1 \/ i - 1 \in Live(table)

Exported(i) == rows[i].doc # NoDoc
Unsaved == {i \in Live(rows) : ~Exported(i)}

-----------------------------------------------------------------------------
(* The worker. *)

\* run_history.save_run; save_automatically follows if it was asked for.
SaveRun(r, i) ==
  /\ pc[Worker] = "idle"
  /\ r \notin saved
  /\ IsNextId(rows, i)
  /\ rows' = [rows EXCEPT ![i] = [run |-> r, doc |-> NoDoc]]
  /\ saved' = saved \union {r}
  /\ IF r \in AutoSave
     THEN /\ held' = [held EXCEPT ![Worker] = [Nothing EXCEPT !.id = i]]
          /\ pc' = [pc EXCEPT ![Worker] = "load"]
     ELSE UNCHANGED <<held, pc>>
  /\ UNCHANGED <<thrown, outline, saving, troubled, syncs, armed>>

\* _upload reads the row again.  It may have been deleted since (LookupError).
Load ==
  /\ pc[Worker] = "load"
  /\ LET i == held[Worker].id
     IN  IF i \in Live(rows)
         THEN /\ held' = [held EXCEPT ![Worker].run = rows[i].run]
              /\ pc' = [pc EXCEPT ![Worker] = "claim"]
         ELSE /\ held' = [held EXCEPT ![Worker] = Nothing]
              /\ pc' = [pc EXCEPT ![Worker] = "idle"]
  /\ UNCHANGED <<database, outline, saving, troubled, syncs, armed>>

-----------------------------------------------------------------------------
(* run_export.save, by the worker or by a tab. *)

\* The export button of an unsaved row: the script draws the row, and saves
\* what it has drawn.
Export(t, i) ==
  /\ pc[t] = "idle"
  /\ i \in Unsaved
  /\ held' = [held EXCEPT ![t] = [id |-> i, run |-> rows[i].run, doc |-> NoDoc]]
  /\ pc' = [pc EXCEPT ![t] = "claim"]
  /\ UNCHANGED <<database, outline, saving, troubled, syncs, armed>>

\* The upload ends: the claim is released, if there is one.
End(s) ==
  /\ pc' = [pc EXCEPT ![s] = "idle"]
  /\ held' = [held EXCEPT ![s] = Nothing]

\* Bug: the claim is not looked at.
Claim_Blind(s) ==
  /\ pc[s] = "claim"
  /\ saving' = saving \union {held[s].id}
  /\ pc' = [pc EXCEPT ![s] = "recheck"]
  /\ UNCHANGED <<database, outline, held, troubled, syncs, armed>>

\* _claimed: SaveConflictError if another upload holds the ID.
Claim(s) ==
  /\ pc[s] = "claim"
  /\ IF held[s].id \in saving
     THEN End(s) /\ UNCHANGED saving
     ELSE /\ saving' = saving \union {held[s].id}
          /\ pc' = [pc EXCEPT ![s] = "recheck"]
          /\ UNCHANGED held
  /\ UNCHANGED <<database, outline, troubled, syncs, armed>>

\* Bug: the conflict is raised before the claim's try block.
Recheck_KeepsClaim(s) ==
  /\ pc[s] = "recheck"
  /\ IF Exported(held[s].id)
     THEN End(s)
     ELSE pc' = [pc EXCEPT ![s] = "create"] /\ UNCHANGED held
  /\ UNCHANGED <<database, outline, saving, troubled, syncs, armed>>

\* Bug: save trusts the summary it was given and does not read the row again.
Recheck_Trusting(s) ==
  /\ pc[s] = "recheck"
  /\ pc' = [pc EXCEPT ![s] = "create"]
  /\ UNCHANGED <<database, outline, uploads, syncs, armed>>

\* save reads the row again: SaveConflictError if it has been exported; a row
\* that is gone goes on.
Recheck(s) ==
  /\ pc[s] = "recheck"
  /\ IF Exported(held[s].id)
     THEN End(s) /\ saving' = saving \ {held[s].id}
     ELSE pc' = [pc EXCEPT ![s] = "create"] /\ UNCHANGED <<held, saving>>
  /\ troubled' = IF held[s].id \in Live(rows) THEN troubled
                 ELSE troubled \union {held[s].run}
  /\ UNCHANGED <<database, outline, syncs, armed>>

\* Outline makes a document of the upload's result.
Made(s, d) ==
  /\ wiki[d] = "new"
  /\ wiki' = [wiki EXCEPT ![d] = "there"]
  /\ docRun' = [docRun EXCEPT ![d] = held[s].run]

\* create_document returns the document.
Create(s) ==
  /\ pc[s] = "create"
  /\ \E d \in Docs : /\ Made(s, d)
                     /\ held' = [held EXCEPT ![s].doc = d]
  /\ pc' = [pc EXCEPT ![s] = "mark"]
  /\ UNCHANGED <<database, saving, troubled, syncs, armed>>

\* create_document raises OutlineError, before or after Outline made it.
CreateFails(s) ==
  /\ pc[s] = "create"
  /\ UNCHANGED outline \/ \E d \in Docs : Made(s, d)
  /\ End(s)
  /\ saving' = saving \ {held[s].id}
  /\ troubled' = troubled \union {held[s].run}
  /\ UNCHANGED <<database, syncs, armed>>

\* Bug: mark_exported without "exported_at IS NULL".
Mark_AnyRow(s) ==
  /\ pc[s] = "mark"
  /\ rows' = IF held[s].id \in Live(rows)
             THEN [rows EXCEPT ![held[s].id].doc = held[s].doc] ELSE rows
  /\ End(s)
  /\ saving' = saving \ {held[s].id}
  /\ UNCHANGED <<saved, thrown, outline, troubled, syncs, armed>>

\* mark_exported: the link goes in and the answers go, in one transaction, if
\* the row is there and has no link.
Mark(s) ==
  /\ pc[s] = "mark"
  /\ held[s].id \in Unsaved
  /\ rows' = [rows EXCEPT ![held[s].id].doc = held[s].doc]
  /\ End(s)
  /\ saving' = saving \ {held[s].id}
  /\ UNCHANGED <<saved, thrown, outline, troubled, syncs, armed>>

\* Bug: the answers are deleted, although no link came.
MarkFails_TakesAnswers(s) ==
  /\ pc[s] = "mark"
  /\ rows' = IF held[s].id \in Unsaved
             THEN [rows EXCEPT ![held[s].id] = NoRow] ELSE rows
  /\ End(s)
  /\ saving' = saving \ {held[s].id}
  /\ troubled' = troubled \union {held[s].run}
  /\ UNCHANGED <<saved, thrown, outline, syncs, armed>>

\* mark_exported finds no such row, or the database fails: RecordError.
MarkFails(s) ==
  /\ pc[s] = "mark"
  /\ End(s)
  /\ saving' = saving \ {held[s].id}
  /\ troubled' = troubled \union {held[s].run}
  /\ UNCHANGED <<database, outline, syncs, armed>>

Upload(s) ==
  \/ Claim(s) \/ Recheck(s) \/ Create(s) \/ CreateFails(s)
  \/ Mark(s) \/ MarkFails(s)

-----------------------------------------------------------------------------
(* Deleting a row by hand, in two steps. *)

\* The first button: the row's ID is armed.
Arm(t, i) ==
  /\ pc[t] = "idle"
  /\ i \in Live(rows)
  /\ armed' = [armed EXCEPT ![t] = i]
  /\ UNCHANGED <<database, outline, uploads, syncs, pc>>

\* The cancel button.
Disarm(t) ==
  /\ pc[t] = "idle"
  /\ armed[t] # 0
  /\ armed' = [armed EXCEPT ![t] = 0]
  /\ UNCHANGED <<database, outline, uploads, syncs, pc>>

\* The confirm button, shown while the selected row's ID is the armed one:
\* delete_run.
Confirm(t) ==
  /\ pc[t] = "idle"
  /\ armed[t] \in Live(rows)
  /\ rows' = [rows EXCEPT ![armed[t]] = NoRow]
  /\ thrown' = thrown \union {rows[armed[t]].run}
  /\ armed' = [armed EXCEPT ![t] = 0]
  /\ UNCHANGED <<saved, outline, uploads, syncs, pc>>

-----------------------------------------------------------------------------
(* Synchronisation. *)

\* _check: list_documents answers.
List(t) ==
  /\ pc[t] = "idle"
  /\ listed' = [listed EXCEPT ![t] = {d \in Docs : wiki[d] = "there"}]
  /\ pc' = [pc EXCEPT ![t] = "plan"]
  /\ UNCHANGED <<database, outline, uploads, plan, armed>>

\* _check: list_documents fails; an older plan is dropped.
ListFails(t) ==
  /\ pc[t] = "idle"
  /\ plan[t] # EmptyPlan
  /\ plan' = [plan EXCEPT ![t] = EmptyPlan]
  /\ UNCHANGED <<database, outline, uploads, listed, armed, pc>>

\* _check: list_exported, and plan: rows whose document is not in the list go,
\* documents of the list that no row has come in.
Plan(t) ==
  /\ pc[t] = "plan"
  /\ plan' = [plan EXCEPT ![t] =
       [deletes |-> {k \in Ids \X Docs : /\ rows[k[1]].doc = k[2]
                                         /\ k[2] \notin listed[t]},
        creates |-> listed[t] \ {rows[i].doc : i \in Ids}]]
  /\ listed' = [listed EXCEPT ![t] = {}]
  /\ pc' = [pc EXCEPT ![t] = "idle"]
  /\ UNCHANGED <<database, outline, uploads, armed>>

\* Bug: delete_runs goes by the row ID alone.
DeleteRuns_ById(keys) ==
  [i \in Ids |-> IF \E d \in Docs : <<i, d>> \in keys THEN NoRow ELSE rows[i]]

\* delete_runs: a row goes if its ID and its document both match.
DeleteRuns(keys) ==
  [i \in Ids |-> IF <<i, rows[i].doc>> \in keys THEN NoRow ELSE rows[i]]

\* The rows `put` says which document comes to.
WithRows(table, put) ==
  [i \in Ids |-> IF put[i] = NoDoc THEN table[i]
                 ELSE [run |-> docRun[put[i]], doc |-> put[i]]]

\* insert_exported, for each document in turn, as Outline listed them: a row
\* with the next ID, unless one has the document already.
InsertExported(table, docs) ==
  LET new == docs \ {table[i].doc : i \in Ids}
      InTurn(put) ==
        /\ \A d \in new : \E i \in Ids : put[i] = d
        /\ \A i, j \in Ids : put[i] = put[j] => i = j \/ put[i] = NoDoc
        /\ \A i \in Ids : put[i] # NoDoc =>
             /\ \A j \in Live(table) : j < i
             /\ i = 1 \/ i - 1 \in Live(WithRows(table, put))
  IN  {WithRows(table, put) :
         put \in {p \in [Ids -> new \union {NoDoc}] : InTurn(p)}}

\* apply: one transaction for the whole plan.
Apply(t) ==
  /\ pc[t] = "idle"
  /\ plan[t] # EmptyPlan
  /\ rows' \in InsertExported(DeleteRuns(plan[t].deletes), plan[t].creates)
  /\ plan' = [plan EXCEPT ![t] = EmptyPlan]
  /\ UNCHANGED <<saved, thrown, outline, uploads, listed, armed, pc>>

\* The cancel button of the preview.
CancelPlan(t) ==
  /\ pc[t] = "idle"
  /\ plan[t] # EmptyPlan
  /\ plan' = [plan EXCEPT ![t] = EmptyPlan]
  /\ UNCHANGED <<database, outline, uploads, listed, armed, pc>>

-----------------------------------------------------------------------------
\* People move documents to the trash of Outline.
Trash(d) ==
  /\ wiki[d] = "there"
  /\ wiki' = [wiki EXCEPT ![d] = "trashed"]
  /\ UNCHANGED <<database, docRun, uploads, syncs, armed, pc>>

\* The app restarts: threads, claims and sessions are lost.
Restart ==
  /\ saving' = {}
  /\ pc' = [s \in Savers |-> "idle"]
  /\ held' = [s \in Savers |-> Nothing]
  /\ troubled' = troubled \union {held[s].run : s \in
                   {u \in Savers : pc[u] \in {"create", "mark"}}}
  /\ listed' = [t \in Tabs |-> {}]
  /\ plan' = [t \in Tabs |-> EmptyPlan]
  /\ armed' = [t \in Tabs |-> 0]
  /\ UNCHANGED <<database, outline>>

Next ==
  \/ \E r \in Runs, i \in Ids : SaveRun(r, i)
  \/ Load
  \/ \E s \in Savers : Upload(s)
  \/ \E t \in Tabs :
       \/ \E i \in Ids : Export(t, i) \/ Arm(t, i)
       \/ Disarm(t) \/ Confirm(t)
       \/ List(t) \/ ListFails(t) \/ Plan(t) \/ Apply(t) \/ CancelPlan(t)
  \/ \E d \in Docs : Trash(d)
  \/ Restart

Spec == Init /\ [][Next]_vars

\* An upload runs on: its calls time out.
Fairness == WF_vars(Load) /\ \A s \in Savers : WF_vars(Upload(s))

FairSpec == Spec /\ Fairness

-----------------------------------------------------------------------------
(* Properties. *)

TypeOK ==
  /\ rows \in [Ids -> [run : Runs \union {NoRun}, doc : Docs \union {NoDoc}]]
  /\ \A i \in Ids : rows[i].run = NoRun => rows[i] = NoRow
  /\ saved \subseteq Runs
  /\ thrown \subseteq saved
  /\ troubled \subseteq saved
  /\ wiki \in [Docs -> {"new", "there", "trashed"}]
  /\ docRun \in [Docs -> saved \union {NoRun}]
  /\ saving \subseteq Ids
  /\ pc \in [Savers -> {"idle", "load", "claim", "recheck", "create", "mark",
                        "plan"}]
  /\ held \in [Savers -> [id : 0..MaxId, run : saved \union {NoRun},
                          doc : Docs \union {NoDoc}]]
  /\ \A s \in Savers : pc[s] \in {"recheck", "create", "mark"} =>
       held[s].id \in saving
  /\ listed \in [Tabs -> SUBSET Docs]
  /\ plan \in [Tabs -> [deletes : SUBSET (Ids \X Docs),
                        creates : SUBSET Docs]]
  /\ armed \in [Tabs -> 0..MaxId]

HasAnswers(r) == \E i \in Unsaved : rows[i].run = r

DocsOf(r) == {d \in Docs : docRun[d] = r}

\* run_links.py mark_exported and run_history_sync.py delete_runs: the answers
\* of a result are in its row until a document holds them or the user deletes
\* the row, although row IDs are used again.
AnswersSafe ==
  \A r \in saved : HasAnswers(r) \/ DocsOf(r) # {} \/ r \in thrown

\* The link of a row opens the document made of that row's result.
LinkMatches == \A i \in Ids : Exported(i) => docRun[rows[i].doc] = rows[i].run

\* run_export.py:112-114: the history page and the auto-save do not make two
\* documents of one result, unless an upload of it ended in an error or a
\* restart, or went on after its row was deleted (which ends in RecordError).
OneDocument == \A r \in saved \ troubled : Cardinality(DocsOf(r)) <= 1

\* run_export.py _claimed: however an upload ends, its claim is released.
ClaimsEnd == \A i \in Ids : i \in saving ~> i \notin saving

\* Synchronisations, failed uploads and restarts take no answers and bring none
\* back, whether documents hold them or not: only mark_exported gives them up,
\* for the link of a document that was made of them, and only delete_run throws
\* them away.
Answers == INSTANCE KeptAnswers WITH
             Results <- Runs,
             Documents <- Docs,
             NoResult <- NoRun,
             recorded <- saved,
             kept <- {rows[i].run : i \in Unsaved},
             linked <- {rows[i].doc : i \in Live(rows)} \ {NoDoc},
             madeOf <- docRun

AnswersKept == Answers!Spec

\* pages/_history_sync.py: synchronising deletes the rows that Outline does not
\* have, and no others.
SyncDeletesOnlyAbsent ==
  \A t \in Tabs : \A k \in plan[t].deletes : wiki[k[2]] # "there"
=============================================================================
