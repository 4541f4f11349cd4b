----------------------------- MODULE AtomicWrites -----------------------------
(***************************************************************************)
(* What the services promise of the database: every write operation takes  *)
(* effect as a whole or not at all.  The other modules rely on this when   *)
(* they take a database call for one step.  SharedConnection implements it *)
(* statement by statement.                                                 *)
(***************************************************************************)
CONSTANT Results   \* the row IDs of the table runs

VARIABLE db

Empty == [saved |-> {}, answered |-> {}, linked |-> {}, tagged |-> {},
          category |-> FALSE, channel |-> FALSE, default |-> FALSE,
          question |-> FALSE, autoSave |-> FALSE]

Init == db = Empty

-----------------------------------------------------------------------------
\* run_history.save_run: the row, its answers and its category; a category
\* that was deleted meanwhile is left out.
SaveRun(r) ==
  /\ r \notin db.saved
  /\ db' = [db EXCEPT !.saved = @ \union {r},
                      !.answered = @ \union {r},
                      !.tagged = IF db.category THEN @ \union {r} ELSE @]

\* run_links.mark_exported: the link comes and the answers go.
MarkExported(r) ==
  /\ r \in db.saved \ db.linked
  /\ db' = [db EXCEPT !.linked = @ \union {r}, !.answered = @ \ {r}]

\* run_history.delete_run: what refers to the row goes with it.
DeleteRun(r) ==
  db' = [db EXCEPT !.saved = @ \ {r}, !.answered = @ \ {r},
                   !.linked = @ \ {r}, !.tagged = @ \ {r}]

\* history_sync.apply with one change of categories: a category that is not
\* there is made first, and only a row with a document is changed.
ApplyPlan(r) ==
  db' = [db EXCEPT !.category = TRUE,
                   !.tagged = IF r \in db.linked THEN @ \union {r} ELSE @]

AddCategory == ~db.category /\ db' = [db EXCEPT !.category = TRUE]

\* A category that the history uses is not deleted.
DeleteCategory ==
  /\ db.category /\ db.tagged = {}
  /\ db' = [db EXCEPT !.category = FALSE, !.default = FALSE]

\* A channel comes with its default category, or without one.
AddChannel(chosen) ==
  /\ ~db.channel
  /\ db' = [db EXCEPT !.channel = TRUE, !.default = chosen /\ db.category]

SetDefaults(chosen) ==
  /\ db.channel
  /\ db' = [db EXCEPT !.default = chosen /\ db.category]

DeleteChannel == db' = [db EXCEPT !.channel = FALSE, !.default = FALSE]

\* questions.py: a title is given to one question only.
AddQuestion == ~db.question /\ db' = [db EXCEPT !.question = TRUE]

DeleteQuestion == db' = [db EXCEPT !.question = FALSE]

SetAutoSave(enabled) == db' = [db EXCEPT !.autoSave = enabled]

Next ==
  \/ \E r \in Results :
       SaveRun(r) \/ MarkExported(r) \/ DeleteRun(r) \/ ApplyPlan(r)
  \/ AddCategory \/ DeleteCategory \/ DeleteChannel
  \/ AddQuestion \/ DeleteQuestion
  \/ \E b \in BOOLEAN : AddChannel(b) \/ SetDefaults(b) \/ SetAutoSave(b)

Spec == Init /\ [][Next]_db
=============================================================================
