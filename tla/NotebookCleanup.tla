--------------------------- MODULE NotebookCleanup ---------------------------
(***************************************************************************)
(* The clean-up page (pages/maintenance.py) lists the notebooks that are   *)
(* there and, after a look at the run registry and the digest registry,    *)
(* deletes what it listed, while runs and digests work in theirs           *)
(* (Pipelines).                                                            *)
(***************************************************************************)
EXTENDS Pipelines

CONSTANT Cleaners   \* tabs on the clean-up page

VARIABLES
  listed,     \* the notebooks a clean-up page holds in its session
  todo,       \* those it is deleting and has not deleted yet
  cleanupPc,  \* where the clean-up page's script is
  clicked,    \* whether the script runs for a click on "delete"
  enabled     \* whether the delete button on the screen is enabled

cleanupVars == <<listed, todo, cleanupPc, clicked, enabled>>
vars == <<useVars, pipelineVars, cleanupVars>>

CleanupInit ==
  /\ PipelinesInit
  /\ listed = [c \in Cleaners |-> {}]
  /\ todo = [c \in Cleaners |-> {}]
  /\ cleanupPc = [c \in Cleaners |-> "idle"]
  /\ clicked = [c \in Cleaners |-> FALSE]
  /\ enabled = [c \in Cleaners |-> FALSE]

-----------------------------------------------------------------------------
(* The clean-up page. *)

\* Bug: the list is read for a screen whose guards were read before.
Refresh_KeepsGuard(c) ==
  /\ cleanupPc[c] = "idle"
  /\ listed' = [listed EXCEPT ![c] = {o \in Owners : notebook[o] = "there"}]
  /\ UNCHANGED <<useVars, pipelineVars, todo, cleanupPc, clicked,
                 enabled>>

\* The refresh button: _load lists the notebooks there are, then the guards
\* are read.
Refresh(c) ==
  /\ cleanupPc[c] = "idle"
  /\ listed' = [listed EXCEPT ![c] = {o \in Owners : notebook[o] = "there"}]
  /\ cleanupPc' = [cleanupPc EXCEPT ![c] = "queue"]
  /\ clicked' = [clicked EXCEPT ![c] = FALSE]
  /\ UNCHANGED <<useVars, pipelineVars, todo, enabled>>

\* The page is drawn again with the list it has: by a reload, by the consent
\* box, or by a click on the delete button as it is on the screen.  A click in
\* the moment after a refresh has its list and before it has drawn its button
\* is left out: it would press the older button for the newer list.
Redraw(c) ==
  /\ cleanupPc[c] = "idle"
  /\ listed[c] # {}
  /\ cleanupPc' = [cleanupPc EXCEPT ![c] = "queue"]
  /\ clicked' \in {[clicked EXCEPT ![c] = FALSE],
                   [clicked EXCEPT ![c] = enabled[c]]}
  /\ UNCHANGED <<useVars, pipelineVars, listed, todo, enabled>>

\* render: active_count().
ReadQueue(c) ==
  /\ cleanupPc[c] = "queue"
  /\ enabled' = [enabled EXCEPT ![c] = ~Q!IsActive]
  /\ cleanupPc' = [cleanupPc EXCEPT ![c] = "digest"]
  /\ UNCHANGED <<useVars, pipelineVars, listed, todo, clicked>>

\* render: is_running(), and the button.  A click on an enabled button counts
\* although the guards are closed by now.
ReadDigest(c) ==
  /\ cleanupPc[c] = "digest"
  /\ enabled' = [enabled EXCEPT ![c] = @ /\ ~Blocked /\ listed[c] # {}]
  /\ cleanupPc' = [cleanupPc EXCEPT ![c] = IF clicked[c] THEN "deleting"
                                           ELSE "idle"]
  /\ todo' = [todo EXCEPT ![c] = IF clicked[c] THEN listed[c] ELSE {}]
  /\ UNCHANGED <<useVars, pipelineVars, listed, clicked>>

\* delete_notebooks deletes one after the other; a notebook that is gone
\* already is no error.
Delete(c) ==
  /\ cleanupPc[c] = "deleting"
  /\ \E o \in todo[c] :
       /\ notebook' = [notebook EXCEPT ![o] = "gone"]
       /\ todo' = [todo EXCEPT ![c] = @ \ {o}]
  /\ UNCHANGED <<useVars, askVars, listed, cleanupPc, clicked, enabled>>

\* _delete: all are deleted, and the list is emptied; or an error ends it, and
\* the list stays.
DeleteEnds(c) ==
  /\ cleanupPc[c] = "deleting"
  /\ IF todo[c] = {}
     THEN /\ listed' = [listed EXCEPT ![c] = {}]
          /\ enabled' = [enabled EXCEPT ![c] = FALSE]
     ELSE UNCHANGED <<listed, enabled>>
  /\ todo' = [todo EXCEPT ![c] = {}]
  /\ cleanupPc' = [cleanupPc EXCEPT ![c] = "idle"]
  /\ UNCHANGED <<useVars, pipelineVars, clicked>>

Cleanup(c) ==
  \/ Refresh(c) \/ Redraw(c) \/ ReadQueue(c) \/ ReadDigest(c)
  \/ Delete(c) \/ DeleteEnds(c)

-----------------------------------------------------------------------------
CleanupNext ==
  \/ PipelinesNext /\ UNCHANGED cleanupVars
  \/ \E c \in Cleaners : Cleanup(c)

CleanupSpec == CleanupInit /\ [][CleanupNext]_vars

-----------------------------------------------------------------------------
\* pages/maintenance.py: no notebook is deleted under a pipeline that works in
\* it, except of a run whose row was hidden.  The guards may be out of date
\* when the button is pressed; the list is older than they are.
CleanupSparesActive ==
  [][\A o \in InUse \intersect InUse' :
       notebook[o] = "there" /\ notebook'[o] = "gone" =>
         o \in Runs /\ status[o] = "gone"]_vars
=============================================================================
