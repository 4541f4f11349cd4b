----------------------------- MODULE DigestSlot -----------------------------
(***************************************************************************)
(* Digests: services/digest_runner.py (a registry with one slot, and the   *)
(* thread that builds a draft) and pages/digest.py (the page that starts a *)
(* digest, shows the draft, and saves it to Outline or throws it away).    *)
(*                                                                         *)
(* A registry method is one atomic action.  A page script is not: it runs  *)
(* from the top for every click, reads the slot twice, and acts on the     *)
(* click when it reaches the button again, in whatever state the slot is   *)
(* by then.  Each tab has one script at a time; a click during a slow call *)
(* waits and replaces the script at its next Streamlit call.               *)
(***************************************************************************)
EXTENDS Naturals, FiniteSets

CONSTANTS
  Drafts,    \* digests that can be started; each has a thread and a draft
  Tabs,      \* browser tabs on the digest page
  NoDraft,   \* "no draft"
  MaxDocs    \* bound: documents created from one draft

ASSUME DigestAssumption ==
  /\ NoDraft \notin Drafts
  /\ MaxDocs \in Nat \ {0}

VARIABLES
  slot,      \* registry._handle: its status ("empty": None) and its draft
  thread,    \* the thread that builds each draft
  pc,        \* where each tab's script is
  click,     \* the click (or visit) the script runs for, or that waits for it
  view,      \* what the tab shows
  shown,     \* the draft the script drew last
  seen,      \* the draft on the screen when the user pressed the button
  fresh,     \* the digest this tab's start button is about to start
  docs,      \* documents in Outline made from each draft
  busy,      \* active_count() > 0: a run uses, or is about to use, NotebookLM
  faulted    \* a digest thread failed to start

threadVars == <<slot, thread>>
tabVars == <<pc, click, view, shown, seen, fresh>>
vars == <<threadVars, tabVars, docs, busy, faulted>>

SlotStatuses == {"empty", "running", "done", "failed"}
Views == {"none", "form", "formBusy", "running", "failed", "hollow", "draft",
          "saved", "error"}
Buttons == {"start", "retry", "discard", "save", "new"}
Pcs == {"idle", "run", "handle", "starting", "spawning", "creating", "reset",
       "stored"}

EmptySlot == [status |-> "empty", draft |-> NoDraft]

Init ==
  /\ slot = EmptySlot
  /\ thread = [d \in Drafts |-> "new"]
  /\ pc = [t \in Tabs |-> "idle"]
  /\ click = [t \in Tabs |-> "served"]
  /\ view = [t \in Tabs |-> "none"]
  /\ shown = [t \in Tabs |-> NoDraft]
  /\ seen = [t \in Tabs |-> NoDraft]
  /\ fresh = [t \in Tabs |-> NoDraft]
  /\ docs = [d \in Drafts |-> 0]
  /\ busy = FALSE
  /\ faulted = FALSE

-----------------------------------------------------------------------------
(* The registry. *)

\* start: the slot is taken unless a digest is running.
Startable == slot.status # "running"

\* Bug: finish marks the handle done and drops the draft.
Finished_NoDraft(d) == IF slot.status = "empty" THEN slot
                       ELSE [slot EXCEPT !.status = "done"]

\* finish and fail change the handle that is in the slot now, whichever digest
\* it belongs to; an empty slot is passed over.
Finished(d) == IF slot.status = "empty" THEN slot
               ELSE [status |-> "done", draft |-> d]
Failed == IF slot.status = "empty" THEN slot
          ELSE [slot EXCEPT !.status = "failed"]

-----------------------------------------------------------------------------
(* The page. *)

\* The buttons of each view.  The start button is disabled while a run is
\* active, as of the moment the form was drawn.
ButtonsOf(v) ==
  {b \in Buttons : \/ v = "form" /\ b = "start"
                   \/ v \in {"failed", "hollow"} /\ b = "retry"
                   \/ v = "draft" /\ b \in {"save", "discard"}
                   \/ v = "saved" /\ b = "new"}

\* What render draws for a handle that was not running a moment ago: a slot
\* that has been started since is drawn as a finished digest with no draft.
Drawn == CASE slot.status = "empty"   -> IF busy THEN "formBusy" ELSE "form"
           [] slot.status = "failed"  -> "failed"
           [] slot.status = "done"    -> "draft"
           [] slot.status = "running" -> "hollow"

\* Where the script goes on when it has drawn v and button c was pressed.
Reaction(v, c) ==
  IF v \in {"form", "formBusy"} /\ c = "start" THEN "starting"
  ELSE IF v \in {"failed", "hollow"} /\ c = "retry" THEN "reset"
  ELSE IF v = "draft" /\ c = "discard" THEN "reset"
  ELSE IF v = "draft" /\ c = "save" THEN "creating"
  ELSE "idle"

Unstarted == {d \in Drafts : thread[d] = "new" /\ \A t \in Tabs : fresh[t] # d}

\* The user opens or reloads the page or presses a button; a saved digest
\* stays on the screen until "new" is pressed.
Press(t, c) ==
  /\ pc[t] = "idle"
  /\ \/ c \in ButtonsOf(view[t])
     \/ c = "visit" /\ view[t] # "saved"
  /\ IF c = "start" THEN \E d \in Unstarted : fresh' = [fresh EXCEPT ![t] = d]
                    ELSE UNCHANGED fresh
  /\ pc' = [pc EXCEPT ![t] = "run"]
  /\ click' = [click EXCEPT ![t] = c]
  /\ seen' = [seen EXCEPT ![t] = shown[t]]
  /\ UNCHANGED <<threadVars, view, shown, docs, busy, faulted>>

\* Bug: the fragment waits for a draft and overlooks a failure.
Tick_DoneOnly(t) ==
  /\ pc[t] = "idle"
  /\ view[t] = "running"
  /\ slot.status = "done"
  /\ pc' = [pc EXCEPT ![t] = "run"]
  /\ click' = [click EXCEPT ![t] = "visit"]
  /\ UNCHANGED <<threadVars, view, shown, seen, fresh, docs, busy, faulted>>

\* The fragment polls every second and redraws the page when the digest ended.
Tick(t) ==
  /\ pc[t] = "idle"
  /\ view[t] = "running"
  /\ slot.status \in {"done", "failed"}
  /\ pc' = [pc EXCEPT ![t] = "run"]
  /\ click' = [click EXCEPT ![t] = "visit"]
  /\ UNCHANGED <<threadVars, view, shown, seen, fresh, docs, busy, faulted>>

\* render: registry.is_running().
ReadRunning(t) ==
  /\ pc[t] = "run"
  /\ IF slot.status = "running"
     THEN /\ view' = [view EXCEPT ![t] = "running"]
          /\ shown' = [shown EXCEPT ![t] = NoDraft]
          /\ fresh' = [fresh EXCEPT ![t] = NoDraft]
          /\ click' = [click EXCEPT ![t] = "served"]
          /\ pc' = [pc EXCEPT ![t] = "idle"]
     ELSE /\ pc' = [pc EXCEPT ![t] = "handle"]
          /\ UNCHANGED <<view, shown, fresh, click>>
  /\ UNCHANGED <<threadVars, seen, docs, busy, faulted>>

\* render: registry.get(), and the view with its buttons.
ReadHandle(t) ==
  /\ pc[t] = "handle"
  /\ view' = [view EXCEPT ![t] = Drawn]
  /\ shown' = [shown EXCEPT ![t] = IF Drawn = "draft" THEN slot.draft
                                   ELSE NoDraft]
  /\ LET next == Reaction(Drawn, click[t])
     IN  /\ pc' = [pc EXCEPT ![t] = next]
         /\ fresh' = IF next = "starting" THEN fresh
                     ELSE [fresh EXCEPT ![t] = NoDraft]
  /\ click' = [click EXCEPT ![t] = "served"]
  /\ UNCHANGED <<threadVars, seen, docs, busy, faulted>>

\* start_digest: registry.start(); refused or not, the page is drawn again.
Start(t) ==
  /\ pc[t] = "starting"
  /\ IF Startable
     THEN /\ slot' = [status |-> "running", draft |-> NoDraft]
          /\ pc' = [pc EXCEPT ![t] = "spawning"]
          /\ UNCHANGED fresh
     ELSE /\ pc' = [pc EXCEPT ![t] = "run"]
          /\ fresh' = [fresh EXCEPT ![t] = NoDraft]
          /\ UNCHANGED slot
  /\ UNCHANGED <<thread, click, view, shown, seen, docs, busy, faulted>>

\* start_digest: thread.start().
Spawn(t) ==
  /\ pc[t] = "spawning"
  /\ thread' = [thread EXCEPT ![fresh[t]] = "building"]
  /\ fresh' = [fresh EXCEPT ![t] = NoDraft]
  /\ pc' = [pc EXCEPT ![t] = "run"]
  /\ UNCHANGED <<slot, click, view, shown, seen, docs, busy, faulted>>

\* thread.start() raises: the page shows the exception, the slot stays.
SpawnFails(t) ==
  /\ pc[t] = "spawning"
  /\ fresh' = [fresh EXCEPT ![t] = NoDraft]
  /\ pc' = [pc EXCEPT ![t] = "idle"]
  /\ view' = [view EXCEPT ![t] = "error"]
  /\ faulted' = TRUE
  /\ UNCHANGED <<threadVars, click, shown, seen, docs, busy>>

\* A click or a reload while create_document runs.
Interrupt(t, c) ==
  /\ pc[t] = "creating"
  /\ click[t] = "served"
  /\ c \in ButtonsOf(view[t]) \union {"visit"}
  /\ click' = [click EXCEPT ![t] = c]
  /\ seen' = [seen EXCEPT ![t] = shown[t]]
  /\ UNCHANGED <<threadVars, pc, view, shown, fresh, docs, busy, faulted>>

\* Where the script is after the call: a waiting click starts it again at the
\* end of the spinner.
AfterCreate(t, next) ==
  pc' = [pc EXCEPT ![t] = IF click[t] = "served" THEN next ELSE "run"]

\* _save: create_document made the document.
Create(t) ==
  /\ pc[t] = "creating"
  /\ docs[shown[t]] < MaxDocs
  /\ docs' = [docs EXCEPT ![shown[t]] = @ + 1]
  /\ AfterCreate(t, "stored")
  /\ UNCHANGED <<threadVars, click, view, shown, seen, fresh, busy, faulted>>

\* Bug: the handler of OutlineError shows the message and does not return.
CreateFails_GoesOn(t) ==
  /\ pc[t] = "creating"
  /\ AfterCreate(t, "stored")
  /\ UNCHANGED <<threadVars, click, view, shown, seen, fresh, docs, busy,
                 faulted>>

\* _save: create_document raised OutlineError, before or after the server made
\* the document; the draft stays on the screen.
CreateFails(t) ==
  /\ pc[t] = "creating"
  /\ \/ UNCHANGED docs
     \/ docs[shown[t]] < MaxDocs /\ docs' = [docs EXCEPT ![shown[t]] = @ + 1]
  /\ AfterCreate(t, "idle")
  /\ UNCHANGED <<threadVars, click, view, shown, seen, fresh, busy, faulted>>

\* _reset by the retry and discard buttons: registry.clear(), whatever is in
\* the slot by now, and the page is drawn again.
Reset(t) ==
  /\ pc[t] = "reset"
  /\ slot' = EmptySlot
  /\ pc' = [pc EXCEPT ![t] = "run"]
  /\ UNCHANGED <<thread, click, view, shown, seen, fresh, docs, busy, faulted>>

\* _reset after a save; the tab shows the link to the document.
ResetSaved(t) ==
  /\ pc[t] = "stored"
  /\ slot' = EmptySlot
  /\ pc' = [pc EXCEPT ![t] = "idle"]
  /\ view' = [view EXCEPT ![t] = "saved"]
  /\ shown' = [shown EXCEPT ![t] = NoDraft]
  /\ UNCHANGED <<thread, click, seen, fresh, docs, busy, faulted>>

ScriptStep(t) ==
  \/ ReadRunning(t) \/ ReadHandle(t)
  \/ Start(t) \/ Spawn(t) \/ SpawnFails(t)
  \/ Create(t) \/ CreateFails(t) \/ Reset(t) \/ ResetSaved(t)

UserStep(t) == \E c \in Buttons \union {"visit"} : Press(t, c) \/ Interrupt(t, c)

-----------------------------------------------------------------------------
(* The digest thread. *)

\* _work: digest.build returned a draft; finish.
BuildSucceeds(d) ==
  /\ thread[d] = "building"
  /\ slot' = Finished(d)
  /\ thread' = [thread EXCEPT ![d] = "ended"]
  /\ UNCHANGED <<tabVars, docs, busy, faulted>>

\* Bug: an exception nobody expected ends the thread and is only logged.
BuildFails_Silent(d) ==
  /\ thread[d] = "building"
  /\ thread' = [thread EXCEPT ![d] = "ended"]
  /\ slot' \in {slot, Failed}
  /\ UNCHANGED <<tabVars, docs, busy, faulted>>

\* _work: a material could not be read or the pipeline failed; fail, whatever
\* was raised.
BuildFails(d) ==
  /\ thread[d] = "building"
  /\ slot' = Failed
  /\ thread' = [thread EXCEPT ![d] = "ended"]
  /\ UNCHANGED <<tabVars, docs, busy, faulted>>

BuildStep(d) == BuildSucceeds(d) \/ BuildFails(d)

\* Runs are enqueued, paused and finished meanwhile.
BusyToggle == busy' = ~busy /\ UNCHANGED <<threadVars, tabVars, docs, faulted>>

DigestNext ==
  \/ \E t \in Tabs : UserStep(t) \/ Tick(t) \/ ScriptStep(t)
  \/ \E d \in Drafts : BuildStep(d)

Next == DigestNext \/ BusyToggle

Spec == Init /\ [][Next]_vars

\* A script and a thread run on, since their network calls time out, and an
\* open page polls.  Nobody has to press a button.
Fairness ==
  /\ \A t \in Tabs : WF_vars(ScriptStep(t)) /\ WF_vars(Tick(t))
  /\ \A d \in Drafts : WF_vars(BuildStep(d))

FairSpec == Spec /\ Fairness

-----------------------------------------------------------------------------
(* Properties. *)

\* "done" is a draft to show, and nothing else has one; a script that saves
\* has a draft to save; a start button has a digest to start.
TypeOK ==
  /\ slot \in [status : SlotStatuses, draft : Drafts \union {NoDraft}]
  /\ slot.status = "done" => slot.draft \in Drafts
  /\ slot.status \in {"empty", "running"} => slot.draft = NoDraft
  /\ thread \in [Drafts -> {"new", "building", "ended"}]
  /\ pc \in [Tabs -> Pcs]
  /\ click \in [Tabs -> Buttons \union {"visit", "served"}]
  /\ view \in [Tabs -> Views]
  /\ {shown, seen, fresh} \subseteq [Tabs -> Drafts \union {NoDraft}]
  /\ \A t \in Tabs :
       /\ (pc[t] \in {"creating", "stored"}) => shown[t] \in Drafts
       /\ (pc[t] \in {"starting", "spawning"}) => fresh[t] \in Drafts
  /\ docs \in [Drafts -> 0..MaxDocs]
  /\ busy \in BOOLEAN
  /\ faulted \in BOOLEAN

Building == {d \in Drafts : thread[d] = "building"}
Spawning == {t \in Tabs : pc[t] = "spawning"}

\* digest_runner.py:50-51, the slot is one so that no two digests use
\* NotebookLM at the same time.
OneBuilder == \A c, d \in Building : c = d

\* The guards of the other screens read is_running(): with one tab the slot is
\* running exactly while a digest thread builds or is about to, except after a
\* thread failed to start.
SlotTracksBuilder ==
  /\ OneBuilder
  /\ Building \union Spawning # {} => slot.status = "running"
  /\ slot.status = "running" /\ ~faulted => Building \union Spawning # {}

\* pages/digest.py _save: a finished draft leaves the slot only when it is
\* saved, or when the user, looking at it, throws it away.
DraftKept ==
  [][slot.status = "done" /\ slot' # slot =>
       \/ docs[slot.draft] > 0
       \/ \E t \in Tabs : pc[t] = "reset" /\ seen[t] = slot.draft]_vars

\* digest_runner._work and pages/digest._watch: a digest ends, and then the
\* slot says so; and an open page leaves the progress view without a click.
RunningEnds ==
  /\ slot.status = "running" ~> slot.status # "running" \/ faulted
  /\ \A t \in Tabs : view[t] = "running" ~> view[t] # "running" \/ faulted
=============================================================================
