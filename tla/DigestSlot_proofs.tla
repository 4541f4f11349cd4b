--------------------------- MODULE DigestSlot_proofs ---------------------------
(***************************************************************************)
(* Proofs about DigestSlot: the types, for any number of tabs; that the    *)
(* slot tells whether a digest is built, and keeps a finished draft, for   *)
(* one tab.                                                                *)
(*                                                                         *)
(* A script decides by what it read of the slot a moment ago.  With one    *)
(* tab that is still so when it acts, because only the tab itself and the  *)
(* thread of a running digest change the slot.                             *)
(***************************************************************************)
EXTENDS DigestSlot, TLAPS

\* One browser tab on the digest page.
OneTab == \E t : Tabs = {t}

\* The script of tab t runs for button c, or will when its call returns.
Serves(t, c) == pc[t] \in {"run", "handle", "creating"} /\ click[t] = c

\* A button that is pressed has what it needs until the script reaches it.
Clicks ==
  \A t \in Tabs :
    /\ pc[t] \in {"starting", "spawning", "reset", "stored"} =>
         click[t] = "served"
    /\ Serves(t, "start") => pc[t] # "creating" /\ fresh[t] \in Drafts
    /\ pc[t] = "creating" => view[t] = "draft"

TInv == TypeOK /\ Clicks

\* A script that has found the slot not running acts on that.
NotRunning ==
  \A t \in Tabs :
    /\ pc[t] \in {"handle", "starting", "creating", "reset", "stored"} =>
         slot.status # "running"
    /\ pc[t] = "spawning" => Building = {}

\* The draft that a tab shows, or lets the user throw away, is the one in the
\* slot.
Shows(t) ==
  /\ (pc[t] = "idle" /\ view[t] = "draft") \/ pc[t] \in {"creating", "stored"} =>
       slot.status = "done" /\ slot.draft = shown[t]
  /\ Serves(t, "discard") => slot.status = "done" /\ slot.draft = seen[t]
  /\ pc[t] = "reset" /\ slot.status = "done" => slot.draft = seen[t]
  /\ pc[t] = "starting" => slot.status = "empty"
  /\ pc[t] = "stored" => docs[shown[t]] > 0

IInv == TInv /\ SlotTracksBuilder /\ NotRunning /\ \A t \in Tabs : Shows(t)

-----------------------------------------------------------------------------
(* Any number of tabs. *)

\* Nothing is pressed at first.
LEMMA InitTInv == Init => TInv
<1> SUFFICES ASSUME Init PROVE TInv
  OBVIOUS
<1>1. busy \in BOOLEAN /\ faulted \in BOOLEAN
  BY Zenon DEF Init
<1>2. TypeOK
  BY <1>1, DigestAssumption
     DEF Init, TypeOK, EmptySlot, SlotStatuses, Pcs, Views, Buttons
<1>3. Clicks
  BY DEF Init, Clicks, Serves
<1> QED BY <1>2, <1>3 DEF TInv

\* The views that a slot is drawn as.
LEMMA DrawnViews ==
  ASSUME TypeOK
  PROVE  /\ Drawn \in Views
         /\ Drawn = "draft" <=> slot.status = "done"
         /\ Drawn \in {"form", "formBusy"} <=> slot.status = "empty"
         /\ Drawn = "failed" <=> slot.status = "failed"
         /\ Drawn = "hollow" <=> slot.status = "running"
<1> USE DEF TypeOK, SlotStatuses, Drawn, Views
<1>1. CASE slot.status = "empty"  BY <1>1
<1>2. CASE slot.status = "failed"  BY <1>2
<1>3. CASE slot.status = "done"  BY <1>3
<1>4. CASE slot.status = "running"  BY <1>4
<1> QED BY <1>1, <1>2, <1>3, <1>4

\* Every step keeps the types, and buttons have what they need.
LEMMA TInvStep == ASSUME TInv, [Next]_vars PROVE TInv'
<1> USE DigestAssumption DEF TInv, TypeOK, Clicks, Serves, SlotStatuses, Pcs,
        Views, Buttons
<1>1. ASSUME NEW t \in Tabs, NEW c \in Buttons \union {"visit"}, Press(t, c)
      PROVE  TInv'
  <2>1. CASE c = "start"
    <3>1. PICK d \in Unstarted : fresh' = [fresh EXCEPT ![t] = d]
      BY <1>1, <2>1 DEF Press
    <3> QED BY <1>1, <2>1, <3>1 DEF Press, Unstarted, threadVars
  <2>2. CASE c # "start"
    BY <1>1, <2>2 DEF Press, threadVars
  <2> QED BY <2>1, <2>2
<1>2. ASSUME NEW t \in Tabs, NEW c \in Buttons \union {"visit"},
             Interrupt(t, c)
      PROVE  TInv'
  <2>1. c # "start"
    BY <1>2 DEF Interrupt, ButtonsOf
  <2> QED BY <1>2, <2>1 DEF Interrupt, threadVars
<1>3. ASSUME NEW t \in Tabs, Tick(t) PROVE TInv'
  BY <1>3 DEF Tick, threadVars
<1>4. ASSUME NEW t \in Tabs, ScriptStep(t) PROVE TInv'
  <2>1. CASE ReadRunning(t)
    BY <2>1 DEF ReadRunning, threadVars
  <2>2. CASE ReadHandle(t)
    <3> DEFINE next == Reaction(Drawn, click[t])
    <3>1. /\ next \in {"starting", "reset", "creating", "idle"}
          /\ next = "starting" => click[t] = "start"
          /\ next = "creating" => Drawn = "draft"
      BY DEF Reaction
    <3>2. /\ pc[t] = "handle" /\ view' = [view EXCEPT ![t] = Drawn]
          /\ shown' = [shown EXCEPT ![t] = IF Drawn = "draft" THEN slot.draft
                                           ELSE NoDraft]
          /\ pc' = [pc EXCEPT ![t] = next]
          /\ fresh' = IF next = "starting" THEN fresh
                      ELSE [fresh EXCEPT ![t] = NoDraft]
          /\ click' = [click EXCEPT ![t] = "served"]
          /\ UNCHANGED <<threadVars, seen, docs, busy, faulted>>
      BY <2>2 DEF ReadHandle
    <3>3. Drawn \in Views /\ (Drawn = "draft" => slot.draft \in Drafts)
      BY DrawnViews
    <3> HIDE DEF next
    <3>4. TypeOK'
      BY <3>1, <3>2, <3>3 DEF threadVars
    <3>5. Clicks'
      BY <3>1, <3>2, <3>3
    <3> QED BY <3>4, <3>5
  <2>3. CASE Start(t)
    BY <2>3 DEF Start
  <2>4. CASE Spawn(t)
    BY <2>4 DEF Spawn
  <2>5. CASE SpawnFails(t)
    <3>1. faulted' \in BOOLEAN
      BY <2>5 DEF SpawnFails
    <3> QED BY <2>5, <3>1 DEF SpawnFails, threadVars
  <2>6. CASE Create(t)
    BY <2>6 DEF Create, AfterCreate, threadVars
  <2>7. CASE CreateFails(t)
    BY <2>7 DEF CreateFails, AfterCreate, threadVars
  <2>8. CASE Reset(t)
    BY <2>8 DEF Reset, EmptySlot
  <2>9. CASE ResetSaved(t)
    BY <2>9 DEF ResetSaved, EmptySlot
  <2> QED BY <1>4, <2>1, <2>2, <2>3, <2>4, <2>5, <2>6, <2>7, <2>8, <2>9
             DEF ScriptStep
<1>5. ASSUME NEW d \in Drafts, BuildStep(d) PROVE TInv'
  BY <1>5 DEF BuildStep, BuildSucceeds, BuildFails, Finished, Failed, tabVars
<1>6. CASE BusyToggle
  <2>1. busy' \in BOOLEAN
    BY <1>6, Zenon DEF BusyToggle
  <2> QED BY <1>6, <2>1 DEF BusyToggle, threadVars, tabVars
<1>7. CASE UNCHANGED vars
  BY <1>7 DEF vars, threadVars, tabVars
<1> QED BY <1>1, <1>2, <1>3, <1>4, <1>5, <1>6, <1>7
           DEF Next, DigestNext, UserStep

\* The invariant TypeOK: a digest that says it is done has a draft, and a
\* script that saves has one to save, with any number of tabs
\* (digest_runner.finish, pages/digest.py _save).
THEOREM DigestTypeOK == Spec => []TypeOK
<1>1. TInv => TypeOK
  BY DEF TInv
<1> QED BY <1>1, InitTInv, TInvStep, PTL DEF Spec

\* A start button is about to start a digest of its own, that nobody has
\* started yet.
FreshIsNew ==
  /\ \A t \in Tabs : fresh[t] \in Drafts => thread[fresh[t]] = "new"
  /\ \A t, u \in Tabs : fresh[t] = fresh[u] => t = u \/ fresh[t] = NoDraft

\* A digest that a script is to start was not started before, and one that
\* ended does not begin again.
LEMMA FreshStep ==
  ASSUME TInv, FreshIsNew, [Next]_vars
  PROVE  FreshIsNew' /\ \A d \in Drafts : thread[d] # "new" =>
           thread'[d] # "new" /\ (thread'[d] = "building" => thread[d] = "building")
<1> DEFINE Goal == FreshIsNew' /\ \A d \in Drafts : thread[d] # "new" =>
           thread'[d] # "new" /\ (thread'[d] = "building" => thread[d] = "building")
<1> USE DigestAssumption DEF FreshIsNew, TInv, TypeOK
<1>1. ASSUME NEW t \in Tabs, NEW c \in Buttons \union {"visit"}, Press(t, c)
      PROVE  Goal
  <2>1. CASE c = "start"
    <3>1. PICK d \in Unstarted : fresh' = [fresh EXCEPT ![t] = d]
      BY <1>1, <2>1 DEF Press
    <3> QED BY <1>1, <3>1 DEF Press, Unstarted, threadVars
  <2>2. CASE c # "start"
    BY <1>1, <2>2 DEF Press, threadVars
  <2> QED BY <2>1, <2>2
<1>2. ASSUME NEW t \in Tabs, Spawn(t) PROVE Goal
  BY <1>2 DEF Spawn
<1>3. ASSUME NEW d \in Drafts, BuildStep(d) PROVE Goal
  BY <1>3 DEF BuildStep, BuildSucceeds, BuildFails, tabVars
<1>4. ASSUME UNCHANGED thread, NEW t \in Tabs,
             fresh' \in {fresh, [fresh EXCEPT ![t] = NoDraft]}
      PROVE  Goal
  BY <1>4
<1>5. ASSUME NEW t \in Tabs, NEW c \in Buttons \union {"visit"}, Interrupt(t, c)
      PROVE  Goal
  BY <1>4, <1>5 DEF Interrupt, threadVars
<1>6. ASSUME NEW t \in Tabs, Tick(t) PROVE Goal
  BY <1>4, <1>6 DEF Tick, threadVars
<1>7. ASSUME NEW t \in Tabs, ReadRunning(t) PROVE Goal
  BY <1>4, <1>7 DEF ReadRunning, threadVars
<1>8. ASSUME NEW t \in Tabs, ReadHandle(t) PROVE Goal
  BY <1>4, <1>8 DEF ReadHandle, threadVars
<1>9. ASSUME NEW t \in Tabs, Start(t) PROVE Goal
  BY <1>4, <1>9 DEF Start
<1>10. ASSUME NEW t \in Tabs, SpawnFails(t) PROVE Goal
  BY <1>4, <1>10 DEF SpawnFails, threadVars
<1>11. ASSUME NEW t \in Tabs, Create(t) \/ CreateFails(t) PROVE Goal
  BY <1>4, <1>11 DEF Create, CreateFails, threadVars
<1>12. ASSUME NEW t \in Tabs, Reset(t) \/ ResetSaved(t) PROVE Goal
  BY <1>4, <1>12 DEF Reset, ResetSaved
<1>13. CASE BusyToggle \/ UNCHANGED vars
  BY <1>13 DEF BusyToggle, vars, threadVars, tabVars
<1> QED BY <1>1, <1>2, <1>3, <1>5, <1>6, <1>7, <1>8, <1>9, <1>10, <1>11, <1>12,
           <1>13 DEF Next, DigestNext, UserStep, ScriptStep

\* digest_runner.start_digest starts each digest once, from one tab.
THEOREM StartedOnce == Spec => [](TInv /\ FreshIsNew)
<1>1. Init => FreshIsNew
  BY DigestAssumption DEF Init, FreshIsNew
<1>2. TInv /\ FreshIsNew /\ [Next]_vars => FreshIsNew'
  BY FreshStep
<1> QED BY InitTInv, TInvStep, <1>1, <1>2, PTL DEF Spec

-----------------------------------------------------------------------------
(* One tab. *)

\* The slot is empty, and no digest is built.
LEMMA InitIInv == ASSUME OneTab, Init PROVE IInv
<1>1. Building = {} /\ Spawning = {} /\ slot.status = "empty"
  BY DEF Init, Building, Spawning, EmptySlot
<1>2. SlotTracksBuilder
  BY <1>1 DEF SlotTracksBuilder, OneBuilder
<1>3. NotRunning
  BY <1>1 DEF NotRunning
<1>4. \A t \in Tabs : Shows(t)
  BY DEF Init, Shows, Serves
<1> QED BY <1>2, <1>3, <1>4, InitTInv DEF IInv

\* What the threads and the page do to the slot, the one tab being t.
LEMMA IInvStep == ASSUME OneTab, IInv, [Next]_vars PROVE IInv'
<1> PICK t : Tabs = {t}
  BY DEF OneTab
<1> DEFINE Rest == SlotTracksBuilder /\ NotRunning /\ Shows(t)
<1>0. Rest /\ TInv /\ TInv'
  BY TInvStep DEF IInv
<1> SUFFICES Rest'
  BY <1>0 DEF IInv, NotRunning
<1>1. ASSUME NEW c \in Buttons \union {"visit"}, Press(t, c) PROVE Rest'
  <2>1. c = "discard" => view[t] = "draft"
    BY <1>1 DEF Press, ButtonsOf
  <2>2. UNCHANGED <<slot, thread, view, shown, docs, faulted>>
    BY <1>1 DEF Press, threadVars
  <2>3. /\ pc[t] = "idle" /\ pc' = [pc EXCEPT ![t] = "run"]
        /\ click' = [click EXCEPT ![t] = c]
        /\ seen' = [seen EXCEPT ![t] = shown[t]]
    BY <1>1 DEF Press
  <2>4. Building' = Building /\ Spawning' = Spawning
    BY <1>0, <2>2, <2>3 DEF Building, Spawning, TInv, TypeOK
  <2>5. SlotTracksBuilder' /\ NotRunning'
    BY <1>0, <2>2, <2>3, <2>4
       DEF SlotTracksBuilder, OneBuilder, NotRunning, TInv, TypeOK
  <2>6. Shows(t)'
    BY <1>0, <2>1, <2>2, <2>3 DEF Shows, Serves, TInv, TypeOK
  <2> QED BY <2>5, <2>6
<1>2. ASSUME NEW c \in Buttons \union {"visit"}, Interrupt(t, c) PROVE Rest'
  <2>1. UNCHANGED <<slot, thread, pc, view, shown, docs, faulted>>
    BY <1>2 DEF Interrupt, threadVars
  <2>2. /\ pc[t] = "creating"
        /\ click' = [click EXCEPT ![t] = c]
        /\ seen' = [seen EXCEPT ![t] = shown[t]]
    BY <1>2 DEF Interrupt
  <2>3. SlotTracksBuilder' /\ NotRunning'
    BY <1>0, <2>1
       DEF SlotTracksBuilder, OneBuilder, NotRunning, Building, Spawning
  <2>4. Shows(t)'
    BY <1>0, <2>1, <2>2 DEF Shows, Serves, TInv, TypeOK
  <2> QED BY <2>3, <2>4
<1>3. CASE Tick(t)
  <2>1. UNCHANGED <<slot, thread, view, shown, seen, docs, faulted>>
    BY <1>3 DEF Tick, threadVars
  <2>2. /\ pc[t] = "idle" /\ pc' = [pc EXCEPT ![t] = "run"]
        /\ click' = [click EXCEPT ![t] = "visit"]
    BY <1>3 DEF Tick
  <2>3. Building' = Building /\ Spawning' = Spawning
    BY <1>0, <2>1, <2>2 DEF Building, Spawning, TInv, TypeOK
  <2>4. SlotTracksBuilder' /\ NotRunning'
    BY <1>0, <2>1, <2>2, <2>3
       DEF SlotTracksBuilder, OneBuilder, NotRunning, TInv, TypeOK
  <2>5. Shows(t)'
    BY <1>0, <2>1, <2>2 DEF Shows, Serves, TInv, TypeOK
  <2> QED BY <2>4, <2>5
<1>4. CASE ReadRunning(t)
  <2>1. UNCHANGED <<slot, thread, seen, docs, faulted>>
    BY <1>4 DEF ReadRunning, threadVars
  <2>2. Building' = Building /\ Spawning' = Spawning
    BY <1>0, <1>4, <2>1 DEF ReadRunning, Building, Spawning, TInv, TypeOK
  <2>3. SlotTracksBuilder' /\ NotRunning'
    BY <1>0, <1>4, <2>1, <2>2
       DEF ReadRunning, SlotTracksBuilder, OneBuilder, NotRunning, TInv, TypeOK
  <2>4. Shows(t)'
    BY <1>0, <1>4, <2>1 DEF ReadRunning, Shows, Serves, TInv, TypeOK
  <2> QED BY <2>3, <2>4
<1>5. CASE ReadHandle(t)
  <2> DEFINE next == Reaction(Drawn, click[t])
  <2>1. /\ pc[t] = "handle" /\ view' = [view EXCEPT ![t] = Drawn]
        /\ shown' = [shown EXCEPT ![t] = IF Drawn = "draft" THEN slot.draft
                                         ELSE NoDraft]
        /\ pc' = [pc EXCEPT ![t] = next]
        /\ click' = [click EXCEPT ![t] = "served"]
        /\ UNCHANGED <<slot, thread, seen, docs, faulted>>
    BY <1>5 DEF ReadHandle, threadVars
  <2>2. /\ next \in {"starting", "reset", "creating", "idle"}
        /\ next = "starting" => Drawn \in {"form", "formBusy"}
        /\ next = "reset" /\ Drawn = "draft" => click[t] = "discard"
        /\ next = "creating" => Drawn = "draft"
    BY DEF Reaction
  <2>3. /\ Drawn = "draft" <=> slot.status = "done"
        /\ Drawn \in {"form", "formBusy"} <=> slot.status = "empty"
    BY <1>0, DrawnViews DEF TInv
  <2> HIDE DEF next
  <2>4. Building' = Building /\ Spawning' = Spawning
    BY <1>0, <2>1, <2>2 DEF Building, Spawning, TInv, TypeOK
  <2>5. SlotTracksBuilder' /\ NotRunning'
    BY <1>0, <2>1, <2>2, <2>4
       DEF SlotTracksBuilder, OneBuilder, NotRunning, TInv, TypeOK
  <2>6. Shows(t)'
    BY <1>0, <2>1, <2>2, <2>3 DEF Shows, Serves, TInv, TypeOK
  <2> QED BY <2>5, <2>6
<1>6. CASE Start(t)
  <2>1. slot.status = "empty" /\ pc[t] = "starting"
    BY <1>0, <1>6 DEF Start, Shows
  <2>2. /\ slot' = [status |-> "running", draft |-> NoDraft]
        /\ pc' = [pc EXCEPT ![t] = "spawning"]
        /\ UNCHANGED <<thread, click, view, shown, seen, docs, faulted>>
    BY <1>6, <2>1 DEF Start, Startable
  <2>3. Building = {} /\ Building' = {} /\ Spawning' = {t}
    BY <1>0, <2>1, <2>2
       DEF SlotTracksBuilder, Building, Spawning, TInv, TypeOK
  <2>4. SlotTracksBuilder' /\ NotRunning'
    BY <1>0, <2>2, <2>3
       DEF SlotTracksBuilder, OneBuilder, NotRunning, TInv, TypeOK
  <2>5. Shows(t)'
    BY <1>0, <2>2 DEF Shows, Serves, TInv, TypeOK
  <2> QED BY <2>4, <2>5
<1>7. CASE Spawn(t)
  <2>1. /\ pc[t] = "spawning" /\ pc' = [pc EXCEPT ![t] = "run"]
        /\ thread' = [thread EXCEPT ![fresh[t]] = "building"]
        /\ UNCHANGED <<slot, click, view, shown, seen, docs, faulted>>
    BY <1>7 DEF Spawn
  <2>2. fresh[t] \in Drafts /\ Building = {} /\ slot.status = "running"
    BY <1>0, <2>1
       DEF TInv, TypeOK, NotRunning, SlotTracksBuilder, Spawning
  <2>3. Building' = {fresh[t]} /\ Spawning' = {}
    BY <1>0, <2>1, <2>2 DEF Building, Spawning, TInv, TypeOK
  <2>4. SlotTracksBuilder' /\ NotRunning'
    BY <1>0, <2>1, <2>2, <2>3
       DEF SlotTracksBuilder, OneBuilder, NotRunning, TInv, TypeOK
  <2>5. Shows(t)'
    BY <1>0, <2>1 DEF Shows, Serves, TInv, TypeOK, Clicks
  <2> QED BY <2>4, <2>5
<1>8. CASE SpawnFails(t)
  <2>1. /\ pc[t] = "spawning" /\ pc' = [pc EXCEPT ![t] = "idle"]
        /\ view' = [view EXCEPT ![t] = "error"]
        /\ UNCHANGED <<slot, thread, click, shown, seen, docs>>
    BY <1>8 DEF SpawnFails, threadVars
  <2>2. faulted'
    BY <1>8 DEF SpawnFails
  <2>3. Building = {} /\ Building' = {} /\ Spawning' = {}
    BY <1>0, <2>1 DEF Building, Spawning, TInv, TypeOK, NotRunning
  <2>4. SlotTracksBuilder'
    BY <2>2, <2>3 DEF SlotTracksBuilder, OneBuilder
  <2>5. NotRunning'
    BY <1>0, <2>1, <2>3 DEF NotRunning, TInv, TypeOK
  <2>6. Shows(t)'
    BY <1>0, <2>1 DEF Shows, Serves, TInv, TypeOK
  <2> QED BY <2>4, <2>5, <2>6
<1>9. ASSUME NEW next \in {"idle", "stored"}, pc[t] = "creating",
             next = "stored" => docs'[shown[t]] > 0,
             AfterCreate(t, next),
             UNCHANGED <<slot, thread, click, view, shown, seen, faulted>>
      PROVE  Rest'
  <2>1. /\ click[t] = "served" => pc' = [pc EXCEPT ![t] = next]
        /\ click[t] # "served" => pc' = [pc EXCEPT ![t] = "run"]
    BY <1>9 DEF AfterCreate
  <2>2. Building' = Building /\ Spawning' = Spawning
    BY <1>0, <1>9, <2>1 DEF Building, Spawning, TInv, TypeOK
  <2>3. SlotTracksBuilder' /\ NotRunning'
    BY <1>0, <1>9, <2>1, <2>2
       DEF SlotTracksBuilder, OneBuilder, NotRunning, TInv, TypeOK
  <2>4. Shows(t)'
    BY <1>0, <1>9, <2>1 DEF Shows, Serves, TInv, TypeOK
  <2> QED BY <2>3, <2>4
<1>10. CASE Create(t)
  <2>1. docs'[shown[t]] > 0
    BY <1>0, <1>10 DEF Create, TInv, TypeOK
  <2> QED BY <1>9, <1>10, <2>1 DEF Create, threadVars
<1>11. CASE CreateFails(t)
  BY <1>9, <1>11 DEF CreateFails, threadVars
<1>12. CASE Reset(t)
  <2>1. /\ pc[t] = "reset" /\ pc' = [pc EXCEPT ![t] = "run"]
        /\ slot'.status = "empty"
        /\ UNCHANGED <<thread, click, view, shown, seen, docs, faulted>>
    BY <1>12 DEF Reset, EmptySlot
  <2>2. click[t] = "served"
    BY <1>0, <2>1 DEF TInv, Clicks
  <2>3. Building' = {} /\ Spawning' = {}
    BY <1>0, <2>1
       DEF SlotTracksBuilder, NotRunning, Building, Spawning, TInv, TypeOK
  <2>4. SlotTracksBuilder' /\ NotRunning'
    BY <2>1, <2>3 DEF SlotTracksBuilder, OneBuilder, NotRunning
  <2>5. Shows(t)'
    BY <1>0, <2>1, <2>2 DEF Shows, Serves, TInv, TypeOK
  <2> QED BY <2>4, <2>5
<1>13. CASE ResetSaved(t)
  <2>1. /\ pc[t] = "stored" /\ pc' = [pc EXCEPT ![t] = "idle"]
        /\ slot'.status = "empty" /\ view' = [view EXCEPT ![t] = "saved"]
        /\ UNCHANGED <<thread, click, seen, docs, faulted>>
    BY <1>13 DEF ResetSaved, EmptySlot
  <2>2. Building' = {} /\ Spawning' = {}
    BY <1>0, <2>1
       DEF SlotTracksBuilder, NotRunning, Building, Spawning, TInv, TypeOK
  <2>3. SlotTracksBuilder' /\ NotRunning'
    BY <2>1, <2>2 DEF SlotTracksBuilder, OneBuilder, NotRunning
  <2>4. Shows(t)'
    BY <1>0, <2>1 DEF Shows, Serves, TInv, TypeOK
  <2> QED BY <2>3, <2>4
<1>14. ASSUME NEW d \in Drafts, BuildStep(d) PROVE Rest'
  <2>1. /\ thread[d] = "building" /\ thread' = [thread EXCEPT ![d] = "ended"]
        /\ UNCHANGED <<pc, click, view, shown, seen, docs, faulted>>
    BY <1>14 DEF BuildStep, BuildSucceeds, BuildFails, tabVars
  <2>2. slot.status = "running" /\ slot'.status \in {"done", "failed"}
    BY <1>0, <1>14, <2>1
       DEF BuildStep, BuildSucceeds, BuildFails, Finished, Failed,
           SlotTracksBuilder, Building, TInv, TypeOK
  <2>3. Building = {d} /\ pc[t] # "spawning"
    BY <1>0, <2>1 DEF SlotTracksBuilder, OneBuilder, NotRunning, Building
  <2>4. Building' = {} /\ Spawning' = {}
    BY <1>0, <2>1, <2>3 DEF Building, Spawning, TInv, TypeOK
  <2>5. SlotTracksBuilder' /\ NotRunning'
    BY <2>2, <2>4 DEF SlotTracksBuilder, OneBuilder, NotRunning
  <2>6. Shows(t)'
    BY <1>0, <2>1, <2>2 DEF Shows, Serves, NotRunning
  <2> QED BY <2>5, <2>6
<1>15. ASSUME UNCHANGED <<slot, thread, pc, click, view, shown, seen, docs,
                          faulted>>
       PROVE  Rest'
  BY <1>0, <1>15 DEF SlotTracksBuilder, OneBuilder, NotRunning, Building,
                     Spawning, Shows, Serves
<1>16. CASE BusyToggle
  BY <1>15, <1>16 DEF BusyToggle, threadVars, tabVars
<1>17. CASE UNCHANGED vars
  BY <1>15, <1>17 DEF vars, threadVars, tabVars
<1> QED BY <1>1, <1>2, <1>3, <1>4, <1>5, <1>6, <1>7, <1>8, <1>10, <1>11, <1>12,
           <1>13, <1>14, <1>16, <1>17
           DEF Next, DigestNext, UserStep, ScriptStep

\* The invariant, for one tab and any number of digests.
THEOREM InductiveForOneTab == ASSUME OneTab PROVE Spec => []IInv
<1>1. Init => IInv  BY InitIInv
<1>2. IInv /\ [Next]_vars => IInv'  BY IInvStep
<1> QED BY <1>1, <1>2, PTL DEF Spec

\* The invariant SlotTracksBuilder: with one tab on the digest page at most
\* one digest is built at a time, and the slot says "running" exactly while
\* one is built or about to be (digest_runner.py, DigestRegistry).
THEOREM SlotTracksOneTab == ASSUME OneTab PROVE Spec => []SlotTracksBuilder
<1>1. IInv => SlotTracksBuilder
  BY DEF IInv
<1> QED BY <1>1, InductiveForOneTab, PTL

\* The action property DraftKept: with one tab a finished draft leaves the slot
\* only when a document was made of it, or when the user who looked at it
\* threw it away (pages/digest.py, _save and _reset).
THEOREM DraftKeptOneTab == ASSUME OneTab PROVE Spec => DraftKept
<1> DEFINE Kept == slot.status = "done" /\ slot' # slot =>
                     \/ docs[slot.draft] > 0
                     \/ \E t \in Tabs : pc[t] = "reset" /\ seen[t] = slot.draft
<1>1. ASSUME IInv, [Next]_vars PROVE [Kept]_vars
  <2> SUFFICES ASSUME slot.status = "done", slot' # slot PROVE Kept
    OBVIOUS
  <2>1. PICK t \in Tabs : Start(t) \/ Reset(t) \/ ResetSaved(t)
    <3>1. ASSUME NEW d \in Drafts, BuildStep(d) PROVE FALSE
      BY <1>1, <3>1 DEF BuildStep, BuildSucceeds, BuildFails, IInv,
                        SlotTracksBuilder, Building
    <3> QED BY <1>1, <3>1
            DEF Next, DigestNext, UserStep, ScriptStep, Press, Interrupt, Tick,
                ReadRunning, ReadHandle, Spawn, SpawnFails, Create,
                CreateFails, BusyToggle, vars, threadVars
  <2>2. ~Start(t)
    BY <1>1 DEF Start, IInv, Shows
  <2>3. CASE Reset(t)
    BY <1>1, <2>3 DEF Reset, IInv, Shows
  <2>4. CASE ResetSaved(t)
    BY <1>1, <2>4 DEF ResetSaved, IInv, Shows
  <2> QED BY <2>1, <2>2, <2>3, <2>4
<1> QED BY <1>1, InductiveForOneTab, PTL DEF Spec, DraftKept
===============================================================================
