----------------------------- MODULE RemoteLogin -----------------------------
(***************************************************************************)
(* Login to Google in a browser that runs in a sidecar container.  The     *)
(* tabs of the app (pages/_remote_login.py, services/login_session.py) and *)
(* the sidecar's supervisor (login_browser/supervisor.py) talk through     *)
(* three files of a shared volume (core/login_protocol.py): the tabs write *)
(* request.json, the supervisor writes status.json and touches heartbeat.  *)
(*                                                                         *)
(* Each file holds one value: a request that is written before the last    *)
(* one was read replaces it.  The supervisor may die at any step; its      *)
(* memory and its children go, the files stay.                             *)
(***************************************************************************)
EXTENDS Naturals, FiniteSets

CONSTANTS
  Tabs,          \* browser tabs on the page of the login
  MaxRequests,   \* bound on the requests that are written
  MaxMishaps     \* bound on crashes, terminations and steps of which a part
                 \* fails: a write, a removal, the end of a child

ASSUME BoundsAssumption == MaxRequests \in Nat \ {0} /\ MaxMishaps \in Nat

VARIABLES
  request,    \* request.json
  stale,      \* whether that request is older than START_ACK_TIMEOUT
  status,     \* status.json
  beating,    \* whether heartbeat is younger than HEARTBEAT_STALE_AFTER
  sup,        \* where the supervisor is
  session,    \* the request whose session is up, in its memory
  lastId,     \* the last request it handled, in its memory
  ending,     \* the result it will write once the children are stopped
  child,      \* the children: the login CLI, the display and the relay
  due,        \* whether the session's deadline has passed
  traces,     \* whether a password file or a browser profile may be there
  undeleted,  \* whether the last removal of those was tried and failed
  survivor,   \* whether a child may live that its session's end did not kill
  opened,     \* the requests that sessions were opened for
  made,       \* how many requests were written
  mishaps,    \* how many mishaps happened
  unwritten,  \* whether the last status to be written was not
  pc,         \* where the script of each tab is
  clicked,    \* the button whose click its script is to handle
  seen,       \* the request that the status it has read is about
  view,       \* what the tab shows
  watching,   \* the request whose result the tab waits for
  polling     \* whether the tab's area redraws itself every second

files == <<request, stale, status, beating>>
memory == <<session, lastId, ending>>
children == <<child, due>>
volume == <<traces, undeleted, survivor>>
counts == <<opened, made, mishaps, unwritten>>
tabVars == <<pc, clicked, seen, view, watching, polling>>
supVars == <<status, beating, sup, memory, children, volume, opened, mishaps,
             unwritten>>
vars == <<files, sup, memory, children, volume, counts, tabVars>>

NoId == 0
Ids == 1..MaxRequests

NoRequest == [id |-> NoId, action |-> "none"]
Requests == {NoRequest} \union [id : Ids, action : {"start", "cancel"}]

Active == {"starting", "running"}
Results == {"succeeded", "failed", "timeout", "cancelled"}
Idle == [state |-> "idle", id |-> NoId]

\* "recover" and "answer" are the halves of recover(); a session is being
\* opened in "launch" and closed in "finish" or, after SIGTERM, "stopping".
SupPlaces == {"down", "recover", "answer", "loop", "launch", "finish", "stopping"}
\* An area reads the heartbeat first, then the status and the request.
TabPlaces == {"idle", "redraw", "redraw_status", "redraw_request",
              "draw", "status", "request", "start", "cancel"}
Buttons == {"none", "start", "cancel"}
Views == {"none", "off", "running", "waiting", "idle"}

FlagsOK ==
  /\ stale \in BOOLEAN /\ beating \in BOOLEAN
  /\ due \in BOOLEAN /\ traces \in BOOLEAN /\ undeleted \in BOOLEAN
  /\ survivor \in BOOLEAN /\ unwritten \in BOOLEAN
  /\ polling \in [Tabs -> BOOLEAN]

ValuesOK ==
  /\ request \in Requests
  /\ status \in {Idle} \union [state : Active \union Results, id : Ids]
  /\ sup \in SupPlaces
  /\ session \in Ids \union {NoId} /\ lastId \in Ids \union {NoId}
  /\ ending \in {Idle} \union [state : Results, id : Ids]
  /\ child \in {"none", "up", "broken", "ok", "bad"}
  /\ opened \subseteq Ids
  /\ made \in 0..MaxRequests /\ mishaps \in 0..MaxMishaps
  /\ pc \in [Tabs -> TabPlaces] /\ view \in [Tabs -> Views]
  /\ clicked \in [Tabs -> Buttons] /\ seen \in [Tabs -> Ids \union {NoId}]
  /\ watching \in [Tabs -> Ids \union {NoId}]

TypeOK == FlagsOK /\ ValuesOK

Init ==
  /\ request = NoRequest /\ stale = FALSE
  /\ status = Idle /\ beating = FALSE
  /\ sup = "down"
  /\ session = NoId /\ lastId = NoId /\ ending = Idle
  /\ child = "none" /\ due = FALSE
  /\ traces = FALSE /\ undeleted = FALSE /\ survivor = FALSE
  /\ opened = {} /\ made = 0 /\ mishaps = 0 /\ unwritten = FALSE
  /\ pc = [t \in Tabs |-> "idle"] /\ view = [t \in Tabs |-> "none"]
  /\ clicked = [t \in Tabs |-> "none"] /\ seen = [t \in Tabs |-> NoId]
  /\ watching = [t \in Tabs |-> NoId] /\ polling = [t \in Tabs |-> FALSE]

-----------------------------------------------------------------------------
(* The supervisor. *)

\* _write_status: the write succeeds, or it raises and the file is as before.
Write(s, i) == status' = [state |-> s, id |-> i] /\ unwritten' = FALSE

WriteFails == unwritten' = TRUE /\ UNCHANGED status

Mishap == mishaps < MaxMishaps /\ mishaps' = mishaps + 1

\* What fails in one step is one mishap.
Fails(parts) == IF parts = {} THEN UNCHANGED mishaps ELSE Mishap

\* _cleanup_files: a file or the profile that cannot be removed stays, which is
\* logged, and a child that still lives may write the profile again.
Cleanup(fails) ==
  /\ undeleted' = ("removal" \in fails)
  /\ traces' = (undeleted' \/ survivor')

\* The children are stopped, the traces removed and the result written down.
\* A child that outlives SIGKILL is logged and left (_stop); neither it nor a
\* failed removal keeps the result from being written.
TakeDown(result, id) ==
  \E fails \in SUBSET {"stop", "removal", "write"} :
    /\ Fails(fails)
    /\ survivor' = (survivor \/ "stop" \in fails)
    /\ Cleanup(fails)
    /\ IF "write" \in fails THEN WriteFails ELSE Write(result, id)

\* The container starts; what lived in it before does not any more.
Boot ==
  /\ sup = "down" /\ sup' = "recover"
  /\ survivor' = FALSE
  /\ UNCHANGED <<files, memory, children, traces, undeleted, counts, tabVars>>

\* recover, first half: traces are removed whatever the status says, and a
\* session of the time before is written down as failed.
RecoverStatus ==
  /\ sup = "recover" /\ sup' = "answer"
  /\ UNCHANGED survivor
  /\ \E fails \in SUBSET {"removal"} : Fails(fails) /\ Cleanup(fails)
  /\ IF status.state \in Active THEN Write("failed", status.id)
                                ELSE UNCHANGED <<status, unwritten>>
  /\ UNCHANGED <<request, stale, beating, memory, children, opened, made,
                 tabVars>>

\* Mutants: the request is not counted as handled; it is not answered.
RecoverRequest_Forgets ==
  /\ sup = "answer" /\ sup' = "loop"
  /\ IF request.action = "start" /\ request.id # status.id
     THEN Write("failed", request.id)
     ELSE UNCHANGED <<status, unwritten>>
  /\ UNCHANGED <<request, stale, beating, memory, children, volume, opened,
                 made, mishaps, tabVars>>

RecoverRequest_Silent ==
  /\ sup = "answer" /\ sup' = "loop"
  /\ lastId' = request.id
  /\ UNCHANGED <<files, session, ending, children, volume, counts, tabVars>>

\* recover, second half: the request that is there counts as handled; if it
\* is a start that nobody answered, the answer is "failed".
RecoverRequest ==
  /\ sup = "answer" /\ sup' = "loop"
  /\ lastId' = request.id
  /\ IF request.action = "start" /\ request.id # status.id
     THEN Write("failed", request.id)
     ELSE UNCHANGED <<status, unwritten>>
  /\ UNCHANGED <<request, stale, beating, session, ending, children, volume,
                 opened, made, mishaps, tabVars>>

\* tick: _beat alone.
Beat ==
  /\ sup = "loop" /\ ~beating /\ beating' = TRUE
  /\ UNCHANGED <<request, stale, status, sup, memory, children, volume,
                 counts, tabVars>>

\* The session ends: out of memory first, then its children are stopped.
Finish(result, place) ==
  /\ ending' = [state |-> result, id |-> session]
  /\ session' = NoId /\ child' = "none" /\ due' = FALSE
  /\ sup' = place

\* tick and _handle: a request that was not handled before.  A start with a
\* session up and a cancel without one are ignored.
Fresh == request.id # NoId /\ request.id # lastId

Handle ==
  /\ sup = "loop" /\ Fresh
  /\ lastId' = request.id /\ beating' = TRUE
  /\ \/ /\ request.action = "start" /\ session = NoId
        /\ Write("starting", request.id)
        /\ opened' = opened \union {request.id}
        /\ traces' = TRUE /\ undeleted' = FALSE /\ sup' = "launch"
        /\ UNCHANGED <<session, ending, children, survivor>>
     \/ /\ request.action = "cancel" /\ session # NoId
        /\ Finish("cancelled", "finish")
        /\ UNCHANGED <<status, volume, opened, unwritten>>
     \/ /\ request.action = "start" <=> session # NoId
        /\ UNCHANGED <<status, sup, session, ending, children, volume,
                       opened, unwritten>>
  /\ UNCHANGED <<request, stale, made, mishaps, tabVars>>

\* _start: "starting" cannot be written; tick fails, the request counts as
\* handled and the loop goes on.
HandleFails ==
  /\ sup = "loop" /\ Fresh /\ request.action = "start" /\ session = NoId
  /\ lastId' = request.id /\ beating' = TRUE
  /\ Mishap /\ WriteFails
  /\ UNCHANGED <<request, stale, sup, session, ending, children, volume,
                 opened, made, tabVars>>

\* _start: everything is up.  The request that is handled is the last one.
Launch ==
  /\ sup = "launch" /\ sup' = "loop"
  /\ session' = lastId /\ child' = "up"
  /\ Write("running", lastId)
  /\ UNCHANGED <<request, stale, beating, lastId, ending, due, volume,
                 opened, made, mishaps, tabVars>>

\* Mutants: the traces stay; the failure is not written.
Abort_KeepsTraces ==
  /\ sup = "launch" /\ sup' = "loop"
  /\ \/ Write("failed", lastId) /\ UNCHANGED mishaps
     \/ Mishap /\ WriteFails
  /\ UNCHANGED <<request, stale, beating, memory, children, volume, opened,
                 made, tabVars>>

Abort_Silent ==
  /\ sup = "launch" /\ sup' = "loop"
  /\ UNCHANGED survivor /\ Cleanup({})
  /\ UNCHANGED <<files, memory, children, counts, tabVars>>

\* _start and _abort: a child or a file fails, and what is up is taken down.
Abort ==
  /\ sup = "launch" /\ sup' = "loop"
  /\ TakeDown("failed", lastId)
  /\ UNCHANGED <<request, stale, beating, memory, children, opened, made,
                 tabVars>>

\* _check: how the session ended, the CLI's exit code first.
Check ==
  /\ sup = "loop" /\ session # NoId
  /\ \/ child = "ok" /\ Finish("succeeded", "finish")
     \/ child \in {"bad", "broken"} /\ Finish("failed", "finish")
     \/ child = "up" /\ due /\ Finish("timeout", "finish")
  /\ beating' = TRUE
  /\ UNCHANGED <<request, stale, status, lastId, volume, counts, tabVars>>

\* _finish: the children are stopped, the traces removed, the result written.
Close ==
  /\ sup \in {"finish", "stopping"}
  /\ sup' = IF sup = "finish" THEN "loop" ELSE "down"
  /\ ending' = Idle
  /\ lastId' = IF sup = "finish" THEN lastId ELSE NoId
  /\ TakeDown(ending.state, ending.id)
  /\ UNCHANGED <<request, stale, beating, session, children, opened, made,
                 tabVars>>

\* SIGTERM with a session up: shutdown() finishes it.
Terminate ==
  /\ sup = "loop" /\ session # NoId
  /\ Mishap /\ Finish("failed", "stopping")
  /\ UNCHANGED <<files, lastId, volume, opened, made, unwritten, tabVars>>

\* The supervisor dies: killed, or SIGTERM where shutdown() has no session to
\* finish, or an exception in recover().  Its children die with the container.
Crash ==
  /\ sup # "down" /\ sup' = "down"
  /\ Mishap
  /\ session' = NoId /\ lastId' = NoId /\ ending' = Idle
  /\ child' = "none" /\ due' = FALSE
  /\ UNCHANGED <<files, volume, opened, made, unwritten, tabVars>>

\* The world: the CLI exits, a helper dies, the deadline passes.
CliExits ==
  /\ session # NoId /\ child \in {"up", "broken"} /\ child' \in {"ok", "bad"}
  /\ UNCHANGED <<files, sup, memory, due, volume, counts, tabVars>>

HelperDies ==
  /\ session # NoId /\ child = "up" /\ child' = "broken"
  /\ UNCHANGED <<files, sup, memory, due, volume, counts, tabVars>>

DeadlinePasses ==
  /\ session # NoId /\ ~due /\ due' = TRUE
  /\ UNCHANGED <<files, sup, memory, child, volume, counts, tabVars>>

\* Time: a heartbeat that is not renewed gets old, and so does a request.  A
\* supervisor in its loop renews the one and handles the other in a second.  A
\* request does not reach its age just between the last two reads of a render.
BeatFades ==
  /\ beating /\ sup # "loop" /\ beating' = FALSE
  /\ UNCHANGED <<request, stale, status, sup, memory, children, volume,
                 counts, tabVars>>

RequestAges ==
  /\ request # NoRequest /\ ~stale /\ (sup = "loop" => ~Fresh)
  /\ \A t \in Tabs : pc[t] # "redraw_request"
  /\ stale' = TRUE
  /\ UNCHANGED <<request, status, beating, sup, memory, children, volume,
                 counts, tabVars>>

-----------------------------------------------------------------------------
(* The tabs. *)

\* Mutant: a start is waited for however old it is.
Unaccepted_Forever(id) == request.action = "start" /\ request.id # id

\* _unaccepted: a start that the supervisor may still take, as far as a status
\* about request id tells.
Unaccepted(id) == request.action = "start" /\ request.id # id /\ ~stale

\* _finish_watched: the watched request has its result.
Finished(t) ==
  /\ status.state \in Results
  /\ watching[t] # NoId /\ status.id = watching[t]

NotTabs == <<files, sup, memory, children, volume, counts>>

\* The page is opened, or runs again as a whole.
Visit(t) ==
  /\ pc[t] = "idle" /\ pc' = [pc EXCEPT ![t] = "redraw"]
  /\ UNCHANGED <<NotTabs, clicked, seen, view, watching, polling>>

\* render and _waiting: whether the area polls is decided once, before it is
\* drawn, by the heartbeat, ...
Redraw(t) ==
  /\ pc[t] = "redraw"
  /\ IF beating
     THEN pc' = [pc EXCEPT ![t] = "redraw_status"] /\ UNCHANGED polling
     ELSE /\ pc' = [pc EXCEPT ![t] = "draw"]
          /\ polling' = [polling EXCEPT ![t] = FALSE]
  /\ UNCHANGED <<NotTabs, clicked, seen, view, watching>>

\* ... then the status, ...
RedrawStatus(t) ==
  /\ pc[t] = "redraw_status"
  /\ IF status.state \in Active
     THEN /\ pc' = [pc EXCEPT ![t] = "draw"]
          /\ polling' = [polling EXCEPT ![t] = TRUE]
          /\ UNCHANGED seen
     ELSE /\ pc' = [pc EXCEPT ![t] = "redraw_request"]
          /\ seen' = [seen EXCEPT ![t] = status.id]
          /\ UNCHANGED polling
  /\ UNCHANGED <<NotTabs, clicked, view, watching>>

\* ... then the request.
RedrawRequest(t) ==
  /\ pc[t] = "redraw_request" /\ pc' = [pc EXCEPT ![t] = "draw"]
  /\ polling' = [polling EXCEPT ![t] = Unaccepted(seen[t])]
  /\ seen' = [seen EXCEPT ![t] = NoId]
  /\ UNCHANGED <<NotTabs, clicked, view, watching>>

\* _area, in a run that a click on a button started or in one without: a
\* button that this run does not draw has not been clicked.  The heartbeat, ...
Area(t, click) ==
  /\ IF beating
     THEN /\ pc' = [pc EXCEPT ![t] = "status"]
          /\ clicked' = [clicked EXCEPT ![t] = click]
          /\ UNCHANGED view
     ELSE /\ pc' = [pc EXCEPT ![t] = "idle"]
          /\ view' = [view EXCEPT ![t] = "off"]
          /\ UNCHANGED clicked
  /\ UNCHANGED <<NotTabs, seen, watching, polling>>

\* The area shows v, and the script goes on at p.
Shows(t, v, p) ==
  /\ view' = [view EXCEPT ![t] = v]
  /\ pc' = [pc EXCEPT ![t] = p]
  /\ clicked' = [clicked EXCEPT ![t] = "none"]

\* ... then the status: a session, ...
AreaRunning(t) ==
  /\ pc[t] = "status" /\ status.state = "running"
  /\ Shows(t, "running", IF clicked[t] = "cancel" THEN "cancel" ELSE "idle")
  /\ watching' = [watching EXCEPT ![t] = IF @ = NoId THEN status.id ELSE @]
  /\ UNCHANGED <<NotTabs, seen, polling>>

\* ... the watched result, ...
AreaFinished(t) ==
  /\ pc[t] = "status" /\ Finished(t)
  /\ Shows(t, view[t], "redraw")
  /\ watching' = [watching EXCEPT ![t] = NoId]
  /\ UNCHANGED <<NotTabs, seen, polling>>

\* ... a session that is being opened, ...
AreaStarting(t) ==
  /\ pc[t] = "status" /\ status.state = "starting"
  /\ Shows(t, "waiting", "idle")
  /\ UNCHANGED <<NotTabs, seen, watching, polling>>

\* ... or none of these, ...
AreaOther(t) ==
  /\ pc[t] = "status" /\ status.state \notin Active /\ ~Finished(t)
  /\ pc' = [pc EXCEPT ![t] = "request"]
  /\ seen' = [seen EXCEPT ![t] = status.id]
  /\ UNCHANGED <<NotTabs, clicked, view, watching, polling>>

\* ... then the request.
AreaRequest(t) ==
  /\ pc[t] = "request"
  /\ IF Unaccepted(seen[t])
     THEN Shows(t, "waiting", "idle")
     ELSE Shows(t, "idle", IF clicked[t] = "start" THEN "start" ELSE "idle")
  /\ seen' = [seen EXCEPT ![t] = NoId]
  /\ UNCHANGED <<NotTabs, watching, polling>>

AreaStep(t) ==
  \/ AreaRunning(t) \/ AreaFinished(t) \/ AreaStarting(t) \/ AreaOther(t)
  \/ AreaRequest(t)

Draw(t) == pc[t] = "draw" /\ Area(t, "none")

\* The fragment of an area that polls.
Poll(t) == pc[t] = "idle" /\ polling[t] /\ Area(t, "none")

\* A click on the button that the tab shows.
Clicking == {t \in Tabs : pc[t] \in {"start", "cancel"} \/ clicked[t] # "none"}

Click(t) ==
  /\ pc[t] = "idle" /\ made + Cardinality(Clicking) < MaxRequests
  /\ \/ view[t] = "idle" /\ Area(t, "start")
     \/ view[t] = "running" /\ Area(t, "cancel")

\* request_start and request_cancel: a fresh ID, and the file is replaced.
Ask(t) ==
  /\ pc[t] \in {"start", "cancel"} /\ made < MaxRequests
  /\ made' = made + 1
  /\ request' = [id |-> made + 1, action |-> pc[t]] /\ stale' = FALSE
  /\ watching' = IF pc[t] = "start" THEN [watching EXCEPT ![t] = made + 1]
                                    ELSE watching
  /\ pc' = [pc EXCEPT ![t] = "redraw"]
  /\ UNCHANGED <<supVars, clicked, seen, view, polling>>

\* The tab is closed; a reload is this and a visit.
CloseTab(t) ==
  /\ pc[t] = "idle" /\ view[t] # "none"
  /\ view' = [view EXCEPT ![t] = "none"]
  /\ watching' = [watching EXCEPT ![t] = NoId]
  /\ polling' = [polling EXCEPT ![t] = FALSE]
  /\ UNCHANGED <<NotTabs, pc, clicked, seen>>

-----------------------------------------------------------------------------

Supervisor ==
  \/ Boot \/ RecoverStatus \/ RecoverRequest \/ Beat \/ Handle \/ HandleFails
  \/ Launch \/ Abort \/ Check \/ Close \/ Terminate \/ Crash

World == CliExits \/ HelperDies \/ DeadlinePasses \/ BeatFades \/ RequestAges

Page(t) ==
  \/ Visit(t) \/ Redraw(t) \/ RedrawStatus(t) \/ RedrawRequest(t)
  \/ Draw(t) \/ Poll(t) \/ Click(t) \/ AreaStep(t) \/ Ask(t) \/ CloseTab(t)

Next == Supervisor \/ World \/ \E t \in Tabs : Page(t)

Spec == Init /\ [][Next]_vars

\* The container is restarted (restart: unless-stopped), its loop goes on,
\* launching and stopping children have timeouts, and time passes.  A script
\* that runs goes on to its end, and an area that polls is drawn every second.
Fairness ==
  /\ WF_vars(Boot) /\ WF_vars(RecoverStatus) /\ WF_vars(RecoverRequest)
  /\ WF_vars(Beat) /\ WF_vars(Handle) /\ WF_vars(Launch \/ Abort)
  /\ WF_vars(Check) /\ WF_vars(Close)
  /\ WF_vars(DeadlinePasses) /\ SF_vars(RequestAges)
  /\ \A t \in Tabs :
       /\ WF_vars(Redraw(t) \/ RedrawStatus(t) \/ RedrawRequest(t))
       /\ WF_vars(Draw(t) \/ AreaStep(t) \/ Ask(t))
       /\ WF_vars(Poll(t))

FairSpec == Spec /\ Fairness

-----------------------------------------------------------------------------
(* Properties. *)

\* In its loop the supervisor's status file says that a session is up exactly
\* when one is, and which, except after a status that could not be written.
\* Every end of a session, every failed start and every restart keeps this.
StatusTruth ==
  sup = "loop" /\ ~unwritten =>
    IF session = NoId THEN status.state \notin Active
                      ELSE status = [state |-> "running", id |-> session]

\* Outside a session no password and no browser profile is left on the
\* volume that nobody has tried to remove since it was written, however the
\* session ended and also after a restart: the profile is worth an account.
\* What is left was not removable then, or a child that nothing kills writes
\* it; both are logged (_cleanup_files, _stop), and whatever opens a session
\* or restarts the supervisor makes it try again.
NoTraces ==
  sup = "loop" /\ session = NoId /\ traces => undeleted \/ survivor

\* A request opens at most one session, also when the supervisor restarts and
\* finds the request file as it was: no login starts without a person.
OncePerRequest ==
  [][\A i \in Ids : sup' = "launch" /\ lastId' = i /\ sup # "launch"
                      => i \notin opened]_vars

\* The tab polls and waits for the result of request i.
Watches(t, i) == watching[t] = i /\ polling[t]

\* Nobody has taken start i yet, and nothing keeps it from being taken.
Untaken(i) ==
  /\ request = [id |-> i, action |-> "start"] /\ lastId # i /\ status.id # i
  /\ session = NoId /\ sup \notin {"launch"}

\* A tab that watches a request gets its result, if the request was free to
\* be taken or its session is up: by a session, or by the supervisor's next
\* start, unless another request replaced it, another session followed before
\* the tab looked, or a status could not be written.
WatchedEnds ==
  \A t \in Tabs, i \in Ids :
    /\ Watches(t, i) /\ Untaken(i)
         ~> ~Watches(t, i) \/ request.id # i \/ unwritten
    /\ Watches(t, i) /\ session = i
         ~> ~Watches(t, i) \/ status.id # i \/ unwritten

\* "Preparing" does not stay on a polling tab: a request that is never
\* answered gets old (START_ACK_TIMEOUT), and a session that was being opened
\* when the supervisor died is written down as failed.  What is left is an
\* end that could not be written.
WaitingEnds ==
  \A t \in Tabs :
    view[t] = "waiting" /\ polling[t]
      ~> view[t] # "waiting" \/ (unwritten /\ status.state = "starting")

\* pages/_remote_login.py _area: no tab waits for ever, neither for a result
\* nor for its button.
TabsAreServed == WatchedEnds /\ WaitingEnds
=============================================================================
