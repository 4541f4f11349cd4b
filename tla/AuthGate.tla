------------------------------ MODULE AuthGate -------------------------------
(***************************************************************************)
(* The authentication gate (services/auth.py) and the scripts that use it. *)
(*                                                                         *)
(* One gate serves every tab.  The first script checks the stored          *)
(* credentials, the others read its verdict; a person checks again on the  *)
(* authentication page (pages/auth.py), by hand, with credentials from a   *)
(* file, or after a remote login (pages/_remote_login.py).  Checks are     *)
(* made under a lock, which the readers of the verdict do not take.        *)
(*                                                                         *)
(* The stored credentials are a file that nobody locks: logins and imports *)
(* replace it, and every client that was opened with older credentials, of *)
(* a check or of any other work, may write those back when the library     *)
(* rotates their cookies (login_session.py busy).                          *)
(*                                                                         *)
(* Whoever has pressed something while his script runs stops it at its     *)
(* next call of Streamlit, which a check does not make.                    *)
(***************************************************************************)
EXTENDS Naturals

CONSTANTS GateTabs,   \* tabs, each with one script
          NoTab,      \* nobody
          MaxAsks     \* checks by hand, imports and remote logins

ASSUME AuthAssumption == NoTab \notin GateTabs /\ MaxAsks \in Nat

VARIABLES
  stored,    \* the version of the stored credentials
  issued,    \* the newest version that somebody put in
  covered,   \* the newest version that an older one was written over
  tried, ok, probe_error, lock,   \* the gate
  verdict,   \* the last check that was recorded: number, finding, version
  scriptPc,  \* where each script is
  why,       \* what it was started by, or what it checks for
  found,     \* what its check found, in which version
  watched,   \* the version a login has brought that the tab still watches
  mine,      \* the version that the tab put in and is to check
  checked,   \* the version that it put in and has checked
  revived,   \* its last check that found the credentials alive
  banner,    \* what the tab shows
  autos,     \* checks nobody asked for
  asks

gateVars == <<tried, ok, probe_error, lock>>
scriptVars == <<scriptPc, why, found, watched, mine, checked, revived, banner>>
fileVars == <<stored, issued, covered>>
authVars == <<fileVars, gateVars, verdict, scriptVars, autos, asks>>

Clicks == {"visit", "recheck", "import"}
Findings == {"alive", "expired", "odd"}
Pcs == {"idle", "banner", "ensure", "ok", "error", "page", "recheck",
        "reading", "asking", "answering", "raising", "importing", "imported"}
\* Where a script has the lock.
Checking == {"reading", "asking", "answering", "raising"}
\* Where a script is at a call of Streamlit.
Interruptible == {"idle", "banner", "ok", "error", "page", "imported"}

Nothing == [n |-> 0, finding |-> "none", version |-> 0]

GateInit ==
  /\ stored = 0
  /\ issued = 0
  /\ covered = 0
  /\ tried = FALSE
  /\ ok = FALSE
  /\ probe_error = FALSE
  /\ lock = NoTab
  /\ verdict = Nothing
  /\ scriptPc = [t \in GateTabs |-> "idle"]
  /\ why = [t \in GateTabs |-> "visit"]
  /\ found = [t \in GateTabs |-> Nothing]
  /\ watched = [t \in GateTabs |-> 0]
  /\ mine = [t \in GateTabs |-> 0]
  /\ checked = [t \in GateTabs |-> 0]
  /\ revived = [t \in GateTabs |-> 0]
  /\ banner = [t \in GateTabs |-> "none"]
  /\ autos = 0
  /\ asks = 0

Goto(t, p) == scriptPc' = [scriptPc EXCEPT ![t] = p]

-----------------------------------------------------------------------------
(* The credentials. *)

\* Somebody puts new credentials in, whatever is stored.
Replace == issued' = issued + 1 /\ stored' = issued + 1 /\ UNCHANGED covered

\* A client that was opened with other credentials, by a check, a query, a
\* digest or a page, writes them back with rotated cookies.  Nothing keeps it
\* from covering newer ones, and no work keeps a person from an import.
WriteBack ==
  /\ stored' \in 0..issued \ {stored}
  /\ covered' = IF stored' < stored /\ covered < stored THEN stored
                                                      ELSE covered
  /\ UNCHANGED <<issued, gateVars, verdict, scriptVars, autos, asks>>

\* A remote login that the tab watches succeeds (RemoteLogin).
Login(t) ==
  /\ asks < MaxAsks
  /\ Replace
  /\ watched' = [watched EXCEPT ![t] = issued + 1]
  /\ asks' = asks + 1
  /\ UNCHANGED <<gateVars, verdict, scriptPc, why, found, mine, checked,
                 revived, banner, autos>>

-----------------------------------------------------------------------------
(* The gate. *)

\* Bug: the error of an earlier check is kept.
StartCheck_KeepsError(t) ==
  /\ tried' = TRUE
  /\ Goto(t, "reading")
  /\ UNCHANGED <<fileVars, ok, probe_error, verdict, found, watched, mine,
                 checked, revived, banner>>

\* _verify: the gate counts as tried, and the last error is dropped, before
\* the check is made.
StartCheck(t) ==
  /\ tried' = TRUE
  /\ probe_error' = FALSE
  /\ Goto(t, "reading")
  /\ UNCHANGED <<fileVars, ok, verdict, found, watched, mine, checked, revived,
                 banner>>

\* Bug: whoever has waited for the lock checks.
Ensure_NotAgain(t) ==
  /\ scriptPc[t] = "ensure"
  /\ lock = NoTab
  /\ lock' = t
  /\ why' = [why EXCEPT ![t] = "ensure"]
  /\ autos' = autos + 1
  /\ StartCheck(t)
  /\ UNCHANGED asks

\* ensure, for a script that has found the gate untried: under the lock, only
\* the first one checks.
Ensure(t) ==
  /\ scriptPc[t] = "ensure"
  /\ lock = NoTab
  /\ IF tried
     THEN /\ Goto(t, "ok")
          /\ UNCHANGED <<fileVars, gateVars, verdict, why, found, watched, mine,
                         checked, revived, banner, autos>>
     ELSE /\ lock' = t
          /\ why' = [why EXCEPT ![t] = "ensure"]
          /\ autos' = autos + 1
          /\ StartCheck(t)
  /\ UNCHANGED asks

\* Bug: recheck does not take the lock.
Recheck_Unlocked(t) ==
  /\ scriptPc[t] = "recheck"
  /\ StartCheck(t)
  /\ UNCHANGED <<lock, why, autos, asks>>

\* recheck: under the lock, whatever was found before.
Recheck(t) ==
  /\ scriptPc[t] = "recheck"
  /\ lock = NoTab
  /\ lock' = t
  /\ StartCheck(t)
  /\ UNCHANGED <<why, autos, asks>>

\* is_authenticated opens a client with what is stored now, ...
ReadStored(t) ==
  /\ scriptPc[t] = "reading"
  /\ found' = [found EXCEPT ![t].version = stored]
  /\ Goto(t, "asking")
  /\ UNCHANGED <<fileVars, gateVars, verdict, why, watched, mine, checked,
                 revived, banner, autos, asks>>

\* ... and learns later what they are worth: their session may have ended, or
\* the library may have brought them back to life, at any time (WriteBack is
\* what it stores of that).  An error of another kind says nothing of them.
Answered(t) ==
  /\ scriptPc[t] = "asking"
  /\ \E finding \in Findings :
       found' = [found EXCEPT ![t].finding = finding]
  /\ Goto(t, "answering")
  /\ UNCHANGED <<fileVars, gateVars, verdict, why, watched, mine, checked,
                 revived, banner, autos, asks>>

\* Bug: the page goes on without st.rerun.
Continues_NoRerun(t) == IF why[t] = "ensure" THEN "ok" ELSE "idle"

\* Where a script goes on when its check is over: with the banner; with the
\* rest of the page, or from the start if the credentials are alive; from the
\* start in any case after a remote login.
Continues(t) ==
  IF why[t] = "ensure" THEN "ok"
  ELSE IF why[t] = "finish" \/ found[t].finding = "alive" THEN "banner"
  ELSE "idle"

\* The check is over: the lock is free, the verdict stands.
Conclude(t) ==
  /\ lock' = NoTab
  /\ Goto(t, Continues(t))
  /\ why' = [why EXCEPT ![t] = "visit"]
  /\ verdict' = [n |-> verdict.n + 1, finding |-> found[t].finding,
                 version |-> found[t].version]
  /\ revived' = IF found[t].finding = "alive" /\ why[t] # "ensure"
                THEN [revived EXCEPT ![t] = verdict.n + 1] ELSE revived
  /\ checked' = IF mine[t] > checked[t] THEN [checked EXCEPT ![t] = mine[t]]
                                       ELSE checked
  /\ mine' = [mine EXCEPT ![t] = 0]
  /\ found' = [found EXCEPT ![t] = Nothing]
  /\ UNCHANGED <<fileVars, tried, watched, banner, autos, asks>>

\* _verify records an answer.
Record(t) ==
  /\ scriptPc[t] = "answering"
  /\ found[t].finding # "odd"
  /\ ok' = (found[t].finding = "alive")
  /\ UNCHANGED probe_error
  /\ Conclude(t)

\* _verify catches an exception: first the verdict, ...
RecordOdd(t) ==
  /\ scriptPc[t] = "answering"
  /\ found[t].finding = "odd"
  /\ ok' = FALSE
  /\ Goto(t, "raising")
  /\ UNCHANGED <<fileVars, tried, probe_error, lock, verdict, why, found,
                 watched, mine, checked, revived, banner, autos, asks>>

\* ... then the error.
RecordError(t) ==
  /\ scriptPc[t] = "raising"
  /\ probe_error' = TRUE
  /\ UNCHANGED ok
  /\ Conclude(t)

CheckStep(t) ==
  \/ Ensure(t) \/ Recheck(t)
  \/ ReadStored(t) \/ Answered(t)
  \/ Record(t) \/ RecordOdd(t) \/ RecordError(t)

-----------------------------------------------------------------------------
(* The scripts. *)

\* A page is opened, or a button of the authentication page is pressed; a
\* script that runs is stopped and starts again.
Press(t, click) ==
  /\ scriptPc[t] \in Interruptible
  /\ click # "visit" => asks < MaxAsks
  /\ asks' = asks + (IF click = "visit" THEN 0 ELSE 1)
  /\ Goto(t, "banner")
  /\ why' = [why EXCEPT ![t] = click]
  /\ mine' = [mine EXCEPT ![t] = 0]
  /\ UNCHANGED <<fileVars, gateVars, verdict, found, watched, checked, revived,
                 banner, autos>>

Script(t, p, next) ==
  /\ scriptPc[t] = p
  /\ Goto(t, next)
  /\ UNCHANGED <<gateVars, verdict, found, checked, revived, autos, asks>>

\* auth_gate.render: tried, and ensure if need be.
ReadTried(t) ==
  /\ Script(t, "banner", IF tried THEN "ok" ELSE "ensure")
  /\ UNCHANGED <<fileVars, why, watched, mine, banner>>

\* auth_gate.render: ok.
ReadOk(t) ==
  /\ Script(t, "ok", IF ok THEN "page" ELSE "error")
  /\ banner' = IF ok THEN [banner EXCEPT ![t] = "ok"] ELSE banner
  /\ UNCHANGED <<fileVars, why, watched, mine>>

\* auth_gate.render: probe_error tells "expired" from "could not be checked".
ReadError(t) ==
  /\ Script(t, "error", "page")
  /\ banner' = [banner EXCEPT ![t] = IF probe_error THEN "odd" ELSE "expired"]
  /\ UNCHANGED <<fileVars, why, watched, mine>>

\* The page after its banner: nothing was pressed, and a login that is watched
\* has no result yet or belongs to another page than this one, ...
PageEnds(t) ==
  /\ why[t] = "visit"
  /\ Script(t, "page", "idle")
  /\ UNCHANGED <<fileVars, why, watched, mine, banner>>

\* ... "check again", ...
PageRechecks(t) ==
  /\ why[t] = "recheck"
  /\ Script(t, "page", "recheck")
  /\ UNCHANGED <<fileVars, why, watched, mine, banner>>

\* ... or a file to import, also where the area of the login above it has not
\* seen the result that is watched.
PageImports(t) ==
  /\ why[t] = "import"
  /\ Script(t, "page", "importing")
  /\ UNCHANGED <<fileVars, why, watched, mine, banner>>

\* _finish_watched: in the script of the page or in its fragment, the tab
\* checks what the login has brought, once.  The button above it comes first.
FinishWatched(t) ==
  /\ watched[t] # 0
  /\ scriptPc[t] \in {"idle", "page"}
  /\ scriptPc[t] = "page" => why[t] # "recheck"
  /\ Script(t, scriptPc[t], "recheck")
  /\ why' = [why EXCEPT ![t] = "finish"]
  /\ mine' = [mine EXCEPT ![t] = watched[t]]
  /\ watched' = [watched EXCEPT ![t] = 0]
  /\ UNCHANGED <<fileVars, banner>>

\* import_credentials fails: the page says so and ends.  A child that is killed
\* for its time may have put the credentials in.
ImportFails(t) ==
  /\ Script(t, "importing", "idle")
  /\ why' = [why EXCEPT ![t] = "visit"]
  /\ Replace \/ UNCHANGED fileVars
  /\ UNCHANGED <<watched, mine, banner>>

\* import_credentials has put the credentials in.  A click meanwhile stops the
\* script at the end of the spinner, before it checks them.
ImportSucceeds(t) ==
  /\ Script(t, "importing", "imported")
  /\ Replace
  /\ mine' = [mine EXCEPT ![t] = issued + 1]
  /\ UNCHANGED <<why, watched, banner>>

\* _render_upload: the page checks what it has imported.
CheckImported(t) ==
  /\ Script(t, "imported", "recheck")
  /\ UNCHANGED <<fileVars, why, watched, mine, banner>>

PageStep(t) ==
  \/ ReadTried(t) \/ ReadOk(t) \/ ReadError(t) \/ PageEnds(t)
  \/ PageRechecks(t) \/ PageImports(t) \/ FinishWatched(t)
  \/ ImportFails(t) \/ ImportSucceeds(t) \/ CheckImported(t)

GateNext ==
  \/ WriteBack
  \/ \E t \in GateTabs :
       \/ Login(t)
       \/ \E click \in Clicks : Press(t, click)
       \/ PageStep(t)
       \/ CheckStep(t)

GateSpec == GateInit /\ [][GateNext]_authVars

-----------------------------------------------------------------------------
(* Properties. *)

Verdicts == [n : Nat, finding : Findings \union {"none"}, version : Nat]

\* A script checks while it has the lock, and nobody else does; what is stored
\* or was covered, watched or checked is something that somebody put in.
GateTypes ==
  /\ issued \in Nat /\ stored \in 0..issued /\ covered \in 0..issued
  /\ tried \in BOOLEAN /\ ok \in BOOLEAN /\ probe_error \in BOOLEAN
  /\ lock \in GateTabs \union {NoTab}
  /\ verdict \in Verdicts
  /\ scriptPc \in [GateTabs -> Pcs]
  /\ why \in [GateTabs -> Clicks \union {"ensure", "finish"}]
  /\ found \in [GateTabs -> Verdicts]
  /\ watched \in [GateTabs -> 0..issued]
  /\ mine \in [GateTabs -> 0..issued]
  /\ checked \in [GateTabs -> 0..issued]
  /\ revived \in [GateTabs -> 0..verdict.n]
  /\ banner \in [GateTabs -> {"none", "ok", "expired", "odd"}]
  /\ autos \in Nat /\ asks \in 0..MaxAsks
  /\ \A t \in GateTabs : scriptPc[t] \in Checking <=> lock = t

\* AuthGate, "확인을 한 번만": however many tabs open while the first check is
\* going on, nobody checks twice unasked.
ChecksOnceUnasked == autos <= 1

\* _verify, probe_error: between two checks the gate tells exactly what the
\* last one found, and an expiry is never mistaken for a failure.
VerdictOfLastCheck ==
  lock = NoTab =>
    /\ ok = (verdict.finding = "alive")
    /\ probe_error = (verdict.finding = "odd")

\* recheck: once a tab has checked the credentials that it put in, no check
\* that was going on meanwhile or follows takes the gate back to older ones,
\* unless a client has written older ones over those or over newer ones; and a
\* tab whose check found them alive does not keep the banner it drew before
\* (pages/auth.py:46-48).
NewCredentialsCount ==
  \A t \in GateTabs :
    /\ checked[t] <= verdict.version \/ checked[t] <= covered
    /\ lock = NoTab /\ scriptPc[t] = "idle" /\ revived[t] # 0
         /\ revived[t] = verdict.n => banner[t] = "ok"
=============================================================================
