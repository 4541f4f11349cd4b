----------------------------- MODULE Login_proofs -----------------------------
(***************************************************************************)
(* Proofs about the login: AuthGate and RemoteLogin keep their invariants, *)
(* for any number of tabs, of requests and of mishaps.                     *)
(***************************************************************************)
EXTENDS AuthGate, RemoteLogin, TLAPS

(***************************************************************************)
(* The gate.  Its lock makes the invariants inductive: Checks says what    *)
(* the script in a check has done so far, and Alive what a tab has seen    *)
(* since it found the credentials alive.                                   *)
(***************************************************************************)

\* Before the first check nothing is known, and one begins unasked at most.
Untried == ~tried => autos = 0 /\ verdict.n = 0

\* What was put in last is stored, unless an older version was written over it.
Newest == issued <= stored \/ issued <= covered

\* Version v is not younger than the version w, but for one that was covered.
Heeds(v, w) == v <= w \/ v <= covered

\* A check reads what is stored after the checks before it are over: so it is
\* about all that they and its own tab had put in, unless that was covered.
Checks ==
  \A t \in GateTabs :
    /\ scriptPc[t] \in Checking => tried
    /\ scriptPc[t] \in {"reading", "asking", "answering"} => ~probe_error
    /\ scriptPc[t] \in {"asking", "answering", "raising"} =>
         /\ Heeds(mine[t], found[t].version)
         /\ \A u \in GateTabs : Heeds(checked[u], found[t].version)
    /\ scriptPc[t] \in {"answering", "raising"} => found[t].finding # "none"
    /\ scriptPc[t] = "raising" => ~ok /\ found[t].finding = "odd"

\* The verdict is about all that was put in and checked, but for the covered.
Judged == \A t \in GateTabs : Heeds(checked[t], verdict.version)

\* Tab t shows that the credentials are alive, or will when its script goes on.
Drawn(t) ==
  /\ scriptPc[t] \notin {"ensure", "error"}
  /\ scriptPc[t] \in {"banner", "ok"} \/ banner[t] = "ok"

\* The script of tab t starts again after its check, while nobody else has
\* checked: it draws the banner anew, or finds that a check is about to fail.
Alive ==
  \A t \in GateTabs : revived[t] # 0 /\ revived[t] = verdict.n =>
    \/ \E u \in GateTabs : scriptPc[u] = "raising"
    \/ tried /\ ok /\ Drawn(t)

IInv ==
  /\ GateTypes /\ Untried /\ ChecksOnceUnasked /\ Newest /\ Checks
  /\ VerdictOfLastCheck /\ Judged /\ Alive

-----------------------------------------------------------------------------

\* Nobody has checked anything at first.
LEMMA InitIInv == GateInit => IInv
<1> SUFFICES ASSUME GateInit PROVE IInv
  OBVIOUS
<1> USE AuthAssumption DEF GateInit, Nothing, Pcs, Clicks, Findings, Verdicts,
        Checking
<1>1. GateTypes
  <2>1. /\ issued \in Nat /\ stored \in 0..issued /\ covered \in 0..issued
        /\ verdict \in Verdicts
    OBVIOUS
  <2>2. found \in [GateTabs -> Verdicts]
    OBVIOUS
  <2>3. autos \in Nat /\ asks \in 0..MaxAsks
    OBVIOUS
  <2>4. issued = 0 /\ verdict.n = 0
    OBVIOUS
  <2>5. /\ watched \in [GateTabs -> 0..issued]
        /\ mine \in [GateTabs -> 0..issued]
        /\ checked \in [GateTabs -> 0..issued]
        /\ revived \in [GateTabs -> 0..verdict.n]
    BY <2>4
  <2>6. /\ lock \in GateTabs \union {NoTab}
        /\ scriptPc \in [GateTabs -> Pcs]
        /\ why \in [GateTabs -> Clicks \union {"ensure", "finish"}]
        /\ banner \in [GateTabs -> {"none", "ok", "expired", "odd"}]
        /\ \A t \in GateTabs : scriptPc[t] \in Checking <=> lock = t
    OBVIOUS
  <2>7. tried \in BOOLEAN /\ ok \in BOOLEAN /\ probe_error \in BOOLEAN
    BY Zenon
  <2> QED BY <2>1, <2>2, <2>3, <2>5, <2>6, <2>7, Zenon DEF GateTypes
<1>2. Untried /\ ChecksOnceUnasked
  BY DEF Untried, ChecksOnceUnasked
<1>3. VerdictOfLastCheck
  <2>1. verdict.finding = "none"
    OBVIOUS
  <2> QED BY <2>1, Zenon DEF VerdictOfLastCheck
<1>4. Newest /\ Checks /\ Judged
  BY DEF Newest, Checks, Judged, Heeds
<1>5. Alive
  BY DEF Alive, Drawn
<1> QED BY <1>1, <1>2, <1>3, <1>4, <1>5 DEF IInv

\* Every step keeps the variables in their types, and the lock with the script
\* that checks.
LEMMA TypeStep == ASSUME IInv, [GateNext]_authVars PROVE GateTypes'
<1> USE AuthAssumption DEF IInv, GateTypes, Pcs, Clicks, Findings, Verdicts,
        Checking, Nothing, fileVars, gateVars, scriptVars, Goto, StartCheck,
        Conclude, Continues, Script, Replace
<1>1. ASSUME WriteBack PROVE GateTypes'
  BY <1>1 DEF WriteBack
<1>2. ASSUME NEW t \in GateTabs, Login(t) PROVE GateTypes'
  BY <1>2 DEF Login
<1>3. ASSUME NEW t \in GateTabs, NEW click \in Clicks, Press(t, click)
      PROVE GateTypes'
  BY <1>3 DEF Press, Interruptible
<1>4. ASSUME NEW t \in GateTabs, PageStep(t) PROVE GateTypes'
  <2>1. CASE ReadTried(t)  BY <2>1 DEF ReadTried
  <2>2. CASE ReadOk(t)  BY <2>2 DEF ReadOk
  <2>3. CASE ReadError(t)  BY <2>3 DEF ReadError
  <2>4. CASE PageEnds(t)  BY <2>4 DEF PageEnds
  <2>5. CASE PageRechecks(t)  BY <2>5 DEF PageRechecks
  <2>6. CASE PageImports(t)  BY <2>6 DEF PageImports
  <2>7. CASE FinishWatched(t)  BY <2>7 DEF FinishWatched
  <2>8. CASE ImportFails(t)  BY <2>8 DEF ImportFails
  <2>9. CASE ImportSucceeds(t)  BY <2>9 DEF ImportSucceeds
  <2>10. CASE CheckImported(t)  BY <2>10 DEF CheckImported
  <2> QED BY <1>4, <2>1, <2>2, <2>3, <2>4, <2>5, <2>6, <2>7, <2>8, <2>9,
             <2>10 DEF PageStep
<1>5. ASSUME NEW t \in GateTabs, CheckStep(t) PROVE GateTypes'
  <2>1. CASE Ensure(t)
    <3>1. CASE tried  BY <2>1, <3>1 DEF Ensure
    <3>2. CASE ~tried
      <4>1. /\ scriptPc[t] = "ensure" /\ lock = NoTab /\ lock' = t
            /\ why' = [why EXCEPT ![t] = "ensure"]
            /\ autos' = autos + 1 /\ asks' = asks
            /\ StartCheck(t)
        BY <2>1, <3>2, Zenon DEF Ensure
      <4>2. why' \in [GateTabs -> Clicks \union {"ensure", "finish"}]
        BY <4>1
      <4>3. scriptPc' \in [GateTabs -> Pcs]
            /\ \A u \in GateTabs : scriptPc'[u] \in Checking <=> lock' = u
        BY <4>1
      <4>4. UNCHANGED <<fileVars, ok, verdict, found, watched, mine, checked,
                        revived, banner>>
        BY <4>1
      <4>5. autos' \in Nat /\ tried' = TRUE /\ probe_error' = FALSE
        BY <4>1
      <4>6. /\ issued' \in Nat /\ stored' \in 0..issued'
            /\ covered' \in 0..issued'
            /\ verdict' \in Verdicts /\ found' \in [GateTabs -> Verdicts]
        BY <4>4
      <4>7. /\ watched' \in [GateTabs -> 0..issued']
            /\ mine' \in [GateTabs -> 0..issued']
            /\ checked' \in [GateTabs -> 0..issued']
            /\ revived' \in [GateTabs -> 0..verdict'.n]
            /\ banner' \in [GateTabs -> {"none", "ok", "expired", "odd"}]
        BY <4>4
      <4>8. tried' \in BOOLEAN /\ ok' \in BOOLEAN /\ probe_error' \in BOOLEAN
        BY <4>4, <4>5
      <4>9. autos' \in Nat /\ asks' \in 0..MaxAsks
            /\ lock' \in GateTabs \union {NoTab}
        BY <4>1
      <4> QED BY <4>2, <4>3, <4>6, <4>7, <4>8, <4>9, Zenon DEF GateTypes
    <3> QED BY <3>1, <3>2
  <2>2. CASE Recheck(t)  BY <2>2 DEF Recheck
  <2>3. CASE ReadStored(t)
    <3>1. found' \in [GateTabs -> Verdicts]
      BY <2>3 DEF ReadStored
    <3> QED BY <2>3, <3>1 DEF ReadStored
  <2>4. CASE Record(t)
    <3>1. ok' \in BOOLEAN
      BY <2>4 DEF Record
    <3> QED BY <2>4, <3>1 DEF Record
  <2>5. CASE RecordOdd(t)  BY <2>5 DEF RecordOdd
  <2>6. CASE RecordError(t)  BY <2>6 DEF RecordError
  <2>7. CASE Answered(t)
    <3>1. found' \in [GateTabs -> Verdicts]
      BY <2>7 DEF Answered
    <3> QED BY <2>7, <3>1 DEF Answered
  <2> QED BY <1>5, <2>1, <2>2, <2>3, <2>4, <2>5, <2>6, <2>7
     DEF CheckStep
<1>6. CASE UNCHANGED authVars
  BY <1>6 DEF authVars
<1> QED BY <1>1, <1>2, <1>3, <1>4, <1>5, <1>6 DEF GateNext

\* The first check unasked makes the gate tried for good.
LEMMA OnceStep ==
  ASSUME IInv, [GateNext]_authVars PROVE (Untried /\ ChecksOnceUnasked)'
<1> USE DEF IInv, GateTypes, Untried, ChecksOnceUnasked, Goto, StartCheck,
        Conclude, Script, gateVars, scriptVars
<1>1. ASSUME NEW t \in GateTabs, CheckStep(t)
      PROVE (Untried /\ ChecksOnceUnasked)'
  <2>1. CASE Ensure(t)  BY <2>1 DEF Ensure
  <2>2. CASE Recheck(t)  BY <2>2 DEF Recheck
  <2>3. CASE ReadStored(t)  BY <2>3 DEF ReadStored
  <2>4. CASE Record(t)  BY <2>4 DEF Record, Checks, Checking
  <2>5. CASE RecordOdd(t)  BY <2>5 DEF RecordOdd
  <2>6. CASE RecordError(t)  BY <2>6 DEF RecordError, Checks, Checking
  <2>7. CASE Answered(t)  BY <2>7 DEF Answered
  <2> QED BY <1>1, <2>1, <2>2, <2>3, <2>4, <2>5, <2>6, <2>7
     DEF CheckStep
<1>2. ASSUME ~ \E t \in GateTabs : CheckStep(t)
      PROVE  UNCHANGED <<tried, autos, verdict>>
  BY <1>2 DEF GateNext, authVars, WriteBack, Login, Press, PageStep, ReadTried,
              ReadOk,
       ReadError, PageEnds, PageRechecks, PageImports, FinishWatched,
       ImportFails, ImportSucceeds, CheckImported
<1> QED BY <1>1, <1>2

-----------------------------------------------------------------------------

\* What the steps outside of a check change: not the gate, nor a tab whose
\* script is in one; a banner is drawn by the verdict.
Bystander ==
  /\ UNCHANGED <<tried, ok, probe_error, lock, verdict>>
  /\ UNCHANGED <<found, checked, revived>>
  /\ covered <= covered' /\ Newest'
  /\ \A t \in GateTabs : scriptPc[t] \in Checking =>
                             scriptPc'[t] = scriptPc[t] /\ mine'[t] = mine[t]
  /\ \A t \in GateTabs : tried /\ ok /\ Drawn(t) => Drawn(t)'

\* Steps outside of a check leave alone what checks are about.
LEMMA Others ==
  ASSUME IInv, [GateNext]_authVars, ~ \E t \in GateTabs : CheckStep(t)
  PROVE  Bystander
<1> USE DEF IInv, GateTypes, Bystander, Newest, Goto, Script, Replace, fileVars,
        gateVars, scriptVars, Checking, Drawn
<1>1. CASE WriteBack  BY <1>1 DEF WriteBack
<1>2. ASSUME NEW t \in GateTabs, Login(t) PROVE Bystander
  BY <1>2 DEF Login
<1>3. ASSUME NEW t \in GateTabs, NEW click \in Clicks, Press(t, click)
      PROVE  Bystander
  BY <1>3 DEF Press, Interruptible
<1>4. ASSUME NEW t \in GateTabs, PageStep(t) PROVE Bystander
  <2>1. CASE ReadTried(t)  BY <2>1 DEF ReadTried
  <2>2. CASE ReadOk(t)  BY <2>2 DEF ReadOk
  <2>3. CASE ReadError(t)  BY <2>3 DEF ReadError
  <2>4. CASE PageEnds(t)  BY <2>4 DEF PageEnds
  <2>5. CASE PageRechecks(t)  BY <2>5 DEF PageRechecks
  <2>6. CASE PageImports(t)  BY <2>6 DEF PageImports
  <2>7. CASE FinishWatched(t)  BY <2>7 DEF FinishWatched
  <2>8. CASE ImportFails(t)  BY <2>8 DEF ImportFails
  <2>9. CASE ImportSucceeds(t)  BY <2>9 DEF ImportSucceeds
  <2>10. CASE CheckImported(t)  BY <2>10 DEF CheckImported
  <2> QED BY <1>4, <2>1, <2>2, <2>3, <2>4, <2>5, <2>6, <2>7, <2>8, <2>9,
             <2>10 DEF PageStep
<1>5. CASE UNCHANGED authVars
  BY <1>5 DEF authVars
<1> QED BY <1>1, <1>2, <1>3, <1>4, <1>5, Zenon DEF GateNext

\* While a script checks, the gate is as _verify has left it, and what it puts
\* in the gate at last is no older than what was checked before, but for what
\* was covered.
LEMMA ChecksStep ==
  ASSUME IInv, [GateNext]_authVars, GateTypes'
  PROVE  Newest' /\ Checks' /\ VerdictOfLastCheck' /\ Judged'
<1> DEFINE Goal == Newest' /\ Checks' /\ VerdictOfLastCheck' /\ Judged'
<1> USE AuthAssumption DEF IInv, GateTypes, Newest, Checks, Judged, Heeds,
        VerdictOfLastCheck, Checking, Verdicts, Findings, fileVars
<1>1. ASSUME NEW t \in GateTabs, Ensure(t) PROVE Goal
  <2>1. CASE tried  BY <1>1, <2>1 DEF Ensure, Goto, gateVars
  <2>2. CASE ~tried  BY <1>1, <2>2 DEF Ensure, StartCheck, Goto
  <2> QED BY <2>1, <2>2
<1>2. ASSUME NEW t \in GateTabs, Recheck(t) PROVE Goal
  BY <1>2 DEF Recheck, StartCheck, Goto
<1>3. ASSUME NEW t \in GateTabs, ReadStored(t) PROVE Goal
  BY <1>3 DEF ReadStored, Goto, gateVars
<1>4. ASSUME NEW t \in GateTabs, Record(t) PROVE Goal
  BY <1>4 DEF Record, Conclude, Continues, Nothing, Goto
<1>5. ASSUME NEW t \in GateTabs, RecordOdd(t) PROVE Goal
  BY <1>5 DEF RecordOdd, Goto
<1>6. ASSUME NEW t \in GateTabs, RecordError(t) PROVE Goal
  <2>1. /\ scriptPc[t] = "raising" /\ ~ok /\ ok' = ok /\ probe_error' = TRUE
        /\ verdict'.finding = "odd"
    BY <1>6 DEF RecordError, Conclude
  <2>2. VerdictOfLastCheck'
    <3>1. "odd" # "alive"
      OBVIOUS
    <3> QED BY <2>1, <3>1, Zenon DEF VerdictOfLastCheck
  <2>3. Newest' /\ Checks'
    BY <1>6 DEF RecordError, Conclude, Continues, Nothing, Goto
  <2>4. Judged'
    BY <1>6 DEF RecordError, Conclude
  <2> QED BY <2>2, <2>3, <2>4
<1>7. ASSUME ~ \E t \in GateTabs : CheckStep(t) PROVE Goal
  <2>1. Bystander
    BY <1>7, Others
  <2> QED BY <2>1 DEF Bystander
<1>8. ASSUME NEW t \in GateTabs, Answered(t) PROVE Goal
  BY <1>8 DEF Answered, Goto, gateVars
<1> QED BY <1>1, <1>2, <1>3, <1>4, <1>5, <1>6, <1>7, <1>8
   DEF CheckStep

\* A tab that has found the credentials alive starts its script again, so that
\* it draws the banner anew; any check that ends after its own is another one.
LEMMA AliveStep == ASSUME IInv, [GateNext]_authVars, GateTypes' PROVE Alive'
<1> USE AuthAssumption DEF IInv, GateTypes, Alive, Drawn, Checking, Verdicts
<1>1. ASSUME NEW t \in GateTabs, Ensure(t) PROVE Alive'
  <2>1. CASE tried  BY <1>1, <2>1 DEF Ensure, Goto, gateVars
  <2>2. CASE ~tried  BY <1>1, <2>2 DEF Ensure, StartCheck, Goto
  <2> QED BY <2>1, <2>2
<1>2. ASSUME NEW t \in GateTabs, Recheck(t) PROVE Alive'
  BY <1>2 DEF Recheck, StartCheck, Goto
<1>3. ASSUME NEW t \in GateTabs, ReadStored(t) PROVE Alive'
  BY <1>3 DEF ReadStored, Goto, gateVars
<1>4. ASSUME NEW t \in GateTabs, Record(t) PROVE Alive'
  BY <1>4 DEF Record, Conclude, Continues, Goto, Checks
<1>5. ASSUME NEW t \in GateTabs, RecordOdd(t) PROVE Alive'
  BY <1>5 DEF RecordOdd, Goto
<1>6. ASSUME NEW t \in GateTabs, RecordError(t) PROVE Alive'
  BY <1>6 DEF RecordError, Conclude, Checks
<1>7. ASSUME ~ \E t \in GateTabs : CheckStep(t) PROVE Alive'
  <2>1. Bystander
    BY <1>7, Others
  <2> QED BY <2>1 DEF Bystander
<1>8. ASSUME NEW t \in GateTabs, Answered(t) PROVE Alive'
  BY <1>8 DEF Answered, Goto, gateVars
<1> QED BY <1>1, <1>2, <1>3, <1>4, <1>5, <1>6, <1>7, <1>8
   DEF CheckStep

\* Every step keeps the invariant.
LEMMA IInvStep == IInv /\ [GateNext]_authVars => IInv'
<1> SUFFICES ASSUME IInv, [GateNext]_authVars PROVE IInv'
  OBVIOUS
<1>1. GateTypes'
  BY TypeStep
<1> QED BY <1>1, OnceStep, ChecksStep, AliveStep DEF IInv

-----------------------------------------------------------------------------

\* The invariant that the theorems below rest on.
THEOREM Inductive == GateSpec => []IInv
BY InitIInv, IInvStep, PTL DEF GateSpec

\* Types, and mutual exclusion: who checks has the lock of the gate.
THEOREM GateTypeOK == GateSpec => []GateTypes
<1>1. IInv => GateTypes
  BY DEF IInv
<1> QED BY <1>1, Inductive, PTL

\* However many tabs open while the first check is made, nobody checks twice
\* unasked.
THEOREM OneUnaskedCheck == GateSpec => []ChecksOnceUnasked
<1>1. IInv => ChecksOnceUnasked
  BY DEF IInv
<1> QED BY <1>1, Inductive, PTL

\* Between two checks the gate tells what the last one found.
THEOREM VerdictStands == GateSpec => []VerdictOfLastCheck
<1>1. IInv => VerdictOfLastCheck
  BY DEF IInv
<1> QED BY <1>1, Inductive, PTL

\* Credentials that a tab has put in and checked are not judged by older ones
\* again, unless a client has written older ones over them; and the tab shows
\* that they are alive.
THEOREM NewCredentials == GateSpec => []NewCredentialsCount
<1>1. IInv => NewCredentialsCount
  <2> SUFFICES ASSUME IInv, NEW t \in GateTabs
               PROVE  /\ checked[t] <= verdict.version \/ checked[t] <= covered
                      /\ lock = NoTab /\ scriptPc[t] = "idle" /\ revived[t] # 0
                           /\ revived[t] = verdict.n => banner[t] = "ok"
    BY DEF NewCredentialsCount
  <2>1. lock = NoTab => ~ \E u \in GateTabs : scriptPc[u] = "raising"
    BY AuthAssumption DEF IInv, GateTypes, Checking
  <2> QED BY <2>1 DEF IInv, Judged, Heeds, Alive, Drawn
<1> QED BY <1>1, Inductive, PTL

-----------------------------------------------------------------------------
(***************************************************************************)
(* The remote login.  Memory says what the supervisor holds at each place, *)
(* Once which request it may still open a session for.                     *)
(***************************************************************************)

\* What the supervisor's memory holds at each place: a session only in the
\* loop, the request whose session is being opened, the result to be written;
\* and that a restart has tried to remove what it found.
Memory ==
  /\ sup # "loop" => session = NoId
  /\ sup = "launch" => lastId \in Ids
  /\ sup \in {"finish", "stopping"} => ending \in [state : Results, id : Ids]
  /\ sup = "answer" => status.state \notin Active /\ (traces => undeleted)
  /\ sup \in {"recover", "answer"} => ~survivor

\* The file holds the youngest request; a request with a session behind it is
\* older, or is the one that the supervisor remembers.
Once ==
  /\ request.id = made
  /\ \A i \in opened : i <= made
  /\ sup \in {"loop", "launch", "finish"} /\ request.id \in opened
       => lastId = request.id

IndInv == ValuesOK /\ Memory /\ StatusTruth /\ NoTraces /\ Once

USE BoundsAssumption DEF NoId, Ids

\* Nothing is asked and the supervisor is down at first.
LEMMA InitInv == Init => IndInv
<1> SUFFICES ASSUME Init PROVE IndInv
  OBVIOUS
<1> USE DEF Init, NoRequest, Idle
<1>1. ValuesOK
  BY DEF ValuesOK, Requests, SupPlaces, TabPlaces, Views, Buttons
<1>2. Memory
  BY DEF Memory
<1>3. StatusTruth /\ NoTraces
  BY DEF StatusTruth, NoTraces
<1>4. Once
  BY DEF Once
<1> QED
  BY <1>1, <1>2, <1>3, <1>4 DEF IndInv

\* The steps of the supervisor keep the types: what they write is the ID of a
\* request, since a place that writes one holds one (Memory).
LEMMA SupervisorValues == ASSUME IndInv, Supervisor PROVE ValuesOK'
<1> USE DEF IndInv, ValuesOK, Memory, Requests, NoRequest, Idle, Active, Results,
            SupPlaces, files, memory, children, volume,
            counts, tabVars, Write, WriteFails, Mishap, Fails, Cleanup, TakeDown, Finish,
            Fresh
<1>1. CASE Boot
  BY <1>1 DEF Boot
<1>2. CASE RecoverStatus
  BY <1>2 DEF RecoverStatus
<1>3. CASE RecoverRequest
  BY <1>3 DEF RecoverRequest
<1>4. CASE Beat
  BY <1>4 DEF Beat
<1>5. CASE Handle
  <2>1. /\ request.id \in Ids /\ lastId' = request.id
        /\ UNCHANGED <<request, stale, made, mishaps, tabVars>>
    BY <1>5 DEF Handle
  <2>2. CASE /\ Write("starting", request.id) /\ UNCHANGED <<session, ending, children, survivor>>
             /\ opened' = opened \union {request.id} /\ sup' = "launch"
    BY <1>5, <2>1, <2>2
  <2>3. CASE Finish("cancelled", "finish") /\ UNCHANGED <<status, volume, opened, unwritten>>
             /\ session # NoId
    BY <1>5, <2>1, <2>3
  <2>4. CASE UNCHANGED <<status, sup, session, ending, children, volume, opened,
                       unwritten>>
    BY <1>5, <2>1, <2>4
  <2> QED
    BY <1>5, <2>2, <2>3, <2>4 DEF Handle
<1>6. CASE HandleFails
  BY <1>6 DEF HandleFails
<1>7. CASE Launch
  BY <1>7 DEF Launch
<1>8. CASE Abort
  BY <1>8 DEF Abort
<1>9. CASE Check
  BY <1>9 DEF Check
<1>10. CASE Close
  BY <1>10 DEF Close
<1>11. CASE Terminate
  BY <1>11 DEF Terminate
<1>12. CASE Crash
  BY <1>12 DEF Crash
<1> QED
  BY <1>1, <1>2, <1>3, <1>4, <1>5, <1>6,
     <1>7, <1>8, <1>9, <1>10, <1>11, <1>12 DEF Supervisor

\* They keep what the places hold.
LEMMA SupervisorMemory == ASSUME IndInv, Supervisor PROVE Memory'
<1> USE DEF IndInv, ValuesOK, Memory, Requests, NoRequest, Idle, Active, Results,
            files, memory, children, volume,
            counts, tabVars, Write, WriteFails, Mishap, Fails, Cleanup, TakeDown, Finish,
            Fresh
<1>1. CASE Boot
  BY <1>1 DEF Boot
<1>2. CASE RecoverStatus
  <2>1. traces' => undeleted'
    <3>1. ~survivor'
      BY <1>2, Zenon DEF RecoverStatus
    <3>2. traces' = (undeleted' \/ survivor')
      BY <1>2, Zenon DEF RecoverStatus
    <3> QED
      BY <3>1, <3>2, Zenon
  <2>2. ~survivor'
    BY <1>2, Zenon DEF RecoverStatus
  <2>3. sup' = "answer" /\ session' = NoId /\ status'.state \notin Active
    BY <1>2 DEF RecoverStatus
  <2> QED
    BY <2>1, <2>2, <2>3, Zenon
<1>3. CASE RecoverRequest
  BY <1>3 DEF RecoverRequest
<1>4. CASE Beat
  BY <1>4 DEF Beat
<1>5. CASE Handle
  BY <1>5 DEF Handle
<1>6. CASE HandleFails
  BY <1>6 DEF HandleFails
<1>7. CASE Launch
  BY <1>7 DEF Launch
<1>8. CASE Abort
  BY <1>8 DEF Abort
<1>9. CASE Check
  BY <1>9 DEF Check
<1>10. CASE Close
  BY <1>10 DEF Close
<1>11. CASE Terminate
  BY <1>11 DEF Terminate
<1>12. CASE Crash
  BY <1>12 DEF Crash
<1> QED
  BY <1>1, <1>2, <1>3, <1>4, <1>5, <1>6,
     <1>7, <1>8, <1>9, <1>10, <1>11, <1>12 DEF Supervisor

\* They keep the file true and the volume clean.
LEMMA SupervisorTruth == ASSUME IndInv, Supervisor PROVE (StatusTruth /\ NoTraces)'
<1> USE DEF IndInv, ValuesOK, Memory, StatusTruth, NoTraces, Active, Results,
            files, memory, children, volume,
            counts, tabVars, Write, WriteFails, Mishap, Fails, Cleanup, TakeDown, Finish,
            Fresh
<1>1. CASE Boot
  BY <1>1 DEF Boot
<1>2. CASE RecoverStatus
  BY <1>2 DEF RecoverStatus
<1>3. CASE RecoverRequest
  BY <1>3 DEF RecoverRequest
<1>4. CASE Beat
  BY <1>4 DEF Beat
<1>5. CASE Handle
  BY <1>5 DEF Handle
<1>6. CASE HandleFails
  BY <1>6 DEF HandleFails
<1>7. CASE Launch
  BY <1>7 DEF Launch
<1>8. CASE Abort
  <2>1. NoTraces'
    <3>1. traces' = (undeleted' \/ survivor')
      BY <1>8, Zenon DEF Abort
    <3> QED
      BY <3>1, Zenon
  <2>2. StatusTruth'
    BY <1>8 DEF Abort
  <2> QED
    BY <2>1, <2>2
<1>9. CASE Check
  BY <1>9 DEF Check
<1>10. CASE Close
  BY <1>10 DEF Close
<1>11. CASE Terminate
  BY <1>11 DEF Terminate
<1>12. CASE Crash
  BY <1>12 DEF Crash
<1> QED
  BY <1>1, <1>2, <1>3, <1>4, <1>5, <1>6,
     <1>7, <1>8, <1>9, <1>10, <1>11, <1>12 DEF Supervisor

\* They open a session only for a request that has none behind it.
LEMMA SupervisorOnce == ASSUME IndInv, Supervisor PROVE Once'
<1> USE DEF IndInv, ValuesOK, Memory, Once, Requests, NoRequest,
            files, memory, children, volume,
            counts, tabVars, Write, WriteFails, Mishap, Fails, Cleanup, TakeDown, Finish,
            Fresh
<1>1. CASE Boot
  BY <1>1 DEF Boot
<1>2. CASE RecoverStatus
  BY <1>2 DEF RecoverStatus
<1>3. CASE RecoverRequest
  BY <1>3 DEF RecoverRequest
<1>4. CASE Beat
  BY <1>4 DEF Beat
<1>5. CASE Handle
  <2>1. /\ request.id \in Ids /\ lastId' = request.id
        /\ UNCHANGED <<request, stale, made, mishaps, tabVars>>
    BY <1>5 DEF Handle
  <2>2. CASE /\ Write("starting", request.id) /\ UNCHANGED <<session, ending, children, survivor>>
             /\ opened' = opened \union {request.id} /\ sup' = "launch"
    BY <1>5, <2>1, <2>2 DEF Handle
  <2>3. CASE Finish("cancelled", "finish") /\ UNCHANGED <<status, volume, opened, unwritten>>
             /\ session # NoId
    BY <1>5, <2>1, <2>3 DEF Handle
  <2>4. CASE UNCHANGED <<status, sup, session, ending, children, volume, opened,
                       unwritten>>
    BY <1>5, <2>1, <2>4 DEF Handle
  <2> QED
    BY <1>5, <2>2, <2>3, <2>4 DEF Handle
<1>6. CASE HandleFails
  BY <1>6 DEF HandleFails
<1>7. CASE Launch
  BY <1>7 DEF Launch
<1>8. CASE Abort
  BY <1>8 DEF Abort
<1>9. CASE Check
  BY <1>9 DEF Check
<1>10. CASE Close
  BY <1>10 DEF Close
<1>11. CASE Terminate
  BY <1>11 DEF Terminate
<1>12. CASE Crash
  BY <1>12 DEF Crash
<1> QED
  BY <1>1, <1>2, <1>3, <1>4, <1>5, <1>6,
     <1>7, <1>8, <1>9, <1>10, <1>11, <1>12 DEF Supervisor

\* Together: the supervisor keeps the invariant.
LEMMA SupervisorInv == IndInv /\ Supervisor => IndInv'
  BY SupervisorValues, SupervisorMemory, SupervisorTruth, SupervisorOnce
     DEF IndInv

\* The steps of the world: they touch neither the status nor the memory.
LEMMA WorldInv == IndInv /\ World => IndInv'
<1> SUFFICES ASSUME IndInv, World PROVE IndInv'
  OBVIOUS
<1>1. UNCHANGED <<request, status, sup, memory, volume, opened, made, mishaps,
                 unwritten, pc, clicked, seen, view, watching>>
  BY DEF World, CliExits, HelperDies, DeadlinePasses, BeatFades, RequestAges,
     files, memory, children, volume, counts, tabVars
<1>2. child' \in {"none", "up", "broken", "ok", "bad"}
  BY DEF World, CliExits, HelperDies, DeadlinePasses, BeatFades, RequestAges,
     children, IndInv, ValuesOK
<1> QED
  BY <1>1, <1>2 DEF memory, volume, IndInv, ValuesOK, Memory, StatusTruth, NoTraces, Once

\* The steps of the tabs: what they change is their own, but for the request.
LEMMA PageInv == ASSUME NEW t \in Tabs, IndInv, Page(t) PROVE IndInv'
<1> DEFINE TabsOK == /\ pc \in [Tabs -> TabPlaces] /\ view \in [Tabs -> Views]
                     /\ clicked \in [Tabs -> Buttons]
                     /\ seen \in [Tabs -> Ids \union {NoId}]
                     /\ watching \in [Tabs -> Ids \union {NoId}]
<1>1. CASE Ask(t)
  BY <1>1 DEF Ask, supVars, memory, children, volume, IndInv, ValuesOK, Memory,
     StatusTruth, NoTraces, Once, Requests, NoRequest, TabPlaces
<1>2. ASSUME UNCHANGED NotTabs, TabsOK' PROVE IndInv'
  BY <1>2 DEF NotTabs, files, memory, children, volume, counts, IndInv,
     ValuesOK, Memory, StatusTruth, NoTraces, Once
<1>3. TabsOK
  BY DEF IndInv, ValuesOK
<1>4. status.id \in Ids \union {NoId}
  BY DEF IndInv, ValuesOK, Idle
<1> USE DEF TabPlaces, Views, Buttons
<1>5. CASE Visit(t)
  BY <1>2, <1>3, <1>5 DEF Visit
<1>6. CASE Redraw(t)
  BY <1>2, <1>3, <1>6 DEF Redraw
<1>7. CASE RedrawStatus(t)
  BY <1>2, <1>3, <1>4, <1>7 DEF RedrawStatus
<1>8. CASE RedrawRequest(t)
  BY <1>2, <1>3, <1>8 DEF RedrawRequest
<1>9. ASSUME NEW click \in Buttons, Area(t, click) PROVE IndInv'
  BY <1>2, <1>3, <1>9 DEF Area
<1>10. CASE Draw(t) \/ Poll(t) \/ Click(t)
  BY <1>9, <1>10 DEF Draw, Poll, Click
<1>11. CASE AreaStep(t)
  <2>1. CASE AreaRunning(t)
    BY <1>2, <1>3, <1>4, <2>1 DEF AreaRunning, Shows
  <2>2. CASE AreaFinished(t)
    BY <1>2, <1>3, <2>2 DEF AreaFinished, Shows
  <2>3. CASE AreaStarting(t)
    BY <1>2, <1>3, <2>3 DEF AreaStarting, Shows
  <2>4. CASE AreaOther(t)
    BY <1>2, <1>3, <1>4, <2>4 DEF AreaOther
  <2>5. CASE AreaRequest(t)
    BY <1>2, <1>3, <2>5 DEF AreaRequest, Shows
  <2> QED
    BY <1>11, <2>1, <2>2, <2>3, <2>4, <2>5 DEF AreaStep
<1>12. CASE CloseTab(t)
  BY <1>2, <1>3, <1>12 DEF CloseTab
<1> QED
  BY <1>1, <1>5, <1>6, <1>7, <1>8, <1>10, <1>11, <1>12 DEF Page

\* Every step keeps the invariant.
LEMMA StepInv == IndInv /\ [Next]_vars => IndInv'
<1>1. ASSUME IndInv, UNCHANGED vars PROVE IndInv'
  BY <1>1 DEF vars, files, memory, children, volume, counts, tabVars, IndInv,
     ValuesOK, Memory, StatusTruth, NoTraces, Once
<1> QED
  BY <1>1, SupervisorInv, WorldInv, PageInv DEF Next

\* The invariant holds in every reachable state: the supervisor's memory, its
\* place and the files agree.
THEOREM LoginInvariant == Spec => []IndInv
  BY InitInv, StepInv, PTL DEF Spec

\* The flags are flags, whatever the values are.
LEMMA FlagsStep == FlagsOK /\ [Next]_vars => FlagsOK'
<1> SUFFICES ASSUME FlagsOK, [Next]_vars PROVE FlagsOK'
  OBVIOUS
<1> USE DEF FlagsOK, files, memory, children, volume, counts, tabVars
<1>1. CASE UNCHANGED vars
  BY <1>1 DEF vars
<1>2. CASE Supervisor
  <2>1. ASSUME NEW fails, Cleanup(fails), survivor' \in BOOLEAN
        PROVE  traces' \in BOOLEAN /\ undeleted' \in BOOLEAN
    <3>1. undeleted' = ("removal" \in fails)
      BY <2>1, Zenon DEF Cleanup
    <3>2. traces' = (undeleted' \/ survivor')
      BY <2>1, Zenon DEF Cleanup
    <3>3. undeleted' \in BOOLEAN
      BY <3>1
    <3>4. traces' \in BOOLEAN
      BY <3>2, Zenon
    <3> QED
      BY <3>3, <3>4
  <2>2. ASSUME NEW result, NEW id, TakeDown(result, id)
        PROVE  /\ traces' \in BOOLEAN /\ undeleted' \in BOOLEAN
               /\ survivor' \in BOOLEAN /\ unwritten' \in BOOLEAN
    <3>1. PICK fails \in SUBSET {"stop", "removal", "write"} :
            /\ survivor' = (survivor \/ "stop" \in fails)
            /\ Cleanup(fails)
            /\ IF "write" \in fails THEN WriteFails ELSE Write(result, id)
      BY <2>2, Zenon DEF TakeDown
    <3>2. survivor' \in BOOLEAN
      BY <3>1, Zenon
    <3>3. unwritten' \in BOOLEAN
      BY <3>1, Zenon DEF WriteFails, Write
    <3> QED
      BY <2>1, <3>1, <3>2, <3>3
  <2>3. CASE RecoverStatus
    <3>1. PICK fails : Cleanup(fails)
      BY <2>3, Zenon DEF RecoverStatus
    <3> QED
      BY <2>1, <2>3, <3>1 DEF RecoverStatus, Write
  <2>4. CASE Abort
    BY <2>2, <2>4 DEF Abort
  <2>5. CASE Close
    BY <2>2, <2>5 DEF Close
  <2> QED
    BY <1>2, <2>3, <2>4, <2>5 DEF Supervisor, Boot, RecoverRequest, Beat,
       Handle, HandleFails, Launch, Check, Terminate, Crash, Write, WriteFails,
       Finish
<1>3. CASE World
  BY <1>3 DEF World, CliExits, HelperDies, DeadlinePasses, BeatFades,
     RequestAges
<1>4. ASSUME NEW t \in Tabs, Page(t) PROVE FlagsOK'
  <2>1. Unaccepted(seen[t]) \in BOOLEAN
    BY DEF Unaccepted
  <2> QED
    BY <1>4, <2>1 DEF Page, Visit, Redraw, RedrawStatus, RedrawRequest, Draw,
       Poll, Click, Area, AreaStep, AreaRunning, AreaFinished, AreaStarting,
       AreaOther, AreaRequest, Ask, CloseTab, NotTabs, supVars
<1> QED
  BY <1>1, <1>2, <1>3, <1>4 DEF Next

\* Type correctness, for any number of tabs, requests and mishaps.
THEOREM LoginTypeOK == Spec => []TypeOK
<1>1. Init => FlagsOK
  BY DEF Init, FlagsOK
<1>2. IndInv /\ FlagsOK => TypeOK
  BY DEF IndInv, TypeOK
<1> QED
  BY <1>1, <1>2, FlagsStep, LoginInvariant, PTL DEF Spec

\* The status file says that a session is up exactly when one is: every end,
\* failed start and restart of the supervisor keeps status.json true.
THEOREM LoginStatusTruth == Spec => []StatusTruth
<1>1. IndInv => StatusTruth
  BY DEF IndInv
<1> QED
  BY <1>1, LoginInvariant, PTL

\* Whichever way the supervisor left a session, a password file or a browser
\* profile stays after it only if its removal was tried and failed, or if a
\* child that could not be killed may write it again.
THEOREM LoginNoTraces == Spec => []NoTraces
<1>1. IndInv => NoTraces
  BY DEF IndInv
<1> QED
  BY <1>1, LoginInvariant, PTL

\* No request opens a second session, over any number of restarts.
THEOREM LoginOncePerRequest == Spec => OncePerRequest
<1>1. ASSUME IndInv, Next, NEW i \in Ids, sup' = "launch", lastId' = i,
             sup # "launch"
      PROVE  i \notin opened
  <2>1. Handle
    <3>1. ~World
      BY <1>1 DEF World, CliExits, HelperDies, DeadlinePasses, BeatFades,
         RequestAges
    <3>2. ASSUME NEW t \in Tabs PROVE ~Page(t)
      BY <1>1 DEF Page, Visit, Redraw, RedrawStatus, RedrawRequest, Draw,
         Poll, Click, Area, AreaStep, AreaRunning, AreaFinished, AreaStarting,
         AreaOther, AreaRequest, Ask, CloseTab, NotTabs, supVars
    <3>3. Supervisor
      BY <1>1, <3>1, <3>2 DEF Next
    <3> QED
      BY <1>1, <3>3 DEF Supervisor, Boot, RecoverStatus, RecoverRequest, Beat,
         HandleFails, Launch, Abort, Check, Close, Terminate, Crash, Finish
  <2>2. sup = "loop" /\ request.id # lastId /\ lastId' = request.id
    BY <2>1 DEF Handle, Fresh
  <2> QED
    BY <1>1, <2>2 DEF IndInv, Once
<1>2. IndInv /\ [Next]_vars =>
        [\A i \in Ids : sup' = "launch" /\ lastId' = i /\ sup # "launch"
                          => i \notin opened]_vars
  BY <1>1
<1> QED
  BY <1>2, LoginInvariant, PTL DEF Spec, OncePerRequest
===============================================================================
