------------------------ MODULE SharedConnection_proofs ------------------------
(***************************************************************************)
(* Proofs about SharedConnection: the types and the references between     *)
(* rows for any number of scripts; that the connection rests unlocked, and *)
(* that it implements AtomicWrites, for one script and the worker.         *)
(*                                                                         *)
(* The invariant says of an operation that n of its steps are done: what   *)
(* the connection sees is then what these steps make of the disk.          *)
(***************************************************************************)
EXTENDS SharedConnection, TLAPS

\* One browser tab, and no page loaded again while its script is in a call.
OneScript == \E s : Scripts = {s}

\* What step i of operation o makes of contents d.
After(d, o, i) ==
  IF o.steps[i] \in Checks THEN d ELSE Does(d, o.steps[i], o.on)

\* What the first n steps of operation o make of contents d.
Upto(d, o, n) ==
  IF n = 0 THEN d
  ELSE IF n = 1 THEN After(d, o, 1)
  ELSE IF n = 2 THEN After(After(d, o, 1), o, 2)
  ELSE After(After(After(d, o, 1), o, 2), o, 3)

\* Whether the first n steps of operation o write.
Writes(o, n) == \E i \in 1..n : o.steps[i] \notin Checks

\* What the first n steps of operation o have found.  That no result has the
\* category may have changed since, and is checked again by the foreign key.
Found(d, o, n) ==
  \A i \in 1..n :
    /\ ~Refuses(Upto(d, o, i - 1), o.steps[i], o.on)
    /\ o.steps[i] \in Checks \ {"checkUnused"} => Passes(d, o.steps[i])

\* Operation o without its first n steps.
Rest(o, n) == [steps |-> SubSeq(o.steps, n + 1, Len(o.steps)),
               undoes |-> o.undoes, on |-> o.on]

\* Actor a is in no operation, or has done n steps of operation o.
Partway(a) ==
  doing[a] = Idle \/ \E o \in Operations(a) : \E n \in 0..3 :
                       n < Len(o.steps) /\ doing[a] = Rest(o, n)

\* Actor a has done n steps of operation o, and its connection sees what they
\* make of the disk.
Reached(a, o, n) ==
  /\ n < Len(o.steps) /\ doing[a] = Rest(o, n)
  /\ writer = Conn(a) <=> Writes(o, n)
  /\ Writes(o, n) => draft = Upto(disk, o, n)
  /\ Found(disk, o, n)

\* An actor is in no operation and does not hold the write lock, or has done
\* some steps of one.
Progress(a) ==
  \/ doing[a] = Idle /\ writer # Conn(a)
  \/ \E o \in Operations(a) : \E n \in 0..3 : Reached(a, o, n)

IInv ==
  /\ TypeOK
  /\ DOMAIN doing = Actors
  /\ \A a \in Actors : Partway(a)
  /\ Progress(Worker)

-----------------------------------------------------------------------------
(* The operations and their statements. *)

WorkerWrites == {"insertRun", "insertAnswers", "tag", "link", "dropAnswers"}

PageWrites == {"link", "dropAnswers", "deleteRun", "ensureCategory", "untag",
               "retag", "insertCategory", "dropCategory", "insertChannel",
               "dropChannel", "insertDefault", "dropDefaults",
               "insertQuestion", "dropQuestion", "turnOn", "turnOff"}

\* The steps of an operation: at most one check, first; at least one write;
\* the commit, last.
Shape(a, o) ==
  /\ o = [steps |-> o.steps, undoes |-> o.undoes, on |-> o.on]
  /\ Len(o.steps) \in 2..4
  /\ o.steps = [i \in 1..Len(o.steps) |-> o.steps[i]]
  /\ o.undoes \subseteq Failures
  /\ \A i \in 1..Len(o.steps) : o.steps[i] = "commit" <=> i = Len(o.steps)
  /\ \A i \in 2..Len(o.steps) : o.steps[i] \notin Checks
  /\ o.steps[Len(o.steps) - 1] \notin Checks
  /\ a = Worker =>
       /\ o.on \in Results
       /\ \A i \in 1..Len(o.steps) : o.steps[i] \in WorkerWrites \union {"commit"}
  /\ a # Worker => \A i \in 1..Len(o.steps) :
       o.steps[i] \in PageWrites \union Checks \union {"commit"}

\* Every operation has this shape.
LEMMA OperationShape ==
  ASSUME NEW a \in Actors, NEW o \in Operations(a) PROVE Shape(a, o)
<1> USE DEF Shape, Failures, Checks, WorkerWrites, PageWrites
<1>1. ASSUME NEW r \in Results, o = SaveRun(r), a = Worker PROVE Shape(a, o)
  BY <1>1 DEF SaveRun
<1>2. ASSUME NEW r \in Results, o = MarkExported(r) PROVE Shape(a, o)
  BY <1>2 DEF MarkExported
<1>3. ASSUME NEW r \in Results, o = DeleteRun(r), a # Worker PROVE Shape(a, o)
  BY <1>3 DEF DeleteRun
<1>4. ASSUME NEW r \in Results, o = ApplyPlan(r), a # Worker PROVE Shape(a, o)
  BY <1>4 DEF ApplyPlan
<1>5. ASSUME o = AddCategory, a # Worker PROVE Shape(a, o)
  BY <1>5 DEF AddCategory
<1>6. ASSUME o = DeleteCategory, a # Worker PROVE Shape(a, o)
  BY <1>6 DEF DeleteCategory
<1>7. ASSUME o = DeleteChannel, a # Worker PROVE Shape(a, o)
  BY <1>7 DEF DeleteChannel
<1>8. ASSUME o = AddQuestion, a # Worker PROVE Shape(a, o)
  BY <1>8 DEF AddQuestion
<1>9. ASSUME o = DeleteQuestion, a # Worker PROVE Shape(a, o)
  BY <1>9 DEF DeleteQuestion
<1>10. ASSUME NEW b \in BOOLEAN, o = AddChannel(b), a # Worker PROVE Shape(a, o)
  <2>1. CASE b  BY <1>10, <2>1 DEF AddChannel
  <2>2. CASE ~b  BY <1>10, <2>2 DEF AddChannel
  <2> QED BY <2>1, <2>2
<1>11. ASSUME NEW b \in BOOLEAN, o = SetDefaults(b), a # Worker
       PROVE Shape(a, o)
  <2>1. CASE b  BY <1>11, <2>1 DEF SetDefaults
  <2>2. CASE ~b  BY <1>11, <2>2 DEF SetDefaults
  <2> QED BY <2>1, <2>2
<1>12. ASSUME NEW b \in BOOLEAN, o = SetAutoSave(b), a # Worker
       PROVE Shape(a, o)
  <2>1. CASE b  BY <1>12, <2>1 DEF SetAutoSave
  <2>2. CASE ~b  BY <1>12, <2>2 DEF SetAutoSave
  <2> QED BY <2>1, <2>2
<1> HIDE DEF Shape
<1>13. CASE a = Worker
  BY <1>1, <1>2, <1>13 DEF Operations, WorkerOperations
<1>14. CASE a # Worker
  BY <1>2, <1>3, <1>4, <1>5, <1>6, <1>7, <1>8, <1>9, <1>10, <1>11, <1>12, <1>14
     DEF Operations, PageOperations
<1> QED BY <1>13, <1>14

\* A step less is left of an operation.
LEMMA TailOfSteps ==
  ASSUME NEW S, NEW t \in Seq(S), t # <<>>, NEW u, NEW on, NEW x,
         x = [steps |-> t, undoes |-> u, on |-> on]
  PROVE  [x EXCEPT !.steps = Tail(@)]
         = [steps |-> Tail(t), undoes |-> u, on |-> on]
OBVIOUS

\* The step that follows the first n, and what is left after it.
LEMMA NextOfRest ==
  ASSUME NEW a \in Actors, NEW o \in Operations(a),
         NEW n \in 0..3, n < Len(o.steps)
  PROVE  /\ Rest(o, n) # Idle
         /\ Head(Rest(o, n).steps) = o.steps[n + 1]
         /\ n + 1 < Len(o.steps) =>
              [Rest(o, n) EXCEPT !.steps = Tail(@)] = Rest(o, n + 1)
         /\ Rest(o, 0) = o
<1>1. Shape(a, o)
  BY OperationShape
<1> DEFINE L == Len(o.steps)
           t == SubSeq(o.steps, n + 1, L)
           S == {o.steps[i] : i \in 1..L}
<1>2. o.steps \in Seq(S) /\ L \in 2..4
  BY <1>1 DEF Shape
<1>3. Len(t) = L - n /\ t \in Seq(S)
  BY <1>2
<1>4. Head(t) = o.steps[n + 1]
  BY <1>2
<1>5. n + 1 < L => Tail(t) = SubSeq(o.steps, (n + 1) + 1, L)
  BY <1>2
<1>6. SubSeq(o.steps, 1, L) = o.steps
  BY <1>2
<1>7. Rest(o, n) # Idle
  BY <1>2, <1>3 DEF Rest, Idle
<1>8. Rest(o, 0) = o
  BY <1>1, <1>6 DEF Rest, Shape
<1> HIDE DEF t, S
<1>9. t # <<>>
  BY <1>2, <1>3
<1>10. Rest(o, n) = [steps |-> t, undoes |-> o.undoes, on |-> o.on]
  BY DEF Rest, t
<1>11. [Rest(o, n) EXCEPT !.steps = Tail(@)]
       = [steps |-> Tail(t), undoes |-> o.undoes, on |-> o.on]
  BY <1>3, <1>9, <1>10, TailOfSteps
<1>12. n + 1 < L => Rest(o, n + 1)
                    = [steps |-> Tail(t), undoes |-> o.undoes, on |-> o.on]
  BY <1>5 DEF Rest
<1>13. Rest(o, n).steps = t
  BY <1>10
<1> QED BY <1>4, <1>7, <1>8, <1>11, <1>12, <1>13

\* What refers to a deleted row goes with it.
LEMMA DeleteTypes ==
  ASSUME NEW d \in Database, References(d), NEW r, NEW e,
         e = [d EXCEPT !.saved = @ \ {r}, !.answered = @ \ {r},
                       !.linked = @ \ {r}, !.tagged = @ \ {r}]
  PROVE  e \in Database /\ References(e)
<1>1. e \in Database
  BY DEF Database
<1>2. /\ e.saved = d.saved \ {r} /\ e.answered = d.answered \ {r}
      /\ e.linked = d.linked \ {r} /\ e.tagged = d.tagged \ {r}
      /\ e.category = d.category /\ e.channel = d.channel
      /\ e.default = d.default
  BY DEF Database
<1> QED BY <1>1, <1>2 DEF References

\* A statement that is not refused keeps the references between rows; the
\* answers and the category of a result come after its row.
LEMMA DoesTypes ==
  ASSUME NEW d \in Database, References(d), NEW r,
         NEW s \in WorkerWrites \union PageWrites, ~Refuses(d, s, r),
         s = "insertRun" => r \in Results,
         s \in {"insertAnswers", "tag"} => r \in d.saved
  PROVE  Does(d, s, r) \in Database /\ References(Does(d, s, r))
<1> USE DEF Does, Database, References, Refuses
<1>1. CASE s = "insertRun"  BY <1>1
<1>2. CASE s = "insertAnswers"  BY <1>2
<1>3. CASE s = "tag"  BY <1>3
<1>4. CASE s = "link"  BY <1>4
<1>5. CASE s = "dropAnswers"  BY <1>5
<1>6. CASE s = "deleteRun"
  <2>1. Does(d, s, r) = [d EXCEPT !.saved = @ \ {r}, !.answered = @ \ {r},
                                  !.linked = @ \ {r}, !.tagged = @ \ {r}]
    BY <1>6
  <2> HIDE DEF Does, Database, References
  <2> QED BY <2>1, DeleteTypes
<1>7. CASE s = "ensureCategory"  BY <1>7
<1>8. CASE s = "untag"  BY <1>8
<1>9. CASE s = "retag"  BY <1>9
<1>10. CASE s = "insertCategory"  BY <1>10
<1>11. CASE s = "dropCategory"  BY <1>11
<1>12. CASE s = "insertChannel"  BY <1>12
<1>13. CASE s = "dropChannel"  BY <1>13
<1>14. CASE s = "insertDefault"  BY <1>14
<1>15. CASE s = "dropDefaults"  BY <1>15
<1>16. CASE s = "insertQuestion"  BY <1>16
<1>17. CASE s = "dropQuestion"  BY <1>17
<1>18. CASE s = "turnOn"  BY <1>18
<1>19. CASE s = "turnOff"  BY <1>19
<1> QED BY <1>1, <1>2, <1>3, <1>4, <1>5, <1>6, <1>7, <1>8, <1>9, <1>10,
           <1>11, <1>12, <1>13, <1>14, <1>15, <1>16, <1>17, <1>18, <1>19
           DEF WorkerWrites, PageWrites

-----------------------------------------------------------------------------
(* What the first steps of an operation come to. *)

\* One step more.
LEMMA UptoStep ==
  ASSUME NEW d, NEW o, NEW n \in 0..2
  PROVE  Upto(d, o, n + 1) = After(Upto(d, o, n), o, n + 1)
<1>1. CASE n = 0  BY <1>1 DEF Upto
<1>2. CASE n = 1  BY <1>2 DEF Upto
<1>3. CASE n = 2  BY <1>3 DEF Upto
<1> QED BY <1>1, <1>2, <1>3

\* Before the first write, a connection sees the disk.
LEMMA NothingWritten ==
  ASSUME NEW a \in Actors, NEW o \in Operations(a), NEW d,
         NEW n \in 0..3, n < Len(o.steps), ~Writes(o, n)
  PROVE  Upto(d, o, n) = d /\ n \in 0..1
<1>1. Shape(a, o)
  BY OperationShape
<1>2. n \notin 2..3
  <2> SUFFICES ASSUME n \in 2..3 PROVE FALSE
    OBVIOUS
  <2>1. 2 \in 1..n /\ 2 \in 2..Len(o.steps)
    BY <1>1 DEF Shape
  <2> QED BY <1>1, <2>1 DEF Shape, Writes
<1>3. CASE n = 0  BY <1>3 DEF Upto
<1>4. CASE n = 1  BY <1>4 DEF Upto, After, Writes
<1> QED BY <1>2, <1>3, <1>4

\* What an actor's connection sees.
LEMMA ViewUpto ==
  ASSUME NEW a \in Actors, NEW o \in Operations(a),
         NEW n \in 0..3, Reached(a, o, n)
  PROVE  View(Conn(a)) = Upto(disk, o, n)
BY NothingWritten DEF Reached, View

\* An operation goes on by one step.
LEMMA GoesOn ==
  ASSUME DOMAIN doing = Actors, NEW a \in Actors, NEW o \in Operations(a),
         NEW n \in 0..3, n < Len(o.steps), doing[a] = Rest(o, n),
         Step(a) # "commit", GoOn(a)
  PROVE  /\ n + 1 \in 1..3 /\ n + 1 < Len(o.steps)
         /\ doing' = [doing EXCEPT ![a] = Rest(o, n + 1)]
<1>1. Step(a) = o.steps[n + 1]
  BY NextOfRest DEF Step
<1>2. Shape(a, o)
  BY OperationShape
<1>3. n + 1 < Len(o.steps)
  BY <1>1, <1>2 DEF Shape
<1>4. n + 1 \in 1..3
  BY <1>2, <1>3 DEF Shape
<1>5. doing' = [doing EXCEPT ![a] = [doing[a] EXCEPT !.steps = Tail(@)]]
  BY DEF GoOn
<1>6. [doing[a] EXCEPT !.steps = Tail(@)] = Rest(o, n + 1)
  <2>1. [Rest(o, n) EXCEPT !.steps = Tail(@)] = Rest(o, n + 1)
    BY <1>3, NextOfRest
  <2> QED BY <2>1, Zenon
<1> QED BY <1>3, <1>4, <1>5, <1>6

\* What the checks of a page look at, but for the tagged results.
Alike(d, e) ==
  /\ e.category = d.category /\ e.channel = d.channel
  /\ e.question = d.question

\* No statement of the worker touches that.
LEMMA WorkerStatements ==
  ASSUME NEW d \in Database, NEW r \in Results, NEW s \in WorkerWrites
  PROVE  Does(d, s, r) \in Database /\ Alike(d, Does(d, s, r))
<1> USE DEF Does, Database, Alike
<1>1. CASE s = "insertRun"  BY <1>1
<1>2. CASE s = "insertAnswers"  BY <1>2
<1>3. CASE s = "tag"  BY <1>3
<1>4. CASE s = "link"  BY <1>4
<1>5. CASE s = "dropAnswers"  BY <1>5
<1> QED BY <1>1, <1>2, <1>3, <1>4, <1>5 DEF WorkerWrites

\* What the worker writes is a database, and alike to pages.
LEMMA WorkerKeeps ==
  ASSUME NEW d \in Database, NEW o \in Operations(Worker), NEW n \in 0..3,
         n < Len(o.steps)
  PROVE  Upto(d, o, n) \in Database /\ Alike(d, Upto(d, o, n))
<1>1. Shape(Worker, o)
  BY OperationShape DEF Actors
<1>2. ASSUME NEW i \in 1..3, i < Len(o.steps), NEW e \in Database
      PROVE  After(e, o, i) \in Database /\ Alike(e, After(e, o, i))
  <2>1. o.steps[i] \in WorkerWrites /\ o.on \in Results
    BY <1>1, <1>2 DEF Shape
  <2>2. o.steps[i] \notin Checks
    BY <2>1 DEF WorkerWrites, Checks
  <2> QED BY <2>1, <2>2, WorkerStatements, <1>2 DEF After
<1>3. CASE n = 0  BY <1>3 DEF Upto, Alike
<1>4. CASE n = 1  BY <1>2, <1>4 DEF Upto, Alike
<1>5. CASE n = 2
  <2> DEFINE e == After(d, o, 1)
  <2>1. e \in Database /\ Alike(d, e)
    BY <1>2, <1>5
  <2>2. After(e, o, 2) \in Database /\ Alike(e, After(e, o, 2))
    BY <1>2, <1>5, <2>1
  <2> QED BY <1>5, <2>1, <2>2 DEF Upto, Alike
<1>6. CASE n = 3
  <2> DEFINE e == After(d, o, 1)
             f == After(e, o, 2)
  <2>1. e \in Database /\ Alike(d, e)
    BY <1>2, <1>6
  <2>2. f \in Database /\ Alike(e, f)
    BY <1>2, <1>6, <2>1
  <2>3. After(f, o, 3) \in Database /\ Alike(f, After(f, o, 3))
    BY <1>2, <1>6, <2>2
  <2> QED BY <1>6, <2>1, <2>2, <2>3 DEF Upto, Alike
<1> QED BY <1>3, <1>4, <1>5, <1>6

\* Which failures a page can meet, and which of them an operation rolls back.
LEMMA Guarded ==
  ASSUME NEW o \in PageOperations, NEW i \in 1..Len(o.steps)
  PROVE  /\ o.steps[i] \in {"link", "insertCategory", "dropCategory"} =>
              "refused" \in o.undoes
         /\ o.steps[i] = "insertChannel" => i = 2 /\ o.steps[1] = "checkChannel"
         /\ o.steps[i] = "insertDefault" =>
              /\ i = 3
              /\ \/ o.steps[2] = "insertChannel"
                 \/ o.steps[1] = "checkFound" /\ o.steps[2] = "dropDefaults"
<1>1. ASSUME NEW r \in Results, o = MarkExported(r) PROVE "refused" \in o.undoes
  BY <1>1 DEF MarkExported, Failures
<1> USE DEF MarkExported, DeleteRun, ApplyPlan, AddCategory, DeleteCategory,
        DeleteChannel, AddQuestion, DeleteQuestion, AddChannel, SetDefaults,
        SetAutoSave
<1>2. CASE \E r \in Results : o = DeleteRun(r)  BY <1>2
<1>3. CASE \E r \in Results : o = ApplyPlan(r)  BY <1>3
<1>4. CASE o = AddCategory  BY <1>4
<1>5. CASE o = DeleteCategory  BY <1>5
<1>6. CASE o \in {DeleteChannel, AddQuestion, DeleteQuestion}  BY <1>6
<1>7. CASE o = AddChannel(TRUE)  BY <1>7
<1>8. CASE o = AddChannel(FALSE)  BY <1>8
<1>9. CASE o = SetDefaults(TRUE)  BY <1>9
<1>10. CASE o = SetDefaults(FALSE)  BY <1>10
<1>11. CASE o = SetAutoSave(TRUE)  BY <1>11
<1>12. CASE o = SetAutoSave(FALSE)  BY <1>12
<1>13. CASE \E r \in Results : o = MarkExported(r)  BY <1>1, <1>13
<1> HIDE DEF MarkExported, DeleteRun, ApplyPlan, AddCategory, DeleteCategory,
         DeleteChannel, AddQuestion, DeleteQuestion, AddChannel, SetDefaults,
         SetAutoSave
<1>14. \A b \in BOOLEAN : b = TRUE \/ b = FALSE
  OBVIOUS
<1> QED BY <1>2, <1>3, <1>4, <1>5, <1>6, <1>7, <1>8, <1>9, <1>10, <1>11,
           <1>12, <1>13, <1>14 DEF PageOperations

\* save_run inserts the answers and the category of a result after its row.
LEMMA SavesInOrder ==
  ASSUME NEW o \in WorkerOperations, NEW d \in Database, NEW n \in 0..3,
         n + 1 < Len(o.steps), o.steps[n + 1] \in {"insertAnswers", "tag"}
  PROVE  o.on \in Upto(d, o, n).saved
<1>1. \A r \in Results : o # MarkExported(r)
  BY DEF MarkExported
<1>2. PICK r \in Results : o = SaveRun(r)
  BY <1>1 DEF WorkerOperations
<1>3. /\ o.steps[1] = "insertRun" /\ o.steps[2] = "insertAnswers"
      /\ o.steps[3] = "tag" /\ o.on = r /\ Len(o.steps) = 4
  BY <1>2 DEF SaveRun
<1> DEFINE e == Does(d, "insertRun", r)
<1>4. e \in Database /\ r \in e.saved
  BY DEF Does, Database
<1>5. r \in Does(e, "insertAnswers", r).saved
  BY <1>4 DEF Does, Database
<1>6. After(d, o, 1) = e /\ After(e, o, 2) = Does(e, "insertAnswers", r)
  BY <1>3 DEF After, Checks
<1>7. n \in 1..2
  BY <1>3
<1> QED BY <1>3, <1>4, <1>5, <1>6, <1>7 DEF Upto

-----------------------------------------------------------------------------
(* The invariant. *)

\* What actor a does.
Moves(a) ==
  \/ \E o \in Operations(a) : Begin(a, o)
  \/ Check(a) \/ Write(a) \/ TimeOut(a) \/ Commit(a)

\* No page leaves the write lock taken when a statement is refused.
NoLeak(a) ==
  \A o \in Operations(a) : \A n \in 0..3 :
    Reached(a, o, n) /\ Refuses(View(Conn(a)), o.steps[n + 1], o.on) =>
      a = Worker \/ "refused" \in o.undoes

\* An actor stays within its operation, whatever it does.
LEMMA PartwayStep ==
  ASSUME DOMAIN doing = Actors, NEW a \in Actors, Partway(a), Moves(a)
  PROVE  /\ DOMAIN doing' = Actors
         /\ Partway(a)'
         /\ \A b \in Actors \ {a} : doing'[b] = doing[b]
<1>1. CASE Ends(a)
  BY <1>1 DEF Ends, Partway
<1>2. ASSUME NEW o \in Operations(a), Begin(a, o)
      PROVE  DOMAIN doing' = Actors /\ Partway(a)'
             /\ \A b \in Actors \ {a} : doing'[b] = doing[b]
  <2>1. Shape(a, o)
    BY OperationShape
  <2>2. 0 < Len(o.steps) /\ 0 \in 0..3
    BY <2>1 DEF Shape
  <2>3. Rest(o, 0) = o
    BY <2>2, NextOfRest
  <2>4. doing' = [doing EXCEPT ![a] = o]
    BY <1>2 DEF Begin
  <2>5. doing'[a] = Rest(o, 0)
    BY <2>3, <2>4
  <2> QED BY <2>2, <2>4, <2>5 DEF Partway
<1>3. CASE Running(a) /\ Step(a) # "commit" /\ GoOn(a)
  <2>1. PICK o \in Operations(a), n \in 0..3 :
           n < Len(o.steps) /\ doing[a] = Rest(o, n)
    BY <1>3 DEF Partway, Running
  <2>2. /\ n + 1 \in 1..3 /\ n + 1 < Len(o.steps)
        /\ doing' = [doing EXCEPT ![a] = Rest(o, n + 1)]
    BY <1>3, <2>1, GoesOn
  <2>3. doing'[a] = Rest(o, n + 1) /\ n + 1 \in 0..3
    BY <2>2
  <2> QED BY <2>2, <2>3 DEF Partway
<1>4. Check(a) => Running(a) /\ Step(a) # "commit" /\ (GoOn(a) \/ Ends(a))
  BY DEF Check, Checks
<1>5. Write(a) => Running(a) /\ Step(a) # "commit" /\ (GoOn(a) \/ Ends(a))
  BY DEF Write, IsWrite, Fails
<1>6. TimeOut(a) \/ Commit(a) => Ends(a)
  BY DEF TimeOut, Fails, Commit
<1> QED BY <1>1, <1>2, <1>3, <1>4, <1>5, <1>6 DEF Moves

\* An actor's connection keeps to what the steps make of the disk, and the
\* write lock is given back at the end.
LEMMA OwnStep ==
  ASSUME DOMAIN doing = Actors, NEW a \in Actors, Progress(a), NoLeak(a),
         writer \in Connections \union {"none"}, Moves(a)
  PROVE  Progress(a)'
<1> USE DEF Connections, Conn
<1>1. ASSUME NEW o \in Operations(a), Begin(a, o) PROVE Progress(a)'
  <2>1. Shape(a, o)
    BY OperationShape
  <2>2. 0 < Len(o.steps) /\ 0 \in 0..3
    BY <2>1 DEF Shape
  <2>3. Rest(o, 0) = o
    BY <2>2, NextOfRest
  <2>4. doing' = [doing EXCEPT ![a] = o] /\ writer' = writer /\ doing[a] = Idle
    BY <1>1 DEF Begin, Running
  <2>5. doing'[a] = Rest(o, 0)
    BY <2>3, <2>4
  <2>6. writer # Conn(a)
    <3>1. ASSUME NEW p \in Operations(a), NEW n \in 0..3, Reached(a, p, n)
          PROVE  FALSE
      BY <2>4, <3>1, NextOfRest DEF Reached
    <3> QED BY <3>1 DEF Progress
  <2>7. ~Writes(o, 0) /\ Found(disk', o, 0)
    BY DEF Writes, Found
  <2>8. Reached(a, o, 0)'
    BY <2>2, <2>4, <2>5, <2>6, <2>7 DEF Reached
  <2> QED BY <2>2, <2>8 DEF Progress
<1>2. ASSUME Running(a) PROVE \E o \in Operations(a), n \in 0..3 :
                                 /\ Reached(a, o, n)
                                 /\ Step(a) = o.steps[n + 1]
                                 /\ View(Conn(a)) = Upto(disk, o, n)
  <2>1. PICK o \in Operations(a), n \in 0..3 : Reached(a, o, n)
    BY <1>2 DEF Running, Progress
  <2>2. Step(a) = o.steps[n + 1]
    BY <2>1, NextOfRest DEF Reached, Step
  <2> QED BY <2>1, <2>2, ViewUpto
<1>3. ASSUME Ends(a), writer' # Conn(a) PROVE Progress(a)'
  BY <1>3 DEF Ends, Progress
<1>4. CASE Check(a)
  <2>1. /\ Running(a) /\ Step(a) \in Checks
        /\ IF Passes(View(Conn(a)), Step(a)) THEN GoOn(a) ELSE Ends(a)
        /\ disk' = disk /\ draft' = draft /\ writer' = writer
    BY <1>4 DEF Check
  <2>2. PICK o \in Operations(a), n \in 0..3 :
           /\ Reached(a, o, n) /\ Step(a) = o.steps[n + 1]
           /\ View(Conn(a)) = Upto(disk, o, n)
    BY <1>2, <2>1
  <2>3. Shape(a, o)
    BY OperationShape
  <2>4. n = 0
    BY <2>1, <2>2, <2>3 DEF Shape, Reached
  <2>5. ~Writes(o, 0) /\ ~Writes(o, 1)
    BY <2>1, <2>2, <2>4 DEF Writes
  <2>6. writer # Conn(a) /\ View(Conn(a)) = disk
    BY <2>2, <2>4, <2>5 DEF Reached, View
  <2>7. CASE GoOn(a) /\ Passes(disk, Step(a))
    <3>1. /\ 1 < Len(o.steps) /\ doing' = [doing EXCEPT ![a] = Rest(o, 1)]
      BY <2>1, <2>2, <2>4, <2>7, GoesOn DEF Checks, Reached
    <3>2. Found(disk', o, 1)
      BY <2>1, <2>2, <2>4, <2>7 DEF Found, Refuses, Checks
    <3>3. doing'[a] = Rest(o, 1)
      BY <3>1
    <3>4. Reached(a, o, 1)'
      BY <2>1, <2>5, <2>6, <3>1, <3>2, <3>3 DEF Reached
    <3> QED BY <3>4 DEF Progress
  <2>8. CASE Ends(a)
    BY <1>3, <2>1, <2>6, <2>8
  <2> QED BY <2>1, <2>6, <2>7, <2>8
<1>5. CASE Write(a)
  <2>1. /\ Running(a) /\ Step(a) \notin Checks \union {"commit"}
        /\ IF Refuses(View(Conn(a)), Step(a), doing[a].on)
           THEN Fails(a, "refused")
           ELSE /\ draft' = Does(View(Conn(a)), Step(a), doing[a].on)
                /\ writer' = Conn(a) /\ GoOn(a) /\ disk' = disk
    BY <1>5 DEF Write, IsWrite
  <2>2. PICK o \in Operations(a), n \in 0..3 :
           /\ Reached(a, o, n) /\ Step(a) = o.steps[n + 1]
           /\ View(Conn(a)) = Upto(disk, o, n)
    BY <1>2, <2>1
  <2>3. doing[a].on = o.on /\ doing[a].undoes = o.undoes
    BY <2>2 DEF Reached, Rest
  <2>4. CASE Refuses(View(Conn(a)), Step(a), doing[a].on)
    <3>1. a = Worker \/ "refused" \in doing[a].undoes
      BY <2>2, <2>3, <2>4 DEF NoLeak
    <3>2. Ends(a) /\ Rollback(Conn(a))
      BY <2>1, <2>4, <3>1 DEF Fails
    <3>3. writer' = IF writer = Conn(a) THEN "none" ELSE writer
      BY <3>2, Zenon DEF Rollback, Close
    <3> QED BY <1>3, <3>2, <3>3
  <2>5. CASE ~Refuses(View(Conn(a)), Step(a), doing[a].on)
    <3>1. /\ n + 1 \in 1..3 /\ n + 1 < Len(o.steps)
          /\ doing' = [doing EXCEPT ![a] = Rest(o, n + 1)]
      BY <2>1, <2>2, <2>5, GoesOn DEF Reached
    <3>2. doing'[a] = Rest(o, n + 1) /\ n \in 0..2
      BY <3>1
    <3>3. Writes(o, n + 1)
      <4>1. n + 1 \in 1..(n + 1)
        BY <3>1
      <4> QED BY <2>1, <2>2, <4>1 DEF Writes
    <3>4. draft' = Upto(disk, o, n + 1)
      BY <2>1, <2>2, <2>3, <2>5, <3>2, UptoStep DEF After
    <3>5. Found(disk, o, n + 1)
      <4> SUFFICES ASSUME NEW i \in 1..(n + 1)
                   PROVE  /\ ~Refuses(Upto(disk, o, i - 1), o.steps[i], o.on)
                          /\ o.steps[i] \in Checks \ {"checkUnused"} =>
                               Passes(disk, o.steps[i])
        BY DEF Found
      <4>1. CASE i \in 1..n
        BY <2>2, <4>1 DEF Reached, Found
      <4>2. CASE i = n + 1
        <5>1. i - 1 = n
          BY <4>2
        <5> QED BY <2>1, <2>2, <2>3, <2>5, <4>2, <5>1
      <4> QED BY <3>2, <4>1, <4>2
    <3>6. Reached(a, o, n + 1)'
      BY <2>1, <2>5, <3>1, <3>2, <3>3, <3>4, <3>5 DEF Reached
    <3>7. n + 1 \in 0..3
      BY <3>1
    <3> QED BY <3>6, <3>7 DEF Progress
  <2> QED BY <2>4, <2>5
<1>6. CASE TimeOut(a)
  <2>1. /\ Fails(a, "timeout")
        /\ a = Worker \/ writer # Conn(a)
    BY <1>6 DEF TimeOut
  <2>2. CASE "timeout" \in doing[a].undoes \/ a = Worker
    <3>1. Ends(a) /\ Rollback(Conn(a))
      BY <2>1, <2>2 DEF Fails
    <3>2. writer' = IF writer = Conn(a) THEN "none" ELSE writer
      BY <3>1, Zenon DEF Rollback, Close
    <3> QED BY <1>3, <3>1, <3>2
  <2>3. CASE ~("timeout" \in doing[a].undoes \/ a = Worker)
    <3>1. Ends(a) /\ writer' = writer
      BY <2>1, <2>3 DEF Fails
    <3> QED BY <1>3, <2>1, <2>3, <3>1
  <2> QED BY <2>2, <2>3
<1>7. CASE Commit(a)
  <2>1. Ends(a) /\ Close(Conn(a), View(Conn(a)))
    BY <1>7 DEF Commit
  <2>2. writer' = IF writer = Conn(a) THEN "none" ELSE writer
    BY <2>1, Zenon DEF Close
  <2> QED BY <1>3, <2>1, <2>2
<1> QED BY <1>1, <1>4, <1>5, <1>6, <1>7 DEF Moves

\* What a step of one connection leaves alone: the lock of the other one, what
\* its transaction has written, and what its checks have found.
LEMMA OtherConnection ==
  ASSUME TypeOK, NEW a \in Actors, NEW c \in Connections, c # Conn(a),
         a = Worker => Progress(a), Moves(a)
  PROVE  /\ writer' = c <=> writer = c
         /\ writer = c => disk' = disk /\ draft' = draft
         /\ a = Worker => Alike(disk, disk')
<1> USE DEF Connections
<1>1. CASE disk' = disk /\ draft' = draft /\ writer' = writer
  BY <1>1 DEF Alike
<1>2. ASSUME NEW d, Close(Conn(a), d), d = View(Conn(a)) \/ d = disk
      PROVE  /\ writer' = c <=> writer = c
             /\ writer = c => disk' = disk /\ draft' = draft
  <2>1. writer' = IF writer = Conn(a) THEN "none" ELSE writer
    BY <1>2, Zenon DEF Close
  <2>2. /\ disk' = d
        /\ draft' = IF writer \in {Conn(a), "none"} THEN d ELSE draft
    BY <1>2, Zenon DEF Close
  <2> QED BY <1>2, <2>1, <2>2 DEF View
<1>3. CASE (\E o \in Operations(a) : Begin(a, o)) \/ Check(a)
  BY <1>1, <1>3 DEF Begin, Check
<1>4. ASSUME NEW failure \in Failures, Fails(a, failure),
             failure = "refused" => writer \in {"none", Conn(a)}
      PROVE  /\ writer' = c <=> writer = c
             /\ writer = c => disk' = disk /\ draft' = draft
             /\ disk' = disk
  <2>1. CASE failure \in doing[a].undoes \/ a = Worker
    <3>1. Close(Conn(a), disk)
      BY <1>4, <2>1 DEF Fails, Rollback
    <3>2. disk' = disk
      BY <3>1, Zenon DEF Close
    <3> QED BY <1>2, <3>1, <3>2
  <2>2. CASE ~(failure \in doing[a].undoes \/ a = Worker)
    BY <1>4, <2>2 DEF Fails
  <2> QED BY <2>1, <2>2
<1>5. CASE Write(a)
  <2>1. /\ writer \in {"none", Conn(a)}
        /\ \/ Fails(a, "refused")
           \/ writer' = Conn(a) /\ disk' = disk
    BY <1>5 DEF Write
  <2>2. CASE Fails(a, "refused")
    BY <1>4, <2>1, <2>2 DEF Alike, Failures
  <2> QED BY <2>1, <2>2 DEF Alike
<1>6. CASE TimeOut(a)
  BY <1>4, <1>6 DEF TimeOut, Failures, Alike
<1>7. CASE Commit(a)
  <2>1. Close(Conn(a), View(Conn(a)))
    BY <1>7 DEF Commit
  <2>2. /\ writer' = c <=> writer = c
        /\ writer = c => disk' = disk /\ draft' = draft
    BY <1>2, <2>1
  <2>3. ASSUME a = Worker PROVE Alike(disk, disk')
    <3>1. disk' = View(Conn(a))
      BY <2>1, Zenon DEF Close
    <3>2. PICK o \in Operations(a), n \in 0..3 : Reached(a, o, n)
      BY <1>7, <2>3 DEF Progress, Commit, Running
    <3>3. View(Conn(a)) = Upto(disk, o, n)
      BY <3>2, ViewUpto
    <3> QED BY <2>3, <3>1, <3>2, <3>3, WorkerKeeps DEF Reached, TypeOK
  <2> QED BY <2>2, <2>3
<1> QED BY <1>3, <1>5, <1>6, <1>7 DEF Moves

\* The progress of an actor is safe from the steps of the other connection.
LEMMA OtherStep ==
  ASSUME TypeOK, NEW a \in Actors, NEW b \in Actors, Conn(a) # Conn(b),
         a = Worker => Progress(a), Progress(b), Moves(a),
         doing'[b] = doing[b]
  PROVE  Progress(b)'
<1>1. /\ writer' = Conn(b) <=> writer = Conn(b)
      /\ writer = Conn(b) => disk' = disk /\ draft' = draft
      /\ a = Worker => Alike(disk, disk')
  BY OtherConnection DEF Conn, Connections
<1>2. CASE doing[b] = Idle /\ writer # Conn(b)
  BY <1>1, <1>2 DEF Progress
<1>3. ASSUME NEW o \in Operations(b), NEW n \in 0..3, Reached(b, o, n)
      PROVE  Reached(b, o, n)'
  <2>1. CASE Writes(o, n)
    BY <1>1, <1>3, <2>1 DEF Reached
  <2>2. CASE ~Writes(o, n)
    <3>1. Shape(b, o)
      BY OperationShape
    <3>2. n < Len(o.steps)
      BY <1>3 DEF Reached
    <3>3. Found(disk', o, n)
      <4> SUFFICES ASSUME NEW i \in 1..n
                   PROVE  /\ ~Refuses(Upto(disk', o, i - 1), o.steps[i], o.on)
                          /\ o.steps[i] \in Checks \ {"checkUnused"} =>
                               Passes(disk', o.steps[i])
        BY DEF Found
      <4>1. o.steps[i] \in Checks
        BY <2>2 DEF Writes
      <4>2. ~Refuses(Upto(disk', o, i - 1), o.steps[i], o.on)
        BY <4>1 DEF Refuses, Checks
      <4>3. b # Worker
        <5>1. i \in 1..Len(o.steps)
          BY <3>1, <3>2 DEF Shape
        <5> QED BY <3>1, <4>1, <5>1 DEF Shape, WorkerWrites, Checks
      <4>4. Alike(disk, disk')
        BY <1>1, <4>3 DEF Conn
      <4>5. o.steps[i] # "checkUnused" => Passes(disk, o.steps[i])
        BY <1>3, <4>1 DEF Reached, Found
      <4>6. ASSUME o.steps[i] # "checkUnused" PROVE Passes(disk', o.steps[i])
        BY <4>1, <4>4, <4>5, <4>6 DEF Passes, Alike, Checks
      <4> QED BY <4>2, <4>6
    <3> QED BY <1>1, <1>3, <2>2, <3>3 DEF Reached
  <2> QED BY <2>1, <2>2
<1> QED BY <1>2, <1>3 DEF Progress

\* A page whose connection keeps to its own steps is refused only where the
\* code rolls back.
LEMMA NoLeaks ==
  ASSUME TypeOK, NEW a \in Actors PROVE NoLeak(a)
<1> SUFFICES ASSUME NEW o \in Operations(a), NEW n \in 0..3, Reached(a, o, n),
                    Refuses(View(Conn(a)), o.steps[n + 1], o.on), a # Worker
             PROVE  "refused" \in o.undoes
  BY DEF NoLeak
<1> DEFINE s == o.steps[n + 1]
<1>1. o \in PageOperations
  BY DEF Operations
<1>2. Shape(a, o) /\ View(Conn(a)) = Upto(disk, o, n) /\ n < Len(o.steps)
  BY OperationShape, ViewUpto DEF Reached
<1>3. n + 1 \in 1..Len(o.steps)
  BY <1>2 DEF Shape
<1>4. s # "insertRun"
  BY <1>2, <1>3 DEF Shape, PageWrites, Checks
<1>5. CASE s \in {"link", "insertCategory", "dropCategory"}
  BY <1>1, <1>3, <1>5, Guarded
<1>6. CASE s = "insertChannel"
  <2>1. n = 1 /\ o.steps[1] = "checkChannel"
    BY <1>1, <1>3, <1>6, Guarded
  <2>2. ~disk.channel
    <3>1. 1 \in 1..n
      BY <2>1
    <3> QED BY <2>1, <3>1 DEF Reached, Found, Passes, Checks
  <2>3. Upto(disk, o, n) = disk
    BY <2>1 DEF Upto, After, Checks
  <2> QED BY <1>2, <1>6, <2>2, <2>3 DEF Refuses
<1>7. CASE s = "insertDefault"
  <2>1. /\ n = 2
        /\ \/ o.steps[2] = "insertChannel"
           \/ o.steps[1] = "checkFound" /\ o.steps[2] = "dropDefaults"
    BY <1>1, <1>3, <1>7, Guarded
  <2> DEFINE e == After(disk, o, 1)
  <2>2. Upto(disk, o, n) = After(e, o, 2)
    BY <2>1 DEF Upto
  <2>3. CASE o.steps[2] = "insertChannel"
    <3>1. 2 \in 1..Len(o.steps)
      BY <1>2 DEF Shape
    <3>2. o.steps[1] = "checkChannel"
      BY <1>1, <2>3, <3>1, Guarded
    <3>3. e = disk
      BY <3>2 DEF After, Checks
    <3>4. Does(disk, "insertChannel", o.on).channel
      BY DEF Does, TypeOK, Database
    <3>5. After(disk, o, 2) = Does(disk, "insertChannel", o.on)
      BY <2>3 DEF After, Checks
    <3> QED BY <1>2, <1>7, <2>2, <3>3, <3>4, <3>5 DEF Refuses
  <2>4. CASE o.steps[1] = "checkFound" /\ o.steps[2] = "dropDefaults"
    <3>1. disk.channel
      <4>1. 1 \in 1..n
        BY <2>1
      <4> QED BY <2>4, <4>1 DEF Reached, Found, Passes, Checks
    <3>2. e = disk
      BY <2>4 DEF After, Checks
    <3>3. Does(disk, "dropDefaults", o.on).channel
      BY <3>1 DEF Does, TypeOK, Database
    <3>4. After(disk, o, 2) = Does(disk, "dropDefaults", o.on)
      BY <2>4 DEF After, Checks
    <3> QED BY <1>2, <1>7, <2>2, <3>2, <3>3, <3>4 DEF Refuses
  <2> QED BY <2>1, <2>3, <2>4
<1> QED BY <1>2, <1>4, <1>5, <1>6, <1>7 DEF Refuses

\* Every step keeps the types and the references between rows.
LEMMA TypeStep == ASSUME IInv, [Next]_vars PROVE TypeOK'
<1> USE DEF IInv, TypeOK
<1>1. CASE UNCHANGED vars
  BY <1>1 DEF vars
<1>2. CASE \E s \in Scripts : Draw(s)
  <2>1. /\ disk' = disk /\ draft' = draft /\ writer' = writer /\ begun' = begun
        /\ doing' = doing /\ pinned' = begun["app"]
    BY <1>2 DEF Draw
  <2>2. pinned' \in BOOLEAN
    BY <2>1 DEF Connections
  <2> QED BY <2>1, <2>2
<1>3. CASE Restart
  <2>1. begun' \in [Connections -> BOOLEAN] /\ pinned' \in BOOLEAN
    BY <1>3, Zenon DEF Restart
  <2> QED BY <1>3, <2>1 DEF Restart, Idle
<1>4. ASSUME NEW a \in Actors, Moves(a) PROVE TypeOK'
  <2>1. Conn(a) \in Connections
    BY DEF Conn, Connections
  <2>2. \A b \in Actors : doing'[b].undoes \subseteq Failures
    <3>1. /\ Partway(a)'
          /\ \A b \in Actors \ {a} : doing'[b] = doing[b]
      BY <1>4, PartwayStep
    <3>2. doing'[a].undoes \subseteq Failures
      <4>1. CASE doing'[a] = Idle
        BY <4>1 DEF Idle
      <4>2. ASSUME NEW o \in Operations(a), NEW n \in 0..3,
                   doing'[a] = Rest(o, n)
            PROVE  doing'[a].undoes \subseteq Failures
        <5>1. Shape(a, o)
          BY OperationShape
        <5> QED BY <4>2, <5>1 DEF Rest, Shape
      <4> QED BY <3>1, <4>1, <4>2 DEF Partway
    <3> QED BY <3>1, <3>2
  <2>3. View(Conn(a)) \in Database /\ References(View(Conn(a)))
    BY DEF View
  <2>4. ASSUME NEW d, Close(Conn(a), d), d \in Database, References(d)
        PROVE  TypeOK'
    <3>1. /\ disk' = d
          /\ draft' = IF writer \in {Conn(a), "none"} THEN d ELSE draft
          /\ writer' = IF writer = Conn(a) THEN "none" ELSE writer
      BY <2>4, Zenon DEF Close
    <3>2. begun' \in [Connections -> BOOLEAN]
      BY <2>4 DEF Close
    <3>3. pinned' \in BOOLEAN
      BY <2>4, Zenon DEF Close
    <3> QED BY <2>2, <2>4, <3>1, <3>2, <3>3
  <2>5. ASSUME NEW failure, Fails(a, failure) PROVE TypeOK'
    <3>1. CASE failure \in doing[a].undoes \/ a = Worker
      BY <2>4, <2>5, <3>1 DEF Fails, Rollback
    <3>2. CASE ~(failure \in doing[a].undoes \/ a = Worker)
      BY <2>1, <2>2, <2>5, <3>2 DEF Fails
    <3> QED BY <3>1, <3>2
  <2>6. CASE \E o \in Operations(a) : Begin(a, o)
    BY <2>2, <2>6 DEF Begin
  <2>7. CASE Check(a)
    <3>1. pinned' \in BOOLEAN
      BY <2>7, Zenon DEF Check
    <3> QED BY <2>2, <2>7, <3>1 DEF Check
  <2>8. CASE Write(a)
    <3>1. CASE Fails(a, "refused")
      BY <2>5, <3>1
    <3>2. CASE ~Fails(a, "refused")
      <4> DEFINE d == View(Conn(a))  e == Does(d, Step(a), doing[a].on)
      <4>1. /\ Running(a) /\ Step(a) \notin Checks \union {"commit"}
            /\ ~Refuses(d, Step(a), doing[a].on)
            /\ draft' = e /\ writer' = Conn(a)
            /\ begun' = [begun EXCEPT ![Conn(a)] = TRUE]
            /\ disk' = disk /\ pinned' = pinned
        BY <2>8, <3>2 DEF Write, IsWrite
      <4>2. PICK o \in Operations(a), n \in 0..3 :
               n < Len(o.steps) /\ doing[a] = Rest(o, n)
        BY <4>1 DEF Partway, Running
      <4>3. Step(a) = o.steps[n + 1] /\ doing[a].on = o.on
        BY <4>2, NextOfRest DEF Step, Rest
      <4>4. Shape(a, o) /\ n + 1 \in 1..Len(o.steps)
        <5>1. Shape(a, o)
          BY OperationShape
        <5> QED BY <4>2, <5>1 DEF Shape
      <4>5. Step(a) \in WorkerWrites \union PageWrites
        BY <4>1, <4>3, <4>4 DEF Shape
      <4>6. a # Worker => Step(a) \notin {"insertRun", "insertAnswers", "tag"}
        BY <4>3, <4>4 DEF Shape, PageWrites, Checks
      <4>7. a = Worker => doing[a].on \in Results
        BY <4>3, <4>4 DEF Shape
      <4>8. ASSUME Step(a) \in {"insertAnswers", "tag"}
            PROVE  doing[a].on \in d.saved
        <5>1. a = Worker
          BY <4>6, <4>8
        <5>2. PICK p \in Operations(a), m \in 0..3 : Reached(a, p, m)
          BY <4>1, <5>1 DEF Progress, Running
        <5>3. d = Upto(disk, p, m) /\ Shape(a, p)
          BY <5>2, ViewUpto, OperationShape
        <5>4. m < Len(p.steps) /\ doing[a] = Rest(p, m)
          BY <5>2 DEF Reached
        <5>5. Step(a) = p.steps[m + 1] /\ doing[a].on = p.on
          BY <5>4, NextOfRest DEF Step, Rest
        <5>6. m + 1 < Len(p.steps) /\ p \in WorkerOperations
          BY <4>8, <5>1, <5>3, <5>4, <5>5 DEF Shape, Operations
        <5> QED BY <4>8, <5>3, <5>5, <5>6, SavesInOrder
      <4>9. e \in Database /\ References(e)
        <5> HIDE DEF d
        <5> QED BY <2>3, <4>1, <4>5, <4>6, <4>7, <4>8, DoesTypes DEF d
      <4> HIDE DEF e
      <4> QED BY <2>1, <2>2, <4>1, <4>9
    <3> QED BY <3>1, <3>2
  <2>9. CASE TimeOut(a)
    BY <2>5, <2>9 DEF TimeOut
  <2>10. CASE Commit(a)
    BY <2>3, <2>4, <2>10 DEF Commit
  <2> QED BY <1>4, <2>6, <2>7, <2>8, <2>9, <2>10 DEF Moves
<1> QED BY <1>1, <1>2, <1>3, <1>4 DEF Next, Moves

\* Nobody is in an operation at first.
LEMMA InitIInv == Init => IInv /\ \A a \in Actors : Progress(a)
<1> SUFFICES ASSUME Init PROVE IInv /\ \A a \in Actors : Progress(a)
  OBVIOUS
<1>1. disk \in Database /\ References(disk)
  BY DEF Init, Promises!Empty, Database, References
<1>2. begun \in [Connections -> BOOLEAN] /\ pinned \in BOOLEAN
  BY Zenon DEF Init
<1>3. TypeOK
  BY <1>1, <1>2 DEF Init, TypeOK, Idle
<1>4. \A a \in Actors : doing[a] = Idle /\ writer # Conn(a)
  BY DEF Init, Conn
<1> QED BY <1>3, <1>4 DEF IInv, Init, Partway, Progress, Actors

\* What an actor's invariant is about.
LEMMA ProgressUnchanged ==
  ASSUME NEW a \in Actors, Progress(a), disk' = disk, draft' = draft,
         writer' = writer, doing' = doing
  PROVE  Progress(a)'
BY DEF Progress, Reached

\* Every step keeps the invariant for any number of scripts.
LEMMA IInvStep == ASSUME IInv, [Next]_vars PROVE IInv'
<1> USE DEF IInv
<1>1. TypeOK'
  BY TypeStep
<1>2. Worker \in Actors
  BY DEF Actors
<1>3. ASSUME NEW a \in Actors, Moves(a) PROVE IInv'
  <2>1. /\ DOMAIN doing' = Actors /\ Partway(a)'
        /\ \A b \in Actors \ {a} : doing'[b] = doing[b]
    BY <1>3, PartwayStep
  <2>2. \A b \in Actors : Partway(b)'
    BY <2>1 DEF Partway
  <2>3. CASE a = Worker
    BY <1>1, <1>2, <1>3, <2>1, <2>2, <2>3, OwnStep, NoLeaks DEF TypeOK
  <2>4. CASE a # Worker
    BY <1>1, <1>2, <1>3, <2>1, <2>2, <2>4, OtherStep DEF Conn
  <2> QED BY <2>3, <2>4
<1>4. CASE UNCHANGED vars \/ \E s \in Scripts : Draw(s)
  <2>1. disk' = disk /\ draft' = draft /\ writer' = writer /\ doing' = doing
    BY <1>4 DEF vars, Draw
  <2> QED BY <1>1, <1>2, <2>1, ProgressUnchanged DEF Partway
<1>5. CASE Restart
  <2>1. DOMAIN doing' = Actors /\ writer' = "none"
        /\ \A a \in Actors : doing'[a] = Idle
    BY <1>5 DEF Restart
  <2> QED BY <1>1, <1>2, <2>1 DEF Partway, Progress, Conn
<1> QED BY <1>3, <1>4, <1>5 DEF Next, Moves

\* The inductive invariant for any number of scripts.
THEOREM Inductive == Spec => []IInv
BY InitIInv, IInvStep, PTL DEF Spec

\* The invariant TypeOK: whatever the scripts and the worker do to each other,
\* no row refers to one that is not there, committed or not (store._SCHEMA).
THEOREM ConnectionTypeOK == Spec => []TypeOK
<1>1. IInv => TypeOK
  BY DEF IInv
<1> QED BY <1>1, Inductive, PTL

-----------------------------------------------------------------------------
(* One script and the worker. *)

\* With one script, every step leaves each operation where its steps so far
\* have brought it.
LEMMA ProgressStep ==
  ASSUME OneScript, IInv, \A a \in Actors : Progress(a), [Next]_vars
  PROVE  (\A a \in Actors : Progress(a))'
<1> SUFFICES ASSUME NEW b \in Actors PROVE Progress(b)'
  OBVIOUS
<1> USE DEF IInv
<1>1. ASSUME NEW a \in Actors, Moves(a) PROVE Progress(b)'
  <2>1. CASE a = b
    BY <1>1, <2>1, OwnStep, NoLeaks DEF TypeOK
  <2>2. CASE a # b
    <3>1. Conn(a) # Conn(b)
      BY <2>2 DEF OneScript, Actors, Conn
    <3>2. doing'[b] = doing[b]
      BY <1>1, <2>2, PartwayStep
    <3> QED BY <1>1, <3>1, <3>2, OtherStep
  <2> QED BY <2>1, <2>2
<1>2. CASE UNCHANGED vars \/ \E s \in Scripts : Draw(s)
  <2>1. disk' = disk /\ draft' = draft /\ writer' = writer /\ doing' = doing
    BY <1>2 DEF vars, Draw
  <2> QED BY <2>1, ProgressUnchanged
<1>3. CASE Restart
  <2>1. writer' = "none" /\ doing'[b] = Idle
    BY <1>3 DEF Restart
  <2> QED BY <2>1 DEF Progress, Conn
<1> QED BY <1>1, <1>2, <1>3 DEF Next, Moves

\* The inductive invariant for one script.
THEOREM InductiveForOne ==
  ASSUME OneScript PROVE Spec => [](IInv /\ \A a \in Actors : Progress(a))
<1>1. Init => IInv /\ \A a \in Actors : Progress(a)
  BY InitIInv
<1>2. /\ IInv /\ \A a \in Actors : Progress(a)
      /\ [Next]_vars
      => (IInv /\ \A a \in Actors : Progress(a))'
  BY IInvStep, ProgressStep
<1> QED BY <1>1, <1>2, PTL DEF Spec

\* The invariant RestsUnlocked: whatever an operation was refused or waited
\* for, the page's connection does not keep the write lock after it
\* (categories._refused_as).
THEOREM ConnectionRestsUnlocked == ASSUME OneScript PROVE Spec => []RestsUnlocked
<1>1. IInv /\ (\A a \in Actors : Progress(a)) => RestsUnlocked
  <2> SUFFICES ASSUME IInv, \A a \in Actors : Progress(a), writer = "app"
               PROVE  \E s \in Scripts : Running(s)
    BY DEF RestsUnlocked
  <2>1. PICK s \in Scripts : Conn(s) = "app"
    BY ActorsAssumption DEF OneScript, Conn
  <2>2. Progress(s)
    BY DEF Actors
  <2>3. PICK o \in Operations(s), n \in 0..3 : Reached(s, o, n)
    BY <2>1, <2>2 DEF Progress
  <2>4. doing[s] # Idle
    BY <2>3, NextOfRest DEF Reached, Actors
  <2> QED BY <2>4 DEF Running
<1> QED BY <1>1, InductiveForOne, PTL

-----------------------------------------------------------------------------
(* The refinement. *)

\* Contents are the same if they agree everywhere.
LEMMA SameContents ==
  ASSUME NEW d \in Database, NEW e \in Database,
         d.saved = e.saved, d.answered = e.answered, d.linked = e.linked,
         d.tagged = e.tagged, d.category = e.category, d.channel = e.channel,
         d.default = e.default, d.question = e.question,
         d.autoSave = e.autoSave
  PROVE  d = e
BY DEF Database

\* What a new result adds to contents d.
LEMMA SaveRunContents ==
  ASSUME NEW d \in Database, NEW r \in Results, NEW x,
         x = [d EXCEPT !.saved = @ \union {r}, !.answered = @ \union {r},
                       !.tagged = IF d.category THEN @ \union {r} ELSE @]
  PROVE  /\ x \in Database /\ x.saved = d.saved \union {r}
         /\ x.answered = d.answered \union {r}
         /\ x.tagged = IF d.category THEN d.tagged \union {r} ELSE d.tagged
         /\ x.linked = d.linked /\ x.category = d.category
         /\ x.channel = d.channel /\ x.default = d.default
         /\ x.question = d.question /\ x.autoSave = d.autoSave
<1>1. x \in Database
  BY DEF Database
<1>2. x.saved = d.saved \union {r} /\ x.answered = d.answered \union {r}
  BY DEF Database
<1>3. x.tagged = IF d.category THEN d.tagged \union {r} ELSE d.tagged
  BY DEF Database
<1>4. /\ x.linked = d.linked /\ x.category = d.category
      /\ x.channel = d.channel /\ x.default = d.default
      /\ x.question = d.question /\ x.autoSave = d.autoSave
  BY DEF Database
<1> QED BY <1>1, <1>2, <1>3, <1>4

\* All steps of save_run together.
LEMMA SaveRunWhole ==
  ASSUME NEW r \in Results, disk \in Database,
         Found(disk, SaveRun(r), 3), disk' = Upto(disk, SaveRun(r), 3)
  PROVE  Promises!SaveRun(r)
<1> DEFINE o == SaveRun(r)
           d1 == Does(disk, "insertRun", r)
           d2 == Does(d1, "insertAnswers", r)
           d3 == Does(d2, "tag", r)
           e == [disk EXCEPT !.saved = @ \union {r},
                             !.answered = @ \union {r},
                             !.tagged = IF disk.category THEN @ \union {r} ELSE @]
<1>1. /\ o.steps[1] = "insertRun" /\ o.steps[2] = "insertAnswers"
      /\ o.steps[3] = "tag" /\ o.on = r
  BY DEF SaveRun
<1>2. disk' = d3
  BY <1>1 DEF Upto, After, Checks
<1>3. r \notin disk.saved
  <2>1. ~Refuses(Upto(disk, o, 1 - 1), o.steps[1], o.on) /\ 1 - 1 = 0
    BY DEF Found
  <2> QED BY <1>1, <2>1 DEF Upto, Refuses
<1>4. /\ d1 \in Database /\ d1.saved = disk.saved \union {r}
      /\ d1.answered = disk.answered /\ d1.linked = disk.linked
      /\ d1.tagged = disk.tagged /\ d1.category = disk.category
      /\ d1.channel = disk.channel /\ d1.default = disk.default
      /\ d1.question = disk.question /\ d1.autoSave = disk.autoSave
  BY DEF Does, Database
<1> HIDE DEF d1
<1>5. /\ d2 \in Database /\ d2.saved = d1.saved
      /\ d2.answered = d1.answered \union {r} /\ d2.linked = d1.linked
      /\ d2.tagged = d1.tagged /\ d2.category = d1.category
      /\ d2.channel = d1.channel /\ d2.default = d1.default
      /\ d2.question = d1.question /\ d2.autoSave = d1.autoSave
  BY <1>4 DEF Does, Database
<1> HIDE DEF d2
<1>6. /\ d3 \in Database /\ d3.saved = d2.saved
      /\ d3.answered = d2.answered /\ d3.linked = d2.linked
      /\ d3.tagged = IF d2.category THEN d2.tagged \union {r} ELSE d2.tagged
      /\ d3.category = d2.category
      /\ d3.channel = d2.channel /\ d3.default = d2.default
      /\ d3.question = d2.question /\ d3.autoSave = d2.autoSave
  BY <1>5 DEF Does, Database
<1> HIDE DEF d3
<1>7. /\ d3.saved = disk.saved \union {r}
      /\ d3.answered = disk.answered \union {r}
      /\ d3.tagged = IF disk.category THEN disk.tagged \union {r}
                     ELSE disk.tagged
      /\ d3.linked = disk.linked /\ d3.category = disk.category
      /\ d3.channel = disk.channel /\ d3.default = disk.default
      /\ d3.question = disk.question /\ d3.autoSave = disk.autoSave
  BY <1>4, <1>5, <1>6
<1>8. ASSUME NEW x, x = e PROVE d3 = x
  <2>1. ASSUME NEW d, d = disk
        PROVE  x = [d EXCEPT !.saved = @ \union {r},
                             !.answered = @ \union {r},
                             !.tagged = IF d.category THEN @ \union {r} ELSE @]
    BY <1>8, <2>1, Zenon
  <2>2. /\ x \in Database /\ x.saved = disk.saved \union {r}
        /\ x.answered = disk.answered \union {r}
        /\ x.tagged = IF disk.category THEN disk.tagged \union {r}
                      ELSE disk.tagged
        /\ x.linked = disk.linked /\ x.category = disk.category
        /\ x.channel = disk.channel /\ x.default = disk.default
        /\ x.question = disk.question /\ x.autoSave = disk.autoSave
    <3> HIDE DEF e
    <3> QED BY <2>1, SaveRunContents
  <2> HIDE DEF e
  <2> QED BY <1>6, <1>7, <2>2, SameContents
<1> QED BY <1>2, <1>3, <1>8 DEF Promises!SaveRun

\* All statements of mark_exported together.
LEMMA MarkExportedWhole ==
  ASSUME NEW d \in Database, NEW r \in Results
  PROVE  Does(Does(d, "link", r), "dropAnswers", r)
         = [d EXCEPT !.linked = @ \union {r}, !.answered = @ \ {r}]
<1>1. ASSUME NEW e, e = Does(d, "link", r)
      PROVE  e \in Database /\ e = [d EXCEPT !.linked = @ \union {r}]
  BY <1>1 DEF Does, Database
<1>2. ASSUME NEW e, e = [d EXCEPT !.linked = @ \union {r}], e \in Database
      PROVE  Does(e, "dropAnswers", r)
             = [d EXCEPT !.linked = @ \union {r}, !.answered = @ \ {r}]
  <2>1. Does(e, "dropAnswers", r) = [e EXCEPT !.answered = @ \ {r}]
    BY DEF Does
  <2>2. [e EXCEPT !.answered = @ \ {r}]
        = [d EXCEPT !.linked = @ \union {r}, !.answered = @ \ {r}]
    BY <1>2 DEF Database
  <2> QED BY <2>1, <2>2
<1> QED BY <1>1, <1>2

\* All statements of the synchronisation together.
LEMMA ApplyPlanWhole ==
  ASSUME NEW d \in Database, References(d), NEW r \in Results
  PROVE  Does(Does(Does(d, "ensureCategory", r), "untag", r), "retag", r)
         = [d EXCEPT !.category = TRUE,
                     !.tagged = IF r \in d.linked THEN @ \union {r} ELSE @]
<1>1. ASSUME NEW e, e = Does(d, "ensureCategory", r)
      PROVE  e \in Database /\ e = [d EXCEPT !.category = TRUE]
  BY <1>1 DEF Does, Database
<1>2. ASSUME NEW e, e = [d EXCEPT !.category = TRUE], e \in Database
      PROVE  Does(Does(e, "untag", r), "retag", r)
             = [d EXCEPT !.category = TRUE,
                         !.tagged = IF r \in d.linked THEN @ \union {r} ELSE @]
  <2>1. e.linked = d.linked /\ e.category = TRUE /\ e.tagged = d.tagged
    BY <1>2 DEF Database
  <2>2. CASE r \in d.linked
    <3>1. Does(e, "untag", r) = [e EXCEPT !.tagged = @ \ {r}]
      BY <2>1, <2>2 DEF Does
    <3>2. ASSUME NEW f, f = [e EXCEPT !.tagged = @ \ {r}]
          PROVE  Does(f, "retag", r) = [f EXCEPT !.tagged = @ \union {r}]
      BY <1>2, <2>1, <2>2, <3>2 DEF Does, Database
    <3>3. ASSUME NEW f, f = [e EXCEPT !.tagged = @ \ {r}]
          PROVE  [f EXCEPT !.tagged = @ \union {r}]
                 = [d EXCEPT !.category = TRUE, !.tagged = @ \union {r}]
      BY <1>2, <2>1, <3>3 DEF Database
    <3> QED BY <2>2, <3>1, <3>2, <3>3
  <2>3. CASE r \notin d.linked
    <3>1. Does(e, "untag", r) = e /\ Does(e, "retag", r) = e
      BY <2>1, <2>3 DEF Does
    <3>2. e = [d EXCEPT !.category = TRUE, !.tagged = @]
      BY <1>2 DEF Database
    <3> QED BY <2>3, <3>1, <3>2
  <2> QED BY <2>2, <2>3
<1> QED BY <1>1, <1>2

\* The statements on channels together.
LEMMA ChannelWhole ==
  ASSUME NEW d \in Database, References(d), NEW r
  PROVE  /\ ~d.channel => Does(Does(d, "insertChannel", r), "insertDefault", r)
              = [d EXCEPT !.channel = TRUE, !.default = d.category]
         /\ ~d.channel => Does(d, "insertChannel", r)
              = [d EXCEPT !.channel = TRUE, !.default = FALSE]
         /\ Does(Does(d, "dropDefaults", r), "insertDefault", r)
              = [d EXCEPT !.default = d.category]
<1> USE DEF Database, References
<1>1. ASSUME NEW e, e = Does(d, "insertChannel", r), ~d.channel
      PROVE  e = [d EXCEPT !.channel = TRUE, !.default = FALSE]
  BY <1>1 DEF Does
<1>2. ASSUME NEW e, e = [d EXCEPT !.channel = TRUE, !.default = FALSE]
      PROVE  Does(e, "insertDefault", r)
             = [d EXCEPT !.channel = TRUE, !.default = d.category]
  <2>1. Does(e, "insertDefault", r) = [e EXCEPT !.default = @ \/ e.category]
    BY DEF Does
  <2>2. e.default = FALSE /\ e.category = d.category
    BY <1>2
  <2> QED BY <1>2, <2>1, <2>2
<1>3. ASSUME NEW e, e = Does(d, "dropDefaults", r)
      PROVE  e = [d EXCEPT !.default = FALSE]
  BY <1>3 DEF Does
<1>4. ASSUME NEW e, e = [d EXCEPT !.default = FALSE]
      PROVE  Does(e, "insertDefault", r) = [d EXCEPT !.default = d.category]
  <2>1. Does(e, "insertDefault", r) = [e EXCEPT !.default = @ \/ e.category]
    BY DEF Does
  <2>2. e.default = FALSE /\ e.category = d.category
    BY <1>4
  <2> QED BY <1>4, <2>1, <2>2
<1> QED BY <1>1, <1>2, <1>3, <1>4

\* All steps of an operation together are what AtomicWrites promises of it, or
\* change nothing.
LEMMA Whole ==
  ASSUME TypeOK, NEW a \in Actors, NEW o \in Operations(a),
         Found(disk, o, Len(o.steps) - 1), disk' = Upto(disk, o, Len(o.steps) - 1)
  PROVE  [Promises!Next]_disk
<1> DEFINE n == Len(o.steps) - 1
<1> USE DEF Promises!Next
<1>1. disk \in Database /\ References(disk)
  BY DEF TypeOK
<1>2. ASSUME NEW i \in 1..n, NEW j, j = i - 1
      PROVE  /\ ~Refuses(Upto(disk, o, j), o.steps[i], o.on)
             /\ o.steps[i] \in Checks \ {"checkUnused"} =>
                  Passes(disk, o.steps[i])
  BY <1>2 DEF Found
<1>3. n \in 1..3
  <2>1. Shape(a, o)
    BY OperationShape
  <2> QED BY <2>1 DEF Shape
<1> HIDE DEF n
<1>4. ~Refuses(disk, o.steps[1], o.on)
  <2>1. 1 \in 1..n /\ 0 = 1 - 1
    BY <1>3
  <2>2. ~Refuses(Upto(disk, o, 0), o.steps[1], o.on)
    BY <1>2, <2>1
  <2> QED BY <2>2 DEF Upto
<1>5. o.steps[1] \in Checks \ {"checkUnused"} => Passes(disk, o.steps[1])
  <2>1. 1 \in 1..n /\ 0 = 1 - 1
    BY <1>3
  <2> QED BY <1>2, <2>1
<1>6. ASSUME n = 2, o.steps[1] \in Checks
      PROVE  ~Refuses(disk, o.steps[2], o.on)
  <2>1. 2 \in 1..n /\ 1 = 2 - 1
    BY <1>6
  <2>2. ~Refuses(Upto(disk, o, 1), o.steps[2], o.on)
    BY <1>2, <2>1
  <2>3. Upto(disk, o, 1) = disk
    BY <1>6 DEF Upto, After
  <2> QED BY <2>2, <2>3
<1>7. disk' = Upto(disk, o, n)
  BY DEF n
<1>8. ASSUME NEW r \in Results, o = SaveRun(r) PROVE Promises!Next
  <2>1. Len(o.steps) - 1 = 3
    BY <1>8 DEF SaveRun
  <2>2. Promises!SaveRun(r)
    BY <1>1, <1>8, <2>1, SaveRunWhole
  <2> QED BY <2>2
<1>9. ASSUME NEW r \in Results, o = MarkExported(r) PROVE Promises!Next
  <2>1. /\ n = 2 /\ o.steps[1] = "link" /\ o.steps[2] = "dropAnswers"
        /\ o.on = r
    BY <1>9 DEF MarkExported, n
  <2>2. disk' = Does(Does(disk, "link", r), "dropAnswers", r)
    BY <1>7, <2>1 DEF Upto, After, Checks
  <2>3. r \in disk.saved \ disk.linked
    BY <1>4, <2>1 DEF Refuses
  <2>4. Promises!MarkExported(r)
    BY <1>1, <2>2, <2>3, MarkExportedWhole DEF Promises!MarkExported
  <2> QED BY <2>4
<1>10. ASSUME NEW r \in Results, o = DeleteRun(r) PROVE Promises!Next
  <2>1. n = 1 /\ o.steps[1] = "deleteRun" /\ o.on = r
    BY <1>10 DEF DeleteRun, n
  <2>2. disk' = Does(disk, "deleteRun", r)
    BY <1>7, <2>1 DEF Upto, After, Checks
  <2>3. Promises!DeleteRun(r)
    BY <2>2 DEF Promises!DeleteRun, Does
  <2> QED BY <2>3
<1>11. ASSUME NEW r \in Results, o = ApplyPlan(r) PROVE Promises!Next
  <2>1. /\ n = 3 /\ o.steps[1] = "ensureCategory" /\ o.steps[2] = "untag"
        /\ o.steps[3] = "retag" /\ o.on = r
    BY <1>11 DEF ApplyPlan, n
  <2>2. disk' = Does(Does(Does(disk, "ensureCategory", r), "untag", r), "retag", r)
    BY <1>7, <2>1 DEF Upto, After, Checks
  <2>3. Promises!ApplyPlan(r)
    BY <1>1, <2>2, ApplyPlanWhole DEF Promises!ApplyPlan
  <2> QED BY <2>3
<1>12. ASSUME o = AddCategory PROVE Promises!Next
  <2>1. n = 2 /\ o.steps[1] = "checkName" /\ o.steps[2] = "insertCategory"
    BY <1>12 DEF AddCategory, n
  <2>2. disk' = Does(disk, "insertCategory", o.on) /\ ~disk.category
    BY <1>5, <1>7, <2>1 DEF Upto, After, Checks, Passes
  <2>3. Promises!AddCategory
    BY <2>2 DEF Promises!AddCategory, Does
  <2> QED BY <2>3
<1>13. ASSUME o = DeleteCategory PROVE [Promises!Next]_disk
  <2>1. n = 2 /\ o.steps[1] = "checkUnused" /\ o.steps[2] = "dropCategory"
    BY <1>13 DEF DeleteCategory, n
  <2>2. disk' = Does(disk, "dropCategory", o.on)
    BY <1>7, <2>1 DEF Upto, After, Checks
  <2>3. disk.tagged = {}
    BY <1>6, <2>1 DEF Checks, Refuses
  <2>4. CASE disk.category
    <3>1. Promises!DeleteCategory
      BY <2>2, <2>3, <2>4 DEF Promises!DeleteCategory, Does
    <3> QED BY <3>1
  <2>5. CASE ~disk.category
    <3>1. ASSUME NEW d \in Database, References(d), ~d.category
          PROVE  Does(d, "dropCategory", o.on) = d
      BY <3>1 DEF Does, Database, References
    <3> QED BY <1>1, <2>2, <2>5, <3>1
  <2> QED BY <2>4, <2>5
<1>14. ASSUME o = DeleteChannel PROVE Promises!Next
  <2>1. n = 1 /\ o.steps[1] = "dropChannel"
    BY <1>14 DEF DeleteChannel, n
  <2>2. disk' = Does(disk, "dropChannel", o.on)
    BY <1>7, <2>1 DEF Upto, After, Checks
  <2>3. Promises!DeleteChannel
    BY <2>2 DEF Promises!DeleteChannel, Does
  <2> QED BY <2>3
<1>15. ASSUME o = AddQuestion PROVE Promises!Next
  <2>1. n = 2 /\ o.steps[1] = "checkTitle" /\ o.steps[2] = "insertQuestion"
    BY <1>15 DEF AddQuestion, n
  <2>2. disk' = Does(disk, "insertQuestion", o.on) /\ ~disk.question
    BY <1>5, <1>7, <2>1 DEF Upto, After, Checks, Passes
  <2>3. Promises!AddQuestion
    BY <2>2 DEF Promises!AddQuestion, Does
  <2> QED BY <2>3
<1>16. ASSUME o = DeleteQuestion PROVE Promises!Next
  <2>1. n = 1 /\ o.steps[1] = "dropQuestion"
    BY <1>16 DEF DeleteQuestion, n
  <2>2. disk' = Does(disk, "dropQuestion", o.on)
    BY <1>7, <2>1 DEF Upto, After, Checks
  <2>3. Promises!DeleteQuestion
    BY <2>2 DEF Promises!DeleteQuestion, Does
  <2> QED BY <2>3
<1>17. ASSUME NEW b \in BOOLEAN, o = SetAutoSave(b) PROVE Promises!Next
  <2>1. /\ n = 1 /\ o.steps[1] = IF b THEN "turnOn" ELSE "turnOff"
    BY <1>17 DEF SetAutoSave, n
  <2>2. disk' = Does(disk, o.steps[1], o.on)
    BY <1>7, <2>1 DEF Upto, After, Checks
  <2>3. Promises!SetAutoSave(b)
    <3>1. CASE b = TRUE  BY <2>1, <2>2, <3>1 DEF Promises!SetAutoSave, Does
    <3>2. CASE b = FALSE  BY <2>1, <2>2, <3>2 DEF Promises!SetAutoSave, Does
    <3> QED BY <3>1, <3>2
  <2> QED BY <2>3
<1>18. ASSUME NEW b \in BOOLEAN, o = AddChannel(b) PROVE Promises!Next
  <2>1. o.steps[1] = "checkChannel" /\ o.steps[2] = "insertChannel"
    BY <1>18 DEF AddChannel
  <2>2. ~disk.channel
    BY <1>5, <2>1 DEF Checks, Passes
  <2>3. CASE b = TRUE
    <3>1. n = 3 /\ o.steps[3] = "insertDefault"
      BY <1>18, <2>3 DEF AddChannel, n
    <3>2. disk' = Does(Does(disk, "insertChannel", o.on), "insertDefault", o.on)
      BY <1>7, <2>1, <3>1 DEF Upto, After, Checks
    <3>3. disk' = [disk EXCEPT !.channel = TRUE, !.default = disk.category]
      BY <1>1, <2>2, <3>2, ChannelWhole
    <3>4. disk.category = (b /\ disk.category)
      BY <1>1, <2>3 DEF Database
    <3>5. Promises!AddChannel(b)
      BY <2>2, <3>3, <3>4, Zenon DEF Promises!AddChannel
    <3> QED BY <3>5
  <2>4. CASE b = FALSE
    <3>1. n = 2
      BY <1>18, <2>4 DEF AddChannel, n
    <3>2. disk' = Does(disk, "insertChannel", o.on)
      BY <1>7, <2>1, <3>1 DEF Upto, After, Checks
    <3>3. disk' = [disk EXCEPT !.channel = TRUE, !.default = FALSE]
      BY <1>1, <2>2, <3>2, ChannelWhole
    <3>4. FALSE = (b /\ disk.category)
      BY <2>4
    <3>5. Promises!AddChannel(b)
      BY <2>2, <3>3, <3>4, Zenon DEF Promises!AddChannel
    <3> QED BY <3>5
  <2> QED BY <2>3, <2>4
<1>19. ASSUME NEW b \in BOOLEAN, o = SetDefaults(b) PROVE Promises!Next
  <2>1. o.steps[1] = "checkFound" /\ o.steps[2] = "dropDefaults"
    BY <1>19 DEF SetDefaults
  <2>2. disk.channel
    BY <1>5, <2>1 DEF Checks, Passes
  <2>3. CASE b = TRUE
    <3>1. n = 3 /\ o.steps[3] = "insertDefault"
      BY <1>19, <2>3 DEF SetDefaults, n
    <3>2. disk' = Does(Does(disk, "dropDefaults", o.on), "insertDefault", o.on)
      BY <1>7, <2>1, <3>1 DEF Upto, After, Checks
    <3>3. disk' = [disk EXCEPT !.default = disk.category]
      BY <1>1, <3>2, ChannelWhole
    <3>4. disk.category = (b /\ disk.category)
      BY <1>1, <2>3 DEF Database
    <3>5. Promises!SetDefaults(b)
      BY <2>2, <3>3, <3>4, Zenon DEF Promises!SetDefaults
    <3> QED BY <3>5
  <2>4. CASE b = FALSE
    <3>1. n = 2
      BY <1>19, <2>4 DEF SetDefaults, n
    <3>2. disk' = [disk EXCEPT !.default = FALSE]
      <4>1. disk' = Does(disk, "dropDefaults", o.on)
        BY <1>7, <2>1, <3>1 DEF Upto, After, Checks
      <4> QED BY <4>1 DEF Does
    <3>3. FALSE = (b /\ disk.category)
      BY <2>4
    <3>4. Promises!SetDefaults(b)
      BY <2>2, <3>2, <3>3, Zenon DEF Promises!SetDefaults
    <3> QED BY <3>4
  <2> QED BY <2>3, <2>4
<1>20. CASE a = Worker
  BY <1>8, <1>9, <1>20 DEF Operations, WorkerOperations
<1>21. CASE a # Worker
  <2> HIDE DEF Promises!Next
  <2> QED BY <1>9, <1>10, <1>11, <1>12, <1>13, <1>14, <1>15, <1>16, <1>17,
             <1>18, <1>19, <1>21 DEF Operations, PageOperations
<1> QED BY <1>20, <1>21

\* What is committed changes at a commit only, and then by the whole operation.
LEMMA CommitsWhole ==
  ASSUME IInv, \A a \in Actors : Progress(a), [Next]_vars
  PROVE  [Promises!Next]_disk
<1>1. ASSUME NEW a \in Actors, Moves(a), ~Commit(a) PROVE disk' = disk
  <2>1. ASSUME NEW failure, Fails(a, failure) PROVE disk' = disk
    <3>1. CASE failure \in doing[a].undoes \/ a = Worker
      BY <2>1, <3>1, Zenon DEF Fails, Rollback, Close
    <3>2. CASE ~(failure \in doing[a].undoes \/ a = Worker)
      BY <2>1, <3>2 DEF Fails
    <3> QED BY <3>1, <3>2
  <2> QED BY <1>1, <2>1 DEF Moves, Begin, Check, Write, TimeOut
<1>2. ASSUME NEW a \in Actors, Commit(a) PROVE [Promises!Next]_disk
  <2>1. /\ Running(a) /\ Step(a) = "commit"
        /\ Close(Conn(a), View(Conn(a)))
    BY <1>2 DEF Commit
  <2>2. disk' = View(Conn(a))
    BY <2>1, Zenon DEF Close
  <2>3. PICK o \in Operations(a), n \in 0..3 : Reached(a, o, n)
    BY <2>1 DEF Progress, Running
  <2>4. View(Conn(a)) = Upto(disk, o, n) /\ Shape(a, o)
    BY <2>3, ViewUpto, OperationShape
  <2>5. Step(a) = o.steps[n + 1] /\ n < Len(o.steps)
    BY <2>3, NextOfRest DEF Reached, Step
  <2>6. n = Len(o.steps) - 1
    BY <2>1, <2>4, <2>5 DEF Shape
  <2>7. Found(disk, o, n)
    BY <2>3 DEF Reached
  <2> QED BY <2>2, <2>4, <2>6, <2>7, Whole DEF IInv
<1>3. CASE UNCHANGED vars \/ Restart \/ \E s \in Scripts : Draw(s)
  BY <1>3 DEF vars, Restart, Draw
<1> QED BY <1>1, <1>2, <1>3 DEF Next, Moves

\* The refinement WritesAreAtomic: statement by statement, with refusals, lock
\* timeouts and restarts, the services write as AtomicWrites says
\* (history_sync.apply, run_links.mark_exported).
THEOREM ConnectionRefines == ASSUME OneScript PROVE Spec => WritesAreAtomic
<1>1. Init => Promises!Init
  BY DEF Init, Promises!Init
<1>2. /\ IInv /\ \A a \in Actors : Progress(a)
      /\ [Next]_vars
      => [Promises!Next]_disk
  BY CommitsWhole
<1> QED BY <1>1, <1>2, InductiveForOne, PTL
           DEF Spec, WritesAreAtomic, Promises!Spec
===============================================================================
