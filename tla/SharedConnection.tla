--------------------------- MODULE SharedConnection ---------------------------
(***************************************************************************)
(* The SQLite database, statement by statement.  All page scripts share    *)
(* one connection (session.get_connection); the worker opens one of its    *)
(* own for each operation (run_steps.save_history, run_export._upload).    *)
(*                                                                         *)
(* Python's sqlite3 begins a transaction by itself before the first        *)
(* statement that writes, and only commit() or rollback() ends it: not an  *)
(* exception.  SQLite gives the write lock to one connection at a time.    *)
(* Another one waits five seconds and gives up; its transaction is then    *)
(* begun although it holds no lock, and the next SELECT in it takes the    *)
(* read lock and keeps it.                                                 *)
(*                                                                         *)
(* One script is one browser session.  Two run at once with two tabs, or   *)
(* when a page is loaded again while its script is in the middle of a      *)
(* call.                                                                   *)
(***************************************************************************)
EXTENDS Naturals, Sequences

CONSTANTS
  Results,   \* the row IDs of the table runs
  Scripts,   \* page scripts that run at the same time
  Worker     \* the worker thread

ASSUME ActorsAssumption == Worker \notin Scripts

VARIABLES
  disk,     \* what is committed
  draft,    \* what the holder of the write lock sees
  writer,   \* the connection that holds the write lock, or "none"
  begun,    \* whether a transaction is begun, by connection
  pinned,   \* whether the app's connection keeps the read lock
  doing     \* the operation each actor is in: what is left of it to do

vars == <<disk, draft, writer, begun, pinned, doing>>

Actors == Scripts \union {Worker}
Connections == {"app", "worker"}
Conn(a) == IF a = Worker THEN "worker" ELSE "app"

-----------------------------------------------------------------------------
(* The operations: their statements in order, and the failures after which *)
(* they roll back.  A check raises before anything is written.             *)

Idle == [steps |-> <<>>, undoes |-> {}, on |-> "nothing"]

Failures == {"refused", "timeout"}

SaveRun(r) ==
  [steps |-> <<"insertRun", "insertAnswers", "tag", "commit">>,
   undoes |-> {}, on |-> r]

MarkExported(r) ==
  [steps |-> <<"link", "dropAnswers", "commit">>, undoes |-> Failures, on |-> r]

DeleteRun(r) == [steps |-> <<"deleteRun", "commit">>, undoes |-> {}, on |-> r]

ApplyPlan(r) ==
  [steps |-> <<"ensureCategory", "untag", "retag", "commit">>,
   undoes |-> Failures, on |-> r]

AddCategory ==
  [steps |-> <<"checkName", "insertCategory", "commit">>,
   undoes |-> {"refused"}, on |-> "nothing"]

\* Bug: the refusal of the foreign key is not rolled back.
DeleteCategory_NotRolledBack ==
  [steps |-> <<"checkUnused", "dropCategory", "commit">>,
   undoes |-> {}, on |-> "nothing"]

DeleteCategory ==
  [steps |-> <<"checkUnused", "dropCategory", "commit">>,
   undoes |-> {"refused"}, on |-> "nothing"]

\* With the statement for the default category, if one is chosen.
AddChannel(chosen) ==
  [steps |-> IF chosen
             THEN <<"checkChannel", "insertChannel", "insertDefault", "commit">>
             ELSE <<"checkChannel", "insertChannel", "commit">>,
   undoes |-> {}, on |-> "nothing"]

SetDefaults(chosen) ==
  [steps |-> IF chosen
             THEN <<"checkFound", "dropDefaults", "insertDefault", "commit">>
             ELSE <<"checkFound", "dropDefaults", "commit">>,
   undoes |-> {}, on |-> "nothing"]

DeleteChannel ==
  [steps |-> <<"dropChannel", "commit">>, undoes |-> {}, on |-> "nothing"]

\* add_question, and update_question with this title.
AddQuestion ==
  [steps |-> <<"checkTitle", "insertQuestion", "commit">>,
   undoes |-> {}, on |-> "nothing"]

\* delete_question, and update_question with another title.
DeleteQuestion ==
  [steps |-> <<"dropQuestion", "commit">>, undoes |-> {}, on |-> "nothing"]

SetAutoSave(enabled) ==
  [steps |-> <<IF enabled THEN "turnOn" ELSE "turnOff", "commit">>,
   undoes |-> {}, on |-> "nothing"]

PageOperations ==
  {MarkExported(r) : r \in Results} \union {DeleteRun(r) : r \in Results}
  \union {ApplyPlan(r) : r \in Results}
  \union {AddCategory, DeleteCategory, DeleteChannel, AddQuestion,
          DeleteQuestion}
  \union UNION {{AddChannel(b), SetDefaults(b), SetAutoSave(b)} : b \in BOOLEAN}

WorkerOperations ==
  {SaveRun(r) : r \in Results} \union {MarkExported(r) : r \in Results}

Operations(a) == IF a = Worker THEN WorkerOperations ELSE PageOperations

-----------------------------------------------------------------------------
(* The statements. *)

Checks == {"checkName", "checkUnused", "checkChannel", "checkFound",
           "checkTitle"}

\* What a check finds out, for the operation to go on.
Passes(d, s) ==
  CASE s = "checkName"    -> ~d.category
    [] s = "checkUnused"  -> d.tagged = {}
    [] s = "checkChannel" -> ~d.channel
    [] s = "checkFound"   -> d.channel
    [] s = "checkTitle"   -> ~d.question

\* A write that fails: UNIQUE, a foreign key, or an UPDATE that finds no row, of
\* which the operation makes a failure.
Refuses(d, s, r) ==
  \/ s = "insertRun" /\ r \in d.saved
  \/ s = "link" /\ r \notin d.saved \ d.linked
  \/ s = "insertCategory" /\ d.category
  \/ s = "dropCategory" /\ d.tagged # {}
  \/ s = "insertChannel" /\ d.channel
  \/ s = "insertDefault" /\ d.category /\ ~d.channel

\* Bug: the foreign keys are not switched on.
Does_NoCascade(d, s, r) ==
  CASE s = "insertRun"      -> [d EXCEPT !.saved = @ \union {r}]
    [] s = "insertAnswers"  -> [d EXCEPT !.answered = @ \union {r}]
    [] s = "tag"            -> IF d.category
                               THEN [d EXCEPT !.tagged = @ \union {r}] ELSE d
    [] s = "deleteRun"      -> [d EXCEPT !.saved = @ \ {r}]
    [] s = "insertCategory" -> [d EXCEPT !.category = TRUE]
    [] OTHER                -> d

\* What a write does; the rows that refer to a deleted one go with it, and a
\* result is only tagged with a category that is there.
Does(d, s, r) ==
  CASE s = "insertRun"      -> [d EXCEPT !.saved = @ \union {r}]
    [] s = "insertAnswers"  -> [d EXCEPT !.answered = @ \union {r}]
    [] s = "tag"            -> IF d.category
                               THEN [d EXCEPT !.tagged = @ \union {r}] ELSE d
    [] s = "link"           -> [d EXCEPT !.linked = @ \union {r}]
    [] s = "dropAnswers"    -> [d EXCEPT !.answered = @ \ {r}]
    [] s = "deleteRun"      -> [d EXCEPT !.saved = @ \ {r},
                                         !.answered = @ \ {r},
                                         !.linked = @ \ {r},
                                         !.tagged = @ \ {r}]
    [] s = "ensureCategory" -> [d EXCEPT !.category = TRUE]
    [] s = "untag"          -> IF r \in d.linked
                               THEN [d EXCEPT !.tagged = @ \ {r}] ELSE d
    [] s = "retag"          -> IF r \in d.linked /\ d.category
                               THEN [d EXCEPT !.tagged = @ \union {r}] ELSE d
    [] s = "insertCategory" -> [d EXCEPT !.category = TRUE]
    [] s = "dropCategory"   -> [d EXCEPT !.category = FALSE, !.default = FALSE]
    [] s = "insertChannel"  -> [d EXCEPT !.channel = TRUE]
    [] s = "dropChannel"    -> [d EXCEPT !.channel = FALSE, !.default = FALSE]
    [] s = "insertDefault"  -> [d EXCEPT !.default = @ \/ d.category]
    [] s = "dropDefaults"   -> [d EXCEPT !.default = FALSE]
    [] s = "insertQuestion" -> [d EXCEPT !.question = TRUE]
    [] s = "dropQuestion"   -> [d EXCEPT !.question = FALSE]
    [] s = "turnOn"         -> [d EXCEPT !.autoSave = TRUE]
    [] s = "turnOff"        -> [d EXCEPT !.autoSave = FALSE]

-----------------------------------------------------------------------------
(* Connections. *)

\* What a connection reads.
View(c) == IF writer = c THEN draft ELSE disk

Promises == INSTANCE AtomicWrites WITH db <- disk

Init ==
  /\ disk = Promises!Empty
  /\ draft = disk
  /\ writer = "none"
  /\ begun = [c \in Connections |-> FALSE]
  /\ pinned = FALSE
  /\ doing = [a \in Actors |-> Idle]

Running(a) == doing[a] # Idle
Step(a) == Head(doing[a].steps)

GoOn(a) == doing' = [doing EXCEPT ![a].steps = Tail(@)]
Ends(a) == doing' = [doing EXCEPT ![a] = Idle]

\* The transaction of connection c is over, with contents d on the disk.
Close(c, d) ==
  /\ disk' = d
  /\ draft' = IF writer \in {c, "none"} THEN d ELSE draft
  /\ writer' = IF writer = c THEN "none" ELSE writer
  /\ begun' = [begun EXCEPT ![c] = FALSE]
  /\ pinned' = (pinned /\ c # "app")

Rollback(c) == Close(c, disk)

\* A statement of actor a has failed, and the exception leaves the operation.
\* The worker's connection is closed behind it, which rolls back too.
Fails(a, failure) ==
  /\ Ends(a)
  /\ IF failure \in doing[a].undoes \/ a = Worker
     THEN Rollback(Conn(a))
     ELSE /\ begun' = [begun EXCEPT ![Conn(a)] = TRUE]
          /\ writer' = IF failure = "refused" THEN Conn(a) ELSE writer
          /\ UNCHANGED <<disk, draft, pinned>>

-----------------------------------------------------------------------------
(* Steps. *)

\* A click, or the worker at the end of a run.
Begin(a, o) ==
  /\ ~Running(a)
  /\ doing' = [doing EXCEPT ![a] = o]
  /\ UNCHANGED <<disk, draft, writer, begun, pinned>>

\* A page is drawn: its SELECT keeps the read lock if a transaction was left
\* begun.
Draw(s) ==
  /\ ~Running(s)
  /\ pinned' = begun["app"]
  /\ UNCHANGED <<disk, draft, writer, begun, doing>>

Check(a) ==
  /\ Running(a) /\ Step(a) \in Checks
  /\ IF Passes(View(Conn(a)), Step(a)) THEN GoOn(a) ELSE Ends(a)
  /\ pinned' = (pinned \/ (begun["app"] /\ Conn(a) = "app"))
  /\ UNCHANGED <<disk, draft, writer, begun>>

IsWrite(a) == Running(a) /\ Step(a) \notin Checks \union {"commit"}

\* Bug: the connection commits every statement (isolation_level=None).
Write_AutoCommit(a) ==
  LET d == View(Conn(a)) IN
  /\ IsWrite(a)
  /\ writer \in {"none", Conn(a)}
  /\ IF Refuses(d, Step(a), doing[a].on)
     THEN Fails(a, "refused")
     ELSE /\ Close(Conn(a), Does(d, Step(a), doing[a].on))
          /\ GoOn(a)

\* A statement that writes: execute begins a transaction if there is none, and
\* takes the write lock.
Write(a) ==
  LET c == Conn(a) IN
  /\ IsWrite(a)
  /\ writer \in {"none", c}
  /\ IF Refuses(View(c), Step(a), doing[a].on)
     THEN Fails(a, "refused")
     ELSE /\ draft' = Does(View(c), Step(a), doing[a].on)
          /\ writer' = c
          /\ begun' = [begun EXCEPT ![c] = TRUE]
          /\ GoOn(a)
          /\ UNCHANGED <<disk, pinned>>

\* The lock is not given within five seconds.
TimeOut(a) ==
  /\ Running(a)
  /\ \/ IsWrite(a) /\ writer \notin {"none", Conn(a)}
     \/ Step(a) = "commit" /\ writer = "worker" /\ a = Worker /\ pinned
  /\ Fails(a, "timeout")

\* commit() writes what the connection holds by now, whoever wrote it; it
\* waits for a reader.
Commit(a) ==
  /\ Running(a) /\ Step(a) = "commit"
  /\ ~(a = Worker /\ pinned)
  /\ Close(Conn(a), View(Conn(a)))
  /\ Ends(a)

\* The process ends and starts again.
Restart ==
  /\ draft' = disk
  /\ writer' = "none"
  /\ begun' = [c \in Connections |-> FALSE]
  /\ pinned' = FALSE
  /\ doing' = [a \in Actors |-> Idle]
  /\ UNCHANGED disk

Next ==
  \/ \E a \in Actors : \/ \E o \in Operations(a) : Begin(a, o)
                       \/ Check(a) \/ Write(a) \/ TimeOut(a) \/ Commit(a)
  \/ \E s \in Scripts : Draw(s)
  \/ Restart

Spec == Init /\ [][Next]_vars

-----------------------------------------------------------------------------
(* Properties. *)

Database == [saved : SUBSET Results, answered : SUBSET Results,
             linked : SUBSET Results, tagged : SUBSET Results,
             category : BOOLEAN, channel : BOOLEAN, default : BOOLEAN,
             question : BOOLEAN, autoSave : BOOLEAN]

\* Rows refer to rows that are there: the foreign keys of store._SCHEMA.
References(d) ==
  /\ d.answered \union d.linked \union d.tagged \subseteq d.saved
  /\ d.tagged # {} => d.category
  /\ d.default => d.channel /\ d.category

TypeOK ==
  /\ disk \in Database /\ References(disk)
  /\ draft \in Database /\ References(draft)
  /\ writer \in Connections \union {"none"}
  /\ begun \in [Connections -> BOOLEAN]
  /\ pinned \in BOOLEAN
  /\ \A a \in Actors : doing[a].undoes \subseteq Failures

\* history_sync.apply and run_links.mark_exported: what is committed changes by
\* whole operations only, whatever fails on the way, and whatever was left
\* begun by an operation before.  With one script; two can commit and roll
\* back each other's statements.
WritesAreAtomic == Promises!Spec

\* categories._refused_as: the shared connection must not keep the write lock
\* when no script is in an operation, or the worker cannot save its answers.
\* With one script; channels.add_channel keeps it when a second script
\* registers the same channel.
RestsUnlocked == writer = "app" => \E s \in Scripts : Running(s)
=============================================================================
