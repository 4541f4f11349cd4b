------------------------------ MODULE Pipelines ------------------------------
(***************************************************************************)
(* What a run and a digest do in NotebookLM (services/nlm.py): each works  *)
(* in a temporary notebook of its own, puts its sources in, asks its       *)
(* questions, and deletes the notebook at the end.                         *)
(*                                                                         *)
(* The server goes on with the conversation of a notebook as long as       *)
(* nobody deletes it: what was asked before colours the next answer.  A    *)
(* question that ends in a ChatError leaves no conversation; so            *)
(* nlm._ask_one assumes.                                                   *)
(***************************************************************************)
EXTENDS NotebookUse, Sequences

CONSTANTS Questions,   \* how many questions a run asks
          Materials    \* how many texts go into a digest

ASSUME PipelineAssumption ==
  /\ Questions \in Nat \ {0} /\ Materials \in Nat \ {0}
  /\ Runs \intersect Drafts = {}

VARIABLES
  notebook,  \* the temporary notebook of each run and digest
  fed,       \* the sources in it
  talk,      \* how many answers its conversation on the server holds
  previous,  \* the pipeline's previous_conversation: is there one?
  items      \* the answers so far, with the answers the server knew before

askVars == <<fed, talk, previous, items>>
pipelineVars == <<notebook, askVars>>

Owners == Runs \union Drafts

PipelinesInit ==
  /\ Init
  /\ notebook = [o \in Owners |-> "none"]
  /\ fed = [o \in Owners |-> 0]
  /\ talk = [o \in Owners |-> 0]
  /\ previous = [o \in Owners |-> FALSE]
  /\ items = [o \in Owners |-> <<>>]

\* Whose pipeline is running, and works in a notebook.
InUse == Asking \union D!Building
AtWork(o) == o \in InUse /\ notebook[o] = "there"

SourcesOf(o) == IF o \in Runs THEN 1 ELSE Materials
QuestionsOf(o) == IF o \in Runs THEN Questions ELSE 1

Item(answered, heard) == [answered |-> answered, heard |-> heard]

\* A pipeline creates its notebook.
CreateNotebook(o) ==
  /\ o \in InUse
  /\ notebook[o] = "none"
  /\ notebook' = [notebook EXCEPT ![o] = "there"]
  /\ UNCHANGED <<useVars, askVars>>

\* sources.add_url of a run, sources.add_text of each text of a digest.
AddSource(o) ==
  /\ AtWork(o)
  /\ fed[o] < SourcesOf(o)
  /\ fed' = [fed EXCEPT ![o] = @ + 1]
  /\ UNCHANGED <<useVars, notebook, talk, previous, items>>

MayAsk(o) ==
  /\ AtWork(o)
  /\ fed[o] = SourcesOf(o)
  /\ Len(items[o]) < QuestionsOf(o)

\* chat.ask is answered in a conversation that holds n answers.
Answer(o, n) ==
  /\ items' = [items EXCEPT ![o] = Append(@, Item(TRUE, n))]
  /\ talk' = [talk EXCEPT ![o] = n + 1]
  /\ previous' = [previous EXCEPT ![o] = TRUE]

\* Bug: the conversation is deleted once, before the second question.
AnswerQuestion_CutOnce(r) ==
  /\ MayAsk(r)
  /\ Answer(r, IF previous[r] /\ Len(items[r]) = 1 THEN 0 ELSE talk[r])
  /\ UNCHANGED <<useVars, notebook, fed>>

\* run_pipeline's loop: the previous conversation is deleted, if there is one,
\* and the next question is answered.
AnswerQuestion(r) ==
  /\ MayAsk(r)
  /\ Answer(r, IF previous[r] THEN 0 ELSE talk[r])
  /\ UNCHANGED <<useVars, notebook, fed>>

\* Likewise, and _ask_one turns a ChatError into an item: there is no previous
\* conversation any more.
QuestionFails(r) ==
  /\ MayAsk(r)
  /\ items' = [items EXCEPT ![r] = Append(@, Item(FALSE, 0))]
  /\ talk' = [talk EXCEPT ![r] = IF previous[r] THEN 0 ELSE @]
  /\ previous' = [previous EXCEPT ![r] = FALSE]
  /\ UNCHANGED <<useVars, notebook, fed>>

\* run_digest_pipeline configures the notebook's chat and asks once; an error
\* is not caught.
AskForDigest(d) ==
  /\ MayAsk(d)
  /\ Answer(d, talk[d])
  /\ UNCHANGED <<useVars, notebook, fed>>

\* Who has a result: a run that goes on to the history, a digest with a draft.
Answered ==
  {r \in Runs : \E w \in Workers : workerPc[w] = "history" /\ workerRun[w] = r}
  \union (IF slot.status = "done" THEN {slot.draft} ELSE {})

\* A pipeline ends.  A result is complete.  The finally clause deletes the
\* notebook; only a pipeline that fails may have failed to, and all its answers
\* are lost with it.  Answers are kept until they are saved or thrown away.
Reclaim ==
  LET ended == InUse \ InUse'
      there == {o \in ended : notebook[o] = "there"}
      kept == InUse' \union Answered'
  IN  /\ \A o \in Answered' \ Answered : Len(items[o]) = QuestionsOf(o)
      /\ \E left \in SUBSET (there \ kept) :
           notebook' = [o \in Owners |-> IF o \in there \ left THEN "gone"
                                         ELSE notebook[o]]
      /\ items' = [o \in Owners |-> IF o \in kept THEN items[o] ELSE <<>>]
      /\ talk' = [o \in Owners |-> IF o \in ended THEN 0 ELSE talk[o]]
      /\ previous' = [o \in Owners |-> o \notin ended /\ previous[o]]
      /\ fed' = [o \in Owners |-> IF o \in ended THEN 0 ELSE fed[o]]

PipelinesNext ==
  \/ Next /\ Reclaim
  \/ \E o \in Owners : CreateNotebook(o) \/ AddSource(o)
  \/ \E r \in Runs : AnswerQuestion(r) \/ QuestionFails(r)
  \/ \E d \in Drafts : AskForDigest(d)

PipelinesSpec == PipelinesInit /\ [][PipelinesNext]_<<useVars, pipelineVars>>

-----------------------------------------------------------------------------
(* Properties. *)

\* nlm.run_pipeline, "질문마다 앞 대화를 끊어 답변이 서로 물들지 않게 한다":
\* no answer is given in a conversation that holds another answer, whichever
\* of the questions before it failed.
AnswersApart ==
  \A o \in Owners : \A i \in DOMAIN items[o] :
    items[o][i].answered => items[o][i].heard = 0
=============================================================================
