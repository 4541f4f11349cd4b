------------------------------ MODULE HistorySync ------------------------------
(***************************************************************************)
(* How the history page brings rows and documents into line, field by      *)
(* field: services/outline.py lists the documents page by page,            *)
(* services/history_sync.py makes a plan of them (plan) and carries it out *)
(* (apply), and pages/_history_sync.py keeps the plan in the session until *)
(* it is applied or cancelled.                                             *)
(*                                                                         *)
(* One tab synchronises.  Meanwhile people write, change and remove        *)
(* documents in Outline, the worker saves and uploads results, and other   *)
(* tabs delete rows and change categories.  History has the uploads, the   *)
(* restarts and the answers; this module has the pages, the heads of the   *)
(* documents, and the categories.                                          *)
(***************************************************************************)
EXTENDS Integers, Sequences, FiniteSets, FiniteSetsExt, SequencesExt

CONSTANTS
  MaxDoc,           \* bound: documents that are ever made
  Names,            \* category names
  Heads,            \* what the head of a document may say (see Header)
  MaxRow,           \* bound: the largest row ID
  MaxEdits,         \* bound: changes that people make
  LIST_PAGE_SIZE,   \* documents on a page of the list
  LIST_PAGE_LIMIT   \* pages after which the list is given up

\* Documents are numbered in the order in which they are made.
Docs == 1..MaxDoc
NoDoc == 0

Blank == 0
Metadata == [channel : Nat, date : Nat]

\* What outline_import finds in the head of a document: whether there is the
\* URL of a video, channel and date (Blank: none that can be read), and the
\* names of categories ({}: none that can be read).
Header == [video : BOOLEAN, metadata : Metadata, names : SUBSET Names]

ASSUME SyncAssumption ==
  /\ Heads \subseteq Header
  /\ MaxDoc \in Nat /\ MaxRow \in Nat /\ MaxEdits \in Nat
  /\ LIST_PAGE_SIZE \in Nat \ {0} /\ LIST_PAGE_LIMIT \in Nat \ {0}

VARIABLES
  rows,       \* the table runs with run_metadata and run_categories
  known,      \* the table categories
  shelf,      \* the documents of the collection, newest first
  head,       \* the head of each document (none: not made yet,
              \* or gone)
  uploading,  \* the worker's upload: row ID and document
  pc,         \* where the tab's script is: "idle", "list" or "plan"
  listed,     \* the entries list_documents has collected
  plan,       \* the plan in the session
  edits,      \* counts the changes that people make, for the bound
  stayed,     \* the documents that are there since the check began
  since       \* what has happened since then: "nothing", "change" or "removal"

database == <<rows, known>>
outline  == <<shelf, head>>
script   == <<pc, listed, plan>>
vars == <<database, outline, uploading, script, edits, stayed, since>>

Ids == 1..MaxRow
NoRow == [doc |-> NoDoc, metadata |-> [channel |-> Blank, date |-> Blank],
          names |-> {}, there |-> FALSE]
NoHead == [gone |-> FALSE]
GoneHead == [gone |-> TRUE]
NoUpload == [id |-> 0, doc |-> NoDoc]
NoPlan == [deletes |-> {}, creates |-> {}, updates |-> {},
           recategorized |-> {}, new |-> {}]

Init ==
  /\ rows = [i \in Ids |-> NoRow]
  /\ known = {}
  /\ shelf = <<>>
  /\ head = [d \in Docs |-> NoHead]
  /\ uploading = NoUpload
  /\ pc = "idle"
  /\ listed = <<>>
  /\ plan = NoPlan
  /\ edits = 0
  /\ stayed = {}
  /\ since = "change"

-----------------------------------------------------------------------------
(* plan: two lists in, a plan out. *)

\* Bug: the blanks of the document replace what the row has.
Merge_Overwrites(local, found) == found

\* _merge: the document's value where it has one, the row's where not.
Merge(local, found) ==
  [channel |-> IF found.channel # Blank THEN found.channel ELSE local.channel,
   date |-> IF found.date # Blank THEN found.date ELSE local.date]

\* list_exported.
Exported(table) == {i \in Ids : table[i].doc # NoDoc}

\* The keys of the dict {document.id: document}, and what it has for one of
\* them: the last entry of a document counts.
Listed(documents) == {documents[k].doc : k \in DOMAIN documents}
Found(documents, d) ==
  documents[Max({k \in DOMAIN documents : documents[k].doc = d})].head

\* The rows whose document is listed.
Matched(table, documents) ==
  {i \in Exported(table) : table[i].doc \in Listed(documents)}

\* Bug: the row is compared with the document, not with what would be written.
Updates_Unmerged(table, documents) ==
  LET found(i) == Found(documents, table[i].doc).metadata
  IN  {[id |-> i, doc |-> table[i].doc,
        metadata |-> Merge(table[i].metadata, found(i))] :
         i \in {j \in Matched(table, documents) :
                  found(j) # table[j].metadata}}

\* _updates: rows whose metadata would change.
Updates(table, documents) ==
  LET merged(i) == Merge(table[i].metadata,
                         Found(documents, table[i].doc).metadata)
  IN  {[id |-> i, doc |-> table[i].doc, metadata |-> merged(i)] :
         i \in {j \in Matched(table, documents) :
                  merged(j) # table[j].metadata}}

\* _category_updates: rows whose document names other categories, and names
\* any.
Recategorized(table, documents) ==
  LET found(i) == Found(documents, table[i].doc).names
  IN  {[id |-> i, doc |-> table[i].doc, names |-> found(i)] :
         i \in {j \in Matched(table, documents) :
                  found(j) \notin {{}, table[j].names}}}

\* The listed documents of a video that no row has, each with its place in the
\* list.
Creates(table, documents) ==
  {[at |-> k, doc |-> documents[k].doc, head |-> documents[k].head] :
     k \in {j \in DOMAIN documents :
              /\ \A i \in Ids : table[i].doc # documents[j].doc
              /\ documents[j].head.video}}

\* _referenced_names.
Referenced(creates, recategorized) ==
  (UNION {c.head.names : c \in creates})
  \union (UNION {c.names : c \in recategorized})

\* plan: rows whose document is not listed go, listed documents of a video
\* that no row has come in, the others are brought up to date.
PlanFor(table, documents, names) ==
  LET creates == Creates(table, documents)
      recategorized == Recategorized(table, documents)
  IN  [deletes |-> {<<i, table[i].doc>> :
                      i \in Exported(table) \ Matched(table, documents)},
       creates |-> creates,
       updates |-> Updates(table, documents),
       recategorized |-> recategorized,
       new |-> Referenced(creates, recategorized) \ names]

\* is_empty: the new names follow from the rest.
IsEmpty(p) == p = NoPlan

-----------------------------------------------------------------------------
(* apply: the parts of the transaction. *)

Live(table) == {i \in Ids : table[i].there}
NextId(table) == 1 + Max(Live(table) \union {0})

\* Bug: only the names that were new when the plan was made.
Ensure_AsPlanned(p) == known \union p.new

\* ensure: every name the plan refers to, also one deleted since.
Ensure(p) == known \union Referenced(p.creates, p.recategorized)

DeleteRuns(table, keys) ==
  [i \in Ids |-> IF <<i, table[i].doc>> \in keys THEN NoRow ELSE table[i]]

\* The entries that come in: no row has the document, and no entry before.
Missing(table, creates) ==
  {c \in creates : /\ \A i \in Ids : table[i].doc # c.doc
                   /\ \A b \in creates : b.at < c.at => b.doc # c.doc}

\* insert_exported, one entry after the other, so that the IDs count up from
\* the next one; names that are not in the table of categories are left out.
InsertExported(table, creates, names) ==
  LET new == Missing(table, creates)
      id(c) == NextId(table) + Cardinality({b \in new : b.at < c.at})
      row(c) == [doc |-> c.doc, metadata |-> c.head.metadata,
                 names |-> c.head.names \intersect names, there |-> TRUE]
  IN  [i \in Ids |-> IF \E c \in new : id(c) = i
                     THEN row(CHOOSE c \in new : id(c) = i) ELSE table[i]]

\* write_metadata: row ID and document both match.
WriteMetadata(table, updates) ==
  [i \in Ids |->
     LET mine == {u \in updates : u.id = i /\ u.doc = table[i].doc}
     IN  IF mine = {} THEN table[i]
         ELSE [table[i] EXCEPT !.metadata = (CHOOSE u \in mine : TRUE).metadata]]

\* replace_categories: likewise.
ReplaceCategories(table, changes, names) ==
  [i \in Ids |->
     LET mine == {c \in changes : c.id = i /\ c.doc = table[i].doc}
     IN  IF mine = {} THEN table[i]
         ELSE [table[i] EXCEPT !.names =
                 (CHOOSE c \in mine : TRUE).names \intersect names]]

Applied(p) ==
  ReplaceCategories(
    WriteMetadata(
      InsertExported(DeleteRuns(rows, p.deletes), p.creates, Ensure(p)),
      p.updates),
    p.recategorized, Ensure(p))

-----------------------------------------------------------------------------
(* The history page. *)

\* The check button.  However the list ends, it replaces an older plan; a click
\* that ends the script before leaves all as it was without the check.
Check ==
  /\ pc = "idle"
  /\ pc' = "list"
  /\ stayed' = ToSet(shelf)
  /\ since' = "nothing"
  /\ plan' = NoPlan
  /\ UNCHANGED <<database, outline, edits, uploading, listed>>

\* The documents of the page that starts behind `offset` of them.
Page(offset) ==
  [k \in 1..Min({LIST_PAGE_SIZE, Len(shelf) - offset}) |->
     [doc |-> shelf[offset + k], head |-> head[shelf[offset + k]]]]

GiveUp ==
  /\ pc' = "idle" /\ listed' = <<>> /\ plan' = NoPlan
  /\ stayed' = {} /\ since' = "change"

\* Bug: a page that brings nothing new is taken for the end.
ListPage_StopsAtRepeats ==
  /\ pc = "list"
  /\ LET page == Page(Len(listed))
         before == {e.doc : e \in ToSet(listed)}
     IN  /\ listed' = listed \o page
         /\ pc' = IF \A e \in ToSet(page) : e.doc \in before THEN "plan"
                  ELSE "list"
  /\ UNCHANGED <<database, outline, edits, uploading, plan, stayed, since>>

\* list_documents: one page more; a page that is not full is the last.
ListPage ==
  /\ pc = "list"
  /\ LET offset == Len(listed)
         page == Page(offset)
     IN  IF Len(page) < LIST_PAGE_SIZE
         THEN /\ pc' = "plan" /\ listed' = listed \o page
              /\ UNCHANGED <<plan, stayed, since>>
         ELSE IF offset + LIST_PAGE_SIZE = LIST_PAGE_SIZE * LIST_PAGE_LIMIT
         THEN GiveUp
         ELSE listed' = listed \o page /\ UNCHANGED <<pc, plan, stayed, since>>
  /\ UNCHANGED <<database, outline, edits, uploading>>

\* A page fails: the list and an older plan are dropped.
ListFails ==
  /\ pc = "list"
  /\ GiveUp
  /\ UNCHANGED <<database, outline, edits, uploading>>

\* _check: rows and names are read, and the plan goes into the session.
Plan ==
  /\ pc = "plan"
  /\ plan' = PlanFor(rows, listed, known)
  /\ pc' = "idle" /\ listed' = <<>> /\ stayed' = {}
  /\ since' = IF IsEmpty(plan') \/ since # "nothing" THEN "change" ELSE since
  /\ UNCHANGED <<database, outline, edits, uploading>>

\* The apply button: one transaction.
Apply ==
  /\ pc = "idle"
  /\ ~IsEmpty(plan)
  /\ NextId(DeleteRuns(rows, plan.deletes)) + Cardinality(plan.creates)
       <= MaxRow + 1
  /\ rows' = Applied(plan)
  /\ known' = Ensure(plan)
  /\ plan' = NoPlan
  /\ since' = "change"
  /\ UNCHANGED <<outline, edits, uploading, pc, listed, stayed>>

Cancel ==
  /\ pc = "idle"
  /\ ~IsEmpty(plan)
  /\ plan' = NoPlan
  /\ since' = "change"
  /\ UNCHANGED <<database, outline, edits, uploading, pc, listed, stayed>>

-----------------------------------------------------------------------------
(* Meanwhile.  Each of these makes the list that was read out of date. *)

Disturbs(what) == since' = IF since = "removal" THEN since ELSE what

Edits == edits < MaxEdits /\ edits' = edits + 1

\* save_run, in the worker, which has marked or given up the run before: a
\* result that is not in Outline yet, with the metadata that was fetched and
\* with categories that are there.
SaveRun(m, names) ==
  /\ uploading = NoUpload
  /\ NextId(rows) \in Ids
  /\ rows' = [rows EXCEPT ![NextId(rows)] =
                [doc |-> NoDoc, metadata |-> m, names |-> names, there |-> TRUE]]
  /\ Disturbs("change")
  /\ UNCHANGED <<known, outline, edits, uploading, script, stayed>>

New(d) == head[d] = NoHead /\ \A e \in Docs : e < d => head[e] # NoHead

\* A document is made, and is the newest.
Shelve(d, h) ==
  /\ New(d)
  /\ shelf' = <<d>> \o shelf
  /\ head' = [head EXCEPT ![d] = h]

\* create_document: the head says what to_markdown makes of the row.
Upload(i, d) ==
  /\ uploading = NoUpload
  /\ rows[i].there /\ rows[i].doc = NoDoc
  /\ Shelve(d, [video |-> TRUE, metadata |-> rows[i].metadata,
                names |-> rows[i].names])
  /\ uploading' = [id |-> i, doc |-> d]
  /\ Disturbs("change")
  /\ UNCHANGED <<database, edits, script, stayed>>

\* mark_exported, or an upload whose row is gone or linked by now.
Mark ==
  /\ uploading # NoUpload
  /\ LET i == uploading.id
     IN  rows' = IF rows[i].there /\ rows[i].doc = NoDoc
                 THEN [rows EXCEPT ![i].doc = uploading.doc] ELSE rows
  /\ uploading' = NoUpload
  /\ Disturbs("change")
  /\ UNCHANGED <<known, outline, edits, script, stayed>>

\* People write, change and remove documents in Outline.
Write(d, h) ==
  /\ Edits
  /\ Shelve(d, h)
  /\ Disturbs("change")
  /\ UNCHANGED <<database, uploading, script, stayed>>

Edit(d, h) ==
  /\ Edits
  /\ d \in ToSet(shelf) /\ head[d] # h
  /\ head' = [head EXCEPT ![d] = h]
  /\ Disturbs("change")
  /\ UNCHANGED <<database, shelf, uploading, script, stayed>>

Trash(d) ==
  /\ Edits
  /\ \E k \in DOMAIN shelf : shelf[k] = d /\ shelf' = RemoveAt(shelf, k)
  /\ head' = [head EXCEPT ![d] = GoneHead]
  /\ stayed' = stayed \ {d}
  /\ IF pc = "list" THEN Disturbs("removal") ELSE Disturbs("change")
  /\ UNCHANGED <<database, uploading, script>>

\* delete_run, by any tab.
DeleteRun(i) ==
  /\ Edits
  /\ rows[i].there
  /\ rows' = [rows EXCEPT ![i] = NoRow]
  /\ Disturbs("change")
  /\ UNCHANGED <<known, outline, uploading, script, stayed>>

Used == UNION {rows[i].names : i \in Ids}

\* add_category, rename_category and delete_category: the history must not use
\* what goes.
ChangeCategories(gone, come) ==
  /\ Edits
  /\ gone \subseteq known \ Used /\ come \intersect known = {}
  /\ gone \union come # {}
  /\ known' = (known \ gone) \union come
  /\ Disturbs("change")
  /\ UNCHANGED <<rows, outline, uploading, script, stayed>>

\* The app restarts: thread and session are lost.
Restart ==
  /\ uploading' = NoUpload
  /\ GiveUp
  /\ UNCHANGED <<database, outline, edits>>

Meanwhile ==
  \/ \E h \in Heads : h.names \subseteq known /\ SaveRun(h.metadata, h.names)
  \/ \E d \in Docs : \/ \E i \in Ids : Upload(i, d)
                     \/ \E h \in Heads : Write(d, h) \/ Edit(d, h)
                     \/ Trash(d)
  \/ Mark
  \/ \E i \in Ids : DeleteRun(i)
  \/ \E gone, come \in {{}} \union {{n} : n \in Names} :
       ChangeCategories(gone, come)
  \/ Restart

Next ==
  \/ Check \/ ListPage \/ ListFails \/ Plan \/ Apply \/ Cancel
  \/ Meanwhile

Spec == Init /\ [][Next]_vars

-----------------------------------------------------------------------------
(* Properties. *)

\* list_documents reads page by page.  A document that is there from the first
\* page to the last is in the list, although others come and change meanwhile;
\* only when one is removed can the list shift past it.
ListedUnlessRemoved ==
  pc = "plan" /\ since # "removal"
    => stayed \subseteq Listed(listed)

\* What list_documents would read now.
Current == [k \in DOMAIN shelf |-> [doc |-> shelf[k], head |-> head[shelf[k]]]]

\* plan and apply agree on what "in line" is: if nothing changed between the
\* check and the apply button, another check finds nothing to do.
SyncSettles ==
  [][Apply /\ since = "nothing" => IsEmpty(PlanFor(rows', Current, known'))]_vars

Mentioned(p, i) ==
  \/ <<i, rows[i].doc>> \in p.deletes
  \/ \E u \in p.updates \union p.recategorized :
       u.id = i /\ u.doc = rows[i].doc

\* apply may come long after plan.  Rows that the plan does not mean are left
\* alone, whatever their IDs meant then; rows it means get the categories of
\* their document, although the names were deleted meanwhile; and a document
\* that had no row has one, however often it was listed.
AppliesThePlan ==
  [][Apply =>
       /\ \A i \in Live(rows) : Mentioned(plan, i) \/ rows'[i] = rows[i]
       /\ \A c \in plan.recategorized :
            rows[c.id].doc = c.doc => rows'[c.id].names = c.names
       /\ \A d \in {c.doc : c \in plan.creates} :
            (\A i \in Ids : rows[i].doc # d) =>
              /\ Cardinality({i \in Ids : rows'[i].doc = d}) = 1
              /\ \E c \in plan.creates, i \in Ids :
                   /\ c.doc = d /\ rows'[i].doc = d
                   /\ rows'[i].names = c.head.names]_vars

\* _merge, and "a head that cannot be read changes nothing": a row that keeps
\* its document loses no channel, no date and not all of its categories.
LocalKept ==
  [][Apply => \A i \in Live(rows) : rows'[i].doc = rows[i].doc =>
       /\ \A field \in {"channel", "date"} :
            rows[i].metadata[field] # Blank => rows'[i].metadata[field] # Blank
       /\ rows[i].names # {} => rows'[i].names # {}]_vars
=============================================================================
