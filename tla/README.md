# Verification of notebooklm-st

notebooklm-st is a Streamlit app for one user.  It puts YouTube videos and
questions to Google NotebookLM, keeps the answers in SQLite, and moves them to
an Outline wiki.  Streamlit runs a page's script again for every click, each
browser tab in a thread of its own; beside these there are a worker thread for
the questions, a thread for a digest, and a second container for remote login.
This directory holds TLA+ models of the parts where those threads meet, the
TLC configurations that check them, and proofs for TLAPS.

The documentation of the app assumes one user with one browser window
(`src/docs/superpowers/specs/2026-08-28-youtube-qa-design.md:102`), while some
of the code guards against a second tab.  A model that takes one tab
says so; section 6 lists what a second tab can do.

Paths below are relative to `src/src/notebooklm_st/`, unless they start with
`src/`.

## 1. Inventory

| Part | State | Operations | Talks to |
|---|---|---|---|
| Run queue (`services/run_store.py`, `run_registry.py`, `runner.py`, `run_steps.py`, `runs.py`) | a dict of run handles in order of arrival, the worker slot, the pause; one lock | enqueue, claim, finish, fail, pause, resume, cancel, discard | pages by calls, worker thread, history, digest registry (read) |
| Digest (`services/digest_runner.py`, `services/digest.py`, `pages/digest.py`) | one slot with a handle | start, progress, finish, fail, clear; page: start, retry, discard, save | digest thread, Outline, run registry (read) |
| Pipelines (`services/nlm.py`) | one temporary notebook each, with sources and a conversation on the server | create, add source, ask, cut the conversation, delete | NotebookLM |
| Database connection (`services/store.py`, `session.py`) | one connection for all page scripts, one per operation of the worker; transactions that begin by themselves | connect, execute, commit, roll back | all services |
| Clean-up (`pages/maintenance.py`) | a list of notebooks in the session | refresh, delete | NotebookLM, both registries (read) |
| History (`services/run_history.py`, `store.py`) | tables `runs`, `answers`, `run_metadata` | save, list, load, delete | worker, pages |
| Export (`services/run_export.py`, `run_links.py`) | the set of claimed row IDs | claim, create document, mark | history, Outline |
| Synchronisation (`services/history_sync.py`, `run_history_sync.py`, `pages/_history_sync.py`) | a plan in the session | check, apply, cancel | history, Outline, categories |
| Remote login (`login_browser/supervisor.py`, `core/login_protocol.py`, `services/login_session.py`, `pages/_remote_login.py`) | `request.json`, `status.json`, `heartbeat`; a session in the supervisor; a watched request per tab | start, cancel, poll, recover, shut down | files on a shared volume, child processes, authentication gate |
| Authentication gate (`services/auth.py`, `pages/auth.py`) | tried, ok, error | ensure, recheck, import | NotebookLM |
| Categories (`services/categories.py`, `pages/category_admin.py`, `components/category_picker.py`) | tables `categories`, `run_categories`, `channel_categories` | add, rename, delete, choose | worker (save), run registry (read), history |
| Channels (`services/channels.py`, `pages/channels.py`, `pages/_channel_check.py`, `pages/_channel_enqueue.py`) | table `channels`; the last check in the session | register, defaults, baseline, delete, check, enqueue | feed and lookup calls, run queue |
| Questions, settings (`services/questions.py`, `settings.py`) | small tables | list, add, change, delete | pages |
| Text cores (`core/…`) | none | parse and format | all |

How the parts interact:

* Pages call the two registries, which live in the process and are shared by
  all tabs and threads.  Each method runs under the registry's lock; nothing
  protects what happens between two calls.
* The run worker and the digest thread never wait on a lock for each other.
  Each side reads the other's registry (`is_blocked`, `active_count`) and acts
  afterwards.
* All pages share one SQLite connection; the worker opens one for each result
  it saves.  Row IDs are `INTEGER PRIMARY KEY`, so the ID of a deleted newest
  row is given again.
* Outline and NotebookLM are slow network calls that may fail after they took
  effect.  What was read before such a call may be out of date after it.
* App and supervisor of the remote login share three files, each replaced
  atomically, and nothing else; either may stop at any moment.
* A click during a running script replaces that script at its next Streamlit
  call, not in the middle of a call.

What makes each part correct:

* run queue: one worker and never none, first in first out, no lost or
  duplicated run, no row that stays "running", a pause only for runs that wait;
* digest: one at a time, its draft is not lost, neither slot nor page stays
  "running";
* NotebookLM: queue and digest exclude each other, both move on, no notebook is
  deleted under a pipeline, no answer is coloured by another one;
* database: an operation is committed as a whole or not at all, and none leaves
  the shared connection with the write lock;
* history: answers are in a row, in a document, or deleted by the user; a link
  opens the document of its own row; synchronising deletes no row that has a
  document;
* synchronisation: what is there is listed, a plan that is carried out late does
  only what it says, and it loses nothing that a document does not say;
* authentication gate: one check unasked, a verdict that is the last check's, and
  no check of old credentials that outlives new ones which nobody wrote over;
* remote login: the status file tells the truth, no profile or password stays
  behind without an attempt to remove it, no request opens two sessions, no tab
  waits for ever;
* categories and channels: a category in use keeps its name, results keep their
  categories, IDs that are given again never mean something else.

## 2. Modules

| Module | Models | State and actions |
|---|---|---|
| `RunQueue` | the run queue with its page threads and worker threads | `status`, `ticket` are the dict of handles in order; `workerActive`, `paused` the registry's fields; `pagePc` and `workerPc` say where each thread is between two calls of the registry. One action per call: `Check`, `Enqueue`, `AcquireWorker`, `Resume`, `Cancel`, `Discard`, the claim, the steps of `_work`, thread starts that fail, workers that die. `blocked` is the digest registry as the worker sees it |
| `SerialFifo` | what the queue promises: a server of one job at a time, first come first served, where a job may leave while it waits | implemented by `RunQueue` (`ServesInOrder`) |
| `RunQueue_proofs` | theorems about `RunQueue` for all its constants, and about one page | section 5 |
| `DigestSlot` | `DigestRegistry`, the digest thread, and the script of `pages/digest.py` by its reads, clicks and save | `slot` is the registry, `thread` each digest's thread, `pc`, `view`, `shown`, `seen` the script and what the tab has drawn, `docs` the documents made; `busy` is the run queue as the page sees it |
| `DigestSlot_proofs` | theorems about `DigestSlot` for any number of digests, and of tabs where that holds | section 5 |
| `NotebookUse` | the two composed: `INSTANCE RunQueue WITH blocked <- ...` and `INSTANCE DigestSlot WITH busy <- ...` | each side's guard is a state function of the other side |
| `Pipelines` | extends `NotebookUse` with what the two pipelines of `services/nlm.py` do in NotebookLM | `notebook`, `fed`, `talk` are on the server: the temporary notebook, its sources, how many answers its conversation holds; `previous` and `items` are the pipeline's. One action per question; `Reclaim` is the `finally` clause, joined to the step that ends the pipeline |
| `NotebookCleanup` | extends `Pipelines` with `pages/maintenance.py` | `listed`, `todo`, `enabled`, `clicked` of the page: the list is read long before the guards, and the guards before the click |
| `NotebookCleanup_proofs` | theorems about `NotebookUse`, `Pipelines` and `NotebookCleanup`, from those about the queue and the digest | section 5 |
| `History` | rows, documents, exports by worker and page, deletion with its confirm button, synchronisation, restart | `rows` by row ID, `wiki` and `docRun` for Outline, `saving` the claimed IDs, `held`, `listed`, `plan`, `armed` what a script or session remembers |
| `KeptAnswers` | what the history promises of the answers: they are kept until the history links a document of them instead or the user throws them away, and nothing else takes them or brings them back | implemented by `History` (`AnswersKept`) |
| `History_proofs` | theorems about `History` for any number of results, rows and documents | section 5 |
| `HistorySync` | `outline.list_documents`, `history_sync.plan` and `apply`, and the page that keeps the plan, next to people who edit the wiki, uploads and other tabs | `rows` with metadata and categories, `known` the category names, `shelf` and `head` the documents in the order of the list and what their heads say; `pc`, `listed`, `plan` of the tab. `PlanFor`, `Updates`, `Merge` are functions, `ListPage` one request; `stayed` and `since` are history variables |
| `HistorySync_proofs` | theorems about `HistorySync` for any number of documents, rows and names, and pages of any size | section 5 |
| `AtomicWrites` | what the services promise of the database: every operation takes effect as a whole or not at all | implemented by `SharedConnection` (`WritesAreAtomic`) |
| `SharedConnection` | the same operations statement by statement, over the connections | an operation is a sequence of statements (`doing`) which one action per kind interprets (`Check`, `Write`, `Commit`, `TimeOut`); `draft`, `writer`, `begun`, `pinned` are what SQLite and the module `sqlite3` keep: the contents before the commit, the write lock, the transaction that begins by itself, the read lock |
| `SharedConnection_proofs` | theorems about `SharedConnection` for any number of results, and that it implements `AtomicWrites` | section 5 |
| `AuthGate` | the class of that name with its lock, the banner, `pages/auth.py`, and the check after a remote login | `tried`, `ok`, `probe_error`, `lock` are the gate's fields, `scriptPc` and `why` say where each tab's script is and what for; `stored` is the version of the credentials in the file, which a check reads when it opens its client (`ReadStored`) and judges a network call later (`Answered`), and over which any client may write older ones at any time (`WriteBack`). `issued`, `covered`, `verdict`, `checked`, `revived`, `autos` are history variables |
| `RemoteLogin` | supervisor with start-up, recovery, loop, failures and termination; the three files; the page with its polls | `request`, `status`, `beating` the files; `session`, `lastId` the supervisor's memory; `child`, `due`, `traces` its children and what is left on the volume, `undeleted` and `survivor` why; `watching`, `polling`, `view` per tab. A part of a session's end that fails (`TakeDown`) keeps none of the others from being done. A render and an area read heartbeat, status and request one after the other (`Redraw`…, `Area`…) |
| `Login_proofs` | theorems about `AuthGate` and about `RemoteLogin`, for any number of tabs, requests and mishaps | section 5 |
| `Catalogue` | categories and channels, the page that edits them, the pages that use them, and the worker's save | `category`, `channel`, `default` are tables by row ID; `run` the handles and rows with the category IDs they hold; `step` where the script is; `open` the buttons drawn unlocked; `found` the session's last check; `meant` is a history variable |
| `Catalogue_proofs` | theorems about `Catalogue` for any number of categories, channels, videos and runs | section 5 |

`MC…` modules hold the instances for TLC.  `PROJECT.json` maps every definition
to the lines it stands for.  Definitions named `X_Something` next to `X` are
mutants of it: plausible bugs which each property is shown to notice.

Common conventions.  A method under the registry's lock, and a database call,
is one step (`SharedConnection` shows when the latter is right).  A network call is two: what is read before it, and what is done
after it.  A page script is split where it reads something another thread may
change, and where it writes something another thread may read.  Progress texts, wording, times and the contents of answers are left
out.

## 3. Runs

| Run | Instance | Distinct states | Shows |
|---|---|---|---|
| `RunQueue` | 3 runs, 2 of one video, 2 tabs, 2 thread identities | 232,352 | `OneWorker`, `NoLostWakeup`, `PauseHasWaiting`, `RunningIsWorked`, `OutcomeMatchesHistory`, and that the queue implements `SerialFifo` |
| `DigestSlot` | 2 digests, 1 tab, at most 2 documents each | 1,632 | the slot is running exactly while a digest is built; a draft leaves the slot only saved or thrown away by someone who saw it; slot and page leave "running" |
| `NotebookLive` | 2 runs of one video, 1 digest, 1 tab | 116,036 | queue and digest cannot wait for each other for ever; what locks the other pages opens again; no video is queued twice |
| `NotebookOverlap` | the same, digests started only while no run is active | violation | `ExclusiveUse` fails: section 6 |
| `NotebookCleanup` | 1 run of 3 questions, 1 digest of 2 texts, 1 clean-up tab | 483,813 | no answer is given in a conversation that holds another one; the clean-up page deletes no notebook that a pipeline works in |
| `History` | 2 results, 2 documents, 2 row IDs, 1 tab, worker | 522,386 | `AnswersSafe`, `LinkMatches`, `OneDocument`, `ClaimsEnd`, and that the history implements `KeptAnswers` |
| `HistorySyncRace` | the same | violation | `SyncDeletesOnlyAbsent` fails: section 6 |
| `HistorySync` | 3 documents with 3 kinds of heads, 2 row IDs, 2 category names, one document a page, 2 edits | 402,856 | a document that stays is listed unless another is removed; a plan, however old, does what it says and no more; a second check finds nothing left; nothing is blanked |
| `SharedConnection` | 2 results, 1 category, 1 channel, 1 question, 1 page script, worker | 233,700 | the services implement `AtomicWrites` whatever is refused or times out; rows refer to rows that are there; no operation leaves the write lock behind |
| `RemoteLogin` | 1 tab, 2 requests, 2 mishaps | 203,976 | `StatusTruth`, `NoTraces`, `OncePerRequest`, `TabsAreServed` |
| `AuthGate` | 2 tabs, 2 checks by hand, imports or logins, older credentials written back at any time | 689,779 | `ChecksOnceUnasked`, `VerdictOfLastCheck`, `NewCredentialsCount` |
| `Catalogue` | 2 names, 2 category IDs, 1 channel ID, 1 channel with one video, 2 runs | 2,474,093 | `PendingNamed`, `HistoryAsChosen`, `DefaultsMeant` |

Why these bounds are enough to be of use.  The queue needs two pages and two
thread identities for a worker that ends while a page starts another, and a
third run for the order of service and for duplicates.  The digest needs a
second draft to be lost to or confused with.  The history needs two results and
two IDs for an ID to be given again, and a second document for a duplicate.
The remote login needs a second request for one that replaces another or
comes behind a running one, and two mishaps for a failure during recovery or a
crash after a removal that failed.  The catalogue needs
two categories and a second run to tell the one in use from the other; one
channel ID is enough for the ID to be used again.  A run of three questions has
one that fails between two that are answered.  A page of the list holds one
document, so that every document is a page boundary, and two row IDs let one be
given again between plan and apply; with three edits (2,770,208 states) the
properties of `HistorySync` hold too.  The shared connection needs two results
for one that is saved while another is deleted; every other table needs one row
only, there or not.  The gate needs two tabs for a check that overtakes another,
and two requests for an import, or a login, while another check is going on; the
first check comes unasked.  The
safety invariants, the action properties and the refinements of all passing runs
are proved without these bounds, for one tab or script where section 5 says so.

Liveness is checked by `DigestSlot`, `NotebookLive`, `History` and
`RemoteLogin`.  No run uses symmetry for liveness; `Catalogue` uses it over
names, `AuthGate` over tabs.

## 4. Fairness

Fairness is given per thread to steps that nothing but the thread itself
decides, and never to clicks:

* a page script and a worker or digest thread that has begun goes on: network
  calls in `services/nlm.py`, `outline.py` and the child processes have
  timeouts, and the registry's lock is held for moments (`WorkerGoesOn`: that
  `is_blocked` or `claim_next` raises, `DrainDies`, may happen and need not);
* the worker's poll for a digest that blocks it, the fragment of the digest page
  and that of the remote login repeat every few seconds while they are shown;
* a digest that is built ends, well or not;
* the supervisor's container is restarted by `restart: unless-stopped`, its loop
  ticks each second, its waits for children are bounded, and time passes: the
  deadline of a session and the age of a request are reached.  The age is given
  strong fairness, because the model leaves out one moment for it: a request does
  not get too old just between the last two reads of a render (`_waiting` and
  `_unaccepted`), of microseconds against thirty seconds.

No one has to press a button: not resume, not retry, not save.  That is why
`QueueMovesOn` allows for a pause.  It also allows for a thread that failed to
start (`queueFaulted`, `digestFaulted`): see section 6.  In `NotebookLive`
the condition "digests stop some day" is not assumed but follows from the
composition with one digest.

## 5. Proofs

`RunQueue_proofs` (TLAPS, all constants; assumption `RunsAssumption`: videos and
auto-save are those of runs, and `NoRun` is not a run).  None of the properties
is inductive alone: `OneWorker` needs to know that a page or thread that holds
the slot holds it in the program counter too; `NoLostWakeup` needs that a page
between `enqueue` and its second call will look; `RunningIsWorked` needs that a
worker's run was claimed.  `IndInv` adds four facts: pages hold new runs of
their own (`PagesHoldNewRuns`), tickets grow (`TicketsInOrder`), a worker's
place tells whether its result is on record (`WorkersHoldClaimedRuns`,
`UnservedNotRecorded`), and a broken thread left its mark
(`BrokenThreadsLeaveMark`).  The inductive step is proved in parts: types, slot,
work and table.  From it follow `QueueTypeOK`, `NeverTwoWorkers`, `NeverNoWorker`,
`PauseIsForSomething`, `NoOrphanedRun`, `OutcomeAgrees`; and `Refinement` maps
the dict to `SerialFifo` (`arrival <- ticket`, `waiting <- Queued`,
`serving <- Serving`, `recorded <- history`) and shows that each step is a step
of it or a stutter.  `OnePageNoDuplicate` supposes one page (`OnePage`): what
the duplicate check of a page has found holds until its enqueue (`CheckHolds`),
because only `enqueue` makes a run pending.

`DigestSlot_proofs` (assumption `DigestAssumption`: `NoDraft` is no draft, and the
bound on documents is a positive number).  For any number of tabs:
`DigestTypeOK`, and `StartedOnce`, that a digest is started from one tab and does
not begin again (`FreshIsNew`).  For one tab (`OneTab`): `SlotTracksOneTab` and
`DraftKeptOneTab`.  A script acts on what it read of the slot calls ago, so that
the invariant says for each of its places what still holds of the slot
(`NotRunning`, `Shows`), and for each button that what it needs is there when its
handler runs (`Clicks`).

`NotebookCleanup_proofs` (assumptions `UseAssumption` and `PipelineAssumption`:
those of the parts, and that no run is a digest) takes the two modules above as
instances.  `UseImplementsParts` shows that each step of the whole is a step of
the queue and one of the digest, in which the other part changes `blocked` or
`busy` at most; so all that is proved of a part holds of the whole, and
`NoVideoTwice` follows for one page (`OnePage`).  `EveryAnswerAlone` is for any
constants: a conversation that holds an answer is one its pipeline knows of and
will cut off, and a digest puts one question to a notebook (`Conversations`).
`CleanupSpares` supposes one tab on the digest page, and any number of others
and of clean-up pages.  The page's list is older than the guards it reads and
these are older than the click: whatever was listed has begun (`HaveBegun`), a
pipeline that has begun does not begin again (`GoneStays`, `BegunStays` of the
queue, `FreshStep` of the digest), so that one that the guards find inactive
never uses its notebook again, unless its row is hidden (`GuardsHold`).

`History_proofs` (assumption `HistoryAssumption`: results saved automatically are
results, the worker is no tab, and there is a number of row IDs) holds for any
number of results, row IDs and documents.  For any number of tabs:
`HistoryTypeOK`, with `Known` (rows and documents are of saved results) and
`Uploads` (no two uploads have claimed one row).  For one tab beside the worker: `AnswersStay`, `LinksOpenTheirOwn` and
`NoSecondDocument`.  What needs the one tab is `HoldsItsRow`: the row whose ID an
upload remembers over two calls of Outline is still of the result it uploads,
because the tab deletes nothing while it uploads, and the worker saves nothing
while it uploads.  The tab can delete the row of the worker's upload, and a
synchronisation give its ID again; but such a row has its document, and
`mark_exported` refuses it.  `SentOnce` carries `OneDocument`
over the time between the claim and the mark.  From the same invariant
follows the refinement `AnswersRefine`: with `kept` the results of the rows
without a document and `linked` the documents of the others, `save_run` records,
a created document is published, `mark_exported` gives up (`MarkGivesUp`: the row
it marks is the only one with these answers, `AnswersOnce`), `delete_run` throws
away, a plan moves links and no answers, and every other step, failed uploads and
restarts among them, is a stutter.

`SharedConnection_proofs` (assumption `ActorsAssumption`: the worker is no page
script) holds for any number of results.  The invariant says of an operation on
its way that n of its statements are done and the connection sees what these
make of the disk (`Reached`, `Upto`, `Found`).  The types, which say that no row refers to one
that is not there, committed or not, hold for any number of scripts
(`ConnectionTypeOK`).  For one script beside the worker (`OneScript`):
`ConnectionRestsUnlocked`, and the refinement `ConnectionRefines`: statements and
rollbacks are stutters, and a commit, which comes after all other statements of
an operation, is the whole operation of `AtomicWrites`.

`Catalogue_proofs` (assumption `CatalogueAssumption`: `NoRow` is no name or
channel, and the bounds are numbers).  `CatalogueTypeOK`, `PendingKeepNames`,
`ResultsKeepCategories` and `ChannelsKeepDefaults`, together.  The page reads the
registry when it draws, asks the history when a button is pressed, and writes
later.  `OpenUnqueued` says that a drawn button is of a category that is still
not queued, since enqueueing is another page; `WriteAlone` that a category about
to be written is needed by no run, on the dashboard or in the history.  `RunsGoOn` sums up what
every step of worker and dashboard does to the runs.

`HistorySync_proofs` (assumption `SyncAssumption`: heads are heads, the bounds
are numbers, and a page has a document at least) has two halves.  The first is
about values only: what `PlanFor` puts into a plan (`UpdatesOfRows`,
`ChangesOfRows`, `CreatesListed`, `PlanForOK`), and what `Applied` makes of any
rows and any plan whose parts do not contradict one another (`AppliedElsewhere`,
`AppliedGone`, `AppliedComes`).  `insert_exported` gives the next ID to one
document after the other; the model says of each document how many come before
it, and `Ranks` and `PlacesAreFree` show that the IDs are within the bound, free
and different.  That the largest ID exists follows from the order of numbers
being well-founded.  `PlanSettles` is the lemma of the two halves' meeting: a
plan of a list, carried out on the rows it was made of, leaves nothing to plan.

The second half is the inductive invariant.  `Unread`: while the list is read, a
document that has stayed is listed, or at a position that is still ahead; what
comes is put in front and only moves it back, what goes is noted.  `Fresh`: while
nothing has changed, the list is the beginning of what is there, and the plan is
that of the rows as they are.  `Filled` and `Pending`: a row that the plan will
write to has no value that would be blanked, and no row becomes one that it
writes to, because a row gets a document only from the worker's upload, of a
document that the plan cannot know with this row.  For that the worker's order
counts: it saves a result after it has marked the one before.  A model in which
it saves while it uploads satisfies `LocalKept` with two edits and violates it
with four, which the failed proof pointed out.  (An upload by hand in another tab
has no such order; it is among the limits of section 6.)  From `SyncInvariant` follow `SyncTypeOK`,
`NothingMissed`, `SecondCheckIsEmpty`, `PlanIsApplied` and `NothingBlanked`; and
from these `UnsavedNotTouched`, that a result which is not in Outline yet survives
any synchronisation, as the docstring of `plan` promises, and
`StayersNotDeleted`, that the row of a document which is there while the list is
read is not planned for deletion.

`Login_proofs` extends both `AuthGate` and `RemoteLogin`.  Of the remote login
(assumption `BoundsAssumption`: the bounds are numbers) `IndInv` joins the types
of the files and counters, `Memory` (what the supervisor remembers agrees with
where it is, and after a recovery traces are there only because their removal
failed), `StatusTruth`, `NoTraces` and `Once` (the requests that were opened
have been counted as handled, or are about to be after a restart).  From it
follow `LoginTypeOK`, `LoginStatusTruth`, `LoginNoTraces` and
`LoginOncePerRequest`, for any number of tabs.

Of the gate (assumption `AuthAssumption`: `NoTab` is not a tab, and the bound is a
number): the verdict of a check is written long after the credentials were read,
so that none of the three invariants is inductive.  The types include that
whoever checks holds the lock.  `Newest` says that the file has the newest
credentials that were put in, or these have been covered; `Checks` what a script
that holds the lock has read and written so far, and that it read credentials no
older than what any tab has checked, but for the covered ones (`Heeds`), which
`Judged` says of the verdict; `Alive` follows a tab from a check that went well to its new banner.  `Bystander`
sums up what all steps outside of a check leave alone, so that each part of the
step is proved for the six steps of a check only.  From `Inductive` follow
`GateTypeOK`, `OneUnaskedCheck`, `VerdictStands` and `NewCredentials`.

Why some theorems suppose one tab, page or script: the design does
(`src/docs/superpowers/specs/2026-08-28-youtube-qa-design.md:102`), and without it
they are false.  Two tabs pass the duplicate check together; one clears a digest
that the other started; one deletes the row that the other uploads, and the
worker's next result gets its ID; two scripts roll back each other's statements
(section 6).  The worker and the digest thread run beside the one tab all the
same.

Only model-checked: liveness, since fairness and ENABLED are outside TLAPS
(`RunningEnds`, `QueueMovesOn`, `LocksOpen`, `ClaimsEnd`, `TabsAreServed`), and the
two runs that expect a violation.  No module declares a RECURSIVE operator.

## 6. Findings and known limits

Disagreements between code and its documentation, each shown by a run:

* `NotebookOverlap`: `runner._drain` reads `is_blocked()` and then claims; a
  digest that starts in between, followed by an enqueue, works at the same time
  as the run.  The design accepts a later gap (between drawing a button and
  clicking it), which the run closes.
* `HistorySyncRace`: `_history_sync._check` lists the documents before the rows.
  A row the worker marks in between is planned for deletion though its document
  is there.

Limits that follow from the models and are not held against the code by a run:

* A thread that cannot be started.  In the queue, runs that wait stay without a
  worker until the next enqueue (`runner.py:128-134`): `NoLostWakeup` excepts
  it.  In the digest, nothing gives the slot back (`digest_runner.py:183`), and
  it says "running" until the process restarts: `SlotTracksBuilder` excepts it.
* A run that is hidden from the dashboard while it runs is invisible to the
  guards; the designs accept this.  Its category can then be renamed after the
  service's check and just as its result is saved: RESTRICT guards deletions
  only (`categories.py:98`).
* A second click on "save" during the call makes a second document of a digest;
  the draft is not lost (`DraftKept`).
* The armed confirm button of the history page outlives its row: after a
  synchronisation the ID may be another result's.
* An upload whose document was made and whose link was not (crash, lost answer)
  makes a second document next time; the error text says so.
* A click on the delete button of the clean-up page that lands in the moment after
  a refresh has its list and before it has drawn its button presses the older
  button for the newer list (`maintenance.py:24-58`): what has begun since that
  button was drawn can be deleted.  `NotebookCleanup` leaves the moment out.
* A status of the remote login that could not be written (`supervisor.py:376`)
  goes on saying "running" or "starting" with no session behind it, until the
  container restarts.  `StatusTruth` excepts a failed write.
* The profile of a login stays on the volume when it cannot be removed, or when a
  child outlives SIGKILL and writes it again: both are logged, the result is
  written all the same (`supervisor.py:388-395`, `467-471`), and nothing tries
  again before the next session ends or the container restarts.  `NoTraces`
  excepts both: what it rules out is a profile that no one has tried to remove.
* New credentials can be written over.  Every client that was opened with older
  ones may write these back when their cookies are rotated
  (`login_session.py:155-160`; the design calls the damage possible and
  unverified, `2026-09-26-remote-login-design.md:400`, `670`).  `busy` keeps a
  login from being started while a query or a digest is going on, but not the
  other way round; an import has no such guard; and a check, or a page that uses
  NotebookLM, counts as neither.  The next check is then one of the older credentials:
  `NewCredentialsCount` excepts what was covered (`WriteBack`), and excludes only
  that a check takes the verdict back while the newer ones are still stored.
* A channel that is registered after the newest one was deleted gets its ID, and
  the result of the last check in the session is drawn under it
  (`_channel_check.py:106`).
* A pipeline fails as a whole, and the answers it has are lost, when a question
  ends in an error that is not a `ChatError`, or the conversation or the notebook
  cannot be deleted; the docstring (`nlm.py:199-202`) speaks of failures before
  the first question only.  That a question which ends in a `ChatError` leaves no
  conversation on the server is an assumption of `_ask_one`, and of `Pipelines`.
* While Outline answers the request that creates a document, the document is in
  the list already: a synchronisation then inserts a row for it, and the upload
  marks its own, which makes two rows of one document.
* A document that is removed while the list is read shifts the list past another
  one, whose row is planned for deletion; `ListedUnlessRemoved` excepts it.
* The banner reads the gate without its lock.  A tab that is drawn while the
  first check is going on finds `tried` set and `ok` not yet, and says that the
  credentials have expired; a tab that is drawn between the two assignments of a
  failed check says so too.  The next drawing is right.
* A click while an import is going on stops the script before its check: the new
  credentials are in, and the verdict is that on the old ones until somebody
  checks again.  A check that fails does not draw the banner again.

With a second tab, which the design does not assume: a video can be enqueued
twice; one tab can clear a digest that another started since; an upload can mark
the row that got the ID of a row deleted meanwhile, and a plan made before can
then blank a field of it; a category can be deleted
between another tab's choice and its enqueue, and its ID mean another; two tabs
that synchronise can blank a field from a plan that is out of date; a tab that
lost a race of two login starts does not recheck the credentials.

Two scripts at once on the shared connection, from two tabs, or from one that is
loaded again while its script is in a call:

* each commits and rolls back what the other has written so far.  When another
  script rolls back between the two statements of `mark_exported`
  (`run_links.py:46-70`), the answers are deleted and the link is not there;
* two that register the same channel both pass the check; the refused INSERT
  leaves a transaction begun, and the write lock taken (`channels.py:75`); so
  does a channel that one script deletes while another sets its defaults
  (`channels.py:134`);
* a write that waits more than five seconds for the worker leaves a transaction
  begun, and the next drawing takes a read lock that keeps the worker from
  committing until a page writes again;
* the table of questions has no UNIQUE, so that two can add one title twice.

## 7. Not modelled, and plan

Not modelled because they hold no state that others see: text functions in
`core/`, parsing of feeds, wording, drawing, navigation.  Deployment files are
not modelled.

Left out inside modelled parts: titles and baselines of channels; heartbeat
writes that fail, files that cannot be read; the rules for category names; the
texts and the order of questions; an exception in the authentication check that
is not an `Exception`.

Next, in this order:

1. an abstract specification of the catalogue (by name instead of by ID), with
   refinement;
2. the rules for category names as a function, next to the names that a
   synchronisation brings in.
