------------------------------ MODULE Catalogue ------------------------------
(***************************************************************************)
(* Categories and subscribed channels: services/categories.py,             *)
(* services/channels.py and the pages that edit them and use them, next to *)
(* the run worker, which writes categories into the history over its own   *)
(* connection (services/run_history.save_run).                             *)
(*                                                                         *)
(* Rows are known by INTEGER PRIMARY KEY, which SQLite hands out again     *)
(* after the newest row is deleted; queued runs, channel defaults and the  *)
(* result of the last check hold such IDs.  A category must keep its name  *)
(* while a run that uses it is queued, running or in the history, because  *)
(* that name is written into documents.                                    *)
(*                                                                         *)
(* One browser tab.  Left out: titles, dates and questions; the import of  *)
(* categories by the history sync; the limits on the feed.                 *)
(***************************************************************************)
EXTENDS Integers, Sequences, Functions

CONSTANTS
  Names,     \* names of categories
  Feeds,     \* YouTube channels
  Uploads,   \* Uploads[f]: the videos in the feed of channel f
  MaxCategory, MaxChannel,  \* bounds on the row IDs of the two tables
  MaxRuns,   \* bound on the runs ever enqueued
  NoRow,     \* a free row ID
  NoResult   \* no check has been made in this session

ASSUME CatalogueAssumption ==
  /\ MaxCategory \in Nat /\ MaxChannel \in Nat /\ MaxRuns \in Nat
  /\ NoRow \notin Names \cup Feeds

CategoryIds == 1..MaxCategory
ChannelIds  == 1..MaxChannel
Videos      == UNION {Uploads[f] : f \in Feeds}

VARIABLES
  category,  \* table categories: ID -> name
  channel,   \* table channels: ID -> YouTube channel
  default,   \* table channel_categories: channel ID -> category IDs
  run,       \* the runs in the order they were enqueued
  page,      \* the page the tab shows
  step,      \* where the script of the tab stands
  open,      \* categories whose buttons were drawn unlocked
  found,     \* session value channels_found: the last result of a check
  meant      \* history variable: the default category names of each channel

vars == <<category, channel, default, run, page, step, open, found, meant>>

Idle == [at |-> "idle"]

Rows(table) == {i \in DOMAIN table : table[i] # NoRow}

\* The ID an INSERT gives its row: one above the largest in use.
IsNextId(table, i) ==
  /\ \A j \in Rows(table) : j < i
  /\ i = 1 \/ i - 1 \in Rows(table)

Taken(table, value) == \E i \in DOMAIN table : table[i] = value

-----------------------------------------------------------------------------
(* Runs, as far as categories go.  "saved" is the moment between the       *)
(* commit of save_run and registry.complete.                               *)

Pending(r) == r.status \in {"queued", "running", "saved"}

\* A handle of the registry: hidden ones have been removed from it.
Queued(c) == \E i \in DOMAIN run :
                Pending(run[i]) /\ ~run[i].hidden /\ c \in DOMAIN run[i].chosen

IsPending(v) == \E i \in DOMAIN run : Pending(run[i]) /\ ~run[i].hidden /\ run[i].video = v

\* usage(...).runs: the rows of run_categories.
Used(c) == \E i \in DOMAIN run : c \in run[i].links

Known == {run[i].video : i \in {j \in DOMAIN run : run[j].kept}}

\* A new handle holds the IDs; the names they had are remembered for the
\* properties only.
NewRun(v, ids) ==
  [video |-> v, status |-> "queued", hidden |-> FALSE, kept |-> FALSE,
   chosen |-> [c \in ids |-> category[c]], links |-> {}]

KeepRegistered(ids) == ids \cap Rows(category)

\* Enqueues the videos that are not pending, in the order of the list on the
\* page, if any category is left: all of them, or those up to the one whose
\* worker could not be started, which ends the loop.
EnqueueEach(vs, ids) ==
  LET new == {v \in vs : ~IsPending(v)}
      kept == KeepRegistered(ids)
  IN  /\ kept # {}
      /\ \E n \in 0..(MaxRuns - Len(run)) : \E order \in Injection(1..n, new) :
           run' = run \o [i \in 1..n |-> NewRun(order[i], kept)]

\* The worker claims the oldest queued run when it has no other.
Claim ==
  \E i \in DOMAIN run :
    /\ run[i].status = "queued"
    /\ \A j \in DOMAIN run : run[j].status \notin {"running", "saved"}
    /\ \A j \in 1..(i - 1) : run[j].status # "queued"
    /\ run' = [run EXCEPT ![i].status = "running"]
    /\ UNCHANGED <<category, channel, default, page, step, open, found, meant>>

\* save_run: the row, and those chosen categories that still exist, in one
\* transaction of the worker's own connection.
Save ==
  \E i \in DOMAIN run :
    /\ run[i].status = "running"
    /\ run' = [run EXCEPT ![i] = [@ EXCEPT !.status = "saved", !.kept = TRUE,
                                  !.links = DOMAIN run[i].chosen \cap Rows(category)]]
    /\ UNCHANGED <<category, channel, default, page, step, open, found, meant>>

\* registry.complete, or fail: the handle is pending no more.
Complete ==
  \E i \in DOMAIN run :
    /\ run[i].status \in {"running", "saved"}
    /\ run' = [run EXCEPT ![i].status = IF run[i].status = "saved" THEN "done" ELSE "failed"]
    /\ UNCHANGED <<category, channel, default, page, step, open, found, meant>>

Worker == Claim \/ Save \/ Complete

-----------------------------------------------------------------------------
(* The tab moves between pages.  A page that waits for the network is left *)
(* too: its script stops before it stores a result.                        *)

\* Drawing the category page reads the usage of a row first and the
\* registry after it.
Drawing == [at |-> "drawing", used |-> {c \in Rows(category) : Used(c)}]

OpenPage(p) ==
  /\ step.at \in {"idle", "fetching", "drawing"}
  /\ page' = p
  /\ step' = IF p = "categories" THEN Drawing ELSE Idle
  /\ open' = {}
  /\ UNCHANGED <<category, channel, default, run, found, meant>>

\* The query page: one video, with at least one category.
Ask(v, ids) ==
  /\ page = "ask" /\ step = Idle
  /\ ~IsPending(v)
  /\ EnqueueEach({v}, ids)
  /\ UNCHANGED <<category, channel, default, page, step, open, found, meant>>

\* The dashboard hides a row that no longer waits: the handle leaves the
\* registry, and a run that runs goes on.  (Hiding a run that has ended
\* changes nothing here.)
Hide ==
  /\ page = "runs" /\ step = Idle
  /\ \E i \in DOMAIN run :
       /\ run[i].status \in {"running", "saved"} /\ ~run[i].hidden
       /\ run' = [run EXCEPT ![i].hidden = TRUE]
  /\ UNCHANGED <<category, channel, default, page, step, open, found, meant>>

\* The dashboard cancels a run that waits.
Cancel ==
  /\ page = "runs" /\ step = Idle
  /\ \E i \in DOMAIN run :
       /\ run[i].status = "queued"
       /\ run' = [run EXCEPT ![i].status = "lost"]
  /\ UNCHANGED <<category, channel, default, page, step, open, found, meant>>

\* The history page deletes a run; its links go with it.
DeleteRun ==
  /\ page = "runs" /\ step = Idle
  /\ \E i \in DOMAIN run :
       /\ run[i].kept
       /\ run' = [run EXCEPT ![i] = [@ EXCEPT !.kept = FALSE, !.links = {}]]
  /\ UNCHANGED <<category, channel, default, page, step, open, found, meant>>

-----------------------------------------------------------------------------
(* The category page.                                                      *)

\* Mutant: the registry is not asked.
FinishDraw_NotQueued ==
  /\ step.at = "drawing"
  /\ open' = Rows(category) \ step.used
  /\ step' = Idle
  /\ UNCHANGED <<category, channel, default, run, page, found, meant>>

FinishDraw ==
  /\ step.at = "drawing"
  /\ open' = {c \in Rows(category) \ step.used : ~Queued(c)}
  /\ step' = Idle
  /\ UNCHANGED <<category, channel, default, run, page, found, meant>>

OnCategories == page = "categories" /\ step.at \in {"idle", "drawing"}

\* UNIQUE(name) refuses a name in use; every handler ends with a new drawing.
AddCategory(n) ==
  /\ OnCategories
  /\ \/ Taken(category, n) /\ UNCHANGED category
     \/ /\ ~Taken(category, n)
        /\ \E c \in CategoryIds :
             IsNextId(category, c) /\ category' = [category EXCEPT ![c] = n]
  /\ step' = Drawing
  /\ UNCHANGED <<channel, default, run, page, open, found, meant>>

\* Mutant: the services trust the drawing.
AskFor_Trusting(c, what) ==
  /\ OnCategories
  /\ c \in open \cap Rows(category)
  /\ step' = what
  /\ UNCHANGED <<category, channel, default, run, page, open, found, meant>>

\* The services check the history once more: the button may have been drawn
\* before a run was saved, and a press on it counts although the row is
\* locked by now.
AskFor(c, what) ==
  /\ OnCategories
  /\ c \in open \cap Rows(category)
  /\ step' = IF Used(c) THEN Drawing ELSE what
  /\ UNCHANGED <<category, channel, default, run, page, open, found, meant>>

RenameCategory(c, n) == AskFor(c, [at |-> "renaming", id |-> c, name |-> n])
DeleteCategory(c)    == AskFor(c, [at |-> "deleting", id |-> c])

Renamed(f, old, new) == [x \in Feeds |-> {IF n = old THEN new ELSE n : n \in f[x]}]

\* The UPDATE: nothing but UNIQUE(name) stands in its way.
WriteName ==
  /\ step.at = "renaming"
  /\ \/ /\ Taken([category EXCEPT ![step.id] = NoRow], step.name)
        /\ UNCHANGED <<category, meant>>
     \/ /\ ~Taken([category EXCEPT ![step.id] = NoRow], step.name)
        /\ category' = [category EXCEPT ![step.id] = step.name]
        /\ meant' = Renamed(meant, category[step.id], step.name)
  /\ step' = Drawing
  /\ UNCHANGED <<channel, default, run, page, open, found>>

\* Mutant: the foreign key is not enforced.
WriteDeletion_NotRestricted ==
  /\ step.at = "deleting"
  /\ category' = [category EXCEPT ![step.id] = NoRow]
  /\ default' = [k \in ChannelIds |-> default[k] \ {step.id}]
  /\ meant' = [f \in Feeds |-> meant[f] \ {category[step.id]}]
  /\ step' = Drawing
  /\ UNCHANGED <<channel, run, page, open, found>>

\* The DELETE: RESTRICT refuses it for a category of the history, and the
\* links of channels go with the row.
WriteDeletion ==
  /\ step.at = "deleting"
  /\ \/ /\ Used(step.id)
        /\ UNCHANGED <<category, default, meant>>
     \/ /\ ~Used(step.id)
        /\ category' = [category EXCEPT ![step.id] = NoRow]
        /\ default' = [k \in ChannelIds |-> default[k] \ {step.id}]
        /\ meant' = [f \in Feeds |-> meant[f] \ {category[step.id]}]
  /\ step' = Drawing
  /\ UNCHANGED <<channel, run, page, open, found>>

-----------------------------------------------------------------------------
(* The channel page.                                                       *)

OnChannels == page = "channels" /\ step = Idle

NamesOf(ids) == {category[c] : c \in ids}

\* add_channel, after the channel and its feed were looked up.
AddChannel(f, ids) ==
  /\ OnChannels
  /\ ~Taken(channel, f)
  /\ \E k \in ChannelIds :
       /\ IsNextId(channel, k)
       /\ channel' = [channel EXCEPT ![k] = f]
       /\ default' = [default EXCEPT ![k] = @ \cup KeepRegistered(ids)]
  /\ meant' = [meant EXCEPT ![f] = NamesOf(ids)]
  /\ UNCHANGED <<category, run, page, step, open, found>>

\* Mutant: the old links are not deleted first.
SetDefaults_Adds(k, ids) ==
  /\ OnChannels
  /\ channel[k] # NoRow
  /\ default' = [default EXCEPT ![k] = @ \cup KeepRegistered(ids)]
  /\ meant' = [meant EXCEPT ![channel[k]] = NamesOf(ids)]
  /\ UNCHANGED <<category, channel, run, page, step, open, found>>

\* set_default_categories replaces the links of the channel.
SetDefaults(k, ids) ==
  /\ OnChannels
  /\ channel[k] # NoRow
  /\ default' = [default EXCEPT ![k] = KeepRegistered(ids)]
  /\ meant' = [meant EXCEPT ![channel[k]] = NamesOf(ids)]
  /\ UNCHANGED <<category, channel, run, page, step, open, found>>

\* delete_channel: the links go with the row.
DeleteChannel(k) ==
  /\ OnChannels
  /\ channel[k] # NoRow
  /\ channel' = [channel EXCEPT ![k] = NoRow]
  /\ default' = [default EXCEPT ![k] = {}]
  /\ meant' = [meant EXCEPT ![channel[k]] = {}]
  /\ UNCHANGED <<category, run, page, step, open, found>>

\* The check reads which videos the history has, then fetches the feed.
StartCheck(k) ==
  /\ OnChannels
  /\ channel[k] # NoRow
  /\ step' = [at |-> "fetching", id |-> k, known |-> Known]
  /\ UNCHANGED <<category, channel, default, run, page, open, found, meant>>

\* The feed holds some of the uploads; a failed fetch finds none.
FinishCheck ==
  /\ step.at = "fetching"
  /\ \E vs \in SUBSET (Uploads[channel[step.id]] \ step.known) :
       found' = [id |-> step.id, entries |-> vs]
  /\ step' = Idle
  /\ UNCHANGED <<category, channel, default, run, page, open, meant>>

\* A result is drawn when its ID is that of the channel selected.
Drawn == found # NoResult /\ channel[found.id] # NoRow

EnqueueFound(vs, ids) ==
  /\ OnChannels
  /\ Drawn
  /\ vs # {} /\ vs \subseteq found.entries
  /\ EnqueueEach(vs, ids)
  /\ UNCHANGED <<category, channel, default, page, step, open, found, meant>>

-----------------------------------------------------------------------------
\* The process restarts: the registry, the worker and the session are gone,
\* the tables stay.
Restart ==
  /\ run' = [i \in DOMAIN run |-> IF Pending(run[i]) THEN [run[i] EXCEPT !.status = "lost"] ELSE run[i]]
  /\ page' = "ask" /\ step' = Idle /\ open' = {} /\ found' = NoResult
  /\ UNCHANGED <<category, channel, default, meant>>

Init ==
  /\ category = [c \in CategoryIds |-> NoRow]
  /\ channel = [k \in ChannelIds |-> NoRow]
  /\ default = [k \in ChannelIds |-> {}]
  /\ run = <<>>
  /\ page = "ask" /\ step = Idle /\ open = {} /\ found = NoResult
  /\ meant = [f \in Feeds |-> {}]

Chosen == SUBSET Rows(category)

Next ==
  \/ Worker
  \/ \E p \in {"ask", "runs", "categories", "channels"} : OpenPage(p)
  \/ \E v \in Videos, ids \in Chosen : Ask(v, ids)
  \/ Hide \/ Cancel \/ DeleteRun \/ FinishDraw
  \/ \E n \in Names : AddCategory(n)
  \/ \E c \in CategoryIds, n \in Names : RenameCategory(c, n)
  \/ \E c \in CategoryIds : DeleteCategory(c)
  \/ WriteName \/ WriteDeletion
  \/ \E f \in Feeds, ids \in Chosen : AddChannel(f, ids)
  \/ \E k \in ChannelIds, ids \in Chosen : SetDefaults(k, ids)
  \/ \E k \in ChannelIds : DeleteChannel(k) \/ StartCheck(k)
  \/ FinishCheck
  \/ \E vs \in SUBSET Videos, ids \in Chosen : EnqueueFound(vs, ids)
  \/ Restart

Spec == Init /\ [][Next]_vars

-----------------------------------------------------------------------------
Runs == [video: Videos, hidden: BOOLEAN, kept: BOOLEAN, links: SUBSET CategoryIds,
         status: {"queued", "running", "saved", "done", "failed", "lost"},
         chosen: UNION {[ids -> Names] : ids \in (SUBSET CategoryIds) \ {{}}}]

\* The types: a category has one name, a channel one row, defaults and links
\* name rows that exist (the foreign keys).
TypeOK ==
  /\ category \in [CategoryIds -> Names \cup {NoRow}]
  /\ channel \in [ChannelIds -> Feeds \cup {NoRow}]
  /\ IsInjective(Restrict(category, Rows(category)))
  /\ IsInjective(Restrict(channel, Rows(channel)))
  /\ default \in [ChannelIds -> SUBSET Rows(category)]
  /\ \A k \in ChannelIds : default[k] # {} => k \in Rows(channel)
  /\ run \in Seq(Runs)
  /\ \A i \in DOMAIN run : run[i].links \subseteq Rows(category)
  /\ page \in {"ask", "runs", "categories", "channels"}
  /\ open \subseteq CategoryIds

\* A run that waits or runs and is on the dashboard will be written under
\* the category names it was enqueued with: nobody renames or deletes them
\* meanwhile, nor gives their IDs to others (pages/category_admin.py).
PendingNamed ==
  \A i \in DOMAIN run : Pending(run[i]) /\ ~run[i].hidden =>
    \A c \in DOMAIN run[i].chosen : category[c] = run[i].chosen[c]

\* A run of the history has all the categories it was enqueued with, and
\* they still have the names its document was written with.  Runs that were
\* hidden from the dashboard while they ran are the documented exception.
HistoryAsChosen ==
  \A i \in DOMAIN run : run[i].kept /\ ~run[i].hidden =>
    /\ run[i].links = DOMAIN run[i].chosen
    /\ \A c \in run[i].links : category[c] = run[i].chosen[c]

\* Seen by name, the default categories of a channel are those the user gave
\* it and has not deleted since, whatever IDs were freed and used again.
DefaultsMeant ==
  \A k \in Rows(channel) : NamesOf(default[k]) = meant[channel[k]]
=============================================================================
