-------------------------- MODULE HistorySync_proofs --------------------------
(***************************************************************************)
(* Proofs about HistorySync, for any number of documents, rows, names and  *)
(* edits, and for pages of any size.                                       *)
(*                                                                         *)
(* First what plan and apply compute (PlanFor, Applied), then that the     *)
(* state they are used in is as they need it: Fresh says that nothing has  *)
(* changed since the check began, Unread that what stays is listed or      *)
(* still ahead, Pending and Filled that a plan gives a row only values     *)
(* that fill what the row has.                                             *)
(***************************************************************************)
EXTENDS HistorySync, FiniteSetTheorems, SequenceTheorems,
        WellFoundedInduction, TLAPS

Entry == [doc : Docs, head : Header]
Row == [doc : Docs \union {NoDoc}, metadata : Metadata, names : SUBSET Names,
        there : BOOLEAN]

\* The values of a plan.
PlanTypes(p) ==
  /\ p.deletes \subseteq Ids \X Docs
  /\ p.creates \subseteq [at : Nat, doc : Docs, head : Header]
  /\ p.updates \subseteq [id : Ids, doc : Docs, metadata : Metadata]
  /\ p.recategorized \subseteq [id : Ids, doc : Docs, names : SUBSET Names]

\* Its parts do not contradict one another: what comes in belongs to no row
\* that is meant, what goes is not changed, and a row is changed in one way.
PlanParts(p) ==
  /\ IsFiniteSet(p.creates)
  /\ \A b, c \in p.creates : b.at = c.at => b = c
  /\ \A c \in p.creates :
       /\ \A i \in Ids : <<i, c.doc>> \notin p.deletes
       /\ \A u \in p.updates \union p.recategorized : u.doc # c.doc
  /\ \A u \in p.updates \union p.recategorized : <<u.id, u.doc>> \notin p.deletes
  /\ \A u, v \in p.updates : u.id = v.id /\ u.doc = v.doc => u = v
  /\ \A u, v \in p.recategorized : u.id = v.id /\ u.doc = v.doc => u = v
  /\ \A u \in p.recategorized : u.names # {}

PlanOK(p) == PlanTypes(p) /\ PlanParts(p)

TypesOK ==
  /\ rows \in [Ids -> Row]
  /\ known \subseteq Names
  /\ shelf \in Seq(Docs)
  /\ head \in [Docs -> Header \union {NoHead, GoneHead}]
  /\ uploading \in {NoUpload} \union [id : Ids, doc : Docs]
  /\ pc \in {"idle", "list", "plan"}
  /\ listed \in Seq(Entry)
  /\ stayed \subseteq Docs
  /\ since \in {"nothing", "change", "removal"}

\* The collection has a document once, and it can be read; a row that has a
\* document is there.
Shelved ==
  /\ \A j, k \in DOMAIN shelf : shelf[j] = shelf[k] => j = k
  /\ \A k \in DOMAIN shelf : head[shelf[k]] \in Header
  /\ \A i \in Ids : rows[i].doc # NoDoc => rows[i].there

\* The documents that a plan mentions.
DocsOf(p) == {x[2] : x \in p.deletes} \union {c.doc : c \in p.creates}
             \union {u.doc : u \in p.updates \union p.recategorized}

\* Whatever is known of a document, the document was made.
Made ==
  \A d \in Docs : head[d] = NoHead =>
    /\ \A i \in Ids : rows[i].doc # d
    /\ uploading.doc # d
    /\ d \notin Listed(listed)
    /\ d \notin DocsOf(plan)

\* A document that has stayed is in the list, or on a page that was not read.
Unread ==
  /\ pc = "idle" => listed = <<>>
  /\ pc = "list" /\ since # "removal" =>
       \A d \in stayed : \/ d \in Listed(listed)
                         \/ \E k \in DOMAIN shelf : k > Len(listed) /\ shelf[k] = d

\* While nothing changes, the list is what is there, and so is the plan.
Fresh ==
  since = "nothing" =>
    /\ pc = "list" => /\ Len(listed) <= Len(shelf)
                      /\ \A k \in DOMAIN listed : listed[k] = Current[k]
    /\ pc = "plan" => listed = Current
    /\ pc = "idle" => plan = PlanFor(rows, Current, known)

\* Every value of the row is one in what is written over it.
Fills(new, old) ==
  /\ old.channel # Blank => new.channel # Blank
  /\ old.date # Blank => new.date # Blank

\* A row that the plan will write to has nothing that would be blanked.
Filled ==
  \A u \in plan.updates :
    rows[u.id].doc = u.doc => Fills(u.metadata, rows[u.id].metadata)

\* No row becomes one the plan writes to: the worker still has the row that it
\* uploads, or that row is gone.
Pending ==
  uploading # NoUpload /\ rows[uploading.id].there
    /\ rows[uploading.id].doc = NoDoc
  => \A u \in plan.updates : u.id = uploading.id => u.doc # uploading.doc

IInv ==
  /\ TypesOK /\ PlanOK(plan) /\ Shelved /\ Made /\ Unread
  /\ ListedUnlessRemoved /\ Fresh /\ Filled /\ Pending

-----------------------------------------------------------------------------
(* Numbers and positions. *)

\* A set of numbers that has a bound has a largest member, and Max finds it.
LEMMA MaxIsLargest ==
  ASSUME NEW T, T \subseteq Nat, T # {}, NEW n \in Nat, \A t \in T : t <= n
  PROVE  Max(T) \in T /\ \A t \in T : t <= Max(T)
<1> DEFINE U == {n - t : t \in T}
<1>1. U \subseteq Nat /\ U # {}
  <2>1. \A t \in T : n - t \in Nat
    OBVIOUS
  <2> QED BY <2>1
<1>2. \E x \in U : \A y \in U : ~ (<<y, x>> \in OpToRel(<, Nat))
  <2> HIDE DEF U
  <2> QED BY <1>1, NatLessThanWellFounded, WFMin, Zenon
<1>3. PICK x \in U : \A y \in U : ~ (y < x)
  BY <1>1, <1>2 DEF OpToRel
<1>4. PICK m \in T : x = n - m
  OBVIOUS
<1>5. \A t \in T : m >= t
  <2> TAKE t \in T
  <2>1. ~ (n - t < n - m)
    BY <1>3, <1>4
  <2>2. m \in Nat /\ t \in Nat
    OBVIOUS
  <2> HIDE DEF U
  <2> QED BY <2>1, <2>2
<1>6. Max(T) \in T /\ \A t \in T : Max(T) >= t
  BY <1>5 DEF Max
<1> QED BY <1>6

\* The next ID is free, and so are those behind it.
LEMMA NextIdIsNew ==
  ASSUME NEW table
  PROVE  /\ NextId(table) \in Nat \ {0}
         /\ \A i \in Live(table) : i < NextId(table)
<1> DEFINE T == Live(table) \union {0}
<1>1. T \subseteq Nat /\ T # {} /\ MaxRow \in Nat /\ \A t \in T : t <= MaxRow
  BY SyncAssumption DEF Live, Ids
<1>2. Max(T) \in T /\ \A t \in T : t <= Max(T)
  <2> HIDE DEF T
  <2> QED BY <1>1, MaxIsLargest, Zenon
<1> QED BY <1>1, <1>2 DEF NextId

\* The dict has an entry of the list for each document of the list.
LEMMA FoundInList ==
  ASSUME NEW documents \in Seq(Entry), NEW d \in Listed(documents)
  PROVE  \E k \in DOMAIN documents : /\ documents[k].doc = d
                                     /\ Found(documents, d) = documents[k].head
<1> DEFINE T == {k \in DOMAIN documents : documents[k].doc = d}
<1>1. /\ T # {} /\ T \subseteq Nat
      /\ Len(documents) \in Nat /\ \A t \in T : t <= Len(documents)
  BY DEF Listed
<1>2. Max(T) \in T
  <2> HIDE DEF T
  <2> QED BY <1>1, MaxIsLargest, Zenon
<1> QED BY <1>2 DEF Found

-----------------------------------------------------------------------------
(* plan. *)

\* _merge: what is merged is typed, fills the row, and is merged once for all.
LEMMA MergeFills ==
  ASSUME NEW local \in Metadata, NEW found \in Metadata
  PROVE  /\ Merge(local, found) \in Metadata
         /\ Fills(Merge(local, found), local)
         /\ Merge(Merge(local, found), found) = Merge(local, found)
         /\ Merge(found, found) = found
  BY DEF Merge, Metadata, Fills

\* What the dict has for a listed document is the head of a document.
LEMMA FoundTypes ==
  ASSUME NEW documents \in Seq(Entry), NEW d \in Listed(documents)
  PROVE  /\ Found(documents, d) \in Header
         /\ Found(documents, d).metadata \in Metadata
         /\ Found(documents, d).names \subseteq Names
<1>1. PICK k \in DOMAIN documents : Found(documents, d) = documents[k].head
  BY FoundInList
<1>2. documents[k] \in Entry
  OBVIOUS
<1> QED BY <1>1, <1>2 DEF Entry, Header

\* A plan's updates: exported rows whose document is listed, once each, with
\* values that fill theirs.
LEMMA UpdatesOfRows ==
  ASSUME NEW table \in [Ids -> Row], NEW documents \in Seq(Entry),
         NEW u \in Updates(table, documents)
  PROVE  /\ u \in [id : Ids, doc : Docs, metadata : Metadata]
         /\ u.id \in Matched(table, documents) /\ u.doc = table[u.id].doc
         /\ u.metadata = Merge(table[u.id].metadata,
                               Found(documents, u.doc).metadata)
         /\ Fills(u.metadata, table[u.id].metadata)
<1>1. PICK i \in Matched(table, documents) :
        u = [id |-> i, doc |-> table[i].doc,
             metadata |-> Merge(table[i].metadata,
                                Found(documents, table[i].doc).metadata)]
  BY DEF Updates
<1>2. /\ i \in Ids /\ table[i].doc \in Docs /\ table[i].metadata \in Metadata
      /\ table[i].doc \in Listed(documents)
  BY DEF Matched, Exported, Row
<1> QED BY <1>1, <1>2, FoundTypes, MergeFills

\* The changes of categories likewise; they name what the document names, and
\* that is something.
LEMMA ChangesOfRows ==
  ASSUME NEW table \in [Ids -> Row], NEW documents \in Seq(Entry),
         NEW u \in Recategorized(table, documents)
  PROVE  /\ u \in [id : Ids, doc : Docs, names : SUBSET Names]
         /\ u.id \in Matched(table, documents) /\ u.doc = table[u.id].doc
         /\ u.names = Found(documents, u.doc).names
         /\ u.names # {}
<1>1. PICK i \in Matched(table, documents) :
        /\ u = [id |-> i, doc |-> table[i].doc,
                names |-> Found(documents, table[i].doc).names]
        /\ Found(documents, table[i].doc).names # {}
  BY DEF Recategorized
<1>2. i \in Ids /\ table[i].doc \in Docs /\ table[i].doc \in Listed(documents)
  BY DEF Matched, Exported, Row
<1> QED BY <1>1, <1>2, FoundTypes

\* What comes in was listed, at one place, and no row has it.
LEMMA CreatesListed ==
  ASSUME NEW table, NEW documents \in Seq(Entry)
  PROVE  /\ IsFiniteSet(Creates(table, documents))
         /\ \A c \in Creates(table, documents) :
              /\ c \in [at : Nat, doc : Docs, head : Header]
              /\ c.at \in DOMAIN documents
              /\ c.doc = documents[c.at].doc /\ c.head = documents[c.at].head
              /\ \A i \in Ids : table[i].doc # c.doc
         /\ \A b, c \in Creates(table, documents) : b.at = c.at => b = c
<1> DEFINE C == Creates(table, documents)
           f == [c \in C |-> c.at]
           n == Len(documents)
<1>1. \A c \in C : \E k \in 1..n :
        /\ c = [at |-> k, doc |-> documents[k].doc, head |-> documents[k].head]
        /\ \A i \in Ids : table[i].doc # documents[k].doc
  BY DEF Creates
<1>2. n \in Nat /\ DOMAIN documents = 1..n /\ \A k \in 1..n : documents[k] \in Entry
  OBVIOUS
<1>3. \A c \in C : /\ c.at \in 1..n
                   /\ c = [at |-> c.at, doc |-> documents[c.at].doc,
                           head |-> documents[c.at].head]
                   /\ \A i \in Ids : table[i].doc # c.doc
  BY <1>1
<1>4. \A c \in C : /\ c \in [at : Nat, doc : Docs, head : Header]
                   /\ c.doc = documents[c.at].doc
                   /\ c.head = documents[c.at].head
  <2> HIDE DEF C
  <2> QED BY <1>2, <1>3 DEF Entry
<1>5. \A b, c \in C : b.at = c.at => b = c
  <2> HIDE DEF C
  <2> QED BY <1>3
<1>6. IsFiniteSet(C)
  <2> HIDE DEF C
  <2>1. f \in Injection(C, 1..n)
    BY <1>3, <1>5 DEF Injection, IsInjective
  <2>2. IsFiniteSet(1..n)
    BY <1>2, FS_Interval
  <2> HIDE DEF f, n
  <2> QED BY <2>1, <2>2, FS_Injection, Zenon
<1> QED BY <1>2, <1>3, <1>4, <1>5, <1>6

\* A plan for any rows and any list of documents is one that can be carried
\* out, and mentions documents of rows and of the list only.
LEMMA PlanForOK ==
  ASSUME NEW table \in [Ids -> Row], NEW documents \in Seq(Entry), NEW names
  PROVE  /\ PlanOK(PlanFor(table, documents, names))
         /\ DocsOf(PlanFor(table, documents, names))
              \subseteq {table[i].doc : i \in Ids} \union Listed(documents)
<1> DEFINE p == PlanFor(table, documents, names)
<1>1. /\ p.creates = Creates(table, documents)
      /\ p.updates = Updates(table, documents)
      /\ p.recategorized = Recategorized(table, documents)
      /\ p.deletes = {<<i, table[i].doc>> :
                        i \in Exported(table) \ Matched(table, documents)}
  BY DEF PlanFor
<1> HIDE DEF p
<1>2. \A x \in p.deletes :
        /\ x \in Ids \X Docs /\ x[2] = table[x[1]].doc
        /\ x[2] \notin Listed(documents)
  BY <1>1 DEF Exported, Matched, Row
<1>3. \A c \in p.creates : c.doc \in Listed(documents)
  BY <1>1, CreatesListed DEF Listed
<1>4. \A u \in p.updates \union p.recategorized :
        /\ u.id \in Ids /\ u.doc = table[u.id].doc
        /\ u.doc \in Listed(documents)
  BY <1>1, UpdatesOfRows, ChangesOfRows DEF Matched, Exported
<1>5. PlanTypes(p)
  BY <1>1, <1>2, UpdatesOfRows, ChangesOfRows, CreatesListed DEF PlanTypes
<1>6. PlanParts(p)
  <2>1. IsFiniteSet(p.creates) /\ \A b, c \in p.creates : b.at = c.at => b = c
    BY <1>1, CreatesListed
  <2>2. \A c \in p.creates :
          /\ \A i \in Ids : <<i, c.doc>> \notin p.deletes
          /\ \A u \in p.updates \union p.recategorized : u.doc # c.doc
    BY <1>1, <1>2, <1>3, <1>4, CreatesListed
  <2>3. \A u \in p.updates \union p.recategorized :
          <<u.id, u.doc>> \notin p.deletes
    BY <1>2, <1>4
  <2>4. \A u, v \in p.updates : u.id = v.id /\ u.doc = v.doc => u = v
    BY <1>1 DEF Updates
  <2>5. \A u, v \in p.recategorized : u.id = v.id /\ u.doc = v.doc => u = v
    BY <1>1 DEF Recategorized
  <2>6. \A u \in p.recategorized : u.names # {}
    BY <1>1, ChangesOfRows
  <2> QED BY <2>1, <2>2, <2>3, <2>4, <2>5, <2>6 DEF PlanParts
<1>7. DocsOf(p) \subseteq {table[i].doc : i \in Ids} \union Listed(documents)
  BY <1>2, <1>3, <1>4, <1>5 DEF DocsOf, PlanTypes
<1> QED BY <1>5, <1>6, <1>7 DEF PlanOK, p

-----------------------------------------------------------------------------
(* apply. *)

\* The members of a finite set that stand at different places have different
\* ranks, from none before to all others before.
LEMMA Ranks ==
  ASSUME NEW N, IsFiniteSet(N), \A c \in N : c.at \in Nat,
         \A b, c \in N : b.at = c.at => b = c
  PROVE  LET before(c) == {b \in N : b.at < c.at}
         IN  /\ \A c \in N : /\ Cardinality(before(c)) \in Nat
                             /\ Cardinality(before(c)) < Cardinality(N)
             /\ \A b, c \in N : b # c =>
                  Cardinality(before(b)) # Cardinality(before(c))
<1> DEFINE before(c) == {b \in N : b.at < c.at}
<1>1. Cardinality(N) \in Nat
  BY FS_CardinalityType
<1>2. \A c \in N : /\ IsFiniteSet(before(c))
                   /\ Cardinality(before(c)) \in Nat
                   /\ Cardinality(before(c)) < Cardinality(N)
  <2> TAKE c \in N
  <2>1. before(c) \in SUBSET N /\ before(c) # N
    <3>1. ~ (c.at < c.at)
      OBVIOUS
    <3> QED BY <3>1
  <2>2. IsFiniteSet(before(c)) /\ Cardinality(before(c)) <= Cardinality(N)
        /\ (Cardinality(N) = Cardinality(before(c)) => N = before(c))
    BY <2>1, FS_Subset, Zenon
  <2>3. Cardinality(before(c)) \in Nat
    BY <2>2, FS_CardinalityType
  <2> QED BY <1>1, <2>1, <2>2, <2>3
<1>3. \A b, c \in N : b.at < c.at =>
        Cardinality(before(b)) # Cardinality(before(c))
  <2> SUFFICES ASSUME NEW b \in N, NEW c \in N, b.at < c.at
               PROVE  Cardinality(before(b)) # Cardinality(before(c))
    OBVIOUS
  <2>1. before(b) \in SUBSET before(c)
    OBVIOUS
  <2>2. b \in before(c) /\ b \notin before(b)
    OBVIOUS
  <2> HIDE DEF before
  <2>3. Cardinality(before(c)) = Cardinality(before(b)) => before(c) = before(b)
    BY <1>2, <2>1, FS_Subset, Zenon
  <2> QED BY <2>2, <2>3
<1>4. \A b, c \in N : b # c =>
        Cardinality(before(b)) # Cardinality(before(c))
  <2> SUFFICES ASSUME NEW b \in N, NEW c \in N, b # c
               PROVE  Cardinality(before(b)) # Cardinality(before(c))
    OBVIOUS
  <2>1. b.at < c.at \/ c.at < b.at
    OBVIOUS
  <2> HIDE DEF before
  <2> QED BY <1>3, <2>1
<1> QED BY <1>2, <1>4

\* The rows without those that go, the entries that come in, and the ID that
\* each of these gets.
Cleared(p) == DeleteRuns(rows, p.deletes)
Came(p) == Missing(Cleared(p), p.creates)
Place(p, c) ==
  NextId(Cleared(p)) + Cardinality({b \in Came(p) : b.at < c.at})

\* What is known where apply is called.
Applicable(p) ==
  /\ rows \in [Ids -> Row] /\ known \subseteq Names
  /\ \A i \in Ids : rows[i].doc # NoDoc => rows[i].there
  /\ PlanOK(p)
  /\ NextId(Cleared(p)) + Cardinality(p.creates) <= MaxRow + 1

\* The entries that come in have IDs of their own, of rows that are not there.
LEMMA PlacesAreFree ==
  ASSUME NEW p, Applicable(p)
  PROVE  /\ Cleared(p) \in [Ids -> Row]
         /\ \A c \in Came(p) : /\ Place(p, c) \in Ids
                               /\ ~ Cleared(p)[Place(p, c)].there
         /\ \A b, c \in Came(p) : Place(p, b) = Place(p, c) => b = c
<1> DEFINE N == Came(p)
<1>1. Cleared(p) \in [Ids -> Row]
  <2>1. NoRow \in Row
    BY DEF NoRow, Row, Metadata, Blank
  <2> QED BY <2>1 DEF Cleared, DeleteRuns, Applicable
<1>2. /\ N \in SUBSET p.creates /\ IsFiniteSet(p.creates)
      /\ \A c \in p.creates : c.at \in Nat
      /\ \A b, c \in p.creates : b.at = c.at => b = c
  BY DEF Came, Missing, Applicable, PlanOK, PlanTypes, PlanParts
<1>3. /\ IsFiniteSet(N)
      /\ Cardinality(N) \in Nat /\ Cardinality(p.creates) \in Nat
      /\ Cardinality(N) <= Cardinality(p.creates)
  BY <1>2, FS_Subset, FS_CardinalityType
<1>4. /\ NextId(Cleared(p)) \in Nat \ {0}
      /\ \A i \in Live(Cleared(p)) : i < NextId(Cleared(p))
  BY NextIdIsNew
<1> DEFINE rank(c) == Cardinality({b \in N : b.at < c.at})
<1>5. /\ \A c \in N : rank(c) \in Nat /\ rank(c) < Cardinality(N)
      /\ \A b, c \in N : b # c => rank(b) # rank(c)
  <2> HIDE DEF N
  <2>1. \A c \in N : c.at \in Nat
    BY <1>2
  <2>2. \A b, c \in N : b.at = c.at => b = c
    BY <1>2
  <2> QED BY <1>3, <2>1, <2>2, Ranks
<1>6. \A c \in N : Place(p, c) = NextId(Cleared(p)) + rank(c)
  BY DEF Place
<1> HIDE DEF rank, N
<1>7. \A c \in N : Place(p, c) \in Ids /\ Place(p, c) >= NextId(Cleared(p))
  BY <1>3, <1>4, <1>5, <1>6, SyncAssumption DEF Applicable, Ids
<1>8. \A c \in N : ~ Cleared(p)[Place(p, c)].there
  <2> TAKE c \in N
  <2>1. Place(p, c) \notin Live(Cleared(p))
    BY <1>4, <1>7 DEF Ids
  <2> QED BY <1>7, <2>1 DEF Live
<1>9. \A b, c \in N : Place(p, b) = Place(p, c) => b = c
  BY <1>4, <1>5, <1>6
<1> QED BY <1>1, <1>7, <1>8, <1>9 DEF N

\* The rows after insert_exported.
Extended(p) == InsertExported(Cleared(p), p.creates, Ensure(p))

Comes(c) == [doc |-> c.doc, metadata |-> c.head.metadata,
             names |-> c.head.names, there |-> TRUE]

\* insert_exported writes what came in at its places, and nothing elsewhere:
\* its names are in the table by then.
LEMMA ExtendedRows ==
  ASSUME NEW p, Applicable(p)
  PROVE  /\ Extended(p) \in [Ids -> Row]
         /\ \A c \in Came(p) : Extended(p)[Place(p, c)] = Comes(c)
         /\ \A i \in Ids : (\A c \in Came(p) : Place(p, c) # i)
              => Extended(p)[i] = Cleared(p)[i]
<1> DEFINE row(c) == [doc |-> c.doc, metadata |-> c.head.metadata,
                      names |-> c.head.names \intersect Ensure(p),
                      there |-> TRUE]
           mine(i) == CHOOSE c \in Came(p) : Place(p, c) = i
<1>1. Extended(p) = [i \in Ids |-> IF \E c \in Came(p) : Place(p, c) = i
                                   THEN row(mine(i)) ELSE Cleared(p)[i]]
  BY DEF Extended, InsertExported, Came, Place
<1>2. \A c \in Came(p) : row(c) = Comes(c) /\ row(c) \in Row
  <2> TAKE c \in Came(p)
  <2>1. c \in p.creates /\ c \in [at : Nat, doc : Docs, head : Header]
    BY DEF Came, Missing, Applicable, PlanOK, PlanTypes
  <2>2. c.head.names \subseteq Ensure(p)
    BY <2>1 DEF Ensure, Referenced
  <2>3. row(c) = Comes(c)
    BY <2>2 DEF Comes
  <2>4. Comes(c) \in Row
    BY <2>1 DEF Comes, Row, Header
  <2> QED BY <2>3, <2>4
<1>3. \A c \in Came(p) : Place(p, c) \in Ids /\ mine(Place(p, c)) = c
  BY PlacesAreFree
<1>4. \A i \in Ids : (\E c \in Came(p) : Place(p, c) = i) => mine(i) \in Came(p)
  OBVIOUS
<1>5. Cleared(p) \in [Ids -> Row]
  BY PlacesAreFree
<1> HIDE DEF row, mine
<1>6. Extended(p) \in [Ids -> Row]
  <2>1. \A i \in Ids : (IF \E c \in Came(p) : Place(p, c) = i
                        THEN row(mine(i)) ELSE Cleared(p)[i]) \in Row
    BY <1>2, <1>4, <1>5
  <2> QED BY <1>1, <2>1
<1>7. \A c \in Came(p) : Extended(p)[Place(p, c)] = Comes(c)
  BY <1>1, <1>2, <1>3
<1>8. \A i \in Ids : (\A c \in Came(p) : Place(p, c) # i)
        => Extended(p)[i] = Cleared(p)[i]
  BY <1>1
<1> QED BY <1>6, <1>7, <1>8

\* The updates and changes that a row gets.
UpdatesOf(p, i) ==
  {u \in p.updates : u.id = i /\ u.doc = Extended(p)[i].doc}
ChangesOf(p, i) ==
  {u \in p.recategorized : u.id = i /\ u.doc = Extended(p)[i].doc}

\* write_metadata and replace_categories: a row gets the one value that the
\* plan has for it, and keeps its document.
LEMMA WrittenRows ==
  ASSUME NEW p, Applicable(p), NEW i \in Ids
  PROVE  /\ Applied(p)[i] \in Row
         /\ Applied(p)[i].doc = Extended(p)[i].doc
         /\ Applied(p)[i].there = Extended(p)[i].there
         /\ UpdatesOf(p, i) = {} =>
              Applied(p)[i].metadata = Extended(p)[i].metadata
         /\ \A u \in UpdatesOf(p, i) : Applied(p)[i].metadata = u.metadata
         /\ ChangesOf(p, i) = {} =>
              Applied(p)[i].names = Extended(p)[i].names
         /\ \A u \in ChangesOf(p, i) : Applied(p)[i].names = u.names
<1> DEFINE E == Extended(p)
           W == WriteMetadata(E, p.updates)
<1>1. E \in [Ids -> Row] /\ E[i] \in Row
  BY ExtendedRows
<1>2. Applied(p) = ReplaceCategories(W, p.recategorized, Ensure(p))
  BY DEF Applied, Extended, Cleared
<1>3. /\ W[i].doc = E[i].doc /\ W[i].there = E[i].there /\ W[i].names = E[i].names
      /\ UpdatesOf(p, i) = {} => W[i].metadata = E[i].metadata
      /\ \A u \in UpdatesOf(p, i) : W[i].metadata = u.metadata
      /\ W[i] \in Row
  <2>1. CASE UpdatesOf(p, i) = {}
    <3>1. W[i] = E[i]
      BY <2>1 DEF WriteMetadata, UpdatesOf
    <3> QED BY <1>1, <2>1, <3>1
  <2>2. CASE UpdatesOf(p, i) # {}
    <3> DEFINE v == CHOOSE u \in UpdatesOf(p, i) : TRUE
    <3>1. v \in UpdatesOf(p, i) /\ v.metadata \in Metadata
      BY <2>2 DEF UpdatesOf, Applicable, PlanOK, PlanTypes
    <3>2. W[i] = [E[i] EXCEPT !.metadata = v.metadata]
      BY <2>2 DEF WriteMetadata, UpdatesOf
    <3>3. \A u \in UpdatesOf(p, i) : u = v
      BY <3>1 DEF UpdatesOf, Applicable, PlanOK, PlanParts
    <3> HIDE DEF v, E, W
    <3> QED BY <1>1, <2>2, <3>1, <3>2, <3>3 DEF Row
  <2> QED BY <2>1, <2>2
<1> HIDE DEF W
<1>4. /\ Applied(p)[i].doc = W[i].doc /\ Applied(p)[i].there = W[i].there
      /\ Applied(p)[i].metadata = W[i].metadata
      /\ ChangesOf(p, i) = {} => Applied(p)[i].names = W[i].names
      /\ \A u \in ChangesOf(p, i) : Applied(p)[i].names = u.names
      /\ Applied(p)[i] \in Row
  <2> DEFINE D == {c \in p.recategorized : c.id = i /\ c.doc = W[i].doc}
  <2>0. ChangesOf(p, i) = D
    BY <1>3 DEF ChangesOf
  <2>1. CASE D = {}
    <3>1. Applied(p)[i] = W[i]
      BY <1>2, <2>1 DEF ReplaceCategories
    <3> QED BY <1>3, <2>0, <2>1, <3>1
  <2>2. CASE D # {}
    <3> DEFINE v == CHOOSE c \in D : TRUE
    <3>1. v \in D /\ v.names \subseteq Names /\ v \in p.recategorized
      BY <2>2 DEF Applicable, PlanOK, PlanTypes
    <3>2. Applied(p)[i] = [W[i] EXCEPT !.names = v.names \intersect Ensure(p)]
      BY <1>2, <2>2 DEF ReplaceCategories
    <3>3. v.names \intersect Ensure(p) = v.names
      <4> HIDE DEF v
      <4>1. v.names \in {c.names : c \in p.recategorized}
        BY <3>1
      <4> QED BY <4>1 DEF Ensure, Referenced
    <3>4. \A u \in D : u = v
      BY <3>1 DEF Applicable, PlanOK, PlanParts
    <3> HIDE DEF v, D
    <3> QED BY <1>3, <2>0, <2>2, <3>1, <3>2, <3>3, <3>4 DEF Row
  <2> QED BY <2>1, <2>2
<1> QED BY <1>3, <1>4

\* A row that nothing comes in at and that stays: it keeps its document, and
\* has what the plan has for it or else what it had.
LEMMA AppliedElsewhere ==
  ASSUME NEW p, Applicable(p), NEW i \in Ids, \A c \in Came(p) : Place(p, c) # i,
         <<i, rows[i].doc>> \notin p.deletes
  PROVE  /\ Applied(p)[i].doc = rows[i].doc /\ Applied(p)[i].there = rows[i].there
         /\ \A u \in p.updates : u.id = i /\ u.doc = rows[i].doc
              => Applied(p)[i].metadata = u.metadata
         /\ (\A u \in p.updates : u.id = i => u.doc # rows[i].doc)
              => Applied(p)[i].metadata = rows[i].metadata
         /\ \A u \in p.recategorized : u.id = i /\ u.doc = rows[i].doc
              => Applied(p)[i].names = u.names
         /\ (\A u \in p.recategorized : u.id = i => u.doc # rows[i].doc)
              => Applied(p)[i].names = rows[i].names
<1>1. Extended(p)[i] = rows[i]
  BY ExtendedRows DEF Cleared, DeleteRuns
<1> QED BY <1>1, WrittenRows DEF UpdatesOf, ChangesOf

\* A row that nothing comes in at and that goes.
LEMMA AppliedGone ==
  ASSUME NEW p, Applicable(p), NEW i \in Ids, \A c \in Came(p) : Place(p, c) # i,
         <<i, rows[i].doc>> \in p.deletes
  PROVE  Applied(p)[i].doc = NoDoc
<1>1. Extended(p)[i] = NoRow
  BY ExtendedRows DEF Cleared, DeleteRuns
<1> QED BY <1>1, WrittenRows DEF NoRow

\* A row that comes in is as its entry says: the plan has nothing else for it.
LEMMA AppliedComes ==
  ASSUME NEW p, Applicable(p), NEW c \in Came(p)
  PROVE  Place(p, c) \in Ids /\ Applied(p)[Place(p, c)] = Comes(c)
<1> DEFINE i == Place(p, c)
<1>1. i \in Ids /\ Extended(p)[i] = Comes(c)
  BY PlacesAreFree, ExtendedRows
<1>2. c \in p.creates /\ \A u \in p.updates \union p.recategorized : u.doc # c.doc
  BY DEF Came, Missing, Applicable, PlanOK, PlanParts
<1> HIDE DEF i
<1>3. UpdatesOf(p, i) = {} /\ ChangesOf(p, i) = {}
  BY <1>1, <1>2 DEF UpdatesOf, ChangesOf, Comes
<1>4. /\ Applied(p)[i] \in Row /\ Applied(p)[i].doc = Comes(c).doc
      /\ Applied(p)[i].there = Comes(c).there
      /\ Applied(p)[i].metadata = Comes(c).metadata
      /\ Applied(p)[i].names = Comes(c).names
  BY <1>1, <1>3, WrittenRows
<1>5. Applied(p)[i] = Comes(c)
  BY <1>4 DEF Row, Comes
<1> QED BY <1>1, <1>5 DEF i

\* A row of the table after apply is one of these three, and as many rows have
\* a document as there should be.
LEMMA AppliedTypes ==
  ASSUME NEW p, Applicable(p)
  PROVE  /\ Applied(p) \in [Ids -> Row]
         /\ \A i \in Ids : Applied(p)[i].doc # NoDoc => Applied(p)[i].there
         /\ \A i \in Ids : Applied(p)[i].doc # NoDoc =>
              \/ Applied(p)[i].doc = rows[i].doc
              \/ \E c \in p.creates : Applied(p)[i].doc = c.doc
<1>1. Applied(p) \in [Ids -> Row]
  <2>1. \A i \in Ids : Applied(p)[i] \in Row
    BY WrittenRows
  <2>2. Applied(p) = [i \in Ids |-> Applied(p)[i]]
    BY DEF Applied, ReplaceCategories
  <2> HIDE DEF Row
  <2> QED BY <2>1, <2>2
<1>2. ASSUME NEW i \in Ids, Applied(p)[i].doc # NoDoc
      PROVE  /\ Applied(p)[i].there
             /\ \/ Applied(p)[i].doc = rows[i].doc
                \/ \E c \in p.creates : Applied(p)[i].doc = c.doc
  <2>1. CASE \E c \in Came(p) : Place(p, c) = i
    <3>1. PICK c \in Came(p) : Place(p, c) = i
      BY <2>1
    <3>2. c \in p.creates
      BY DEF Came, Missing
    <3>3. Applied(p)[i] = Comes(c)
      BY <3>1, AppliedComes
    <3> QED BY <3>2, <3>3 DEF Comes
  <2>2. CASE \A c \in Came(p) : Place(p, c) # i
    BY <1>2, <2>2, AppliedElsewhere, AppliedGone DEF Applicable
  <2> QED BY <2>1, <2>2
<1> QED BY <1>1, <1>2

\* Nothing comes in at a row that is there and stays.
LEMMA LiveStays ==
  ASSUME NEW p, Applicable(p), NEW i \in Ids, rows[i].there,
         <<i, rows[i].doc>> \notin p.deletes
  PROVE  \A c \in Came(p) : Place(p, c) # i
<1>1. Cleared(p)[i] = rows[i]
  BY DEF Cleared, DeleteRuns
<1> QED BY <1>1, PlacesAreFree

\* Of the entries of a document that no row has, the first comes in.
LEMMA FirstComes ==
  ASSUME NEW p, Applicable(p), NEW b \in p.creates,
         \A i \in Ids : rows[i].doc # b.doc
  PROVE  \E c \in Came(p) : c.doc = b.doc
<1> DEFINE T == {c.at : c \in {e \in p.creates : e.doc = b.doc}}
<1>1. p.creates \subseteq [at : Nat, doc : Docs, head : Header]
  BY DEF Applicable, PlanOK, PlanTypes
<1>2. T \subseteq Nat /\ T # {}
  BY <1>1
<1>3. PICK m \in T : \A t \in T : ~ (t < m)
  <2> HIDE DEF T
  <2>1. \E x \in T : \A y \in T : ~ (<<y, x>> \in OpToRel(<, Nat))
    BY <1>2, NatLessThanWellFounded, WFMin, Zenon
  <2> QED BY <1>2, <2>1 DEF OpToRel
<1>4. PICK c \in p.creates : c.doc = b.doc /\ c.at = m
  OBVIOUS
<1>5. \A e \in p.creates : e.at < c.at => e.doc # c.doc
  BY <1>3, <1>4
<1>6. \A i \in Ids : Cleared(p)[i].doc # c.doc
  <2>1. c.doc # NoDoc
    BY <1>1 DEF Docs, NoDoc
  <2> QED BY <1>4, <2>1 DEF Cleared, DeleteRuns, NoRow
<1> QED BY <1>4, <1>5, <1>6 DEF Came, Missing

\* After apply every document of the plan that had no row has one row, with the
\* categories of one of its entries.
LEMMA OneRowEach ==
  ASSUME NEW p, Applicable(p), NEW b \in p.creates,
         \A i \in Ids : rows[i].doc # b.doc
  PROVE  \E c \in p.creates, i \in Ids :
           /\ c.doc = b.doc /\ Applied(p)[i] = Comes(c)
           /\ {j \in Ids : Applied(p)[j].doc = b.doc} = {i}
<1>1. PICK c \in Came(p) : c.doc = b.doc
  BY FirstComes
<1>2. /\ c \in p.creates /\ c.doc # NoDoc
      /\ \A a \in p.creates : a.at \in Nat
      /\ \A a, e \in p.creates : a.at = e.at => a = e
  BY DEF Came, Missing, Applicable, PlanOK, PlanTypes, PlanParts, Docs, NoDoc
<1> DEFINE i == Place(p, c)
<1>3. i \in Ids /\ Applied(p)[i] = Comes(c)
  BY AppliedComes
<1>4. ASSUME NEW j \in Ids, Applied(p)[j].doc = b.doc PROVE j = i
  <2>1. CASE \E a \in Came(p) : Place(p, a) = j
    <3>1. PICK a \in Came(p) : Place(p, a) = j
      BY <2>1
    <3>2. Applied(p)[j] = Comes(a)
      BY <3>1, AppliedComes
    <3>3. a.doc = c.doc
      BY <1>1, <1>4, <3>2 DEF Comes
    <3>4. a.at \in Nat /\ c.at \in Nat /\ ~ (a.at < c.at) /\ ~ (c.at < a.at)
      BY <1>2, <3>3 DEF Came, Missing
    <3>5. a = c
      BY <1>2, <3>4 DEF Came, Missing
    <3> QED BY <3>1, <3>5
  <2>2. CASE \A a \in Came(p) : Place(p, a) # j
    <3>1. Applied(p)[j].doc \in {rows[j].doc, NoDoc}
      BY <2>2, AppliedElsewhere, AppliedGone
    <3> QED BY <1>1, <1>2, <1>4, <3>1
  <2> QED BY <2>1, <2>2
<1>5. Applied(p)[i].doc = b.doc
  BY <1>1, <1>3 DEF Comes
<1>6. {j \in Ids : Applied(p)[j].doc = b.doc} = {i}
  <2> HIDE DEF i
  <2> QED BY <1>3, <1>4, <1>5
<1> QED BY <1>1, <1>2, <1>3, <1>6

-----------------------------------------------------------------------------
(* plan after apply. *)

\* The list names each document once.
Distinct(documents) ==
  \A j, k \in DOMAIN documents : documents[j].doc = documents[k].doc => j = k

\* A row that is in line with what the dict has for its document.
InLine(row, documents) ==
  /\ row.doc \in Listed(documents)
  /\ Merge(row.metadata, Found(documents, row.doc).metadata) = row.metadata
  /\ Found(documents, row.doc).names \in {{}, row.names}

\* Rows that come in are in line.
LEMMA ComersInLine ==
  ASSUME NEW documents \in Seq(Entry), Distinct(documents),
         NEW table, NEW c \in Creates(table, documents)
  PROVE  InLine(Comes(c), documents)
<1>1. /\ c.at \in DOMAIN documents /\ c.doc = documents[c.at].doc
      /\ c.head = documents[c.at].head /\ c.head \in Header
  BY CreatesListed
<1>2. c.doc \in Listed(documents)
  BY <1>1 DEF Listed
<1>3. Found(documents, c.doc) = c.head
  <2>1. PICK k \in DOMAIN documents : /\ documents[k].doc = c.doc
                                      /\ Found(documents, c.doc) = documents[k].head
    BY <1>2, FoundInList
  <2> QED BY <1>1, <2>1 DEF Distinct
<1>4. Merge(c.head.metadata, c.head.metadata) = c.head.metadata
  BY <1>1, MergeFills DEF Header
<1> QED BY <1>2, <1>3, <1>4 DEF InLine, Comes

\* Rows that stay are in line, be it that the plan has brought them there.
LEMMA StayersInLine ==
  ASSUME NEW documents \in Seq(Entry), NEW p,
         p = PlanFor(rows, documents, known), Applicable(p),
         NEW i \in Ids, rows[i].doc # NoDoc, <<i, rows[i].doc>> \notin p.deletes
  PROVE  InLine(Applied(p)[i], documents)
<1> DEFINE found == Found(documents, rows[i].doc)
           merged == Merge(rows[i].metadata, found.metadata)
<1>1. /\ p.updates = Updates(rows, documents)
      /\ p.recategorized = Recategorized(rows, documents)
      /\ p.deletes = {<<j, rows[j].doc>> :
                        j \in Exported(rows) \ Matched(rows, documents)}
  BY DEF PlanFor
<1>2. i \in Matched(rows, documents) /\ rows[i].doc \in Listed(documents)
  BY <1>1 DEF Exported, Matched
<1>3. found.metadata \in Metadata /\ rows[i].metadata \in Metadata
  BY <1>2, FoundTypes DEF Applicable, Row
<1>4. \A c \in Came(p) : Place(p, c) # i
  BY LiveStays DEF Applicable
<1>5. Applied(p)[i].doc = rows[i].doc
  BY <1>4, AppliedElsewhere
<1>6. Applied(p)[i].metadata = merged
  <2>1. CASE merged # rows[i].metadata
    <3> DEFINE u == [id |-> i, doc |-> rows[i].doc, metadata |-> merged]
    <3>1. u \in p.updates
      BY <1>1, <1>2, <2>1 DEF Updates
    <3> QED BY <1>4, <3>1, AppliedElsewhere
  <2>2. CASE merged = rows[i].metadata
    <3>1. \A u \in p.updates : u.id # i
      BY <1>1, <2>2 DEF Updates
    <3> QED BY <1>4, <2>2, <3>1, AppliedElsewhere
  <2> QED BY <2>1, <2>2
<1>7. found.names \in {{}, Applied(p)[i].names}
  <2>1. CASE found.names \notin {{}, rows[i].names}
    <3> DEFINE u == [id |-> i, doc |-> rows[i].doc, names |-> found.names]
    <3>1. u \in p.recategorized
      BY <1>1, <1>2, <2>1 DEF Recategorized
    <3> QED BY <1>4, <3>1, AppliedElsewhere
  <2>2. CASE found.names \in {{}, rows[i].names}
    <3>1. \A u \in p.recategorized : u.id # i
      BY <1>1, <2>2 DEF Recategorized
    <3> QED BY <1>4, <2>2, <3>1, AppliedElsewhere
  <2> QED BY <2>1, <2>2
<1>8. Merge(merged, found.metadata) = merged
  BY <1>3, MergeFills
<1> QED BY <1>2, <1>5, <1>6, <1>7, <1>8 DEF InLine

\* plan and apply agree: a plan that is carried out on the rows it was made for
\* leaves nothing for another one.
LEMMA PlanSettles ==
  ASSUME NEW documents \in Seq(Entry), Distinct(documents), NEW p,
         p = PlanFor(rows, documents, known), Applicable(p)
  PROVE  PlanFor(Applied(p), documents, Ensure(p)) = NoPlan
<1> DEFINE T == Applied(p)
           q == PlanFor(T, documents, Ensure(p))
<1>1. p.creates = Creates(rows, documents)
  BY DEF PlanFor
<1>2. \A i \in Ids : T[i].doc # NoDoc => InLine(T[i], documents)
  <2> SUFFICES ASSUME NEW i \in Ids, T[i].doc # NoDoc
               PROVE  InLine(T[i], documents)
    OBVIOUS
  <2>1. CASE \E c \in Came(p) : Place(p, c) = i
    <3>1. PICK c \in Came(p) : Place(p, c) = i
      BY <2>1
    <3>2. T[i] = Comes(c) /\ c \in Creates(rows, documents)
      BY <1>1, <3>1, AppliedComes DEF Came, Missing
    <3> QED BY <3>2, ComersInLine
  <2>2. CASE \A c \in Came(p) : Place(p, c) # i
    <3>1. <<i, rows[i].doc>> \notin p.deletes
      BY <2>2, AppliedGone
    <3>2. rows[i].doc # NoDoc
      BY <2>2, <3>1, AppliedElsewhere
    <3> QED BY <3>1, <3>2, StayersInLine
  <2> QED BY <2>1, <2>2
<1>3. \A k \in DOMAIN documents : documents[k].head.video
        => \E i \in Ids : T[i].doc = documents[k].doc
  <2> SUFFICES ASSUME NEW k \in DOMAIN documents, documents[k].head.video
               PROVE  \E i \in Ids : T[i].doc = documents[k].doc
    OBVIOUS
  <2>1. CASE \E i \in Ids : rows[i].doc = documents[k].doc
    <3>1. PICK i \in Ids : rows[i].doc = documents[k].doc
      BY <2>1
    <3>2. documents[k].doc # NoDoc
      <4>1. documents[k] \in Entry
        OBVIOUS
      <4> QED BY <4>1 DEF Entry, Docs, NoDoc
    <3>3. rows[i].doc # NoDoc /\ rows[i].there
      BY <3>1, <3>2 DEF Applicable
    <3>4. rows[i].doc \in Listed(documents)
      BY <3>1 DEF Listed
    <3>5. <<i, rows[i].doc>> \notin p.deletes
      BY <3>4 DEF PlanFor, Matched
    <3>6. T[i].doc = rows[i].doc
      BY <3>3, <3>5, LiveStays, AppliedElsewhere
    <3> QED BY <3>1, <3>6
  <2>2. CASE \A i \in Ids : rows[i].doc # documents[k].doc
    <3> DEFINE b == [at |-> k, doc |-> documents[k].doc,
                     head |-> documents[k].head]
    <3>1. b \in p.creates
      BY <1>1, <2>2 DEF Creates
    <3>2. \E c \in p.creates, i \in Ids : c.doc = b.doc /\ T[i] = Comes(c)
      BY <2>2, <3>1, OneRowEach
    <3> QED BY <3>2 DEF Comes
  <2> QED BY <2>1, <2>2
<1> HIDE DEF T
<1>4. Creates(T, documents) = {}
  BY <1>3 DEF Creates
<1>5. Exported(T) \ Matched(T, documents) = {}
  BY <1>2 DEF Exported, Matched, InLine
<1>6. Updates(T, documents) = {}
  BY <1>2 DEF Updates, Matched, Exported, InLine
<1>7. Recategorized(T, documents) = {}
  BY <1>2 DEF Recategorized, Matched, Exported, InLine
<1>8. Referenced({}, {}) = {}
  BY DEF Referenced
<1> QED BY <1>4, <1>5, <1>6, <1>7, <1>8 DEF PlanFor, NoPlan, T

-----------------------------------------------------------------------------
(* The list and the collection. *)

\* A document that was made is told from one that was not, or is gone.
LEMMA HeadersAreReal ==
  /\ \A h \in Header : h # NoHead /\ h # GoneHead
  /\ NoHead # GoneHead
<1>1. \A h \in Header : "video" \in DOMAIN h
  BY DEF Header
<1>2. "video" \notin DOMAIN NoHead /\ "video" \notin DOMAIN GoneHead
  BY DEF NoHead, GoneHead
<1>3. NoHead.gone # GoneHead.gone
  BY DEF NoHead, GoneHead
<1> QED BY <1>1, <1>2, <1>3

\* A page has the next entries of what is there, as many as go on a page; one
\* that is not full ends with the last of them.
LEMMA PageEntries ==
  ASSUME TypesOK, Shelved, NEW offset \in Nat
  PROVE  /\ Page(offset) \in Seq(Entry)
         /\ Len(Page(offset)) \in 0..LIST_PAGE_SIZE
         /\ Len(Page(offset)) < LIST_PAGE_SIZE =>
              Len(shelf) <= offset + Len(Page(offset))
         /\ offset <= Len(shelf) => offset + Len(Page(offset)) <= Len(shelf)
         /\ \A k \in 1..Len(Page(offset)) :
              /\ offset + k \in DOMAIN shelf
              /\ Page(offset)[k].doc = shelf[offset + k]
              /\ Page(offset)[k] = Current[offset + k]
<1> DEFINE n == Len(shelf) - offset
           m == Min({LIST_PAGE_SIZE, n})
           entry(k) == [doc |-> shelf[offset + k], head |-> head[shelf[offset + k]]]
<1>1. shelf \in Seq(Docs) /\ Len(shelf) \in Nat /\ DOMAIN shelf = 1..Len(shelf)
  BY DEF TypesOK
<1>2. n \in Int /\ Len(shelf) = offset + n /\ LIST_PAGE_SIZE \in Nat \ {0}
  BY <1>1, SyncAssumption
<1> HIDE DEF n
<1>3. m \in {LIST_PAGE_SIZE, n} /\ m <= LIST_PAGE_SIZE /\ m <= n
  <2>1. \E x \in {LIST_PAGE_SIZE, n} : \A y \in {LIST_PAGE_SIZE, n} : x =< y
    BY <1>2
  <2> QED BY <1>2, <2>1 DEF Min
<1> HIDE DEF m
<1>4. \A k \in 1..m : /\ offset + k \in DOMAIN shelf
                      /\ entry(k) = Current[offset + k]
                      /\ entry(k) \in Entry
  BY <1>1, <1>2, <1>3 DEF Current, Entry, Shelved
<1>5. Page(offset) = [k \in 1..m |-> entry(k)]
  BY DEF Page, m, n
<1> HIDE DEF entry
<1>6. CASE m >= 0
  <2>1. m \in Nat
    BY <1>2, <1>3, <1>6
  <2>2. Page(offset) \in Seq(Entry) /\ Len(Page(offset)) = m
    BY <1>4, <1>5, <2>1
  <2>3. \A k \in 1..m : Page(offset)[k] = Current[offset + k]
    BY <1>4, <1>5
  <2>4. \A k \in 1..m : Page(offset)[k].doc = shelf[offset + k]
    BY <1>4, <1>5 DEF entry
  <2>5. m \in 0..LIST_PAGE_SIZE
    BY <1>2, <1>3, <2>1
  <2>6. m < LIST_PAGE_SIZE => Len(shelf) <= offset + m
    BY <1>2, <1>3, <2>1
  <2>7. offset <= Len(shelf) => offset + m <= Len(shelf)
    BY <1>2, <1>3, <2>1
  <2> QED BY <1>4, <2>2, <2>3, <2>4, <2>5, <2>6, <2>7
<1>7. CASE m < 0
  <2>1. 1..m = 1..0
    BY <1>2, <1>3, <1>7
  <2>2. Page(offset) = [k \in 1..0 |-> entry(k)]
    BY <1>5, <2>1
  <2>3. Page(offset) \in Seq(Entry) /\ Len(Page(offset)) = 0
    BY <2>2
  <2> QED BY <1>1, <1>2, <1>3, <1>7, <2>3
<1> QED BY <1>2, <1>3, <1>6, <1>7

\* A document that is made is the first of the collection, the others follow.
LEMMA ShelveShifts ==
  ASSUME shelf \in Seq(Docs), NEW d \in Docs, NEW h, Shelve(d, h)
  PROVE  /\ shelf' \in Seq(Docs) /\ Len(shelf') = Len(shelf) + 1
         /\ shelf'[1] = d
         /\ \A k \in 1..Len(shelf) : shelf'[k + 1] = shelf[k]
  BY DEF Shelve

\* A document that is removed leaves the order of the others.
LEMMA RemoveShifts ==
  ASSUME shelf \in Seq(Docs), NEW k \in DOMAIN shelf,
         shelf' = RemoveAt(shelf, k)
  PROVE  /\ shelf' \in Seq(Docs) /\ Len(shelf') = Len(shelf) - 1
         /\ \A j \in 1..Len(shelf') :
              shelf'[j] = IF j < k THEN shelf[j] ELSE shelf[j + 1]
<1> DEFINE n == Len(shelf)
           left == SubSeq(shelf, 1, k - 1)
           right == SubSeq(shelf, k + 1, n)
<1>1. n \in Nat /\ k \in 1..n /\ \A j \in 1..n : shelf[j] \in Docs
  OBVIOUS
<1>2. /\ left \in Seq(Docs) /\ Len(left) = k - 1
      /\ \A j \in 1..(k - 1) : left[j] = shelf[j]
  BY <1>1
<1>3. /\ right \in Seq(Docs) /\ Len(right) = n - k
      /\ \A j \in 1..(n - k) : right[j] = shelf[k + j]
  BY <1>1
<1>4. shelf' = left \o right
  BY DEF RemoveAt
<1> HIDE DEF left, right, n
<1>5. shelf' \in Seq(Docs) /\ Len(shelf') = n - 1
  <2>1. left \o right \in Seq(Docs) /\ Len(left \o right) = Len(left) + Len(right)
    BY <1>2, <1>3, ConcatProperties
  <2> QED BY <1>1, <1>2, <1>3, <1>4, <2>1
<1>6. ASSUME NEW j \in 1..(n - 1)
      PROVE  shelf'[j] = IF j < k THEN shelf[j] ELSE shelf[j + 1]
  <2>1. CASE j < k
    <3>1. j \in 1 .. Len(left) + Len(right) /\ j <= Len(left)
      BY <1>1, <1>2, <1>3, <2>1
    <3>2. (left \o right)[j] = left[j]
      BY <1>2, <1>3, <3>1, ConcatProperties
    <3> QED BY <1>2, <1>4, <2>1, <3>1, <3>2
  <2>2. CASE j >= k
    <3>0. j \in Len(left) + 1 .. Len(left) + Len(right)
      BY <1>1, <1>2, <1>3, <2>2
    <3>1. shelf'[j] = right[j - (k - 1)]
      <4>1. (left \o right)[j] = right[j - Len(left)]
        BY <1>2, <1>3, <3>0, ConcatProperties
      <4> QED BY <1>2, <1>4, <4>1
    <3>2. j - (k - 1) \in 1..(n - k) /\ k + (j - (k - 1)) = j + 1
      BY <1>1, <2>2
    <3> QED BY <1>1, <1>3, <2>2, <3>1, <3>2
  <2> QED BY <1>1, <2>1, <2>2
<1> QED BY <1>5, <1>6 DEF n

\* One page more: the list goes on with what is there at these positions, and
\* it is complete when it has come to the end.
LEMMA ListGoesOn ==
  ASSUME TypesOK, Shelved, ListPage, ~ GiveUp
  PROVE  /\ UNCHANGED <<plan, stayed, since>>
         /\ listed' \in Seq(Entry)
         /\ Len(listed') >= Len(listed)
         /\ \A k \in 1..Len(listed) : listed'[k] = listed[k]
         /\ \A k \in (Len(listed) + 1)..Len(listed') :
              /\ k \in DOMAIN shelf
              /\ listed'[k].doc = shelf[k] /\ listed'[k] = Current[k]
         /\ Len(listed) <= Len(shelf) => Len(listed') <= Len(shelf)
         /\ \/ pc' = "plan" /\ Len(listed') >= Len(shelf)
            \/ pc' = "list"
<1> DEFINE n == Len(listed)
           page == Page(n)
<1>1. /\ listed' = listed \o page /\ UNCHANGED <<plan, stayed, since>>
      /\ \/ pc' = "plan" /\ Len(page) < LIST_PAGE_SIZE
         \/ pc' = "list"
  BY DEF ListPage
<1>2. listed \in Seq(Entry) /\ n \in Nat /\ Len(shelf) \in Nat
  BY DEF TypesOK
<1>3. /\ page \in Seq(Entry)
      /\ Len(page) \in 0..LIST_PAGE_SIZE
      /\ Len(page) < LIST_PAGE_SIZE => Len(shelf) <= n + Len(page)
      /\ n <= Len(shelf) => n + Len(page) <= Len(shelf)
      /\ \A k \in 1..Len(page) :
           /\ n + k \in DOMAIN shelf
           /\ page[k].doc = shelf[n + k]
           /\ page[k] = Current[n + k]
  BY <1>2, PageEntries
<1> HIDE DEF page
<1>4. /\ listed' \in Seq(Entry) /\ Len(listed') = n + Len(page)
      /\ \A k \in 1..(n + Len(page)) :
           listed'[k] = IF k <= n THEN listed[k] ELSE page[k - n]
  BY <1>1, <1>2, <1>3, ConcatProperties
<1> HIDE DEF n
<1>5. Len(page) \in Nat
  BY <1>3, SyncAssumption
<1>6. \A k \in 1..n : listed'[k] = listed[k]
  BY <1>2, <1>4, <1>5
<1>7. ASSUME NEW k \in (n + 1)..(n + Len(page))
      PROVE  /\ k \in DOMAIN shelf
             /\ listed'[k].doc = shelf[k] /\ listed'[k] = Current[k]
  <2>1. k - n \in 1..Len(page) /\ n + (k - n) = k
    BY <1>2, <1>5
  <2>2. listed'[k] = page[k - n]
    BY <1>2, <1>4, <1>5
  <2> QED BY <1>3, <2>1, <2>2
<1>8. /\ n <= n + Len(page)
      /\ n <= Len(shelf) => Len(listed') <= Len(shelf)
      /\ \/ pc' = "plan" /\ Len(listed') >= Len(shelf)
         \/ pc' = "list"
  BY <1>1, <1>2, <1>3, <1>4, <1>5
<1> QED BY <1>1, <1>4, <1>6, <1>7, <1>8 DEF n

-----------------------------------------------------------------------------
(* The invariant. *)

\* There are no rows, documents, lists or plans at first.
LEMMA InitIInv == Init => IInv
<1> SUFFICES ASSUME Init PROVE IInv
  OBVIOUS
<1> USE DEF Init
<1>1. TypesOK
  <2>1. NoRow \in Row
    BY DEF NoRow, Row, Metadata, Blank
  <2> QED BY <2>1 DEF TypesOK
<1>2. PlanOK(plan)
  <2>1. IsFiniteSet({})
    BY FS_EmptySet
  <2> QED BY <2>1 DEF PlanOK, PlanTypes, PlanParts, NoPlan
<1>3. Shelved
  BY DEF Shelved, NoRow
<1>4. Made
  BY DEF Made, NoRow, NoUpload, Listed, DocsOf, NoPlan, Docs, NoDoc
<1>5. Unread /\ ListedUnlessRemoved /\ Fresh
  BY DEF Unread, ListedUnlessRemoved, Fresh
<1>6. Filled /\ Pending
  BY DEF Filled, Pending, NoPlan
<1> QED BY <1>1, <1>2, <1>3, <1>4, <1>5, <1>6 DEF IInv

\* What apply needs is what the invariant says where the button can be pressed.
LEMMA ApplyApplies ==
  ASSUME IInv, Apply
  PROVE  Applicable(plan)
  BY DEF IInv, Apply, Applicable, TypesOK, Shelved, Cleared

\* The variables keep their types.
LEMMA TypesStep == ASSUME IInv, [Next]_vars PROVE TypesOK'
<1> USE DEF IInv, TypesOK, database, outline, script, Disturbs
<1>0. NoRow \in Row
  BY DEF NoRow, Row, Metadata, Blank
<1>1. CASE Check
  BY <1>1 DEF Check, ToSet
<1>2. CASE ListPage
  <2>1. CASE GiveUp
    BY <1>2, <2>1 DEF ListPage, GiveUp
  <2>2. CASE ~ GiveUp
    <3>1. UNCHANGED <<rows, known, shelf, head, uploading>>
      BY <1>2 DEF ListPage
    <3> QED BY <1>2, <2>2, <3>1, ListGoesOn
  <2> QED BY <2>1, <2>2
<1>3. CASE ListFails
  BY <1>3 DEF ListFails, GiveUp
<1>4. CASE Plan
  BY <1>4 DEF Plan
<1>5. CASE Apply
  <2>1. rows' \in [Ids -> Row]
    BY <1>5, ApplyApplies, AppliedTypes DEF Apply
  <2>2. known' \subseteq Names
    <3>1. /\ \A c \in plan.creates : c.head.names \subseteq Names
          /\ \A c \in plan.recategorized : c.names \subseteq Names
      BY DEF PlanOK, PlanTypes, Header
    <3> QED BY <1>5, <3>1 DEF Apply, Ensure, Referenced
  <2> QED BY <1>5, <2>1, <2>2 DEF Apply
<1>6. CASE Cancel
  BY <1>6 DEF Cancel
<1>7. ASSUME NEW h \in Heads, SaveRun(h.metadata, h.names) PROVE TypesOK'
  <2>1. [doc |-> NoDoc, metadata |-> h.metadata, names |-> h.names,
         there |-> TRUE] \in Row
    BY SyncAssumption DEF Row, Header
  <2> QED BY <1>7, <2>1 DEF SaveRun
<1>8. ASSUME NEW d \in Docs, NEW h \in Header, Shelve(d, h)
      PROVE  /\ shelf' \in Seq(Docs)
             /\ head' \in [Docs -> Header \union {NoHead, GoneHead}]
  BY <1>8, ShelveShifts DEF Shelve
<1>9. ASSUME NEW d \in Docs, NEW i \in Ids, Upload(i, d) PROVE TypesOK'
  <2>1. [video |-> TRUE, metadata |-> rows[i].metadata,
         names |-> rows[i].names] \in Header
    BY DEF Header, Row
  <2> QED BY <1>8, <1>9, <2>1 DEF Upload
<1>10. ASSUME NEW d \in Docs, NEW h \in Heads, Write(d, h) PROVE TypesOK'
  BY <1>8, <1>10, SyncAssumption DEF Write
<1>11. ASSUME NEW d \in Docs, NEW h \in Heads, Edit(d, h) PROVE TypesOK'
  BY <1>11, SyncAssumption DEF Edit
<1>12. ASSUME NEW d \in Docs, Trash(d) PROVE TypesOK'
  BY <1>12, RemoveShifts DEF Trash
<1>13. CASE Mark
  BY <1>13 DEF Mark, NoUpload, Row
<1>14. ASSUME NEW i \in Ids, DeleteRun(i) PROVE TypesOK'
  BY <1>0, <1>14 DEF DeleteRun
<1>15. ASSUME NEW gone, NEW come \in {{}} \union {{n} : n \in Names},
              ChangeCategories(gone, come)
       PROVE  TypesOK'
  BY <1>15 DEF ChangeCategories
<1>16. CASE Restart
  BY <1>16 DEF Restart, GiveUp
<1>17. CASE UNCHANGED vars
  BY <1>17 DEF vars
<1> QED BY <1>1, <1>2, <1>3, <1>4, <1>5, <1>6, <1>7, <1>9, <1>10, <1>11, <1>12,
           <1>13, <1>14, <1>15, <1>16, <1>17 DEF Next, Meanwhile

\* An empty plan is a plan.
LEMMA NoPlanOK == PlanOK(NoPlan) /\ DocsOf(NoPlan) = {}
  BY FS_EmptySet DEF PlanOK, PlanTypes, PlanParts, NoPlan, DocsOf

\* Only the check makes a plan that has something in it.
LEMMA PlanChanges ==
  ASSUME [Next]_vars
  PROVE  plan' = plan \/ plan' = NoPlan \/ Plan
  BY DEF Next, Meanwhile, vars, database, outline, script, Check, ListPage,
         ListFails, GiveUp, Apply, Cancel, SaveRun, Upload, Mark, Write, Edit,
         Trash, DeleteRun, ChangeCategories, Restart

\* The plan in the session can be carried out.
LEMMA PlanStep == ASSUME IInv, [Next]_vars PROVE PlanOK(plan')
<1>1. CASE plan' = plan \/ plan' = NoPlan
  BY <1>1, NoPlanOK DEF IInv
<1>2. CASE Plan
  BY <1>2, PlanForOK DEF IInv, TypesOK, Plan
<1> QED BY <1>1, <1>2, PlanChanges

\* What changes the rows: apply, and what the worker and other tabs do to one
\* row.
RowStep ==
  \/ Apply
  \/ \E h \in Heads : SaveRun(h.metadata, h.names)
  \/ Mark
  \/ \E i \in Ids : DeleteRun(i)

\* What changes the collection: a document is made, changed or removed.
ShelfStep ==
  \/ \E d \in Docs : \/ \E i \in Ids : Upload(i, d)
                     \/ \E h \in Heads : Write(d, h) \/ Edit(d, h)
                     \/ Trash(d)

\* The rest leaves both alone.
LEMMA OtherSteps ==
  ASSUME [Next]_vars
  PROVE  \/ RowStep /\ UNCHANGED <<shelf, head>>
         \/ ShelfStep /\ UNCHANGED rows
         \/ UNCHANGED <<rows, shelf, head>>
  BY DEF RowStep, ShelfStep, Next, Meanwhile, vars, database, outline, Check,
         ListPage, ListFails, GiveUp, Plan, Apply, Cancel, SaveRun, Upload, Mark,
         Write, Edit, Trash, DeleteRun, ChangeCategories, Restart

\* Uploads and writes make the next document, with a head that says something.
LEMMA ShelfSteps ==
  ASSUME IInv, ShelfStep
  PROVE  \E d \in Docs :
           \/ \E h \in Header : Shelve(d, h)
           \/ \E h \in Header : /\ d \in ToSet(shelf) /\ UNCHANGED shelf
                                /\ head' = [head EXCEPT ![d] = h]
           \/ \E k \in DOMAIN shelf : /\ shelf[k] = d
                                      /\ shelf' = RemoveAt(shelf, k)
                                      /\ head' = [head EXCEPT ![d] = GoneHead]
<1>1. ASSUME NEW d \in Docs, NEW i \in Ids, Upload(i, d)
      PROVE  \E h \in Header : Shelve(d, h)
  <2>1. [video |-> TRUE, metadata |-> rows[i].metadata,
         names |-> rows[i].names] \in Header
    BY DEF IInv, TypesOK, Header, Row
  <2> QED BY <1>1, <2>1 DEF Upload
<1>2. ASSUME NEW d \in Docs, NEW h \in Heads, Write(d, h)
      PROVE  h \in Header /\ Shelve(d, h)
  BY <1>2, SyncAssumption DEF Write
<1>3. ASSUME NEW d \in Docs, NEW h \in Heads, Edit(d, h)
      PROVE  /\ h \in Header /\ d \in ToSet(shelf) /\ UNCHANGED shelf
             /\ head' = [head EXCEPT ![d] = h]
  BY <1>3, SyncAssumption DEF Edit
<1>4. ASSUME NEW d \in Docs, Trash(d)
      PROVE  \E k \in DOMAIN shelf : /\ shelf[k] = d
                                     /\ shelf' = RemoveAt(shelf, k)
                                     /\ head' = [head EXCEPT ![d] = GoneHead]
  BY <1>4 DEF Trash
<1> QED BY <1>1, <1>2, <1>3, <1>4 DEF ShelfStep

\* A document that was made is not one that was not made again.
LEMMA HeadsStay ==
  ASSUME IInv, [Next]_vars, NEW d \in Docs, head'[d] = NoHead
  PROVE  head[d] = NoHead
<1>1. head \in [Docs -> Header \union {NoHead, GoneHead}]
  BY DEF IInv, TypesOK
<1>2. CASE UNCHANGED head
  BY <1>2
<1>3. CASE ShelfStep
  <2>1. PICK e \in Docs, h \in Header \union {GoneHead} :
          head' = [head EXCEPT ![e] = h]
    BY <1>3, ShelfSteps DEF Shelve
  <2> QED BY <1>1, <2>1, HeadersAreReal
<1> QED BY <1>2, <1>3, OtherSteps

\* The rows: each that has a document is there.
LEMMA LinkedStep ==
  ASSUME IInv, [Next]_vars, NEW i \in Ids, rows'[i].doc # NoDoc
  PROVE  rows'[i].there
<1> USE DEF IInv, TypesOK, Shelved
<1>1. CASE UNCHANGED rows
  BY <1>1
<1>2. CASE Apply
  BY <1>2, ApplyApplies, AppliedTypes DEF Apply
<1>3. ASSUME NEW h \in Heads, SaveRun(h.metadata, h.names) PROVE rows'[i].there
  BY <1>3 DEF SaveRun
<1>4. CASE Mark
  BY <1>4 DEF Mark, Row
<1>5. ASSUME NEW j \in Ids, DeleteRun(j) PROVE rows'[i].there
  BY <1>5 DEF DeleteRun, NoRow
<1> QED BY <1>1, <1>2, <1>3, <1>4, <1>5, OtherSteps DEF RowStep

\* The collection: a document that is made was not there, and the others move
\* together.
LEMMA ShelvedStep == ASSUME IInv, [Next]_vars PROVE Shelved'
<1> USE DEF IInv, TypesOK
<1>1. \A i \in Ids : rows'[i].doc # NoDoc => rows'[i].there
  BY LinkedStep
<1>2. CASE UNCHANGED <<shelf, head>>
  BY <1>1, <1>2 DEF Shelved
<1>3. ASSUME NEW d \in Docs, NEW h \in Header, Shelve(d, h) PROVE Shelved'
  <2>1. /\ shelf' \in Seq(Docs) /\ Len(shelf') = Len(shelf) + 1
        /\ shelf'[1] = d
        /\ \A k \in 1..Len(shelf) : shelf'[k + 1] = shelf[k]
    BY <1>3, ShelveShifts
  <2>2. head' = [head EXCEPT ![d] = h] /\ head[d] = NoHead
    BY <1>3 DEF Shelve, New
  <2>3. \A k \in DOMAIN shelf : shelf[k] # d
    BY <2>2, HeadersAreReal DEF Shelved
  <2>4. Len(shelf) \in Nat /\ DOMAIN shelf = 1..Len(shelf)
        /\ DOMAIN shelf' = 1..(Len(shelf) + 1)
    BY <2>1
  <2>5. \A k \in DOMAIN shelf' :
          \/ k = 1 /\ shelf'[k] = d
          \/ k - 1 \in DOMAIN shelf /\ shelf'[k] = shelf[k - 1]
    <3> TAKE k \in DOMAIN shelf'
    <3>1. CASE k = 1
      BY <2>1, <3>1
    <3>2. CASE k # 1
      <4>1. k - 1 \in 1..Len(shelf) /\ (k - 1) + 1 = k
        BY <2>4, <3>2
      <4> QED BY <2>1, <2>4, <4>1
    <3> QED BY <3>1, <3>2
  <2>6. \A j, k \in DOMAIN shelf' : shelf'[j] = shelf'[k] => j = k
    <3> TAKE j, k \in DOMAIN shelf'
    <3>1. j - 1 = k - 1 => j = k
      BY <2>4
    <3> QED BY <2>3, <2>5, <3>1 DEF Shelved
  <2>7. \A k \in DOMAIN shelf' : head'[shelf'[k]] \in Header
    BY <2>2, <2>5 DEF Shelved
  <2> QED BY <1>1, <2>6, <2>7 DEF Shelved
<1>4. ASSUME NEW d \in Docs, NEW h \in Header, UNCHANGED shelf,
             head' = [head EXCEPT ![d] = h]
      PROVE  Shelved'
  BY <1>1, <1>4 DEF Shelved
<1>5. ASSUME NEW k \in DOMAIN shelf, shelf' = RemoveAt(shelf, k),
             head' = [head EXCEPT ![shelf[k]] = GoneHead]
      PROVE  Shelved'
  <2>1. /\ shelf' \in Seq(Docs) /\ Len(shelf') = Len(shelf) - 1
        /\ \A j \in 1..Len(shelf') :
             shelf'[j] = IF j < k THEN shelf[j] ELSE shelf[j + 1]
    BY <1>5, RemoveShifts
  <2>2. /\ Len(shelf) \in Nat /\ k \in 1..Len(shelf) /\ DOMAIN shelf = 1..Len(shelf)
        /\ DOMAIN shelf' = 1..Len(shelf')
    BY <2>1
  <2> DEFINE from(j) == IF j < k THEN j ELSE j + 1
  <2>3. \A j \in DOMAIN shelf' : /\ from(j) \in DOMAIN shelf /\ from(j) # k
                                 /\ shelf'[j] = shelf[from(j)]
    BY <2>1, <2>2
  <2>4. \A i, j \in DOMAIN shelf' : from(i) = from(j) => i = j
    BY <2>2
  <2> HIDE DEF from
  <2>5. \A i, j \in DOMAIN shelf' : shelf'[i] = shelf'[j] => i = j
    BY <2>3, <2>4 DEF Shelved
  <2>6. \A j \in DOMAIN shelf' : head'[shelf'[j]] \in Header
    BY <1>5, <2>3 DEF Shelved
  <2> QED BY <1>1, <2>5, <2>6 DEF Shelved
<1>6. CASE ShelfStep
  BY <1>3, <1>4, <1>5, <1>6, ShelfSteps
<1> QED BY <1>2, <1>6, OtherSteps

\* Where documents come from: a row's from a row, an upload or a plan, an
\* upload's is made, a plan's from a row, a list or a plan.
LEMMA MadeStep == ASSUME IInv, [Next]_vars PROVE Made'
<1> SUFFICES ASSUME NEW d \in Docs, head'[d] = NoHead
             PROVE  /\ \A i \in Ids : rows'[i].doc # d
                    /\ uploading'.doc # d
                    /\ d \notin Listed(listed')
                    /\ d \notin DocsOf(plan')
  BY DEF Made
<1> USE DEF IInv, TypesOK
<1>1. /\ head[d] = NoHead /\ d # NoDoc
      /\ \A i \in Ids : rows[i].doc # d
      /\ uploading.doc # d
      /\ d \notin Listed(listed)
      /\ d \notin DocsOf(plan)
  BY HeadsStay DEF Made, Docs, NoDoc
<1>2. \A i \in Ids : rows'[i].doc # d
  <2>1. CASE UNCHANGED rows
    BY <1>1, <2>1
  <2>2. CASE Apply
    <3>1. \A i \in Ids : rows'[i].doc # NoDoc =>
            \/ rows'[i].doc = rows[i].doc
            \/ \E c \in plan.creates : rows'[i].doc = c.doc
      BY <2>2, ApplyApplies, AppliedTypes DEF Apply
    <3>2. \A c \in plan.creates : c.doc # d
      BY <1>1 DEF DocsOf
    <3> QED BY <1>1, <3>1, <3>2
  <2>3. ASSUME NEW h \in Heads, SaveRun(h.metadata, h.names)
        PROVE  \A i \in Ids : rows'[i].doc # d
    BY <1>1, <2>3 DEF SaveRun
  <2>4. CASE Mark
    BY <1>1, <2>4 DEF Mark, Row
  <2>5. ASSUME NEW j \in Ids, DeleteRun(j) PROVE \A i \in Ids : rows'[i].doc # d
    BY <1>1, <2>5 DEF DeleteRun, NoRow
  <2> QED BY <2>1, <2>2, <2>3, <2>4, <2>5, OtherSteps DEF RowStep
<1>3. uploading'.doc # d
  <2>1. CASE uploading' \in {uploading, NoUpload}
    BY <1>1, <2>1 DEF NoUpload
  <2>2. ASSUME NEW e \in Docs, NEW i \in Ids, Upload(i, e) PROVE uploading'.doc # d
    <3>1. /\ head' = [head EXCEPT ![e] = [video |-> TRUE,
                        metadata |-> rows[i].metadata, names |-> rows[i].names]]
          /\ uploading' = [id |-> i, doc |-> e]
      BY <2>2 DEF Upload, Shelve
    <3>2. [video |-> TRUE, metadata |-> rows[i].metadata,
           names |-> rows[i].names] \in Header
      BY DEF Header, Row
    <3>3. head'[e] # NoHead
      BY <3>1, <3>2, HeadersAreReal
    <3> QED BY <3>1, <3>3
  <2> QED BY <2>1, <2>2 DEF Next, Meanwhile, vars, database, outline, script,
         Check, ListPage, ListFails, GiveUp, Plan, Apply, Cancel, SaveRun, Mark,
         Write, Edit, Trash, DeleteRun, ChangeCategories, Restart
<1>4. d \notin Listed(listed')
  <2>1. CASE listed' = listed
    BY <1>1, <2>1
  <2>2. CASE listed' = <<>>
    BY <2>2 DEF Listed
  <2>3. CASE ListPage /\ ~ GiveUp
    <3>1. /\ listed' \in Seq(Entry)
          /\ \A k \in 1..Len(listed) : listed'[k] = listed[k]
          /\ \A k \in (Len(listed) + 1)..Len(listed') :
               k \in DOMAIN shelf /\ listed'[k].doc = shelf[k]
      BY <2>3, ListGoesOn
    <3>2. \A k \in DOMAIN shelf : shelf[k] # d
      BY <1>1, HeadersAreReal DEF Shelved
    <3>3. \A k \in 1..Len(listed) : listed[k].doc # d
      BY <1>1 DEF Listed
    <3>4. \A k \in 1..Len(listed') :
            k \in 1..Len(listed) \/ k \in (Len(listed) + 1)..Len(listed')
      BY <3>1
    <3>5. \A k \in 1..Len(listed') : listed'[k].doc # d
      BY <3>1, <3>2, <3>3, <3>4
    <3> QED BY <3>1, <3>5 DEF Listed
  <2> QED BY <2>1, <2>2, <2>3 DEF Next, Meanwhile, vars, database, outline,
         script, Check, ListPage, ListFails, GiveUp, Plan, Apply, Cancel, SaveRun,
         Upload, Mark, Write, Edit, Trash, DeleteRun, ChangeCategories, Restart
<1>5. d \notin DocsOf(plan')
  <2>1. CASE plan' = plan \/ plan' = NoPlan
    BY <1>1, <2>1, NoPlanOK
  <2>2. CASE Plan
    BY <1>1, <2>2, PlanForOK DEF Plan
  <2> QED BY <2>1, <2>2, PlanChanges
<1> QED BY <1>2, <1>3, <1>4, <1>5

\* What stays is never passed by: others that are made push it on, and no one
\* that is removed pulls it back unnoticed.
LEMMA UnreadStep ==
  ASSUME IInv, [Next]_vars
  PROVE  Unread' /\ ListedUnlessRemoved'
<1> USE DEF IInv, TypesOK, database, outline, script, Disturbs
<1> DEFINE Ahead(d) == \E k \in DOMAIN shelf : k > Len(listed) /\ shelf[k] = d
<1>1. CASE Check
  <2>1. /\ pc' = "list" /\ stayed' = ToSet(shelf) /\ listed' = <<>>
        /\ shelf' = shelf
    BY <1>1 DEF Check, Unread
  <2>2. \A d \in ToSet(shelf) : \E k \in DOMAIN shelf : k > 0 /\ shelf[k] = d
    BY DEF ToSet
  <2> QED BY <2>1, <2>2 DEF Unread, ListedUnlessRemoved
<1>2. CASE ListPage
  <2>1. CASE GiveUp
    BY <2>1 DEF GiveUp, Unread, ListedUnlessRemoved
  <2>2. CASE ~ GiveUp
    <3>1. /\ UNCHANGED <<stayed, since, shelf>> /\ pc = "list"
          /\ pc' \in {"list", "plan"}
          /\ listed' \in Seq(Entry)
          /\ Len(listed') >= Len(listed)
          /\ \A k \in 1..Len(listed) : listed'[k] = listed[k]
          /\ \A k \in (Len(listed) + 1)..Len(listed') : listed'[k].doc = shelf[k]
          /\ pc' = "plan" => Len(listed') >= Len(shelf)
      BY <1>2, <2>2, ListGoesOn DEF ListPage
    <3>2. Len(listed) \in Nat /\ Len(listed') \in Nat /\ Len(shelf) \in Nat
      BY <3>1
    <3>3. \A d \in Listed(listed) : d \in Listed(listed')
      BY <3>1, <3>2 DEF Listed
    <3>4. \A k \in DOMAIN shelf : k > Len(listed) /\ k <= Len(listed')
            => shelf[k] \in Listed(listed')
      <4> SUFFICES ASSUME NEW k \in DOMAIN shelf, k > Len(listed),
                          k <= Len(listed')
                   PROVE  shelf[k] \in Listed(listed')
        OBVIOUS
      <4>1. k \in Nat /\ k >= 1
        OBVIOUS
      <4>2. k \in (Len(listed) + 1)..Len(listed') /\ k \in DOMAIN listed'
        BY <3>1, <3>2, <4>1
      <4>3. listed'[k].doc = shelf[k]
        BY <3>1, <4>2
      <4> QED BY <4>2, <4>3 DEF Listed
    <3>5. ASSUME since # "removal", NEW d \in stayed
          PROVE  \/ d \in Listed(listed')
                 \/ \E k \in DOMAIN shelf : k > Len(listed') /\ shelf[k] = d
      <4>1. d \in Listed(listed) \/ Ahead(d)
        BY <3>1, <3>5 DEF Unread
      <4> QED BY <3>2, <3>3, <3>4, <4>1
    <3>6. pc' = "plan" => \A k \in DOMAIN shelf : ~ (k > Len(listed'))
      BY <3>1, <3>2
    <3> QED BY <3>1, <3>5, <3>6 DEF Unread, ListedUnlessRemoved
  <2> QED BY <2>1, <2>2
<1>3. CASE ListFails \/ Restart
  BY <1>3 DEF ListFails, Restart, GiveUp, Unread, ListedUnlessRemoved
<1>4. CASE Plan
  BY <1>4 DEF Plan, Unread, ListedUnlessRemoved
<1>5. CASE Apply \/ Cancel
  BY <1>5 DEF Apply, Cancel, Unread, ListedUnlessRemoved
<1>6. ASSUME UNCHANGED <<pc, listed, stayed, shelf>>,
             since' # "removal" => since # "removal"
      PROVE  Unread' /\ ListedUnlessRemoved'
  BY <1>6 DEF Unread, ListedUnlessRemoved
<1>7. ASSUME NEW d \in Docs, NEW h, Shelve(d, h),
             UNCHANGED <<pc, listed, stayed>>,
             since' # "removal" => since # "removal"
      PROVE  Unread' /\ ListedUnlessRemoved'
  <2>1. /\ shelf' \in Seq(Docs) /\ Len(shelf') = Len(shelf) + 1
        /\ \A k \in 1..Len(shelf) : shelf'[k + 1] = shelf[k]
    BY <1>7, ShelveShifts
  <2>2. \A e : Ahead(e) => \E k \in DOMAIN shelf' :
                             k > Len(listed) /\ shelf'[k] = e
    <3> SUFFICES ASSUME NEW k \in DOMAIN shelf, k > Len(listed)
                 PROVE  \E j \in DOMAIN shelf' :
                          j > Len(listed) /\ shelf'[j] = shelf[k]
      OBVIOUS
    <3>1. k + 1 \in DOMAIN shelf' /\ k + 1 > Len(listed) /\ shelf'[k + 1] = shelf[k]
      BY <2>1
    <3> QED BY <3>1
  <2> QED BY <1>7, <2>2 DEF Unread, ListedUnlessRemoved
<1>8. ASSUME NEW d \in Docs, Trash(d) PROVE Unread' /\ ListedUnlessRemoved'
  BY <1>8 DEF Trash, Unread, ListedUnlessRemoved
<1>9. CASE UNCHANGED vars
  BY <1>6, <1>9 DEF vars
<1>10. ASSUME NEW h \in Heads, SaveRun(h.metadata, h.names)
       PROVE  Unread' /\ ListedUnlessRemoved'
  BY <1>6, <1>10 DEF SaveRun
<1>11. ASSUME NEW d \in Docs, NEW i \in Ids, Upload(i, d)
       PROVE  Unread' /\ ListedUnlessRemoved'
  BY <1>7, <1>11 DEF Upload
<1>12. ASSUME NEW d \in Docs, NEW h \in Heads, Write(d, h)
       PROVE  Unread' /\ ListedUnlessRemoved'
  BY <1>7, <1>12 DEF Write
<1>13. ASSUME NEW d \in Docs, NEW h \in Heads, Edit(d, h)
       PROVE  Unread' /\ ListedUnlessRemoved'
  BY <1>6, <1>13 DEF Edit
<1>14. CASE Mark
  BY <1>6, <1>14 DEF Mark
<1>15. ASSUME NEW i \in Ids, DeleteRun(i) PROVE Unread' /\ ListedUnlessRemoved'
  BY <1>6, <1>15 DEF DeleteRun
<1>16. ASSUME NEW gone, NEW come, ChangeCategories(gone, come)
       PROVE  Unread' /\ ListedUnlessRemoved'
  BY <1>6, <1>16 DEF ChangeCategories
<1> QED BY <1>1, <1>2, <1>3, <1>4, <1>5, <1>8, <1>9, <1>10, <1>11, <1>12, <1>13,
           <1>14, <1>15, <1>16 DEF Next, Meanwhile

\* Only the check and its pages leave the list up to date: whatever else
\* changes rows, names or documents is noted.
LEMMA QuietSteps ==
  ASSUME [Next]_vars, since' = "nothing"
  PROVE  /\ UNCHANGED <<rows, known, shelf, head>>
         /\ Check \/ (ListPage /\ ~GiveUp) \/ Plan \/ UNCHANGED vars
  BY DEF Next, Meanwhile, vars, database, outline, Check, ListPage, ListFails,
         GiveUp, Plan, Apply, Cancel, SaveRun, Upload, Mark, Write, Edit, Trash,
         DeleteRun, ChangeCategories, Restart, Disturbs

\* As long as nothing changes, the list is a beginning of what is there, and
\* the plan is made of all of it.
LEMMA FreshStep == ASSUME IInv, [Next]_vars PROVE Fresh'
<1> SUFFICES ASSUME since' = "nothing"
             PROVE  /\ pc' = "list" =>
                         /\ Len(listed') <= Len(shelf')
                         /\ \A k \in DOMAIN listed' : listed'[k] = Current'[k]
                    /\ pc' = "plan" => listed' = Current'
                    /\ pc' = "idle" => plan' = PlanFor(rows', Current', known')
  BY DEF Fresh
<1> USE DEF IInv, TypesOK
<1>1. UNCHANGED <<rows, known, shelf, head>> /\ Current' = Current
  BY QuietSteps DEF Current
<1>2. CASE Check
  BY <1>1, <1>2 DEF Check, Unread
<1>3. CASE ListPage /\ ~ GiveUp
  <2>1. /\ UNCHANGED <<plan, since>> /\ pc = "list" /\ pc' \in {"list", "plan"}
        /\ listed' \in Seq(Entry)
        /\ Len(listed') >= Len(listed)
        /\ \A k \in 1..Len(listed) : listed'[k] = listed[k]
        /\ \A k \in (Len(listed) + 1)..Len(listed') : listed'[k] = Current[k]
        /\ Len(listed) <= Len(shelf) => Len(listed') <= Len(shelf)
        /\ pc' = "plan" => Len(listed') >= Len(shelf)
    BY <1>3, ListGoesOn DEF ListPage
  <2>2. /\ Len(listed) \in Nat /\ Len(listed') \in Nat /\ Len(shelf) \in Nat
        /\ DOMAIN listed' = 1..Len(listed') /\ DOMAIN listed = 1..Len(listed)
    BY <2>1
  <2>3. /\ Len(listed) <= Len(shelf)
        /\ \A k \in 1..Len(listed) : listed[k] = Current[k]
    BY <2>1, <2>2 DEF Fresh
  <2>4. Len(listed') <= Len(shelf)
    BY <2>1, <2>3
  <2>5. \A k \in 1..Len(listed') : listed'[k] = Current[k]
    <3> TAKE k \in 1..Len(listed')
    <3>1. CASE k \in 1..Len(listed)
      BY <2>1, <2>3, <3>1
    <3>2. CASE k \in (Len(listed) + 1)..Len(listed')
      BY <2>1, <3>2
    <3> QED BY <2>2, <3>1, <3>2
  <2>6. pc' = "plan" => listed' = Current
    <3> SUFFICES ASSUME pc' = "plan" PROVE listed' = Current
      OBVIOUS
    <3>1. Len(listed') = Len(shelf)
      BY <2>1, <2>2, <2>4
    <3>2. Current = [k \in 1..Len(shelf) |-> Current[k]]
      BY DEF Current
    <3>3. listed' = [k \in 1..Len(listed') |-> listed'[k]]
      BY <2>1
    <3> HIDE DEF Current
    <3> QED BY <2>5, <3>1, <3>2, <3>3
  <2> QED BY <1>1, <2>1, <2>2, <2>4, <2>5, <2>6
<1>4. CASE Plan
  <2>1. since = "nothing" /\ pc = "plan" /\ pc' = "idle"
        /\ plan' = PlanFor(rows, listed, known)
    BY <1>4 DEF Plan
  <2>2. listed = Current
    BY <2>1 DEF Fresh
  <2> HIDE DEF Current
  <2> QED BY <1>1, <2>1, <2>2
<1>5. CASE UNCHANGED vars
  <2>1. UNCHANGED <<rows, known, shelf, head, pc, listed, plan, since>>
    BY <1>5 DEF vars, database, outline, script
  <2> HIDE DEF Current
  <2> QED BY <1>1, <2>1 DEF Fresh
<1> QED BY <1>2, <1>3, <1>4, <1>5, QuietSteps

\* A plan that is made of the rows as they are writes nothing but values that
\* fill theirs.  A row that comes later has no document, and one that gets its
\* document is not meant (Pending).
LEMMA FilledStep == ASSUME IInv, [Next]_vars PROVE Filled'
<1> USE DEF IInv, TypesOK
<1>1. CASE plan' = NoPlan
  BY <1>1 DEF Filled, NoPlan
<1>2. CASE Plan
  <2>1. rows' = rows /\ plan'.updates = Updates(rows, listed)
    BY <1>2 DEF Plan, PlanFor, database
  <2> QED BY <2>1, UpdatesOfRows DEF Filled
<1>3. CASE plan' = plan /\ UNCHANGED rows
  BY <1>3 DEF Filled
<1>4. \A u \in plan.updates : u.id \in Ids /\ u.doc # NoDoc
  BY DEF PlanOK, PlanTypes, Docs, NoDoc
<1>5. ASSUME NEW h \in Heads, SaveRun(h.metadata, h.names), plan' = plan
      PROVE  Filled'
  <2>1. \A i \in Ids : rows'[i] = rows[i] \/ rows'[i].doc = NoDoc
    BY <1>5 DEF SaveRun
  <2> QED BY <1>4, <1>5, <2>1 DEF Filled
<1>6. CASE Mark /\ plan' = plan
  <2>1. CASE rows[uploading.id].there /\ rows[uploading.id].doc = NoDoc
    <3>1. /\ rows' = [rows EXCEPT ![uploading.id].doc = uploading.doc]
          /\ uploading \in [id : Ids, doc : Docs]
      BY <1>6, <2>1 DEF Mark
    <3>2. \A u \in plan.updates : u.id = uploading.id => u.doc # uploading.doc
      BY <1>6, <2>1 DEF Mark, Pending
    <3>3. \A u \in plan.updates : rows'[u.id].doc = u.doc => rows'[u.id] = rows[u.id]
      BY <1>4, <3>1, <3>2 DEF Row
    <3> QED BY <1>6, <3>3 DEF Filled
  <2>2. CASE ~ (rows[uploading.id].there /\ rows[uploading.id].doc = NoDoc)
    BY <1>3, <1>6, <2>2 DEF Mark
  <2> QED BY <2>1, <2>2
<1>7. ASSUME NEW i \in Ids, DeleteRun(i), plan' = plan PROVE Filled'
  <2>1. \A j \in Ids : rows'[j] = rows[j] \/ rows'[j].doc = NoDoc
    BY <1>7 DEF DeleteRun, NoRow
  <2> QED BY <1>4, <1>7, <2>1 DEF Filled
<1>8. CASE Apply
  BY <1>1, <1>8 DEF Apply
<1>9. plan' = plan \/ plan' = NoPlan \/ Plan
  BY PlanChanges
<1>10. ASSUME plan' = plan, RowStep PROVE Filled'
  BY <1>5, <1>6, <1>7, <1>8, <1>10 DEF RowStep
<1> QED BY <1>1, <1>2, <1>3, <1>9, <1>10, OtherSteps

\* The row that is uploaded has no document until it is marked; the plan can
\* mean its document for the row only while another row has its ID.
LEMMA PendingStep == ASSUME IInv, [Next]_vars PROVE Pending'
<1> SUFFICES ASSUME uploading' # NoUpload, rows'[uploading'.id].there,
                    rows'[uploading'.id].doc = NoDoc,
                    NEW u \in plan'.updates, u.id = uploading'.id
             PROVE  u.doc # uploading'.doc
  BY DEF Pending
<1> USE DEF IInv, TypesOK
<1>1. CASE plan' = NoPlan
  BY <1>1 DEF NoPlan
<1>2. CASE Plan
  <2>1. /\ rows' = rows /\ uploading' = uploading
        /\ plan'.updates = Updates(rows, listed)
    BY <1>2 DEF Plan, PlanFor, database
  <2>2. u.doc = rows[u.id].doc /\ u.doc \in Docs
    BY <2>1, UpdatesOfRows
  <2> QED BY <2>1, <2>2 DEF Docs, NoDoc
<1>3. ASSUME UNCHANGED <<rows, uploading, plan>> PROVE u.doc # uploading'.doc
  BY <1>3 DEF Pending
<1>4. ASSUME NEW d \in Docs, NEW i \in Ids, Upload(i, d)
      PROVE  u.doc # uploading'.doc
  <2>1. plan' = plan /\ uploading'.doc = d /\ head[d] = NoHead
    BY <1>4 DEF Upload, Shelve, New, script
  <2>2. u.doc \in DocsOf(plan)
    BY <2>1 DEF DocsOf
  <2> QED BY <2>1, <2>2 DEF Made
<1>5. ASSUME NEW i \in Ids, DeleteRun(i) PROVE u.doc # uploading'.doc
  <2>1. UNCHANGED <<uploading, plan>> /\ uploading.id \in Ids
    BY <1>5 DEF DeleteRun, script
  <2>2. rows' = [rows EXCEPT ![i] = NoRow]
    BY <1>5 DEF DeleteRun
  <2>3. uploading.id # i
    BY <2>1, <2>2 DEF NoRow
  <2>4. rows'[uploading.id] = rows[uploading.id]
    BY <2>1, <2>2, <2>3
  <2> QED BY <2>1, <2>4 DEF Pending
<1> QED BY <1>1, <1>2, <1>3, <1>4, <1>5 DEF Next, Meanwhile, vars, database,
         outline, script, Check, ListPage, ListFails, GiveUp, Apply, Cancel,
         SaveRun, Mark, Write, Edit, Trash, ChangeCategories, Restart

\* The invariant is inductive.
LEMMA IInvStep == IInv /\ [Next]_vars => IInv'
<1> SUFFICES ASSUME IInv, [Next]_vars PROVE IInv'
  OBVIOUS
<1> QED BY TypesStep, PlanStep, ShelvedStep, MadeStep, UnreadStep, FreshStep,
           FilledStep, PendingStep DEF IInv

\* The inductive invariant of HistorySync holds.
THEOREM SyncInvariant == Spec => []IInv
  BY InitIInv, IInvStep, PTL DEF Spec

-----------------------------------------------------------------------------
(* What follows. *)

\* Every value of a row, a document, a list and a plan is one of its kind, the
\* collection has no document twice, and the plan in the session can be
\* carried out.
THEOREM SyncTypeOK == Spec => [](TypesOK /\ Shelved /\ PlanOK(plan))
<1>1. IInv => TypesOK /\ Shelved /\ PlanOK(plan)
  BY DEF IInv
<1> QED BY <1>1, SyncInvariant, PTL

\* list_documents, "the documents of the collection": for any page size, what
\* stays from the first page to the last is listed, whatever comes or changes
\* meanwhile, unless something is removed.
THEOREM NothingMissed == Spec => []ListedUnlessRemoved
<1>1. IInv => ListedUnlessRemoved
  BY DEF IInv
<1> QED BY <1>1, SyncInvariant, PTL

\* A list of what is there names each document once.
LEMMA CurrentList ==
  ASSUME IInv
  PROVE  Current \in Seq(Entry) /\ Distinct(Current)
<1> USE DEF IInv, TypesOK
<1>1. \A k \in 1..Len(shelf) :
        [doc |-> shelf[k], head |-> head[shelf[k]]] \in Entry
  BY DEF Shelved, Entry
<1>2. Current = [k \in 1..Len(shelf) |->
                   [doc |-> shelf[k], head |-> head[shelf[k]]]]
  BY DEF Current
<1>3. Current \in Seq(Entry)
  BY <1>1, <1>2
<1>4. Distinct(Current)
  BY <1>2 DEF Distinct, Shelved
<1> QED BY <1>3, <1>4

\* plan and apply agree: when nothing has changed since the check, a second
\* check after apply finds nothing, whatever rows and documents there are.
THEOREM SecondCheckIsEmpty == Spec => SyncSettles
<1>1. ASSUME IInv, [Next]_vars
      PROVE  [Apply /\ since = "nothing"
                => IsEmpty(PlanFor(rows', Current, known'))]_vars
  <2> SUFFICES ASSUME Apply, since = "nothing"
               PROVE  IsEmpty(PlanFor(rows', Current, known'))
    OBVIOUS
  <2>1. plan = PlanFor(rows, Current, known)
    BY <1>1 DEF IInv, Fresh, Apply
  <2>2. Applicable(plan)
    BY <1>1, ApplyApplies
  <2>3. PlanFor(Applied(plan), Current, Ensure(plan)) = NoPlan
    BY <1>1, <2>1, <2>2, CurrentList, PlanSettles
  <2> QED BY <2>3 DEF Apply, IsEmpty
<1> QED BY <1>1, SyncInvariant, PTL DEF Spec, SyncSettles

\* apply does what the plan says and no more, however old the plan is and
\* whatever rows have its IDs by now.
THEOREM PlanIsApplied == Spec => AppliesThePlan
<1> DEFINE Means ==
      /\ \A i \in Live(rows) : Mentioned(plan, i) \/ rows'[i] = rows[i]
      /\ \A c \in plan.recategorized :
           rows[c.id].doc = c.doc => rows'[c.id].names = c.names
      /\ \A d \in {c.doc : c \in plan.creates} :
           (\A i \in Ids : rows[i].doc # d) =>
             /\ Cardinality({i \in Ids : rows'[i].doc = d}) = 1
             /\ \E c \in plan.creates, i \in Ids :
                  /\ c.doc = d /\ rows'[i].doc = d
                  /\ rows'[i].names = c.head.names
<1>1. ASSUME IInv, Apply PROVE Means
  <2>1. rows' = Applied(plan) /\ Applicable(plan)
    BY <1>1, ApplyApplies DEF Apply
  <2>2. ASSUME NEW i \in Live(rows), ~ Mentioned(plan, i)
        PROVE  rows'[i] = rows[i]
    <3>1. i \in Ids /\ rows[i].there /\ <<i, rows[i].doc>> \notin plan.deletes
      BY <2>2 DEF Live, Mentioned
    <3>2. \A c \in Came(plan) : Place(plan, c) # i
      BY <2>1, <3>1, LiveStays
    <3>3. /\ \A u \in plan.updates : u.id = i => u.doc # rows[i].doc
          /\ \A u \in plan.recategorized : u.id = i => u.doc # rows[i].doc
      BY <2>2 DEF Mentioned
    <3>4. /\ rows'[i].doc = rows[i].doc /\ rows'[i].there = rows[i].there
          /\ rows'[i].metadata = rows[i].metadata
          /\ rows'[i].names = rows[i].names
      BY <2>1, <3>1, <3>2, <3>3, AppliedElsewhere
    <3>5. rows[i] \in Row /\ rows'[i] \in Row
      BY <2>1, <3>1, WrittenRows DEF Applicable
    <3> HIDE DEF Applicable
    <3> QED BY <3>4, <3>5 DEF Row
  <2>3. ASSUME NEW c \in plan.recategorized, rows[c.id].doc = c.doc
        PROVE  rows'[c.id].names = c.names
    <3>1. /\ c.id \in Ids /\ rows[c.id].doc # NoDoc
          /\ <<c.id, rows[c.id].doc>> \notin plan.deletes
      BY <2>1, <2>3 DEF Applicable, PlanOK, PlanTypes, PlanParts, Docs, NoDoc
    <3>2. \A e \in Came(plan) : Place(plan, e) # c.id
      BY <2>1, <3>1, LiveStays DEF Applicable
    <3> QED BY <2>1, <2>3, <3>1, <3>2, AppliedElsewhere
  <2>4. ASSUME NEW b \in plan.creates, \A i \in Ids : rows[i].doc # b.doc
        PROVE  /\ Cardinality({i \in Ids : rows'[i].doc = b.doc}) = 1
               /\ \E c \in plan.creates, i \in Ids :
                    /\ c.doc = b.doc /\ rows'[i].doc = b.doc
                    /\ rows'[i].names = c.head.names
    <3>1. PICK c \in plan.creates, i \in Ids :
            /\ c.doc = b.doc /\ rows'[i] = Comes(c)
            /\ {j \in Ids : rows'[j].doc = b.doc} = {i}
      BY <2>1, <2>4, OneRowEach
    <3>2. Cardinality({i}) = 1
      BY FS_Singleton
    <3> QED BY <3>1, <3>2 DEF Comes
  <2> QED BY <2>2, <2>3, <2>4
<1>2. IInv => [Apply => Means]_vars
  BY <1>1
<1> QED BY <1>2, SyncInvariant, PTL DEF AppliesThePlan

\* A row that apply leaves its document loses nothing that it had: what the
\* head of the document does not say is kept.
THEOREM NothingBlanked == Spec => LocalKept
<1> DEFINE Kept == \A i \in Live(rows) : rows'[i].doc = rows[i].doc =>
      /\ \A field \in {"channel", "date"} :
           rows[i].metadata[field] # Blank => rows'[i].metadata[field] # Blank
      /\ rows[i].names # {} => rows'[i].names # {}
<1>1. ASSUME IInv, Apply PROVE Kept
  <2> SUFFICES ASSUME NEW i \in Live(rows), rows'[i].doc = rows[i].doc
               PROVE  /\ Fills(rows'[i].metadata, rows[i].metadata)
                      /\ rows[i].names # {} => rows'[i].names # {}
    BY DEF Fills
  <2>1. rows' = Applied(plan) /\ Applicable(plan)
    BY <1>1, ApplyApplies DEF Apply
  <2>2. i \in Ids /\ rows[i].there
    BY DEF Live
  <2>3. <<i, rows[i].doc>> \notin plan.deletes
    <3> SUFFICES ASSUME <<i, rows[i].doc>> \in plan.deletes PROVE FALSE
      OBVIOUS
    <3>1. rows[i].doc # NoDoc
      BY <2>1 DEF Applicable, PlanOK, PlanTypes, Docs, NoDoc
    <3>2. CASE \A c \in Came(plan) : Place(plan, c) # i
      BY <2>1, <2>2, <3>1, <3>2, AppliedGone
    <3>3. ASSUME NEW c \in Came(plan), Place(plan, c) = i PROVE FALSE
      <4>1. rows'[i] = Comes(c)
        BY <2>1, <3>3, AppliedComes
      <4>2. c \in plan.creates /\ <<i, c.doc>> \notin plan.deletes
        BY <2>1, <2>2 DEF Came, Missing, Applicable, PlanOK, PlanParts
      <4> QED BY <4>1, <4>2 DEF Comes
    <3> QED BY <3>2, <3>3
  <2>4. \A c \in Came(plan) : Place(plan, c) # i
    BY <2>1, <2>2, <2>3, LiveStays
  <2>5. Fills(rows'[i].metadata, rows[i].metadata)
    <3>1. ASSUME NEW u \in plan.updates, u.id = i, u.doc = rows[i].doc
          PROVE  Fills(rows'[i].metadata, rows[i].metadata)
      <4>1. rows'[i].metadata = u.metadata
        BY <2>1, <2>2, <2>3, <2>4, <3>1, AppliedElsewhere
      <4> QED BY <1>1, <3>1, <4>1 DEF IInv, Filled
    <3>2. ASSUME \A u \in plan.updates : u.id = i => u.doc # rows[i].doc
          PROVE  Fills(rows'[i].metadata, rows[i].metadata)
      <4>1. rows'[i].metadata = rows[i].metadata
        BY <2>1, <2>2, <2>3, <2>4, <3>2, AppliedElsewhere
      <4> QED BY <4>1 DEF Fills
    <3> QED BY <3>1, <3>2
  <2>6. rows[i].names # {} => rows'[i].names # {}
    <3>1. ASSUME NEW u \in plan.recategorized, u.id = i, u.doc = rows[i].doc
          PROVE  rows'[i].names # {}
      <4>1. rows'[i].names = u.names
        BY <2>1, <2>2, <2>3, <2>4, <3>1, AppliedElsewhere
      <4> QED BY <2>1, <4>1 DEF Applicable, PlanOK, PlanParts
    <3>2. ASSUME \A u \in plan.recategorized : u.id = i => u.doc # rows[i].doc
          PROVE  rows'[i].names = rows[i].names
      BY <2>1, <2>2, <2>3, <2>4, <3>2, AppliedElsewhere
    <3> QED BY <3>1, <3>2
  <2> QED BY <2>5, <2>6
<1>2. IInv => [Apply => Kept]_vars
  BY <1>1
<1> QED BY <1>2, SyncInvariant, PTL DEF LocalKept

\* plan, "rows that are not in Outline do not come in here, so that they cannot
\* be deleted": apply leaves them as they are.
UnsavedStay ==
  [][Apply => \A i \in Live(rows) :
       rows[i].doc = NoDoc => rows'[i] = rows[i]]_vars

\* A row whose document was there all the time that the list was read is not
\* planned to be deleted, on whatever page it was and wherever it moved.
StayersKept ==
  [][Plan /\ since # "removal" => \A i \in Ids :
       rows[i].doc \in stayed => <<i, rows[i].doc>> \notin plan'.deletes]_vars

\* A result that is only in the history is safe from a synchronisation, however
\* old the plan is: no plan has a row without a document.
THEOREM UnsavedNotTouched == Spec => UnsavedStay
<1>1. ASSUME IInv, NEW i \in Live(rows), rows[i].doc = NoDoc
      PROVE  ~Mentioned(plan, i)
  <2>1. plan.deletes \subseteq Ids \X Docs
    BY <1>1 DEF IInv, PlanOK, PlanTypes
  <2>2. \A u \in plan.updates \union plan.recategorized : u.doc \in Docs
    BY <1>1 DEF IInv, PlanOK, PlanTypes
  <2> QED BY <1>1, <2>1, <2>2 DEF Mentioned, Docs, NoDoc
<1> DEFINE Meant == \A i \in Live(rows) : Mentioned(plan, i) \/ rows'[i] = rows[i]
           Unsaved == \A i \in Live(rows) : rows[i].doc = NoDoc => rows'[i] = rows[i]
<1>2. IInv /\ Meant => Unsaved
  BY <1>1
<1>3. AppliesThePlan => [][Apply => Meant]_vars
  <2>1. [Apply =>
           /\ Meant
           /\ \A c \in plan.recategorized :
                rows[c.id].doc = c.doc => rows'[c.id].names = c.names
           /\ \A d \in {c.doc : c \in plan.creates} :
                (\A i \in Ids : rows[i].doc # d) =>
                  /\ Cardinality({i \in Ids : rows'[i].doc = d}) = 1
                  /\ \E c \in plan.creates, i \in Ids :
                       /\ c.doc = d /\ rows'[i].doc = d
                       /\ rows'[i].names = c.head.names]_vars
        => [Apply => Meant]_vars
    OBVIOUS
  <2> QED BY <2>1, PTL DEF AppliesThePlan
<1> QED BY <1>2, <1>3, SyncInvariant, PlanIsApplied, PTL DEF UnsavedStay

\* What stays in the collection keeps its row.
THEOREM StayersNotDeleted == Spec => StayersKept
<1>1. ASSUME IInv, Plan, since # "removal", NEW i \in Ids, rows[i].doc \in stayed
      PROVE  <<i, rows[i].doc>> \notin plan'.deletes
  <2>1. rows[i].doc \in Listed(listed)
    BY <1>1 DEF IInv, ListedUnlessRemoved, Plan
  <2>2. rows[i].doc # NoDoc
    BY <1>1 DEF IInv, TypesOK, Docs, NoDoc
  <2>3. i \in Matched(rows, listed)
    BY <2>1, <2>2 DEF Matched, Exported
  <2>4. plan'.deletes = {<<j, rows[j].doc>> :
                           j \in Exported(rows) \ Matched(rows, listed)}
    BY <1>1 DEF Plan, PlanFor
  <2>5. ASSUME NEW j \in Exported(rows) \ Matched(rows, listed),
               <<i, rows[i].doc>> = <<j, rows[j].doc>>
        PROVE  FALSE
    BY <2>3, <2>5
  <2> QED BY <2>4, <2>5
<1>2. IInv /\ [Next]_vars => [Plan /\ since # "removal" => \A i \in Ids :
        rows[i].doc \in stayed => <<i, rows[i].doc>> \notin plan'.deletes]_vars
  BY <1>1
<1> QED BY <1>2, SyncInvariant, PTL DEF Spec, StayersKept
=============================================================================
