---------------------- MODULE SchedulerSnapshotProofs ----------------------
(***************************************************************************)
(* Proofs about SchedulerSnapshot for any number of outbox workers, full   *)
(* rebuilds, writers, transactions, changes and faults: a copy that is     *)
(* behind the database is explained by an event on its way or by one of    *)
(* the five ways in which a refresh is lost.                               *)
(***************************************************************************)
EXTENDS SchedulerSnapshot, WellFoundedInduction, TLAPS

----------------------------------------------------------------------------
(* The inductive invariant                                                 *)

\* Nothing that was read or copied is newer than the row, and accounts are
\* written before a snapshot of them is activated
Values ==
    /\ \A b \in Builders : read[b] <= db /\ (pc[b] = "activate" => meta # Empty)
    /\ (snap # Empty => snap <= db) /\ (meta # Empty => meta <= db)

\* An id is committed once; only outbox workers list rows, which then have given
\* up their key
Rows ==
    /\ \A t \in TxWriters : txRow[t] # 0 =>
          /\ txRow[t] \notin DOMAIN outbox
          /\ \A b \in Builders : txRow[t] \notin known[b]
          /\ \A u \in TxWriters : txRow[u] = txRow[t] => u = t
    /\ \A b \in Builders :
          /\ batch[b] \subseteq known[b] /\ (batch[b] # {} => b \in Pollers)
          /\ \A i \in known[b] \intersect DOMAIN outbox : outbox[i] # TRUE

\* What one worker found listed, a later one finds listed too
Nested ==
    \A b, c \in Builders :
        \/ known[b] \intersect DOMAIN outbox \subseteq known[c]
        \/ known[c] \intersect DOMAIN outbox \subseteq known[b]

\* Versions are ordered, and belong to builders that have not activated them
Order ==
    /\ \A b, c \in Builders : <<b, c>> \in versions => b # c /\ {b, c} \subseteq Versioned
    /\ beaten \subseteq Versioned

\* A refresh is to come that does not depend on the rows in K, or one was lost
Missing(K) == Enqueuing \/ lapse = TRUE \/ \E i \in Waiting : i \notin K

\* An outbox worker that has listed rows reads, writes and activates what is
\* current, unless a change came later than its list
ReadsNow(c, b) == read[c] = db \/ Fresh \/ Missing(known[b])
Handled(b) ==
    /\ pc[b] \in {"setAccount", "version", "accounts", "activate"} => ReadsNow(b, b)
    /\ pc[b] \in {"lock", "load", "version", "accounts", "activate"} => meta = db \/ Missing(known[b])
    /\ b \in beaten => snap = db \/ Missing(known[b])
    /\ \A c \in Builders : <<b, c>> \in versions /\ pc[c] = "activate" => ReadsNow(c, b)
    /\ pc[b] = "watermark" => Fresh \/ Missing(known[b])
Handling == \A b \in Pollers : batch[b] # {} => Handled(b)

\* The copy is current, a refresh is to come or was lost, or nothing has happened yet
Explained == Fresh \/ Missing({}) \/ (snap = Empty /\ db = 0)

IInv == Values /\ Rows /\ Nested /\ Order /\ Handling /\ Explained

----------------------------------------------------------------------------
(* Ids                                                                     *)

\* A set of ids has a largest one.
LEMMA MaxIdFacts ==
    ASSUME NEW n \in Nat, NEW S \in SUBSET (1 .. n), S # {}
    PROVE  MaxId(S) \in S
<1> DEFINE T == {n - i : i \in S}
<1>1. T \subseteq Nat /\ T # {}
  <2>1. \A i \in S : n - i \in Nat
    OBVIOUS
  <2>2. PICK i \in S : TRUE
    OBVIOUS
  <2>3. n - i \in T
    OBVIOUS
  <2> QED BY <2>1, <2>3
<1> DEFINE R == {ss \in Nat \X Nat : ss[1] < ss[2]}
<1>2. IsWellFoundedOn(R, Nat)
  BY NatLessThanWellFounded, Zenon DEF OpToRel
<1>3. \E x \in T : \A y \in T : ~(y < x)
  <2> HIDE DEF T, R
  <2>1. \E x \in T : \A y \in T : ~(<<y, x>> \in R)
    BY <1>1, <1>2, WFMin, Zenon
  <2> QED BY <1>1, <2>1 DEF R
<1>4. \E i \in S : \A j \in S : j <= i
  <2>1. PICK i \in S : \A y \in T : ~(y < n - i)
    BY <1>3
  <2>2. \A j \in S : ~(n - j < n - i)
    BY <2>1
  <2> QED BY <2>1, <2>2
<1> QED BY <1>4 DEF MaxId

----------------------------------------------------------------------------
(* Types                                                                   *)

Ids == 1 .. (nextId - 1)

TableOK ==
    /\ db \in 0 .. MaxChanges /\ nextId \in Nat \ {0} /\ watermark \in 0 .. (nextId - 1)
    /\ DOMAIN outbox \subseteq Ids
    /\ writing \in [Writers \union TxWriters -> {"idle", "enqueue", "tx"}]
    /\ txRow \in [TxWriters -> 0 .. (nextId - 1)]
KeysOK == \A i \in DOMAIN outbox : outbox[i] \in BOOLEAN
CopyOK == snap \in 0 .. MaxChanges \union {Empty} /\ meta \in 0 .. MaxChanges \union {Empty}
VersionsOK == versions \subseteq Builders \X Builders /\ beaten \subseteq Builders
BuildersOK == pc \in [Builders -> Steps] /\ read \in [Builders -> 0 .. MaxChanges]
ListsOK == batch \in [Builders -> SUBSET Ids] /\ known \in [Builders -> SUBSET Ids]
LocksOK == lock \in Builders \union {NoOne} /\ locking \subseteq Builders
HistoryOK == lapse \in BOOLEAN
FaultsOK == faults \in 0 .. MaxFaults

\* The parts of the type invariant, before and after a step.
LEMMA TypeParts ==
    /\ TypeOK => /\ TableOK /\ KeysOK /\ CopyOK /\ VersionsOK /\ BuildersOK /\ ListsOK
                 /\ LocksOK /\ HistoryOK /\ FaultsOK
    /\ TableOK' /\ KeysOK' /\ CopyOK' /\ VersionsOK' /\ BuildersOK' /\ ListsOK' /\ LocksOK' /\ HistoryOK' /\ FaultsOK'
       => TypeOK'
BY DEF TypeOK, TableOK, KeysOK, CopyOK, VersionsOK, BuildersOK, ListsOK, LocksOK, HistoryOK, FaultsOK, Ids

\* The types of single values.
LEMMA Typing ==
    ASSUME TypeOK
    PROVE  /\ db \in Nat /\ nextId \in Nat /\ watermark \in Nat /\ watermark < nextId /\ Empty \notin Nat
           /\ DOMAIN outbox \subseteq Nat /\ \A i \in DOMAIN outbox : i < nextId /\ i > 0
           /\ \A b \in Builders : pc[b] \in Steps /\ read[b] \in Nat /\ batch[b] \subseteq Ids /\ known[b] \subseteq Ids
           /\ \A t \in TxWriters : txRow[t] \in Nat /\ txRow[t] < nextId
           /\ snap \in Nat \union {Empty} /\ meta \in Nat \union {Empty}
           /\ \A i \in Ids : i \in Nat /\ 0 < i /\ i < nextId
BY SnapshotBoundAssumption DEF TypeOK, Ids

\* A builder moves: its step changes, the others' do not.
LEMMA GotoFacts ==
    ASSUME TypeOK, NEW b \in Builders, NEW s \in Steps, Goto(b, s)
    PROVE  /\ pc' \in [Builders -> Steps] /\ pc'[b] = s
           /\ \A c \in Builders : c # b => pc'[c] = pc[c]
BY DEF TypeOK, Goto

\* So does one that reads the row, or forgets what it read.
LEMMA ReadFacts ==
    ASSUME TypeOK, NEW b \in Builders, NEW v \in 0 .. MaxChanges, read' = [read EXCEPT ![b] = v]
    PROVE  /\ read' \in [Builders -> 0 .. MaxChanges] /\ read'[b] = v
           /\ \A c \in Builders : c # b => read'[c] = read[c]
BY DEF TypeOK

\* And one that gives up its list.
LEMMA FinishFacts ==
    ASSUME TypeOK, NEW b \in Builders, Finish(b)
    PROVE  /\ batch' \in [Builders -> SUBSET Ids] /\ known' \in [Builders -> SUBSET Ids]
           /\ batch'[b] = {} /\ known'[b] = {}
           /\ \A c \in Builders : c # b => batch'[c] = batch[c] /\ known'[c] = known[c]
BY TypeParts DEF ListsOK, Finish

\* A version that is given up leaves the order of the others.
LEMMA WithoutFacts ==
    ASSUME NEW b \in Builders
    PROVE  \A c, d \in Builders : <<c, d>> \in Without(b) <=> <<c, d>> \in versions /\ c # b /\ d # b
BY DEF Without

----------------------------------------------------------------------------
(* What every step keeps                                                   *)

\* What is to come after the step
MissingNext(K) ==
    \/ \E w \in Writers : writing'[w] = "enqueue"
    \/ lapse' = TRUE
    \/ \E i \in Waiting' : i \notin K

\* The lists that the invariant speaks of
Lists == {known[b] : b \in Builders} \union {{}}

\* A step keeps the copy current and the refreshes coming
Progress ==
    \A K \in Lists :
        /\ Missing(K) => MissingNext(K) \/ Fresh'
        /\ Fresh => Fresh' \/ MissingNext(K)
        /\ meta = db => meta' = db' \/ MissingNext(K)
        /\ snap = db => snap' = db' \/ MissingNext(K)
        /\ db' = db \/ MissingNext(K)

LEMMA MissingPrimed ==
    /\ \A b \in Builders : known'[b] = known[b] => (Missing(known[b])' <=> MissingNext(known[b]))
    /\ Missing({})' <=> MissingNext({})
BY DEF Missing, MissingNext, Enqueuing

\* A step that moves neither rows nor copies.
LEMMA QuietProgress ==
    ASSUME UNCHANGED <<db, snap, meta, lapse, watermark>>, DOMAIN outbox' = DOMAIN outbox,
           \A w \in Writers : writing'[w] = writing[w]
    PROVE  Progress /\ Fresh' = Fresh /\ Waiting' = Waiting
<1>1. Fresh' = Fresh
  BY DEF Fresh
<1>2. Waiting' = Waiting
  BY DEF Waiting
<1> QED BY <1>1, <1>2 DEF Progress, Missing, MissingNext, Enqueuing

\* What a worker has done stays done while others work.
LEMMA HandledKept ==
    ASSUME Progress, NEW b \in Builders, Handled(b), known'[b] = known[b], pc'[b] = pc[b], read'[b] = read[b],
           b \in beaten' => b \in beaten \/ snap' = db' \/ MissingNext(known[b]),
           \A c \in Builders : <<b, c>> \in versions' /\ pc'[c] = "activate" =>
               \/ <<b, c>> \in versions /\ pc[c] = "activate" /\ read'[c] = read[c]
               \/ read'[c] = db' \/ Fresh' \/ MissingNext(known[b])
    PROVE  Handled(b)'
<1>1. known[b] \in Lists
  BY DEF Lists
<1>2. Missing(known[b])' <=> MissingNext(known[b])
  BY MissingPrimed
<1>3. Fresh' => meta' = db' /\ snap' = db'
  BY DEF Fresh
<1>4. \A c \in Builders : ReadsNow(c, b) /\ read'[c] = read[c] => read'[c] = db' \/ Fresh' \/ MissingNext(known[b])
  BY <1>1 DEF ReadsNow, Progress
<1>5. pc'[b] \in {"setAccount", "version", "accounts", "activate"} => ReadsNow(b, b)'
  BY <1>2, <1>4 DEF Handled, ReadsNow
<1>6. pc'[b] \in {"lock", "load", "version", "accounts", "activate"} => meta' = db' \/ Missing(known[b])'
  BY <1>1, <1>2, <1>3 DEF Handled, Progress
<1>7. b \in beaten' => snap' = db' \/ Missing(known[b])'
  BY <1>1, <1>2, <1>3 DEF Handled, Progress
<1>8. \A c \in Builders : <<b, c>> \in versions' /\ pc'[c] = "activate" => ReadsNow(c, b)'
  BY <1>2, <1>4 DEF Handled, ReadsNow
<1>9. pc'[b] = "watermark" => Fresh' \/ Missing(known[b])'
  BY <1>1, <1>2 DEF Handled, Progress
<1> QED BY <1>5, <1>6, <1>7, <1>8, <1>9 DEF Handled

\* A history flag that records a loss.
LEMMA LoseFacts ==
    ASSUME NEW loss \in BOOLEAN, lapse \in BOOLEAN, Lose(loss)
    PROVE  /\ lapse' \in BOOLEAN
           /\ loss = TRUE \/ lapse = TRUE => lapse' = TRUE \/ Fresh'
BY Zenon DEF Lose

\* A step that adds an event for every list, or makes the copy current.
LEMMA NewsProgress ==
    ASSUME \A K \in Lists : MissingNext(K) \/ (Fresh' /\ db' = db)
    PROVE  Progress
<1>1. Fresh' => meta' = db' /\ snap' = db'
  BY DEF Fresh
<1> QED BY <1>1 DEF Progress

\* A step of the copies that only changes what it records.
LEMMA CopyProgress ==
    ASSUME UNCHANGED <<db, outbox, watermark, writing>>,
           lapse = TRUE => lapse' = TRUE \/ Fresh',
           snap = db => snap' = db' \/ lapse' = TRUE \/ Fresh',
           meta = db => meta' = db' \/ lapse' = TRUE \/ Fresh'
    PROVE  Progress
<1>1. Waiting' = Waiting
  BY DEF Waiting
<1>2. Fresh' => meta' = db' /\ snap' = db'
  BY DEF Fresh
<1>3. snap = db => snap' = db' \/ lapse' = TRUE
  BY <1>2
<1>4. meta = db => meta' = db' \/ lapse' = TRUE
  BY <1>2
<1>5. Fresh => Fresh' \/ lapse' = TRUE
  BY <1>3, <1>4 DEF Fresh
<1>6. \A K : lapse' = TRUE => MissingNext(K)
  BY DEF MissingNext
<1>7. \A K : Missing(K) => MissingNext(K) \/ Fresh'
  BY <1>1 DEF Missing, MissingNext, Enqueuing
<1> QED BY <1>3, <1>4, <1>5, <1>6, <1>7 DEF Progress

----------------------------------------------------------------------------
(* Parts that most steps leave alone                                       *)

\* Rows are at most cleaned up, and lists are kept or given up.
LEMMA RowsKept ==
    ASSUME Rows, Nested, txRow' = txRow, DOMAIN outbox' \subseteq DOMAIN outbox,
           \A i \in DOMAIN outbox' : outbox'[i] = outbox[i],
           \A c \in Builders : \/ batch'[c] = batch[c] /\ known'[c] = known[c]
                               \/ batch'[c] = {} /\ known'[c] = {}
    PROVE  Rows' /\ Nested'
<1>1. Rows'
  BY DEF Rows
<1>2. Nested'
  <2> SUFFICES ASSUME NEW b \in Builders, NEW c \in Builders
               PROVE  \/ known'[b] \intersect DOMAIN outbox' \subseteq known'[c]
                      \/ known'[c] \intersect DOMAIN outbox' \subseteq known'[b]
    BY DEF Nested
  <2>1. \/ known[b] \intersect DOMAIN outbox \subseteq known[c]
        \/ known[c] \intersect DOMAIN outbox \subseteq known[b]
    BY DEF Nested
  <2>2. (known'[b] = known[b] \/ known'[b] = {}) /\ (known'[c] = known[c] \/ known'[c] = {})
    OBVIOUS
  <2> QED BY <2>1, <2>2
<1> QED BY <1>1, <1>2

\* No version is taken, given up or beaten.
LEMMA OrderKept ==
    ASSUME Order, UNCHANGED <<versions, beaten>>,
           \A c \in Builders : c \in Versioned => c \in Versioned'
    PROVE  Order'
BY DEF Order, Versioned

\* The copy stays explained.
LEMMA ExplainedKept ==
    ASSUME Explained, Progress, db' = db \/ MissingNext({}),
           snap = Empty /\ db = 0 => snap' = Empty \/ Fresh'
    PROVE  Explained'
<1>1. {} \in Lists
  BY DEF Lists
<1>2. Missing({})' <=> MissingNext({})
  BY MissingPrimed
<1>3. CASE Fresh
  BY <1>1, <1>2, <1>3 DEF Explained, Progress
<1>4. CASE Missing({})
  BY <1>1, <1>2, <1>4 DEF Explained, Progress
<1>5. CASE snap = Empty /\ db = 0
  BY <1>2, <1>5 DEF Explained
<1> QED BY <1>3, <1>4, <1>5 DEF Explained

\* A step of the writers: the builders stay where they are.
LEMMA WriterStep ==
    ASSUME TypeOK, IInv, Progress, Rows', UNCHANGED <<snap, meta, versions, beaten, builder>>,
           db' \in Nat, db <= db',
           \A i \in DOMAIN outbox' : i \in DOMAIN outbox \/ \A b \in Builders : i \notin known[b]
    PROVE  IInv'
<1>1. Values'
  <2>1. \A v \in Nat : v <= db => v <= db'
    BY Typing
  <2> QED BY <2>1, Typing DEF IInv, Values, builder
<1>2. Nested'
  BY DEF IInv, Nested, builder
<1>3. Order'
  BY DEF IInv, Order, Versioned, builder
<1>4. Handling'
  <2>1. ASSUME NEW b \in Pollers, Handled(b) PROVE Handled(b)'
    BY <2>1, HandledKept DEF builder, Builders
  <2> QED BY <2>1 DEF IInv, Handling, builder
<1>5. Explained'
  <2>1. {} \in Lists
    BY DEF Lists
  <2>2. db' = db \/ MissingNext({})
    BY <2>1 DEF Progress
  <2> QED BY <2>2, ExplainedKept DEF IInv
<1> QED BY <1>1, <1>2, <1>3, <1>4, <1>5 DEF IInv

\* A step of one builder: the others keep their place, what they read and
\* their lists.
LEMMA BuilderStep ==
    ASSUME TypeOK, IInv, Progress, NEW b \in Builders, db' = db,
           \A c \in Builders : c # b => /\ pc'[c] = pc[c] /\ read'[c] = read[c]
                                        /\ batch'[c] = batch[c] /\ known'[c] = known[c],
           Values', Rows', Nested', Order',
           \A c \in Builders : c # b /\ Handled(c) =>
               /\ c \in beaten' => c \in beaten \/ snap' = db' \/ MissingNext(known[c])
               /\ \A d \in Builders : <<c, d>> \in versions' /\ pc'[d] = "activate" =>
                     \/ <<c, d>> \in versions /\ pc[d] = "activate" /\ read'[d] = read[d]
                     \/ read'[d] = db' \/ Fresh' \/ MissingNext(known[c]),
           b \in Pollers /\ batch'[b] # {} => Handled(b)',
           snap = Empty /\ db = 0 => snap' = Empty \/ Fresh'
    PROVE  IInv'
<1>1. Handling'
  <2>1. ASSUME NEW c \in Pollers, c # b, Handled(c) PROVE Handled(c)'
    <3>1. c \in Builders
      BY DEF Builders
    <3> QED BY <2>1, <3>1, HandledKept
  <2>2. ASSUME NEW c \in Pollers, batch'[c] # {} PROVE Handled(c)'
    <3>1. CASE c = b
      BY <2>2, <3>1
    <3>2. CASE c # b
      <4>1. batch[c] # {}
        BY <2>2, <3>2 DEF Builders
      <4> QED BY <2>1, <3>2, <4>1 DEF IInv, Handling
    <3> QED BY <3>1, <3>2
  <2> QED BY <2>2 DEF Handling
<1>2. Explained'
  BY ExplainedKept DEF IInv
<1> QED BY <1>1, <1>2 DEF IInv

----------------------------------------------------------------------------
(* The writers                                                             *)

\* Lists hold ids that were taken, and never a row whose key is set.
LEMMA ListFacts ==
    ASSUME TypeOK, Rows, NEW K \in Lists
    PROVE  /\ nextId \notin K
           /\ \A t \in TxWriters : txRow[t] # 0 => txRow[t] \notin K
           /\ \A i \in DOMAIN outbox : outbox[i] = TRUE => i \notin K
<1>1. K = {} \/ \E b \in Builders : K = known[b]
  BY DEF Lists
<1>2. \A b \in Builders : nextId \notin known[b]
  BY Typing
<1> QED BY <1>1, <1>2 DEF Rows

\* An event that is suppressed by a waiting row is to come for everyone.
LEMMA CoveredFacts ==
    ASSUME TypeOK, Rows, NEW K \in Lists, Covered, UNCHANGED <<outbox, watermark>>
    PROVE  MissingNext(K)
<1>1. PICK i \in Waiting : outbox[i]
  BY DEF Covered
<1>2. i \in DOMAIN outbox
  BY DEF Waiting
<1>3. outbox[i] \in BOOLEAN
  BY <1>2, TypeParts DEF KeysOK
<1>4. outbox[i] = TRUE
  BY <1>1, <1>3, Zenon
<1>5. i \notin K
  BY <1>2, <1>4, ListFacts
<1>6. Waiting' = Waiting
  BY DEF Waiting
<1> QED BY <1>5, <1>6 DEF MissingNext

LEMMA ChangeKept ==
    ASSUME TypeOK, IInv, NEW w \in Writers, Change(w)
    PROVE  TypeOK' /\ IInv'
<1> USE TypeParts
<1>1. lapse' \in BOOLEAN
  BY LoseFacts, Zenon DEF Change, HistoryOK
<1>2. db' \in 0 .. MaxChanges /\ db <= db' /\ db' \in Nat
  BY SnapshotBoundAssumption DEF Change, TableOK
<1>3. writing' \in [Writers \union TxWriters -> {"idle", "enqueue", "tx"}] /\ writing'[w] = "enqueue"
  BY DEF Change, TableOK
<1>4. TypeOK'
  BY <1>1, <1>2, <1>3 DEF Change, redis, builder, TypeOK
<1>5. Progress
  BY <1>3, NewsProgress DEF MissingNext
<1>6. Rows'
  BY DEF IInv, Rows, Change, builder
<1> QED BY <1>2, <1>4, <1>5, <1>6, WriterStep DEF Change, redis

\* A new row under an id nobody has listed.
LEMMA AddRowFacts ==
    ASSUME TypeOK, NEW i \in Nat \ {0}, AddRow(i), nextId' \in Nat, i < nextId', nextId <= nextId'
    PROVE  /\ DOMAIN outbox' = DOMAIN outbox \union {i}
           /\ DOMAIN outbox' \subseteq 1 .. (nextId' - 1)
           /\ \A j \in DOMAIN outbox' : outbox'[j] \in BOOLEAN
           /\ \A j \in DOMAIN outbox' : j # i => outbox'[j] = outbox[j]
<1>1. DOMAIN outbox' = DOMAIN outbox \union {i}
  BY DEF AddRow
<1>2. DOMAIN outbox' \subseteq 1 .. (nextId' - 1)
  BY <1>1, Typing
<1>3. \A j \in DOMAIN outbox' : j # i => outbox'[j] = outbox[j]
  BY DEF AddRow
<1>4. outbox'[i] = TRUE
  BY DEF AddRow
<1>5. \A j \in DOMAIN outbox : outbox[j] \in BOOLEAN
  BY TypeParts DEF KeysOK
<1>6. \A j \in DOMAIN outbox' : outbox'[j] \in BOOLEAN
  BY <1>1, <1>3, <1>4, <1>5, Zenon
<1> QED BY <1>1, <1>2, <1>3, <1>6

\* Ids that were taken stay ids when the sequence moves.
LEMMA MoreIds ==
    ASSUME TypeOK, nextId' \in Nat \ {0}, nextId <= nextId', UNCHANGED <<watermark, batch, known>>
    PROVE  /\ watermark' \in 0 .. (nextId' - 1)
           /\ txRow \in [TxWriters -> 0 .. (nextId' - 1)]
           /\ batch' \in [Builders -> SUBSET (1 .. (nextId' - 1))]
           /\ known' \in [Builders -> SUBSET (1 .. (nextId' - 1))]
<1>1. nextId \in Nat \ {0}
  BY DEF TypeOK
<1>2. 1 .. (nextId - 1) \subseteq 1 .. (nextId' - 1) /\ 0 .. (nextId - 1) \subseteq 0 .. (nextId' - 1)
  <2>1. ASSUME NEW m \in Nat \ {0}, NEW n \in Nat \ {0}, m <= n
        PROVE  1 .. (m - 1) \subseteq 1 .. (n - 1) /\ 0 .. (m - 1) \subseteq 0 .. (n - 1)
    BY <2>1
  <2> QED BY <1>1, <2>1
<1>3. batch \in [Builders -> SUBSET (1 .. (nextId' - 1))] /\ known \in [Builders -> SUBSET (1 .. (nextId' - 1))]
  <2> DEFINE A == 1 .. (nextId - 1)
             B == 1 .. (nextId' - 1)
  <2>1. A \subseteq B /\ batch \in [Builders -> SUBSET A] /\ known \in [Builders -> SUBSET A]
    BY <1>2 DEF TypeOK
  <2> HIDE DEF A, B
  <2>2. batch \in [Builders -> SUBSET B] /\ known \in [Builders -> SUBSET B]
    BY <2>1
  <2> QED BY <2>2 DEF B
<1>4. txRow \in [TxWriters -> 0 .. (nextId' - 1)] /\ watermark \in 0 .. (nextId' - 1)
  BY <1>2 DEF TypeOK
<1> QED BY <1>3, <1>4

\* A committed row that was in nobody's list and no longer is anybody's open row.
LEMMA RowsAdded ==
    ASSUME Rows, NEW r, DOMAIN outbox' = DOMAIN outbox \union {r}, UNCHANGED <<batch, known>>,
           \A j \in DOMAIN outbox' : j # r => outbox'[j] = outbox[j],
           \A b \in Builders : r \notin known[b],
           \A t \in TxWriters : txRow'[t] # 0 => txRow'[t] = txRow[t] /\ txRow'[t] # r
    PROVE  Rows'
<1>1. ASSUME NEW t \in TxWriters, txRow'[t] # 0
      PROVE  /\ txRow'[t] \notin DOMAIN outbox'
             /\ \A b \in Builders : txRow'[t] \notin known'[b]
             /\ \A u \in TxWriters : txRow'[u] = txRow'[t] => u = t
  <2>1. txRow'[t] = txRow[t] /\ txRow'[t] # r
    BY <1>1
  <2>2. \A u \in TxWriters : txRow'[u] = txRow'[t] => txRow'[u] = txRow[u]
    BY <1>1
  <2> QED BY <1>1, <2>1, <2>2 DEF Rows
<1>2. ASSUME NEW b \in Builders
      PROVE  /\ batch'[b] \subseteq known'[b] /\ (batch'[b] # {} => b \in Pollers)
             /\ \A i \in known'[b] \intersect DOMAIN outbox' : outbox'[i] # TRUE
  <2>1. batch[b] \subseteq known[b] /\ (batch[b] # {} => b \in Pollers)
    BY DEF Rows
  <2>2. ASSUME NEW i \in known[b] \intersect DOMAIN outbox' PROVE outbox'[i] # TRUE
    <3>1. i # r
      BY <2>2
    <3>2. i \in known[b] \intersect DOMAIN outbox /\ outbox'[i] = outbox[i]
      BY <3>1
    <3>3. outbox[i] # TRUE
      BY <3>2, Zenon DEF Rows
    <3> QED BY <3>2, <3>3, Zenon
  <2> QED BY <2>1, <2>2
<1> QED BY <1>1, <1>2, Zenon DEF Rows

LEMMA EnqueueEventKept ==
    ASSUME TypeOK, IInv, NEW w \in Writers, EnqueueEvent(w)
    PROVE  TypeOK' /\ IInv'
<1>1. writing' \in [Writers \union TxWriters -> {"idle", "enqueue", "tx"}]
  BY DEF EnqueueEvent, TypeOK
<1>2. UNCHANGED <<db, txRow, redis, builder>> /\ db \in Nat /\ db <= db
  <2>1. db \in Nat
    BY Typing
  <2> QED BY <2>1 DEF EnqueueEvent
<1>3. lapse \in BOOLEAN
  BY TypeParts DEF HistoryOK
<1>4. Rows
  BY DEF IInv
<1>5. CASE nextId' = nextId + 1 /\ AddRow(nextId) /\ Lose(FALSE) /\ UNCHANGED faults
  <2>1. nextId \in Nat \ {0} /\ nextId' \in Nat \ {0} /\ nextId < nextId' /\ nextId <= nextId'
    BY <1>5 DEF TypeOK
  <2>2. lapse' \in BOOLEAN
    BY <1>3, <1>5, LoseFacts, Zenon
  <2>3. /\ DOMAIN outbox' = DOMAIN outbox \union {nextId}
        /\ DOMAIN outbox' \subseteq 1 .. (nextId' - 1)
        /\ \A j \in DOMAIN outbox' : outbox'[j] \in BOOLEAN
        /\ \A j \in DOMAIN outbox' : j # nextId => outbox'[j] = outbox[j]
    BY <1>5, <2>1, AddRowFacts
  <2>4. TypeOK'
    BY <1>1, <1>2, <2>1, <2>2, <2>3, <1>5, MoreIds DEF TypeOK, redis, builder
  <2>5. nextId \in Waiting'
    BY <1>2, <2>3, Typing DEF Waiting, redis
  <2>6. Progress
    BY <1>4, <2>5, ListFacts, NewsProgress DEF MissingNext
  <2>7. Rows'
    <3>1. \A t \in TxWriters : txRow[t] # nextId
      BY Typing
    <3>2. \A b \in Builders : nextId \notin known[b]
      BY Typing
    <3> QED BY <1>2, <1>4, <2>3, <3>1, <3>2, RowsAdded DEF builder
  <2>8. \A i \in DOMAIN outbox' : i \in DOMAIN outbox \/ \A b \in Builders : i \notin known[b]
    BY <2>3, Typing
  <2> QED BY <1>2, <2>4, <2>6, <2>7, <2>8, WriterStep DEF redis
<1>6. CASE /\ UNCHANGED <<nextId, outbox>> /\ faults' \in 0 .. MaxFaults
           /\ lapse' \in BOOLEAN /\ (Covered \/ lapse' = TRUE \/ Fresh')
  <2>1. TypeOK'
    BY <1>1, <1>2, <1>6 DEF TypeOK, redis, builder
  <2>2. Progress
    <3>1. \A K \in Lists : Covered => MissingNext(K)
      BY <1>2, <1>4, <1>6, CoveredFacts DEF redis
    <3>2. \A K \in Lists : lapse' = TRUE => MissingNext(K)
      BY DEF MissingNext
    <3> QED BY <1>2, <1>6, <3>1, <3>2, NewsProgress
  <2>3. Rows'
    BY <1>2, <1>4, <1>6 DEF Rows, builder
  <2> QED BY <1>2, <1>6, <2>1, <2>2, <2>3, WriterStep DEF redis
<1>7. CASE Suppressed /\ UNCHANGED <<nextId, outbox, faults>> /\ Lose(~Covered)
  <2>1. lapse' \in BOOLEAN /\ (Covered \/ lapse' = TRUE \/ Fresh')
    BY <1>3, <1>7, Zenon DEF Lose
  <2> QED BY <1>6, <1>7, <2>1 DEF TypeOK
<1>8. CASE Inject /\ UNCHANGED <<nextId, outbox>> /\ Lose(TRUE)
  <2>1. lapse' \in BOOLEAN /\ (lapse' = TRUE \/ Fresh')
    BY <1>3, <1>8, Zenon DEF Lose
  <2>2. faults' \in 0 .. MaxFaults
    BY <1>8, SnapshotBoundAssumption DEF Inject, TypeOK
  <2> QED BY <1>6, <1>8, <2>1, <2>2
<1> QED BY <1>5, <1>7, <1>8 DEF EnqueueEvent

LEMMA TxInsertKept ==
    ASSUME TypeOK, IInv, NEW t \in TxWriters, TxInsert(t)
    PROVE  TypeOK' /\ IInv'
<1>1. /\ writing' \in [Writers \union TxWriters -> {"idle", "enqueue", "tx"}]
      /\ \A w \in Writers : writing'[w] = writing[w]
  BY ActorAssumption DEF TxInsert, TypeOK
<1>2. UNCHANGED <<db, outbox, redis, builder, lapse, faults>> /\ db \in Nat /\ db <= db
  <2>1. db \in Nat
    BY Typing
  <2> QED BY <2>1 DEF TxInsert
<1>3. Progress
  BY <1>1, <1>2, QuietProgress DEF redis
<1>4. CASE UNCHANGED <<txRow, nextId>>
  <2>1. TypeOK'
    BY <1>1, <1>2, <1>4 DEF TypeOK, redis, builder
  <2>2. Rows'
    BY <1>2, <1>4 DEF IInv, Rows, builder
  <2> QED BY <1>2, <1>3, <2>1, <2>2, WriterStep DEF redis
<1>5. CASE txRow' = [txRow EXCEPT ![t] = nextId] /\ nextId' = nextId + 1
  <2>1. nextId \in Nat \ {0} /\ nextId' \in Nat \ {0} /\ nextId <= nextId' /\ nextId \in 0 .. (nextId' - 1)
    BY <1>5 DEF TypeOK
  <2>2. UNCHANGED <<watermark, batch, known, outbox>>
    BY <1>2 DEF redis, builder
  <2>3. /\ watermark' \in 0 .. (nextId' - 1)
        /\ txRow \in [TxWriters -> 0 .. (nextId' - 1)]
        /\ batch' \in [Builders -> SUBSET (1 .. (nextId' - 1))]
        /\ known' \in [Builders -> SUBSET (1 .. (nextId' - 1))]
    BY <2>1, <2>2, MoreIds
  <2>4. txRow' \in [TxWriters -> 0 .. (nextId' - 1)]
    BY <1>5, <2>1, <2>3
  <2>5. DOMAIN outbox' \subseteq 1 .. (nextId' - 1)
    BY <2>1, <2>2, Typing
  <2>6. TypeOK'
    BY <1>1, <1>2, <2>1, <2>3, <2>4, <2>5 DEF TypeOK, redis, builder
  <2>7. txRow'[t] = nextId /\ \A u \in TxWriters : u # t => txRow'[u] = txRow[u]
    BY <1>5 DEF TypeOK
  <2>8. /\ nextId \notin DOMAIN outbox /\ \A b \in Builders : nextId \notin known[b]
        /\ \A u \in TxWriters : txRow[u] # nextId
    BY Typing
  <2>9. Rows'
    BY <2>2, <2>7, <2>8 DEF IInv, Rows
  <2> QED BY <1>2, <1>3, <2>6, <2>9, WriterStep DEF redis
<1> QED BY <1>4, <1>5 DEF TxInsert

LEMMA TxCommitKept ==
    ASSUME TypeOK, IInv, NEW t \in TxWriters, TxCommit(t)
    PROVE  TypeOK' /\ IInv'
<1>1. writing' \in [Writers \union TxWriters -> {"idle", "enqueue", "tx"}]
  BY DEF TxCommit, TypeOK
<1>2. UNCHANGED <<nextId, redis, builder, faults>>
  BY DEF TxCommit
<1>3. db' \in 0 .. MaxChanges /\ db <= db' /\ db' \in Nat /\ db < db'
  BY SnapshotBoundAssumption DEF TxCommit, TypeOK
<1>4. /\ txRow' \in [TxWriters -> 0 .. (nextId - 1)] /\ txRow'[t] = 0
      /\ \A u \in TxWriters : u # t => txRow'[u] = txRow[u]
  BY DEF TxCommit, TypeOK
<1>5. lapse \in BOOLEAN
  BY TypeParts DEF HistoryOK
<1>6. ~Fresh'
  <2>1. meta' = meta
    BY <1>2 DEF redis
  <2>2. meta # Empty => meta \in Nat /\ meta <= db
    BY Typing DEF IInv, Values
  <2>3. meta = Empty => meta # db'
    BY <1>3, Typing
  <2>4. meta # Empty => meta # db'
    BY <1>3, <2>2, Typing
  <2> QED BY <2>1, <2>3, <2>4 DEF Fresh
<1>7. Rows
  BY DEF IInv
<1>8. CASE txRow[t] # 0 /\ AddRow(txRow[t]) /\ Lose(txRow[t] <= watermark)
  <2>1. txRow[t] \in Nat \ {0} /\ txRow[t] < nextId /\ nextId \in Nat /\ nextId <= nextId
    BY <1>8, Typing
  <2>2. lapse' \in BOOLEAN /\ (txRow[t] <= watermark => lapse' = TRUE)
    BY <1>5, <1>6, <1>8, Zenon DEF Lose
  <2>3. /\ DOMAIN outbox' = DOMAIN outbox \union {txRow[t]}
        /\ DOMAIN outbox' \subseteq 1 .. (nextId' - 1)
        /\ \A j \in DOMAIN outbox' : outbox'[j] \in BOOLEAN
        /\ \A j \in DOMAIN outbox' : j # txRow[t] => outbox'[j] = outbox[j]
    BY <1>2, <1>8, <2>1, AddRowFacts
  <2>4. TypeOK'
    BY <1>1, <1>2, <1>3, <1>4, <2>2, <2>3 DEF TypeOK, redis, builder
  <2>5. txRow[t] \in Waiting' \/ lapse' = TRUE
    BY <1>2, <2>1, <2>2, <2>3, Typing DEF Waiting, redis
  <2>6. Progress
    BY <1>7, <1>8, <2>5, ListFacts, NewsProgress DEF MissingNext
  <2>7. Rows'
    <3>1. \A b \in Builders : txRow[t] \notin known[b]
      BY <1>7, <1>8 DEF Rows
    <3>2. \A u \in TxWriters : txRow'[u] # 0 => txRow'[u] = txRow[u] /\ txRow'[u] # txRow[t]
      BY <1>4, <1>7, <1>8 DEF Rows
    <3> QED BY <1>2, <1>7, <2>3, <3>1, <3>2, RowsAdded DEF builder
  <2>8. \A i \in DOMAIN outbox' : i \in DOMAIN outbox \/ \A b \in Builders : i \notin known[b]
    BY <1>7, <1>8, <2>3 DEF Rows
  <2> QED BY <1>2, <1>3, <2>4, <2>6, <2>7, <2>8, WriterStep DEF redis
<1>9. CASE txRow[t] = 0 /\ UNCHANGED outbox /\ Lose(~Covered)
  <2>1. lapse' \in BOOLEAN /\ (Covered \/ lapse' = TRUE)
    BY <1>5, <1>6, <1>9, Zenon DEF Lose
  <2>2. TypeOK'
    BY <1>1, <1>2, <1>3, <1>4, <1>9, <2>1 DEF TypeOK, redis, builder
  <2>3. Progress
    <3>1. \A K \in Lists : Covered => MissingNext(K)
      BY <1>2, <1>7, <1>9, CoveredFacts DEF redis
    <3>2. \A K \in Lists : lapse' = TRUE => MissingNext(K)
      BY DEF MissingNext
    <3> QED BY <2>1, <3>1, <3>2, NewsProgress
  <2>4. txRow' = txRow
    BY <1>9 DEF TxCommit, TypeOK
  <2>5. Rows'
    BY <1>2, <1>7, <1>9, <2>4 DEF Rows, builder
  <2> QED BY <1>2, <1>3, <1>9, <2>2, <2>3, <2>5, WriterStep DEF redis
<1> QED BY <1>8, <1>9 DEF TxCommit

LEMMA LockExpiresKept ==
    ASSUME TypeOK, IInv, LockExpires
    PROVE  TypeOK' /\ IInv'
<1>1. faults' \in 0 .. MaxFaults
  BY SnapshotBoundAssumption DEF LockExpires, Inject, TypeOK
<1>2. TypeOK'
  BY <1>1 DEF LockExpires, table, builder, TypeOK
<1>3. Progress
  BY QuietProgress DEF LockExpires, table
<1>4. Rows'
  BY DEF IInv, Rows, LockExpires, table, builder
<1>5. db' \in Nat /\ db <= db'
  <2>1. db \in Nat
    BY Typing
  <2> QED BY <2>1 DEF LockExpires, table
<1> QED BY <1>2, <1>3, <1>4, <1>5, WriterStep DEF LockExpires, table

----------------------------------------------------------------------------
(* The builders                                                            *)

\* Only what was read is copied.
LEMMA ValuesKept ==
    ASSUME TypeOK, Values, NEW b \in Builders, db' = db,
           \A c \in Builders : c # b => pc'[c] = pc[c] /\ read'[c] = read[c],
           read'[b] \in {read[b], db, 0}, meta' \in {meta, read[b]}, snap' \in {snap, read[b]},
           pc'[b] = "activate" => meta' # Empty
    PROVE  Values'
<1>1. db \in Nat /\ db <= db /\ 0 <= db
  BY Typing
<1>2. read[b] \in Nat /\ read[b] <= db /\ read[b] # Empty
  BY Typing DEF Values
<1>3. read'[b] <= db
  BY <1>1, <1>2
<1>4. meta # Empty => meta' # Empty
  BY <1>2
<1>5. (snap' # Empty => snap' <= db) /\ (meta' # Empty => meta' <= db)
  BY <1>2 DEF Values
<1> QED BY <1>3, <1>4, <1>5 DEF Values

\* A builder without a version is neither beaten nor older than another.
LEMMA Unversioned ==
    ASSUME Order, NEW b \in Builders, b \notin Versioned
    PROVE  b \notin beaten /\ \A c \in Builders : <<b, c>> \notin versions /\ <<c, b>> \notin versions
BY DEF Order

\* A step of a builder without a version, which takes none.
LEMMA UnversionedStep ==
    ASSUME TypeOK, IInv, Progress, NEW b \in Builders, b \notin Versioned, pc'[b] # "activate",
           UNCHANGED <<db, outbox, txRow, batch, known, versions, beaten, snap>>,
           \A c \in Builders : c # b => pc'[c] = pc[c] /\ read'[c] = read[c],
           read'[b] \in {read[b], db, 0}, meta' \in {meta, read[b]},
           b \in Pollers /\ batch[b] # {} /\ Handled(b) =>
               /\ pc'[b] \in {"setAccount", "version", "accounts"} => ReadsNow(b, b)'
               /\ pc'[b] \in {"lock", "load", "version", "accounts"} => meta' = db' \/ Missing(known[b])'
               /\ pc'[b] = "watermark" => Fresh' \/ Missing(known[b])'
    PROVE  IInv'
<1>1. Values'
  BY ValuesKept DEF IInv
<1>2. Rows' /\ Nested'
  BY RowsKept DEF IInv
<1>3. Order'
  <2>1. \A c \in Builders : c \in Versioned => c \in Versioned'
    BY DEF Versioned
  <2> QED BY <2>1, OrderKept DEF IInv
<1>4. b \notin beaten /\ \A c \in Builders : <<b, c>> \notin versions /\ <<c, b>> \notin versions
  BY Unversioned DEF IInv
<1>5. ASSUME b \in Pollers, batch'[b] # {} PROVE Handled(b)'
  <2>1. Handled(b)
    BY <1>5 DEF IInv, Handling
  <2> QED BY <1>4, <1>5, <2>1 DEF Handled
<1> QED BY <1>1, <1>2, <1>3, <1>4, <1>5, BuilderStep

LEMMA ReadAccountKept ==
    ASSUME TypeOK, IInv, NEW b \in Builders, ReadAccount(b)
    PROVE  TypeOK' /\ IInv'
<1>1. /\ pc' \in [Builders -> Steps] /\ pc'[b] = "setAccount"
      /\ \A c \in Builders : c # b => pc'[c] = pc[c]
  BY GotoFacts DEF ReadAccount, Steps
<1>2. /\ read' \in [Builders -> 0 .. MaxChanges] /\ read'[b] = db
      /\ \A c \in Builders : c # b => read'[c] = read[c]
  BY ReadFacts DEF ReadAccount, TypeOK
<1>3. UNCHANGED <<table, redis, locking, batch, known, lapse, faults>> /\ b \notin Versioned
  BY DEF ReadAccount, Versioned
<1>4. TypeOK'
  BY <1>1, <1>2, <1>3 DEF TypeOK, table, redis
<1>5. Progress
  BY <1>3, QuietProgress DEF table, redis
<1>6. ReadsNow(b, b)'
  BY <1>2, <1>3 DEF ReadsNow, table
<1> QED BY <1>1, <1>2, <1>3, <1>4, <1>5, <1>6, UnversionedStep DEF table, redis

LEMMA LoadAccountsKept ==
    ASSUME TypeOK, IInv, NEW b \in Builders, LoadAccounts(b)
    PROVE  TypeOK' /\ IInv'
<1>1. /\ pc' \in [Builders -> Steps] /\ pc'[b] = "version"
      /\ \A c \in Builders : c # b => pc'[c] = pc[c]
  BY GotoFacts DEF LoadAccounts, Steps
<1>2. /\ read' \in [Builders -> 0 .. MaxChanges] /\ read'[b] = db
      /\ \A c \in Builders : c # b => read'[c] = read[c]
  BY ReadFacts DEF LoadAccounts, TypeOK
<1>3. UNCHANGED <<table, redis, locking, batch, known, lapse, faults>> /\ b \notin Versioned /\ pc[b] = "load"
  BY DEF LoadAccounts, Versioned
<1>4. TypeOK'
  BY <1>1, <1>2, <1>3 DEF TypeOK, table, redis
<1>5. Progress
  BY <1>3, QuietProgress DEF table, redis
<1>6. ReadsNow(b, b)'
  BY <1>2, <1>3 DEF ReadsNow, table
<1>7. Handled(b) => meta' = db' \/ Missing(known[b])'
  <2>1. known[b] \in Lists /\ (Missing(known[b])' <=> MissingNext(known[b]))
    BY <1>3, MissingPrimed DEF Lists
  <2>2. Missing(known[b]) => MissingNext(known[b])
    BY <1>3 DEF Missing, MissingNext, Enqueuing, Waiting, table, redis
  <2> QED BY <1>3, <2>1, <2>2 DEF Handled, table, redis
<1> QED BY <1>1, <1>2, <1>3, <1>4, <1>5, <1>6, <1>7, UnversionedStep DEF table, redis

\* A worker that finds the refresh recorded may go on.
LEMMA ProgressFacts ==
    ASSUME Progress, NEW b \in Builders, known' = known
    PROVE  /\ Missing(known[b]) => Missing(known[b])' \/ Fresh'
           /\ Fresh => Fresh' \/ Missing(known[b])'
           /\ meta = db => meta' = db' \/ Missing(known[b])'
           /\ lapse' = TRUE => Missing(known[b])'
           /\ Fresh' => meta' = db' /\ snap' = db'
<1>1. known[b] \in Lists /\ (Missing(known[b])' <=> MissingNext(known[b]))
  BY MissingPrimed DEF Lists
<1>2. lapse' = TRUE => MissingNext(known[b])
  BY DEF MissingNext
<1>3. Fresh' => meta' = db' /\ snap' = db'
  BY DEF Fresh
<1> QED BY <1>1, <1>2, <1>3 DEF Progress

\* An older read that is written over a newer one is recorded.
LEMMA MetaProgress ==
    ASSUME TypeOK, Values, NEW b \in Builders, meta' = read[b],
           Lose(meta # Empty /\ read[b] < meta),
           UNCHANGED <<table, watermark, snap>>
    PROVE  /\ lapse' \in BOOLEAN /\ Progress
           /\ meta = db => read[b] = db \/ lapse' = TRUE \/ Fresh'
<1>1. lapse \in BOOLEAN
  BY TypeParts DEF HistoryOK
<1>2. /\ lapse' \in BOOLEAN
      /\ lapse = TRUE => lapse' = TRUE \/ Fresh'
      /\ meta # Empty /\ read[b] < meta => lapse' = TRUE \/ Fresh'
  BY <1>1, Zenon DEF Lose
<1>3. db \in Nat /\ db # Empty /\ read[b] \in Nat /\ read[b] <= db
  BY Typing DEF Values
<1>4. meta = db => read[b] = db \/ lapse' = TRUE \/ Fresh'
  BY <1>2, <1>3
<1>5. Progress
  <2>1. UNCHANGED <<db, outbox, watermark, writing, snap>>
    BY DEF table
  <2> QED BY <1>2, <1>4, <2>1, CopyProgress
<1> QED BY <1>2, <1>4, <1>5

LEMMA SetAccountKept ==
    ASSUME TypeOK, IInv, NEW b \in Builders, SetAccount(b)
    PROVE  TypeOK' /\ IInv'
<1>1. /\ pc' \in [Builders -> Steps] /\ pc'[b] = "lock"
      /\ \A c \in Builders : c # b => pc'[c] = pc[c]
  BY GotoFacts DEF SetAccount, Steps
<1>2. UNCHANGED <<table, watermark, lock, snap, versions, beaten, read, locking, batch, known, faults>>
      /\ b \notin Versioned /\ pc[b] = "setAccount" /\ meta' = read[b]
  BY DEF SetAccount, Versioned
<1>3. lapse' \in BOOLEAN /\ Progress
  BY <1>2, MetaProgress DEF SetAccount, IInv
<1>4. TypeOK'
  BY <1>1, <1>2, <1>3 DEF TypeOK, table
<1>5. Handled(b) => meta' = db' \/ Missing(known[b])'
  <2>1. Handled(b) => read[b] = db \/ Fresh \/ Missing(known[b])
    BY <1>2 DEF Handled, ReadsNow
  <2> QED BY <1>2, <1>3, <2>1, ProgressFacts DEF table
<1> QED BY <1>1, <1>2, <1>3, <1>4, <1>5, UnversionedStep DEF table

LEMMA TryLockBucketKept ==
    ASSUME TypeOK, IInv, NEW b \in Builders, TryLockBucket(b)
    PROVE  TypeOK' /\ IInv'
<1>1. UNCHANGED <<table, watermark, snap, meta, versions, beaten, batch, known, faults>>
      /\ b \notin Versioned /\ pc[b] = "lock"
  BY DEF TryLockBucket, Versioned
<1>2. CASE /\ lock' = b /\ locking' = locking \union {b} /\ Goto(b, "load") /\ UNCHANGED <<lapse, read>>
  <2>1. /\ pc' \in [Builders -> Steps] /\ pc'[b] = "load"
        /\ \A c \in Builders : c # b => pc'[c] = pc[c]
    BY <1>2, GotoFacts DEF Steps
  <2>2. TypeOK'
    BY <1>1, <1>2, <2>1 DEF TypeOK, table
  <2>3. Progress
    BY <1>1, <1>2, QuietProgress DEF table
  <2>4. Handled(b) => meta' = db' \/ Missing(known[b])'
    <3>1. Handled(b) => meta = db \/ Missing(known[b])
      BY <1>1 DEF Handled
    <3> QED BY <1>1, <2>3, <3>1, ProgressFacts
  <2> QED BY <1>1, <1>2, <2>1, <2>2, <2>3, <2>4, UnversionedStep DEF table
<1>3. CASE /\ Goto(b, After(b)) /\ read' = [read EXCEPT ![b] = 0] /\ UNCHANGED <<lock, locking>>
           /\ lapse' = ((lapse \/ b \in Pollers) /\ ~Fresh)
  <2>1. After(b) \in {"watermark", "idle"}
    BY DEF After
  <2>2. /\ pc' \in [Builders -> Steps] /\ pc'[b] \in {"watermark", "idle"}
        /\ \A c \in Builders : c # b => pc'[c] = pc[c]
    BY <1>3, <2>1, GotoFacts DEF Steps
  <2>3. /\ read' \in [Builders -> 0 .. MaxChanges] /\ read'[b] = 0
        /\ \A c \in Builders : c # b => read'[c] = read[c]
    <3>1. 0 \in 0 .. MaxChanges
      BY SnapshotBoundAssumption
    <3> QED BY <1>3, <3>1, ReadFacts
  <2>4. lapse \in BOOLEAN
    BY TypeParts DEF HistoryOK
  <2>5. Fresh' <=> Fresh
    BY <1>1 DEF Fresh, table
  <2>6. /\ lapse' \in BOOLEAN
        /\ lapse = TRUE => lapse' = TRUE \/ Fresh'
        /\ b \in Pollers => lapse' = TRUE \/ Fresh'
    BY <1>3, <2>4, <2>5, Zenon
  <2>7. TypeOK'
    BY <1>1, <1>3, <2>2, <2>3, <2>6 DEF TypeOK, table
  <2>8. Progress
    BY <1>1, <2>6, CopyProgress DEF table
  <2>9. b \in Pollers => Fresh' \/ Missing(known[b])'
    BY <1>1, <2>6, <2>8, ProgressFacts
  <2> QED BY <1>1, <2>2, <2>3, <2>7, <2>8, <2>9, UnversionedStep DEF table
<1> QED BY <1>2, <1>3 DEF TryLockBucket

\* A newer version: those under way are older.
LEMMA TakeVersionKept ==
    ASSUME TypeOK, IInv, NEW b \in Builders, TakeVersion(b)
    PROVE  TypeOK' /\ IInv'
<1>1. /\ pc' \in [Builders -> Steps] /\ pc'[b] = "accounts"
      /\ \A c \in Builders : c # b => pc'[c] = pc[c]
  BY GotoFacts DEF TakeVersion, Steps
<1>2. UNCHANGED <<table, watermark, lock, snap, meta, beaten, read, locking, batch, known, lapse, faults>>
      /\ b \notin Versioned /\ pc[b] = "version"
  BY DEF TakeVersion, Versioned
<1>3. Versioned \subseteq Builders /\ Versioned' = Versioned \union {b}
  BY <1>1 DEF Versioned
<1>4. /\ versions' \subseteq Builders \X Builders
      /\ \A c, d \in Builders : <<c, d>> \in versions' <=> <<c, d>> \in versions \/ (c \in Versioned /\ d = b)
  BY <1>3 DEF TakeVersion, TypeOK
<1>5. TypeOK'
  BY <1>1, <1>2, <1>4 DEF TypeOK, table
<1>6. Progress
  BY <1>2, QuietProgress DEF table
<1>7. Values'
  BY <1>1, <1>2, ValuesKept DEF IInv, table
<1>8. Rows' /\ Nested'
  BY <1>2, RowsKept DEF IInv, table
<1>9. Order'
  BY <1>2, <1>3, <1>4 DEF IInv, Order
<1>10. ASSUME b \in Pollers, batch'[b] # {} PROVE Handled(b)'
  <2>1. Handled(b)
    BY <1>2, <1>10 DEF IInv, Handling
  <2>2. b \notin beaten' /\ \A c \in Builders : <<b, c>> \notin versions'
    BY <1>2, <1>4, Unversioned DEF IInv
  <2>3. ReadsNow(b, b)'
    <3>1. read[b] = db \/ Fresh \/ Missing(known[b])
      BY <1>2, <2>1 DEF Handled, ReadsNow
    <3> QED BY <1>2, <1>6, <3>1, ProgressFacts DEF ReadsNow, table
  <2>4. meta' = db' \/ Missing(known[b])'
    <3>1. meta = db \/ Missing(known[b])
      BY <1>2, <2>1 DEF Handled
    <3> QED BY <1>2, <1>6, <3>1, ProgressFacts
  <2> QED BY <1>1, <2>2, <2>3, <2>4 DEF Handled
<1> QED BY <1>1, <1>2, <1>4, <1>5, <1>6, <1>7, <1>8, <1>9, <1>10, BuilderStep DEF table

LEMMA WriteAccountsKept ==
    ASSUME TypeOK, IInv, NEW b \in Builders, WriteAccounts(b)
    PROVE  TypeOK' /\ IInv'
<1>1. /\ pc' \in [Builders -> Steps] /\ pc'[b] = "activate"
      /\ \A c \in Builders : c # b => pc'[c] = pc[c]
  BY GotoFacts DEF WriteAccounts, Steps
<1>2. UNCHANGED <<table, watermark, lock, snap, versions, beaten, read, locking, batch, known, faults>>
      /\ pc[b] = "accounts" /\ meta' = read[b]
  BY DEF WriteAccounts
<1>3. /\ lapse' \in BOOLEAN /\ Progress
      /\ meta = db => read[b] = db \/ lapse' = TRUE \/ Fresh'
  BY <1>2, MetaProgress DEF WriteAccounts, IInv
<1>4. TypeOK'
  BY <1>1, <1>2, <1>3 DEF TypeOK, table
<1>5. Values'
  <2>1. meta' # Empty
    BY <1>2, Typing
  <2> QED BY <1>1, <1>2, <2>1, ValuesKept DEF IInv, table
<1>6. Rows' /\ Nested'
  BY <1>2, RowsKept DEF IInv, table
<1>7. Order'
  <2>1. \A c \in Builders : c \in Versioned => c \in Versioned'
    BY <1>1, <1>2 DEF Versioned
  <2> QED BY <1>2, <2>1, OrderKept DEF IInv
<1>8. \A c \in Builders : <<b, c>> \in versions => c # b
  BY DEF IInv, Order
<1>9. ASSUME b \in Pollers, batch'[b] # {} PROVE Handled(b)'
  <2>1. Handled(b)
    BY <1>2, <1>9 DEF IInv, Handling
  <2>2. ReadsNow(b, b)'
    <3>1. read[b] = db \/ Fresh \/ Missing(known[b])
      BY <1>2, <2>1 DEF Handled, ReadsNow
    <3> QED BY <1>2, <1>3, <3>1, ProgressFacts DEF ReadsNow, table
  <2>3. meta' = db' \/ Missing(known[b])'
    BY <1>2, <2>2, <1>3, ProgressFacts DEF ReadsNow, table
  <2>4. b \in beaten' => snap' = db' \/ Missing(known[b])'
    <3>1. b \in beaten => snap = db \/ Missing(known[b])
      BY <2>1 DEF Handled
    <3> QED BY <1>2, <1>3, <3>1, ProgressFacts DEF table
  <2>5. ASSUME NEW c \in Builders, <<b, c>> \in versions', pc'[c] = "activate" PROVE ReadsNow(c, b)'
    <3>1. ReadsNow(c, b) /\ read'[c] = read[c]
      BY <1>1, <1>2, <1>8, <2>1, <2>5 DEF Handled
    <3> QED BY <1>2, <1>3, <3>1, ProgressFacts DEF ReadsNow, table
  <2> QED BY <1>1, <2>2, <2>3, <2>4, <2>5 DEF Handled
<1>10. ASSUME NEW c \in Builders, c # b, Handled(c), <<c, b>> \in versions
       PROVE  read'[b] = db' \/ Fresh' \/ MissingNext(known[c])
  <2>1. c \in Versioned
    BY <1>10 DEF IInv, Order
  <2>2. meta = db \/ Missing(known[c])
    BY <1>10, <2>1 DEF Handled, Versioned
  <2>3. Missing(known[c]) => Fresh' \/ MissingNext(known[c])
    BY <1>3 DEF Progress, Lists
  <2>4. lapse' = TRUE => MissingNext(known[c])
    BY DEF MissingNext
  <2> QED BY <1>2, <1>3, <2>2, <2>3, <2>4 DEF table
<1>11. \A c \in Builders : c # b /\ Handled(c) =>
          /\ c \in beaten' => c \in beaten \/ snap' = db' \/ MissingNext(known[c])
          /\ \A d \in Builders : <<c, d>> \in versions' /\ pc'[d] = "activate" =>
                \/ <<c, d>> \in versions /\ pc[d] = "activate" /\ read'[d] = read[d]
                \/ read'[d] = db' \/ Fresh' \/ MissingNext(known[c])
  BY <1>1, <1>2, <1>10
<1> QED BY <1>1, <1>2, <1>3, <1>4, <1>5, <1>6, <1>7, <1>9, <1>11, BuilderStep DEF table

\* A builder that gives up its version leaves the others' order.
LEMMA OrderWithout ==
    ASSUME Order, NEW b \in Builders, versions' = Without(b), b \notin beaten',
           beaten' \subseteq beaten \union Older(b),
           \A c \in Builders : c # b => pc'[c] = pc[c]
    PROVE  Order'
<1>1. \A c \in Versioned : c # b => c \in Versioned'
  BY DEF Versioned
<1>2. ASSUME NEW c \in Builders, NEW d \in Builders, <<c, d>> \in versions'
      PROVE  c # d /\ {c, d} \subseteq Versioned'
  <2>1. <<c, d>> \in versions /\ c # b /\ d # b
    BY <1>2, WithoutFacts
  <2> QED BY <1>1, <2>1 DEF Order
<1>3. ASSUME NEW c \in beaten' PROVE c \in Versioned'
  <2>1. c \in Versioned
    BY <1>3 DEF Order, Older
  <2> QED BY <1>1, <1>3, <2>1
<1> QED BY <1>2, <1>3 DEF Order

LEMMA ActivateKept ==
    ASSUME TypeOK, IInv, NEW b \in Builders, Activate(b)
    PROVE  TypeOK' /\ IInv'
<1>1. UNCHANGED <<table, watermark, meta, batch, known, faults>> /\ pc[b] = "activate" /\ versions' = Without(b)
  BY DEF Activate
<1>2. /\ pc' \in [Builders -> Steps] /\ pc'[b] \in {"watermark", "idle"}
      /\ \A c \in Builders : c # b => pc'[c] = pc[c]
  <2>1. After(b) \in {"watermark", "idle"}
    BY DEF After
  <2> QED BY <2>1, GotoFacts DEF Activate, Steps
<1>3. /\ read' \in [Builders -> 0 .. MaxChanges] /\ read'[b] = 0
      /\ \A c \in Builders : c # b => read'[c] = read[c]
  <2>1. 0 \in 0 .. MaxChanges
    BY SnapshotBoundAssumption
  <2> QED BY <2>1, ReadFacts DEF Activate
<1>4. \/ b \in beaten /\ snap' = snap /\ beaten' = beaten \ {b}
      \/ b \notin beaten /\ snap' = read[b] /\ beaten' = beaten \union Older(b)
  BY DEF Activate
<1>5. b \notin beaten' /\ beaten' \subseteq beaten \union Older(b)
  <2>1. b \notin Older(b)
    BY DEF IInv, Order, Older
  <2> QED BY <1>4, <2>1
<1>6. lapse \in BOOLEAN
  BY TypeParts DEF HistoryOK
<1>7. /\ lapse' \in BOOLEAN
      /\ lapse = TRUE => lapse' = TRUE \/ Fresh'
      /\ snap # Empty /\ snap' < snap => lapse' = TRUE \/ Fresh'
  BY <1>6, Zenon DEF Activate, Lose
<1>8. db \in Nat /\ db # Empty /\ read[b] \in Nat /\ read[b] <= db /\ meta # Empty /\ 0 <= db
  BY <1>1, Typing DEF IInv, Values
<1>9. snap = db => snap' = db' \/ lapse' = TRUE \/ Fresh'
  BY <1>1, <1>4, <1>7, <1>8 DEF table
<1>10. Progress
  BY <1>1, <1>7, <1>9, CopyProgress DEF table
<1>11. TypeOK'
  <2>1. snap' \in 0 .. MaxChanges \union {Empty}
    BY <1>4 DEF TypeOK
  <2>2. lock' \in Builders \union {NoOne} /\ locking' \subseteq Builders
    BY DEF Activate, Unlocked, TypeOK
  <2>3. versions' \subseteq Builders \X Builders /\ beaten' \subseteq Builders
    BY <1>1, <1>5 DEF TypeOK, Without, Older
  <2> QED BY <1>1, <1>2, <1>3, <1>7, <2>1, <2>2, <2>3 DEF TypeOK, table
<1>12. Values'
  BY <1>1, <1>2, <1>3, <1>4, ValuesKept DEF IInv, table
<1>13. Rows' /\ Nested'
  BY <1>1, RowsKept DEF IInv, table
<1>14. Order'
  BY <1>1, <1>2, <1>5, OrderWithout DEF IInv
<1>15. ASSUME b \in Pollers, batch'[b] # {} PROVE Handled(b)'
  <2>1. Handled(b)
    BY <1>1, <1>15 DEF IInv, Handling
  <2>2. \A c \in Builders : <<b, c>> \notin versions'
    BY <1>1, WithoutFacts
  <2>3. meta' = db' \/ Missing(known[b])'
    <3>1. meta = db \/ Missing(known[b])
      BY <1>1, <2>1 DEF Handled
    <3> QED BY <1>1, <1>10, <3>1, ProgressFacts
  <2>4. snap' = db' \/ Missing(known[b])'
    <3>1. CASE b \in beaten
      <4>1. snap = db \/ Missing(known[b])
        BY <2>1, <3>1 DEF Handled
      <4>2. snap' = snap /\ db' = db
        BY <1>1, <1>4, <3>1 DEF table
      <4> QED BY <1>1, <1>10, <4>1, <4>2, ProgressFacts
    <3>2. CASE b \notin beaten
      <4>1. read[b] = db \/ Fresh \/ Missing(known[b])
        BY <1>1, <2>1 DEF Handled, ReadsNow
      <4>2. snap' = read[b] /\ db' = db
        BY <1>1, <1>4, <3>2 DEF table
      <4> QED BY <1>1, <1>10, <4>1, <4>2, ProgressFacts
    <3> QED BY <3>1, <3>2
  <2>5. Fresh' \/ Missing(known[b])'
    BY <2>3, <2>4 DEF Fresh
  <2>6. known'[b] = known[b]
    BY <1>1
  <2> QED BY <1>2, <1>5, <2>2, <2>5, <2>6 DEF Handled
<1>16. ASSUME NEW c \in Builders, c # b, Handled(c), c \in beaten', c \notin beaten
       PROVE  snap' = db' \/ MissingNext(known[c])
  <2>1. b \notin beaten /\ snap' = read[b] /\ <<c, b>> \in versions /\ db' = db
    BY <1>1, <1>4, <1>16 DEF Older, table
  <2>2. read[b] = db \/ Fresh \/ Missing(known[c])
    BY <1>1, <1>16, <2>1 DEF Handled, ReadsNow
  <2>3. (Fresh \/ Missing(known[c])) => Fresh' \/ MissingNext(known[c])
    BY <1>10 DEF Progress, Lists
  <2>4. Fresh' => snap' = db'
    BY DEF Fresh
  <2> QED BY <2>1, <2>2, <2>3, <2>4
<1>17. ASSUME NEW c \in Builders, NEW d \in Builders, <<c, d>> \in versions', pc'[d] = "activate"
       PROVE  <<c, d>> \in versions /\ pc[d] = "activate" /\ read'[d] = read[d]
  <2>1. <<c, d>> \in versions /\ d # b
    BY <1>1, <1>17, WithoutFacts
  <2> QED BY <1>2, <1>3, <1>17, <2>1
<1>18. snap = Empty /\ db = 0 => snap' = Empty \/ Fresh'
  <2>1. ASSUME snap = Empty, db = 0, snap' = read[b] PROVE Fresh'
    <3>1. meta \in Nat /\ meta <= db
      BY <1>8, Typing DEF IInv, Values
    <3>2. meta = 0 /\ read[b] = 0
      BY <1>8, <2>1, <3>1
    <3> QED BY <1>1, <2>1, <3>2 DEF Fresh, table
  <2> QED BY <1>4, <2>1
<1>19. db' = db
  BY <1>1 DEF table
<1> QED BY <1>1, <1>2, <1>3, <1>10, <1>11, <1>12, <1>13, <1>14, <1>15, <1>16, <1>17, <1>18, <1>19, BuilderStep

\* A builder that gives up loses nothing but its own work.
LEMMA QuitKept ==
    ASSUME TypeOK, IInv, NEW b \in Builders, Quit(b), UNCHANGED <<table, watermark, snap, meta, lapse>>,
           lock' \in Builders \union {NoOne}, faults' \in 0 .. MaxFaults
    PROVE  TypeOK' /\ IInv'
<1>1. /\ pc' \in [Builders -> Steps] /\ pc'[b] = "idle"
      /\ \A c \in Builders : c # b => pc'[c] = pc[c]
  BY GotoFacts DEF Quit, Steps
<1>2. /\ read' \in [Builders -> 0 .. MaxChanges] /\ read'[b] = 0
      /\ \A c \in Builders : c # b => read'[c] = read[c]
  <2>1. 0 \in 0 .. MaxChanges
    BY SnapshotBoundAssumption
  <2> QED BY <2>1, ReadFacts DEF Quit
<1>3. /\ batch' \in [Builders -> SUBSET Ids] /\ known' \in [Builders -> SUBSET Ids]
      /\ batch'[b] = {} /\ known'[b] = {}
      /\ \A c \in Builders : c # b => batch'[c] = batch[c] /\ known'[c] = known[c]
  BY FinishFacts DEF Quit
<1>4. versions' = Without(b) /\ beaten' = beaten \ {b} /\ locking' = locking \ {b}
  BY DEF Quit
<1>5. TypeOK'
  <2>1. versions' \subseteq Builders \X Builders /\ beaten' \subseteq Builders /\ locking' \subseteq Builders
    BY <1>4 DEF TypeOK, Without
  <2> QED BY <1>1, <1>2, <1>3, <2>1 DEF TypeOK, table, Ids
<1>6. Progress
  BY QuietProgress DEF table
<1>7. Values'
  BY <1>1, <1>2, ValuesKept DEF IInv, table
<1>8. Rows' /\ Nested'
  BY <1>3, RowsKept DEF IInv, table
<1>9. Order'
  BY <1>1, <1>4, OrderWithout DEF IInv
<1>10. \A c, d \in Builders : <<c, d>> \in versions' => <<c, d>> \in versions /\ d # b
  BY <1>4, WithoutFacts
<1>11. \A c \in Builders : c # b /\ Handled(c) =>
          /\ c \in beaten' => c \in beaten \/ snap' = db' \/ MissingNext(known[c])
          /\ \A d \in Builders : <<c, d>> \in versions' /\ pc'[d] = "activate" =>
                \/ <<c, d>> \in versions /\ pc[d] = "activate" /\ read'[d] = read[d]
                \/ read'[d] = db' \/ Fresh' \/ MissingNext(known[c])
  BY <1>1, <1>2, <1>4, <1>10
<1> QED BY <1>1, <1>2, <1>3, <1>5, <1>6, <1>7, <1>8, <1>9, <1>11, BuilderStep DEF table

LEMMA FailKept ==
    ASSUME TypeOK, IInv, NEW b \in Builders, Fail(b)
    PROVE  TypeOK' /\ IInv'
<1>1. lock' \in Builders \union {NoOne} /\ faults' \in 0 .. MaxFaults
  BY SnapshotBoundAssumption DEF Fail, Unlocked, Inject, TypeOK
<1> QED BY <1>1, QuitKept DEF Fail

LEMMA AbandonKept ==
    ASSUME TypeOK, IInv, NEW b \in Builders, Abandon(b)
    PROVE  TypeOK' /\ IInv'
<1>1. lock' \in Builders \union {NoOne} /\ faults' \in 0 .. MaxFaults
  BY SnapshotBoundAssumption DEF Abandon, Inject, TypeOK
<1> QED BY <1>1, QuitKept DEF Abandon

\* A full rebuild, or a request that rebuilds, starts without a list.
LEMMA RebuildKept ==
    ASSUME TypeOK, IInv, NEW b \in Rebuilders, FullRebuild(b) \/ Fallback(b)
    PROVE  TypeOK' /\ IInv'
<1>1. b \in Builders /\ b \notin Pollers
  BY ActorAssumption DEF Builders
<1>2. UNCHANGED <<table, redis, read, locking, batch, known, lapse>> /\ b \notin Versioned
  BY DEF FullRebuild, Fallback, Versioned
<1>3. /\ pc' \in [Builders -> Steps] /\ pc'[b] \in {"lock", "load"}
      /\ \A c \in Builders : c # b => pc'[c] = pc[c]
  BY <1>1, GotoFacts DEF FullRebuild, Fallback, Steps
<1>4. faults' \in 0 .. MaxFaults
  BY SnapshotBoundAssumption DEF FullRebuild, Fallback, Inject, TypeOK
<1>5. TypeOK'
  BY <1>2, <1>3, <1>4 DEF TypeOK, table, redis
<1>6. Progress
  BY <1>2, QuietProgress DEF table, redis
<1> QED BY <1>1, <1>2, <1>3, <1>5, <1>6, UnversionedStep DEF table, redis

----------------------------------------------------------------------------
(* The outbox workers                                                      *)

LEMMA PollOutboxKept ==
    ASSUME TypeOK, IInv, NEW b \in Builders, PollOutbox(b)
    PROVE  TypeOK' /\ IInv'
<1>1. UNCHANGED <<db, nextId, writing, txRow, redis, read, locking, lapse, faults>> /\ b \notin Versioned
  BY DEF PollOutbox, Versioned
<1>2. /\ pc' \in [Builders -> Steps] /\ pc'[b] = "account"
      /\ \A c \in Builders : c # b => pc'[c] = pc[c]
  BY GotoFacts DEF PollOutbox, Steps
<1>3. /\ DOMAIN outbox' = DOMAIN outbox
      /\ \A i \in DOMAIN outbox : outbox'[i] = (outbox[i] /\ i \notin Waiting)
  BY DEF PollOutbox, Listed, Selected
<1>4. \A i \in DOMAIN outbox : outbox[i] \in BOOLEAN
  BY TypeParts DEF KeysOK
<1>5. /\ \A i \in DOMAIN outbox' : outbox'[i] \in BOOLEAN
      /\ \A i \in DOMAIN outbox : outbox[i] # TRUE => outbox'[i] # TRUE
      /\ \A i \in Waiting : outbox'[i] # TRUE
  <2>1. Waiting \subseteq DOMAIN outbox
    BY DEF Waiting
  <2> QED BY <1>3, <1>4, <2>1, Zenon
<1>6. \A i \in DOMAIN outbox : ~outbox'[i] <=> outbox'[i] # TRUE
  BY <1>3, <1>5, Zenon
<1> DEFINE L == {i \in DOMAIN outbox : outbox'[i] # TRUE}
<1>7. /\ batch' = [batch EXCEPT ![b] = Waiting] /\ known' = [known EXCEPT ![b] = L]
      /\ Waiting \subseteq L /\ L \subseteq Ids
  <2>1. {i \in DOMAIN outbox : ~outbox'[i]} = L
    BY <1>6
  <2>2. batch' = [batch EXCEPT ![b] = Waiting] /\ known' = [known EXCEPT ![b] = L]
    BY <2>1 DEF PollOutbox, Selected
  <2>3. Waiting \subseteq DOMAIN outbox
    BY DEF Waiting
  <2>4. L \subseteq Ids
    BY DEF TypeOK, Ids
  <2> QED BY <1>5, <2>2, <2>3, <2>4
<1>8. \A i : i \in L <=> i \in DOMAIN outbox /\ outbox'[i] # TRUE
  OBVIOUS
<1> HIDE DEF L
<1>9. /\ batch' \in [Builders -> SUBSET Ids] /\ known' \in [Builders -> SUBSET Ids]
      /\ batch'[b] = Waiting /\ known'[b] = L
      /\ \A c \in Builders : c # b => batch'[c] = batch[c] /\ known'[c] = known[c]
  <2>1. batch \in [Builders -> SUBSET Ids] /\ known \in [Builders -> SUBSET Ids]
    BY DEF TypeOK, Ids
  <2> QED BY <1>7, <2>1
<1>10. TypeOK'
  <2>1. Ids' = Ids
    BY <1>1 DEF Ids
  <2>2. TableOK' /\ CopyOK' /\ VersionsOK' /\ LocksOK' /\ FaultsOK'
    BY <1>1, <1>3, TypeParts, <2>1 DEF TableOK, CopyOK, VersionsOK, LocksOK, FaultsOK, redis
  <2>3. BuildersOK' /\ ListsOK' /\ HistoryOK'
    BY <1>1, <1>2, <1>9, <2>1, TypeParts DEF BuildersOK, ListsOK, HistoryOK
  <2>4. KeysOK'
    BY <1>5 DEF KeysOK
  <2> QED BY <2>2, <2>3, <2>4, TypeParts
<1>11. Progress
  BY <1>1, <1>3, QuietProgress DEF redis
<1>12. Values'
  BY <1>1, <1>2, ValuesKept DEF IInv, redis
<1>13. Rows
  BY DEF IInv
<1>14. \A c \in Builders : \A i \in known[c] \intersect DOMAIN outbox : i \in L
  <2>1. \A c \in Builders : \A i \in known[c] \intersect DOMAIN outbox : outbox[i] # TRUE
    BY <1>13, Zenon DEF Rows
  <2> QED BY <1>5, <1>8, <2>1, Zenon
<1>15. Rows'
  <2>1. ASSUME NEW t \in TxWriters, txRow'[t] # 0
        PROVE  /\ txRow'[t] \notin DOMAIN outbox'
               /\ \A c \in Builders : txRow'[t] \notin known'[c]
               /\ \A u \in TxWriters : txRow'[u] = txRow'[t] => u = t
    <3>1. /\ txRow[t] \notin DOMAIN outbox
          /\ \A c \in Builders : txRow[t] \notin known[c]
          /\ \A u \in TxWriters : txRow[u] = txRow[t] => u = t
      BY <1>1, <1>13, <2>1 DEF Rows
    <3> QED BY <1>1, <1>3, <1>8, <1>9, <3>1
  <2>2. ASSUME NEW c \in Builders
        PROVE  /\ batch'[c] \subseteq known'[c] /\ (batch'[c] # {} => c \in Pollers)
               /\ \A i \in known'[c] \intersect DOMAIN outbox' : outbox'[i] # TRUE
    <3>1. batch'[c] \subseteq known'[c] /\ (batch'[c] # {} => c \in Pollers)
      BY <1>7, <1>9, <1>13 DEF Rows, PollOutbox
    <3>2. \A i \in known'[c] \intersect DOMAIN outbox' : i \in L
      BY <1>3, <1>9, <1>14
    <3> QED BY <1>8, <3>1, <3>2, Zenon
  <2> QED BY <2>1, <2>2, Zenon DEF Rows
<1>16. Nested'
  <2>1. \A c \in Builders : known'[c] \intersect DOMAIN outbox' \subseteq L
    BY <1>3, <1>9, <1>14
  <2> QED BY <1>3, <1>9, <2>1 DEF IInv, Nested
<1>17. Order'
  <2>1. \A c \in Builders : c \in Versioned => c \in Versioned'
    BY <1>1, <1>2 DEF Versioned
  <2> QED BY <1>1, <2>1, OrderKept DEF IInv, redis
<1>18. Handled(b)'
  <2>1. b \notin beaten' /\ \A c \in Builders : <<b, c>> \notin versions'
    BY <1>1, Unversioned DEF IInv, redis
  <2> QED BY <1>2, <2>1 DEF Handled
<1> QED BY <1>1, <1>2, <1>9, <1>10, <1>11, <1>12, <1>15, <1>16, <1>17, <1>18, BuilderStep DEF redis

\* The rows below the watermark that a worker sets were listed by it or are
\* passed; the rows above still wait.
LEMMA WatermarkProgress ==
    ASSUME TypeOK, IInv, NEW b \in Builders, pc[b] = "watermark", batch[b] # {},
           UNCHANGED <<db, writing, snap, meta>>,
           watermark' = MaxId(batch[b]), NEW cut \in 0 .. watermark',
           outbox' = [i \in {j \in DOMAIN outbox : j > cut} |-> outbox[i]],
           lapse' = ((lapse \/ Passed(b) # {}) /\ ~Fresh)
    PROVE  lapse' \in BOOLEAN /\ Progress
<1>1. lapse \in BOOLEAN
  BY TypeParts DEF HistoryOK
<1>2. Fresh' = Fresh
  BY DEF Fresh
<1>3. /\ lapse' \in BOOLEAN
      /\ lapse = TRUE => lapse' = TRUE \/ Fresh'
      /\ Passed(b) # {} => lapse' = TRUE \/ Fresh'
  BY <1>1, <1>2, Zenon
<1>4. nextId - 1 \in Nat /\ batch[b] \in SUBSET (1 .. (nextId - 1))
  BY DEF TypeOK
<1>5. MaxId(batch[b]) \in batch[b] /\ MaxId(batch[b]) \in Nat /\ batch[b] \subseteq known[b]
  <2>1. MaxId(batch[b]) \in batch[b]
    BY <1>4, MaxIdFacts
  <2>2. batch[b] \subseteq Nat
    BY <1>4
  <2>3. batch[b] \subseteq known[b]
    BY DEF IInv, Rows
  <2> QED BY <2>1, <2>2, <2>3, Zenon
<1>6. Handled(b)
  <2>1. b \in Pollers
    BY DEF IInv, Rows
  <2> QED BY <2>1 DEF IInv, Handling
<1>7. ASSUME NEW i \in Waiting, i \notin known[b]
      PROVE  i \in Waiting' \/ lapse' = TRUE \/ Fresh'
  <2>1. i \in DOMAIN outbox /\ i \in Nat /\ watermark < i /\ i \notin batch[b] /\ i # MaxId(batch[b])
    BY <1>5, <1>7, Typing DEF Waiting
  <2>2. CASE i < MaxId(batch[b])
    <3>1. i \in Passed(b)
      BY <2>1, <2>2 DEF Passed
    <3> QED BY <1>3, <3>1
  <2>3. CASE MaxId(batch[b]) < i
    <3>1. DOMAIN outbox' = {j \in DOMAIN outbox : j > cut}
      OBVIOUS
    <3>2. watermark' \in Nat /\ watermark' < i
      BY <1>5, <2>3
    <3>3. i > cut
      BY <2>1, <3>2
    <3>4. i > watermark'
      BY <2>1, <3>2
    <3> QED BY <2>1, <3>1, <3>3, <3>4 DEF Waiting
  <2>4. i < MaxId(batch[b]) \/ MaxId(batch[b]) < i
    <3>1. \A m, n \in Nat : m = n \/ m < n \/ n < m
      OBVIOUS
    <3> QED BY <1>5, <2>1, <3>1, Zenon
  <2> QED BY <2>2, <2>3, <2>4
<1>8. ASSUME NEW K \in Lists, Missing(K) PROVE MissingNext(K) \/ Fresh'
  <2>1. lapse' = TRUE => MissingNext(K)
    BY DEF MissingNext
  <2>2. Enqueuing => MissingNext(K)
    BY DEF Enqueuing, MissingNext
  <2>3. ASSUME NEW i \in Waiting, i \notin known[b], i \notin K PROVE MissingNext(K) \/ Fresh'
    <3>1. i \in Waiting' \/ lapse' = TRUE \/ Fresh'
      BY <1>7, <2>3
    <3>2. i \in Waiting' => MissingNext(K)
      BY <2>3 DEF MissingNext
    <3> QED BY <2>1, <3>1, <3>2
  <2>4. Fresh \/ Missing(known[b])
    BY <1>6 DEF Handled
  <2>5. CASE \E i \in Waiting : i \notin known[b]
    <3>1. PICK j \in Waiting : j \notin known[b]
      BY <2>5
    <3>2. CASE \E i \in Waiting : i \notin K
      <4>1. PICK i \in Waiting : i \notin K
        BY <3>2
      <4>2. \/ known[b] \intersect DOMAIN outbox \subseteq K
            \/ K \intersect DOMAIN outbox \subseteq known[b]
        BY DEF IInv, Nested, Lists
      <4>3. Waiting \subseteq DOMAIN outbox
        BY DEF Waiting
      <4>4. i \notin known[b] \/ j \notin K
        BY <3>1, <4>1, <4>2, <4>3
      <4> QED BY <2>3, <3>1, <4>1, <4>4
    <3> QED BY <1>3, <1>8, <2>1, <2>2, <3>2 DEF Missing
  <2> QED BY <1>2, <1>3, <2>1, <2>2, <2>4, <2>5 DEF Missing
<1> QED BY <1>2, <1>3, <1>8 DEF Progress

LEMMA SetOutboxWatermarkKept ==
    ASSUME TypeOK, IInv, NEW b \in Builders, SetOutboxWatermark(b)
    PROVE  TypeOK' /\ IInv'
<1>1. UNCHANGED <<db, nextId, writing, txRow, lock, snap, meta, versions, beaten, read, locking, faults>>
      /\ pc[b] = "watermark" /\ b \notin Versioned
  BY DEF SetOutboxWatermark, Versioned
<1>2. /\ batch' \in [Builders -> SUBSET Ids] /\ known' \in [Builders -> SUBSET Ids]
      /\ batch'[b] = {} /\ known'[b] = {}
      /\ \A c \in Builders : c # b => batch'[c] = batch[c] /\ known'[c] = known[c]
  BY FinishFacts DEF SetOutboxWatermark
<1>3. /\ pc' \in [Builders -> Steps] /\ pc'[b] \in {"idle", "lock"}
      /\ \A c \in Builders : c # b => pc'[c] = pc[c]
  BY GotoFacts DEF SetOutboxWatermark, CheckOutboxLag, Steps
<1>4. /\ DOMAIN outbox' \subseteq DOMAIN outbox /\ \A i \in DOMAIN outbox' : outbox'[i] = outbox[i]
      /\ watermark' \in 0 .. (nextId - 1) /\ lapse' \in BOOLEAN /\ Progress
  <2>1. CASE UNCHANGED <<watermark, outbox, lapse>>
    <3>1. lapse \in BOOLEAN
      BY TypeParts DEF HistoryOK
    <3>2. Progress
      BY <1>1, <2>1, QuietProgress
    <3> QED BY <2>1, <3>1, <3>2 DEF TypeOK
  <2>2. CASE batch[b] # {}
    <3>1. /\ watermark' = MaxId(batch[b])
          /\ \E cut \in 0 .. watermark' :
                outbox' = [i \in {j \in DOMAIN outbox : j > cut} |-> outbox[i]]
          /\ lapse' = ((lapse \/ Passed(b) # {}) /\ ~Fresh)
      BY <2>2 DEF SetOutboxWatermark
    <3>2. PICK cut \in 0 .. watermark' :
             outbox' = [i \in {j \in DOMAIN outbox : j > cut} |-> outbox[i]]
      BY <3>1
    <3>3. lapse' \in BOOLEAN /\ Progress
      BY <1>1, <2>2, <3>1, <3>2, WatermarkProgress
    <3>4. nextId - 1 \in Nat /\ batch[b] \in SUBSET (1 .. (nextId - 1))
      BY DEF TypeOK
    <3>5. watermark' \in 1 .. (nextId - 1)
      BY <2>2, <3>1, <3>4, MaxIdFacts
    <3> QED BY <3>2, <3>3, <3>4, <3>5
  <2> QED BY <2>1, <2>2 DEF SetOutboxWatermark
<1>5. TypeOK'
  <2>1. Ids' = Ids
    BY <1>1 DEF Ids
  <2>2. TableOK' /\ CopyOK' /\ VersionsOK' /\ LocksOK' /\ FaultsOK'
    BY <1>1, <1>4, <2>1, TypeParts DEF TableOK, CopyOK, VersionsOK, LocksOK, FaultsOK
  <2>3. BuildersOK' /\ ListsOK' /\ HistoryOK'
    BY <1>1, <1>2, <1>3, <1>4, <2>1, TypeParts DEF BuildersOK, ListsOK, HistoryOK
  <2>4. KeysOK'
    BY <1>4, TypeParts DEF KeysOK
  <2> QED BY <2>2, <2>3, <2>4, TypeParts
<1>6. Values'
  BY <1>1, <1>3, ValuesKept DEF IInv
<1>7. Rows' /\ Nested'
  BY <1>1, <1>2, <1>4, RowsKept DEF IInv
<1>8. Order'
  <2>1. \A c \in Builders : c \in Versioned => c \in Versioned'
    BY <1>1, <1>3 DEF Versioned
  <2> QED BY <1>1, <2>1, OrderKept DEF IInv
<1> QED BY <1>1, <1>2, <1>3, <1>4, <1>5, <1>6, <1>7, <1>8, BuilderStep

----------------------------------------------------------------------------
(* The theorems                                                            *)

LEMMA InitKept == Init => TypeOK /\ IInv
<1> SUFFICES ASSUME Init PROVE TypeOK /\ IInv
  OBVIOUS
<1>1. /\ \A b \in Builders : pc[b] = "idle" /\ read[b] = 0 /\ batch[b] = {} /\ known[b] = {}
      /\ \A t \in TxWriters : txRow[t] = 0
      /\ db = 0 /\ snap = Empty /\ meta = Empty /\ versions = {} /\ beaten = {}
  BY DEF Init
<1>2. DOMAIN outbox = {}
  BY DEF Init
<1>3. TypeOK
  <2>1. 0 \in 0 .. MaxChanges /\ 0 \in 0 .. MaxFaults
    BY SnapshotBoundAssumption
  <2>2. nextId = 1 /\ nextId \in Nat \ {0} /\ watermark \in 0 .. (nextId - 1) /\ 0 \in 0 .. (nextId - 1)
    BY DEF Init
  <2>3. /\ pc \in [Builders -> Steps] /\ read \in [Builders -> 0 .. MaxChanges]
        /\ batch \in [Builders -> SUBSET (1 .. (nextId - 1))] /\ known \in [Builders -> SUBSET (1 .. (nextId - 1))]
        /\ txRow \in [TxWriters -> 0 .. (nextId - 1)]
        /\ writing \in [Writers \union TxWriters -> {"idle", "enqueue", "tx"}]
    BY <2>1, <2>2 DEF Init, Steps
  <2>4. lapse \in BOOLEAN
    BY DEF Init
  <2>5. lock \in Builders \union {NoOne} /\ locking \subseteq Builders /\ faults \in 0 .. MaxFaults
    BY <2>1 DEF Init
  <2> QED BY <1>1, <1>2, <2>1, <2>2, <2>3, <2>4, <2>5 DEF TypeOK
<1>4. Values
  <2>1. 0 <= db
    BY <1>1
  <2>2. \A b \in Builders : read[b] <= db /\ pc[b] # "activate"
    BY <1>1, <2>1
  <2> QED BY <1>1, <2>2 DEF Values
<1>5. Nested /\ Order /\ Handling /\ Explained
  BY <1>1, <1>2 DEF Nested, Order, Handling, Explained, Builders
<1>6. Rows
  BY <1>1, <1>2 DEF Rows
<1> QED BY <1>3, <1>4, <1>5, <1>6 DEF IInv

LEMMA NextKept == TypeOK /\ IInv /\ [Next]_vars => TypeOK' /\ IInv'
<1> SUFFICES ASSUME TypeOK, IInv, [Next]_vars PROVE TypeOK' /\ IInv'
  OBVIOUS
<1>1. ASSUME NEW w \in Writers, Change(w) \/ EnqueueEvent(w) PROVE TypeOK' /\ IInv'
  BY <1>1, ChangeKept, EnqueueEventKept
<1>2. ASSUME NEW t \in TxWriters, TxInsert(t) \/ TxCommit(t) PROVE TypeOK' /\ IInv'
  BY <1>2, TxInsertKept, TxCommitKept
<1>3. ASSUME NEW b \in Builders, Work(b) PROVE TypeOK' /\ IInv'
  BY <1>3, PollOutboxKept, ReadAccountKept, SetAccountKept, TryLockBucketKept, LoadAccountsKept,
     TakeVersionKept, WriteAccountsKept, ActivateKept, SetOutboxWatermarkKept DEF Work
<1>4. ASSUME NEW b \in Builders, Fail(b) \/ Abandon(b) \/ FullRebuild(b) \/ Fallback(b)
      PROVE  TypeOK' /\ IInv'
  <2>1. FullRebuild(b) \/ Fallback(b) => b \in Rebuilders
    BY DEF FullRebuild, Fallback
  <2> QED BY <1>4, <2>1, FailKept, AbandonKept, RebuildKept
<1>5. CASE UNCHANGED vars
  <2>1. TypeOK'
    BY <1>5 DEF vars, table, redis, builder, TypeOK
  <2>2. Values' /\ Rows' /\ Nested' /\ Order'
    BY <1>5 DEF vars, table, redis, builder, IInv, Values, Rows, Nested, Order, Versioned
  <2>3. Handling' /\ Explained'
    BY <1>5 DEF vars, table, redis, builder, IInv, Handling, Handled, ReadsNow, Missing, Fresh,
                Waiting, Enqueuing, Explained
  <2> QED BY <2>1, <2>2, <2>3 DEF IInv
<1> QED BY <1>1, <1>2, <1>3, <1>4, <1>5, LockExpiresKept DEF Next

\* The inductive invariant holds in every reachable state.
THEOREM Invariance == Spec => [](TypeOK /\ IInv)
<1>1. Init => TypeOK /\ IInv
  BY InitKept
<1>2. TypeOK /\ IInv /\ [Next]_vars => (TypeOK /\ IInv)'
  BY NextKept
<1> QED BY <1>1, <1>2, PTL DEF Spec

\* Every variable keeps its type; ids and the watermark stay below the sequence.
THEOREM TypeCorrect == Spec => []TypeOK
BY Invariance, PTL

\* Whenever the scheduler's copy is behind the database, a row waits, a writer is
\* about to enqueue, or one of the five losses was recorded.
THEOREM StaleCopiesAreExplained == Spec => []StaleIsExplained
<1>1. TypeOK /\ IInv => StaleIsExplained
  <2> SUFFICES ASSUME TypeOK, IInv, Stale PROVE Waiting # {} \/ Enqueuing \/ lapse
    BY DEF StaleIsExplained
  <2>1. Missing({})
    BY DEF IInv, Explained, Stale
  <2>2. lapse = TRUE => lapse
    OBVIOUS
  <2> QED BY <2>1, <2>2 DEF Missing
<1> QED BY <1>1, Invariance, PTL
=============================================================================
