------------------------- MODULE SchedulerSnapshot -------------------------
(***************************************************************************)
(* The scheduler's copy of the accounts: writers change an account in the  *)
(* database and append to the outbox table; outbox workers read the rows   *)
(* past a watermark and rebuild; full-rebuild workers rebuild from time to *)
(* time; a request that finds no snapshot rebuilds on its own.  One bucket *)
(* with one account, whose state is the number of its changes.             *)
(*                                                                         *)
(* A snapshot gets its version after its data was read, and is activated   *)
(* only over an older version.  Only the order of the versions under way   *)
(* matters: `versions` holds the pairs of an older and a newer one.        *)
(***************************************************************************)
EXTENDS Integers, FiniteSets

CONSTANTS
    Pollers,      \* outbox workers, one per process
    Rebuilders,   \* full-rebuild workers, and requests that fall back to the database
    Writers,      \* change, then enqueue, each statement on its own
    TxWriters,    \* enqueue and change in one transaction
    MaxChanges,   \* bound on the changes of the account
    MaxFaults,    \* bound on injected faults
    NoOne, Empty  \* free lock; no snapshot

Builders == Pollers \union Rebuilders

ASSUME ActorAssumption ==
    /\ Pollers \intersect Rebuilders = {}
    /\ Writers \intersect TxWriters = {}
    /\ NoOne \notin Builders
ASSUME SnapshotBoundAssumption == MaxChanges \in Nat /\ MaxFaults \in Nat /\ Empty \notin Nat

VARIABLES
    db,         \* the account's row
    nextId,     \* the outbox sequence
    outbox,     \* committed rows: id -> the dedup key is still set
    watermark,  \* sched:outbox:watermark
    writing,    \* step of each writer
    txRow,      \* the uncommitted row of a transaction, 0 if it was suppressed
    lock,       \* sched:lock
    snap,       \* what the active snapshot was built from
    meta,       \* the account's cached metadata
    versions,   \* pairs of builders, the older version first, neither activated
    beaten,     \* those whose version is below the active one
    pc, read,   \* step of each builder, and what it read from the database
    locking,    \* builders that took the bucket lock
    batch,      \* ids an outbox worker has listed and not finished
    known,      \* history: ids that anybody had listed by then
    lapse,      \* history: a refresh was lost since the copy last was current
    faults

redis   == <<watermark, lock, snap, meta, versions, beaten>>
builder == <<pc, read, locking, batch, known>>
table   == <<db, nextId, outbox, writing, txRow>>
vars    == <<table, redis, builder, lapse, faults>>

Steps == {"idle", "account", "setAccount", "lock", "load", "version", "accounts", "activate", "watermark"}

Inject == faults < MaxFaults /\ faults' = faults + 1

Fresh   == snap = db /\ meta = db
Stale   == snap # Empty /\ ~Fresh
Waiting == {i \in DOMAIN outbox : i > watermark}

\* Record whether this step loses a refresh; a current copy makes up for it
Lose(loss) == lapse' = ((loss \/ lapse) /\ ~Fresh')

Goto(b, s) == pc' = [pc EXCEPT ![b] = s]

\* Redis orders the versions that builders have taken and not yet activated
Versioned  == {b \in Builders : pc[b] \in {"accounts", "activate"}}
Without(b) == {v \in versions : v[1] # b /\ v[2] # b}
Older(b)   == {c \in Builders : <<c, b>> \in versions}

Finish(b) == batch' = [batch EXCEPT ![b] = {}] /\ known' = [known EXCEPT ![b] = {}]

\* The builder gives up its version, what it read and its batch
Quit(b) == /\ Goto(b, "idle")
           /\ versions' = Without(b)
           /\ beaten' = beaten \ {b}
           /\ read' = [read EXCEPT ![b] = 0]
           /\ locking' = locking \ {b}
           /\ Finish(b)

----------------------------------------------------------------------------
(* The writers and the outbox table                                        *)

Suppressed == \E i \in DOMAIN outbox : outbox[i]

\* The row that stands for a new event: suppressed, it must still be listed
Covered == \E i \in Waiting : outbox[i]

AddRow(i) == outbox' = [j \in DOMAIN outbox \union {i} |-> IF j = i THEN TRUE ELSE outbox[j]]

Change(w) ==
    /\ writing[w] = "idle" /\ w \in Writers
    /\ db < MaxChanges
    /\ db' = db + 1
    /\ writing' = [writing EXCEPT ![w] = "enqueue"]
    /\ UNCHANGED <<nextId, outbox, txRow, redis, builder, faults>>
    /\ Lose(FALSE)

\* Uncommitted rows
Held == {txRow[t] : t \in {u \in TxWriters : writing[u] = "tx"}} \ {0}

\* enqueueSchedulerOutbox, which waits for an uncommitted row with the same
\* dedup key; a failure is only logged
EnqueueEvent(w) ==
    /\ writing[w] = "enqueue"
    /\ writing' = [writing EXCEPT ![w] = "idle"]
    /\ UNCHANGED <<db, txRow, redis, builder>>
    /\ \/ ~Suppressed /\ Held = {} /\ nextId' = nextId + 1 /\ AddRow(nextId) /\ Lose(FALSE) /\ UNCHANGED faults
       \/ Suppressed /\ UNCHANGED <<nextId, outbox, faults>> /\ Lose(~Covered)
       \/ Inject /\ UNCHANGED <<nextId, outbox>> /\ Lose(TRUE)

\* In a transaction the id is taken at the insert; an uncommitted row with the
\* same dedup key makes the insert wait
TxInsert(t) ==
    /\ writing[t] = "idle" /\ t \in TxWriters
    /\ db + Cardinality({u \in TxWriters : writing[u] = "tx"}) < MaxChanges
    /\ Held = {}
    /\ writing' = [writing EXCEPT ![t] = "tx"]
    /\ IF Suppressed THEN UNCHANGED <<txRow, nextId>>
       ELSE txRow' = [txRow EXCEPT ![t] = nextId] /\ nextId' = nextId + 1
    /\ UNCHANGED <<db, outbox, redis, builder, lapse, faults>>

\* The change and the row appear together, under an id that may be passed
TxCommit(t) ==
    /\ writing[t] = "tx"
    /\ db < MaxChanges
    /\ db' = db + 1
    /\ writing' = [writing EXCEPT ![t] = "idle"]
    /\ txRow' = [txRow EXCEPT ![t] = 0]
    /\ UNCHANGED <<nextId, redis, builder, faults>>
    /\ \/ txRow[t] # 0 /\ AddRow(txRow[t]) /\ Lose(txRow[t] <= watermark)
       \/ txRow[t] = 0 /\ UNCHANGED outbox /\ Lose(~Covered)

----------------------------------------------------------------------------
(* Building a snapshot                                                     *)

\* GetByID and SetAccount of the event handler, outside the bucket lock
ReadAccount(b) ==
    /\ pc[b] = "account"
    /\ read' = [read EXCEPT ![b] = db]
    /\ Goto(b, "setAccount")
    /\ UNCHANGED <<table, redis, locking, batch, known, lapse, faults>>

SetAccount(b) ==
    /\ pc[b] = "setAccount"
    /\ meta' = read[b]
    /\ Goto(b, "lock")
    /\ UNCHANGED <<table, watermark, lock, snap, versions, beaten, read, locking, batch, known, faults>>
    /\ Lose(meta # Empty /\ read[b] < meta)

\* What follows a build: an outbox worker moves the watermark
After(b) == IF b \in Pollers THEN "watermark" ELSE "idle"

\* A bucket that is locked is left to the holder, and the event counts as handled
TryLockBucket(b) ==
    /\ pc[b] = "lock"
    /\ \/ /\ lock = NoOne
          /\ lock' = b
          /\ locking' = locking \union {b}
          /\ Goto(b, "load")
          /\ UNCHANGED <<lapse, read>>
       \/ /\ lock # NoOne
          /\ Goto(b, After(b))
          /\ read' = [read EXCEPT ![b] = 0]
          /\ UNCHANGED <<lock, locking>>
          /\ lapse' = ((lapse \/ b \in Pollers) /\ ~Fresh)
    /\ UNCHANGED <<table, watermark, snap, meta, versions, beaten, batch, known, faults>>

LoadAccounts(b) ==
    /\ pc[b] = "load"
    /\ read' = [read EXCEPT ![b] = db]
    /\ Goto(b, "version")
    /\ UNCHANGED <<table, redis, locking, batch, known, lapse, faults>>

\* INCR: larger than every version so far
TakeVersion(b) ==
    /\ pc[b] = "version"
    /\ versions' = versions \union (Versioned \X {b})
    /\ Goto(b, "accounts")
    /\ UNCHANGED <<table, watermark, lock, snap, meta, beaten, read, locking, batch, known, lapse, faults>>

WriteAccounts(b) ==
    /\ pc[b] = "accounts"
    /\ meta' = read[b]
    /\ Goto(b, "activate")
    /\ UNCHANGED <<table, watermark, lock, snap, versions, beaten, read, locking, batch, known, faults>>
    /\ Lose(meta # Empty /\ read[b] < meta)

Unlocked(b) == IF b \in locking THEN NoOne ELSE lock

\* activateSnapshotScript, then the unlock, which does not look at the owner
Activate(b) ==
    /\ pc[b] = "activate"
    /\ versions' = Without(b)
    /\ \/ b \in beaten /\ UNCHANGED snap /\ beaten' = beaten \ {b}
       \/ b \notin beaten /\ snap' = read[b] /\ beaten' = beaten \union Older(b)
    /\ lock' = Unlocked(b)
    /\ locking' = locking \ {b}
    /\ read' = [read EXCEPT ![b] = 0]
    /\ Goto(b, After(b))
    /\ UNCHANGED <<table, watermark, meta, batch, known, faults>>
    /\ Lose(snap # Empty /\ snap' < snap)

\* A step fails or times out: the builder unlocks and gives up
Fail(b) ==
    /\ pc[b] \notin {"idle", "watermark"}
    /\ Inject
    /\ Quit(b)
    /\ lock' = Unlocked(b)
    /\ UNCHANGED <<table, watermark, snap, meta, lapse>>

\* Its process dies, or the unlock does not reach Redis
Abandon(b) ==
    /\ pc[b] # "idle"
    /\ Inject
    /\ Quit(b)
    /\ UNCHANGED <<table, watermark, lock, snap, meta, lapse>>

\* Mutant: the lock has no TTL
LockExpires_Never == FALSE /\ UNCHANGED vars

\* The TTL ends; while the holder still works this is a fault
LockExpires ==
    /\ lock # NoOne
    /\ IF lock \in locking THEN Inject ELSE UNCHANGED faults
    /\ lock' = NoOne
    /\ UNCHANGED <<table, watermark, snap, meta, versions, beaten, builder, lapse>>

----------------------------------------------------------------------------
(* The workers                                                             *)

\* Mutant: only the rows whose key is released now are answered
Selected_Released == {i \in Waiting : outbox[i]}

\* The rows past the watermark, listed before or not
Selected == Waiting

\* Mutant: the listed rows keep their dedup key
Listed_KeepsDedup == outbox

\* ListAfterAndReleaseDedup
Listed == [i \in DOMAIN outbox |-> outbox[i] /\ i \notin Selected]

MaxId(S) == CHOOSE i \in S : \A j \in S : j <= i

PollOutbox(b) ==
    /\ pc[b] = "idle" /\ b \in Pollers
    /\ Selected # {}
    /\ batch' = [batch EXCEPT ![b] = Selected]
    /\ outbox' = Listed
    /\ known' = [known EXCEPT ![b] = {i \in DOMAIN outbox : ~outbox'[i]}]
    /\ Goto(b, "account")
    /\ UNCHANGED <<db, nextId, writing, txRow, redis, read, locking, lapse, faults>>

\* Ids below the batch's last one that this worker has not listed: rows committed
\* since, and open transactions
Passed(b) == {i \in (DOMAIN outbox \union Held) \ batch[b] : watermark < i /\ i < MaxId(batch[b])}

\* A long lag or backlog rebuilds once more
CheckOutboxLag(b) == Goto(b, "idle") \/ Goto(b, "lock")

\* SetOutboxWatermark (three attempts), then cleanupConsumedOutbox of rows that are
\* old enough, then checkOutboxLag
SetOutboxWatermark(b) ==
    /\ pc[b] = "watermark"
    /\ \/ batch[b] = {} /\ UNCHANGED <<watermark, outbox, lapse>> /\ Goto(b, "idle")
       \/ /\ batch[b] # {}
          /\ watermark' = MaxId(batch[b])
          /\ \E cut \in 0..watermark' :
                outbox' = [i \in {j \in DOMAIN outbox : j > cut} |-> outbox[i]]
          /\ CheckOutboxLag(b)
          /\ lapse' = ((lapse \/ Passed(b) # {}) /\ ~Fresh)
    /\ Finish(b)
    /\ UNCHANGED <<db, nextId, writing, txRow, lock, snap, meta, versions, beaten, read, locking, faults>>

\* The interval timer, and the rebuild at start
FullRebuild(b) ==
    /\ pc[b] = "idle" /\ b \in Rebuilders
    /\ Goto(b, "lock")
    /\ UNCHANGED <<table, redis, read, locking, batch, known, lapse, faults>>

\* ListSchedulableAccounts: a miss, or a Redis error, builds without the lock
Fallback(b) ==
    /\ pc[b] = "idle" /\ b \in Rebuilders
    /\ \/ snap = Empty /\ UNCHANGED faults
       \/ snap # Empty /\ Inject
    /\ Goto(b, "load")
    /\ UNCHANGED <<table, redis, read, locking, batch, known, lapse>>

Init ==
    /\ db = 0 /\ nextId = 1 /\ outbox = [i \in {} |-> FALSE] /\ watermark = 0
    /\ writing = [w \in Writers \union TxWriters |-> "idle"]
    /\ txRow = [t \in TxWriters |-> 0]
    /\ lock = NoOne /\ snap = Empty /\ meta = Empty
    /\ versions = {} /\ beaten = {}
    /\ pc = [b \in Builders |-> "idle"]
    /\ read = [b \in Builders |-> 0]
    /\ batch = [b \in Builders |-> {}] /\ known = [b \in Builders |-> {}]
    /\ locking = {}
    /\ lapse = FALSE /\ faults = 0

Work(b) == \/ PollOutbox(b) \/ ReadAccount(b) \/ SetAccount(b)
           \/ TryLockBucket(b) \/ LoadAccounts(b) \/ TakeVersion(b)
           \/ WriteAccounts(b) \/ Activate(b) \/ SetOutboxWatermark(b)

Next ==
    \/ \E w \in Writers : Change(w) \/ EnqueueEvent(w)
    \/ \E t \in TxWriters : TxInsert(t) \/ TxCommit(t)
    \/ \E b \in Builders : Work(b) \/ Fail(b) \/ Abandon(b) \/ FullRebuild(b) \/ Fallback(b)
    \/ LockExpires

Spec == Init /\ [][Next]_vars

(* Tickers fire, statements end and keys expire; nobody has to change an   *)
(* account or to send a request.                                           *)
Fairness ==
    /\ \A b \in Builders : WF_vars(Work(b))
    /\ \A b \in Rebuilders : WF_vars(FullRebuild(b))
    /\ \A w \in Writers : WF_vars(EnqueueEvent(w))
    /\ \A t \in TxWriters : WF_vars(TxCommit(t))
    /\ WF_vars(LockExpires)

FairSpec == Spec /\ Fairness

----------------------------------------------------------------------------
(* Properties                                                              *)

\* Types; ids and the watermark stay below the sequence of the outbox table
TypeOK ==
    /\ db \in 0..MaxChanges
    /\ nextId \in Nat \ {0}
    /\ DOMAIN outbox \subseteq 1..(nextId - 1) /\ \A i \in DOMAIN outbox : outbox[i] \in BOOLEAN
    /\ watermark \in 0..(nextId - 1)
    /\ writing \in [Writers \union TxWriters -> {"idle", "enqueue", "tx"}]
    /\ txRow \in [TxWriters -> 0..(nextId - 1)]
    /\ lock \in Builders \union {NoOne}
    /\ snap \in 0..MaxChanges \union {Empty} /\ meta \in 0..MaxChanges \union {Empty}
    /\ versions \subseteq Builders \X Builders /\ beaten \subseteq Builders
    /\ pc \in [Builders -> Steps]
    /\ read \in [Builders -> 0..MaxChanges]
    /\ batch \in [Builders -> SUBSET (1..(nextId - 1))] /\ known \in [Builders -> SUBSET (1..(nextId - 1))]
    /\ locking \subseteq Builders
    /\ lapse \in BOOLEAN /\ faults \in 0..MaxFaults

Enqueuing == \E w \in Writers : writing[w] = "enqueue"

\* Whenever the copy the scheduler reads is behind the database, an event that
\* will refresh it is on its way, unless a refresh was lost in one of five ways:
\* the bucket was locked, an older read was written over a newer one, an id
\* was passed by the watermark before its commit, an event was suppressed by
\* a row that will not be listed, or the insert of the event failed
StaleIsExplained ==
    Stale => (Waiting # {} \/ Enqueuing \/ lapse)

\* Once the account no longer changes, the copy becomes current and stays so:
\* the periodic rebuild makes up for every lost refresh
CopyConverges == <>[](snap = Empty \/ Fresh)

\* Every committed event past the watermark is handled in the end, through
\* failures of the handler and of other workers
OutboxIsConsumed == <>[](Waiting = {})
============================================================================
