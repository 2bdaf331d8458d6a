--------------------------- MODULE PlatformQuota ---------------------------
(***************************************************************************)
(* The daily spending quota of one user on one platform.  A request is     *)
(* admitted against a Redis entry, which is filled from the database when  *)
(* it is missing and reset when its window is over; when the request is    *)
(* done its cost is added to the entry if there is one, and then to the    *)
(* database: by a goroutine of its own, or, with the flusher enabled, by   *)
(* the snapshots the flusher takes of the entries marked dirty.            *)
(* Every request costs 1.  The weekly and the monthly window work like the *)
(* daily one and are left out.                                             *)
(***************************************************************************)
EXTENDS Integers, FiniteSets

CONSTANTS
    Requests,
    Flushers,   \* one per replica; the last flush of a stopping one may meet its tick
    Limit,      \* daily_limit_usd
    MaxDays,    \* bound on midnights
    MaxServed,  \* bound on served requests
    MaxFaults,  \* bound on injected faults
    None        \* no entry; window start not set

ASSUME QuotaBoundAssumption ==
    /\ Limit \in Nat \ {0} /\ MaxDays \in Nat /\ MaxServed \in Nat /\ MaxFaults \in Nat
    /\ None \notin Int /\ None \notin [usage : Nat, win : Int \union {None}]
    /\ IsFiniteSet(Requests)

Days    == 0..MaxDays
Windows == Days \union {None}
Usages  == 0..MaxServed
Entry   == [usage : Usages, win : Windows]
NoEntry == [usage |-> 0, win |-> None]

VARIABLES
    flusher,    \* user_platform_quota_flusher_enabled
    day,        \* the clock
    db,         \* the row
    cache,      \* the Redis entry
    dirty,      \* the key is in the dirty set
    pc, val,    \* step of each request and the entry it is about to write
    stamp,      \* the day a database increment was started on
    fpc, snap,  \* the flusher's step and snapshot
    resetting,  \* the administrator has reset the row and not yet deleted the entry
    total,      \* requests served so far, for the bound
    served,     \* history: served today since the last reset
    spent,      \* history: cost of today that the row should show, or will
    late,       \* history: today an increment stamped on an earlier day hit a newer row
    failed,     \* history: today a goroutine's write of the row failed
    missed,     \* history: how many of the served the entry need not show; see Miss
    unmarked,   \* history: the entry got ahead of the row and is not marked; see Unmark
    faults

request == <<pc, val, stamp>>
flush   == <<fpc, snap>>
ghost   == <<served, spent, late, failed, missed, unmarked>>
vars    == <<flusher, day, db, cache, dirty, request, flush, resetting, total, ghost, faults>>

Steps == {"idle", "load", "peek", "set", "serving", "spawn", "persist"}

Inject == faults < MaxFaults /\ faults' = faults + 1

Goto(r, s) == pc' = [pc EXCEPT ![r] = s]
Pending    == {r \in Requests : pc[r] \in {"spawn", "persist"}}
Overwriting == {r \in Requests : pc[r] = "set"}

\* quotaWindowExpired
Expired(win) == IF win = None THEN TRUE ELSE win < day
Today(e)     == IF Expired(e.win) THEN 0 ELSE e.usage
Excess(d, e) == IF Today(d) > Today(e) THEN Today(d) - Today(e) ELSE 0

\* Costs on their way to the row that it will book to today
Fresh == {r \in Pending : ~(pc[r] = "persist" /\ stamp[r] < day)}

\* n of the costs served today are lost to the entries to come
Miss(n) == missed' = IF missed + n > served THEN served ELSE missed + n

\* The row may have fallen behind the entry, and the key is not in the dirty set
Unmark(behind) == unmarked' = (unmarked \/ (behind /\ flusher /\ ~dirty))

\* checkUserPlatformQuotaEligibility ends with the comparison
Judge(r, usage) == Goto(r, IF usage < Limit THEN "serving" ELSE "idle")

----------------------------------------------------------------------------
(* Admission                                                               *)

\* A hit with a closed window is written back with usage 0 and today's window;
\* with Redis down the row decides and nothing is written
Get(r) ==
    /\ pc[r] = "idle" /\ total + Cardinality({q \in Requests : pc[q] # "idle"}) < MaxServed
    /\ \/ /\ cache # None /\ UNCHANGED faults
          /\ \/ ~Expired(cache.win) /\ Judge(r, cache.usage) /\ UNCHANGED val
             \/ /\ Expired(cache.win) /\ Goto(r, "set")
                /\ val' = [val EXCEPT ![r] = [usage |-> 0, win |-> day]]
       \/ cache = None /\ Goto(r, "load") /\ UNCHANGED <<val, faults>>
       \/ Inject /\ Goto(r, "peek") /\ UNCHANGED val
    /\ UNCHANGED <<flusher, day, db, cache, dirty, stamp, flush, resetting, total, ghost>>

\* The window start is taken from the row as it is, even when it is over.
\* singleflight may share one read; each caller still writes the entry itself.
\* What is on its way to the row is not in it, nor what an entry filled meanwhile
\* holds for the flusher.  An error lets the request pass
Load(r) ==
    /\ pc[r] = "load"
    /\ \/ /\ Goto(r, "set") /\ UNCHANGED faults
          /\ val' = [val EXCEPT ![r] = [usage |-> Today(db), win |-> db.win]]
          /\ Miss(IF flusher /\ cache # None THEN Excess(cache, db) ELSE Cardinality(Fresh))
       \/ Inject /\ Goto(r, "serving") /\ UNCHANGED <<val, missed>>
    /\ UNCHANGED <<flusher, day, db, cache, dirty, stamp, flush, resetting, total, served, spent, late, failed, unmarked>>

Peek(r) ==
    /\ pc[r] = "peek"
    /\ (Judge(r, Today(db)) /\ UNCHANGED faults) \/ (Inject /\ Goto(r, "serving"))
    /\ UNCHANGED <<flusher, day, db, cache, dirty, val, stamp, flush, resetting, total, ghost>>

Forget(r) == val' = [val EXCEPT ![r] = NoEntry]

\* SetUserPlatformQuotaCache overwrites whatever is there by now, and brings
\* back what the row showed before a reset
SetCache(r) ==
    /\ pc[r] = "set"
    /\ \/ cache' = val[r] /\ Unmark(Today(val[r]) > Today(db)) /\ UNCHANGED faults
       \/ Inject /\ UNCHANGED <<cache, unmarked>>
    /\ Judge(r, val[r].usage) /\ Forget(r)
    /\ UNCHANGED <<flusher, day, db, dirty, stamp, flush, resetting, total, served, spent, late, failed, missed>>

----------------------------------------------------------------------------
(* Charging                                                                *)

\* Mutant: the script sets instead of adding
Added_Overwrites(e) == [e EXCEPT !.usage = 1]
Added(e) == [e EXCEPT !.usage = @ + 1]

\* The cost will not be seen: someone is about to overwrite the entry, or its
\* window is closed or was never opened (so the next Get starts from 0), or
\* there is no entry and only the flusher would write the row
Unseen == Overwriting # {} \/ (IF cache = None THEN flusher ELSE Expired(cache.win))

\* The script adds to an entry that exists, whatever its window; marking the key
\* puts right what was unmarked
Complete(r) ==
    /\ pc[r] = "serving"
    /\ Goto(r, IF flusher THEN "idle" ELSE "spawn")
    /\ total' = total + 1 /\ served' = served + 1 /\ spent' = spent + 1
    /\ \/ /\ cache # None /\ cache' = Added(cache)
          /\ dirty' = (dirty \/ flusher) /\ unmarked' = (unmarked /\ ~flusher)
          /\ missed' = missed + (IF Unseen THEN 1 ELSE 0) /\ UNCHANGED faults
       \/ /\ cache = None /\ missed' = missed + (IF Unseen THEN 1 ELSE 0)
          /\ UNCHANGED <<cache, dirty, unmarked, faults>>
       \/ Inject /\ missed' = missed + 1 /\ UNCHANGED <<cache, dirty, unmarked>>
    /\ UNCHANGED <<flusher, day, db, val, stamp, flush, resetting, late, failed>>

\* The goroutine takes the time, then waits for the row lock
Spawn(r) ==
    /\ pc[r] = "spawn" /\ Goto(r, "persist")
    /\ stamp' = [stamp EXCEPT ![r] = day]
    /\ UNCHANGED <<flusher, day, db, cache, dirty, val, flush, resetting, total, ghost, faults>>

\* Mutant: the window start is not looked at
Incremented_NoReset(on) == [usage |-> db.usage + 1, win |-> on]

\* maybeReset: any other window start than the one of the stamp resets
Incremented(on) == [usage |-> IF db.win = on THEN db.usage + 1 ELSE 1, win |-> on]

\* IncrementUsageWithReset; a cost stamped on an earlier day is not today's, and
\* wipes a row of today
Persist(r) ==
    /\ pc[r] = "persist" /\ Goto(r, "idle")
    /\ stamp' = [stamp EXCEPT ![r] = 0]
    /\ \/ /\ db' = Incremented(stamp[r])
          /\ spent' = IF stamp[r] < day THEN spent - 1 ELSE spent
          /\ late' = (late \/ (db.win # None /\ stamp[r] < db.win))
          /\ Miss(IF stamp[r] < day THEN Today(db) ELSE 0) /\ UNCHANGED <<failed, faults>>
       \/ /\ Inject /\ failed' = TRUE /\ Miss(IF stamp[r] < day THEN 0 ELSE 1)
          /\ UNCHANGED <<db, spent, late>>
    /\ UNCHANGED <<flusher, day, cache, dirty, val, flush, resetting, total, served, unmarked>>

----------------------------------------------------------------------------
(* Flusher                                                                 *)

FlushGoto(f, s) == fpc' = [fpc EXCEPT ![f] = s]
Active(f)       == fpc[f] # "idle"

\* SPOP before the entry is read: what is added later marks the key again
Pop(f) ==
    /\ fpc[f] = "idle" /\ dirty
    /\ dirty' = FALSE /\ FlushGoto(f, "read")
    /\ UNCHANGED <<flusher, day, db, cache, request, snap, resetting, total, ghost, faults>>

\* A missing entry or one without a window start is skipped
Snapshot(f) ==
    /\ fpc[f] = "read"
    /\ \/ /\ UNCHANGED faults
          /\ IF cache = None \/ cache.win = None THEN FlushGoto(f, "idle") /\ UNCHANGED snap
             ELSE FlushGoto(f, "write") /\ snap' = [snap EXCEPT ![f] = cache]
       \/ Inject /\ FlushGoto(f, "readd") /\ UNCHANGED snap
    /\ UNCHANGED <<flusher, day, db, cache, dirty, request, resetting, total, ghost>>

\* Mutant: the mark is removed once the row is written
Write_ThenUnmarks(f) ==
    /\ fpc[f] = "write" /\ FlushGoto(f, "idle")
    /\ snap' = [snap EXCEPT ![f] = NoEntry] /\ db' = snap[f] /\ dirty' = FALSE
    /\ UNCHANGED <<flusher, day, cache, request, resetting, total, ghost, faults>>

\* BatchSnapshotUsage overwrites the row, also one that a later snapshot has
\* reached first; the batch is put back on an error, and dropped when one of its
\* users was deleted
Write(f) ==
    /\ fpc[f] = "write" /\ snap' = [snap EXCEPT ![f] = NoEntry]
    /\ \/ /\ db' = snap[f] /\ FlushGoto(f, "idle") /\ UNCHANGED faults
          /\ Unmark(Today(snap[f]) < Today(db))
          /\ Miss(IF cache = None THEN Excess(db, snap[f]) ELSE 0)
       \/ Inject /\ FlushGoto(f, "readd") /\ UNCHANGED <<db, missed, unmarked>>
       \/ Inject /\ FlushGoto(f, "idle") /\ Unmark(TRUE) /\ UNCHANGED <<db, missed>>
    /\ UNCHANGED <<flusher, day, cache, dirty, request, resetting, total, served, spent, late, failed>>

\* Mutant: the batch is not put back
Readd_Forgotten(f) ==
    /\ fpc[f] = "readd" /\ FlushGoto(f, "idle")
    /\ UNCHANGED <<flusher, day, db, cache, dirty, request, snap, resetting, total, ghost, faults>>

\* readdOrCountLost
Readd(f) ==
    /\ fpc[f] = "readd" /\ FlushGoto(f, "idle")
    /\ \/ dirty' = TRUE /\ unmarked' = FALSE /\ UNCHANGED faults
       \/ Inject /\ Unmark(TRUE) /\ UNCHANGED dirty
    /\ UNCHANGED <<flusher, day, db, cache, request, snap, resetting, total, served, spent, late, failed, missed>>

\* flushOneBatch
FlushStep(f) == Pop(f) \/ Snapshot(f) \/ Write(f) \/ Readd(f)

----------------------------------------------------------------------------
(* Administrator, clock, TTL                                               *)

\* The histories of a window start again with it.  Costs on their way to the row
\* will be booked to the new day or taken off
NewWindow ==
    /\ served' = 0 /\ spent' = Cardinality(Pending)
    /\ late' = FALSE /\ failed' = FALSE /\ missed' = 0

\* ResetExpiredWindow resets a window that need not be over
ResetWindow ==
    /\ ~resetting /\ resetting' = TRUE
    /\ db' = [usage |-> 0, win |-> day]
    /\ NewWindow
    /\ UNCHANGED <<flusher, day, cache, dirty, request, flush, total, unmarked, faults>>

\* What an entry that goes showed and the flusher has not written
Unwritten == IF flusher /\ cache # None THEN Excess(cache, db) ELSE 0

DeleteCache ==
    /\ resetting /\ resetting' = FALSE
    /\ \/ cache' = None /\ Miss(Unwritten) /\ UNCHANGED <<unmarked, faults>>
       \/ Inject /\ Unmark(TRUE) /\ UNCHANGED <<cache, missed>>
    /\ UNCHANGED <<flusher, day, db, dirty, request, flush, total, served, spent, late, failed>>

Midnight ==
    /\ day < MaxDays /\ day' = day + 1
    /\ NewWindow
    /\ UNCHANGED <<flusher, db, cache, dirty, request, flush, resetting, total, unmarked, faults>>

\* The entry's TTL of a day starts again with every cost; only what was unmarked
\* or came during a reset is not in the row by then
CacheExpires ==
    /\ cache # None /\ cache' = None
    /\ \A r \in Requests : pc[r] = "idle"
    /\ ~dirty /\ \A f \in Flushers : ~Active(f)
    /\ Miss(IF unmarked \/ resetting THEN Unwritten ELSE 0)
    /\ UNCHANGED <<flusher, day, db, dirty, request, flush, resetting, total, served, spent, late, failed, unmarked, faults>>

\* A row starts without a window, or with the one an earlier reset opened; the
\* configuration is fixed
Init ==
    /\ flusher \in BOOLEAN /\ day = 0
    /\ db \in [usage : {0}, win : {None, 0}] /\ cache = None /\ dirty = FALSE
    /\ pc = [r \in Requests |-> "idle"]
    /\ val = [r \in Requests |-> NoEntry]
    /\ stamp = [r \in Requests |-> 0]
    /\ fpc = [f \in Flushers |-> "idle"] /\ snap = [f \in Flushers |-> NoEntry] /\ resetting = FALSE /\ total = 0
    /\ served = 0 /\ spent = 0 /\ late = FALSE /\ failed = FALSE /\ missed = 0 /\ unmarked = FALSE
    /\ faults = 0

Next ==
    \/ \E r \in Requests :
          Get(r) \/ Load(r) \/ Peek(r) \/ SetCache(r) \/ Complete(r) \/ Spawn(r) \/ Persist(r)
    \/ \E f \in Flushers : FlushStep(f)
    \/ ResetWindow \/ DeleteCache \/ Midnight \/ CacheExpires

\* The timing wheel keeps calling the flusher, and a reset runs to its end
Spec == Init /\ [][Next]_vars /\ WF_vars(DeleteCache) /\ \A f \in Flushers : WF_vars(FlushStep(f))

----------------------------------------------------------------------------
(* Properties                                                              *)

\* Every variable keeps its type.
TypeOK ==
    /\ flusher \in BOOLEAN /\ day \in Days
    /\ db \in Entry /\ cache \in Entry \union {None} /\ dirty \in BOOLEAN
    /\ pc \in [Requests -> Steps] /\ val \in [Requests -> Entry] /\ stamp \in [Requests -> Days]
    /\ fpc \in [Flushers -> {"idle", "read", "write", "readd"}] /\ snap \in [Flushers -> Entry]
    /\ resetting \in BOOLEAN /\ total \in Usages /\ served \in Usages /\ spent \in Usages
    /\ late \in BOOLEAN /\ failed \in BOOLEAN /\ missed \in Usages /\ unmarked \in BOOLEAN
    /\ faults \in 0..MaxFaults

\* Without the flusher the row shows today's cost, but for what is still on its
\* way, unless in this window a write failed or one stamped yesterday reached a
\* row of today (and wiped it).
LedgerIsExact == ~flusher /\ ~late /\ ~failed => Today(db) + Cardinality(Pending) = spent

\* The entry admission is decided on shows every cost served in this window,
\* less those counted in missed, one by one: a cost whose script failed, that met
\* an overwrite of the entry, a window closed or never opened (the first cost of
\* a fresh row) or, with the flusher, no entry; a cost on its way to the row, or
\* ahead of it in an entry, when the row was read to fill the entry; a cost whose
\* write of the row failed, that a write stamped yesterday or an older snapshot
\* wiped from the row; and what an entry held that went before the flusher wrote
\* it, deleted after a reset or expired unmarked.
EntryIsComplete == cache # None /\ ~Expired(cache.win) => cache.usage + missed >= served

\* With the flusher, an entry that is ahead of the row is marked, about to be
\* read or marked again by a flusher, or in a snapshot it is about to write.
\* Excepted are an entry whose reset is under way and, until its next cost marks
\* it, one that was unmarked: its batch was dropped or could not be put back, an
\* older snapshot was written over a newer one, its deletion after a reset
\* failed, or it was filled with what the row showed before the reset.
AheadIsMarked ==
    flusher /\ cache # None /\ ~resetting /\ ~unmarked =>
        \/ Today(cache) <= Today(db) \/ dirty
        \/ \E f \in Flushers : fpc[f] \in {"read", "readd"}
        \/ \E f \in Flushers : fpc[f] = "write" /\ Today(cache) <= Today(snap[f])

\* With the flusher, the row shows the entry again and again, in spite of failed
\* reads and writes and of batches put back; an entry that was unmarked is
\* excepted until its next cost marks it.
RowCatchesUp == []<>(~flusher \/ cache = None \/ Today(cache) <= Today(db) \/ unmarked)

=============================================================================
