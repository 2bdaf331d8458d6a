------------------------ MODULE SystemOperationLock ------------------------
(***************************************************************************)
(* SystemOperationLockService: update, rollback and restart of the server  *)
(* exclude each other through one row of idempotency_records, claimed with *)
(* a lease that a goroutine of the holder renews.  owner of the row is the *)
(* operation that inserted it.                                             *)
(***************************************************************************)
EXTENDS IdempotencyStore

CONSTANTS
    Operations,     \* operation ids; one attempt of each at a time
    RenewInterval,  \* lease / 3, in ticks
    MaxLag          \* longest time from reading the clock to claiming the row

\* One failed renewal does not cost the lease, and the row is valid for at least
\* a lease.  Nothing bounds how long an operation runs.
ASSUME RenewAssumption ==
    RenewInterval \in Nat \ {0} /\ MaxLag \in Nat /\ MaxLag + 2 * RenewInterval < Lease
ASSUME ValidityAssumption == Lease <= TTL
ASSUME OperationAssumption == 0 \notin Operations

VARIABLES
    pc,       \* step of each operation
    now,      \* the clock as Acquire read it
    read,     \* the row as Acquire read it
    lock,     \* recordID, lockedUntil as Acquire wrote it, and whether by inserting the row
    renewer,  \* its renewLoop: step, recordID, when its ticker fired last
    overrun   \* an operation outran the lease of a row it reclaimed, and since then
              \* there was always one at work

opVars == <<pc, now, read, lock, renewer, overrun>>
vars   == <<storeVars, opVars>>

NoLock       == [id |-> 0, until |-> 0, inserted |-> FALSE]
NoRenewer    == [step |-> "off", id |-> 0, at |-> 0]
AcquireSteps == {"create", "get", "reclaim"}
Holding(o)   == pc[o] = "held"

\* The operation has the lock, or is about to give it back
Owning(o) == pc[o] \in {"held", "succeeded", "failed"}

Fail(o) == /\ pc' = [pc EXCEPT ![o] = "idle"]
           /\ read' = [read EXCEPT ![o] = NoRow]
           /\ now' = [now EXCEPT ![o] = 0]
           /\ UNCHANGED <<lock, renewer, overrun>>

\* The lock is returned and its renewLoop started
Acquired(o, id, inserted) ==
    /\ pc' = [pc EXCEPT ![o] = "held"]
    /\ lock' = [lock EXCEPT ![o] = [id |-> id, until |-> now[o] + Lease, inserted |-> inserted]]
    /\ UNCHANGED overrun
    /\ renewer' = [renewer EXCEPT ![o] = [step |-> "wait", id |-> id, at |-> clock]]
    /\ read' = [read EXCEPT ![o] = NoRow]
    /\ now' = [now EXCEPT ![o] = 0]

----------------------------------------------------------------------------
(* Acquire                                                                 *)

Acquire(o) ==
    /\ pc[o] = "idle" /\ renewer[o] = NoRenewer
    /\ pc' = [pc EXCEPT ![o] = "create"]
    /\ now' = [now EXCEPT ![o] = clock]
    /\ UNCHANGED <<storeVars, read, lock, renewer, overrun>>

InsertRow(o) ==
    /\ pc[o] = "create"
    /\ \/ /\ CreateProcessing(o, now[o] + Lease, now[o] + TTL)
          /\ \/ Acquired(o, lastId + 1, TRUE) /\ NoFault
             \/ Fail(o) /\ Inject
       \/ /\ Exists /\ NoFault
          /\ pc' = [pc EXCEPT ![o] = "get"]
          /\ UNCHANGED <<rec, lastId, clock, now, read, lock, renewer, overrun>>
       \/ UNCHANGED <<rec, lastId, clock>> /\ Fail(o) /\ Inject

\* A processing row whose lease runs keeps everybody else out
Busy(o) == rec.status = "processing" /\ rec.locked > now[o]

GetHolder(o) ==
    /\ pc[o] = "get"
    /\ \/ (~Exists \/ Busy(o)) /\ Fail(o) /\ NoFault
       \/ /\ Exists /\ ~Busy(o) /\ NoFault
          /\ pc' = [pc EXCEPT ![o] = "reclaim"]
          /\ read' = [read EXCEPT ![o] = rec]
          /\ UNCHANGED <<now, lock, renewer, overrun>>
       \/ Fail(o) /\ Inject
    /\ UNCHANGED <<rec, lastId, clock>>

ReclaimRow(o) ==
    /\ pc[o] = "reclaim"
    /\ \/ /\ TryReclaim(read[o].id, read[o].status, now[o], now[o] + Lease, now[o] + TTL)
          /\ \/ Acquired(o, read[o].id, FALSE) /\ NoFault
             \/ Fail(o) /\ Inject
       \/ /\ ~Reclaimable(read[o].id, read[o].status, now[o])
          /\ UNCHANGED <<rec, lastId, clock>> /\ Fail(o) /\ NoFault
       \/ UNCHANGED <<rec, lastId, clock>> /\ Fail(o) /\ Inject

----------------------------------------------------------------------------
(* The operation ends: Release stops the loop and marks the row by its id  *)

\* The last operation at work leaves
Leaves(o) == overrun' = (overrun /\ \E q \in Operations \ {o} : Owning(q))

\* RestartService ends here at once: the restart is a goroutine of its own, half
\* a second later, which the lock does not cover
FinishOperation(o) ==
    /\ Holding(o)
    /\ \E s \in {"succeeded", "failed"} : pc' = [pc EXCEPT ![o] = s]
    /\ renewer' = [renewer EXCEPT ![o] = IF @.step = "wait" THEN NoRenewer ELSE @]
    /\ UNCHANGED <<storeVars, now, read, lock, overrun>>

\* An error of the statement is dropped by the handler
Release(o) ==
    /\ \/ /\ pc[o] = "succeeded" /\ NoFault
          /\ MarkSucceeded(lock[o].id, o, clock + TTL)
       \/ /\ pc[o] = "failed" /\ NoFault
          /\ MarkFailedRetryable(lock[o].id, clock, clock + TTL)
       \/ /\ pc[o] \in {"succeeded", "failed"} /\ Inject
          /\ UNCHANGED <<rec, lastId, clock>>
    /\ pc' = [pc EXCEPT ![o] = "idle"]
    /\ lock' = [lock EXCEPT ![o] = NoLock]
    /\ Leaves(o)
    /\ UNCHANGED <<now, read, renewer>>

----------------------------------------------------------------------------
(* renewLoop                                                               *)

TickerFires(o) ==
    /\ renewer[o].step = "wait" /\ clock = renewer[o].at + RenewInterval
    /\ renewer' = [renewer EXCEPT ![o].step = "extend", ![o].at = clock]
    /\ UNCHANGED <<storeVars, pc, now, read, lock, overrun>>

\* Back to the select, which sees stopCh closed after Release
LoopOn(o) ==
    renewer' = [renewer EXCEPT ![o] = IF Holding(o) THEN [@ EXCEPT !.step = "wait"] ELSE NoRenewer]
LoopEnds(o) == renewer' = [renewer EXCEPT ![o] = NoRenewer]

\* The statement, for the time the loop read
Extend(o) == ExtendProcessingLock(renewer[o].id, o, renewer[o].at + Lease, renewer[o].at + TTL)

\* Mutant: an error ends the loop
ExtendLock_ErrorStops(o) ==
    /\ renewer[o].step = "extend"
    /\ \/ /\ Extend(o) /\ LoopOn(o) /\ NoFault
       \/ /\ ~Extendable(renewer[o].id, o) /\ LoopEnds(o) /\ NoFault
          /\ UNCHANGED <<rec, lastId, clock>>
       \/ LoopEnds(o) /\ UNCHANGED <<rec, lastId, clock>> /\ Inject
    /\ UNCHANGED <<pc, now, read, lock, overrun>>

ExtendLock(o) ==
    /\ renewer[o].step = "extend"
    /\ \/ /\ Extend(o) /\ LoopOn(o) /\ (NoFault \/ Inject)
       \/ /\ ~Extendable(renewer[o].id, o) /\ LoopEnds(o) /\ NoFault
          /\ UNCHANGED <<rec, lastId, clock>>
       \/ LoopOn(o) /\ UNCHANGED <<rec, lastId, clock>> /\ Inject
    /\ UNCHANGED <<pc, now, read, lock, overrun>>

----------------------------------------------------------------------------
(* The surroundings                                                        *)

\* The process of the operation stops, and its loop with it
ProcessStops(o) ==
    /\ pc[o] # "idle" \/ renewer[o] # NoRenewer
    /\ Inject
    /\ pc' = [pc EXCEPT ![o] = "idle"]
    /\ now' = [now EXCEPT ![o] = 0]
    /\ read' = [read EXCEPT ![o] = NoRow]
    /\ lock' = [lock EXCEPT ![o] = NoLock]
    /\ LoopEnds(o) /\ Leaves(o)
    /\ UNCHANGED <<rec, lastId, clock>>

\* Renewals and releases time out after 2 s, less than a tick; the ticker is punctual
Tick ==
    /\ \A o \in Operations :
          /\ pc[o] \in AcquireSteps => clock < now[o] + MaxLag
          /\ pc[o] \notin {"succeeded", "failed"} /\ renewer[o].step # "extend"
          /\ renewer[o].step = "wait" => clock < renewer[o].at + RenewInterval
    /\ Advance
    /\ overrun' = (overrun \/ \E o \in Operations :
                       Holding(o) /\ ~lock[o].inserted /\ lock[o].until <= clock')
    /\ UNCHANGED <<pc, now, read, lock, renewer>>

Cleanup == DeleteExpired /\ UNCHANGED opVars

Init == /\ StoreInit
        /\ pc = [o \in Operations |-> "idle"]
        /\ now = [o \in Operations |-> 0]
        /\ read = [o \in Operations |-> NoRow]
        /\ lock = [o \in Operations |-> NoLock]
        /\ renewer = [o \in Operations |-> NoRenewer]
        /\ overrun = FALSE

Next == \/ Tick \/ Cleanup
        \/ \E o \in Operations :
              \/ Acquire(o) \/ InsertRow(o) \/ GetHolder(o) \/ ReclaimRow(o)
              \/ FinishOperation(o) \/ Release(o)
              \/ TickerFires(o) \/ ExtendLock(o) \/ ProcessStops(o)

Spec == Init /\ [][Next]_vars

----------------------------------------------------------------------------
(* Properties                                                              *)

\* The row, the operations and their loops hold the values the code allows.
TypeOK ==
    /\ rec \in [id : 0 .. lastId, owner : Operations \union {0}, status : Statuses,
                locked : Nat, expires : Nat, body : Operations \union {0}]
    /\ lastId \in Nat /\ clock \in 0 .. MaxTime /\ faults \in 0 .. MaxFaults
    /\ pc \in [Operations -> {"idle", "held", "succeeded", "failed"} \union AcquireSteps]
    /\ now \in [Operations -> 0 .. MaxTime]
    /\ lock \in [Operations -> [id : Nat, until : Nat, inserted : BOOLEAN]]
    /\ renewer \in [Operations -> [step : {"off", "wait", "extend"}, id : Nat, at : Nat]]
    /\ overrun \in BOOLEAN

\* Two system operations that each inserted the row never run at the same time,
\* however long they take.  A reclaimed row keeps the fingerprint of its first
\* operation, so nothing renews its lease: as soon as an operation outruns the
\* lease of a row it reclaimed (overrun), another may start beside it.  Until then
\* no two operations run at the same time at all.
MutualExclusion ==
    \A o, q \in Operations :
        /\ Holding(o) /\ Holding(q)
        /\ overrun => lock[o].inserted /\ lock[q].inserted
        => o = q

\* The lease of a running operation does not run out, nor does anybody else take
\* or free its row: always for one that inserted the row, whose renewLoop goes on
\* after a failed renewal, and until an overrun for one that reclaimed it.
LockedWhileHeld ==
    \A o \in Operations :
        Holding(o) /\ (overrun => lock[o].inserted) =>
            rec.id = lock[o].id /\ rec.status = "processing" /\ rec.locked > clock

\* "locked_until should be renewed while lock is held"
\* (TestSystemOperationLockService_RenewLease): the lease of a running operation
\* has not passed.
RenewedWhileHeld == \A o \in Operations : Holding(o) => rec.locked > clock
=============================================================================
