--------------------------- MODULE IdempotencyStore ---------------------------
(***************************************************************************)
(* One row of idempotency_records and the statements of its repository.    *)
(* The coordinator of idempotent requests (Idempotency) and the lock of    *)
(* system operations (SystemOperationLock) are both built on it.  Each     *)
(* statement is atomic; (scope, key hash) is unique, so rows of other keys *)
(* do not matter.  Time is counted in ticks.                               *)
(***************************************************************************)
EXTENDS Naturals

CONSTANTS
    Lease,      \* ProcessingTimeout, in ticks
    TTL,        \* how long a row is valid
    MaxTime,    \* bound on the clock
    MaxFaults   \* bound on injected faults

ASSUME TimeAssumption == Lease \in Nat /\ TTL \in Nat /\ MaxTime \in Nat
ASSUME StoreFaultAssumption == MaxFaults \in Nat

VARIABLES
    rec,      \* the row; id 0 when there is none
    lastId,   \* the id sequence
    clock,    \* time.Now()
    faults    \* faults injected so far

storeVars == <<rec, lastId, clock, faults>>

Statuses == {"processing", "succeeded", "failed_retryable"}

\* locked is 0 for NULL: every test of locked_until treats NULL as the past
NoRow == [id |-> 0, owner |-> 0, status |-> "succeeded", locked |-> 0, expires |-> 0, body |-> 0]

Exists == rec.id # 0

Inject  == faults < MaxFaults /\ faults' = faults + 1
NoFault == UNCHANGED faults

StoreInit == rec = NoRow /\ lastId = 0 /\ clock = 0 /\ faults = 0

----------------------------------------------------------------------------
(* The statements; owner is request_fingerprint                            *)

\* INSERT ... ON CONFLICT DO NOTHING, where there is no conflict
CreateProcessing(owner, locked, expires) ==
    /\ ~Exists
    /\ rec' = [id |-> lastId + 1, owner |-> owner, status |-> "processing",
               locked |-> locked, expires |-> expires, body |-> 0]
    /\ lastId' = lastId + 1
    /\ UNCHANGED clock

\* Mutant: the row's status and lock are not looked at
Reclaimable_AnyLock(id, from, now) == rec.id = id

\* The WHERE clause of TryReclaim
Reclaimable(id, from, now) == rec.id = id /\ rec.status = from /\ rec.locked <= now

\* Its SET clause: the fingerprint stays that of the row's first owner
TryReclaim(id, from, now, locked, expires) ==
    /\ Reclaimable(id, from, now)
    /\ rec' = [rec EXCEPT !.status = "processing", !.locked = locked, !.expires = expires]
    /\ UNCHANGED <<lastId, clock>>

\* The WHERE clause of ExtendProcessingLock
Extendable(id, owner) == rec.id = id /\ rec.status = "processing" /\ rec.owner = owner

ExtendProcessingLock(id, owner, locked, expires) ==
    /\ Extendable(id, owner)
    /\ rec' = [rec EXCEPT !.locked = locked, !.expires = expires]
    /\ UNCHANGED <<lastId, clock>>

\* WHERE id only: whoever holds the row by now
MarkSucceeded(id, body, expires) ==
    /\ rec' = IF rec.id = id /\ Exists
              THEN [rec EXCEPT !.status = "succeeded", !.locked = 0, !.expires = expires,
                               !.body = body]
              ELSE rec
    /\ UNCHANGED <<lastId, clock>>

MarkFailedRetryable(id, locked, expires) ==
    /\ rec' = IF rec.id = id /\ Exists
              THEN [rec EXCEPT !.status = "failed_retryable", !.locked = locked,
                               !.expires = expires]
              ELSE rec
    /\ UNCHANGED <<lastId, clock>>

\* Mutant: rows are deleted when their lock, not their validity, has passed
DeleteExpired_ByLock == /\ Exists /\ rec.locked <= clock
                        /\ rec' = NoRow
                        /\ UNCHANGED <<lastId, clock, faults>>

\* The cleanup job; it deletes a processing row too
DeleteExpired == /\ Exists /\ rec.expires <= clock
                 /\ rec' = NoRow
                 /\ UNCHANGED <<lastId, clock, faults>>

Advance == /\ clock < MaxTime
           /\ clock' = clock + 1
           /\ UNCHANGED <<rec, lastId, faults>>
=============================================================================
