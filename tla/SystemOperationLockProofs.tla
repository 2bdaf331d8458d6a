---------------------- MODULE SystemOperationLockProofs ----------------------
(***************************************************************************)
(* Proofs about SystemOperationLock for any number of operations, any      *)
(* lease, validity and renewal interval, and any bound on faults that      *)
(* leaves the lease longer than the renewals they can spoil.               *)
(***************************************************************************)
EXTENDS SystemOperationLock, TLAPS

\* An owner whose row is its own: it inserted the row, or nobody outran a lease
Safe(o) == Owning(o) /\ (lock[o].inserted \/ ~overrun)

Ids      == Operations \union {0}
Rows     == [id : Nat, owner : Ids, status : Statuses, locked : Nat, expires : Nat, body : Ids]
Locks    == [id : Nat, until : Nat, inserted : BOOLEAN]
Renewers == [step : {"off", "wait", "extend"}, id : Nat, at : Nat]
Pcs      == {"idle", "held", "succeeded", "failed"} \union AcquireSteps

\* TypeOK, and the type of the rows that were read
Typed ==
    /\ rec \in Rows /\ lastId \in Nat /\ rec.id <= lastId
    /\ clock \in Nat /\ clock <= MaxTime /\ faults \in 0 .. MaxFaults
    /\ pc \in [Operations -> Pcs]
    /\ now \in [Operations -> 0 .. MaxTime]
    /\ read \in [Operations -> Rows]
    /\ lock \in [Operations -> Locks]
    /\ renewer \in [Operations -> Renewers]

\* An attempt acts on a clock that is at most MaxLag old, and reclaims a row that was there
Attempts ==
    \A o \in Operations :
        /\ pc[o] \in AcquireSteps => now[o] <= clock /\ clock <= now[o] + MaxLag
        /\ pc[o] = "reclaim" => read[o].id # 0

\* The row of a safe owner is there, its lease runs, and the row stays valid as
\* long; one that reclaimed it is within the lease it was given
OwnedRow ==
    \A o \in Operations : Safe(o) =>
        /\ rec.id = lock[o].id /\ Exists /\ rec.status = "processing"
        /\ rec.locked > clock /\ rec.expires >= rec.locked
        /\ ~lock[o].inserted =>
              clock < lock[o].until /\ lock[o].until <= rec.locked /\ lock[o].until <= clock + Lease

\* At most one operation owns the row, unless one outran its lease
OneOwner == ~overrun => \A o, q \in Operations : Owning(o) /\ Owning(q) => o = q

\* Whatever others do with an earlier row, a row that was inserted is a new one
OwnIds ==
    \A o \in Operations : Owning(o) =>
        /\ lock[o].id <= lastId
        /\ lock[o].inserted =>
              \A q \in Operations : Owning(q) /\ q # o => lock[q].id # lock[o].id

\* A loop waits for its ticker only while its operation runs, and a statement of
\* the loop is not older than the clock
Loops ==
    \A o \in Operations :
        /\ renewer[o].step = "wait" =>
              /\ Holding(o)
              /\ renewer[o].at <= clock /\ clock <= renewer[o].at + RenewInterval
        /\ renewer[o].step = "extend" => renewer[o].at = clock
        /\ Holding(o) /\ renewer[o].step # "off" => renewer[o].id = lock[o].id

\* How far failed renewals may have put the lease back
Slack == faults * RenewInterval

\* The loop of an operation that inserted the row goes on, and the lease lags behind its
\* ticker by no more than the renewals that failed
Renewed ==
    \A o \in Operations : Holding(o) /\ lock[o].inserted =>
        /\ rec.owner = o /\ renewer[o].step # "off"
        /\ renewer[o].step = "wait" =>
              rec.locked + MaxLag + Slack >= renewer[o].at + Lease
        /\ renewer[o].step = "extend" =>
              rec.locked + MaxLag + Slack + RenewInterval >= renewer[o].at + Lease

\* The lease outlasts the renewals that faults can spoil in a row
LeaseCovers == MaxLag + MaxFaults * RenewInterval + RenewInterval < Lease

IInv == Attempts /\ OwnedRow /\ OneOwner /\ OwnIds /\ Loops /\ Renewed

----------------------------------------------------------------------------
(* Type correctness                                                        *)

\* It is the type invariant of the module.
LEMMA TypedIsTypeOK == Typed /\ overrun \in BOOLEAN => TypeOK
<1> SUFFICES ASSUME Typed, overrun \in BOOLEAN PROVE TypeOK
  OBVIOUS
<1>1. rec \in [id : 0 .. lastId, owner : Operations \union {0}, status : Statuses,
               locked : Nat, expires : Nat, body : Operations \union {0}]
  BY DEF Typed, Rows, Ids
<1>2. clock \in 0 .. MaxTime
  BY TimeAssumption DEF Typed
<1> QED BY <1>1, <1>2, Zenon DEF Typed, TypeOK, Locks, Renewers, Pcs

\* The values that stand for "none".
LEMMA NoneTyped == NoRow \in Rows /\ NoLock \in Locks /\ NoRenewer \in Renewers /\ NoRow.id = 0
<1>1. NoRow \in Rows /\ NoRow.id = 0
  BY DEF NoRow, Rows, Ids, Statuses
<1>2. NoRenewer \in Renewers
  BY DEF NoRenewer, Renewers
<1>3. NoLock \in Locks
  BY Zenon DEF NoLock, Locks
<1> QED BY <1>1, <1>2, <1>3

\* Before the first operation there is no row and nobody works.
LEMMA InitTyped == Init => Typed
<1> SUFFICES ASSUME Init PROVE Typed
  OBVIOUS
<1>1. rec \in Rows /\ rec.id <= lastId /\ lastId \in Nat /\ faults \in 0 .. MaxFaults
  BY NoneTyped, StoreFaultAssumption DEF Init, StoreInit
<1> QED BY <1>1, NoneTyped, TimeAssumption DEF Init, StoreInit, Typed, Pcs

\* A fault counter that is counted up stays within its bound.
LEMMA InjectTyped == Typed /\ (Inject \/ NoFault) => faults' \in 0 .. MaxFaults
BY StoreFaultAssumption DEF Typed, Inject, NoFault

\* Each statement leaves a row of the right type.
LEMMA StatementTyped ==
    ASSUME Typed, NEW i \in Nat, NEW w \in Ids, NEW l \in Nat, NEW e \in Nat, NEW f, NEW n
    PROVE  /\ CreateProcessing(w, l, e) =>
                 rec' \in Rows /\ lastId' = lastId + 1 /\ rec'.id = lastId + 1 /\ clock' = clock
           /\ \/ TryReclaim(i, f, n, l, e) \/ ExtendProcessingLock(i, w, l, e)
              \/ MarkSucceeded(i, w, e) \/ MarkFailedRetryable(i, l, e)
              => rec' \in Rows /\ rec'.id = rec.id /\ UNCHANGED <<lastId, clock>>
<1> USE DEF Typed, Rows, Statuses
<1>1. CreateProcessing(w, l, e) =>
         rec' \in Rows /\ lastId' = lastId + 1 /\ rec'.id = lastId + 1 /\ clock' = clock
  BY DEF CreateProcessing, Ids
<1>2. TryReclaim(i, f, n, l, e) => rec' \in Rows /\ rec'.id = rec.id /\ UNCHANGED <<lastId, clock>>
  BY DEF TryReclaim
<1>3. ExtendProcessingLock(i, w, l, e) =>
         rec' \in Rows /\ rec'.id = rec.id /\ UNCHANGED <<lastId, clock>>
  BY DEF ExtendProcessingLock
<1>4. MarkSucceeded(i, w, e) => rec' \in Rows /\ rec'.id = rec.id /\ UNCHANGED <<lastId, clock>>
  <2> DEFINE next == [rec EXCEPT !.status = "succeeded", !.locked = 0, !.expires = e, !.body = w]
  <2>1. next \in Rows /\ next.id = rec.id
    OBVIOUS
  <2> HIDE DEF next
  <2>2. MarkSucceeded(i, w, e) => (rec' = rec \/ rec' = next) /\ UNCHANGED <<lastId, clock>>
    BY Zenon DEF MarkSucceeded, next
  <2> QED BY <2>1, <2>2
<1>5. MarkFailedRetryable(i, l, e) =>
         rec' \in Rows /\ rec'.id = rec.id /\ UNCHANGED <<lastId, clock>>
  BY DEF MarkFailedRetryable
<1> QED BY <1>1, <1>2, <1>3, <1>4, <1>5

\* A lock that is acquired, and the loop that is started with it, have their types.
LEMMA AcquiredTyped ==
    ASSUME Typed, NEW o \in Operations, NEW i \in Nat, NEW b \in BOOLEAN, Acquired(o, i, b)
    PROVE  /\ pc' \in [Operations -> Pcs] /\ now' \in [Operations -> 0 .. MaxTime]
           /\ read' \in [Operations -> Rows]
           /\ lock' \in [Operations -> Locks] /\ renewer' \in [Operations -> Renewers]
<1>0. now[o] + Lease \in Nat
  BY TimeAssumption DEF Typed
<1>1. [id |-> i, until |-> now[o] + Lease, inserted |-> b] \in Locks
  BY <1>0, Zenon DEF Locks
<1>2. [step |-> "wait", id |-> i, at |-> clock] \in Renewers
  BY DEF Typed, Renewers
<1>3. 0 \in 0 .. MaxTime
  BY TimeAssumption
<1> QED BY <1>1, <1>2, <1>3, NoneTyped DEF Acquired, Typed, Pcs

\* So has what an attempt that fails leaves behind.
LEMMA FailTyped ==
    ASSUME Typed, NEW o \in Operations, Fail(o)
    PROVE  /\ pc' \in [Operations -> Pcs] /\ now' \in [Operations -> 0 .. MaxTime]
           /\ read' \in [Operations -> Rows]
           /\ lock' \in [Operations -> Locks] /\ renewer' \in [Operations -> Renewers]
BY NoneTyped, TimeAssumption DEF Fail, Typed, Pcs

\* Every step of an operation, of its loop and of the surroundings keeps the types.
LEMMA StepTyped == ASSUME Typed, Next PROVE Typed'
<1> USE InjectTyped, NoneTyped, TimeAssumption DEF Typed
<1>1. CASE Tick
  BY <1>1 DEF Tick, Advance, opVars
<1>2. CASE Cleanup
  BY <1>2 DEF Cleanup, DeleteExpired, opVars
<1>3. ASSUME NEW o \in Operations, Acquire(o) PROVE Typed'
  BY <1>3 DEF Acquire, storeVars, Pcs, AcquireSteps
<1>4. ASSUME NEW o \in Operations, InsertRow(o) PROVE Typed'
  <2>1. now[o] + Lease \in Nat /\ now[o] + TTL \in Nat /\ o \in Ids /\ lastId + 1 \in Nat
    BY DEF Ids
  <2>2. CASE /\ CreateProcessing(o, now[o] + Lease, now[o] + TTL)
             /\ (Acquired(o, lastId + 1, TRUE) /\ NoFault) \/ (Fail(o) /\ Inject)
    <3>1. /\ rec' \in Rows /\ lastId' = lastId + 1 /\ rec'.id = lastId + 1 /\ clock' = clock
      BY <2>1, <2>2, StatementTyped
    <3>2. CASE Acquired(o, lastId + 1, TRUE) /\ NoFault
      <4>1. /\ pc' \in [Operations -> Pcs] /\ now' \in [Operations -> 0 .. MaxTime]
            /\ read' \in [Operations -> Rows]
            /\ lock' \in [Operations -> Locks] /\ renewer' \in [Operations -> Renewers]
        BY <2>1, <3>2, AcquiredTyped, Zenon
      <4> QED BY <3>1, <3>2, <4>1
    <3>3. CASE Fail(o) /\ Inject
      BY <3>1, <3>3, FailTyped
    <3> QED BY <2>2, <3>2, <3>3
  <2>3. CASE /\ NoFault /\ pc' = [pc EXCEPT ![o] = "get"]
             /\ UNCHANGED <<rec, lastId, clock, now, read, lock, renewer, overrun>>
    BY <2>3 DEF Pcs, AcquireSteps
  <2>4. CASE UNCHANGED <<rec, lastId, clock>> /\ Fail(o) /\ Inject
    BY <2>4, FailTyped
  <2> QED BY <1>4, <2>2, <2>3, <2>4, Zenon DEF InsertRow
<1>5. ASSUME NEW o \in Operations, GetHolder(o) PROVE Typed'
  BY <1>5, FailTyped DEF GetHolder, Pcs, AcquireSteps
<1>6. ASSUME NEW o \in Operations, ReclaimRow(o) PROVE Typed'
  <2>1. now[o] + Lease \in Nat /\ now[o] + TTL \in Nat /\ read[o].id \in Nat
    BY DEF Rows
  <2>2. o \in Ids
    BY DEF Ids
  <2>3. CASE TryReclaim(read[o].id, read[o].status, now[o], now[o] + Lease, now[o] + TTL)
    BY <2>1, <2>2, <2>3, <1>6, StatementTyped, AcquiredTyped, FailTyped DEF ReclaimRow
  <2>4. CASE UNCHANGED <<rec, lastId, clock>>
    BY <1>6, <2>1, <2>4, FailTyped, AcquiredTyped DEF ReclaimRow
  <2> QED BY <1>6, <2>3, <2>4 DEF ReclaimRow
<1>7. ASSUME NEW o \in Operations, FinishOperation(o) PROVE Typed'
  BY <1>7 DEF FinishOperation, storeVars, Pcs
<1>8. ASSUME NEW o \in Operations, Release(o) PROVE Typed'
  <2>1. lock[o].id \in Nat /\ o \in Ids /\ clock + TTL \in Nat
    BY DEF Locks, Ids
  <2>2. rec' \in Rows /\ rec'.id = rec.id /\ UNCHANGED <<lastId, clock>>
    BY <1>8, <2>1, StatementTyped DEF Release
  <2> QED BY <1>8, <2>2 DEF Release, Pcs
<1>9. ASSUME NEW o \in Operations, TickerFires(o) PROVE Typed'
  <2> DEFINE next == [renewer[o] EXCEPT !.step = "extend", !.at = clock]
  <2>1. next \in Renewers
    BY DEF Renewers
  <2>2. renewer' = [renewer EXCEPT ![o] = next]
    BY <1>9 DEF TickerFires
  <2> HIDE DEF next
  <2> QED BY <1>9, <2>1, <2>2 DEF TickerFires, storeVars
<1>10. ASSUME NEW o \in Operations, ExtendLock(o) PROVE Typed'
  <2>1. renewer[o].id \in Nat /\ o \in Ids
        /\ renewer[o].at + Lease \in Nat /\ renewer[o].at + TTL \in Nat
    BY DEF Renewers, Ids
  <2>2. rec' \in Rows /\ rec'.id = rec.id /\ UNCHANGED <<lastId, clock>>
    BY <1>10, <2>1, StatementTyped DEF ExtendLock, Extend
  <2> DEFINE next == [renewer[o] EXCEPT !.step = "wait"]
  <2>3. next \in Renewers
    BY DEF Renewers
  <2>4. renewer' = [renewer EXCEPT ![o] = next] \/ renewer' = [renewer EXCEPT ![o] = NoRenewer]
    BY <1>10 DEF ExtendLock, LoopOn, LoopEnds
  <2> HIDE DEF next
  <2>5. renewer' \in [Operations -> Renewers]
    BY <2>3, <2>4
  <2> QED BY <1>10, <2>2, <2>5 DEF ExtendLock
<1>11. ASSUME NEW o \in Operations, ProcessStops(o) PROVE Typed'
  BY <1>11 DEF ProcessStops, LoopEnds, Pcs
<1> QED BY <1>1, <1>2, <1>3, <1>4, <1>5, <1>6, <1>7, <1>8, <1>9, <1>10, <1>11 DEF Next

OverrunOK == overrun \in BOOLEAN

\* overrun stays Boolean.
LEMMA OverrunTyped == OverrunOK /\ [Next]_vars => OverrunOK'
<1> SUFFICES ASSUME overrun \in BOOLEAN, [Next]_vars PROVE overrun' \in BOOLEAN
  BY DEF OverrunOK
<1>1. CASE Tick \/ Cleanup \/ UNCHANGED vars
  BY <1>1, Zenon DEF Tick, Cleanup, opVars, vars
<1>2. ASSUME NEW o \in Operations, Release(o) \/ ProcessStops(o) PROVE overrun' \in BOOLEAN
  BY <1>2, Zenon DEF Release, ProcessStops, Leaves
<1>3. ASSUME NEW o \in Operations,
             \/ Acquire(o) \/ InsertRow(o) \/ GetHolder(o) \/ ReclaimRow(o)
             \/ FinishOperation(o) \/ TickerFires(o) \/ ExtendLock(o)
      PROVE  overrun' \in BOOLEAN
  BY <1>3, Zenon DEF Acquire, InsertRow, GetHolder, ReclaimRow, FinishOperation, TickerFires,
                     ExtendLock, Fail, Acquired
<1> QED BY <1>1, <1>2, <1>3, Zenon DEF Next

\* The row, the operations and their loops keep their types.
THEOREM TypeCorrect == Spec => []TypeOK
<1>1. Typed /\ [Next]_vars => Typed'
  BY StepTyped DEF vars, storeVars, opVars, Typed
<1>2. Init => OverrunOK
  BY Zenon DEF Init, OverrunOK
<1>3. Typed /\ OverrunOK => TypeOK
  BY TypedIsTypeOK DEF OverrunOK
<1> QED BY InitTyped, <1>1, <1>2, <1>3, OverrunTyped, PTL DEF Spec

----------------------------------------------------------------------------
(* The inductive invariant                                                 *)

\* A product grows with its factor.
LEMMA TimesMonotone == ASSUME NEW a \in Nat, NEW b \in Nat, NEW c \in Nat, a <= b PROVE a * c <= b * c
OBVIOUS

\* The slack is at most that of all faults.
LEMMA SlackBounded ==
    Typed => Slack \in Nat /\ Slack <= MaxFaults * RenewInterval /\ MaxFaults * RenewInterval \in Nat
<1> SUFFICES ASSUME Typed
             PROVE  Slack \in Nat /\ Slack <= MaxFaults * RenewInterval /\ MaxFaults * RenewInterval \in Nat
  OBVIOUS
<1>1. faults \in Nat /\ MaxFaults \in Nat /\ RenewInterval \in Nat /\ faults <= MaxFaults
  BY StoreFaultAssumption, RenewAssumption DEF Typed
<1> QED BY <1>1, TimesMonotone DEF Slack

\* A fault adds one interval to the slack.
LEMMA SlackGrows ==
    Typed => /\ Inject => Slack' = Slack + RenewInterval
             /\ NoFault => Slack' = Slack
<1> SUFFICES ASSUME Typed PROVE (Inject => Slack' = Slack + RenewInterval) /\ (NoFault => Slack' = Slack)
  OBVIOUS
<1>1. faults \in Nat /\ RenewInterval \in Nat
  BY StoreFaultAssumption, RenewAssumption DEF Typed
<1> QED BY <1>1 DEF Slack, Inject, NoFault

\* Time passes only as fast as attempts, operations and tickers act.
LEMMA TickInv == ASSUME LeaseCovers, Typed, IInv, Tick PROVE IInv'
<1>1. ~overrun' =>
         /\ ~overrun
         /\ \A o \in Operations : Holding(o) /\ ~lock[o].inserted => ~(lock[o].until <= clock')
  BY Zenon DEF Tick
<1> USE TimeAssumption, StoreFaultAssumption, RenewAssumption, ValidityAssumption, SlackGrows, SlackBounded
    DEF NoFault, IInv, Typed, Rows, Locks, Renewers, Advance, Exists, Holding, Owning, Safe
<1>2. /\ clock' = clock + 1 /\ UNCHANGED <<rec, lastId, faults, pc, now, read, lock, renewer>>
      /\ \A o \in Operations :
            /\ pc[o] \in AcquireSteps => clock < now[o] + MaxLag
            /\ pc[o] \notin {"succeeded", "failed"} /\ renewer[o].step # "extend"
            /\ renewer[o].step = "wait" => clock < renewer[o].at + RenewInterval
  BY DEF Tick
<1>3. Attempts'
  BY <1>2 DEF Attempts
<1>4. OwnedRow'
  <2> SUFFICES ASSUME NEW o \in Operations, Safe(o)'
               PROVE  /\ rec.id = lock[o].id /\ rec.id # 0 /\ rec.status = "processing"
                      /\ rec.locked > clock + 1 /\ rec.expires >= rec.locked
                      /\ ~lock[o].inserted => /\ clock + 1 < lock[o].until
                                                    /\ lock[o].until <= rec.locked
                                                    /\ lock[o].until <= clock + 1 + Lease
    BY <1>2 DEF OwnedRow
  <2>1. Holding(o) /\ Safe(o)
    BY <1>1, <1>2
  <2>2. CASE ~lock[o].inserted
    <3>1. ~(lock[o].until <= clock + 1)
      BY <1>1, <1>2, <2>1, <2>2
    <3> QED BY <2>1, <2>2, <3>1 DEF OwnedRow
  <2>3. CASE lock[o].inserted
    <3>1. renewer[o].step = "wait" /\ clock < renewer[o].at + RenewInterval
      BY <1>2, <2>1, <2>3 DEF Renewed, Slack
    <3>2. rec.locked + MaxLag + Slack >= renewer[o].at + Lease
      BY <2>1, <2>3, <3>1 DEF Renewed, Slack
    <3>3. rec.locked > clock + 1
      BY <3>1, <3>2, SlackBounded DEF LeaseCovers
    <3> QED BY <2>1, <2>3, <3>3 DEF OwnedRow
  <2> QED BY <2>2, <2>3
<1>5. OneOwner'
  BY <1>1, <1>2 DEF OneOwner
<1>6. OwnIds'
  BY <1>2 DEF OwnIds
<1>7. Loops'
  BY <1>2 DEF Loops
<1>8. Renewed'
  BY <1>2 DEF Renewed, Slack
<1> QED BY <1>3, <1>4, <1>5, <1>6, <1>7, <1>8

\* The cleanup finds no row that an operation owns.
LEMMA CleanupInv == ASSUME LeaseCovers, Typed, IInv, Cleanup PROVE IInv'
<1> USE TimeAssumption, StoreFaultAssumption, RenewAssumption, ValidityAssumption, SlackGrows, SlackBounded
    DEF NoFault, IInv, Typed, Rows, Locks, Renewers, Cleanup, DeleteExpired, opVars, Exists, Holding, Owning, Safe
<1>1. \A o \in Operations : ~Safe(o)
  BY DEF OwnedRow
<1> QED BY <1>1 DEF Attempts, OwnedRow, OneOwner, OwnIds, Loops, Renewed

\* A new attempt reads the clock.
LEMMA AcquireInv == ASSUME LeaseCovers, Typed, IInv, NEW o \in Operations, Acquire(o) PROVE IInv'
<1> USE TimeAssumption, StoreFaultAssumption, RenewAssumption, ValidityAssumption, SlackGrows, SlackBounded
    DEF NoFault, IInv, Typed, Rows, Locks, Renewers, Acquire, storeVars, Exists, Holding, Owning, Safe
<1>1. Attempts'
  BY DEF Attempts
<1>2. OwnedRow'
  BY DEF OwnedRow
<1>3. OneOwner'
  BY DEF OneOwner
<1>6i. OwnIds'
  BY DEF OwnIds
<1>4. Loops'
  BY DEF Loops
<1>5. Renewed'
  BY DEF Renewed, Slack
<1> QED BY <1>1, <1>2, <1>3, <1>4, <1>5, <1>6i

\* A row is inserted when there is none: nobody owns one.
LEMMA InsertRowInv == ASSUME LeaseCovers, Typed, IInv, NEW o \in Operations, InsertRow(o) PROVE IInv'
<1> USE TimeAssumption, StoreFaultAssumption, RenewAssumption, ValidityAssumption, SlackGrows, SlackBounded
    DEF NoFault, IInv, Typed, Rows, Locks, Renewers, CreateProcessing, Fail, AcquireSteps, Exists, Holding, Owning, Safe
<1>1. CASE CreateProcessing(o, now[o] + Lease, now[o] + TTL) /\ Acquired(o, lastId + 1, TRUE) /\ NoFault
  <2>1. \A q \in Operations : ~Safe(q)
    BY <1>1 DEF OwnedRow
  <2> USE <1>1, <2>1 DEF InsertRow, Acquired
  <2>2. Attempts'
    BY DEF Attempts
  <2>3. OwnedRow'
    BY DEF OwnedRow, Attempts
  <2>4. OneOwner'
    BY DEF OneOwner
  <2>6i. OwnIds'
    BY DEF OwnIds
  <2>5. Loops'
    BY DEF Loops
  <2>6. Renewed'
    BY DEF Renewed, Attempts
  <2> QED BY <2>2, <2>3, <2>4, <2>5, <2>6, <2>6i
<1>2. CASE CreateProcessing(o, now[o] + Lease, now[o] + TTL) /\ Fail(o) /\ Inject
  <2>1. \A q \in Operations : ~Safe(q)
    BY <1>2 DEF OwnedRow
  <2> QED BY <1>2, <2>1 DEF InsertRow, Attempts, OwnedRow, OneOwner, OwnIds, Loops, Renewed
<1>3. CASE /\ NoFault /\ pc' = [pc EXCEPT ![o] = "get"]
           /\ UNCHANGED <<rec, lastId, clock, now, read, lock, renewer, overrun>>
  BY <1>3 DEF InsertRow, Attempts, OwnedRow, OneOwner, OwnIds, Loops, Renewed
<1>4. CASE UNCHANGED <<rec, lastId, clock>> /\ Fail(o) /\ Inject
  BY <1>4 DEF InsertRow, Attempts, OwnedRow, OneOwner, OwnIds, Loops, Renewed
<1> QED BY <1>1, <1>2, <1>3, <1>4, Zenon DEF InsertRow

\* An attempt that reads the row changes nothing.
LEMMA GetHolderInv == ASSUME LeaseCovers, Typed, IInv, NEW o \in Operations, GetHolder(o) PROVE IInv'
<1> USE TimeAssumption, StoreFaultAssumption, RenewAssumption, ValidityAssumption, SlackGrows, SlackBounded
    DEF NoFault, IInv, Typed, Rows, Locks, Renewers, GetHolder, Fail, AcquireSteps, Exists, Holding, Owning, Safe
<1>1. Attempts'
  BY DEF Attempts
<1>2. OwnedRow'
  BY DEF OwnedRow
<1>3. OneOwner'
  BY DEF OneOwner
<1>6i. OwnIds'
  BY DEF OwnIds
<1>4. Loops'
  BY DEF Loops
<1>5. Renewed'
  BY DEF Renewed, Slack
<1> QED BY <1>1, <1>2, <1>3, <1>4, <1>5, <1>6i

\* A row is reclaimed when its lease has passed, which no owner's has.
LEMMA ReclaimRowInv == ASSUME LeaseCovers, Typed, IInv, NEW o \in Operations, ReclaimRow(o) PROVE IInv'
<1> USE TimeAssumption, StoreFaultAssumption, RenewAssumption, ValidityAssumption, SlackGrows, SlackBounded
    DEF NoFault, IInv, Typed, Rows, Locks, Renewers, TryReclaim, Fail, AcquireSteps, Exists, Holding, Owning, Safe
<1> DEFINE reclaims == TryReclaim(read[o].id, read[o].status, now[o], now[o] + Lease, now[o] + TTL)
<1>1. reclaims => \A q \in Operations : ~Safe(q)
  BY DEF ReclaimRow, Reclaimable, OwnedRow, Attempts
<1>2. CASE reclaims /\ Acquired(o, read[o].id, FALSE) /\ NoFault
  <2> USE <1>1, <1>2 DEF ReclaimRow, Acquired, Reclaimable
  <2>1. Attempts'
    BY DEF Attempts
  <2>2. OwnedRow'
    BY DEF OwnedRow, Attempts
  <2>3. OneOwner'
    BY DEF OneOwner
  <2>6i. OwnIds'
    BY DEF OwnIds
  <2>4. Loops'
    BY DEF Loops
  <2>5. Renewed'
    BY DEF Renewed
  <2> QED BY <2>1, <2>2, <2>3, <2>4, <2>5, <2>6i
<1>3. CASE reclaims /\ Fail(o) /\ Inject
  BY <1>1, <1>3 DEF ReclaimRow, Attempts, OwnedRow, OneOwner, OwnIds, Loops, Renewed
<1>4. CASE UNCHANGED <<rec, lastId, clock>> /\ Fail(o) /\ (NoFault \/ Inject)
  BY <1>4 DEF ReclaimRow, Attempts, OwnedRow, OneOwner, OwnIds, Loops, Renewed
<1> QED BY <1>2, <1>3, <1>4, Zenon DEF ReclaimRow

\* The operation ends and stops its loop; it owns the row until it has marked it.
LEMMA FinishOperationInv ==
    ASSUME LeaseCovers, Typed, IInv, NEW o \in Operations, FinishOperation(o) PROVE IInv'
<1> USE TimeAssumption, StoreFaultAssumption, RenewAssumption, ValidityAssumption, SlackGrows, SlackBounded
    DEF NoFault, IInv, Typed, Rows, Locks, Renewers, FinishOperation, NoRenewer, AcquireSteps, storeVars, Exists, Holding, Owning, Safe
<1>1. Attempts'
  BY DEF Attempts
<1>2. OwnedRow'
  BY DEF OwnedRow
<1>3. OneOwner'
  BY DEF OneOwner
<1>6i. OwnIds'
  BY DEF OwnIds
<1>4. Loops'
  BY DEF Loops
<1>5. Renewed'
  BY DEF Renewed, Slack
<1> QED BY <1>1, <1>2, <1>3, <1>4, <1>5, <1>6i

\* An operation that gives its row back cannot touch one that was inserted since.
LEMMA ReleaseInv == ASSUME LeaseCovers, Typed, IInv, NEW o \in Operations, Release(o) PROVE IInv'
<1>1. ~overrun' => ~overrun \/ \A q \in Operations \ {o} : ~Owning(q)
  BY Zenon DEF Release, Leaves
<1> USE TimeAssumption, StoreFaultAssumption, RenewAssumption, ValidityAssumption, SlackGrows, SlackBounded
    DEF NoFault, IInv, Typed, Rows, Locks, Renewers, AcquireSteps, Exists, Holding, Owning, Safe
<1>2. /\ UNCHANGED <<clock, now, read, renewer, lastId>> /\ pc' = [pc EXCEPT ![o] = "idle"]
      /\ lock' = [lock EXCEPT ![o] = NoLock] /\ pc[o] \in {"succeeded", "failed"}
      /\ rec.id = lock[o].id \/ rec' = rec
  BY DEF Release, MarkSucceeded, MarkFailedRetryable
<1>3. ~overrun' => \A q \in Operations \ {o} : ~Owning(q)
  BY <1>1, <1>2 DEF OneOwner
<1>4. ASSUME NEW q \in Operations, Safe(q)'
      PROVE  q # o /\ Safe(q) /\ lock[q].inserted /\ rec' = rec
  <2>1. q # o /\ Owning(q) /\ lock[q].inserted
    BY <1>2, <1>3, <1>4
  <2> QED BY <1>2, <2>1 DEF OwnedRow, OwnIds
<1>5. Attempts'
  BY <1>2 DEF Attempts
<1>6. OwnedRow'
  BY <1>2, <1>4 DEF OwnedRow
<1>7. OneOwner'
  BY <1>2, <1>3 DEF OneOwner
<1>8. OwnIds'
  BY <1>2 DEF OwnIds
<1>9. Loops'
  BY <1>2 DEF Loops
<1>10. Renewed'
  <2> SUFFICES ASSUME NEW q \in Operations, Holding(q)', lock'[q].inserted
               PROVE  /\ rec'.owner = q /\ renewer'[q].step # "off"
                      /\ renewer'[q].step = "wait" =>
                            rec'.locked + MaxLag + Slack' >= renewer'[q].at + Lease
                      /\ renewer'[q].step = "extend" =>
                            rec'.locked + MaxLag + Slack' + RenewInterval >= renewer'[q].at + Lease
    BY DEF Renewed
  <2>1. rec' = rec /\ q # o /\ Holding(q) /\ lock[q].inserted
    BY <1>2, <1>4
  <2>2. Slack' \in Nat /\ Slack \in Nat /\ Slack <= Slack'
    BY DEF Release
  <2> QED BY <1>2, <2>1, <2>2 DEF Renewed
<1> QED BY <1>5, <1>6, <1>7, <1>8, <1>9, <1>10

\* The loop starts the next renewal.
LEMMA TickerFiresInv == ASSUME LeaseCovers, Typed, IInv, NEW o \in Operations, TickerFires(o) PROVE IInv'
<1> USE TimeAssumption, StoreFaultAssumption, RenewAssumption, ValidityAssumption, SlackGrows, SlackBounded
    DEF NoFault, IInv, Typed, Rows, Locks, Renewers, TickerFires, AcquireSteps, storeVars, Exists, Holding, Owning, Safe
<1>1. Attempts'
  BY DEF Attempts
<1>2. OwnedRow'
  BY DEF OwnedRow
<1>3. OneOwner'
  BY DEF OneOwner
<1>6i. OwnIds'
  BY DEF OwnIds
<1>4. Loops'
  BY DEF Loops
<1>5. Renewed'
  BY DEF Renewed, Slack
<1> QED BY <1>1, <1>2, <1>3, <1>4, <1>5, <1>6i

\* A renewal moves the lease on, or is lost and counted.
LEMMA ExtendLockInv == ASSUME LeaseCovers, Typed, IInv, NEW o \in Operations, ExtendLock(o) PROVE IInv'
<1> USE TimeAssumption, StoreFaultAssumption, RenewAssumption, ValidityAssumption, SlackGrows, SlackBounded
    DEF NoFault, IInv, Typed, Rows, Locks, Renewers, ExtendLock, AcquireSteps, Exists, Holding, Owning, Safe
<1>1. CASE Extend(o) /\ LoopOn(o) /\ (NoFault \/ Inject)
  <2> USE <1>1 DEF Extend, ExtendProcessingLock, LoopOn, NoRenewer
  <2>1. Attempts'
    BY DEF Attempts
  <2>2. OwnedRow'
    BY DEF OwnedRow, Loops
  <2>3. OneOwner'
    BY DEF OneOwner
  <2>6i. OwnIds'
    BY DEF OwnIds
  <2>4. Loops'
    BY DEF Loops, OwnedRow
  <2>5. Renewed'
    BY DEF Renewed, Loops, Extendable
  <2> QED BY <2>1, <2>2, <2>3, <2>4, <2>5, <2>6i
<1>2. CASE ~Extendable(renewer[o].id, o) /\ LoopEnds(o) /\ NoFault /\ UNCHANGED <<rec, lastId, clock>>
  <2>1. ~(Holding(o) /\ lock[o].inserted)
    BY <1>2 DEF Extendable, OwnedRow, Renewed, Loops
  <2> USE <1>2, <2>1 DEF LoopEnds, NoRenewer
  <2>2. Loops'
    BY DEF Loops
  <2>3. Renewed'
    BY DEF Renewed
  <2> QED BY <2>2, <2>3 DEF Attempts, OwnedRow, OneOwner, OwnIds
<1>3. CASE LoopOn(o) /\ UNCHANGED <<rec, lastId, clock>> /\ Inject
  <2> USE <1>3 DEF LoopOn, NoRenewer
  <2>1. Loops'
    BY DEF Loops, OwnedRow
  <2>2. Renewed'
    BY DEF Renewed
  <2> QED BY <2>1, <2>2 DEF Attempts, OwnedRow, OneOwner, OwnIds
<1> QED BY <1>1, <1>2, <1>3, Zenon DEF ExtendLock

\* A process that stops owns nothing any more.
LEMMA ProcessStopsInv == ASSUME LeaseCovers, Typed, IInv, NEW o \in Operations, ProcessStops(o) PROVE IInv'
<1>1. ~overrun' => ~overrun \/ \A q \in Operations \ {o} : ~Owning(q)
  BY Zenon DEF ProcessStops, Leaves
<1> USE TimeAssumption, StoreFaultAssumption, RenewAssumption, ValidityAssumption, SlackGrows, SlackBounded
    DEF NoFault, IInv, Typed, Rows, Locks, Renewers, NoRenewer, AcquireSteps, Exists, Holding, Owning, Safe
<1>2. /\ UNCHANGED <<rec, clock, lastId>> /\ pc' = [pc EXCEPT ![o] = "idle"]
      /\ lock' = [lock EXCEPT ![o] = NoLock] /\ renewer' = [renewer EXCEPT ![o] = NoRenewer]
      /\ now' = [now EXCEPT ![o] = 0] /\ read' = [read EXCEPT ![o] = NoRow] /\ Inject
  BY DEF ProcessStops, LoopEnds
<1>3. ASSUME NEW q \in Operations, Safe(q)' PROVE q # o /\ Safe(q)
  BY <1>1, <1>2, <1>3
<1>4. Attempts'
  BY <1>2 DEF Attempts
<1>5. OwnedRow'
  BY <1>2, <1>3 DEF OwnedRow
<1>6. OneOwner'
  BY <1>1, <1>2 DEF OneOwner
<1>7. OwnIds'
  BY <1>2 DEF OwnIds
<1>8. Loops'
  BY <1>2 DEF Loops
<1>9. Renewed'
  BY <1>2 DEF Renewed
<1> QED BY <1>4, <1>5, <1>6, <1>7, <1>8, <1>9

\* The invariant holds throughout, whatever crashes or fails within LeaseCovers.
THEOREM Invariance == ASSUME LeaseCovers PROVE Spec => []IInv
<1>1. Init => IInv
  BY DEF Init, NoRenewer, IInv, Attempts, OwnedRow, OneOwner, OwnIds, Loops, Renewed, Owning,
         Holding, Safe, AcquireSteps
<1>2. Typed /\ IInv /\ [Next]_vars => IInv'
  <2> SUFFICES ASSUME Typed, IInv, [Next]_vars PROVE IInv'
    OBVIOUS
  <2>1. CASE UNCHANGED vars
    BY <2>1 DEF vars, storeVars, opVars, IInv, Attempts, OwnedRow, OneOwner, OwnIds, Loops, Renewed, Owning,
            Holding, Safe, Slack, Exists
  <2>2. CASE Next
    BY <2>2, TickInv, CleanupInv, AcquireInv, InsertRowInv, GetHolderInv, ReclaimRowInv,
       FinishOperationInv, ReleaseInv, TickerFiresInv, ExtendLockInv, ProcessStopsInv DEF Next
  <2> QED BY <2>1, <2>2
<1>3. Typed /\ [Next]_vars => Typed'
  BY StepTyped DEF vars, storeVars, opVars, Typed
<1> QED BY <1>1, <1>2, <1>3, InitTyped, PTL DEF Spec

\* Two system operations that inserted the row never run at the same time (Acquire,
\* renewLoop), and no two at all until one outruns the lease of a row it reclaimed,
\* whoever crashes, as long as the lease outlasts the renewals that fail.
THEOREM OperationsExclude == ASSUME LeaseCovers PROVE Spec => []MutualExclusion
<1>1. IInv => MutualExclusion
  BY DEF IInv, OneOwner, OwnedRow, OwnIds, Safe, Owning, MutualExclusion, Holding
<1> QED BY <1>1, Invariance, PTL

\* The lease of a running operation has not passed and its row is its own: nobody
\* can reclaim it (ExtendProcessingLock, TryReclaim).  For one that inserted the
\* row this holds however long it runs; for one that reclaimed it, until an overrun.
THEOREM LeaseIsKept == ASSUME LeaseCovers PROVE Spec => []LockedWhileHeld
<1>1. IInv => LockedWhileHeld
  BY DEF IInv, OwnedRow, Safe, Owning, LockedWhileHeld, Holding
<1> QED BY <1>1, Invariance, PTL
==============================================================================
