--------------------------- MODULE IdempotencyProofs ---------------------------
(***************************************************************************)
(* Proofs about Idempotency for any number of requests and faults, any     *)
(* payloads, and any lease, validity and backoff the assumptions allow.    *)
(***************************************************************************)
EXTENDS Idempotency, TLAPS

Ids    == Payloads \union {0}
Rows   == [id : Nat, owner : Ids, status : Statuses, locked : Nat, expires : Nat, body : Ids]
Claims == [id : Nat, at : Nat]
Pcs    == {"idle"} \union ClaimSteps \union RunSteps
Effects == [id : Nat, payload : Ids, claimed : Nat, expires : Nat]

\* TypeOK, and the types of what requests read and claimed and of the history
Typed ==
    /\ rec \in Rows /\ lastId \in Nat /\ rec.id <= lastId
    /\ clock \in Nat /\ clock <= MaxTime /\ faults \in 0 .. MaxFaults
    /\ pc \in [Requests -> Pcs]
    /\ payload \in [Requests -> Ids]
    /\ now \in [Requests -> 0 .. MaxTime]
    /\ read \in [Requests -> Rows]
    /\ claim \in [Requests -> Claims]
    /\ answer \in [Requests -> Answers]
    /\ effects \subseteq Effects /\ renewed \subseteq Nat

----------------------------------------------------------------------------
(* The inductive invariant: who runs                                       *)

\* Ids are given in order, so the row that is there is the latest
LatestRow == Exists => rec.id = lastId

\* A request that has not claimed yet works with a clock that is at most MaxLag old
ClaimClocks == \A r \in Requests : pc[r] \in ClaimSteps => now[r] <= clock /\ clock <= now[r] + MaxLag

\* A row that a request read and is about to reclaim was there, had its payload, and
\* no other row gets its id
Reclaimers ==
    \A r \in Requests : pc[r] \in {"reclaimExpired", "reclaim"} =>
        /\ read[r].id # 0 /\ read[r].id <= lastId /\ read[r].owner = payload[r]
        /\ rec.id = read[r].id => rec.owner = read[r].owner

\* A running request holds the row, and the row is valid longer than it runs
RunningHolds ==
    \A r \in Requests : pc[r] \in RunSteps =>
        /\ rec.id = claim[r].id /\ Exists /\ rec.status = "processing" /\ rec.owner = payload[r]
        /\ rec.expires = now[r] + TTL
        /\ clock < rec.expires /\ claim[r].at <= clock

\* A request that saw the row while it was expired cannot take it from the one that
\* reclaimed it since
LateReclaim ==
    \A q, r \in Requests :
        /\ pc[r] \in RunSteps /\ pc[q] = "reclaimExpired"
        /\ read[q].id = rec.id /\ read[q].status = "processing"
        => rec.locked > now[q]

Exclusion == LatestRow /\ ClaimClocks /\ Reclaimers /\ RunningHolds /\ LateReclaim /\ OneExecutor

----------------------------------------------------------------------------
(* The inductive invariant: what has been done                             *)

\* The effect a request records is its own; a succeeded row has one, with its payload
Genuine ==
    /\ \A r \in Requests : pc[r] = "markOk" => \E e \in effects : e.payload = payload[r]
    /\ Exists /\ rec.status = "succeeded" =>
          rec.body = rec.owner /\ \E e \in effects : e.payload = rec.owner

\* Effects are of rows that have been inserted
KnownEffects == \A d \in effects : d.id # 0 /\ d.id <= lastId

\* The row of an effect stays as its request left it, unless it is reclaimed as expired
KeptRow ==
    \A d \in effects : d.id \notin renewed =>
        IF d.id = rec.id THEN rec.status # "failed_retryable" /\ rec.expires = d.expires
                         ELSE d.expires <= clock

\* Whoever runs has not done it before, and came after the validity of earlier effects
FirstRun ==
    \A r \in Requests : pc[r] \in RunSteps => \A d \in effects : d.id \notin renewed =>
        /\ d.id = claim[r].id => pc[r] = "markOk"
        /\ d.id # claim[r].id => d.expires <= claim[r].at

History == Genuine /\ KnownEffects /\ KeptRow /\ FirstRun /\ OnceUnlessRenewed

IInv == Exclusion /\ History

----------------------------------------------------------------------------
(* Type correctness                                                        *)

\* It is the type invariant of the module.
LEMMA TypedIsTypeOK == Typed => TypeOK
<1> SUFFICES ASSUME Typed PROVE TypeOK
  OBVIOUS
<1>1. rec \in [id : 0 .. lastId, owner : Payloads \union {0}, status : Statuses,
               locked : Nat, expires : Nat, body : Payloads \union {0}]
  BY DEF Typed, Rows, Ids
<1>2. clock \in 0 .. MaxTime
  BY TimeAssumption DEF Typed
<1> QED BY <1>1, <1>2, Zenon DEF Typed, TypeOK, Pcs, Ids

\* The values that stand for "none".
LEMMA NoneTyped == NoRow \in Rows /\ NoRow.id = 0 /\ NoClaim \in Claims /\ 0 \in Ids
BY DEF NoRow, Rows, Ids, Statuses, NoClaim, Claims

\* Before the first request there is no row and nobody works.
LEMMA InitTyped == Init => Typed
<1> SUFFICES ASSUME Init PROVE Typed
  OBVIOUS
<1>1. rec \in Rows /\ rec.id <= lastId /\ lastId \in Nat /\ faults \in 0 .. MaxFaults
  BY NoneTyped, StoreFaultAssumption DEF Init, StoreInit
<1>2. "none" \in Answers /\ "idle" \in Pcs
  BY DEF Answers, Pcs
<1> QED BY <1>1, <1>2, NoneTyped, TimeAssumption DEF Init, StoreInit, Typed

\* A fault counter that is counted up stays within its bound.
LEMMA InjectTyped == Typed /\ (Inject \/ NoFault) => faults' \in 0 .. MaxFaults
BY StoreFaultAssumption DEF Typed, Inject, NoFault

\* The variables that a step of a request changes beside the row and the clock
ReqTyped ==
    /\ pc \in [Requests -> Pcs] /\ payload \in [Requests -> Ids]
    /\ now \in [Requests -> 0 .. MaxTime] /\ read \in [Requests -> Rows]
    /\ claim \in [Requests -> Claims] /\ answer \in [Requests -> Answers]
    /\ effects \subseteq Effects

\* Going on, answering and claiming keep them.
LEMMA MoveTyped ==
    ASSUME Typed, NEW r \in Requests, NEW s \in Pcs, NEW a \in Answers, NEW i \in Nat,
           Goto(r, s) \/ Answer(r, a) \/ Claimed(r, i)
    PROVE  ReqTyped'
<1>1. [id |-> i, at |-> clock] \in Claims /\ "execute" \in Pcs /\ "idle" \in Pcs
  BY DEF Typed, Claims, Pcs, RunSteps
<1> QED BY <1>1, NoneTyped DEF Typed, ReqTyped, Goto, Answer, Claimed

\* Each statement leaves a row of the right type, and changes its id only if it inserts.
LEMMA StatementTyped ==
    ASSUME Typed, NEW i \in Nat, NEW w \in Ids, NEW l \in Nat, NEW e \in Nat, NEW f, NEW n
    PROVE  /\ CreateProcessing(w, l, e) =>
                 rec' \in Rows /\ lastId' = lastId + 1 /\ rec'.id = lastId + 1 /\ clock' = clock
           /\ TryReclaim(i, f, n, l, e) \/ MarkSucceeded(i, w, e) \/ MarkFailedRetryable(i, l, e)
              => rec' \in Rows /\ rec'.id = rec.id /\ UNCHANGED <<lastId, clock>>
<1> USE DEF Typed, Rows, Statuses
<1>1. CreateProcessing(w, l, e) =>
         rec' \in Rows /\ lastId' = lastId + 1 /\ rec'.id = lastId + 1 /\ clock' = clock
  BY DEF CreateProcessing, Ids
<1>2. TryReclaim(i, f, n, l, e) => rec' \in Rows /\ rec'.id = rec.id /\ UNCHANGED <<lastId, clock>>
  BY DEF TryReclaim
<1>3. MarkSucceeded(i, w, e) => rec' \in Rows /\ rec'.id = rec.id /\ UNCHANGED <<lastId, clock>>
  <2> DEFINE next == [rec EXCEPT !.status = "succeeded", !.locked = 0, !.expires = e, !.body = w]
  <2>1. next \in Rows /\ next.id = rec.id
    OBVIOUS
  <2> HIDE DEF next
  <2>2. MarkSucceeded(i, w, e) => (rec' = rec \/ rec' = next) /\ UNCHANGED <<lastId, clock>>
    BY Zenon DEF MarkSucceeded, next
  <2> QED BY <2>1, <2>2
<1>4. MarkFailedRetryable(i, l, e) =>
         rec' \in Rows /\ rec'.id = rec.id /\ UNCHANGED <<lastId, clock>>
  BY DEF MarkFailedRetryable
<1> QED BY <1>1, <1>2, <1>3, <1>4

\* A request that goes on with the row it read.
LEMMA ReadTyped ==
    ASSUME Typed, NEW r \in Requests, NEW s \in Pcs,
           pc' = [pc EXCEPT ![r] = s], read' = [read EXCEPT ![r] = rec],
           UNCHANGED <<payload, now, claim, answer, effects>>
    PROVE  ReqTyped'
BY DEF Typed, ReqTyped

\* What Decide does to a request: an answer, or the reclaim of the row it read.
LEMMA DecideTyped == ASSUME Typed, NEW r \in Requests, Decide(r) PROVE ReqTyped'
<1>1. CASE \E a \in Answers : Answer(r, a)
  <2>1. "idle" \in Pcs /\ 0 \in Nat
    BY DEF Pcs
  <2> QED BY <1>1, <2>1, MoveTyped
<1>2. CASE /\ pc' = [pc EXCEPT ![r] = "reclaim"]
           /\ read' = [read EXCEPT ![r] = rec]
           /\ UNCHANGED <<payload, now, claim, answer, effects>>
  BY <1>2 DEF Typed, ReqTyped, Pcs, ClaimSteps
<1>3. rec.status \in {"processing", "succeeded", "failed_retryable"}
  BY DEF Typed, Rows, Statuses
<1> QED BY <1>1, <1>2, <1>3 DEF Decide, Answers

\* What reading the row does to a request.
LEMMA GetTyped == ASSUME Typed, NEW r \in Requests, GetExisting(r) PROVE ReqTyped'
<1>1. ASSUME NEW a \in Answers, Answer(r, a) PROVE ReqTyped'
  <2>1. "idle" \in Pcs /\ 0 \in Nat
    BY DEF Pcs
  <2> QED BY <1>1, <2>1, MoveTyped
<1>2. "unavailable" \in Answers /\ "conflict" \in Answers /\ "reclaimExpired" \in Pcs
  BY DEF Answers, Pcs, ClaimSteps
<1>3. CASE /\ pc' = [pc EXCEPT ![r] = "reclaimExpired"]
           /\ read' = [read EXCEPT ![r] = rec]
           /\ UNCHANGED <<payload, now, claim, answer, effects>>
  BY <1>2, <1>3, ReadTyped
<1> QED BY <1>1, <1>2, <1>3, DecideTyped DEF GetExisting

\* Every step of a request and of the surroundings keeps the types.
LEMMA StepTyped == ASSUME Typed, Next PROVE Typed'
<1> USE InjectTyped, TimeAssumption DEF Typed
<1>0. ASSUME ReqTyped', UNCHANGED <<rec, lastId, clock, renewed>>, Inject \/ NoFault PROVE Typed'
  BY <1>0 DEF ReqTyped
<1>1. CASE Tick
  BY <1>1 DEF Tick, Advance, reqVars
<1>2. CASE Cleanup
  BY <1>2, NoneTyped DEF Cleanup, DeleteExpired, reqVars
<1>3. ASSUME NEW r \in Requests, Begin(r) PROVE Typed'
  BY <1>3 DEF Begin, storeVars, Pcs, ClaimSteps, Ids, Answers
<1>a. {"get", "reclaimExpired", "getLatest", "reclaim"} \subseteq Pcs
      /\ {"none", "fresh", "replay", "conflict", "inProgress", "backoff", "unavailable", "failed"} \subseteq Answers
      /\ 0 \in Nat
  BY DEF Pcs, ClaimSteps, Answers
<1>b. ASSUME NEW r \in Requests
      PROVE  /\ payload[r] \in Ids /\ LockedUntil(r) \in Nat /\ ExpiresAt(r) \in Nat
             /\ read[r].id \in Nat /\ claim[r].id \in Nat /\ clock + Backoff \in Nat
  BY LagAssumption DEF LockedUntil, ExpiresAt, Rows, Claims
<1>4. ASSUME NEW r \in Requests, CreateRow(r) PROVE Typed'
  <2>1. CASE /\ CreateProcessing(payload[r], LockedUntil(r), ExpiresAt(r))
             /\ (Claimed(r, lastId + 1) /\ NoFault) \/ (Answer(r, "unavailable") /\ Inject)
    <3>1. rec' \in Rows /\ lastId' = lastId + 1 /\ rec'.id = lastId + 1 /\ clock' = clock
      BY <1>b, <2>1, StatementTyped
    <3>2. ReqTyped'
      BY <1>a, <2>1, MoveTyped
    <3> QED BY <1>4, <2>1, <3>1, <3>2 DEF ReqTyped, CreateRow
  <2>2. CASE UNCHANGED <<rec, lastId, clock>> /\ Goto(r, "get") /\ NoFault
    <3>1. ReqTyped'
      BY <1>a, <2>2, MoveTyped
    <3>2. UNCHANGED renewed
      BY <1>4 DEF CreateRow
    <3> QED BY <1>0, <2>2, <3>1, <3>2
  <2>3. CASE UNCHANGED <<rec, lastId, clock>> /\ Answer(r, "unavailable") /\ Inject
    <3>1. ReqTyped'
      BY <1>a, <2>3, MoveTyped
    <3>2. UNCHANGED renewed
      BY <1>4 DEF CreateRow
    <3> QED BY <1>0, <2>3, <3>1, <3>2
  <2> QED BY <1>4, <2>1, <2>2, <2>3, Zenon DEF CreateRow
<1>5. ASSUME NEW r \in Requests, GetExisting(r) PROVE Typed'
  BY <1>0, <1>5, GetTyped DEF GetExisting
<1>6. ASSUME NEW r \in Requests, ReclaimExpired(r) PROVE Typed'
  <2>1. ReqTyped'
    BY <1>a, <1>b, <1>6, MoveTyped DEF ReclaimExpired
  <2>2. rec' \in Rows /\ rec'.id = rec.id /\ UNCHANGED <<lastId, clock>>
    BY <1>b, <1>6, StatementTyped DEF ReclaimExpired
  <2>3. renewed' \subseteq Nat
    BY <1>6 DEF ReclaimExpired, Rows
  <2> QED BY <1>6, <2>1, <2>2, <2>3 DEF ReqTyped, ReclaimExpired
<1>7. ASSUME NEW r \in Requests, GetLatest(r) PROVE Typed'
  <2>1. ASSUME NEW a \in Answers, Answer(r, a) PROVE ReqTyped'
    BY <1>a, <2>1, MoveTyped
  <2>2. ReqTyped'
    BY <1>a, <1>7, <2>1, DecideTyped DEF GetLatest
  <2> QED BY <1>0, <1>7, <2>2 DEF GetLatest
<1>8. ASSUME NEW r \in Requests, ReclaimFailed(r) PROVE Typed'
  <2>1. ReqTyped'
    BY <1>a, <1>b, <1>8, MoveTyped DEF ReclaimFailed
  <2>2. rec' \in Rows /\ rec'.id = rec.id /\ UNCHANGED <<lastId, clock>>
    BY <1>b, <1>8, StatementTyped DEF ReclaimFailed
  <2> QED BY <1>8, <2>1, <2>2 DEF ReqTyped, ReclaimFailed
<1>9. ASSUME NEW r \in Requests, RunOperation(r) PROVE Typed'
  <2> DEFINE e == [id |-> claim[r].id, payload |-> payload[r], claimed |-> claim[r].at, expires |-> ExpiresAt(r)]
  <2>1. e \in Effects
    BY <1>b DEF Effects, Claims
  <2> HIDE DEF e
  <2>2. effects' = effects \/ effects' = effects \union {e}
    BY <1>9 DEF RunOperation, e
  <2>3. effects' \subseteq Effects
    BY <2>1, <2>2
  <2> QED BY <1>9, <2>3 DEF RunOperation, storeVars, Pcs, RunSteps
<1>10. ASSUME NEW r \in Requests, RecordSuccess(r) PROVE Typed'
  <2>1. ReqTyped'
    BY <1>a, <1>10, MoveTyped DEF RecordSuccess
  <2>2. rec' \in Rows /\ rec'.id = rec.id /\ UNCHANGED <<lastId, clock>>
    BY <1>b, <1>10, StatementTyped DEF RecordSuccess
  <2> QED BY <1>10, <2>1, <2>2 DEF ReqTyped, RecordSuccess
<1>11. ASSUME NEW r \in Requests, RecordFailure(r) PROVE Typed'
  <2>1. ReqTyped'
    BY <1>a, <1>11, MoveTyped DEF RecordFailure
  <2>2. rec' \in Rows /\ rec'.id = rec.id /\ UNCHANGED <<lastId, clock>>
    BY <1>b, <1>11, StatementTyped DEF RecordFailure
  <2> QED BY <1>11, <2>1, <2>2 DEF ReqTyped, RecordFailure
<1>12. ASSUME NEW r \in Requests, RequestStops(r) PROVE Typed'
  BY <1>0, <1>a, <1>12, MoveTyped DEF RequestStops
<1> QED BY <1>1, <1>2, <1>3, <1>4, <1>5, <1>6, <1>7, <1>8, <1>9, <1>10, <1>11, <1>12 DEF Next

\* The row and the requests keep their types.
THEOREM TypeCorrect == Spec => []TypeOK
<1>1. Typed /\ [Next]_vars => Typed'
  BY StepTyped DEF vars, storeVars, reqVars, Typed
<1> QED BY InitTyped, <1>1, TypedIsTypeOK, PTL DEF Spec

----------------------------------------------------------------------------
(* Preservation                                                            *)

\* A request that answers, or goes on to its next read, leaves everything else alone.
LEMMA QuietInv ==
    ASSUME Typed, IInv, NEW r \in Requests, UNCHANGED <<rec, lastId, clock, renewed>>,
           \/ \E a \in Answers : Answer(r, a)
           \/ pc[r] \in ClaimSteps /\ (Goto(r, "get") \/ Goto(r, "getLatest"))
    PROVE  IInv'
<1> USE TimeAssumption, LagAssumption, RunAssumption
    DEF Typed, Rows, Claims, Effects, Exists, ClaimSteps, RunSteps, LockedUntil, ExpiresAt, Answer, Goto, IInv
<1>1. Exclusion'
  <2>1. LatestRow'
    BY DEF Exclusion, LatestRow
  <2>2. ClaimClocks'
    BY DEF Exclusion, ClaimClocks
  <2>3. Reclaimers'
    BY DEF Exclusion, Reclaimers
  <2>4. RunningHolds'
    BY DEF Exclusion, RunningHolds
  <2>5. LateReclaim'
    BY DEF Exclusion, LateReclaim
  <2>6. OneExecutor'
    BY DEF Exclusion, OneExecutor
  <2> QED BY <2>1, <2>2, <2>3, <2>4, <2>5, <2>6 DEF Exclusion
<1>2. History'
  <2>1. Genuine'
    BY DEF History, Genuine
  <2>2. KnownEffects'
    BY DEF History, KnownEffects
  <2>3. KeptRow'
    BY DEF History, KeptRow
  <2>4. FirstRun'
    BY DEF History, FirstRun
  <2>5. OnceUnlessRenewed'
    BY DEF History, OnceUnlessRenewed
  <2> QED BY <2>1, <2>2, <2>3, <2>4, <2>5 DEF History
<1> QED BY <1>1, <1>2

\* Time passes only as fast as requests claim and run.
LEMMA TickInv == ASSUME Typed, IInv, Tick PROVE IInv'
<1> USE TimeAssumption, LagAssumption, RunAssumption
    DEF Typed, Rows, Claims, Effects, Exists, ClaimSteps, RunSteps, LockedUntil, ExpiresAt, Tick, Advance, reqVars, IInv
<1>1. Exclusion'
  <2>1. LatestRow'
    BY DEF Exclusion, LatestRow
  <2>2. ClaimClocks'
    BY DEF Exclusion, ClaimClocks
  <2>3. Reclaimers'
    BY DEF Exclusion, Reclaimers
  <2>4. RunningHolds'
    BY DEF Exclusion, RunningHolds
  <2>5. LateReclaim'
    BY DEF Exclusion, LateReclaim
  <2>6. OneExecutor'
    BY DEF Exclusion, OneExecutor
  <2> QED BY <2>1, <2>2, <2>3, <2>4, <2>5, <2>6 DEF Exclusion
<1>2. History'
  <2>1. Genuine'
    BY DEF History, Genuine
  <2>2. KnownEffects'
    BY DEF History, KnownEffects
  <2>3. KeptRow'
    BY DEF History, KeptRow
  <2>4. FirstRun'
    BY DEF History, FirstRun
  <2>5. OnceUnlessRenewed'
    BY DEF History, OnceUnlessRenewed
  <2> QED BY <2>1, <2>2, <2>3, <2>4, <2>5 DEF History
<1> QED BY <1>1, <1>2

\* The cleanup finds no row that somebody works on.
LEMMA CleanupInv == ASSUME Typed, IInv, Cleanup PROVE IInv'
<1> USE TimeAssumption, LagAssumption, RunAssumption
    DEF Typed, Rows, Claims, Effects, Exists, ClaimSteps, RunSteps, LockedUntil, ExpiresAt, Cleanup, DeleteExpired, reqVars, NoRow, IInv
<1>0. \A r \in Requests : pc[r] \notin RunSteps
  BY DEF Exclusion, RunningHolds
<1> USE <1>0
<1>1. Exclusion'
  <2>1. LatestRow'
    BY DEF Exclusion, LatestRow
  <2>2. ClaimClocks'
    BY DEF Exclusion, ClaimClocks
  <2>3. Reclaimers'
    BY DEF Exclusion, Reclaimers
  <2>4. RunningHolds'
    BY DEF Exclusion, RunningHolds
  <2>5. LateReclaim'
    BY DEF Exclusion, LateReclaim
  <2>6. OneExecutor'
    BY DEF Exclusion, OneExecutor
  <2> QED BY <2>1, <2>2, <2>3, <2>4, <2>5, <2>6 DEF Exclusion
<1>2. History'
  <2>1. Genuine'
    BY DEF History, Genuine
  <2>2. KnownEffects'
    BY DEF History, KnownEffects
  <2>3. KeptRow'
    BY DEF History, KeptRow, KnownEffects
  <2>4. FirstRun'
    BY DEF History, FirstRun
  <2>5. OnceUnlessRenewed'
    BY DEF History, OnceUnlessRenewed
  <2> QED BY <2>1, <2>2, <2>3, <2>4, <2>5 DEF History
<1> QED BY <1>1, <1>2

\* A new request has done nothing yet.
LEMMA BeginInv == ASSUME Typed, IInv, NEW r \in Requests, Begin(r) PROVE IInv'
<1> USE TimeAssumption, LagAssumption, RunAssumption
    DEF Typed, Rows, Claims, Effects, Exists, ClaimSteps, RunSteps, LockedUntil, ExpiresAt, Begin, storeVars, IInv
<1>1. Exclusion'
  <2>1. LatestRow'
    BY DEF Exclusion, LatestRow
  <2>2. ClaimClocks'
    BY DEF Exclusion, ClaimClocks
  <2>3. Reclaimers'
    BY DEF Exclusion, Reclaimers
  <2>4. RunningHolds'
    BY DEF Exclusion, RunningHolds
  <2>5. LateReclaim'
    BY DEF Exclusion, LateReclaim
  <2>6. OneExecutor'
    BY DEF Exclusion, OneExecutor
  <2> QED BY <2>1, <2>2, <2>3, <2>4, <2>5, <2>6 DEF Exclusion
<1>2. History'
  <2>1. Genuine'
    BY DEF History, Genuine
  <2>2. KnownEffects'
    BY DEF History, KnownEffects
  <2>3. KeptRow'
    BY DEF History, KeptRow
  <2>4. FirstRun'
    BY DEF History, FirstRun
  <2>5. OnceUnlessRenewed'
    BY DEF History, OnceUnlessRenewed
  <2> QED BY <2>1, <2>2, <2>3, <2>4, <2>5 DEF History
<1> QED BY <1>1, <1>2

\* A request is about to reclaim the row it read: expired, or failed.
LEMMA ReadInv ==
    ASSUME Typed, IInv, NEW r \in Requests, pc[r] \in {"get", "getLatest"}, Exists, SamePayload(r),
           \/ rec.expires <= now[r] /\ pc' = [pc EXCEPT ![r] = "reclaimExpired"]
           \/ rec.status = "failed_retryable" /\ pc' = [pc EXCEPT ![r] = "reclaim"],
           read' = [read EXCEPT ![r] = rec],
           UNCHANGED <<rec, lastId, clock, renewed, payload, now, claim, answer, effects>>
    PROVE  IInv'
<1> USE TimeAssumption, LagAssumption, RunAssumption
    DEF Typed, Rows, Claims, Effects, Exists, ClaimSteps, RunSteps, LockedUntil, ExpiresAt, SamePayload, IInv
<1>0. rec.expires <= now[r] => \A q \in Requests : pc[q] \notin RunSteps
  BY DEF Exclusion, RunningHolds, ClaimClocks
<1>1. Exclusion'
  <2>1. LatestRow'
    BY DEF Exclusion, LatestRow
  <2>2. ClaimClocks'
    BY DEF Exclusion, ClaimClocks
  <2>3. Reclaimers'
    BY DEF Exclusion, Reclaimers
  <2>4. RunningHolds'
    BY DEF Exclusion, RunningHolds
  <2>5. LateReclaim'
    BY <1>0 DEF Exclusion, LateReclaim, RunningHolds
  <2>6. OneExecutor'
    BY DEF Exclusion, OneExecutor
  <2> QED BY <2>1, <2>2, <2>3, <2>4, <2>5, <2>6 DEF Exclusion
<1>2. History'
  <2>1. Genuine'
    BY DEF History, Genuine
  <2>2. KnownEffects'
    BY DEF History, KnownEffects
  <2>3. KeptRow'
    BY DEF History, KeptRow
  <2>4. FirstRun'
    BY DEF History, FirstRun
  <2>5. OnceUnlessRenewed'
    BY DEF History, OnceUnlessRenewed
  <2> QED BY <2>1, <2>2, <2>3, <2>4, <2>5 DEF History
<1> QED BY <1>1, <1>2

\* A row is inserted when there is none: nobody runs.
LEMMA InsertInv ==
    ASSUME Typed, IInv, NEW r \in Requests, pc[r] = "create", UNCHANGED renewed,
           CreateProcessing(payload[r], LockedUntil(r), ExpiresAt(r)),
           Claimed(r, lastId + 1) \/ Answer(r, "unavailable")
    PROVE  IInv'
<1> USE TimeAssumption, LagAssumption, RunAssumption
    DEF Typed, Rows, Claims, Effects, Exists, ClaimSteps, RunSteps, LockedUntil, ExpiresAt, CreateProcessing, Claimed, Answer, IInv
<1>0. \A q \in Requests : pc[q] \notin RunSteps
  BY DEF Exclusion, RunningHolds
<1>00. /\ rec'.id = lastId + 1 /\ rec'.owner = payload[r] /\ rec'.status = "processing"
       /\ rec'.locked = now[r] + Lease /\ rec'.expires = now[r] + TTL
       /\ lastId' = lastId + 1 /\ clock' = clock
  OBVIOUS
<1>01. /\ \A q \in Requests : pc'[q] \in RunSteps => q = r /\ pc'[r] = "execute"
       /\ pc'[r] = "execute" => claim'[r].id = lastId + 1 /\ claim'[r].at = clock
  BY <1>0
<1>02. \A d \in effects : d.id # rec.id /\ d.id # lastId + 1 /\ (d.id \notin renewed => d.expires <= clock)
  BY DEF History, KnownEffects, KeptRow
<1>03. now[r] <= clock /\ clock < now[r] + TTL
  BY DEF Exclusion, ClaimClocks
<1> HIDE DEF CreateProcessing
<1> USE <1>0, <1>00, <1>01, <1>02, <1>03
<1>1. Exclusion'
  <2>1. LatestRow'
    BY DEF Exclusion, LatestRow
  <2>2. ClaimClocks'
    BY DEF Exclusion, ClaimClocks
  <2>3. Reclaimers'
    BY DEF Exclusion, Reclaimers
  <2>4. RunningHolds'
    BY DEF Exclusion, RunningHolds, ClaimClocks
  <2>5. LateReclaim'
    BY DEF Exclusion, LateReclaim, ClaimClocks, Reclaimers
  <2>6. OneExecutor'
    BY DEF Exclusion, OneExecutor
  <2> QED BY <2>1, <2>2, <2>3, <2>4, <2>5, <2>6 DEF Exclusion
<1>2. History'
  <2>1. Genuine'
    BY DEF History, Genuine
  <2>2. KnownEffects'
    BY DEF History, KnownEffects
  <2>3. KeptRow'
    BY DEF History, KeptRow, KnownEffects
  <2>4. FirstRun'
    BY DEF History, FirstRun, KnownEffects, KeptRow
  <2>5. OnceUnlessRenewed'
    BY DEF History, OnceUnlessRenewed
  <2> QED BY <2>1, <2>2, <2>3, <2>4, <2>5 DEF History
<1> QED BY <1>1, <1>2

\* A row is reclaimed: nobody runs, because the lease has passed or the row is not
\* in the state a running request keeps it in.
LEMMA NobodyRuns ==
    ASSUME Typed, IInv, NEW r \in Requests,
           \/ pc[r] = "reclaimExpired" /\ Reclaimable(read[r].id, read[r].status, now[r])
           \/ pc[r] = "reclaim" /\ Reclaimable(read[r].id, "failed_retryable", now[r])
    PROVE  \A q \in Requests : pc[q] \notin RunSteps
BY DEF Typed, Rows, IInv, Exclusion, RunningHolds, LateReclaim, Reclaimable, ClaimSteps, RunSteps

\* The reclaim of an expired row is on record; that of a failed row finds no effect of it.
LEMMA ReclaimInv ==
    ASSUME Typed, IInv, NEW r \in Requests,
           \/ /\ pc[r] = "reclaimExpired" /\ renewed' = renewed \union {rec.id}
              /\ TryReclaim(read[r].id, read[r].status, now[r], LockedUntil(r), ExpiresAt(r))
           \/ /\ pc[r] = "reclaim" /\ renewed' = renewed
              /\ TryReclaim(read[r].id, "failed_retryable", now[r], LockedUntil(r), ExpiresAt(r)),
           Claimed(r, read[r].id) \/ Answer(r, "unavailable")
    PROVE  IInv'
<1>0. \A q \in Requests : pc[q] \notin RunSteps
  BY NobodyRuns DEF TryReclaim
<1> USE TimeAssumption, LagAssumption, RunAssumption
    DEF Typed, Rows, Claims, Effects, Exists, ClaimSteps, RunSteps, LockedUntil, ExpiresAt, TryReclaim, Reclaimable, Claimed, Answer, IInv
<1>00. /\ rec'.id = rec.id /\ rec.id = read[r].id /\ rec'.owner = rec.owner /\ rec'.status = "processing"
       /\ rec'.locked = now[r] + Lease /\ rec'.expires = now[r] + TTL
       /\ lastId' = lastId /\ clock' = clock
       /\ renewed' = renewed \union {rec.id} \/ (renewed' = renewed /\ rec.status = "failed_retryable")
  OBVIOUS
<1>01. /\ \A q \in Requests : pc'[q] \in RunSteps => q = r /\ pc'[r] = "execute"
       /\ pc'[r] = "execute" => claim'[r].id = read[r].id /\ claim'[r].at = clock
  BY <1>0
<1>02. now[r] <= clock /\ clock < now[r] + TTL /\ rec.id # 0 /\ rec.owner = payload[r]
  BY <1>00 DEF Exclusion, ClaimClocks, Reclaimers
<1> HIDE DEF TryReclaim, Reclaimable
<1> USE <1>0, <1>00, <1>01, <1>02
<1>1. Exclusion'
  <2>1. LatestRow'
    BY DEF Exclusion, LatestRow
  <2>2. ClaimClocks'
    BY DEF Exclusion, ClaimClocks
  <2>3. Reclaimers'
    BY DEF Exclusion, Reclaimers
  <2>4. RunningHolds'
    BY DEF Exclusion, RunningHolds, ClaimClocks, Reclaimers
  <2>5. LateReclaim'
    BY DEF Exclusion, LateReclaim, ClaimClocks, Reclaimers
  <2>6. OneExecutor'
    BY DEF Exclusion, OneExecutor
  <2> QED BY <2>1, <2>2, <2>3, <2>4, <2>5, <2>6 DEF Exclusion
<1>2. History'
  <2>1. Genuine'
    BY DEF History, Genuine
  <2>2. KnownEffects'
    BY DEF History, KnownEffects
  <2>3. KeptRow'
    BY DEF History, KeptRow
  <2>4. FirstRun'
    BY DEF History, FirstRun, KeptRow
  <2>5. OnceUnlessRenewed'
    BY DEF History, OnceUnlessRenewed
  <2> QED BY <2>1, <2>2, <2>3, <2>4, <2>5 DEF History
<1> QED BY <1>1, <1>2

\* The operation succeeds for the first time, or fails.
LEMMA RunInv == ASSUME Typed, IInv, NEW r \in Requests, RunOperation(r) PROVE IInv'
<1> USE TimeAssumption, LagAssumption, RunAssumption
    DEF Typed, Rows, Claims, Effects, Exists, ClaimSteps, RunSteps, LockedUntil, ExpiresAt, RunOperation, storeVars, IInv
<1>1. Exclusion'
  <2>1. LatestRow'
    BY DEF Exclusion, LatestRow
  <2>2. ClaimClocks'
    BY DEF Exclusion, ClaimClocks
  <2>3. Reclaimers'
    BY DEF Exclusion, Reclaimers
  <2>4. RunningHolds'
    BY DEF Exclusion, RunningHolds
  <2>5. LateReclaim'
    BY DEF Exclusion, LateReclaim
  <2>6. OneExecutor'
    BY DEF Exclusion, OneExecutor
  <2> QED BY <2>1, <2>2, <2>3, <2>4, <2>5, <2>6 DEF Exclusion
<1> DEFINE e == [id |-> claim[r].id, payload |-> payload[r], claimed |-> claim[r].at, expires |-> ExpiresAt(r)]
<1>0. /\ effects \subseteq effects'
      /\ effects' \subseteq effects \union {e}
      /\ pc'[r] = "markOk" => e \in effects'
  OBVIOUS
<1>00. /\ e.id = rec.id /\ e.payload = payload[r] /\ e.claimed = claim[r].at /\ e.expires = rec.expires
       /\ rec.id = lastId /\ rec.id # 0 /\ claim[r].id = rec.id
       /\ \A d \in effects : d.id \notin renewed => d.id # rec.id /\ d.expires <= e.claimed
  BY DEF Exclusion, RunningHolds, LatestRow, History, FirstRun
<1> HIDE DEF e
<1>2. History'
  <2>1. Genuine'
    <3>1. \A q \in Requests : pc'[q] = "markOk" => \E d \in effects' : d.payload = payload'[q]
      BY <1>0, <1>00 DEF History, Genuine
    <3> QED BY <1>0, <3>1 DEF History, Genuine
  <2>2. KnownEffects'
    BY DEF History, KnownEffects, Exclusion, RunningHolds
  <2>3. KeptRow'
    BY DEF History, KeptRow, Exclusion, RunningHolds, FirstRun
  <2>4. FirstRun'
    BY DEF History, FirstRun, Exclusion, OneExecutor, RunningHolds
  <2>5. OnceUnlessRenewed'
    <3>1. \A d \in effects : d.id \notin renewed => ~Overlap(d, e)
      BY <1>00 DEF Overlap
    <3>2. \A d \in effects : d.id <= e.id
      BY <1>00 DEF History, KnownEffects
    <3>3. \A d \in effects : Overlap(e, d) /\ e.id <= d.id => e.id \in renewed
      BY <1>00, <3>1, <3>2 DEF Overlap
    <3>4. ~Overlap(e, e) /\ renewed' = renewed
      BY DEF Overlap
    <3> QED BY <1>0, <3>1, <3>3, <3>4 DEF History, OnceUnlessRenewed
  <2> QED BY <2>1, <2>2, <2>3, <2>4, <2>5 DEF History
<1> QED BY <1>1, <1>2

\* The row of the request that ran is marked; nobody else runs.
LEMMA SuccessInv ==
    ASSUME Typed, IInv, NEW r \in Requests, pc[r] = "markOk", UNCHANGED renewed,
           MarkSucceeded(claim[r].id, payload[r], ExpiresAt(r)), \E a \in Answers : Answer(r, a)
    PROVE  IInv'
<1> USE TimeAssumption, LagAssumption, RunAssumption
    DEF Typed, Rows, Claims, Effects, Exists, ClaimSteps, RunSteps, LockedUntil, ExpiresAt, MarkSucceeded, Answer, IInv
<1>0. \A q \in Requests : pc'[q] \notin RunSteps
  BY DEF Exclusion, OneExecutor
<1>1. Exclusion'
  <2>1. LatestRow'
    BY DEF Exclusion, LatestRow
  <2>2. ClaimClocks'
    BY DEF Exclusion, ClaimClocks
  <2>3. Reclaimers'
    BY DEF Exclusion, Reclaimers
  <2>4. RunningHolds'
    BY <1>0 DEF RunningHolds
  <2>5. LateReclaim'
    BY <1>0 DEF LateReclaim
  <2>6. OneExecutor'
    BY DEF Exclusion, OneExecutor
  <2> QED BY <2>1, <2>2, <2>3, <2>4, <2>5, <2>6 DEF Exclusion
<1>2. History'
  <2>1. Genuine'
    BY DEF History, Genuine, Exclusion, RunningHolds
  <2>2. KnownEffects'
    BY DEF History, KnownEffects
  <2>3. KeptRow'
    BY DEF History, KeptRow, FirstRun, Exclusion, RunningHolds
  <2>4. FirstRun'
    BY DEF History, FirstRun
  <2>5. OnceUnlessRenewed'
    BY DEF History, OnceUnlessRenewed
  <2> QED BY <2>1, <2>2, <2>3, <2>4, <2>5 DEF History
<1> QED BY <1>1, <1>2

\* A failed operation leaves a row without an effect, which may be tried again.
LEMMA FailureInv ==
    ASSUME Typed, IInv, NEW r \in Requests, pc[r] = "markFail", UNCHANGED renewed,
           MarkFailedRetryable(claim[r].id, clock + Backoff, ExpiresAt(r)), \E a \in Answers : Answer(r, a)
    PROVE  IInv'
<1> USE TimeAssumption, LagAssumption, RunAssumption
    DEF Typed, Rows, Claims, Effects, Exists, ClaimSteps, RunSteps, LockedUntil, ExpiresAt, MarkFailedRetryable, Answer, IInv
<1>0. \A q \in Requests : pc'[q] \notin RunSteps
  BY DEF Exclusion, OneExecutor
<1>1. Exclusion'
  <2>1. LatestRow'
    BY DEF Exclusion, LatestRow
  <2>2. ClaimClocks'
    BY DEF Exclusion, ClaimClocks
  <2>3. Reclaimers'
    BY DEF Exclusion, Reclaimers
  <2>4. RunningHolds'
    BY <1>0 DEF RunningHolds
  <2>5. LateReclaim'
    BY <1>0 DEF LateReclaim
  <2>6. OneExecutor'
    BY DEF Exclusion, OneExecutor
  <2> QED BY <2>1, <2>2, <2>3, <2>4, <2>5, <2>6 DEF Exclusion
<1>2. History'
  <2>1. Genuine'
    BY DEF History, Genuine, Exclusion, RunningHolds
  <2>2. KnownEffects'
    BY DEF History, KnownEffects
  <2>3. KeptRow'
    BY DEF History, KeptRow, FirstRun, Exclusion, RunningHolds
  <2>4. FirstRun'
    BY DEF History, FirstRun
  <2>5. OnceUnlessRenewed'
    BY DEF History, OnceUnlessRenewed
  <2> QED BY <2>1, <2>2, <2>3, <2>4, <2>5 DEF History
<1> QED BY <1>1, <1>2

\* What the switch on the status does, as an answer or as the reclaim of a failed row.
LEMMA DecideInv ==
    ASSUME Typed, IInv, NEW r \in Requests, pc[r] \in {"get", "getLatest"}, Exists, SamePayload(r),
           Decide(r), UNCHANGED <<rec, lastId, clock, renewed>>
    PROVE  IInv'
<1>1. CASE \E a \in Answers : Answer(r, a)
  BY <1>1, QuietInv
<1>2. CASE /\ rec.status = "failed_retryable"
           /\ pc' = [pc EXCEPT ![r] = "reclaim"]
           /\ read' = [read EXCEPT ![r] = rec]
           /\ UNCHANGED <<payload, now, claim, answer, effects>>
  BY <1>2, ReadInv
<1>3. rec.status \in {"processing", "succeeded", "failed_retryable"}
  BY DEF Typed, Rows, Statuses
<1> QED BY <1>1, <1>2, <1>3 DEF Decide, Answers

\* Reading the row, after a lost insert and after a lost reclaim.
LEMMA GetInv == ASSUME Typed, IInv, NEW r \in Requests, GetExisting(r) \/ GetLatest(r) PROVE IInv'
<1>1. "unavailable" \in Answers /\ "conflict" \in Answers
  BY DEF Answers
<1>2. UNCHANGED <<rec, lastId, clock, renewed>> /\ pc[r] \in {"get", "getLatest"}
  BY DEF GetExisting, GetLatest
<1>3. CASE Answer(r, "unavailable") \/ Answer(r, "conflict")
  BY <1>1, <1>2, <1>3, QuietInv
<1>4. CASE Exists /\ SamePayload(r) /\ Decide(r)
  BY <1>2, <1>4, DecideInv
<1>5. CASE /\ Exists /\ SamePayload(r) /\ rec.expires <= now[r]
           /\ pc' = [pc EXCEPT ![r] = "reclaimExpired"]
           /\ read' = [read EXCEPT ![r] = rec]
           /\ UNCHANGED <<payload, now, claim, answer, effects>>
  BY <1>2, <1>5, ReadInv
<1> QED BY <1>3, <1>4, <1>5, Zenon DEF GetExisting, GetLatest

\* Every step keeps the invariant.
LEMMA StepInv == ASSUME Typed, IInv, Next PROVE IInv'
<1>a. /\ \A a \in {"none", "fresh", "replay", "conflict", "inProgress", "backoff", "unavailable", "failed"} : a \in Answers
      /\ \A s \in {"create", "reclaimExpired"} : s \in ClaimSteps
  BY DEF Answers, ClaimSteps
<1>1. ASSUME NEW r \in Requests, CreateRow(r) PROVE IInv'
  <2>1. pc[r] = "create" /\ pc[r] \in ClaimSteps /\ UNCHANGED renewed
    BY <1>1, <1>a DEF CreateRow
  <2>2. CASE /\ CreateProcessing(payload[r], LockedUntil(r), ExpiresAt(r))
             /\ Claimed(r, lastId + 1) \/ Answer(r, "unavailable")
    BY <2>1, <2>2, InsertInv
  <2>3. CASE UNCHANGED <<rec, lastId, clock>> /\ (Goto(r, "get") \/ Answer(r, "unavailable"))
    BY <1>a, <2>1, <2>3, QuietInv
  <2> QED BY <1>1, <2>2, <2>3, Zenon DEF CreateRow
<1>2. ASSUME NEW r \in Requests, ReclaimExpired(r) PROVE IInv'
  <2>1. pc[r] = "reclaimExpired" /\ pc[r] \in ClaimSteps
    BY <1>2, <1>a DEF ReclaimExpired
  <2>2. CASE /\ TryReclaim(read[r].id, read[r].status, now[r], LockedUntil(r), ExpiresAt(r))
             /\ renewed' = renewed \union {rec.id}
             /\ Claimed(r, read[r].id) \/ Answer(r, "unavailable")
    BY <2>1, <2>2, ReclaimInv
  <2>3. CASE UNCHANGED <<rec, lastId, clock, renewed>> /\ (Goto(r, "getLatest") \/ Answer(r, "unavailable"))
    BY <1>a, <2>1, <2>3, QuietInv
  <2> QED BY <1>2, <2>2, <2>3, Zenon DEF ReclaimExpired
<1>3. ASSUME NEW r \in Requests, ReclaimFailed(r) PROVE IInv'
  <2>1. pc[r] = "reclaim" /\ UNCHANGED renewed
    BY <1>3 DEF ReclaimFailed
  <2>2. CASE /\ TryReclaim(read[r].id, "failed_retryable", now[r], LockedUntil(r), ExpiresAt(r))
             /\ Claimed(r, read[r].id) \/ Answer(r, "unavailable")
    BY <2>1, <2>2, ReclaimInv
  <2>3. CASE UNCHANGED <<rec, lastId, clock>> /\ (Answer(r, "inProgress") \/ Answer(r, "unavailable"))
    BY <1>a, <2>1, <2>3, QuietInv
  <2> QED BY <1>3, <2>2, <2>3, Zenon DEF ReclaimFailed
<1>4. ASSUME NEW r \in Requests, RecordSuccess(r) PROVE IInv'
  <2>1. pc[r] = "markOk" /\ UNCHANGED renewed /\ \E a \in Answers : Answer(r, a)
    BY <1>4, <1>a DEF RecordSuccess
  <2>2. CASE MarkSucceeded(claim[r].id, payload[r], ExpiresAt(r))
    BY <2>1, <2>2, SuccessInv
  <2>3. CASE UNCHANGED <<rec, lastId, clock>>
    BY <2>1, <2>3, QuietInv
  <2> QED BY <1>4, <2>2, <2>3, Zenon DEF RecordSuccess
<1>5. ASSUME NEW r \in Requests, RecordFailure(r) PROVE IInv'
  <2>1. pc[r] = "markFail" /\ UNCHANGED renewed /\ \E a \in Answers : Answer(r, a)
    BY <1>5, <1>a DEF RecordFailure
  <2>2. CASE MarkFailedRetryable(claim[r].id, clock + Backoff, ExpiresAt(r))
    BY <2>1, <2>2, FailureInv
  <2>3. CASE UNCHANGED <<rec, lastId, clock>>
    BY <2>1, <2>3, QuietInv
  <2> QED BY <1>5, <2>2, <2>3, Zenon DEF RecordFailure
<1>6. ASSUME NEW r \in Requests, RequestStops(r) PROVE IInv'
  BY <1>a, <1>6, QuietInv DEF RequestStops
<1> QED BY <1>1, <1>2, <1>3, <1>4, <1>5, <1>6, TickInv, CleanupInv, BeginInv, GetInv, RunInv DEF Next

\* With no row and no request there is nothing to violate.
LEMMA InitInv == Init => IInv
BY DEF Init, StoreInit, NoRow, IInv, Exclusion, History, LatestRow, ClaimClocks, Reclaimers, RunningHolds,
       LateReclaim, OneExecutor, Genuine, KnownEffects, KeptRow, FirstRun, OnceUnlessRenewed,
       Exists, ClaimSteps, RunSteps

\* The invariant holds throughout, whatever crashes, fails or expires.
THEOREM Invariance == Spec => [](Typed /\ IInv)
<1>1. Init => Typed /\ IInv
  BY InitTyped, InitInv
<1>2. Typed /\ IInv /\ [Next]_vars => Typed' /\ IInv'
  <2> SUFFICES ASSUME Typed, IInv, [Next]_vars PROVE Typed' /\ IInv'
    OBVIOUS
  <2>1. CASE Next
    BY <2>1, StepTyped, StepInv
  <2>2. CASE UNCHANGED vars
    <3> USE <2>2 DEF vars, storeVars, reqVars
    <3>1. Typed'
      BY DEF Typed
    <3>2. Exclusion'
      BY DEF IInv, Exclusion, LatestRow, ClaimClocks, Reclaimers, RunningHolds, LateReclaim, OneExecutor, Exists
    <3>3. History'
      BY DEF IInv, History, Genuine, KnownEffects, KeptRow, FirstRun, OnceUnlessRenewed, Overlap, Exists
    <3> QED BY <3>1, <3>2, <3>3 DEF IInv
  <2> QED BY <2>1, <2>2
<1> QED BY <1>1, <1>2, PTL DEF Spec

\* Two requests with one key never run its operation at the same time: CreateProcessing
\* and TryReclaim let one of them through, for any lease longer than the lag of a claim.
THEOREM OneRunsAtATime == Spec => []OneExecutor
<1>1. IInv => OneExecutor
  BY DEF IInv, Exclusion
<1> QED BY Invariance, <1>1, PTL

\* The operation succeeds once within the validity of the key, unless the row of the
\* earlier success was reclaimed as expired (execute, TryReclaim).
THEOREM SucceedsOnce == Spec => []OnceUnlessRenewed
<1>1. IInv => OnceUnlessRenewed
  BY DEF IInv, History
<1> QED BY Invariance, <1>1, PTL

\* Only a succeeded row with the payload of the request answers with a replay.
LEMMA ReplayStep ==
    ASSUME Typed, IInv, Next, NEW r \in Requests, answer'[r] = "replay", answer[r] # "replay"
    PROVE  Exists /\ SamePayload(r) /\ rec.status = "succeeded"
<1>1. ASSUME NEW q \in Requests, NEW a, Answer(q, a) PROVE q = r /\ a = "replay"
  BY <1>1 DEF Typed, Answer
<1>2. ASSUME NEW q \in Requests, NEW s, Goto(q, s) \/ Claimed(q, s) \/ UNCHANGED answer PROVE FALSE
  BY <1>2 DEF Goto, Claimed
<1>3. ASSUME NEW q \in Requests, Decide(q) PROVE q = r /\ rec.status = "succeeded"
  <2>1. rec.status \in {"processing", "succeeded", "failed_retryable"}
    BY DEF Typed, Rows, Statuses
  <2>2. \A a \in {"unavailable", "inProgress", "backoff"} : ~Answer(q, a)
    BY <1>1
  <2>3. ~(UNCHANGED <<payload, now, claim, answer, effects>>)
    BY <1>2
  <2>4. rec.status = "succeeded" /\ Answer(q, "replay")
    BY <1>3, <2>1, <2>2, <2>3 DEF Decide
  <2> QED BY <1>1, <2>4
<1>4. ASSUME NEW q \in Requests, GetExisting(q) \/ GetLatest(q) PROVE Exists /\ SamePayload(r) /\ rec.status = "succeeded"
  BY <1>1, <1>2, <1>3, <1>4 DEF GetExisting, GetLatest
<1>5. ~Tick /\ ~Cleanup
  BY DEF Tick, Cleanup, reqVars
<1>6. ASSUME NEW q \in Requests PROVE ~Begin(q)
  BY DEF Begin, Typed
<1>7. ASSUME NEW q \in Requests PROVE ~RunOperation(q)
  BY DEF RunOperation
<1>8. ASSUME NEW q \in Requests
      PROVE  ~CreateRow(q) /\ ~ReclaimExpired(q) /\ ~ReclaimFailed(q) /\ ~RecordSuccess(q) /\ ~RecordFailure(q) /\ ~RequestStops(q)
  <2>1. \A a \in {"none", "fresh", "inProgress", "unavailable", "failed"} : ~Answer(q, a)
    BY <1>1
  <2> QED BY <1>2, <2>1 DEF CreateRow, ReclaimExpired, ReclaimFailed, RecordSuccess, RecordFailure, RequestStops
<1> QED BY <1>4, <1>5, <1>6, <1>7, <1>8 DEF Next

\* A replayed answer is the stored answer of an operation that succeeded with the
\* payload of the request.
THEOREM ReplaysAreGenuine == Spec => ReplayIsGenuine
<1>1. Typed /\ IInv /\ [Next]_vars =>
        [\A r \in Requests :
            answer'[r] = "replay" /\ answer[r] # "replay"
            => /\ rec.body = payload[r]
               /\ \E e \in effects : e.payload = payload[r]]_vars
  <2> SUFFICES ASSUME Typed, IInv, Next, NEW r \in Requests, answer'[r] = "replay", answer[r] # "replay"
               PROVE  rec.body = payload[r] /\ \E e \in effects : e.payload = payload[r]
    BY DEF vars, reqVars
  <2>1. Exists /\ SamePayload(r) /\ rec.status = "succeeded"
    BY ReplayStep
  <2> QED BY <2>1 DEF IInv, History, Genuine, SamePayload
<1> QED BY Invariance, <1>1, PTL DEF Spec, ReplayIsGenuine
==============================================================================
