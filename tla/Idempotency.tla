----------------------------- MODULE Idempotency -----------------------------
(***************************************************************************)
(* IdempotencyCoordinator.Execute for one key: concurrent requests, each   *)
(* with a payload, retried at any time.  A request reads the clock once,   *)
(* claims the row, runs the business operation and records the outcome.    *)
(* Requests crash, statements fail with and without having taken effect,   *)
(* and the cleanup job deletes expired rows.                               *)
(***************************************************************************)
EXTENDS IdempotencyStore

CONSTANTS
    Requests,  \* concurrent requests with the same key
    Payloads,  \* request fingerprints
    Backoff,   \* FailedRetryBackoff, in ticks
    MaxLag,    \* longest time from reading the clock to claiming the row
    MaxRun     \* longest time from reading the clock to recording the outcome

\* Statements are faster than the lease, operations than the validity of the row
ASSUME LagAssumption == MaxLag \in Nat /\ MaxLag < Lease /\ Backoff \in Nat
ASSUME RunAssumption == MaxRun \in Nat /\ MaxRun < TTL /\ Lease <= TTL
ASSUME PayloadAssumption == 0 \notin Payloads

VARIABLES
    pc,       \* step of each request
    payload,  \* its fingerprint
    now,      \* the clock as it read it
    read,     \* the row as it read it
    claim,    \* record.ID, and when it was claimed
    answer,   \* its last answer
    effects,  \* the business operations that succeeded
    renewed   \* the rows that were ever reclaimed because they had expired

reqVars == <<pc, payload, now, read, claim, answer, effects, renewed>>
vars    == <<storeVars, reqVars>>

ClaimSteps == {"create", "get", "reclaimExpired", "getLatest", "reclaim"}
RunSteps   == {"execute", "markOk", "markFail"}
Answers    == {"none", "fresh", "replay", "conflict", "inProgress", "backoff",
               "unavailable", "failed"}
NoClaim    == [id |-> 0, at |-> 0]

Goto(r, s)   == pc' = [pc EXCEPT ![r] = s] /\ UNCHANGED <<payload, now, read, claim, answer, effects>>
Answer(r, a) == /\ pc' = [pc EXCEPT ![r] = "idle"]
                /\ answer' = [answer EXCEPT ![r] = a]
                /\ read' = [read EXCEPT ![r] = NoRow]
                /\ claim' = [claim EXCEPT ![r] = NoClaim]
                /\ UNCHANGED <<payload, now, effects>>
Claimed(r, id) ==
    /\ pc' = [pc EXCEPT ![r] = "execute"]
    /\ claim' = [claim EXCEPT ![r] = [id |-> id, at |-> clock]]
    /\ read' = [read EXCEPT ![r] = NoRow]
    /\ UNCHANGED <<payload, now, answer, effects>>

LockedUntil(r) == now[r] + Lease
ExpiresAt(r)   == now[r] + TTL

Begin(r) ==
    /\ pc[r] = "idle"
    /\ pc' = [pc EXCEPT ![r] = "create"]
    /\ \E p \in Payloads : payload' = [payload EXCEPT ![r] = p]
    /\ now' = [now EXCEPT ![r] = clock]
    /\ answer' = [answer EXCEPT ![r] = "none"]
    /\ UNCHANGED <<storeVars, read, claim, effects, renewed>>

CreateRow(r) ==
    /\ pc[r] = "create"
    /\ \/ /\ CreateProcessing(payload[r], LockedUntil(r), ExpiresAt(r))
          /\ \/ Claimed(r, lastId + 1) /\ NoFault
             \/ Answer(r, "unavailable") /\ Inject
       \/ Exists /\ UNCHANGED <<rec, lastId, clock>> /\ Goto(r, "get") /\ NoFault
       \/ UNCHANGED <<rec, lastId, clock>> /\ Answer(r, "unavailable") /\ Inject
    /\ UNCHANGED renewed

\* The switch on existing.Status; a succeeded row answers with its stored body,
\* unless that was truncated and cannot be decoded
Decide(r) ==
    CASE rec.status = "succeeded"  -> Answer(r, "replay") \/ Answer(r, "unavailable")
      [] rec.status = "processing" -> Answer(r, "inProgress")
      [] rec.status = "failed_retryable" ->
            IF rec.locked > now[r]
            THEN Answer(r, "backoff")
            ELSE /\ pc' = [pc EXCEPT ![r] = "reclaim"]
                 /\ read' = [read EXCEPT ![r] = rec]
                 /\ UNCHANGED <<payload, now, claim, answer, effects>>

\* Mutant: the stored fingerprint is not compared with the request's
SamePayload_Any(r) == TRUE
SamePayload(r) == rec.owner = payload[r]

GetExisting(r) ==
    /\ pc[r] = "get"
    /\ \/ /\ NoFault
          /\ \/ ~Exists /\ Answer(r, "unavailable")
             \/ Exists /\ ~SamePayload(r) /\ Answer(r, "conflict")
             \/ /\ Exists /\ SamePayload(r) /\ rec.expires <= now[r]
                /\ pc' = [pc EXCEPT ![r] = "reclaimExpired"]
                /\ read' = [read EXCEPT ![r] = rec]
                /\ UNCHANGED <<payload, now, claim, answer, effects>>
             \/ Exists /\ SamePayload(r) /\ rec.expires > now[r] /\ Decide(r)
       \/ Answer(r, "unavailable") /\ Inject
    /\ UNCHANGED <<rec, lastId, clock, renewed>>

\* The claim of an expired row
ReclaimExpired(r) ==
    /\ pc[r] = "reclaimExpired"
    /\ \/ /\ TryReclaim(read[r].id, read[r].status, now[r], LockedUntil(r), ExpiresAt(r))
          /\ renewed' = renewed \union {rec.id}
          /\ \/ Claimed(r, read[r].id) /\ NoFault
             \/ Answer(r, "unavailable") /\ Inject
       \/ /\ ~Reclaimable(read[r].id, read[r].status, now[r])
          /\ UNCHANGED <<rec, lastId, clock, renewed>> /\ Goto(r, "getLatest") /\ NoFault
       \/ UNCHANGED <<rec, lastId, clock, renewed>> /\ Answer(r, "unavailable") /\ Inject

\* Somebody else took the expired row: its expiry is not looked at again
GetLatest(r) ==
    /\ pc[r] = "getLatest"
    /\ \/ /\ NoFault
          /\ \/ ~Exists /\ Answer(r, "unavailable")
             \/ Exists /\ ~SamePayload(r) /\ Answer(r, "conflict")
             \/ Exists /\ SamePayload(r) /\ Decide(r)
       \/ Answer(r, "unavailable") /\ Inject
    /\ UNCHANGED <<rec, lastId, clock, renewed>>

\* The claim of a failed row after its backoff
ReclaimFailed(r) ==
    /\ pc[r] = "reclaim"
    /\ \/ /\ TryReclaim(read[r].id, "failed_retryable", now[r], LockedUntil(r), ExpiresAt(r))
          /\ \/ Claimed(r, read[r].id) /\ NoFault
             \/ Answer(r, "unavailable") /\ Inject
       \/ /\ ~Reclaimable(read[r].id, "failed_retryable", now[r])
          /\ UNCHANGED <<rec, lastId, clock>> /\ Answer(r, "inProgress") /\ NoFault
       \/ UNCHANGED <<rec, lastId, clock>> /\ Answer(r, "unavailable") /\ Inject
    /\ UNCHANGED renewed

\* The business operation: it succeeds, or fails without effect
RunOperation(r) ==
    /\ pc[r] = "execute"
    /\ \/ /\ pc' = [pc EXCEPT ![r] = "markOk"]
          /\ effects' = effects \union
                {[id |-> claim[r].id, payload |-> payload[r],
                  claimed |-> claim[r].at, expires |-> ExpiresAt(r)]}
       \/ pc' = [pc EXCEPT ![r] = "markFail"] /\ UNCHANGED effects
    /\ UNCHANGED <<storeVars, payload, now, read, claim, answer, renewed>>

\* Mutant: success is reported as a retryable failure
RecordSuccess_AsFailure(r) ==
    /\ pc[r] = "markOk"
    /\ MarkFailedRetryable(claim[r].id, clock + Backoff, ExpiresAt(r))
    /\ Answer(r, "fresh") /\ NoFault
    /\ UNCHANGED renewed

\* marshalStoredResponse and MarkSucceeded; an error hides the success
RecordSuccess(r) ==
    /\ pc[r] = "markOk"
    /\ \/ /\ MarkSucceeded(claim[r].id, payload[r], ExpiresAt(r))
          /\ \/ Answer(r, "fresh") /\ NoFault
             \/ Answer(r, "unavailable") /\ Inject
       \/ UNCHANGED <<rec, lastId, clock>> /\ Answer(r, "unavailable") /\ Inject
    /\ UNCHANGED renewed

\* MarkFailedRetryable, whose own error is only logged
RecordFailure(r) ==
    /\ pc[r] = "markFail"
    /\ \/ MarkFailedRetryable(claim[r].id, clock + Backoff, ExpiresAt(r)) /\ NoFault
       \/ UNCHANGED <<rec, lastId, clock>> /\ Inject
    /\ Answer(r, "failed")
    /\ UNCHANGED renewed

\* The process stops, or the client goes away and the request with it
RequestStops(r) ==
    /\ pc[r] # "idle"
    /\ Inject
    /\ Answer(r, "none")
    /\ UNCHANGED <<rec, lastId, clock, renewed>>

Tick == /\ \A r \in Requests :
              /\ pc[r] \in ClaimSteps => clock < now[r] + MaxLag
              /\ pc[r] \in RunSteps => clock < now[r] + MaxRun
        /\ Advance
        /\ UNCHANGED reqVars

Cleanup == DeleteExpired /\ UNCHANGED reqVars

Init == /\ StoreInit
        /\ pc = [r \in Requests |-> "idle"]
        /\ payload = [r \in Requests |-> 0]
        /\ now = [r \in Requests |-> 0]
        /\ read = [r \in Requests |-> NoRow]
        /\ claim = [r \in Requests |-> NoClaim]
        /\ answer = [r \in Requests |-> "none"]
        /\ effects = {} /\ renewed = {}

Next == \/ Tick \/ Cleanup
        \/ \E r \in Requests :
              \/ Begin(r) \/ CreateRow(r) \/ GetExisting(r) \/ ReclaimExpired(r)
              \/ GetLatest(r) \/ ReclaimFailed(r) \/ RunOperation(r)
              \/ RecordSuccess(r) \/ RecordFailure(r) \/ RequestStops(r)

Spec == Init /\ [][Next]_vars

----------------------------------------------------------------------------
(* Properties                                                              *)

\* The row and the requests hold the values the schema and the code allow.
TypeOK ==
    /\ rec \in [id : 0 .. lastId, owner : Payloads \union {0}, status : Statuses,
                locked : Nat, expires : Nat, body : Payloads \union {0}]
    /\ lastId \in Nat /\ clock \in 0 .. MaxTime /\ faults \in 0 .. MaxFaults
    /\ pc \in [Requests -> {"idle"} \union ClaimSteps \union RunSteps]
    /\ payload \in [Requests -> Payloads \union {0}]
    /\ now \in [Requests -> 0 .. MaxTime]
    /\ answer \in [Requests -> Answers]

\* Two requests never run the operation of one key at the same time, although
\* nothing but the row, read and claimed in separate statements, keeps them
\* apart (CreateProcessing, TryReclaim).
OneExecutor == \A q, r \in Requests : pc[q] \in RunSteps /\ pc[r] \in RunSteps => q = r

Overlap(d, e) == d # e /\ d.claimed < e.expires /\ e.claimed < d.expires

\* Requests with the same key succeed once within the validity of the key, through
\* retries, crashes, lost answers and cleanup, unless the row of the earlier one was
\* reclaimed because it had expired (TryReclaim does not look at expires_at, and a late
\* reclaim can even shorten the validity that a faster one had set).
OnceUnlessRenewed == \A d, e \in effects : Overlap(d, e) /\ d.id <= e.id => d.id \in renewed

\* A replayed answer is the stored answer of an operation that really succeeded
\* with the same payload.
ReplayIsGenuine ==
    [][\A r \in Requests :
          answer'[r] = "replay" /\ answer[r] # "replay"
          => /\ rec.body = payload[r]
             /\ \E e \in effects : e.payload = payload[r]]_vars
=============================================================================
