---------------------------- MODULE BalanceCache ----------------------------
(***************************************************************************)
(* The cached balance of a user around usage billing: a request is         *)
(* admitted on the cached balance, behind a circuit breaker; a miss is     *)
(* filled from the database by one load at a time whose cache write is     *)
(* queued; a charge lowers the cached value by a queued write, or deletes  *)
(* it once the balance is exhausted; a recharge deletes it in a goroutine. *)
(* The queue is served by several workers, in any order.                   *)
(*                                                                         *)
(* One process and one user.  The minimum reserve is zero.                 *)
(***************************************************************************)
EXTENDS UsageBilling

CONSTANTS
    CacheBuffer,       \* capacity of the cache write queue
    FailureThreshold,  \* failures that open the breaker
    HalfOpenRequests,  \* requests a half-open breaker lets through
    MaxRecharges,      \* bound on recharges
    Absent, NoFlight, Failed

ASSUME CacheAssumption ==
    /\ CacheBuffer \in Nat \ {0} /\ MaxRecharges \in Nat
    /\ FailureThreshold \in Nat \ {0} /\ HalfOpenRequests \in Nat \ {0}
    /\ Absent \notin Int

VARIABLES
    cache,      \* the Redis key: a balance, or Absent
    flight,     \* the load in progress: its leader, what it read, and
                \* whether it began before the write queue was stopped
    seen,       \* the balance a request decides on
    writes,     \* cache writes queued or running
    cachePool,  \* life of the write queue
    breaker,    \* billingCircuitBreaker
    deleting,   \* recharges whose invalidation has not run yet
    recharges,  \* recharges so far
    raced       \* history: a fill overlapped a change of the balance, or a
                \* cache write was lost, since the key was last absent at rest

redisVars == <<cache, raced>>
checkVars == <<flight, seen, breaker>>
queueVars == <<writes, cachePool>>
chargeVars == <<deleting, recharges>>
vars == <<billingVars, redisVars, checkVars, queueVars, chargeVars>>

Below(b) == b <= 0

Write(kind, t, amount) == [kind |-> kind, task |-> t, amount |-> amount]
Sets     == {w \in writes : w.kind = "set"}
Deducts  == {w \in writes : w.kind = "deduct"}
Syncing  == {t \in Tasks : stage[t] \in {"applied", "enqueue"}}

\* Changes of the balance that have not reached the cache
Unsynced == Cardinality(Deducts) + Cardinality(Syncing) - deleting
Filling  == flight # NoFlight \/ Sets # {}
Changing == Deducts # {} \/ Syncing # {} \/ deleting > 0

\* Nothing under way could still write the key
AtRest   == ~Filling /\ ~Changing

\* `hit` tells whether this step spoils the cached value
Taint(hit) == raced' = (hit \/ raced) /\ UNCHANGED cache
SetCache(v) == cache' = v /\ raced' = (raced /\ ~(v = Absent /\ AtRest'))

----------------------------------------------------------------------------
(* Admission: CheckBillingEligibility                                      *)

\* Mutant: only the failures are forgotten
OnSuccess_StaysHalfOpen == breaker' = [breaker EXCEPT !.failures = 0]

OnSuccess == breaker' = [state |-> "closed", failures |-> 0, remaining |-> 0, due |-> FALSE]

Opened == [breaker EXCEPT !.state = "open", !.remaining = 0, !.due = FALSE]

OnFailure ==
    breaker' = CASE breaker.state = "open" -> breaker
                 [] breaker.state = "half_open" -> Opened
                 [] breaker.state = "closed" ->
                      LET n == breaker.failures + 1
                      IN  IF n >= FailureThreshold
                          THEN [Opened EXCEPT !.failures = n]
                          ELSE [breaker EXCEPT !.failures = n]

\* The breaker's Allow; a refused request goes away and may come again
Allow(t) ==
    /\ stage[t] = "idle"
    /\ \/ breaker.state = "closed" /\ UNCHANGED breaker
       \/ /\ breaker.state = "open" /\ breaker.due
          /\ breaker' = [breaker EXCEPT !.state = "half_open", !.due = FALSE,
                                        !.remaining = HalfOpenRequests - 1]
       \/ /\ breaker.state = "half_open" /\ breaker.remaining > 0
          /\ breaker' = [breaker EXCEPT !.remaining = @ - 1]
    /\ Goto(t, "check")
    /\ UNCHANGED <<usage, place, result, newBalance, pool, ledger, faults,
                   redisVars, flight, seen, queueVars, chargeVars>>

\* The reset timeout of an open breaker passes
ResetTimeout ==
    /\ breaker.state = "open" /\ ~breaker.due
    /\ breaker' = [breaker EXCEPT !.due = TRUE]
    /\ UNCHANGED <<billingVars, redisVars, flight, seen, queueVars, chargeVars>>

Hit(t) ==
    /\ stage[t] = "check"
    /\ cache # Absent
    /\ seen' = [seen EXCEPT ![t] = cache]
    /\ Goto(t, "decide")
    /\ UNCHANGED <<usage, place, result, newBalance, pool, ledger, faults,
                   redisVars, flight, breaker, queueVars, chargeVars>>

\* A miss, or a Redis error, reads the database; singleflight shares the load
Miss(t) ==
    /\ stage[t] = "check"
    /\ \/ cache = Absent /\ UNCHANGED faults
       \/ cache # Absent /\ Inject
    /\ Goto(t, "load")
    /\ IF flight # NoFlight
       THEN UNCHANGED <<flight, redisVars>>
       ELSE /\ flight' = [leader |-> t, read |-> balance, open |-> cachePool = "open"]
            /\ Taint(Changing)
    /\ UNCHANGED <<usage, place, result, newBalance, pool, ledger,
                   seen, breaker, queueVars, chargeVars>>

HandOut(v) ==
    /\ flight' = NoFlight
    /\ seen' = [t \in Tasks |-> IF stage[t] = "load" THEN v ELSE seen[t]]
    /\ stage' = [t \in Tasks |-> IF stage[t] = "load" THEN "decide" ELSE stage[t]]

\* The load ends; its cache write is queued, or given up
Load ==
    /\ flight # NoFlight
    /\ HandOut(flight.read)
    /\ writes' = IF cachePool = "open" /\ Cardinality(writes) < CacheBuffer
                 THEN writes \union {Write("set", flight.leader, flight.read)}
                 ELSE writes
    /\ UNCHANGED <<usage, place, result, newBalance, pool, ledger, faults,
                   redisVars, breaker, cachePool, chargeVars>>

\* The queue was closed after the load had read the stopped flag: the send
\* panics in the leader, singleflight repeats the panic in those who wait,
\* and nobody tells the breaker
LoadPanics ==
    /\ flight # NoFlight /\ flight.open /\ cachePool = "closing"
    /\ flight' = NoFlight
    /\ stage' = [t \in Tasks |-> IF stage[t] = "load" THEN "idle" ELSE stage[t]]
    /\ UNCHANGED <<usage, place, result, newBalance, pool, ledger, faults,
                   redisVars, seen, breaker, queueVars, chargeVars>>

\* The database may be unavailable again and again
LoadFails ==
    /\ flight # NoFlight
    /\ HandOut(Failed)
    /\ UNCHANGED <<usage, place, result, newBalance, pool, ledger, faults,
                   redisVars, breaker, queueVars, chargeVars>>

\* checkBalanceEligibility tells the breaker and admits or refuses the request
Decide(t) ==
    /\ stage[t] = "decide"
    /\ \/ seen[t] = Failed /\ OnFailure /\ Goto(t, "idle")
       \/ seen[t] # Failed /\ Below(seen[t]) /\ OnSuccess /\ Goto(t, "idle")
       \/ seen[t] # Failed /\ ~Below(seen[t]) /\ OnSuccess /\ Goto(t, "run")
    /\ seen' = [seen EXCEPT ![t] = Absent]
    /\ UNCHANGED <<usage, place, result, newBalance, pool, ledger, faults,
                   redisVars, flight, queueVars, chargeVars>>

----------------------------------------------------------------------------
(* After a charge: syncBalanceCacheAfterDeduction                          *)

\* deductBalanceScript leaves an absent key alone
Deducted(amount) == IF cache = Absent THEN Absent ELSE cache - amount

\* Exhausted: the key is deleted at once
SyncInvalidate(t) ==
    /\ stage[t] = "applied" /\ Below(newBalance[t])
    /\ End(t, "billed")
    /\ UNCHANGED <<usage, pool, ledger, checkVars, queueVars, chargeVars>>
    /\ \/ SetCache(Absent) /\ UNCHANGED faults
       \/ Inject /\ Taint(TRUE)

\* enqueueCacheWrite looks at the stopped flag, and only then at the queue
SyncBegin(t) ==
    /\ stage[t] = "applied" /\ ~Below(newBalance[t]) /\ cachePool = "open"
    /\ Goto(t, "enqueue")
    /\ UNCHANGED <<usage, place, result, newBalance, pool, ledger, faults,
                   redisVars, checkVars, queueVars, chargeVars>>

SyncQueue(t) ==
    /\ stage[t] = "enqueue" /\ cachePool = "open" /\ Cardinality(writes) < CacheBuffer
    /\ End(t, "billed")
    /\ writes' = writes \union {Write("deduct", t, 1)}
    /\ UNCHANGED <<usage, pool, ledger, faults,
                   redisVars, checkVars, cachePool, chargeVars>>

\* The queue is full or closed: the caller writes itself
SyncDirect(t) ==
    /\ \/ /\ stage[t] = "enqueue"
          /\ \/ cachePool = "open" /\ Cardinality(writes) = CacheBuffer
             \/ cachePool = "closed"
       \/ stage[t] = "applied" /\ ~Below(newBalance[t]) /\ cachePool # "open"
    /\ End(t, "billed")
    /\ UNCHANGED <<usage, pool, ledger, checkVars, queueVars, chargeVars>>
    /\ \/ SetCache(Deducted(1)) /\ UNCHANGED faults
       \/ Inject /\ Taint(TRUE)

\* The channel was closed after the flag was read: the send panics, and the
\* task is recovered without its cache write
SyncPanics(t) ==
    /\ stage[t] = "enqueue" /\ cachePool = "closing"
    /\ End(t, "billed")
    /\ Taint(TRUE)
    /\ UNCHANGED <<usage, pool, ledger, faults, checkVars, queueVars, chargeVars>>

\* cacheWriteWorker
WriteCache(w) ==
    /\ writes' = writes \ {w}
    /\ UNCHANGED <<usage, task, pool, ledger, checkVars, cachePool, chargeVars>>
    /\ \/ SetCache(IF w.kind = "set" THEN w.amount ELSE Deducted(w.amount)) /\ UNCHANGED faults
       \/ Inject /\ Taint(w.kind = "deduct")

\* BillingCacheService.Stop, run beside the Stop of the worker pool
StopCache ==
    /\ stopped
    /\ \/ cachePool = "open" /\ cachePool' = "closing"
       \/ cachePool = "closing" /\ writes = {} /\ cachePool' = "closed"
    /\ UNCHANGED <<billingVars, redisVars, checkVars, writes, chargeVars>>

----------------------------------------------------------------------------
(* The rest of the system                                                  *)

\* Mutant: a key without TTL
Expire_Never == FALSE /\ UNCHANGED vars

\* The TTL of the key runs out
Expire ==
    /\ cache # Absent
    /\ UNCHANGED <<billingVars, checkVars, queueVars, chargeVars>>
    /\ SetCache(Absent)

\* A redeemed code or a payment: the balance first, the cache in a goroutine
Recharge ==
    /\ recharges < MaxRecharges
    /\ recharges' = recharges + 1
    /\ balance' = balance + 1
    /\ deleting' = deleting + 1
    /\ Taint(Filling)
    /\ UNCHANGED <<usage, task, pool, dedup, archive, holder, charges, faults, checkVars, queueVars>>

\* Mutant: the recharge does not invalidate
Invalidate_Skipped ==
    /\ deleting > 0
    /\ deleting' = deleting - 1
    /\ UNCHANGED <<billingVars, redisVars, checkVars, queueVars, recharges>>

Invalidate ==
    /\ deleting > 0
    /\ deleting' = deleting - 1
    /\ UNCHANGED <<usage, task, pool, ledger, checkVars, queueVars, recharges>>
    /\ \/ SetCache(Absent) /\ UNCHANGED faults
       \/ Inject /\ Taint(TRUE)

Charge(t) ==
    /\ \/ Apply(t) /\ Taint(Filling)
       \/ LoseAnswer(t) /\ Taint(Filling \/ cache # Absent)
    /\ UNCHANGED <<checkVars, queueVars, chargeVars>>

CrashAll ==
    /\ Crash
    /\ flight' = NoFlight
    /\ seen' = [t \in Tasks |-> Absent]
    /\ writes' = {}
    /\ cachePool' = "open"
    /\ breaker' = [state |-> "closed", failures |-> 0, remaining |-> 0, due |-> FALSE]
    /\ deleting' = 0
    /\ Taint(Changing)
    /\ UNCHANGED recharges

Billing(t) ==
    /\ Submit(t) \/ Claim(t) \/ Compare(t) \/ CheckArchive(t) \/ Fail(t)
    /\ UNCHANGED <<redisVars, checkVars, queueVars, chargeVars>>

PoolStep ==
    /\ Start \/ Stop \/ \E k \in Keys : Cleanup(k)
    /\ UNCHANGED <<redisVars, checkVars, queueVars, chargeVars>>

Init ==
    /\ BillingInit
    /\ cache = Absent /\ raced = FALSE
    /\ flight = NoFlight
    /\ seen = [t \in Tasks |-> Absent]
    /\ writes = {} /\ cachePool = "open"
    /\ breaker = [state |-> "closed", failures |-> 0, remaining |-> 0, due |-> FALSE]
    /\ deleting = 0 /\ recharges = 0

Answer(t) == Hit(t) \/ Miss(t) \/ Decide(t)
Sync(t) == SyncInvalidate(t) \/ SyncBegin(t) \/ SyncQueue(t) \/ SyncDirect(t) \/ SyncPanics(t)

Next ==
    \/ \E t \in Tasks : Allow(t) \/ Answer(t) \/ Billing(t) \/ Charge(t) \/ Sync(t)
    \/ Load \/ LoadFails \/ LoadPanics \/ ResetTimeout
    \/ \E w \in writes : WriteCache(w)
    \/ StopCache \/ PoolStep
    \/ Expire \/ Recharge \/ Invalidate \/ CrashAll

Spec == Init /\ [][Next]_vars

(* Goroutines run and transactions end, timers fire; nobody has to send a  *)
(* request, stop the server or recharge.                                   *)
Fairness ==
    /\ \A t \in Tasks : WF_vars(Answer(t) \/ Billing(t) \/ Charge(t) \/ Sync(t))
    /\ WF_vars(PoolStep /\ Start /\ Cardinality(Running) < MinWorkers)
    /\ WF_vars(Load) /\ WF_vars(\E w \in writes : WriteCache(w))
    /\ WF_vars(Expire) /\ WF_vars(Invalidate)

FairSpec == Spec /\ Fairness

----------------------------------------------------------------------------
(* Properties                                                              *)

\* Types; both queues of the process stay within their capacities
TypeOK ==
    /\ BillingTypeOK
    /\ cache \in Int \union {Absent}
    /\ flight \in [leader : Tasks, read : Int, open : BOOLEAN] \union {NoFlight}
    /\ seen \in [Tasks -> Int \union {Absent, Failed}]
    /\ writes \subseteq [kind : {"set", "deduct"}, task : Tasks, amount : Int]
    /\ Cardinality(writes) <= CacheBuffer
    /\ cachePool \in {"open", "closing", "closed"}
    /\ breaker \in [state : {"closed", "open", "half_open"}, failures : 0..FailureThreshold,
                    remaining : 0..HalfOpenRequests, due : BOOLEAN]
    /\ deleting \in 0..MaxRecharges /\ recharges \in 0..MaxRecharges
    /\ raced \in BOOLEAN

\* The cached balance is the balance but for the changes on their way to it,
\* unless a fill overlapped a change, a write was lost or a transaction's
\* answer was, since nothing was cached and nothing under way
CacheIsExact ==
    (cache # Absent /\ ~raced) => cache = balance + Unsynced

\* A half-open breaker has a request under way whose outcome will close or
\* open it: it never refuses everything for good.  Once the write queue is
\* stopped, a load may panic on it and its breaker never hear of that
HalfOpenIsProbed ==
    breaker.state = "half_open" /\ cachePool = "open" => \E t \in Tasks : stage[t] \in {"check", "load", "decide"}

\* A user whose balance is used up for good is refused in the end, whatever
\* stale value a race had left in the cache
ExhaustedIsRefused ==
    <>[](Below(balance)) => <>[](cache = Absent \/ Below(cache))
============================================================================
