--------------------------- MODULE BalanceCacheProofs ---------------------------
(***************************************************************************)
(* Proofs about BalanceCache, and with it UsageBilling, for any number of  *)
(* tasks, keys, workers, faults and recharges and any size of the queues.  *)
(***************************************************************************)
EXTENDS BalanceCache, FiniteSetTheorems, TLAPS

Writes   == [kind : {"set", "deduct"}, task : Tasks, amount : Int]
Flights  == [leader : Tasks, read : Int, open : BOOLEAN] \union {NoFlight}
Circuits == {"closed", "open", "half_open"}
Failures == 0..FailureThreshold
Probes   == 0..HalfOpenRequests
Breakers == [state : Circuits, failures : Failures, remaining : Probes, due : BOOLEAN]
States   == [Tasks -> Stages]
Rows     == [Keys -> Prints \union {NoPrint}]

\* TypeOK, and what its bounds rest on
Typed ==
    /\ usage \in Usages /\ stage \in States
    /\ place \in [Tasks -> {"worker", "caller"}] /\ result \in [Tasks -> Results]
    /\ newBalance \in [Tasks -> Int]
    /\ queue \in Seq(Tasks) /\ Len(queue) <= QueueSize /\ stopped \in BOOLEAN
    /\ dedup \in Rows /\ archive \in Rows
    /\ holder \in [Keys -> Tasks \union {NoTask}] /\ charges \subseteq Tasks
    /\ balance \in Int /\ faults \in 0..MaxFaults
    /\ cache \in Int \union {Absent} /\ raced \in BOOLEAN
    /\ flight \in Flights /\ seen \in [Tasks -> Int \union {Absent, Failed}]
    /\ writes \subseteq Writes /\ IsFiniteSet(writes) /\ Cardinality(writes) <= CacheBuffer
    /\ cachePool \in {"open", "closing", "closed"}
    /\ breaker \in Breakers /\ (breaker.state = "closed" => breaker.failures < FailureThreshold)
    /\ deleting \in Nat /\ deleting <= recharges /\ recharges \in 0..MaxRecharges

\* It is the type invariant of the module.
LEMMA TypedIsTypeOK == Typed => TypeOK
BY CacheAssumption, PoolAssumption, AmountAssumption
   DEF Typed, TypeOK, BillingTypeOK, Writes, Flights, Breakers, Circuits, Failures, Probes, States, Rows

\* The types of single values.
LEMMA Typing ==
    ASSUME Typed
    PROVE  /\ \A t \in Tasks : KeyOf(t) \in Keys /\ PrintOf(t) \in Prints /\ PrintOf(t) # NoPrint
           /\ \A t \in Tasks : stage[t] \in Stages
           /\ \A k \in Keys : holder[k] \in Tasks \union {NoTask}
           /\ flight # NoFlight => flight.leader \in Tasks /\ flight.read \in Int
BY UsageAssumption DEF Typed, KeyOf, PrintOf, Flights, States

\* Before the first request nothing is cached and nobody works.
LEMMA InitTyped == Init => Typed
<1> SUFFICES ASSUME Init PROVE Typed
  OBVIOUS
<1>1. breaker \in Breakers /\ breaker.failures = 0
  BY CacheAssumption DEF Init, Breakers, Circuits, Failures, Probes
<1>2. IsFiniteSet({}) /\ Cardinality({}) = 0
  BY FS_EmptySet
<1>3. "idle" \in Stages
  BY DEF Stages
<1>4. dedup \in Rows /\ archive \in Rows /\ stage \in States
  BY <1>3 DEF Init, BillingInit, Rows, States
<1>5. queue \in Seq(Tasks) /\ Len(queue) <= QueueSize
  BY PoolAssumption DEF Init, BillingInit
<1>a. place \in [Tasks -> {"worker", "caller"}] /\ result \in [Tasks -> Results] /\ newBalance \in [Tasks -> Int]
      /\ holder \in [Keys -> Tasks \union {NoTask}]
  BY DEF Init, BillingInit, Results
<1>c. stopped \in BOOLEAN
  BY Zenon DEF Init, BillingInit
<1>b. usage \in Usages /\ charges \subseteq Tasks /\ balance \in Int /\ faults \in 0..MaxFaults
  BY AmountAssumption DEF Init, BillingInit
<1>6. cache \in Int \union {Absent} /\ raced \in BOOLEAN
    /\ flight \in Flights /\ seen \in [Tasks -> Int \union {Absent, Failed}]
  BY DEF Init, Flights
<1>7. writes \subseteq Writes /\ IsFiniteSet(writes) /\ Cardinality(writes) <= CacheBuffer
      /\ deleting \in Nat /\ deleting <= recharges /\ recharges \in 0..MaxRecharges
  BY <1>2, CacheAssumption DEF Init
<1> QED BY <1>1, <1>4, <1>5, <1>a, <1>b, <1>c, <1>6, <1>7, CacheAssumption DEF Typed, Init

\* A fault counter that is counted up stays within its bound.
LEMMA InjectTyped == Typed /\ (Inject \/ UNCHANGED faults) => faults' \in 0..MaxFaults
BY AmountAssumption DEF Typed, Inject

\* What one task changes of itself
TaskTyped ==
    /\ stage \in States /\ place \in [Tasks -> {"worker", "caller"}]
    /\ result \in [Tasks -> Results] /\ newBalance \in [Tasks -> Int]

\* What the pool, the transactions and the cache keep
RestTyped ==
    /\ usage \in Usages
    /\ queue \in Seq(Tasks) /\ Len(queue) <= QueueSize /\ stopped \in BOOLEAN
    /\ dedup \in Rows /\ archive \in Rows
    /\ holder \in [Keys -> Tasks \union {NoTask}] /\ charges \subseteq Tasks
    /\ balance \in Int
CacheTyped ==
    /\ cache \in Int \union {Absent} /\ raced \in BOOLEAN
    /\ flight \in Flights /\ seen \in [Tasks -> Int \union {Absent, Failed}]
    /\ writes \subseteq Writes /\ IsFiniteSet(writes) /\ Cardinality(writes) <= CacheBuffer
    /\ cachePool \in {"open", "closing", "closed"}
    /\ breaker \in Breakers /\ (breaker.state = "closed" => breaker.failures < FailureThreshold)
    /\ deleting \in Nat /\ deleting <= recharges /\ recharges \in 0..MaxRecharges

\* Moving on and ending keep the task's own variables.
LEMMA MoveTyped ==
    ASSUME Typed, NEW t \in Tasks
    PROVE  /\ \A s \in Stages : Goto(t, s) => stage' \in States
           /\ \A r \in Results : End(t, r) => TaskTyped'
<1>1. ASSUME NEW s \in Stages, Goto(t, s) PROVE stage' \in States
  BY <1>1 DEF Typed, Goto, States
<1>2. "done" \in Stages
  BY DEF Stages
<1>3. ASSUME NEW r \in Results, End(t, r) PROVE TaskTyped'
  BY <1>2, <1>3 DEF Typed, TaskTyped, Goto, End, States
<1> QED BY <1>1, <1>3

\* Nothing else is touched.
LEMMA SameTyped ==
    /\ Typed /\ UNCHANGED <<place, result, newBalance>> /\ stage' \in States => TaskTyped'
    /\ Typed /\ UNCHANGED <<stage, place, result, newBalance>> => TaskTyped'
    /\ Typed /\ UNCHANGED <<usage, pool, ledger>> => RestTyped'
    /\ Typed /\ UNCHANGED <<redisVars, checkVars, queueVars, chargeVars>> => CacheTyped'
    /\ TaskTyped' /\ RestTyped' /\ CacheTyped' /\ faults' \in 0..MaxFaults => Typed'
<1>1. Typed /\ UNCHANGED <<place, result, newBalance>> /\ stage' \in States => TaskTyped'
  BY DEF Typed, TaskTyped
<1>2. Typed /\ UNCHANGED <<stage, place, result, newBalance>> => TaskTyped'
  BY DEF Typed, TaskTyped
<1>3. Typed /\ UNCHANGED <<usage, pool, ledger>> => RestTyped'
  BY DEF Typed, RestTyped, pool, ledger
<1>4. Typed /\ UNCHANGED <<redisVars, checkVars, queueVars, chargeVars>> => CacheTyped'
  BY DEF Typed, CacheTyped, redisVars, checkVars, queueVars, chargeVars
<1>5. TaskTyped' /\ RestTyped' /\ CacheTyped' /\ faults' \in 0..MaxFaults => Typed'
  BY Zenon DEF Typed, TaskTyped, RestTyped, CacheTyped
<1> QED BY <1>1, <1>2, <1>3, <1>4, <1>5

\* A flag that says whether a value was spoiled is a Boolean.
LEMMA TaintTyped ==
    /\ \A hit \in BOOLEAN : Typed /\ Taint(hit) => raced' \in BOOLEAN /\ cache' \in Int \union {Absent}
    /\ \A v \in Int \union {Absent} : SetCache(v) => raced' \in BOOLEAN /\ cache' \in Int \union {Absent}
    /\ Filling \in BOOLEAN /\ Changing \in BOOLEAN
    /\ Typed => \A n \in Int : Deducted(n) \in Int \union {Absent}
<1>1. Typed => \A n \in Int : Deducted(n) \in Int \union {Absent}
  BY DEF Typed, Deducted
<1>2. Filling \in BOOLEAN /\ Changing \in BOOLEAN
  BY Zenon DEF Filling, Changing
<1>3. \A v \in Int \union {Absent} : SetCache(v) => raced' \in BOOLEAN /\ cache' \in Int \union {Absent}
  BY Zenon DEF SetCache
<1>4. \A hit \in BOOLEAN : Typed /\ Taint(hit) => raced' \in BOOLEAN /\ cache' \in Int \union {Absent}
  BY Zenon DEF Taint, Typed
<1> QED BY <1>1, <1>2, <1>3, <1>4

\* The updates of the breaker's record.
LEMMA BreakerUpdate ==
    ASSUME NEW b \in Breakers
    PROVE  /\ b.state \in Circuits /\ b.failures \in Failures /\ b.remaining \in Probes
           /\ \A f \in Failures :
                 /\ [b EXCEPT !.failures = f] \in Breakers
                 /\ [b EXCEPT !.failures = f].state = b.state
                 /\ [b EXCEPT !.failures = f].failures = f
           /\ \A n \in Probes :
                 /\ [b EXCEPT !.remaining = n] \in Breakers
                 /\ [b EXCEPT !.remaining = n].state = b.state
BY DEF Breakers

\* The switches of its state.
LEMMA BreakerSwitch ==
    ASSUME NEW b \in Breakers, NEW s \in Circuits, NEW n \in Probes, NEW d \in BOOLEAN
    PROVE  /\ [b EXCEPT !.state = s, !.remaining = n, !.due = d] \in Breakers
           /\ [b EXCEPT !.state = s, !.remaining = n, !.due = d].state = s
           /\ [b EXCEPT !.state = s, !.due = d, !.remaining = n] \in Breakers
           /\ [b EXCEPT !.state = s, !.due = d, !.remaining = n].state = s
           /\ [b EXCEPT !.due = d] \in Breakers
           /\ [b EXCEPT !.due = d].state = b.state
BY DEF Breakers

\* The breaker after each outcome; a closed one is below its threshold.
LEMMA BreakerTyped ==
    ASSUME Typed, OnSuccess \/ OnFailure
    PROVE  breaker' \in Breakers /\ (breaker'.state = "closed" => breaker'.failures < FailureThreshold)
           /\ breaker'.state # "half_open"
<1>0. /\ breaker \in Breakers /\ (breaker.state = "closed" => breaker.failures < FailureThreshold)
      /\ FALSE \in BOOLEAN /\ "open" \in Circuits /\ 0 \in Probes
  BY CacheAssumption DEF Typed, Circuits, Probes
<1>1. CASE OnSuccess
  BY <1>1, CacheAssumption DEF OnSuccess, Breakers, Circuits, Failures, Probes
<1>2. CASE OnFailure
  <2>1. breaker.state \in {"closed", "open", "half_open"} /\ breaker.failures \in 0..FailureThreshold
    BY <1>0, BreakerUpdate DEF Circuits, Failures
  <2>3. Opened \in Breakers /\ Opened.state = "open"
    <3>1. breaker \in Breakers /\ FALSE \in BOOLEAN /\ "open" \in Circuits /\ 0 \in Probes
      BY <1>0
    <3>2. [breaker EXCEPT !.state = "open", !.remaining = 0, !.due = FALSE] \in Breakers
      BY <3>1, BreakerSwitch, Zenon
    <3>3. [breaker EXCEPT !.state = "open", !.remaining = 0, !.due = FALSE].state = "open"
      BY <3>1 DEF Breakers
    <3> QED BY <3>2, <3>3 DEF Opened
  <2>5. CASE breaker.state = "open"
    BY <1>0, <1>2, <2>5 DEF OnFailure
  <2>6. CASE breaker.state = "half_open"
    BY <1>2, <2>3, <2>6 DEF OnFailure
  <2>7. CASE breaker.state = "closed"
    <3> DEFINE n == breaker.failures + 1
    <3>1. breaker' = IF n >= FailureThreshold THEN [Opened EXCEPT !.failures = n] ELSE [breaker EXCEPT !.failures = n]
      BY <1>2, <2>7 DEF OnFailure
    <3>2. n \in Failures /\ n \in Int
      BY <1>0, <2>1, <2>7, CacheAssumption DEF Failures
    <3> HIDE DEF n
    <3>3. /\ [Opened EXCEPT !.failures = n] \in Breakers /\ [Opened EXCEPT !.failures = n].state = "open"
          /\ [breaker EXCEPT !.failures = n] \in Breakers /\ [breaker EXCEPT !.failures = n].failures = n
      BY <1>0, <2>3, <3>2, BreakerUpdate
    <3>4. [breaker EXCEPT !.failures = n].state = "closed"
      BY <1>0, <2>7, <3>2, BreakerUpdate
    <3> QED BY <3>1, <3>2, <3>3, <3>4, CacheAssumption
  <2> QED BY <2>1, <2>5, <2>6, <2>7
<1> QED BY <1>1, <1>2

\* Adding a write that there is room for, and taking one out.
LEMMA WritesTyped ==
    ASSUME Typed, NEW w \in Writes
    PROVE  /\ Cardinality(writes) < CacheBuffer =>
                 /\ writes \union {w} \subseteq Writes /\ IsFiniteSet(writes \union {w})
                 /\ Cardinality(writes \union {w}) <= CacheBuffer
           /\ /\ writes \ {w} \subseteq Writes /\ IsFiniteSet(writes \ {w})
              /\ Cardinality(writes \ {w}) <= CacheBuffer
<1>1. Cardinality(writes) \in Nat
  BY FS_CardinalityType DEF Typed
<1>2. /\ IsFiniteSet(writes \union {w})
      /\ Cardinality(writes \union {w}) = IF w \in writes THEN Cardinality(writes) ELSE Cardinality(writes) + 1
  BY FS_AddElement DEF Typed
<1>3. /\ IsFiniteSet(writes \ {w})
      /\ Cardinality(writes \ {w}) = IF w \in writes THEN Cardinality(writes) - 1 ELSE Cardinality(writes)
  BY FS_RemoveElement DEF Typed
<1> QED BY <1>1, <1>2, <1>3, CacheAssumption DEF Typed

\* The steps of admission keep the types.
LEMMA AdmissionTyped ==
    ASSUME Typed, NEW t \in Tasks, Allow(t) \/ Hit(t) \/ Miss(t) \/ Decide(t)
    PROVE  Typed'
<1>0. {"check", "load", "decide", "idle", "run"} \subseteq Stages
  BY DEF Stages
<1>1. stage' \in States
  BY <1>0, MoveTyped DEF Allow, Hit, Miss, Decide
<1>2. TaskTyped' /\ RestTyped' /\ faults' \in 0..MaxFaults
  BY <1>1, SameTyped, InjectTyped DEF Allow, Hit, Miss, Decide
<1>3. CacheTyped'
  <2>1. CASE Allow(t)
    <3>1. breaker' \in Breakers /\ (breaker'.state = "closed" => breaker'.failures < FailureThreshold)
      <4>1. CASE UNCHANGED breaker
        BY <4>1 DEF Typed
      <4>2. CASE breaker' = [breaker EXCEPT !.state = "half_open", !.due = FALSE, !.remaining = HalfOpenRequests - 1]
        <5>1. breaker \in Breakers /\ FALSE \in BOOLEAN /\ "half_open" \in Circuits /\ HalfOpenRequests - 1 \in Probes
          BY CacheAssumption DEF Typed, Circuits, Probes
        <5>2. breaker' \in Breakers
          BY <4>2, <5>1, BreakerSwitch, Zenon
        <5>3. breaker'.state = "half_open"
          BY <4>2, <5>1 DEF Breakers
        <5> QED BY <5>2, <5>3
      <4>3. CASE breaker.state = "half_open" /\ breaker.remaining > 0 /\ breaker' = [breaker EXCEPT !.remaining = @ - 1]
        <5>1. breaker \in Breakers /\ breaker.remaining - 1 \in Probes
          BY <4>3, BreakerUpdate, CacheAssumption DEF Typed, Probes
        <5> QED BY <4>3, <5>1, BreakerUpdate
      <4> QED BY <2>1, <4>1, <4>2, <4>3 DEF Allow
    <3> QED BY <2>1, <3>1 DEF Allow, Typed, CacheTyped, redisVars, queueVars, chargeVars
  <2>2. CASE Hit(t)
    BY <2>2 DEF Hit, Typed, CacheTyped, redisVars, queueVars, chargeVars
  <2>3. CASE Miss(t)
    <3>1. flight' \in Flights
      <4>1. \A o \in BOOLEAN : [leader |-> t, read |-> balance, open |-> o] \in Flights
        BY DEF Typed, Flights
      <4>2. flight \in Flights
        BY DEF Typed
      <4>3. (cachePool = "open") \in BOOLEAN
        BY Zenon
      <4>4. \/ UNCHANGED flight
            \/ flight' = [leader |-> t, read |-> balance, open |-> cachePool = "open"]
        BY <2>3, Zenon DEF Miss
      <4> QED BY <4>1, <4>2, <4>3, <4>4, Zenon
    <3>2. raced' \in BOOLEAN /\ cache' \in Int \union {Absent}
      BY <2>3, TaintTyped DEF Miss, Typed, redisVars
    <3> QED BY <2>3, <3>1, <3>2 DEF Miss, Typed, CacheTyped, redisVars, queueVars, chargeVars
  <2>4. CASE Decide(t)
    <3>1. breaker' \in Breakers /\ (breaker'.state = "closed" => breaker'.failures < FailureThreshold)
      BY <2>4, BreakerTyped DEF Decide
    <3> QED BY <2>4, <3>1 DEF Decide, Typed, CacheTyped, redisVars, queueVars, chargeVars
  <2> QED BY <2>1, <2>2, <2>3, <2>4
<1> QED BY <1>2, <1>3, SameTyped

\* The end of a load and the reset timeout keep the types.
LEMMA LoadTyped == ASSUME Typed, Load \/ LoadFails \/ LoadPanics \/ ResetTimeout PROVE Typed'
<1>0. ASSUME NEW v \in Int \union {Failed}, HandOut(v), UNCHANGED <<place, result, newBalance>>
      PROVE  TaskTyped' /\ flight' \in Flights /\ seen' \in [Tasks -> Int \union {Absent, Failed}]
  <2>1. "decide" \in Stages
    BY DEF Stages
  <2>2. stage' \in States
    BY <1>0, <2>1 DEF HandOut, Typed, States
  <2> QED BY <1>0, <2>2, SameTyped DEF HandOut, Typed, Flights
<1>1. CASE Load
  <2>1. flight.read \in Int /\ Write("set", flight.leader, flight.read) \in Writes
    BY <1>1, Typing DEF Load, Write, Writes
  <2>2. TaskTyped' /\ flight' \in Flights /\ seen' \in [Tasks -> Int \union {Absent, Failed}]
    BY <1>0, <1>1, <2>1 DEF Load
  <2>3. writes' \subseteq Writes /\ IsFiniteSet(writes') /\ Cardinality(writes') <= CacheBuffer
    BY <1>1, <2>1, WritesTyped DEF Load, Typed
  <2>4. CacheTyped'
    BY <1>1, <2>2, <2>3 DEF Load, Typed, CacheTyped, redisVars, chargeVars
  <2> QED BY <1>1, <2>2, <2>4, SameTyped, InjectTyped DEF Load
<1>2. CASE LoadFails
  <2>2. TaskTyped' /\ flight' \in Flights /\ seen' \in [Tasks -> Int \union {Absent, Failed}]
    BY <1>0, <1>2 DEF LoadFails
  <2>4. CacheTyped'
    BY <1>2, <2>2 DEF LoadFails, Typed, CacheTyped, redisVars, chargeVars, queueVars
  <2> QED BY <1>2, <2>2, <2>4, SameTyped, InjectTyped DEF LoadFails
<1>3. CASE ResetTimeout
  <2>1. breaker \in Breakers /\ breaker' = [breaker EXCEPT !.due = TRUE] /\ breaker.state = "open"
    BY <1>3 DEF ResetTimeout, Typed
  <2>2. breaker' \in Breakers /\ breaker'.state = "open"
    BY <2>1 DEF Breakers
  <2>3. CacheTyped'
    BY <1>3, <2>2 DEF ResetTimeout, Typed, CacheTyped, redisVars, queueVars, chargeVars
  <2> QED BY <1>3, <2>3, SameTyped, InjectTyped DEF ResetTimeout, billingVars, task
<1>4. CASE LoadPanics
  <2>1. "idle" \in Stages
    BY DEF Stages
  <2>2. stage' \in States
    BY <1>4, <2>1 DEF LoadPanics, Typed, States
  <2>3. CacheTyped'
    BY <1>4 DEF LoadPanics, Typed, CacheTyped, Flights, redisVars, chargeVars, queueVars
  <2> QED BY <1>4, <2>2, <2>3, SameTyped, InjectTyped DEF LoadPanics
<1> QED BY <1>1, <1>2, <1>3, <1>4

\* The worker pool keeps the types.
LEMMA SubmitTyped ==
    ASSUME Typed, NEW t \in Tasks, Submit(t), UNCHANGED <<redisVars, checkVars, queueVars, chargeVars>>
    PROVE  Typed'
<1>0. "queued" \in Stages /\ "claim" \in Stages /\ "dropped" \in Results
  BY DEF Stages, Executing, Results
<1>1. CASE Enqueue(t)
  <2>1. stage' \in States
    BY <1>0, <1>1, MoveTyped DEF Enqueue
  <2>2. queue' \in Seq(Tasks) /\ Len(queue') <= QueueSize
    BY <1>1, PoolAssumption DEF Enqueue, Typed
  <2>3. RestTyped'
    BY <1>1, <2>2 DEF Enqueue, Typed, RestTyped, ledger
  <2> QED BY <1>1, <2>1, <2>3, SameTyped, InjectTyped DEF Enqueue
<1>2. ASSUME Goto(t, "claim"), place' = [place EXCEPT ![t] = "caller"], UNCHANGED <<result, newBalance>>
      PROVE  TaskTyped'
  <2>1. stage' \in States
    BY <1>0, <1>2, MoveTyped
  <2> QED BY <1>2, <2>1 DEF Typed, TaskTyped
<1>3. CASE Overflow(t)
  BY <1>2, <1>3, SameTyped, InjectTyped DEF Overflow
<1>4. CASE Drop(t)
  <2>1. TaskTyped'
    BY <1>0, <1>2, <1>4, MoveTyped DEF Drop, Dropped
  <2> QED BY <1>4, <2>1, SameTyped, InjectTyped DEF Drop, Dropped
<1> QED BY <1>1, <1>3, <1>4 DEF Submit

\* So do the workers, the shutdown and the cleanup of claims.
LEMMA PoolTyped == ASSUME Typed, PoolStep PROVE Typed'
<1>0. CacheTyped'
  BY SameTyped DEF PoolStep
<1>1. CASE Start
  <2>1. Head(queue) \in Tasks /\ queue' \in Seq(Tasks) /\ Len(queue') <= QueueSize
    BY <1>1, PoolAssumption DEF Start, Typed
  <2>2. "claim" \in Stages
    BY DEF Stages, Executing
  <2>3. stage' \in States
    BY <1>1, <2>1, <2>2, MoveTyped DEF Start
  <2>4. TaskTyped'
    BY <1>1, <2>1, <2>3 DEF Start, Typed, TaskTyped
  <2>5. RestTyped'
    BY <1>1, <2>1 DEF Start, Typed, RestTyped, ledger
  <2> QED BY <1>0, <1>1, <2>4, <2>5, SameTyped, InjectTyped DEF Start
<1>2. CASE Stop
  <2>1. stopped' \in BOOLEAN
    BY <1>2, Zenon DEF Stop
  <2>2. RestTyped'
    BY <1>2, <2>1 DEF Stop, Typed, RestTyped, ledger
  <2> QED BY <1>0, <1>2, <2>2, SameTyped, InjectTyped DEF Stop, task
<1>3. ASSUME NEW k \in Keys, Cleanup(k) PROVE Typed'
  <2>1. archive' \in Rows /\ dedup' \in Rows
    BY <1>3 DEF Cleanup, Typed, Rows
  <2>2. RestTyped'
    BY <1>3, <2>1 DEF Cleanup, Typed, RestTyped, pool
  <2> QED BY <1>0, <1>3, <2>2, SameTyped, InjectTyped DEF Cleanup, task
<1> QED BY <1>1, <1>2, <1>3 DEF PoolStep

\* A task that ends frees its key.
LEMMA FreeTyped == ASSUME Typed, NEW t \in Tasks PROVE Free(t) \in [Keys -> Tasks \union {NoTask}]
BY DEF Typed, Free

\* The statements of a transaction keep the types.
LEMMA TransactionTyped ==
    ASSUME Typed, NEW t \in Tasks, Claim(t) \/ Compare(t) \/ CheckArchive(t) \/ Fail(t),
           UNCHANGED <<redisVars, checkVars, queueVars, chargeVars>>
    PROVE  Typed'
<1>0. /\ {"compare", "archive", "charge", "done"} \subseteq Stages
      /\ "failed" \in Results
      /\ \A p : Verdict(t, p) \in Results
  BY DEF Stages, Executing, Results, Verdict
<1>1. CASE Claim(t)
  <2>1. stage' \in States
    BY <1>0, <1>1, MoveTyped DEF Claim
  <2>2. holder' \in [Keys -> Tasks \union {NoTask}]
    BY <1>1 DEF Claim, Typed
  <2>3. RestTyped'
    BY <1>1, <2>2 DEF Claim, Typed, RestTyped, pool
  <2> QED BY <1>1, <2>1, <2>3, SameTyped, InjectTyped DEF Claim
<1>2. CASE Compare(t)
  <2>1. TaskTyped'
    BY <1>0, <1>2, MoveTyped DEF Compare
  <2> QED BY <1>2, <2>1, SameTyped, InjectTyped DEF Compare
<1>3. CASE CheckArchive(t)
  <2>1. TaskTyped'
    BY <1>0, <1>3, MoveTyped, SameTyped DEF CheckArchive
  <2>2. holder' \in [Keys -> Tasks \union {NoTask}]
    BY <1>3, FreeTyped DEF CheckArchive, Typed
  <2>3. RestTyped'
    BY <1>3, <2>2 DEF CheckArchive, Typed, RestTyped, pool
  <2> QED BY <1>3, <2>1, <2>3, SameTyped, InjectTyped DEF CheckArchive
<1>4. CASE Fail(t)
  <2>1. TaskTyped'
    BY <1>0, <1>4, MoveTyped DEF Fail
  <2>2. RestTyped'
    BY <1>4, FreeTyped DEF Fail, Typed, RestTyped, pool
  <2> QED BY <1>4, <2>1, <2>2, SameTyped, InjectTyped DEF Fail
<1> QED BY <1>1, <1>2, <1>3, <1>4

\* The commit keeps the types.
LEMMA ChargeTyped == ASSUME Typed, NEW t \in Tasks, Charge(t) PROVE Typed'
<1>0. "applied" \in Stages /\ "failed" \in Results
  BY DEF Stages, Executing, Results
<1>1. Commit(t)
  BY DEF Charge, Apply, LoseAnswer
<1>2. dedup' \in Rows
  BY <1>1, Typing DEF Commit, Typed, Rows
<1>3. RestTyped'
  BY <1>1, <1>2, FreeTyped DEF Commit, Typed, RestTyped, pool
<1>4. CacheTyped'
  <2>1. raced' \in BOOLEAN /\ cache' \in Int \union {Absent}
    <3>1. (Filling \/ cache # Absent) \in BOOLEAN /\ Filling \in BOOLEAN
      BY TaintTyped, Zenon
    <3> QED BY <3>1, TaintTyped, Zenon DEF Charge
  <2> QED BY <2>1 DEF Charge, Typed, CacheTyped, checkVars, queueVars, chargeVars
<1>5. TaskTyped'
  <2>1. CASE Apply(t)
    <3>1. stage' \in States
      BY <1>0, <2>1, MoveTyped DEF Apply
    <3> QED BY <2>1, <3>1 DEF Apply, Typed, TaskTyped
  <2>2. CASE LoseAnswer(t)
    BY <1>0, <2>2, MoveTyped DEF LoseAnswer
  <2> QED BY <2>1, <2>2 DEF Charge
<1>6. faults' \in 0..MaxFaults
  BY InjectTyped DEF Charge, Apply, LoseAnswer
<1> QED BY <1>3, <1>4, <1>5, <1>6, SameTyped

\* A step that may write the cached balance or spoil it, and nothing else of the cache.
LEMMA RedisTyped ==
    ASSUME Typed, UNCHANGED <<checkVars, queueVars, chargeVars>>,
           \/ \E v \in Int \union {Absent} : SetCache(v)
           \/ \E hit \in BOOLEAN : Taint(hit)
    PROVE  CacheTyped'
<1>1. raced' \in BOOLEAN /\ cache' \in Int \union {Absent}
  BY TaintTyped
<1> QED BY <1>1 DEF Typed, CacheTyped, checkVars, queueVars, chargeVars

\* Bringing a charge to the cache keeps the types.
LEMMA SyncTyped == ASSUME Typed, NEW t \in Tasks, Sync(t) PROVE Typed'
<1>0. "enqueue" \in Stages /\ "billed" \in Results /\ Write("deduct", t, 1) \in Writes
      /\ TRUE \in BOOLEAN /\ Absent \in Int \union {Absent} /\ Deducted(1) \in Int \union {Absent}
  BY TaintTyped DEF Stages, Executing, Results, Write, Writes
<1>1. RestTyped' /\ faults' \in 0..MaxFaults
  BY SameTyped, InjectTyped DEF Sync, SyncInvalidate, SyncBegin, SyncQueue, SyncDirect, SyncPanics
<1>2. TaskTyped'
  <2>1. CASE SyncBegin(t)
    BY <1>0, <2>1, MoveTyped, SameTyped DEF SyncBegin
  <2>2. CASE End(t, "billed")
    BY <1>0, <2>2, MoveTyped
  <2> QED BY <2>1, <2>2 DEF Sync, SyncInvalidate, SyncQueue, SyncDirect, SyncPanics
<1>3. CacheTyped'
  <2>1. CASE SyncBegin(t)
    BY <2>1, SameTyped DEF SyncBegin
  <2>2. CASE SyncQueue(t)
    <3>1. writes' \subseteq Writes /\ IsFiniteSet(writes') /\ Cardinality(writes') <= CacheBuffer
      BY <1>0, <2>2, WritesTyped DEF SyncQueue
    <3> QED BY <2>2, <3>1 DEF SyncQueue, Typed, CacheTyped, redisVars, checkVars, chargeVars
  <2>3. CASE SyncInvalidate(t)
    BY <1>0, <2>3, RedisTyped DEF SyncInvalidate
  <2>4. CASE SyncDirect(t)
    BY <1>0, <2>4, RedisTyped DEF SyncDirect
  <2>5. CASE SyncPanics(t)
    BY <1>0, <2>5, RedisTyped DEF SyncPanics
  <2> QED BY <2>1, <2>2, <2>3, <2>4, <2>5 DEF Sync
<1> QED BY <1>1, <1>2, <1>3, SameTyped

\* So do the workers that write the cache.
LEMMA WriteTyped == ASSUME Typed, NEW w \in writes, WriteCache(w) PROVE Typed'
<1>1. w \in Writes /\ w.amount \in Int
  BY DEF Typed, Writes
<1>2. writes' \subseteq Writes /\ IsFiniteSet(writes') /\ Cardinality(writes') <= CacheBuffer
  BY <1>1, WritesTyped DEF WriteCache
<1>3. (IF w.kind = "set" THEN w.amount ELSE Deducted(w.amount)) \in Int \union {Absent}
  BY <1>1, TaintTyped
<1>4. (w.kind = "deduct") \in BOOLEAN
  BY Zenon
<1>5. raced' \in BOOLEAN /\ cache' \in Int \union {Absent}
  BY <1>3, <1>4, TaintTyped, Zenon DEF WriteCache
<1>6. CacheTyped'
  BY <1>2, <1>5 DEF WriteCache, Typed, CacheTyped, checkVars, chargeVars
<1> QED BY <1>6, SameTyped, InjectTyped DEF WriteCache, task

\* And so do the rest of the system and the crash of the process.
LEMMA RestOfSystemTyped == ASSUME Typed, StopCache \/ Expire \/ Recharge \/ Invalidate PROVE Typed'
<1>0. TRUE \in BOOLEAN /\ Absent \in Int \union {Absent} /\ Filling \in BOOLEAN
  BY TaintTyped
<1>1. CASE StopCache
  <2>1. CacheTyped'
    BY <1>1 DEF StopCache, Typed, CacheTyped, redisVars, checkVars, chargeVars
  <2> QED BY <1>1, <2>1, SameTyped, InjectTyped DEF StopCache, billingVars, task
<1>2. CASE Expire
  <2>1. CacheTyped'
    BY <1>0, <1>2, RedisTyped DEF Expire
  <2> QED BY <1>2, <2>1, SameTyped, InjectTyped DEF Expire, billingVars, task
<1>3. CASE Recharge
  <2>1. raced' \in BOOLEAN /\ cache' \in Int \union {Absent}
    BY <1>0, <1>3, TaintTyped DEF Recharge
  <2>2. CacheTyped'
    BY <1>3, <2>1, CacheAssumption DEF Recharge, Typed, CacheTyped, checkVars, queueVars
  <2>3. RestTyped'
    BY <1>3 DEF Recharge, Typed, RestTyped, pool
  <2> QED BY <1>3, <2>2, <2>3, SameTyped, InjectTyped DEF Recharge, task
<1>4. CASE Invalidate
  <2>1. raced' \in BOOLEAN /\ cache' \in Int \union {Absent}
    BY <1>0, <1>4, TaintTyped DEF Invalidate
  <2>2. CacheTyped'
    BY <1>4, <2>1, CacheAssumption DEF Invalidate, Typed, CacheTyped, checkVars, queueVars
  <2> QED BY <1>4, <2>2, SameTyped, InjectTyped DEF Invalidate, task
<1> QED BY <1>1, <1>2, <1>3, <1>4

\* A crash leaves the initial values behind.
LEMMA CrashTyped == ASSUME Typed, CrashAll PROVE Typed'
<1>0. {"idle", "done"} \subseteq Stages /\ "crashed" \in Results /\ Changing \in BOOLEAN
  BY TaintTyped DEF Stages, Results
<1>1. TaskTyped'
  <2>1. stage' \in States
    BY <1>0 DEF CrashAll, Crash, States
  <2>2. result' \in [Tasks -> Results]
    BY <1>0 DEF CrashAll, Crash, Typed
  <2> QED BY <2>1, <2>2 DEF CrashAll, Crash, TaskTyped
<1>2. RestTyped'
  <2>1. queue' \in Seq(Tasks) /\ Len(queue') <= QueueSize
    BY PoolAssumption DEF CrashAll, Crash
  <2>2. stopped' \in BOOLEAN
    BY Zenon DEF CrashAll, Crash
  <2> QED BY <2>1, <2>2 DEF CrashAll, Crash, Typed, RestTyped
<1>3. CacheTyped'
  <2>1. breaker' \in Breakers /\ breaker'.failures = 0
    BY CacheAssumption DEF CrashAll, Breakers, Circuits, Failures, Probes
  <2>2. IsFiniteSet({}) /\ Cardinality({}) = 0
    BY FS_EmptySet
  <2>3. raced' \in BOOLEAN /\ cache' \in Int \union {Absent}
    BY <1>0, TaintTyped DEF CrashAll
  <2>4. writes' \subseteq Writes /\ IsFiniteSet(writes') /\ Cardinality(writes') <= CacheBuffer
        /\ deleting' \in Nat /\ deleting' <= recharges' /\ recharges' \in 0..MaxRecharges
    BY <2>2, CacheAssumption DEF CrashAll, Typed
  <2>5. flight' \in Flights /\ seen' \in [Tasks -> Int \union {Absent, Failed}] /\ cachePool' \in {"open", "closing", "closed"}
    BY DEF CrashAll, Flights
  <2> QED BY <2>1, <2>3, <2>4, <2>5, CacheAssumption DEF CacheTyped
<1>4. faults' \in 0..MaxFaults
  BY InjectTyped DEF CrashAll, Crash
<1> QED BY <1>1, <1>2, <1>3, <1>4, SameTyped

\* Every step keeps the types.
LEMMA StepTyped == Typed /\ [Next]_vars => Typed'
<1> SUFFICES ASSUME Typed, [Next]_vars PROVE Typed'
  OBVIOUS
<1>1. CASE Next
  BY <1>1, AdmissionTyped, LoadTyped, SubmitTyped, PoolTyped, TransactionTyped, ChargeTyped, SyncTyped, WriteTyped,
     RestOfSystemTyped, CrashTyped DEF Next, Answer, Billing
<1>2. CASE UNCHANGED vars
  BY <1>2, SameTyped, InjectTyped DEF vars, billingVars, task
<1> QED BY <1>1, <1>2

\* The tasks, the claims, the cache and the breaker keep their types, and both queues
\* of the process stay within their capacities.
THEOREM TypeCorrect == Spec => []TypeOK
BY InitTyped, StepTyped, TypedIsTypeOK, PTL DEF Spec

----------------------------------------------------------------------------
(* The inductive invariant                                                 *)

\* Each waiting task is in the queue once
Waiting ==
    \A i \in 1..Len(queue) :
        /\ stage[queue[i]] = "queued"
        /\ \A j \in 1..Len(queue) : queue[i] = queue[j] => i = j

Claiming == {"archive", "charge"}

\* An open claim belongs to the transaction that inserted it; until it commits no other
\* claim of the key is on record, and once it has looked none is archived
Holders ==
    /\ \A k \in Keys : holder[k] # NoTask =>
          /\ KeyOf(holder[k]) = k /\ stage[holder[k]] \in Claiming
          /\ dedup[k] = NoPrint
          /\ stage[holder[k]] = "charge" => archive[k] = NoPrint
    /\ \A t \in Tasks : stage[t] \in Claiming => holder[KeyOf(t)] = t

Books == Holders /\ BilledAtMostOnce /\ ClaimedIffCharged /\ SkippedIsBilled

\* A fill under way writes the balance of now, unless it overlapped a change of it
FillIsFresh ==
    Filling /\ ~raced =>
        /\ ~Changing
        /\ flight # NoFlight => flight.read = balance
        /\ \A w \in Sets : w.amount = balance

\* A queued deduction is the one of a task that has ended
Deductions == \A w \in Deducts : w.amount = 1 /\ stage[w.task] = "done"

Cached == FillIsFresh /\ Deductions /\ CacheIsExact

IInv == Waiting /\ Books /\ Cached /\ HalfOpenIsProbed

----------------------------------------------------------------------------
(* What a step must leave alone                                            *)

Probing == {"check", "load", "decide"}

\* The waiting tasks stay where they are.
LEMMA WaitingKept ==
    ASSUME Typed, Waiting, UNCHANGED queue, \A t \in Tasks : stage[t] = "queued" => stage'[t] = "queued"
    PROVE  Waiting'
<1>1. \A i \in 1..Len(queue) : queue[i] \in Tasks
  BY DEF Typed
<1> QED BY <1>1 DEF Waiting

\* A request under way keeps the half-open breaker probed.
LEMMA ProbedKept ==
    ASSUME HalfOpenIsProbed, UNCHANGED <<breaker, cachePool>>,
           \A t \in Tasks : stage[t] \in Probing => stage'[t] \in Probing
    PROVE  HalfOpenIsProbed'
<1>1. CASE breaker.state = "half_open" /\ cachePool = "open"
  <2>1. PICK t \in Tasks : stage[t] \in Probing
    BY <1>1 DEF HalfOpenIsProbed, Probing
  <2>2. stage'[t] \in Probing
    BY <2>1
  <2> QED BY <2>2 DEF HalfOpenIsProbed, Probing
<1>2. CASE breaker.state # "half_open" \/ cachePool # "open"
  BY <1>2 DEF HalfOpenIsProbed
<1> QED BY <1>1, <1>2

\* The books change only with a claim, a commit or a verdict.
LEMMA BooksKept ==
    ASSUME Typed, Books, UNCHANGED <<usage, dedup, archive, holder, charges>>,
           \A t \in Tasks : stage[t] \in Claiming \/ stage'[t] \in Claiming => stage'[t] = stage[t],
           \A t \in Tasks : result'[t] = "duplicate" => result[t] = "duplicate"
    PROVE  Books'
<1>1. Holders'
  BY Typing DEF Books, Holders, KeyOf, Typed
<1>2. BilledAtMostOnce'
  BY DEF Books, BilledAtMostOnce, KeyOf
<1>3. ClaimedIffCharged'
  BY DEF Books, ClaimedIffCharged, Claims, KeyOf, PrintOf
<1>4. SkippedIsBilled'
  BY DEF Books, SkippedIsBilled, KeyOf, PrintOf
<1> QED BY <1>1, <1>2, <1>3, <1>4 DEF Books

\* What is on its way to the cache can be counted.
LEMMA Countable ==
    ASSUME Typed
    PROVE  /\ IsFiniteSet(Syncing) /\ Cardinality(Syncing) \in Nat
           /\ IsFiniteSet(Deducts) /\ Cardinality(Deducts) \in Nat
           /\ Unsynced \in Int /\ Unsynced = Cardinality(Deducts) + Cardinality(Syncing) - deleting
<1>1. IsFiniteSet(Syncing)
  <2>1. Syncing \subseteq Tasks
    BY DEF Syncing
  <2> QED BY <2>1, UsageAssumption, FS_Subset
<1>2. IsFiniteSet(Deducts)
  <2>1. Deducts \subseteq writes
    BY DEF Deducts
  <2> QED BY <2>1, FS_Subset DEF Typed
<1> QED BY <1>1, <1>2, FS_CardinalityType DEF Unsynced, Typed

\* With nothing on its way, nothing is counted.
LEMMA NothingUnsynced == ASSUME Typed, ~Changing PROVE Unsynced = 0
<1>1. Deducts = {} /\ Syncing = {} /\ deleting = 0
  BY DEF Changing, Typed
<1> QED BY <1>1, FS_EmptySet DEF Unsynced

\* The cached balance is as exact as before if nothing that it depends on changes.
LEMMA CachedKept ==
    ASSUME Typed, Cached, UNCHANGED <<cache, raced, balance, deleting, writes>>,
           flight' = flight \/ flight' = NoFlight, Syncing' = Syncing,
           \A t \in Tasks : stage[t] = "done" => stage'[t] = "done"
    PROVE  Cached'
<1>1. Deducts' = Deducts /\ Sets' = Sets
  BY DEF Deducts, Sets
<1>2. Unsynced' = Unsynced
  BY <1>1 DEF Unsynced
<1>3. FillIsFresh'
  BY <1>1 DEF Cached, FillIsFresh, Filling, Changing
<1>4. Deductions'
  BY <1>1 DEF Cached, Deductions, Deducts, Typed, Writes
<1>5. CacheIsExact'
  BY <1>2 DEF Cached, CacheIsExact
<1> QED BY <1>3, <1>4, <1>5 DEF Cached

\* A task that moves leaves the others where they are.
LEMMA Moved ==
    ASSUME Typed, NEW t \in Tasks, NEW s, Goto(t, s)
    PROVE  /\ stage'[t] = s /\ \A u \in Tasks : u # t => stage'[u] = stage[u]
           /\ /\ stage[t] \notin {"applied", "enqueue"} /\ s \notin {"applied", "enqueue"}
              => Syncing' = Syncing
<1>1. stage'[t] = s /\ \A u \in Tasks : u # t => stage'[u] = stage[u]
  BY DEF Typed, States, Goto
<1> QED BY <1>1 DEF Syncing

\* So does one that ends, with its result.
LEMMA Ended ==
    ASSUME Typed, NEW t \in Tasks, NEW r, End(t, r)
    PROVE  /\ stage'[t] = "done" /\ \A u \in Tasks : u # t => stage'[u] = stage[u]
           /\ result'[t] = r /\ \A u \in Tasks : u # t => result'[u] = result[u]
           /\ stage[t] \notin {"applied", "enqueue"} => Syncing' = Syncing
<1>1. stage'[t] = "done" /\ \A u \in Tasks : u # t => stage'[u] = stage[u]
  BY Moved DEF End
<1>2. result'[t] = r /\ \A u \in Tasks : u # t => result'[u] = result[u]
  BY DEF Typed, End
<1> QED BY <1>1, <1>2 DEF Syncing

----------------------------------------------------------------------------
(* Preservation                                                            *)

\* Admission: the tasks move among the first stages.
LEMMA FrontInv ==
    ASSUME Typed, IInv, NEW t \in Tasks, Allow(t) \/ Hit(t) \/ Miss(t) \/ Decide(t)
    PROVE  Waiting' /\ Books'
<1>1. PICK s : s \in {"check", "load", "decide", "idle", "run"} /\ Goto(t, s)
  BY DEF Allow, Hit, Miss, Decide
<1>2. stage[t] \in {"check", "load", "decide", "idle"}
  BY DEF Allow, Hit, Miss, Decide
<1>3. \A u \in Tasks : u # t => stage'[u] = stage[u]
  BY <1>1, Moved
<1>4. stage'[t] \in {"check", "load", "decide", "idle", "run"}
  BY <1>1, Moved
<1>5. UNCHANGED <<usage, result, queue, dedup, archive, holder, charges>>
  BY DEF Allow, Hit, Miss, Decide, pool, ledger
<1>6. Waiting'
  BY <1>2, <1>3, <1>5, WaitingKept DEF IInv
<1>7. Books'
  BY <1>2, <1>3, <1>4, <1>5, BooksKept DEF IInv, Claiming
<1> QED BY <1>6, <1>7

\* Allow sends out the probe of the breaker that it half-opens.
LEMMA AllowInv == ASSUME Typed, IInv, NEW t \in Tasks, Allow(t) PROVE IInv'
<1>1. stage[t] = "idle" /\ stage'[t] = "check" /\ (\A u \in Tasks : u # t => stage'[u] = stage[u]) /\ Syncing' = Syncing
  BY Moved DEF Allow
<1>2. Cached'
  BY <1>1, CachedKept DEF IInv, Allow, ledger, redisVars, queueVars, chargeVars
<1>3. HalfOpenIsProbed'
  BY <1>1 DEF HalfOpenIsProbed
<1> QED BY <1>2, <1>3, FrontInv DEF IInv

\* The cached value is what the request decides on.
LEMMA HitInv == ASSUME Typed, IInv, NEW t \in Tasks, Hit(t) PROVE IInv'
<1>1. stage[t] = "check" /\ stage'[t] = "decide" /\ (\A u \in Tasks : u # t => stage'[u] = stage[u]) /\ Syncing' = Syncing
  BY Moved DEF Hit
<1>2. Cached'
  BY <1>1, CachedKept DEF IInv, Hit, ledger, redisVars, queueVars, chargeVars
<1>3. HalfOpenIsProbed'
  BY <1>1, ProbedKept DEF IInv, Hit, Probing, queueVars
<1> QED BY <1>2, <1>3, FrontInv DEF IInv

\* Every decision closes or opens the breaker.
LEMMA DecideInv == ASSUME Typed, IInv, NEW t \in Tasks, Decide(t) PROVE IInv'
<1>1. stage[t] = "decide" /\ stage'[t] \in {"idle", "run"} /\ (\A u \in Tasks : u # t => stage'[u] = stage[u])
      /\ Syncing' = Syncing
  BY Moved DEF Decide
<1>2. Cached'
  BY <1>1, CachedKept DEF IInv, Decide, ledger, redisVars, queueVars, chargeVars
<1>3. HalfOpenIsProbed'
  BY BreakerTyped DEF HalfOpenIsProbed, Decide
<1> QED BY <1>2, <1>3, FrontInv DEF IInv

\* A load that starts reads the balance; a change on its way spoils it.
LEMMA MissInv == ASSUME Typed, IInv, NEW t \in Tasks, Miss(t) PROVE IInv'
<1>1. stage[t] = "check" /\ stage'[t] = "load" /\ (\A u \in Tasks : u # t => stage'[u] = stage[u]) /\ Syncing' = Syncing
  BY Moved DEF Miss
<1>2. Cached'
  <2>1. CASE flight # NoFlight
    BY <1>1, <2>1, CachedKept DEF IInv, Miss, ledger, redisVars, queueVars, chargeVars
  <2>2. CASE flight = NoFlight
    <3>1. /\ flight'.read = balance /\ (raced' = (Changing \/ raced)) /\ UNCHANGED <<cache, balance, deleting, writes>>
      BY <2>2 DEF Miss, Taint, ledger, queueVars, chargeVars
    <3>2. Deducts' = Deducts /\ Sets' = Sets
      BY <3>1 DEF Deducts, Sets
    <3>3. Unsynced' = Unsynced /\ Changing' = Changing
      BY <1>1, <3>1, <3>2 DEF Unsynced, Changing
    <3>4. FillIsFresh'
      BY <3>1, <3>2, <3>3 DEF IInv, Cached, FillIsFresh, Filling
    <3>5. Deductions'
      BY <1>1, <3>2 DEF IInv, Cached, Deductions, Deducts, Typed, Writes
    <3>6. CacheIsExact'
      BY <3>1, <3>3 DEF IInv, Cached, CacheIsExact
    <3> QED BY <3>4, <3>5, <3>6 DEF Cached
  <2> QED BY <2>1, <2>2
<1>3. HalfOpenIsProbed'
  BY <1>1, ProbedKept DEF IInv, Miss, Probing, queueVars
<1> QED BY <1>2, <1>3, FrontInv DEF IInv

\* The load ends; the balance it read is still the balance, or the value is spoiled.
LEMMA LoadInv == ASSUME Typed, IInv, Load \/ LoadFails PROVE IInv'
<1>0. PICK v : HandOut(v)
  BY DEF Load, LoadFails
<1>1. \A t \in Tasks : stage'[t] = stage[t] \/ (stage[t] = "load" /\ stage'[t] = "decide")
  BY <1>0 DEF HandOut
<1>2. Syncing' = Syncing
  BY <1>1 DEF Syncing
<1>3. UNCHANGED <<usage, result, queue, dedup, archive, holder, charges, balance, cache, raced, deleting, breaker, cachePool>>
      /\ flight' = NoFlight
  BY DEF Load, LoadFails, HandOut, pool, ledger, redisVars, chargeVars, queueVars
<1>4. Waiting'
  BY <1>1, <1>3, WaitingKept DEF IInv
<1>5. Books'
  BY <1>1, <1>3, BooksKept DEF IInv, Claiming
<1>6. Cached'
  <2>1. CASE UNCHANGED writes
    BY <1>1, <1>2, <1>3, <2>1, CachedKept DEF IInv
  <2>2. CASE Load /\ writes' = writes \union {Write("set", flight.leader, flight.read)}
    <3> DEFINE w == Write("set", flight.leader, flight.read)
    <3>1. w.kind = "set" /\ w.amount = flight.read
      BY DEF Write
    <3> HIDE DEF w
    <3>2. writes' = writes \union {w}
      BY <2>2 DEF w
    <3>3. Deducts' = Deducts /\ Sets' = Sets \union {w}
      BY <3>1, <3>2 DEF Deducts, Sets
    <3>4. Unsynced' = Unsynced /\ Changing' = Changing
      BY <1>2, <1>3, <3>3 DEF Unsynced, Changing
    <3>5. FillIsFresh'
      BY <1>3, <2>2, <3>1, <3>3, <3>4 DEF IInv, Cached, FillIsFresh, Filling, Load
    <3>6. Deductions'
      <4>1. \A d \in Deducts : d.task \in Tasks
        BY DEF Deducts, Typed, Writes
      <4> QED BY <1>1, <3>3, <4>1 DEF IInv, Cached, Deductions
    <3>7. CacheIsExact'
      BY <1>3, <3>4 DEF IInv, Cached, CacheIsExact
    <3> QED BY <3>5, <3>6, <3>7 DEF Cached
  <2> QED BY <2>1, <2>2 DEF Load, LoadFails, queueVars
<1>7. HalfOpenIsProbed'
  BY <1>1, <1>3, ProbedKept DEF IInv, Probing
<1> QED BY <1>4, <1>5, <1>6, <1>7 DEF IInv

\* A panicking load ends without a write; the queue is being closed by then.
LEMMA PanicInv == ASSUME Typed, IInv, LoadPanics PROVE IInv'
<1>1. \A t \in Tasks : stage'[t] = stage[t] \/ (stage[t] = "load" /\ stage'[t] = "idle")
  BY DEF LoadPanics
<1>2. Syncing' = Syncing
  BY <1>1 DEF Syncing
<1>3. /\ UNCHANGED <<usage, result, queue, dedup, archive, holder, charges, balance, cache, raced, deleting, writes>>
      /\ flight' = NoFlight /\ cachePool' = "closing"
  BY DEF LoadPanics, pool, ledger, redisVars, chargeVars, queueVars
<1>4. Waiting'
  BY <1>1, <1>3, WaitingKept DEF IInv
<1>5. Books'
  BY <1>1, <1>3, BooksKept DEF IInv, Claiming
<1>6. Cached'
  BY <1>1, <1>2, <1>3, CachedKept DEF IInv
<1>7. HalfOpenIsProbed'
  BY <1>3 DEF HalfOpenIsProbed
<1> QED BY <1>4, <1>5, <1>6, <1>7 DEF IInv

\* What touches neither a task nor the books nor the balance.
LEMMA QuietInv ==
    ASSUME Typed, IInv, UNCHANGED <<usage, stage, result, queue, dedup, archive, holder, charges>>,
           Cached', HalfOpenIsProbed'
    PROVE  IInv'
<1>1. Waiting'
  BY WaitingKept DEF IInv
<1>2. Books'
  BY BooksKept DEF IInv
<1> QED BY <1>1, <1>2 DEF IInv

\* Timers and the shutdown of the two pools.
LEMMA TimerInv ==
    ASSUME Typed, IInv,
           \/ ResetTimeout \/ StopCache
           \/ Stop /\ UNCHANGED <<redisVars, checkVars, queueVars, chargeVars>>
    PROVE  IInv'
<1>1. UNCHANGED <<usage, stage, result, queue, dedup, archive, holder, charges, balance, cache, raced, deleting, writes, flight>>
  BY DEF ResetTimeout, StopCache, Stop, billingVars, task, pool, ledger, redisVars, checkVars, chargeVars, queueVars
<1>2. Cached'
  <2>1. Syncing' = Syncing
    BY <1>1 DEF Syncing
  <2> QED BY <1>1, <2>1, CachedKept DEF IInv
<1>3. HalfOpenIsProbed'
  <2>1. CASE UNCHANGED <<breaker, cachePool>>
    BY <1>1, <2>1, ProbedKept DEF IInv
  <2>2. CASE ResetTimeout
    <3>1. breaker'.state = "open"
      BY <2>2 DEF ResetTimeout, Typed, Breakers
    <3> QED BY <3>1 DEF HalfOpenIsProbed
  <2>3. CASE StopCache
    BY <2>3 DEF StopCache, HalfOpenIsProbed
  <2> QED BY <2>1, <2>2, <2>3 DEF Stop, checkVars, queueVars
<1> QED BY <1>1, <1>2, <1>3, QuietInv

\* Submission: a task enters the queue at its end, runs in its caller or is dropped.
LEMMA SubmitInv ==
    ASSUME Typed, IInv, NEW t \in Tasks, Submit(t), UNCHANGED <<redisVars, checkVars, queueVars, chargeVars>>
    PROVE  IInv'
<1>1. stage[t] = "run"
  BY DEF Submit, Enqueue, Overflow, Drop
<1>2. /\ stage'[t] \in {"queued", "claim", "done"} /\ \A u \in Tasks : u # t => stage'[u] = stage[u]
      /\ \A u \in Tasks : result'[u] = "duplicate" => result[u] = "duplicate"
      /\ Syncing' = Syncing
  <2>1. CASE End(t, "dropped")
    BY <1>1, <2>1, Ended
  <2>2. CASE (Goto(t, "queued") \/ Goto(t, "claim")) /\ UNCHANGED result
    BY <1>1, <2>2, Moved
  <2> QED BY <2>1, <2>2 DEF Submit, Enqueue, Overflow, Drop, Dropped
<1>3. UNCHANGED <<usage, dedup, archive, holder, charges, balance>>
  BY DEF Submit, Enqueue, Overflow, Drop, Dropped, ledger
<1>4. Waiting'
  <2>1. CASE UNCHANGED queue
    BY <1>1, <1>2, <2>1, WaitingKept DEF IInv
  <2>2. CASE queue' = Append(queue, t) /\ stage'[t] = "queued"
    <3>1. \A i \in 1..Len(queue) : queue[i] \in Tasks /\ queue[i] # t /\ stage'[queue[i]] = "queued"
      <4>1. \A i \in 1..Len(queue) : queue[i] \in Tasks /\ stage[queue[i]] = "queued"
        BY DEF Typed, IInv, Waiting
      <4> QED BY <1>1, <1>2, <4>1
    <3>2. Len(queue') = Len(queue) + 1 /\ queue'[Len(queue) + 1] = t /\ \A i \in 1..Len(queue) : queue'[i] = queue[i]
      BY <2>2 DEF Typed
    <3>3. Len(queue) \in Nat
      BY DEF Typed
    <3> QED BY <2>2, <3>1, <3>2, <3>3 DEF IInv, Waiting
  <2>3. Enqueue(t) => stage'[t] = "queued"
    BY Moved DEF Enqueue
  <2> QED BY <2>1, <2>2, <2>3 DEF Submit, Enqueue, Overflow, Drop, Dropped, pool
<1>5. Books'
  BY <1>1, <1>2, <1>3, BooksKept DEF IInv, Claiming
<1>6. Cached'
  BY <1>1, <1>2, <1>3, CachedKept DEF IInv, redisVars, checkVars, queueVars, chargeVars
<1>7. HalfOpenIsProbed'
  BY <1>1, <1>2, ProbedKept DEF IInv, Probing, checkVars, queueVars
<1> QED BY <1>4, <1>5, <1>6, <1>7 DEF IInv

\* A worker takes the oldest task, which is in the queue once.
LEMMA StartInv ==
    ASSUME Typed, IInv, Start, UNCHANGED <<redisVars, checkVars, queueVars, chargeVars>>
    PROVE  IInv'
<1> DEFINE t == Head(queue)
<1>1. /\ Len(queue) \in Nat \ {0} /\ t = queue[1] /\ t \in Tasks /\ stage[t] = "queued"
      /\ \A i \in 1..Len(queue) : queue[i] \in Tasks
      /\ Len(queue') = Len(queue) - 1 /\ \A i \in 1..Len(queue') : queue'[i] = queue[i + 1]
  BY DEF Start, Typed, IInv, Waiting
<1>2. Goto(t, "claim")
  BY DEF Start
<1> HIDE DEF t
<1>3. stage'[t] = "claim" /\ (\A u \in Tasks : u # t => stage'[u] = stage[u]) /\ Syncing' = Syncing
  BY <1>1, <1>2, Moved
<1>4. Waiting'
  BY <1>1, <1>3 DEF IInv, Waiting
<1>5. UNCHANGED <<usage, result, dedup, archive, holder, charges, balance>>
  BY DEF Start, ledger
<1>6. Books'
  BY <1>1, <1>3, <1>5, BooksKept DEF IInv, Claiming
<1>7. Cached'
  BY <1>1, <1>3, <1>5, CachedKept DEF IInv, redisVars, checkVars, queueVars, chargeVars
<1>8. HalfOpenIsProbed'
  BY <1>1, <1>3, ProbedKept DEF IInv, Probing, checkVars, queueVars
<1> QED BY <1>4, <1>6, <1>7, <1>8 DEF IInv

\* The insert of a claim waits for an open one of the same key, and finds a committed one.
LEMMA ClaimInv ==
    ASSUME Typed, IInv, NEW t \in Tasks, Claim(t), UNCHANGED <<redisVars, checkVars, queueVars, chargeVars>>
    PROVE  IInv'
<1>1. /\ stage[t] = "claim" /\ stage'[t] \in {"compare", "archive"} /\ \A u \in Tasks : u # t => stage'[u] = stage[u]
      /\ Syncing' = Syncing
  BY Moved DEF Claim
<1>2. UNCHANGED <<usage, result, queue, dedup, archive, charges, balance>>
  BY DEF Claim, pool
<1>3. Waiting'
  BY <1>1, <1>2, WaitingKept DEF IInv
<1>4. Books'
  <2>1. CASE stage'[t] = "compare" /\ UNCHANGED holder
    BY <1>1, <1>2, <2>1, BooksKept DEF IInv, Claiming
  <2>2. CASE /\ stage'[t] = "archive" /\ holder[KeyOf(t)] = NoTask /\ dedup[KeyOf(t)] = NoPrint
             /\ holder' = [holder EXCEPT ![KeyOf(t)] = t]
    <3>1. KeyOf(t) \in Keys /\ NoTask \notin Tasks /\ \A u \in Tasks : KeyOf(u) \in Keys
      BY Typing, UsageAssumption
    <3>2. holder'[KeyOf(t)] = t /\ \A k \in Keys : k # KeyOf(t) => holder'[k] = holder[k]
      BY <2>2, <3>1 DEF Typed
    <3>3. \A u \in Tasks : KeyOf(u)' = KeyOf(u)
      BY <1>2 DEF KeyOf
    <3>4. \A k \in Keys : holder'[k] # NoTask =>
             /\ holder'[k] \in Tasks /\ KeyOf(holder'[k]) = k /\ stage'[holder'[k]] \in Claiming
             /\ dedup[k] = NoPrint /\ (stage'[holder'[k]] = "charge" => archive[k] = NoPrint)
      <4> SUFFICES ASSUME NEW k \in Keys, holder'[k] # NoTask
                   PROVE  /\ holder'[k] \in Tasks /\ KeyOf(holder'[k]) = k /\ stage'[holder'[k]] \in Claiming
                          /\ dedup[k] = NoPrint /\ (stage'[holder'[k]] = "charge" => archive[k] = NoPrint)
        OBVIOUS
      <4>1. CASE k = KeyOf(t)
        BY <2>2, <3>2, <4>1 DEF Claiming
      <4>2. CASE k # KeyOf(t)
        BY <1>1, <3>2, <4>2, Typing DEF IInv, Books, Holders, Claiming
      <4> QED BY <4>1, <4>2
    <3>5. \A u \in Tasks : stage'[u] \in Claiming => holder'[KeyOf(u)] = u
      <4> SUFFICES ASSUME NEW u \in Tasks, stage'[u] \in Claiming PROVE holder'[KeyOf(u)] = u
        OBVIOUS
      <4>1. CASE u = t
        BY <3>2, <4>1
      <4>2. CASE u # t
        BY <1>1, <2>2, <3>1, <3>2, <4>2 DEF IInv, Books, Holders
      <4> QED BY <4>1, <4>2
    <3>6. Holders'
      BY <1>2, <3>3, <3>4, <3>5 DEF Holders
    <3>7. BilledAtMostOnce'
      BY <1>2 DEF IInv, Books, BilledAtMostOnce, KeyOf
    <3>8. ClaimedIffCharged'
      BY <1>2 DEF IInv, Books, ClaimedIffCharged, Claims, KeyOf, PrintOf
    <3>9. SkippedIsBilled'
      BY <1>2 DEF IInv, Books, SkippedIsBilled, KeyOf, PrintOf
    <3> QED BY <3>6, <3>7, <3>8, <3>9 DEF Books
  <2>3. /\ Goto(t, "compare") => stage'[t] = "compare"
        /\ Goto(t, "archive") => stage'[t] = "archive"
    BY Moved
  <2> QED BY <2>1, <2>2, <2>3 DEF Claim
<1>5. Cached'
  BY <1>1, <1>2, CachedKept DEF IInv, redisVars, checkVars, queueVars, chargeVars
<1>6. HalfOpenIsProbed'
  BY <1>1, ProbedKept DEF IInv, Probing, checkVars, queueVars
<1> QED BY <1>3, <1>4, <1>5, <1>6 DEF IInv

\* A claim on record with the fingerprint of a task has been charged.
LEMMA ClaimIsCharged ==
    ASSUME Typed, IInv, NEW t \in Tasks,
           \/ dedup[KeyOf(t)] = PrintOf(t) \/ archive[KeyOf(t)] = PrintOf(t)
    PROVE  \E u \in charges : KeyOf(u) = KeyOf(t) /\ PrintOf(u) = PrintOf(t)
<1>1. KeyOf(t) \in Keys /\ PrintOf(t) \in Claims(KeyOf(t))
  BY Typing DEF Claims
<1> QED BY <1>1 DEF IInv, Books, ClaimedIffCharged

\* The release of a task's claim.
LEMMA Freed ==
    ASSUME Typed, Holders, NEW t \in Tasks, holder' = Free(t)
    PROVE  /\ \A k \in Keys : holder'[k] # NoTask => holder'[k] = holder[k] /\ holder'[k] # t
           /\ \A u \in Tasks : u # t /\ stage[u] \in Claiming => holder'[KeyOf(u)] = u
<1>1. \A k \in Keys : holder'[k] = IF holder[k] = t THEN NoTask ELSE holder[k]
  BY DEF Free
<1> QED BY <1>1, Typing DEF Holders

\* A transaction that ends without a commit gives its claim up; who is told that the
\* usage was billed is right.
LEMMA RollbackInv ==
    ASSUME Typed, IInv, NEW t \in Tasks, stage[t] \in InTx, NEW r, End(t, r),
           holder' = Free(t) \/ (UNCHANGED holder /\ stage[t] \notin Claiming),
           UNCHANGED <<usage, pool, dedup, archive, charges, balance>>,
           r = "duplicate" => \E u \in charges : KeyOf(u) = KeyOf(t) /\ PrintOf(u) = PrintOf(t),
           UNCHANGED <<redisVars, checkVars, queueVars, chargeVars>>
    PROVE  IInv'
<1>1. /\ stage'[t] = "done" /\ \A u \in Tasks : u # t => stage'[u] = stage[u]
      /\ result'[t] = r /\ \A u \in Tasks : u # t => result'[u] = result[u]
      /\ Syncing' = Syncing
  BY Ended DEF InTx
<1>2. Waiting'
  BY <1>1, WaitingKept DEF IInv, InTx, pool
<1>3. Books'
  <2>1. \A u \in Tasks : KeyOf(u)' = KeyOf(u) /\ PrintOf(u)' = PrintOf(u) /\ KeyOf(u) \in Keys
    BY Typing DEF KeyOf, PrintOf
  <2>2. /\ \A k \in Keys : holder'[k] # NoTask => holder'[k] = holder[k] /\ holder'[k] # t
        /\ \A u \in Tasks : u # t /\ stage[u] \in Claiming => holder'[KeyOf(u)] = u
    <3>1. CASE holder' = Free(t)
      BY <3>1, Freed DEF IInv, Books
    <3>2. CASE UNCHANGED holder /\ stage[t] \notin Claiming
      BY <3>2 DEF IInv, Books, Holders
    <3> QED BY <3>1, <3>2
  <2>3. Holders'
    <3>1. \A k \in Keys : holder'[k] # NoTask =>
             /\ holder'[k] \in Tasks /\ KeyOf(holder'[k]) = k /\ stage'[holder'[k]] \in Claiming
             /\ dedup[k] = NoPrint /\ (stage'[holder'[k]] = "charge" => archive[k] = NoPrint)
      BY <1>1, <2>2, Typing DEF IInv, Books, Holders
    <3>2. \A u \in Tasks : stage'[u] \in Claiming => holder'[KeyOf(u)] = u
      BY <1>1, <2>2 DEF Claiming
    <3> QED BY <2>1, <3>1, <3>2 DEF Holders
  <2>4. BilledAtMostOnce'
    BY DEF IInv, Books, BilledAtMostOnce, KeyOf
  <2>5. ClaimedIffCharged'
    BY DEF IInv, Books, ClaimedIffCharged, Claims, KeyOf, PrintOf
  <2>6. SkippedIsBilled'
    <3>1. \A u \in charges : u \in Tasks
      BY DEF Typed
    <3> QED BY <1>1, <2>1, <3>1 DEF IInv, Books, SkippedIsBilled
  <2> QED BY <2>3, <2>4, <2>5, <2>6 DEF Books
<1>4. Cached'
  BY <1>1, CachedKept DEF IInv, InTx, redisVars, checkVars, queueVars, chargeVars
<1>5. HalfOpenIsProbed'
  BY <1>1, ProbedKept DEF IInv, Probing, InTx, checkVars, queueVars
<1> QED BY <1>2, <1>3, <1>4, <1>5 DEF IInv

\* The comparison with a claim that is there, and a failed transaction.
LEMMA CompareInv ==
    ASSUME Typed, IInv, NEW t \in Tasks, Compare(t) \/ Fail(t), UNCHANGED <<redisVars, checkVars, queueVars, chargeVars>>
    PROVE  IInv'
<1>1. CASE Compare(t)
  <2>1. PICK r : /\ End(t, r)
                 /\ r = IF dedup[KeyOf(t)] = NoPrint THEN "failed" ELSE Verdict(t, dedup[KeyOf(t)])
    BY <1>1 DEF Compare
  <2>2. r = "duplicate" => \E u \in charges : KeyOf(u) = KeyOf(t) /\ PrintOf(u) = PrintOf(t)
    BY <2>1, ClaimIsCharged DEF Verdict
  <2>3. stage[t] \in InTx /\ stage[t] \notin Claiming
    BY <1>1 DEF Compare, InTx, Claiming
  <2> QED BY <1>1, <2>1, <2>2, <2>3, RollbackInv DEF Compare, ledger
<1>2. CASE Fail(t)
  <2>1. stage[t] \in InTx /\ End(t, "failed") /\ holder' = Free(t) /\ "failed" # "duplicate"
        /\ UNCHANGED <<usage, pool, dedup, archive, charges, balance>>
    BY <1>2 DEF Fail
  <2> QED BY <2>1, RollbackInv
<1> QED BY <1>1, <1>2

\* An archived claim ends the transaction; without one it goes on, and none will come.
LEMMA CheckArchiveInv ==
    ASSUME Typed, IInv, NEW t \in Tasks, CheckArchive(t), UNCHANGED <<redisVars, checkVars, queueVars, chargeVars>>
    PROVE  IInv'
<1> DEFINE print == archive[KeyOf(t)]
<1>0. stage[t] = "archive" /\ UNCHANGED <<usage, pool, dedup, archive, charges, balance>>
  BY DEF CheckArchive
<1>1. CASE End(t, Verdict(t, print)) /\ holder' = Free(t)
  <2>1. Verdict(t, print) = "duplicate" => \E u \in charges : KeyOf(u) = KeyOf(t) /\ PrintOf(u) = PrintOf(t)
    BY ClaimIsCharged DEF Verdict
  <2>2. stage[t] \in InTx
    BY <1>0 DEF InTx
  <2> QED BY <1>0, <1>1, <2>1, <2>2, RollbackInv
<1>2. CASE print = NoPrint /\ Goto(t, "charge") /\ UNCHANGED <<place, result, newBalance, holder>>
  <2>1. stage'[t] = "charge" /\ (\A u \in Tasks : u # t => stage'[u] = stage[u]) /\ Syncing' = Syncing
    BY <1>0, <1>2, Moved
  <2>2. Waiting'
    BY <1>0, <2>1, WaitingKept DEF IInv, pool
  <2>3. Books'
    <3>1. \A u \in Tasks : KeyOf(u)' = KeyOf(u) /\ PrintOf(u)' = PrintOf(u) /\ KeyOf(u) \in Keys
      BY <1>0, Typing DEF KeyOf, PrintOf
    <3>2. \A k \in Keys : holder[k] # NoTask =>
             /\ holder[k] \in Tasks /\ KeyOf(holder[k]) = k /\ stage'[holder[k]] \in Claiming
             /\ dedup[k] = NoPrint /\ (stage'[holder[k]] = "charge" => archive[k] = NoPrint)
      BY <1>0, <1>2, <2>1, Typing DEF IInv, Books, Holders, Claiming
    <3>3. \A u \in Tasks : stage'[u] \in Claiming => holder[KeyOf(u)] = u
      BY <1>0, <2>1 DEF IInv, Books, Holders, Claiming
    <3>4. Holders'
      BY <1>0, <1>2, <3>1, <3>2, <3>3 DEF Holders
    <3>5. BilledAtMostOnce'
      BY <1>0 DEF IInv, Books, BilledAtMostOnce, KeyOf
    <3>6. ClaimedIffCharged'
      BY <1>0 DEF IInv, Books, ClaimedIffCharged, Claims, KeyOf, PrintOf
    <3>7. SkippedIsBilled'
      BY <1>0, <1>2 DEF IInv, Books, SkippedIsBilled, KeyOf, PrintOf
    <3> QED BY <3>4, <3>5, <3>6, <3>7 DEF Books
  <2>4. Cached'
    BY <1>0, <2>1, CachedKept DEF IInv, redisVars, checkVars, queueVars, chargeVars
  <2>5. HalfOpenIsProbed'
    BY <1>0, <2>1, ProbedKept DEF IInv, Probing, checkVars, queueVars
  <2> QED BY <2>2, <2>3, <2>4, <2>5 DEF IInv
<1> QED BY <1>1, <1>2 DEF CheckArchive

\* The commit: the key had no claim and no charge, and now has one of each.
LEMMA CommitBooks ==
    ASSUME Typed, IInv, NEW t \in Tasks, Commit(t), stage'[t] \notin Claiming,
           \A u \in Tasks : u # t => stage'[u] = stage[u],
           \A u \in Tasks : result'[u] = "duplicate" => result[u] = "duplicate"
    PROVE  Books'
<1> DEFINE k == KeyOf(t)
<1>0. stage[t] = "charge" /\ k \in Keys /\ PrintOf(t) # NoPrint /\ holder[k] = t /\ t # NoTask
  BY Typing, UsageAssumption DEF Commit, IInv, Books, Holders, Claiming
<1>1. dedup[k] = NoPrint /\ archive[k] = NoPrint
  BY <1>0 DEF IInv, Books, Holders
<1>2. \A u \in charges : u \in Tasks /\ KeyOf(u) # k
  <2>1. Claims(k) = {}
    BY <1>1 DEF Claims
  <2>2. {PrintOf(u) : u \in {v \in charges : KeyOf(v) = k}} = {}
    BY <1>0, <2>1 DEF IInv, Books, ClaimedIffCharged
  <2> QED BY <2>2 DEF Typed
<1>3. \A u \in Tasks : KeyOf(u)' = KeyOf(u) /\ PrintOf(u)' = PrintOf(u) /\ KeyOf(u) \in Keys
  BY Typing DEF Commit, KeyOf, PrintOf
<1>4. /\ dedup'[k] = PrintOf(t) /\ \A j \in Keys : j # k => dedup'[j] = dedup[j]
      /\ UNCHANGED archive /\ charges' = charges \union {t} /\ holder' = Free(t)
  BY <1>0 DEF Commit, Typed, Rows
<1> HIDE DEF k
<1>5. Holders'
  <2>1. /\ \A j \in Keys : holder'[j] # NoTask => holder'[j] = holder[j] /\ holder'[j] # t
        /\ \A u \in Tasks : u # t /\ stage[u] \in Claiming => holder'[KeyOf(u)] = u
    BY <1>4, Freed DEF IInv, Books
  <2>2. \A j \in Keys : holder'[j] # NoTask =>
           /\ holder'[j] \in Tasks /\ KeyOf(holder'[j]) = j /\ stage'[holder'[j]] \in Claiming
           /\ dedup'[j] = NoPrint /\ (stage'[holder'[j]] = "charge" => archive[j] = NoPrint)
    BY <1>0, <1>4, <2>1, Typing DEF IInv, Books, Holders
  <2>3. \A u \in Tasks : stage'[u] \in Claiming => holder'[KeyOf(u)] = u
    BY <2>1
  <2> QED BY <1>3, <1>4, <2>2, <2>3 DEF Holders
<1>6. BilledAtMostOnce'
  BY <1>2, <1>3, <1>4 DEF IInv, Books, BilledAtMostOnce, k
<1>7. ClaimedIffCharged'
  <2> SUFFICES ASSUME NEW j \in Keys
               PROVE  Claims(j)' = {PrintOf(u)' : u \in {v \in charges' : KeyOf(v)' = j}}
    BY DEF ClaimedIffCharged
  <2>1. {PrintOf(u)' : u \in {v \in charges' : KeyOf(v)' = j}} = {PrintOf(u) : u \in {v \in charges' : KeyOf(v) = j}}
    BY <1>2, <1>3, <1>4
  <2>2. CASE j = k
    <3>1. Claims(j)' = {PrintOf(t)}
      BY <1>0, <1>1, <1>4, <2>2 DEF Claims
    <3>2. {v \in charges' : KeyOf(v) = j} = {t}
      BY <1>2, <1>4, <2>2 DEF k
    <3> QED BY <2>1, <3>1, <3>2
  <2>3. CASE j # k
    <3>1. Claims(j)' = Claims(j)
      BY <1>4, <2>3 DEF Claims
    <3>2. {v \in charges' : KeyOf(v) = j} = {v \in charges : KeyOf(v) = j}
      BY <1>4, <2>3 DEF k
    <3> QED BY <2>1, <3>1, <3>2 DEF IInv, Books, ClaimedIffCharged
  <2> QED BY <2>2, <2>3
<1>8. SkippedIsBilled'
  BY <1>2, <1>3, <1>4 DEF IInv, Books, SkippedIsBilled
<1> QED BY <1>5, <1>6, <1>7, <1>8 DEF Books

\* A commit changes the balance: the task has to bring it to the cache, or the lost
\* answer spoils a value that is there; a fill that is under way is spoiled.
LEMMA ChargeInv == ASSUME Typed, IInv, NEW t \in Tasks, Charge(t) PROVE IInv'
<1>0. Commit(t) /\ stage[t] = "charge" /\ UNCHANGED <<usage, queue, flight, breaker, cachePool, writes, deleting>> /\ balance' = balance - 1
  BY DEF Charge, Apply, LoseAnswer, Commit, pool, checkVars, queueVars, chargeVars
<1>1. /\ stage'[t] \in {"applied", "done"} /\ \A u \in Tasks : u # t => stage'[u] = stage[u]
      /\ \A u \in Tasks : result'[u] = "duplicate" => result[u] = "duplicate"
  <2>1. CASE Apply(t)
    BY <2>1, Moved DEF Apply
  <2>2. CASE LoseAnswer(t)
    BY <2>2, Ended DEF LoseAnswer
  <2> QED BY <2>1, <2>2 DEF Charge
<1>2. Waiting'
  BY <1>0, <1>1, WaitingKept DEF IInv
<1>3. Books'
  BY <1>0, <1>1, CommitBooks DEF Claiming
<1>4. Cached'
  <2>0. UNCHANGED cache /\ Deducts' = Deducts /\ Sets' = Sets /\ (Filling' <=> Filling)
    BY <1>0 DEF Charge, Taint, Deducts, Sets, Filling
  <2>1. Filling => raced'
    BY DEF Charge, Taint
  <2>2. FillIsFresh'
    BY <2>0, <2>1 DEF FillIsFresh
  <2>3. Deductions'
    <3>1. \A d \in Deducts : d.task \in Tasks
      BY DEF Deducts, Typed, Writes
    <3> QED BY <1>0, <1>1, <2>0, <3>1 DEF IInv, Cached, Deductions
  <2>4. CacheIsExact'
    <3>1. CASE Apply(t)
      <4>1. stage'[t] = "applied"
        BY <3>1, Moved DEF Apply
      <4>2. Syncing' = Syncing \union {t} /\ t \notin Syncing
        BY <1>0, <1>1, <4>1 DEF Syncing
      <4>3. Cardinality(Syncing') = Cardinality(Syncing) + 1
        BY <4>2, Countable, FS_AddElement
      <4>4. Unsynced' = Unsynced + 1
        BY <1>0, <2>0, <4>3, Countable DEF Unsynced, Typed
      <4>5. ~raced' => ~raced
        BY <3>1 DEF Charge, Taint, Apply, LoseAnswer
      <4>6. balance' + Unsynced' = balance + Unsynced
        <5>1. balance \in Int /\ Unsynced \in Int
          BY Countable DEF Typed
        <5> QED BY <1>0, <4>4, <5>1
      <4> QED BY <2>0, <4>5, <4>6 DEF IInv, Cached, CacheIsExact
    <3>2. CASE LoseAnswer(t) /\ Taint(Filling \/ cache # Absent)
      BY <2>0, <3>2 DEF CacheIsExact, Taint
    <3> QED BY <3>1, <3>2 DEF Charge
  <2> QED BY <2>2, <2>3, <2>4 DEF Cached
<1>5. HalfOpenIsProbed'
  BY <1>0, <1>1, ProbedKept DEF IInv, Probing
<1> QED BY <1>2, <1>3, <1>4, <1>5 DEF IInv

\* The archived claim is the only one of its key.
LEMMA CleanupInv ==
    ASSUME Typed, IInv, NEW k \in Keys, Cleanup(k), UNCHANGED <<redisVars, checkVars, queueVars, chargeVars>>
    PROVE  IInv'
<1>0. UNCHANGED <<usage, stage, result, queue, holder, charges, balance>>
  BY DEF Cleanup, task, pool
<1>1. /\ dedup[k] # NoPrint /\ dedup'[k] = NoPrint
      /\ archive'[k] = IF archive[k] = NoPrint THEN dedup[k] ELSE archive[k]
      /\ \A j \in Keys : j # k => dedup'[j] = dedup[j] /\ archive'[j] = archive[j]
  BY DEF Cleanup, Typed, Rows
<1>2. \A u \in Tasks : KeyOf(u)' = KeyOf(u) /\ PrintOf(u)' = PrintOf(u)
  BY <1>0 DEF KeyOf, PrintOf
<1>3. \A u \in charges : u \in Tasks
  BY DEF Typed
<1>4. \A j \in Keys : Claims(j)' = Claims(j)
  <2>1. CASE archive[k] = NoPrint
    BY <1>1, <2>1 DEF Claims
  <2>2. CASE archive[k] # NoPrint
    <3>1. dedup[k] \in Claims(k) /\ archive[k] \in Claims(k)
      BY <1>1, <2>2 DEF Claims
    <3>2. PICK u \in charges : KeyOf(u) = k /\ PrintOf(u) = dedup[k]
      BY <3>1 DEF IInv, Books, ClaimedIffCharged
    <3>3. PICK v \in charges : KeyOf(v) = k /\ PrintOf(v) = archive[k]
      BY <3>1 DEF IInv, Books, ClaimedIffCharged
    <3>4. u = v
      BY <3>2, <3>3 DEF IInv, Books, BilledAtMostOnce
    <3>5. dedup[k] = archive[k]
      BY <3>2, <3>3, <3>4
    <3> QED BY <1>1, <2>2, <3>5 DEF Claims
  <2> QED BY <2>1, <2>2
<1>5. Books'
  <2>1. Holders'
    <3>1. holder[k] = NoTask
      BY <1>1 DEF IInv, Books, Holders
    <3>2. \A j \in Keys : holder[j] # NoTask => holder[j] \in Tasks /\ j # k
      BY <3>1, Typing
    <3> QED BY <1>0, <1>1, <1>2, <3>2 DEF IInv, Books, Holders
  <2>2. BilledAtMostOnce'
    BY <1>0, <1>2, <1>3 DEF IInv, Books, BilledAtMostOnce
  <2>3. ClaimedIffCharged'
    BY <1>0, <1>4 DEF IInv, Books, ClaimedIffCharged, KeyOf, PrintOf
  <2>4. SkippedIsBilled'
    BY <1>0, <1>2, <1>3 DEF IInv, Books, SkippedIsBilled
  <2> QED BY <2>1, <2>2, <2>3, <2>4 DEF Books
<1>6. Waiting'
  BY <1>0, WaitingKept DEF IInv
<1>7. Cached'
  <2>1. Syncing' = Syncing
    BY <1>0 DEF Syncing
  <2> QED BY <1>0, <2>1, CachedKept DEF IInv, redisVars, checkVars, queueVars, chargeVars
<1>8. HalfOpenIsProbed'
  BY <1>0, ProbedKept DEF IInv, checkVars, queueVars
<1> QED BY <1>5, <1>6, <1>7, <1>8 DEF IInv

\* A task that has brought its charge to the cache leaves.
LEMMA Synced ==
    ASSUME Typed, NEW t \in Tasks, NEW r, stage[t] \in {"applied", "enqueue"}, End(t, r)
    PROVE  /\ t \in Syncing /\ Syncing' = Syncing \ {t} /\ Cardinality(Syncing') = Cardinality(Syncing) - 1
           /\ Changing
<1>1. t \in Syncing /\ Syncing' = Syncing \ {t}
  BY Ended DEF Syncing
<1>2. Cardinality(Syncing') = Cardinality(Syncing) - 1
  BY <1>1, Countable, FS_RemoveElement
<1> QED BY <1>1, <1>2 DEF Changing

\* While a change is on its way, every fill is spoiled; it stays so unless all is at rest.
LEMMA ChangingSpoils ==
    ASSUME Cached, Changing, Filling' => Filling,
           \/ \E v : SetCache(v)
           \/ \E hit \in BOOLEAN : Taint(hit)
           \/ UNCHANGED redisVars
    PROVE  FillIsFresh'
<1>1. ASSUME Filling', ~raced' PROVE FALSE
  <2>1. raced
    BY <1>1 DEF Cached, FillIsFresh
  <2>2. ~AtRest'
    BY <1>1 DEF AtRest
  <2>3. raced'
    BY <2>1, <2>2 DEF SetCache, Taint, redisVars
  <2> QED BY <1>1, <2>3
<1> QED BY <1>1 DEF FillIsFresh

\* Bringing a charge to the cache: the key is deleted, lowered, or spoiled, or a deduction
\* is queued.
LEMMA SyncInv == ASSUME Typed, IInv, NEW t \in Tasks, Sync(t) PROVE IInv'
<1>0. /\ stage[t] \in {"applied", "enqueue"}
      /\ UNCHANGED <<usage, queue, dedup, archive, holder, charges, balance, flight, breaker, cachePool, deleting>>
  BY DEF Sync, SyncInvalidate, SyncBegin, SyncQueue, SyncDirect, SyncPanics, pool, ledger, checkVars, chargeVars, queueVars
<1>1. /\ stage'[t] \in {"enqueue", "done"} /\ \A u \in Tasks : u # t => stage'[u] = stage[u]
      /\ \A u \in Tasks : result'[u] = "duplicate" => result[u] = "duplicate"
  <2>1. CASE SyncBegin(t)
    BY <2>1, Moved DEF SyncBegin
  <2>2. CASE End(t, "billed")
    BY <2>2, Ended
  <2> QED BY <2>1, <2>2 DEF Sync, SyncInvalidate, SyncQueue, SyncDirect, SyncPanics
<1>2. Waiting'
  BY <1>0, <1>1, WaitingKept DEF IInv
<1>3. Books'
  BY <1>0, <1>1, BooksKept DEF IInv, Claiming
<1>4. HalfOpenIsProbed'
  BY <1>0, <1>1, ProbedKept DEF IInv, Probing
<1>5. Cached'
  <2>0. /\ \A d \in Deducts : d.task \in Tasks /\ d.task # t
        /\ \A d \in Deducts : d.amount = 1 /\ stage'[d.task] = "done"
    <3>1. \A d \in Deducts : d.task \in Tasks /\ stage[d.task] = "done" /\ d.amount = 1
      BY DEF Deducts, Typed, Writes, IInv, Cached, Deductions
    <3> QED BY <1>0, <1>1, <3>1
  <2>1. CASE SyncBegin(t)
    <3>1. Syncing' = Syncing
      BY <2>1, Moved DEF SyncBegin, Syncing
    <3> QED BY <1>0, <1>1, <2>1, <3>1, CachedKept DEF IInv, SyncBegin, redisVars, queueVars
  <2>2. CASE SyncQueue(t)
    <3> DEFINE w == Write("deduct", t, 1)
    <3>1. w.kind = "deduct" /\ w.amount = 1 /\ w.task = t /\ writes' = writes \union {w}
      BY <2>2 DEF SyncQueue, Write
    <3> HIDE DEF w
    <3>2. Deducts' = Deducts \union {w} /\ Sets' = Sets
      BY <3>1 DEF Deducts, Sets
    <3>3. w \notin Deducts /\ Cardinality(Deducts') = Cardinality(Deducts) + 1
      BY <2>0, <3>1, <3>2, Countable, FS_AddElement
    <3>4. Cardinality(Syncing') = Cardinality(Syncing) - 1 /\ Changing
      BY <1>0, <2>2, Synced DEF SyncQueue
    <3>5. Unsynced' = Unsynced
      BY <1>0, <3>3, <3>4, Countable DEF Unsynced, Typed
    <3>6. FillIsFresh'
      BY <1>0, <2>2, <3>2, <3>4, ChangingSpoils DEF IInv, SyncQueue, Filling
    <3>7. Deductions'
      <4>1. stage'[t] = "done"
        BY <2>2, Ended DEF SyncQueue
      <4> QED BY <2>0, <3>1, <3>2, <4>1 DEF Deductions
    <3>8. CacheIsExact'
      BY <1>0, <2>2, <3>5 DEF IInv, Cached, CacheIsExact, SyncQueue, redisVars
    <3> QED BY <3>6, <3>7, <3>8 DEF Cached
  <2>3. CASE /\ End(t, "billed") /\ UNCHANGED queueVars
             /\ SetCache(Absent) \/ SetCache(Deducted(1)) \/ Taint(TRUE)
    <3>1. Deducts' = Deducts /\ Sets' = Sets
      BY <2>3 DEF Deducts, Sets, queueVars
    <3>2. Cardinality(Syncing') = Cardinality(Syncing) - 1 /\ Changing
      BY <1>0, <2>3, Synced
    <3>3. Unsynced' = Unsynced - 1
      BY <1>0, <3>1, <3>2, Countable DEF Unsynced, Typed
    <3>4. FillIsFresh'
      BY <1>0, <2>3, <3>1, <3>2, ChangingSpoils DEF IInv, Filling
    <3>5. Deductions'
      BY <2>0, <3>1 DEF Deductions
    <3>6. CacheIsExact'
      <4>1. CASE SetCache(Absent) \/ Taint(TRUE)
        BY <4>1 DEF CacheIsExact, SetCache, Taint
      <4>2. CASE SetCache(Deducted(1)) /\ cache = Absent
        BY <4>2 DEF CacheIsExact, SetCache, Deducted
      <4>3. CASE SetCache(Deducted(1)) /\ cache # Absent
        <5>1. cache \in Int /\ cache' = cache - 1 /\ cache' # Absent /\ balance + Unsynced \in Int
          BY <4>3, CacheAssumption, Countable DEF SetCache, Deducted, Typed
        <5>2. ~raced' => ~raced
          BY <4>3, <5>1 DEF SetCache, Deducted
        <5>3. balance' + Unsynced' = (balance + Unsynced) - 1
          BY <1>0, <3>3, Countable DEF Typed
        <5>4. cache = balance + Unsynced => cache' = balance' + Unsynced'
          <6>1. cache' = cache - 1
            BY <5>1
          <6> QED BY <5>3, <6>1
        <5> QED BY <4>3, <5>2, <5>4 DEF IInv, Cached, CacheIsExact
      <4> QED BY <2>3, <4>1, <4>2, <4>3
    <3> QED BY <3>4, <3>5, <3>6 DEF Cached
  <2> QED BY <2>1, <2>2, <2>3 DEF Sync, SyncInvalidate, SyncDirect, SyncPanics
<1> QED BY <1>2, <1>3, <1>4, <1>5 DEF IInv

\* A worker writes the balance of a fill, or lowers the cached one.
LEMMA WriteInv == ASSUME Typed, IInv, NEW w \in writes, WriteCache(w) PROVE IInv'
<1>0. /\ UNCHANGED <<usage, stage, result, queue, dedup, archive, holder, charges, balance, flight, breaker, cachePool, deleting>>
      /\ writes' = writes \ {w} /\ w.kind \in {"set", "deduct"} /\ w.amount \in Int
  BY DEF WriteCache, task, pool, ledger, checkVars, chargeVars, Typed, Writes
<1>1. HalfOpenIsProbed'
  BY <1>0, ProbedKept DEF IInv
<1>2. Syncing' = Syncing
  BY <1>0 DEF Syncing
<1>3. Deductions'
  <2>1. Deducts' \subseteq Deducts
    BY <1>0 DEF Deducts
  <2> QED BY <1>0, <2>1 DEF IInv, Cached, Deductions
<1>4. CASE w.kind = "set"
  <2>1. Deducts' = Deducts /\ Sets' = Sets \ {w} /\ w \in Sets
    BY <1>0, <1>4 DEF Deducts, Sets
  <2>2. Unsynced' = Unsynced /\ (Changing' <=> Changing) /\ (Filling' => Filling) /\ Filling
    BY <1>0, <1>2, <2>1 DEF Unsynced, Changing, Filling
  <2>3. ~raced => w.amount = balance /\ ~Changing
    BY <2>1, <2>2 DEF IInv, Cached, FillIsFresh
  <2>4. CASE SetCache(w.amount)
    <3>1. cache' = w.amount /\ (~raced' => ~raced)
      BY <1>0, <2>4, CacheAssumption DEF SetCache
    <3>2. FillIsFresh'
      BY <1>0, <2>1, <2>2, <3>1 DEF IInv, Cached, FillIsFresh
    <3>3. CacheIsExact'
      <4>1. ~raced => Unsynced = 0
        BY <2>3, NothingUnsynced
      <4>2. ~raced => w.amount = balance + Unsynced
        BY <2>3, <4>1 DEF Typed
      <4> QED BY <1>0, <2>2, <3>1, <4>2 DEF CacheIsExact
    <3> QED BY <1>0, <1>1, <1>3, <3>2, <3>3, QuietInv DEF Cached
  <2>5. CASE Taint(w.kind = "deduct")
    <3>1. cache' = cache /\ (~raced' => ~raced)
      BY <1>4, <2>5 DEF Taint
    <3>2. FillIsFresh'
      BY <1>0, <2>1, <2>2, <3>1 DEF IInv, Cached, FillIsFresh
    <3>3. CacheIsExact'
      BY <1>0, <2>2, <3>1 DEF IInv, Cached, CacheIsExact
    <3> QED BY <1>0, <1>1, <1>3, <3>2, <3>3, QuietInv DEF Cached
  <2> QED BY <1>4, <2>4, <2>5 DEF WriteCache
<1>5. CASE w.kind = "deduct"
  <2>1. Deducts' = Deducts \ {w} /\ Sets' = Sets /\ w \in Deducts
    BY <1>0, <1>5 DEF Deducts, Sets
  <2>2. Cardinality(Deducts') = Cardinality(Deducts) - 1
    BY <2>1, Countable, FS_RemoveElement
  <2>3. Unsynced' = Unsynced - 1 /\ Changing /\ w.amount = 1
    BY <1>0, <1>2, <2>1, <2>2, Countable DEF Unsynced, Changing, Typed, IInv, Cached, Deductions
  <2>4. SetCache(Deducted(1)) \/ Taint(TRUE)
    BY <1>5, <2>3 DEF WriteCache, Taint
  <2>5. FillIsFresh'
    BY <1>0, <2>1, <2>3, <2>4, ChangingSpoils DEF IInv, Filling
  <2>6. CacheIsExact'
    <3>1. CASE Taint(TRUE)
      BY <3>1 DEF CacheIsExact, Taint
    <3>2. CASE SetCache(Deducted(1)) /\ cache = Absent
      BY <3>2 DEF CacheIsExact, SetCache, Deducted
    <3>3. CASE SetCache(Deducted(1)) /\ cache # Absent
      <4>1. cache \in Int /\ cache' = cache - 1 /\ cache' # Absent /\ balance + Unsynced \in Int
        BY <3>3, CacheAssumption, Countable DEF SetCache, Deducted, Typed
      <4>2. ~raced' => ~raced
        BY <3>3, <4>1 DEF SetCache, Deducted
      <4>3. balance' + Unsynced' = (balance + Unsynced) - 1
        BY <1>0, <2>3, Countable DEF Typed
      <4>4. cache = balance + Unsynced => cache' = balance' + Unsynced'
        <5>1. cache' = cache - 1
          BY <4>1
        <5> QED BY <4>3, <5>1
      <4> QED BY <3>3, <4>2, <4>4 DEF IInv, Cached, CacheIsExact
    <3> QED BY <2>4, <3>1, <3>2, <3>3
  <2> QED BY <1>0, <1>1, <1>3, <2>5, <2>6, QuietInv DEF Cached
<1> QED BY <1>0, <1>4, <1>5

\* The key expires, or the balance is recharged and the key deleted later.
LEMMA RechargeInv == ASSUME Typed, IInv, Expire \/ Recharge \/ Invalidate PROVE IInv'
<1>0. UNCHANGED <<usage, stage, result, queue, dedup, archive, holder, charges, flight, breaker, cachePool, writes>>
  BY DEF Expire, Recharge, Invalidate, billingVars, task, pool, ledger, checkVars, queueVars
<1>1. HalfOpenIsProbed'
  BY <1>0, ProbedKept DEF IInv
<1>2. Syncing' = Syncing /\ Deducts' = Deducts /\ Sets' = Sets /\ (Filling' <=> Filling)
  BY <1>0 DEF Syncing, Deducts, Sets, Filling
<1>3. Deductions'
  BY <1>0, <1>2 DEF IInv, Cached, Deductions
<1>4. CASE Expire
  <2>1. cache' = Absent /\ UNCHANGED <<balance, deleting>> /\ SetCache(Absent)
    BY <1>4 DEF Expire, SetCache, billingVars, ledger, chargeVars
  <2>2. (Changing' <=> Changing) /\ (Filling' => (~raced' => ~raced))
    BY <1>2, <2>1 DEF Changing, SetCache, AtRest
  <2>3. FillIsFresh'
    BY <1>0, <1>2, <2>1, <2>2 DEF IInv, Cached, FillIsFresh
  <2>4. CacheIsExact'
    BY <2>1 DEF CacheIsExact
  <2> QED BY <1>0, <1>1, <1>3, <2>3, <2>4, QuietInv DEF Cached
<1>5. CASE Recharge
  <2>1. cache' = cache /\ balance' = balance + 1 /\ deleting' = deleting + 1 /\ Taint(Filling)
    BY <1>5 DEF Recharge, Taint
  <2>2. FillIsFresh'
    BY <1>2, <2>1 DEF FillIsFresh, Taint
  <2>3. Unsynced' = Unsynced - 1
    <3>1. deleting \in Nat /\ Cardinality(Deducts) \in Nat /\ Cardinality(Syncing) \in Nat
      BY Countable DEF Typed
    <3> QED BY <1>2, <2>1, <3>1 DEF Unsynced
  <2>4. balance' + Unsynced' = balance + Unsynced
    <3>1. balance \in Int /\ Unsynced \in Int
      BY Countable DEF Typed
    <3> QED BY <2>1, <2>3, <3>1
  <2>5. ~raced' => ~raced
    BY <2>1 DEF Taint
  <2>6. CacheIsExact'
    BY <2>1, <2>4, <2>5 DEF IInv, Cached, CacheIsExact
  <2> QED BY <1>0, <1>1, <1>3, <2>2, <2>6, QuietInv DEF Cached
<1>6. CASE Invalidate
  <2>1. Changing /\ (SetCache(Absent) \/ Taint(TRUE))
    BY <1>6 DEF Invalidate, Changing
  <2>2. FillIsFresh'
    BY <1>2, <2>1, ChangingSpoils DEF IInv
  <2>3. CacheIsExact'
    BY <2>1 DEF CacheIsExact, SetCache, Taint
  <2> QED BY <1>0, <1>1, <1>3, <2>2, <2>3, QuietInv DEF Cached
<1> QED BY <1>4, <1>5, <1>6

\* The process dies: open transactions roll back, and what was on its way is lost.
LEMMA CrashInv == ASSUME Typed, IInv, CrashAll PROVE IInv'
<1>0. /\ UNCHANGED <<usage, dedup, archive, charges, balance, cache>> /\ flight' = NoFlight /\ writes' = {} /\ deleting' = 0
      /\ queue' = <<>> /\ breaker'.state = "closed"
      /\ \A k \in Keys : holder'[k] = NoTask
      /\ \A t \in Tasks : stage'[t] \in {"idle", "done"}
      /\ \A t \in Tasks : result'[t] = "duplicate" => result[t] = "duplicate"
  BY DEF CrashAll, Crash, Taint
<1>1. Waiting'
  BY <1>0 DEF Waiting
<1>2. Books'
  <2>1. Holders'
    BY <1>0 DEF Holders, Claiming
  <2>2. BilledAtMostOnce'
    BY <1>0 DEF IInv, Books, BilledAtMostOnce, KeyOf
  <2>3. ClaimedIffCharged'
    BY <1>0 DEF IInv, Books, ClaimedIffCharged, Claims, KeyOf, PrintOf
  <2>4. SkippedIsBilled'
    BY <1>0 DEF IInv, Books, SkippedIsBilled, KeyOf, PrintOf
  <2> QED BY <2>1, <2>2, <2>3, <2>4 DEF Books
<1>3. Cached'
  <2>1. Deducts' = {} /\ Sets' = {} /\ Syncing' = {} /\ ~Filling'
    BY <1>0 DEF Deducts, Sets, Syncing, Filling
  <2>2. Unsynced' = 0
    BY <1>0, <2>1, FS_EmptySet DEF Unsynced
  <2>3. ~raced' => ~raced /\ ~Changing
    BY DEF CrashAll, Taint
  <2>4. CacheIsExact'
    <3>1. ~Changing => Unsynced = 0
      BY NothingUnsynced
    <3>2. CASE ~Changing
      BY <1>0, <2>2, <2>3, <3>1, <3>2 DEF IInv, Cached, CacheIsExact
    <3>3. CASE Changing
      BY <2>3, <3>3 DEF CacheIsExact
    <3> QED BY <3>2, <3>3
  <2> QED BY <2>1, <2>4 DEF Cached, FillIsFresh, Deductions
<1>4. HalfOpenIsProbed'
  BY <1>0 DEF HalfOpenIsProbed
<1> QED BY <1>1, <1>2, <1>3, <1>4 DEF IInv

\* Nothing is billed, cached or waiting at the start.
LEMMA InitInv == Init => IInv
<1> SUFFICES ASSUME Init PROVE IInv
  OBVIOUS
<1>1. Waiting
  BY DEF Init, BillingInit, Waiting
<1>2. Books
  BY DEF Init, BillingInit, Books, Holders, BilledAtMostOnce, ClaimedIffCharged, Claims, SkippedIsBilled, Claiming
<1>3. Cached
  BY DEF Init, BillingInit, Cached, FillIsFresh, Filling, Sets, Deductions, Deducts, CacheIsExact
<1>4. HalfOpenIsProbed
  BY DEF Init, HalfOpenIsProbed
<1> QED BY <1>1, <1>2, <1>3, <1>4 DEF IInv

\* The invariant holds throughout, whatever fails, crashes, expires or is delivered late.
THEOREM Invariance == Spec => [](Typed /\ IInv)
<1>1. Typed /\ IInv /\ [Next]_vars => IInv'
  <2> SUFFICES ASSUME Typed, IInv, [Next]_vars PROVE IInv'
    OBVIOUS
  <2>1. CASE Next
    <3>1. ASSUME NEW t \in Tasks, Answer(t) PROVE IInv'
      BY <3>1, HitInv, MissInv, DecideInv DEF Answer
    <3>2. ASSUME NEW t \in Tasks, Billing(t) PROVE IInv'
      BY <3>2, SubmitInv, ClaimInv, CompareInv, CheckArchiveInv DEF Billing
    <3>3. ASSUME PoolStep PROVE IInv'
      BY <3>3, StartInv, TimerInv, CleanupInv DEF PoolStep
    <3> QED BY <2>1, <3>1, <3>2, <3>3, AllowInv, ChargeInv, SyncInv, LoadInv, PanicInv, TimerInv, WriteInv, RechargeInv, CrashInv DEF Next
  <2>2. CASE UNCHANGED vars
    <3>1. UNCHANGED <<usage, stage, result, queue, dedup, archive, holder, charges, balance, cache, raced, deleting, writes, flight, breaker, cachePool>>
      BY <2>2 DEF vars, billingVars, task, pool, ledger, redisVars, checkVars, queueVars, chargeVars
    <3>2. Cached'
      <4>1. Syncing' = Syncing
        BY <3>1 DEF Syncing
      <4> QED BY <3>1, <4>1, CachedKept DEF IInv
    <3>3. HalfOpenIsProbed'
      BY <3>1, ProbedKept DEF IInv
    <3> QED BY <3>1, <3>2, <3>3, QuietInv
  <2> QED BY <2>1, <2>2
<1> QED BY <1>1, InitTyped, InitInv, StepTyped, PTL DEF Spec

\* The usage of a request is charged at most once, however often it is submitted and
\* whatever answer is lost (claimUsageBillingKey, Apply).
THEOREM ChargedOnce == Spec => []BilledAtMostOnce
<1>1. IInv => BilledAtMostOnce
  BY DEF IInv, Books
<1> QED BY Invariance, <1>1, PTL

\* A claim is on record exactly when its cost is: the two commit together, and the
\* cleanup keeps the claim in the archive.
THEOREM ClaimsMatchCharges == Spec => []ClaimedIffCharged
<1>1. IInv => ClaimedIffCharged
  BY DEF IInv, Books
<1> QED BY Invariance, <1>1, PTL

\* A task that is told "already billed" is right about that.
THEOREM SkippedTasksAreBilled == Spec => []SkippedIsBilled
<1>1. IInv => SkippedIsBilled
  BY DEF IInv, Books
<1> QED BY Invariance, <1>1, PTL

\* The cached balance differs from the balance by the changes on their way to it, unless
\* a fill overlapped a change or a write was lost (syncBalanceCacheAfterDeduction,
\* setBalanceCache, InvalidateUserBalance).
THEOREM CachedBalanceIsExact == Spec => []CacheIsExact
<1>1. IInv => CacheIsExact
  BY DEF IInv, Cached
<1> QED BY Invariance, <1>1, PTL

\* Until the cache write queue is stopped, a half-open breaker has a request under way that
\* will close or open it (Allow, OnSuccess, OnFailure).
THEOREM BreakerIsProbed == Spec => []HalfOpenIsProbed
<1>1. IInv => HalfOpenIsProbed
  BY DEF IInv
<1> QED BY Invariance, <1>1, PTL
==============================================================================
