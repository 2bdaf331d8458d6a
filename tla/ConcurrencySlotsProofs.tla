----------------------- MODULE ConcurrencySlotsProofs -----------------------
(***************************************************************************)
(* Proofs about ConcurrencySlots for any number of server processes,       *)
(* requests and request ids, any limits and timeouts, and any number of    *)
(* faults.                                                                 *)
(***************************************************************************)
EXTENDS ConcurrencySlots, FiniteSetTheorems, TLAPS

----------------------------------------------------------------------------
(* The inductive invariant                                                 *)

\* A request that is being served is served by a running process; an idle one
\* holds nothing, and no clock runs for it or for a first attempt.
RequestsAreServed ==
    \A r \in Requests :
        /\ pc[r] # "idle" => home[r] \in up
        /\ pc[r] \in {"idle", "try", "count", "wait"} => token[r] = NoToken
        /\ pc[r] \in {"idle", "try"} => timer[r] = 0

\* The slot of a request is in the sorted set and has not expired, unless the
\* start of a process removed it: it is no older than the time the request has
\* held it, which ends before SlotTTL.
HoldersHaveSlots ==
    \A r \in Requests : token[r] # NoToken /\ r \notin evicted =>
        /\ token[r] \in slots
        /\ age[token[r]] <= timer[r]
        /\ timer[r] <= MaxRun

\* No two requests hold one slot.
SlotsAreUnshared ==
    \A q, r \in Requests : token[q] # NoToken /\ token[q] = token[r] => q = r

\* Only a request whose client is gone is forwarded without a slot.
ServedHoldSlots == \A r \in Requests : pc[r] = "run" => token[r] # NoToken \/ gone[r]

\* The members of the sorted set that have not expired are within the limit.
SlotsWithinLimit == IsFiniteSet(slots) /\ Cardinality(Live) <= MaxConcurrency

IInv == /\ RequestsAreServed /\ ServedHoldSlots
        /\ HoldersHaveSlots /\ SlotsAreUnshared /\ SlotsWithinLimit

----------------------------------------------------------------------------
(* Type correctness                                                        *)

Ages     == 0 .. SlotTTL
SlotsOK  == slots \subseteq Tokens /\ age \in [Tokens -> Ages]
CountOK  == waitCount \in 0 .. MaxWaiting /\ waitAge \in 0 .. WaitTTL
RequestOK ==
    /\ pc \in [Requests -> Steps]
    /\ home \in [Requests -> Instances \union {Nowhere}]
    /\ token \in [Requests -> Tokens \union {NoToken}]
    /\ timer \in [Requests -> Nat]
    /\ evicted \subseteq Requests
GoneOK   == gone \in [Requests -> BOOLEAN]

\* The parts of the type invariant
LEMMA TypeParts ==
    TypeOK <=> /\ SlotsOK /\ CountOK /\ RequestOK /\ GoneOK
               /\ up \subseteq Instances /\ faults \in 0 .. MaxFaults
BY DEF TypeOK, SlotsOK, CountOK, RequestOK, GoneOK, Ages

\* The scripts that write the sorted set leave request ids with ages in it.
LEMMA SetSlotsType ==
    ASSUME SlotsOK, NEW s \in SUBSET Tokens, SetSlots(s)
    PROVE  SlotsOK'
<1>1. 0 \in Ages
  BY TTLAssumption DEF Ages
<1> QED BY <1>1 DEF SlotsOK, SetSlots

\* Every step leaves the sorted set in its type.
LEMMA SlotsType ==
    ASSUME SlotsOK, TypeOK, Next
    PROVE  SlotsOK'
<1> USE DEF redis
<1>1. Live \subseteq Tokens /\ Unused \subseteq Tokens
  BY DEF Live, Unused, SlotsOK
<1>2. \A t \in Unused : Granted(t) => SlotsOK'
  BY <1>1, SetSlotsType DEF Granted
<1>3. Full => SlotsOK'
  BY <1>1, SetSlotsType DEF Full
<1>4. \A t : ReleaseSlot(t) => SlotsOK'
  <2> SUFFICES ASSUME NEW t, ReleaseSlot(t) PROVE SlotsOK'
    OBVIOUS
  <2>1. slots \ {t} \in SUBSET Tokens
    BY DEF SlotsOK
  <2> QED BY <2>1, SetSlotsType DEF ReleaseSlot
<1>5. UNCHANGED <<slots, age>> => SlotsOK'
  BY DEF SlotsOK
<1>6. CASE Tick
  <2>1. \A t \in Tokens : (t \in slots /\ age[t] < SlotTTL) => age[t] + 1 \in Ages
    BY TTLAssumption DEF SlotsOK, Ages
  <2> QED BY <1>6, <2>1 DEF Tick, SlotsOK
<1>7. CASE CleanupExpiredSlots
  BY <1>7, <1>1, SetSlotsType DEF CleanupExpiredSlots
<1>8. ASSUME NEW i \in Instances, ProcessStops(i) PROVE SlotsOK'
  BY <1>8, <1>5 DEF ProcessStops
<1>9. ASSUME NEW i \in Instances, ProcessStarts(i) PROVE SlotsOK'
  <2>1. RemoveOtherSlots => SlotsOK'
    BY TTLAssumption DEF RemoveOtherSlots, SlotsOK, Ages
  <2> QED BY <1>9, <1>5, <2>1 DEF ProcessStarts
<1>10. ASSUME NEW r \in Requests, Arrive(r) \/ ClientGone(r) \/ StopWaiting(r) PROVE SlotsOK'
  BY <1>10, <1>5 DEF Arrive, ClientGone, StopWaiting
<1>11. ASSUME NEW r \in Requests, TryAcquireSlot(r) \/ WaitForSlot(r) PROVE SlotsOK'
  BY <1>11, <1>2, <1>3, <1>5, Zenon DEF TryAcquireSlot, WaitForSlot
<1>12. ASSUME NEW r \in Requests, IncrementWaitCount(r) \/ DecrementWaitCount(r) PROVE SlotsOK'
  BY <1>12, <1>5, Zenon DEF IncrementWaitCount, DecrementWaitCount, SetCount, DecrementWait
<1>13. ASSUME NEW r \in Requests, ReleaseOnDone(r) \/ FinishRequest(r) PROVE SlotsOK'
  BY <1>13, <1>4, <1>5, Zenon DEF ReleaseOnDone, FinishRequest, Release
<1> QED BY <1>6, <1>7, <1>8, <1>9, <1>10, <1>11, <1>12, <1>13, Zenon DEF Next, RequestStep

\* Every step leaves the counter within the limit of the queue.
LEMMA CountType ==
    ASSUME CountOK, Next
    PROVE  CountOK'
<1> MaxWaiting \in Nat /\ WaitTTL \in Nat
  BY LimitAssumption, TTLAssumption
<1> USE DEF redis, CountOK
<1>1. UNCHANGED <<waitCount, waitAge>> => CountOK'
  OBVIOUS
<1>2. CASE Tick
  BY <1>2 DEF Tick
<1>3. CASE CleanupExpiredSlots
  BY <1>3 DEF CleanupExpiredSlots, SetSlots
<1>4. ASSUME NEW i \in Instances, ProcessStops(i) \/ ProcessStarts(i) PROVE CountOK'
  <2>1. DropCounters => CountOK'
    BY DEF DropCounters
  <2> QED BY <1>1, <1>4, <2>1, Zenon DEF ProcessStops, ProcessStarts
<1>5. ASSUME NEW r \in Requests, Arrive(r) \/ ClientGone(r) \/ StopWaiting(r) PROVE CountOK'
  BY <1>5 DEF Arrive, ClientGone, StopWaiting
<1>6. ASSUME NEW r \in Requests, TryAcquireSlot(r) \/ WaitForSlot(r) PROVE CountOK'
  BY <1>6, <1>1, Zenon DEF TryAcquireSlot, WaitForSlot, Granted, Full, SetSlots
<1>7. ASSUME NEW r \in Requests, IncrementWaitCount(r) PROVE CountOK'
  BY <1>7 DEF IncrementWaitCount, SetCount
<1>8. ASSUME NEW r \in Requests, DecrementWaitCount(r) PROVE CountOK'
  BY <1>8 DEF DecrementWaitCount, DecrementWait
<1>9. ASSUME NEW r \in Requests, ReleaseOnDone(r) \/ FinishRequest(r) PROVE CountOK'
  BY <1>9, <1>1, Zenon DEF ReleaseOnDone, FinishRequest, Release, ReleaseSlot, SetSlots
<1> QED BY <1>2, <1>3, <1>4, <1>5, <1>6, <1>7, <1>8, <1>9, Zenon DEF Next, RequestStep

\* Every step leaves the requests in their types.
LEMMA RequestType ==
    ASSUME RequestOK, up \subseteq Instances, Next
    PROVE  RequestOK'
<1> USE DEF request, RequestOK, Steps, Goto, Return, RemoveOtherSlots, Holders
<1>1. CASE Tick \/ CleanupExpiredSlots
  BY <1>1 DEF Tick, CleanupExpiredSlots
<1>2. ASSUME NEW i \in Instances, ProcessStops(i) PROVE RequestOK'
  BY <1>2 DEF ProcessStops
<1>3. ASSUME NEW i \in Instances, ProcessStarts(i) PROVE RequestOK'
  BY <1>3 DEF ProcessStarts
<1>4. ASSUME NEW r \in Requests, Arrive(r) \/ ClientGone(r) \/ StopWaiting(r) PROVE RequestOK'
  BY <1>4 DEF Arrive, ClientGone, StopWaiting
<1>5. ASSUME NEW r \in Requests, TryAcquireSlot(r) PROVE RequestOK'
  BY <1>5 DEF TryAcquireSlot, Unused
<1>6. ASSUME NEW r \in Requests, WaitForSlot(r) PROVE RequestOK'
  BY <1>6 DEF WaitForSlot, Unused
<1>7. ASSUME NEW r \in Requests, IncrementWaitCount(r) PROVE RequestOK'
  BY <1>7 DEF IncrementWaitCount
<1>8. ASSUME NEW r \in Requests, DecrementWaitCount(r) PROVE RequestOK'
  BY <1>8 DEF DecrementWaitCount
<1>9. ASSUME NEW r \in Requests, ReleaseOnDone(r) \/ FinishRequest(r) PROVE RequestOK'
  BY <1>9 DEF ReleaseOnDone, FinishRequest
<1> QED BY <1>1, <1>2, <1>3, <1>4, <1>5, <1>6, <1>7, <1>8, <1>9, Zenon DEF Next, RequestStep

\* Every step leaves the cancellation of each request a Boolean.
LEMMA GoneType ==
    ASSUME GoneOK, Next
    PROVE  GoneOK'
<1>1. UNCHANGED gone => GoneOK'
  BY Zenon DEF GoneOK
<1>2. ASSUME NEW r \in Requests, NEW b \in BOOLEAN, gone' = [gone EXCEPT ![r] = b] PROVE GoneOK'
  <2>1. ASSUME NEW S, NEW f \in [Requests -> S], NEW x \in S PROVE [f EXCEPT ![r] = x] \in [Requests -> S]
    OBVIOUS
  <2> QED BY <1>2, <2>1, Zenon DEF GoneOK
<1>3. ASSUME NEW r \in Requests, Return(r) PROVE GoneOK'
  BY <1>2, <1>3, Zenon DEF Return
<1>4. CASE Tick \/ CleanupExpiredSlots
  BY <1>1, <1>4, Zenon DEF Tick, CleanupExpiredSlots, request
<1>5. ASSUME NEW i \in Instances, ProcessStops(i) PROVE GoneOK'
  <2>1. ASSUME NEW S, NEW f \in [Requests -> S], NEW x \in S, NEW m
        PROVE [r \in Requests |-> IF r \in m THEN x ELSE f[r]] \in [Requests -> S]
    OBVIOUS
  <2>2. PICK m : gone' = [r \in Requests |-> IF r \in m THEN FALSE ELSE gone[r]]
    BY <1>5, Zenon DEF ProcessStops
  <2> QED BY <2>1, <2>2, Zenon DEF GoneOK
<1>6. ASSUME NEW i \in Instances, ProcessStarts(i) PROVE GoneOK'
  BY <1>1, <1>6, Zenon DEF ProcessStarts, request
<1>7. ASSUME NEW r \in Requests,
             Arrive(r) \/ ClientGone(r) \/ StopWaiting(r) \/ ReleaseOnDone(r)
      PROVE  GoneOK'
  BY <1>1, <1>2, <1>7, Zenon DEF Arrive, ClientGone, StopWaiting, ReleaseOnDone, Goto
<1>8. ASSUME NEW r \in Requests,
             \/ TryAcquireSlot(r) \/ WaitForSlot(r) \/ IncrementWaitCount(r)
             \/ DecrementWaitCount(r) \/ FinishRequest(r)
      PROVE  GoneOK'
  BY <1>1, <1>3, <1>8, Zenon DEF TryAcquireSlot, WaitForSlot, IncrementWaitCount, DecrementWaitCount,
                          FinishRequest, Goto, request
<1> QED BY <1>4, <1>5, <1>6, <1>7, <1>8, Zenon DEF Next, RequestStep

\* Every step leaves the processes and the faults in their bounds.
LEMMA RestType ==
    ASSUME up \subseteq Instances, faults \in 0 .. MaxFaults, Next
    PROVE  up' \subseteq Instances /\ faults' \in 0 .. MaxFaults
<1>1. UNCHANGED faults \/ Inject => faults' \in 0 .. MaxFaults
  BY SlotFaultAssumption DEF Inject
<1>2. UNCHANGED faults \/ Inject
  <2> USE DEF NoFault, Refused
  <2>1. CASE Tick \/ CleanupExpiredSlots
    BY <2>1 DEF Tick, CleanupExpiredSlots
  <2>2. ASSUME NEW i \in Instances, ProcessStops(i) \/ ProcessStarts(i) PROVE UNCHANGED faults \/ Inject
    BY <2>2 DEF ProcessStops, ProcessStarts
  <2>3. ASSUME NEW r \in Requests, Arrive(r) \/ ClientGone(r) \/ RequestStep(r)
        PROVE  UNCHANGED faults \/ Inject
    BY <2>3, Zenon DEF Arrive, ClientGone, RequestStep, TryAcquireSlot, IncrementWaitCount, WaitForSlot,
                StopWaiting, DecrementWaitCount, ReleaseOnDone, FinishRequest, Release
  <2> QED BY <2>1, <2>2, <2>3, Zenon DEF Next
<1>3. up' \subseteq Instances
  <2>1. CASE Tick \/ CleanupExpiredSlots
    BY <2>1 DEF Tick, CleanupExpiredSlots
  <2>2. ASSUME NEW i \in Instances, ProcessStops(i) \/ ProcessStarts(i) PROVE up' \subseteq Instances
    BY <2>2 DEF ProcessStops, ProcessStarts
  <2>3. ASSUME NEW r \in Requests, Arrive(r) \/ ClientGone(r) \/ RequestStep(r)
        PROVE  up' = up
    BY <2>3, Zenon DEF Arrive, ClientGone, RequestStep, TryAcquireSlot, IncrementWaitCount, WaitForSlot,
                StopWaiting, DecrementWaitCount, ReleaseOnDone, FinishRequest
  <2> QED BY <2>1, <2>2, <2>3, Zenon DEF Next
<1> QED BY <1>1, <1>2, <1>3

\* Redis and the requests always hold values the code allows; the counter of
\* waiting requests never passes the limit of the queue.
THEOREM TypeCorrect == Spec => []TypeOK
<1>1. Init => TypeOK
  BY LimitAssumption, TTLAssumption, SlotFaultAssumption DEF Init, TypeOK, Steps
<1>2. TypeOK /\ [Next]_vars => TypeOK'
  <2>1. TypeOK /\ UNCHANGED vars => TypeOK'
    BY DEF TypeOK, vars, redis, request
  <2>2. ASSUME TypeOK, Next PROVE TypeOK'
    <3>1. SlotsOK' /\ CountOK' /\ RequestOK' /\ GoneOK'
      BY <2>2, TypeParts, SlotsType, CountType, RequestType, GoneType
    <3>2. up' \subseteq Instances /\ faults' \in 0 .. MaxFaults
      BY <2>2, TypeParts, RestType
    <3> QED BY <3>1, <3>2 DEF TypeOK, SlotsOK, CountOK, RequestOK, GoneOK, Ages
  <2> QED BY <2>1, <2>2
<1> QED BY <1>1, <1>2, PTL DEF Spec

----------------------------------------------------------------------------
(* Requests and processes                                                  *)

\* Every step leaves the served requests on a running process, and those
\* without a slot without a clock.
LEMMA ServedStep ==
    ASSUME TypeOK, RequestsAreServed, Next
    PROVE  RequestsAreServed'
<1> /\ pc \in [Requests -> Steps] /\ home \in [Requests -> Instances \union {Nowhere}]
    /\ token \in [Requests -> Tokens \union {NoToken}] /\ timer \in [Requests -> Nat]
  BY DEF TypeOK
<1> USE DEF RequestsAreServed, request, Steps, Goto, Return
<1>1. CASE Tick
  BY <1>1 DEF Tick, Holders
<1>2. CASE CleanupExpiredSlots
  BY <1>2 DEF CleanupExpiredSlots
<1>3. ASSUME NEW i \in Instances, ProcessStops(i) PROVE RequestsAreServed'
  BY <1>3 DEF ProcessStops
<1>4. ASSUME NEW i \in Instances, ProcessStarts(i) PROVE RequestsAreServed'
  BY <1>4 DEF ProcessStarts
<1>5. ASSUME NEW r \in Requests, Arrive(r) \/ ClientGone(r) \/ StopWaiting(r) PROVE RequestsAreServed'
  BY <1>5 DEF Arrive, ClientGone, StopWaiting
<1>6. ASSUME NEW r \in Requests, TryAcquireSlot(r) PROVE RequestsAreServed'
  BY <1>6 DEF TryAcquireSlot
<1>7. ASSUME NEW r \in Requests, WaitForSlot(r) PROVE RequestsAreServed'
  BY <1>7 DEF WaitForSlot
<1>8. ASSUME NEW r \in Requests, IncrementWaitCount(r) PROVE RequestsAreServed'
  BY <1>8 DEF IncrementWaitCount
<1>9. ASSUME NEW r \in Requests, DecrementWaitCount(r) PROVE RequestsAreServed'
  BY <1>9 DEF DecrementWaitCount
<1>10. ASSUME NEW r \in Requests, ReleaseOnDone(r) \/ FinishRequest(r) PROVE RequestsAreServed'
  BY <1>10 DEF ReleaseOnDone, FinishRequest
<1> QED BY <1>1, <1>2, <1>3, <1>4, <1>5, <1>6, <1>7, <1>8, <1>9, <1>10, Zenon DEF Next, RequestStep

\* Every step leaves the requests that are forwarded without a slot without a client.
LEMMA ServedHoldStep ==
    ASSUME TypeOK, ServedHoldSlots, Next
    PROVE  ServedHoldSlots'
<1> /\ pc \in [Requests -> Steps] /\ token \in [Requests -> Tokens \union {NoToken}]
    /\ gone \in [Requests -> BOOLEAN]
  BY DEF TypeOK
<1> USE DEF ServedHoldSlots, request, Steps, Goto, Return
<1>1. CASE Tick \/ CleanupExpiredSlots
  BY <1>1 DEF Tick, CleanupExpiredSlots
<1>2. ASSUME NEW i \in Instances, ProcessStops(i) PROVE ServedHoldSlots'
  BY <1>2 DEF ProcessStops
<1>3. ASSUME NEW i \in Instances, ProcessStarts(i) PROVE ServedHoldSlots'
  BY <1>3 DEF ProcessStarts
<1>4. ASSUME NEW r \in Requests, Arrive(r) \/ ClientGone(r) \/ StopWaiting(r) PROVE ServedHoldSlots'
  BY <1>4 DEF Arrive, ClientGone, StopWaiting
<1>5. ASSUME NEW r \in Requests, TryAcquireSlot(r) PROVE ServedHoldSlots'
  BY <1>5, TokenAssumption DEF TryAcquireSlot, Unused
<1>6. ASSUME NEW r \in Requests, WaitForSlot(r) PROVE ServedHoldSlots'
  BY <1>6 DEF WaitForSlot
<1>7. ASSUME NEW r \in Requests, IncrementWaitCount(r) PROVE ServedHoldSlots'
  BY <1>7 DEF IncrementWaitCount
<1>8. ASSUME NEW r \in Requests, DecrementWaitCount(r) PROVE ServedHoldSlots'
  BY <1>8 DEF DecrementWaitCount
<1>9. ASSUME NEW r \in Requests, ReleaseOnDone(r) \/ FinishRequest(r) PROVE ServedHoldSlots'
  BY <1>9 DEF ReleaseOnDone, FinishRequest
<1> QED BY <1>1, <1>2, <1>3, <1>4, <1>5, <1>6, <1>7, <1>8, <1>9, Zenon DEF Next, RequestStep

----------------------------------------------------------------------------
(* What the scripts do to the sorted set                                   *)

\* Live members are members; there are finitely many.
LEMMA LiveIsFinite ==
    ASSUME SlotsWithinLimit
    PROVE  IsFiniteSet(Live) /\ Cardinality(Live) \in Nat
BY FS_Subset, FS_CardinalityType DEF SlotsWithinLimit, Live

\* Fewer live members are within the limit too.
LEMMA FewerLive ==
    ASSUME SlotsWithinLimit, IsFiniteSet(slots'), Live' \subseteq Live
    PROVE  SlotsWithinLimit'
<1>1. Cardinality(Live') <= Cardinality(Live)
  BY LiveIsFinite, FS_Subset
<1>2. Cardinality(Live') \in Nat
  BY LiveIsFinite, FS_Subset, FS_CardinalityType
<1>3. \A a, b, c \in Nat : a <= b /\ b <= c => a <= c
  OBVIOUS
<1>4. Cardinality(Live) \in Nat /\ MaxConcurrency \in Nat
  BY LiveIsFinite, LimitAssumption
<1>5. Cardinality(Live') <= MaxConcurrency
  BY <1>1, <1>2, <1>3, <1>4, Zenon DEF SlotsWithinLimit
<1> QED BY <1>5 DEF SlotsWithinLimit

\* A script that only removes members keeps the ages of the others.
LEMMA TrimSlots ==
    ASSUME TypeOK, SlotsWithinLimit, NEW s \in SUBSET slots, SetSlots(s)
    PROVE  SlotsWithinLimit' /\ slots' = s /\ \A t \in s : age'[t] = age[t]
<1>1. slots' = s /\ \A t \in s : age'[t] = age[t]
  BY DEF SetSlots, TypeOK
<1>2. IsFiniteSet(slots')
  BY <1>1, FS_Subset DEF SlotsWithinLimit
<1>3. Live' \subseteq Live
  BY <1>1 DEF Live
<1> QED BY <1>1, <1>2, <1>3, FewerLive

\* acquireScript adds one member, of age zero, when there is room for it.
LEMMA GrantSlot ==
    ASSUME TypeOK, SlotsWithinLimit, NEW t \in Unused, Granted(t)
    PROVE  /\ SlotsWithinLimit'
           /\ slots' = Live \union {t} /\ t \notin slots
           /\ age'[t] = 0 /\ \A u \in Live : age'[u] = age[u]
<1>1. /\ slots' = Live \union {t} /\ t \notin slots
      /\ age'[t] = 0 /\ \A u \in Live : age'[u] = age[u]
  BY DEF Granted, SetSlots, Unused, Live, TypeOK
<1>2. IsFiniteSet(Live) /\ Cardinality(Live) \in Nat
  BY LiveIsFinite
<1>3. IsFiniteSet(Live \union {t}) /\ Cardinality(Live \union {t}) <= MaxConcurrency
  <2>1. t \notin Live
    BY <1>1 DEF Live
  <2>2. IsFiniteSet(Live \union {t}) /\ Cardinality(Live \union {t}) = Cardinality(Live) + 1
    BY <1>2, <2>1, FS_AddElement
  <2>3. Cardinality(Live) < MaxConcurrency
    BY DEF Granted, HasRoom
  <2> QED BY <1>2, <2>2, <2>3, LimitAssumption
<1>4. Live' = Live \union {t}
  <2>1. 0 < SlotTTL
    BY TTLAssumption
  <2> QED BY <1>1, <2>1 DEF Live
<1> QED BY <1>1, <1>3, <1>4 DEF SlotsWithinLimit

\* The slot of a holder has not expired.
LEMMA HoldersAreLive ==
    ASSUME TypeOK, HoldersHaveSlots, NEW r \in Requests, token[r] # NoToken, r \notin evicted
    PROVE  token[r] \in Live
<1>1. token[r] \in slots /\ age[token[r]] <= timer[r] /\ timer[r] <= MaxRun
  BY DEF HoldersHaveSlots
<1>2. age[token[r]] \in Nat /\ timer[r] \in Nat /\ MaxRun \in Nat /\ SlotTTL \in Nat /\ MaxRun < SlotTTL
  BY <1>1, TTLAssumption DEF TypeOK
<1>3. age[token[r]] < SlotTTL
  BY <1>1, <1>2
<1> QED BY <1>1, <1>3 DEF Live

----------------------------------------------------------------------------
(* Holders keep their slots                                                *)

\* What a step must leave alone of the requests it does not serve
Stays(r) == token'[r] = token[r] /\ timer'[r] = timer[r] /\ (r \in evicted => r \in evicted')
HolderKept(r) == /\ Stays(r)
                 /\ token[r] # NoToken /\ r \notin evicted =>
                       token[r] \in slots' /\ age'[token[r]] = age[token[r]]

\* Such a request still has its slot.
LEMMA KeptHasSlot ==
    ASSUME HoldersHaveSlots, NEW r \in Requests, HolderKept(r), token'[r] # NoToken, r \notin evicted'
    PROVE  token'[r] \in slots' /\ age'[token'[r]] <= timer'[r] /\ timer'[r] <= MaxRun
BY DEF HoldersHaveSlots, HolderKept, Stays

\* A step that gives nobody a slot, and leaves alone those who have one, keeps
\* the holders' slots.
LEMMA NobodyGains ==
    ASSUME HoldersHaveSlots, SlotsAreUnshared,
           \A r \in Requests : token'[r] = NoToken \/ HolderKept(r)
    PROVE  HoldersHaveSlots' /\ SlotsAreUnshared'
<1>1. HoldersHaveSlots'
  BY KeptHasSlot DEF HoldersHaveSlots
<1>2. \A r \in Requests : token'[r] = NoToken \/ token'[r] = token[r]
  BY DEF HolderKept, Stays
<1>3. SlotsAreUnshared'
  BY <1>2 DEF SlotsAreUnshared
<1> QED BY <1>1, <1>3

\* A request that is granted a slot shares it with nobody.
LEMMA OneGains ==
    ASSUME TypeOK, HoldersHaveSlots, SlotsAreUnshared, NEW r \in Requests, NEW t \in Unused,
           t \in slots', age'[t] = 0, t \notin slots,
           token' = [token EXCEPT ![r] = t], timer'[r] = 0,
           \A q \in Requests \ {r} : HolderKept(q)
    PROVE  HoldersHaveSlots' /\ SlotsAreUnshared'
<1>1. token'[r] = t /\ \A q \in Requests \ {r} : token'[q] = token[q]
  BY DEF TypeOK
<1>2. \A q \in Requests \ {r} : token'[q] # t
  BY <1>1, TokenAssumption DEF Holders, Unused
<1>3. SlotsAreUnshared'
  BY <1>1, <1>2 DEF SlotsAreUnshared
<1>4. ASSUME NEW q \in Requests, token'[q] # NoToken, q \notin evicted'
      PROVE  token'[q] \in slots' /\ age'[token'[q]] <= timer'[q] /\ timer'[q] <= MaxRun
  <2>1. CASE q = r
    <3>1. 0 <= MaxRun
      BY TTLAssumption
    <3>2. age'[token'[q]] = 0 /\ timer'[q] = 0 /\ token'[q] \in slots'
      BY <1>1, <2>1
    <3> QED BY <3>1, <3>2
  <2>2. CASE q # r
    BY <1>4, <2>2, KeptHasSlot
  <2> QED BY <2>1, <2>2
<1>5. HoldersHaveSlots'
  BY <1>4 DEF HoldersHaveSlots
<1> QED BY <1>3, <1>5

\* The invariant of the sorted set and the slots of the holders
SlotInv == HoldersHaveSlots /\ SlotsAreUnshared /\ SlotsWithinLimit

\* An attempt at a slot keeps the slots of the other requests.
LEMMA AttemptKeeps ==
    ASSUME TypeOK, SlotInv, NEW q \in Requests, Stays(q),
           (\E t \in Unused : Granted(t)) \/ Full \/ UNCHANGED redis
    PROVE  HolderKept(q)
<1> SUFFICES ASSUME token[q] # NoToken, q \notin evicted PROVE token[q] \in slots' /\ age'[token[q]] = age[token[q]]
  BY DEF HolderKept
<1>1. token[q] \in Live
  BY HoldersAreLive DEF SlotInv
<1>2. CASE \E t \in Unused : Granted(t)
  BY <1>1, <1>2, GrantSlot DEF SlotInv
<1>3. CASE Full
  <2>1. Live \in SUBSET slots
    BY DEF Live
  <2>2. slots' = Live /\ \A t \in Live : age'[t] = age[t]
    BY <1>3, <2>1, TrimSlots DEF Full, SlotInv
  <2> QED BY <1>1, <2>2
<1>4. CASE UNCHANGED redis
  BY <1>1, <1>4 DEF redis, Live
<1> QED BY <1>2, <1>3, <1>4

\* An attempt at a slot, granted or not, stays within the limit.
LEMMA AttemptWithinLimit ==
    ASSUME TypeOK, SlotInv,
           (\E t \in Unused : Granted(t)) \/ Full \/ UNCHANGED redis
    PROVE  SlotsWithinLimit'
<1>1. CASE \E t \in Unused : Granted(t)
  BY <1>1, GrantSlot DEF SlotInv
<1>2. CASE Full
  <2>1. Live \in SUBSET slots
    BY DEF Live
  <2> QED BY <1>2, <2>1, TrimSlots DEF Full, SlotInv
<1>3. CASE UNCHANGED redis
  BY <1>3 DEF redis, Live, SlotInv, SlotsWithinLimit
<1> QED BY <1>1, <1>2, <1>3

\* A step that leaves the sorted set alone stays within the limit.
LEMMA SameSlots == SlotsWithinLimit /\ UNCHANGED <<slots, age>> => SlotsWithinLimit'
BY DEF SlotsWithinLimit, Live

\* Giving one slot back keeps those of the others.
LEMMA ReleaseKeeps ==
    ASSUME TypeOK, SlotInv, NEW r \in Requests, token[r] # NoToken, Release(r)
    PROVE  /\ SlotsWithinLimit'
           /\ \A q \in Requests \ {r} : Stays(q) => HolderKept(q)
<1>1. CASE ReleaseSlot(token[r])
  <2>1. slots \ {token[r]} \in SUBSET slots
    OBVIOUS
  <2>2. SlotsWithinLimit' /\ slots' = slots \ {token[r]} /\ \A t \in slots' : age'[t] = age[t]
    BY <1>1, <2>1, TrimSlots DEF ReleaseSlot, SlotInv
  <2> QED BY <2>2 DEF HolderKept, SlotInv, SlotsAreUnshared, HoldersHaveSlots
<1>2. CASE UNCHANGED redis
  BY <1>2, SameSlots DEF redis, HolderKept, SlotInv, HoldersHaveSlots
<1> QED BY <1>1, <1>2 DEF Release

\* A step that moves one request without a slot change keeps the invariant.
LEMMA SlotlessStep ==
    ASSUME TypeOK, SlotInv, NEW r \in Requests, UNCHANGED <<slots, age>>,
           \A q \in Requests \ {r} : Stays(q),
           token'[r] = NoToken \/ Stays(r)
    PROVE  SlotInv'
<1>1. \A q \in Requests : token'[q] = NoToken \/ HolderKept(q)
  BY DEF HolderKept, SlotInv, HoldersHaveSlots
<1> QED BY <1>1, NobodyGains, SameSlots DEF SlotInv

\* TryAcquireSlot keeps the invariant.
LEMMA TryStep ==
    ASSUME TypeOK, RequestsAreServed, SlotInv, NEW r \in Requests, TryAcquireSlot(r)
    PROVE  SlotInv'
<1> token \in [Requests -> Tokens \union {NoToken}] /\ timer \in [Requests -> Nat]
  BY DEF TypeOK
<1>1. \A q \in Requests \ {r} : Stays(q)
  BY DEF TryAcquireSlot, Goto, Return, Stays
<1>2. (\E t \in Unused : Granted(t)) \/ Full \/ UNCHANGED redis
  BY Zenon DEF TryAcquireSlot
<1>3. SlotsWithinLimit' /\ \A q \in Requests \ {r} : HolderKept(q)
  BY <1>1, <1>2, AttemptKeeps, AttemptWithinLimit
<1>4. token[r] = NoToken /\ timer[r] = 0
  BY DEF TryAcquireSlot, RequestsAreServed
<1>5. \/ token'[r] = NoToken
      \/ \E t \in Unused : Granted(t) /\ token' = [token EXCEPT ![r] = t] /\ timer'[r] = 0
  BY <1>4 DEF TryAcquireSlot, Goto, Return
<1>6. CASE token'[r] = NoToken
  BY <1>3, <1>6, NobodyGains DEF SlotInv
<1>7. ASSUME NEW t \in Unused, Granted(t), token' = [token EXCEPT ![r] = t], timer'[r] = 0
      PROVE  SlotInv'
  <2>1. t \in slots' /\ age'[t] = 0 /\ t \notin slots
    BY <1>7, GrantSlot DEF SlotInv
  <2> QED BY <1>3, <1>7, <2>1, OneGains DEF SlotInv
<1> QED BY <1>5, <1>6, <1>7

\* A round of the wait loop keeps the invariant.
LEMMA WaitStep ==
    ASSUME TypeOK, RequestsAreServed, SlotInv, NEW r \in Requests, WaitForSlot(r)
    PROVE  SlotInv'
<1> token \in [Requests -> Tokens \union {NoToken}] /\ timer \in [Requests -> Nat]
  BY DEF TypeOK
<1>1. \A q \in Requests \ {r} : Stays(q)
  BY DEF WaitForSlot, Goto, request, Stays
<1>2. (\E t \in Unused : Granted(t)) \/ Full \/ UNCHANGED redis
  BY Zenon DEF WaitForSlot
<1>3. SlotsWithinLimit' /\ \A q \in Requests \ {r} : HolderKept(q)
  BY <1>1, <1>2, AttemptKeeps, AttemptWithinLimit
<1>4. token[r] = NoToken
  BY DEF WaitForSlot, RequestsAreServed
<1>5. \/ token'[r] = NoToken
      \/ \E t \in Unused : Granted(t) /\ token' = [token EXCEPT ![r] = t] /\ timer'[r] = 0
  BY <1>4 DEF WaitForSlot, Goto, request
<1>6. CASE token'[r] = NoToken
  BY <1>3, <1>6, NobodyGains DEF SlotInv
<1>7. ASSUME NEW t \in Unused, Granted(t), token' = [token EXCEPT ![r] = t], timer'[r] = 0
      PROVE  SlotInv'
  <2>1. t \in slots' /\ age'[t] = 0 /\ t \notin slots
    BY <1>7, GrantSlot DEF SlotInv
  <2> QED BY <1>3, <1>7, <2>1, OneGains DEF SlotInv
<1> QED BY <1>5, <1>6, <1>7

\* Time passes alike for a slot and for the request that holds it.
LEMMA TickStep ==
    ASSUME TypeOK, SlotInv, Tick
    PROVE  SlotInv'
<1> /\ token \in [Requests -> Tokens \union {NoToken}] /\ timer \in [Requests -> Nat]
    /\ slots \subseteq Tokens /\ age \in [Tokens -> 0 .. SlotTTL] /\ SlotTTL \in Nat /\ MaxRun \in Nat
  BY TTLAssumption DEF TypeOK
<1>1. slots' = slots /\ token' = token /\ evicted' = evicted
  BY DEF Tick
<1>2. \A t \in Tokens : age[t] \in Nat /\ (age'[t] = age[t] \/ age'[t] = age[t] + 1)
  BY DEF Tick
<1>3. \A r \in Requests : token[r] # NoToken => timer[r] < MaxRun /\ timer'[r] = timer[r] + 1
  BY DEF Tick, Holders
<1>4. ASSUME NEW r \in Requests, token[r] # NoToken, r \notin evicted
      PROVE  token[r] \in slots /\ age'[token[r]] <= timer'[r] /\ timer'[r] <= MaxRun
  <2>1. token[r] \in slots /\ age[token[r]] <= timer[r] /\ token[r] \in Tokens
    BY <1>4 DEF SlotInv, HoldersHaveSlots
  <2>2. timer[r] \in Nat /\ age[token[r]] \in Nat
    BY <2>1
  <2>3. timer[r] < MaxRun /\ timer'[r] = timer[r] + 1
    BY <1>3, <1>4
  <2>4. age'[token[r]] = age[token[r]] \/ age'[token[r]] = age[token[r]] + 1
    BY <1>2, <2>1
  <2> QED BY <2>1, <2>2, <2>3, <2>4
<1>5. HoldersHaveSlots' /\ SlotsAreUnshared'
  BY <1>1, <1>4 DEF HoldersHaveSlots, SlotsAreUnshared, SlotInv
<1>6. SlotsWithinLimit'
  <2>1. Live' \subseteq Live
    BY <1>1, <1>2 DEF Live
  <2> QED BY <1>1, <2>1, FewerLive DEF SlotInv, SlotsWithinLimit
<1> QED BY <1>5, <1>6 DEF SlotInv

\* The start of a process takes the slots of all holders, or of none.
LEMMA StartStep ==
    ASSUME TypeOK, SlotInv, NEW i \in Instances, ProcessStarts(i)
    PROVE  SlotInv'
<1>1. token' = token /\ timer' = timer
  BY DEF ProcessStarts
<1>2. (UNCHANGED <<slots, age, evicted>>) \/ \A r \in Requests : token[r] # NoToken => r \in evicted'
  BY DEF ProcessStarts, RemoveOtherSlots, redis, Holders
<1>3. HoldersHaveSlots' /\ SlotsAreUnshared'
  BY <1>1, <1>2 DEF SlotInv, HoldersHaveSlots, SlotsAreUnshared
<1>4. SlotsWithinLimit'
  <2>1. CASE RemoveOtherSlots
    <3>1. IsFiniteSet(slots')
      BY <2>1, FS_EmptySet DEF RemoveOtherSlots
    <3>2. Live' \subseteq Live
      BY <2>1 DEF RemoveOtherSlots, Live
    <3> QED BY <3>1, <3>2, FewerLive DEF SlotInv
  <2>2. CASE UNCHANGED redis
    BY <2>2, SameSlots DEF redis, SlotInv
  <2> QED BY <2>1, <2>2 DEF ProcessStarts
<1> QED BY <1>3, <1>4 DEF SlotInv

\* Every step keeps the holders' slots, unshared and within the limit.
LEMMA SlotInvStep ==
    ASSUME TypeOK, RequestsAreServed, SlotInv, Next
    PROVE  SlotInv'
<1> /\ token \in [Requests -> Tokens \union {NoToken}] /\ timer \in [Requests -> Nat]
  BY DEF TypeOK
<1>1. CASE Tick
  BY <1>1, TickStep
<1>2. CASE CleanupExpiredSlots
  <2>1. Live \in SUBSET slots
    BY DEF Live
  <2>2. SlotsWithinLimit' /\ slots' = Live /\ \A t \in Live : age'[t] = age[t]
    BY <1>2, <2>1, TrimSlots DEF CleanupExpiredSlots, SlotInv
  <2>3. token' = token /\ timer' = timer /\ evicted' = evicted
    BY <1>2 DEF CleanupExpiredSlots, request
  <2>4. \A r \in Requests : HolderKept(r)
    BY <2>2, <2>3, HoldersAreLive DEF HolderKept, Stays, SlotInv
  <2> QED BY <2>2, <2>4, NobodyGains DEF SlotInv
<1>3. ASSUME NEW i \in Instances, ProcessStops(i) PROVE SlotInv'
  <2>1. UNCHANGED <<slots, age>>
    BY <1>3 DEF ProcessStops, redis
  <2>2. \A r \in Requests : token'[r] = NoToken \/ Stays(r)
    BY <1>3 DEF ProcessStops, Stays
  <2>3. \A r \in Requests : token'[r] = NoToken \/ HolderKept(r)
    BY <2>1, <2>2 DEF HolderKept, SlotInv, HoldersHaveSlots
  <2> QED BY <2>1, <2>3, NobodyGains, SameSlots DEF SlotInv
<1>4. ASSUME NEW i \in Instances, ProcessStarts(i) PROVE SlotInv'
  BY <1>4, StartStep
<1>5. ASSUME NEW r \in Requests, Arrive(r) \/ ClientGone(r) PROVE SlotInv'
  BY <1>5, SlotlessStep DEF Arrive, ClientGone, redis, Stays
<1>6. ASSUME NEW r \in Requests, StopWaiting(r) PROVE SlotInv'
  <2>1. token[r] = NoToken
    BY <1>6 DEF StopWaiting, RequestsAreServed
  <2> QED BY <1>6, <2>1, SlotlessStep DEF StopWaiting, Goto, redis, Stays
<1>7. ASSUME NEW r \in Requests, TryAcquireSlot(r) \/ WaitForSlot(r) PROVE SlotInv'
  BY <1>7, TryStep, WaitStep
<1>8. ASSUME NEW r \in Requests, IncrementWaitCount(r) PROVE SlotInv'
  <2>1. token[r] = NoToken
    BY <1>8 DEF IncrementWaitCount, RequestsAreServed
  <2>2. UNCHANGED <<slots, age>>
    BY <1>8, Zenon DEF IncrementWaitCount, SetCount, redis
  <2>3. token'[r] = NoToken /\ \A q \in Requests \ {r} : Stays(q)
    BY <1>8, <2>1 DEF IncrementWaitCount, Goto, Return, Stays
  <2> QED BY <2>2, <2>3, SlotlessStep
<1>9. ASSUME NEW r \in Requests, DecrementWaitCount(r) PROVE SlotInv'
  <2>1. UNCHANGED <<slots, age>>
    BY <1>9, Zenon DEF DecrementWaitCount, DecrementWait, redis
  <2>2. /\ token'[r] = NoToken \/ Stays(r)
        /\ \A q \in Requests \ {r} : Stays(q)
    BY <1>9 DEF DecrementWaitCount, Return, Stays
  <2> QED BY <2>1, <2>2, SlotlessStep
<1>10. ASSUME NEW r \in Requests, ReleaseOnDone(r) PROVE SlotInv'
  <2>1. token'[r] = NoToken /\ \A q \in Requests \ {r} : Stays(q)
    BY <1>10 DEF ReleaseOnDone, Stays
  <2>2. token[r] # NoToken /\ Release(r)
    BY <1>10 DEF ReleaseOnDone
  <2> QED BY <2>1, <2>2, ReleaseKeeps, NobodyGains DEF SlotInv
<1>11. ASSUME NEW r \in Requests, FinishRequest(r) PROVE SlotInv'
  <2>1. token'[r] = NoToken /\ \A q \in Requests \ {r} : Stays(q)
    BY <1>11 DEF FinishRequest, Return, Stays
  <2>2. CASE token[r] # NoToken /\ Release(r)
    BY <2>1, <2>2, ReleaseKeeps, NobodyGains DEF SlotInv
  <2>3. CASE UNCHANGED redis
    BY <2>1, <2>3, SlotlessStep DEF redis
  <2> QED BY <1>11, <2>2, <2>3 DEF FinishRequest
<1> QED BY <1>1, <1>2, <1>3, <1>4, <1>5, <1>6, <1>7, <1>8, <1>9, <1>10, <1>11, Zenon DEF Next, RequestStep

----------------------------------------------------------------------------
(* The theorems                                                            *)

\* The inductive invariant holds in every reachable state: in particular a request
\* keeps its unexpired slot until it gives it back, unless a process starts.
THEOREM Invariance == Spec => []IInv
<1>1. Init => IInv
  <2> SUFFICES ASSUME Init PROVE IInv
    OBVIOUS
  <2>1. RequestsAreServed /\ ServedHoldSlots /\ HoldersHaveSlots /\ SlotsAreUnshared
    BY DEF Init, RequestsAreServed, ServedHoldSlots, HoldersHaveSlots, SlotsAreUnshared
  <2>2. Live = {}
    BY DEF Init, Live
  <2>3. SlotsWithinLimit
    BY <2>2, FS_EmptySet, LimitAssumption DEF Init, SlotsWithinLimit
  <2> QED BY <2>1, <2>3 DEF IInv
<1>2. TypeOK /\ IInv /\ [Next]_vars => IInv'
  <2>1. IInv /\ UNCHANGED vars => IInv'
    BY DEF IInv, RequestsAreServed, ServedHoldSlots, HoldersHaveSlots, SlotsAreUnshared, SlotsWithinLimit,
           Live, vars, redis, request
  <2>2. ASSUME TypeOK, IInv, Next PROVE IInv'
    <3>1. RequestsAreServed /\ ServedHoldSlots /\ SlotInv
      BY <2>2 DEF IInv, SlotInv
    <3>2. RequestsAreServed' /\ ServedHoldSlots' /\ SlotInv'
      BY <2>2, <3>1, ServedStep, ServedHoldStep, SlotInvStep
    <3> QED BY <3>2 DEF IInv, SlotInv
  <2> QED BY <2>1, <2>2
<1> QED BY <1>1, <1>2, TypeCorrect, PTL DEF Spec

\* No more requests are forwarded than MaxConcurrency allows, by any number of
\* processes, through failed and repeated commands, disconnects, slots that expire,
\* stops and restarts, except requests whose client went away and requests whose
\* slot the start of a process removed (acquireScript, releaseFunc).
THEOREM ConcurrencyIsBounded == Spec => []ConcurrencyBound
<1>1. TypeOK /\ IInv => ConcurrencyBound
  <2> DEFINE S == {r \in Requests : Served(r) /\ ~Detached(r) /\ r \notin evicted}
             f == [r \in S |-> token[r]]
  <2> SUFFICES ASSUME TypeOK, IInv PROVE Cardinality(S) <= MaxConcurrency
    BY DEF ConcurrencyBound
  <2>0. \A r \in S : r \in Requests /\ token[r] # NoToken /\ r \notin evicted
    BY DEF IInv, ServedHoldSlots, Served, Detached
  <2>1. \A r \in S : token[r] \in Live
    BY <2>0, HoldersAreLive DEF IInv
  <2>2. \A q, r \in S : token[q] = token[r] => q = r
    BY <2>0 DEF IInv, SlotsAreUnshared
  <2> HIDE DEF S
  <2>3. f \in Injection(S, Live)
    BY <2>1, <2>2 DEF Injection, IsInjective
  <2>4. IsFiniteSet(Live) /\ Cardinality(Live) \in Nat /\ Cardinality(Live) <= MaxConcurrency
    BY LiveIsFinite DEF IInv, SlotsWithinLimit
  <2>5. IsFiniteSet(S) /\ Cardinality(S) <= Cardinality(Live)
    BY <2>3, <2>4, FS_Injection
  <2>6. Cardinality(S) \in Nat
    BY <2>5, FS_CardinalityType
  <2> QED BY <2>4, <2>5, <2>6, LimitAssumption
<1> QED BY <1>1, TypeCorrect, Invariance, PTL
=============================================================================
