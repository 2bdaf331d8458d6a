-------------------------- MODULE ConcurrencySlots --------------------------
(***************************************************************************)
(* The concurrency limit of one user or one upstream account: a Redis      *)
(* sorted set of slots, a Redis counter of waiting requests, and the       *)
(* gateway requests that go through them.  A request tries for a slot,     *)
(* else joins the wait queue and retries until a timeout; it holds the     *)
(* slot while it is forwarded, and gives it back when it ends or when its  *)
(* client goes away.  The steps are those of a user slot; an account slot  *)
(* runs the same scripts and the same wait loop.                           *)
(*                                                                         *)
(* Time is counted in ticks, as ages.                                      *)
(***************************************************************************)
EXTENDS Integers, FiniteSets

CONSTANTS
    Instances,       \* server processes
    Requests,        \* concurrent requests
    Tokens,          \* request ids; generateRequestID never repeats one in use
    MaxConcurrency,  \* slots
    MaxWaiting,      \* limit of the wait queue
    SlotTTL,         \* validity of a slot that is not given back
    WaitTTL,         \* EXPIRE of the counter, refreshed by every increment
    WaitTimeout,     \* longest wait
    MaxRun,          \* longest time from getting the slot to the end of the request
    MaxFaults,       \* bound on injected faults
    NoToken, Nowhere \* no slot, no process

ASSUME LimitAssumption == MaxConcurrency \in Nat \ {0} /\ MaxWaiting \in Nat \ {0}
ASSUME TTLAssumption ==
    /\ SlotTTL \in Nat /\ WaitTTL \in Nat /\ WaitTimeout \in Nat /\ MaxRun \in Nat
    /\ MaxRun < SlotTTL /\ WaitTimeout <= WaitTTL
ASSUME TokenAssumption == NoToken \notin Tokens /\ Nowhere \notin Instances
ASSUME SlotFaultAssumption == MaxFaults \in Nat

VARIABLES
    slots,      \* members of the sorted set
    age,        \* ticks since their score
    waitCount,  \* the counter; an absent key is 0
    waitAge,    \* ticks since its last EXPIRE
    up,         \* running processes
    pc,         \* step of each request
    home,       \* its process
    token,      \* the request id of the slot it got
    timer,      \* ticks it has waited, or held the slot and run
    gone,       \* its context is cancelled
    evicted,    \* history: requests whose slot the start of a process removed
    faults      \* faults injected so far

redis   == <<slots, age, waitCount, waitAge>>
request == <<pc, home, token, timer, gone, evicted>>
vars    == <<redis, up, request, faults>>

Steps == {"idle", "try", "count", "wait", "uncount", "run"}

Inject  == faults < MaxFaults /\ faults' = faults + 1
NoFault == UNCHANGED faults

\* A command without effect: a fault, or go-redis refusing a cancelled context
Refused(r) == (gone[r] /\ NoFault) \/ Inject

Holders == {r \in Requests : token[r] # NoToken}
Unused  == Tokens \ (slots \union {token[r] : r \in Holders})

Goto(r, s) == /\ pc' = [pc EXCEPT ![r] = s]
              /\ timer' = [timer EXCEPT ![r] = 0]
              /\ UNCHANGED <<home, token, gone, evicted>>

\* The handler returns
Return(r) == /\ pc' = [pc EXCEPT ![r] = "idle"]
             /\ home' = [home EXCEPT ![r] = Nowhere]
             /\ token' = [token EXCEPT ![r] = NoToken]
             /\ timer' = [timer EXCEPT ![r] = 0]
             /\ gone' = [gone EXCEPT ![r] = FALSE]
             /\ evicted' = evicted \ {r}

----------------------------------------------------------------------------
(* The Redis scripts                                                       *)

\* Mutant: nothing expires
Live_Forever == slots

\* What ZREMRANGEBYSCORE leaves
Live == {t \in slots : age[t] < SlotTTL}

SetSlots(s) == /\ slots' = s
               /\ age' = [t \in Tokens |-> IF t \in s /\ t \in slots THEN age[t] ELSE 0]
               /\ UNCHANGED <<waitCount, waitAge>>

\* Mutant: one slot too many
HasRoom_OffByOne == Cardinality(Live) <= MaxConcurrency
HasRoom == Cardinality(Live) < MaxConcurrency

\* acquireScript
Granted(t) == HasRoom /\ SetSlots(Live \union {t})
Full       == ~HasRoom /\ SetSlots(Live)

\* ZREM of one member
ReleaseSlot(t) == SetSlots(slots \ {t})

SetCount(n) == /\ waitCount' = n
               /\ waitAge' = 0
               /\ UNCHANGED <<slots, age>>

\* decrementWaitScript keeps the TTL, and stops at zero
DecrementWait == /\ waitCount' = IF waitCount > 0 THEN waitCount - 1 ELSE 0
                 /\ waitAge' = IF waitCount' = 0 THEN 0 ELSE waitAge
                 /\ UNCHANGED <<slots, age>>

----------------------------------------------------------------------------
(* A request                                                               *)

Arrive(r) ==
    /\ pc[r] = "idle"
    /\ \E i \in up : home' = [home EXCEPT ![r] = i]
    /\ pc' = [pc EXCEPT ![r] = "try"]
    /\ UNCHANGED <<redis, up, token, timer, gone, evicted, faults>>

\* The first attempt, before the wait queue
TryAcquireSlot(r) ==
    /\ pc[r] = "try"
    /\ \/ \E t \in Unused :
             /\ Granted(t)
             /\ \/ /\ pc' = [pc EXCEPT ![r] = "run"]
                   /\ token' = [token EXCEPT ![r] = t]
                   /\ UNCHANGED <<home, timer, gone, evicted>> /\ NoFault
                \/ Return(r) /\ Inject
       \/ Full /\ Goto(r, "count") /\ NoFault
       \/ UNCHANGED redis /\ Return(r) /\ Refused(r)
    /\ UNCHANGED up

\* incrementWaitScript.  On an error the request waits uncounted (fail open).  An
\* answer that comes too late makes the client run the script a second time.
IncrementWaitCount(r) ==
    /\ pc[r] = "count"
    /\ \/ waitCount < MaxWaiting /\ SetCount(waitCount + 1) /\ Goto(r, "wait") /\ (NoFault \/ Inject)
       \/ waitCount >= MaxWaiting /\ UNCHANGED redis /\ Return(r) /\ NoFault
       \/ UNCHANGED redis /\ Goto(r, "wait") /\ Refused(r)
       \/ waitCount + 1 < MaxWaiting /\ SetCount(waitCount + 2) /\ Goto(r, "wait") /\ Inject
       \/ waitCount + 1 = MaxWaiting /\ SetCount(waitCount + 1) /\ Return(r) /\ Inject
    /\ UNCHANGED up

\* The timer of the wait loop fires
WaitForSlot(r) ==
    /\ pc[r] = "wait"
    /\ \/ \E t \in Unused :
             /\ Granted(t)
             /\ \/ /\ pc' = [pc EXCEPT ![r] = "uncount"]
                   /\ token' = [token EXCEPT ![r] = t]
                   /\ timer' = [timer EXCEPT ![r] = 0]
                   /\ UNCHANGED <<home, gone, evicted>> /\ NoFault
                \/ Goto(r, "uncount") /\ Inject
       \/ Full /\ UNCHANGED request /\ NoFault
       \/ UNCHANGED redis /\ Goto(r, "uncount") /\ Refused(r)
    /\ UNCHANGED up

\* ctx.Done() of the wait loop: the timeout, or the client
WaitOver(r) == timer[r] >= WaitTimeout \/ gone[r]

StopWaiting(r) == /\ pc[r] = "wait" /\ WaitOver(r)
                  /\ Goto(r, "uncount")
                  /\ UNCHANGED <<redis, up, faults>>

\* The deferred decrement, on a context of its own, whether or not the increment
\* took place; its error is only logged, and it too may run twice
DecrementWaitCount(r) ==
    /\ pc[r] = "uncount"
    /\ \/ DecrementWait /\ NoFault
       \/ UNCHANGED redis /\ Inject
       \/ /\ waitCount > 1 /\ waitCount' = waitCount - 2
          /\ waitAge' = (IF waitCount' = 0 THEN 0 ELSE waitAge)
          /\ UNCHANGED <<slots, age>> /\ Inject
    /\ IF token[r] = NoToken THEN Return(r)
       ELSE pc' = [pc EXCEPT ![r] = "run"] /\ UNCHANGED <<home, token, timer, gone, evicted>>
    /\ UNCHANGED up

ClientGone(r) == /\ pc[r] # "idle" /\ ~gone[r]
                 /\ gone' = [gone EXCEPT ![r] = TRUE]
                 /\ UNCHANGED <<redis, up, pc, home, token, timer, evicted, faults>>

\* releaseFunc, once; its error is only logged
Release(r) == \/ ReleaseSlot(token[r]) /\ NoFault
              \/ UNCHANGED redis /\ Inject

\* wrapReleaseOnDone: the AfterFunc of a cancelled context gives the slot back
\* while the handler still runs
ReleaseOnDone(r) ==
    /\ pc[r] = "run" /\ gone[r] /\ token[r] # NoToken
    /\ Release(r)
    /\ token' = [token EXCEPT ![r] = NoToken]
    /\ UNCHANGED <<up, pc, home, timer, gone, evicted>>

FinishRequest(r) ==
    /\ pc[r] = "run"
    /\ \/ token[r] # NoToken /\ Release(r)
       \/ token[r] = NoToken /\ UNCHANGED redis /\ NoFault
    /\ Return(r)
    /\ UNCHANGED up

----------------------------------------------------------------------------
(* The processes, the background and the clock                             *)

\* A process stops, and its requests with it
ProcessStops(i) ==
    /\ i \in up /\ Inject
    /\ up' = up \ {i}
    /\ LET mine == {r \in Requests : home[r] = i}
           Without(f, none) == [r \in Requests |-> IF r \in mine THEN none ELSE f[r]]
       IN  /\ pc' = Without(pc, "idle") /\ home' = Without(home, Nowhere)
           /\ token' = Without(token, NoToken) /\ timer' = Without(timer, 0)
           /\ gone' = Without(gone, FALSE) /\ evicted' = evicted \ mine
    /\ UNCHANGED redis

\* startupCleanupScript removes the members without the prefix of the new process,
\* which has none yet
RemoveOtherSlots == /\ slots' = {} /\ age' = [t \in Tokens |-> 0]
                    /\ evicted' = evicted \union Holders

\* deleteKeysByPattern on the counters
DropCounters == waitCount' = 0 /\ waitAge' = 0

\* A process starts: before it serves anybody, CleanupStaleProcessSlots removes the
\* slots of every other process, those that still serve included, and then the
\* counters; it may fail half way
ProcessStarts(i) ==
    /\ i \notin up /\ up' = up \union {i}
    /\ \/ RemoveOtherSlots /\ DropCounters /\ NoFault
       \/ RemoveOtherSlots /\ UNCHANGED <<waitCount, waitAge>> /\ Inject
       \/ UNCHANGED <<redis, evicted>> /\ Inject
    /\ UNCHANGED <<pc, home, token, timer, gone>>

\* The cleanup worker, getCountScript or the EXPIRE of the whole key
CleanupExpiredSlots ==
    /\ Live # slots /\ SetSlots(Live)
    /\ UNCHANGED <<up, request, faults>>

\* Mutant: the counter has no EXPIRE
CountExpires_Never == FALSE
CountExpires == waitCount > 0 /\ waitAge + 1 >= WaitTTL

Tick ==
    /\ \A r \in Requests :
          /\ pc[r] = "wait" => timer[r] < WaitTimeout
          /\ pc[r] = "run" \/ r \in Holders => timer[r] < MaxRun
    /\ timer' = [r \in Requests |-> IF pc[r] \in {"wait", "run"} \/ r \in Holders
                                    THEN timer[r] + 1 ELSE 0]
    /\ age' = [t \in Tokens |-> IF t \in slots /\ age[t] < SlotTTL THEN age[t] + 1 ELSE age[t]]
    /\ waitCount' = IF CountExpires THEN 0 ELSE waitCount
    /\ waitAge' = IF waitCount' = 0 THEN 0 ELSE IF waitAge < WaitTTL THEN waitAge + 1 ELSE waitAge
    /\ UNCHANGED <<slots, up, pc, home, token, gone, evicted, faults>>

----------------------------------------------------------------------------

Init == /\ slots = {} /\ age = [t \in Tokens |-> 0]
        /\ waitCount = 0 /\ waitAge = 0
        /\ up = Instances
        /\ pc = [r \in Requests |-> "idle"]
        /\ home = [r \in Requests |-> Nowhere]
        /\ token = [r \in Requests |-> NoToken]
        /\ timer = [r \in Requests |-> 0]
        /\ gone = [r \in Requests |-> FALSE]
        /\ evicted = {}
        /\ faults = 0

RequestStep(r) ==
    \/ TryAcquireSlot(r) \/ IncrementWaitCount(r) \/ WaitForSlot(r) \/ StopWaiting(r)
    \/ DecrementWaitCount(r) \/ ReleaseOnDone(r) \/ FinishRequest(r)

Next == \/ Tick \/ CleanupExpiredSlots
        \/ \E i \in Instances : ProcessStops(i) \/ ProcessStarts(i)
        \/ \E r \in Requests : Arrive(r) \/ ClientGone(r) \/ RequestStep(r)

Spec == Init /\ [][Next]_vars

----------------------------------------------------------------------------
(* Properties                                                              *)

\* The keys and the requests hold the values the code allows; the counter never
\* passes the limit of the queue.
TypeOK ==
    /\ slots \subseteq Tokens /\ age \in [Tokens -> 0 .. SlotTTL]
    /\ waitCount \in 0 .. MaxWaiting /\ waitAge \in 0 .. WaitTTL
    /\ up \subseteq Instances
    /\ pc \in [Requests -> Steps]
    /\ home \in [Requests -> Instances \union {Nowhere}]
    /\ token \in [Requests -> Tokens \union {NoToken}]
    /\ timer \in [Requests -> Nat]
    /\ gone \in [Requests -> BOOLEAN]
    /\ evicted \subseteq Requests
    /\ faults \in 0 .. MaxFaults

\* A request is served: it is being forwarded, or has its slot and is about to be
Served(r) == pc[r] = "run" \/ token[r] # NoToken

\* wrapReleaseOnDone gave its slot back: the client is gone, the upstream call winds up
Detached(r) == gone[r] /\ token[r] = NoToken

\* No more requests are forwarded for a user or an account than the limit allows, by
\* all processes together, through failed and repeated commands, disconnects, slots
\* that expire, stops and restarts (acquireScript, and the release function of
\* AcquireUserSlot and AcquireAccountSlot).  Two kinds of request are served outside
\* the limit, and only these: one whose client went away while it was forwarded,
\* whose slot wrapReleaseOnDone gives back before its handler returns, and one
\* whose slot the start of another process took away (startupCleanupScript).
ConcurrencyBound ==
    Cardinality({r \in Requests : Served(r) /\ ~Detached(r) /\ r \notin evicted}) <= MaxConcurrency

----------------------------------------------------------------------------
(* Liveness                                                                *)

\* Time passes, running requests take their steps (a client leaves or an upstream
\* answers in bounded time), and expired slots are removed.
Fairness == /\ WF_vars(Tick)
            /\ WF_vars(CleanupExpiredSlots)
            /\ \A r \in Requests : WF_vars(RequestStep(r))

FairSpec == Spec /\ Fairness

Waiting == {r \in Requests : pc[r] \in {"wait", "uncount"}}

\* A slot nobody holds (its release failed, its process stopped, the answer of its
\* acquisition was lost) becomes free again.
LeakedSlotsFreed ==
    \A t \in Tokens : (t \in slots /\ \A r \in Requests : token[r] # t) ~> (t \notin slots)

\* Counts left behind by waiters that are gone do not outlive the traffic.
CountResets == []<>(waitCount = 0 \/ Waiting # {})
=============================================================================
