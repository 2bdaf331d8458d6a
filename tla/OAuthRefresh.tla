--------------------------- MODULE OAuthRefresh ---------------------------
(***************************************************************************)
(* Refreshing the OAuth token of one account whose provider rotates the    *)
(* refresh token: each can be used once and yields the next one.  Tokens   *)
(* are numbered in the order the provider issues them.                     *)
(*                                                                         *)
(* Background workers (one per process), requests and an administrator     *)
(* refresh.  The first two go through RefreshIfNeeded: a mutex of the      *)
(* process, a Redis lock with a TTL that is deleted without an owner       *)
(* check, the account read again, a second look at its expiry, the call to *)
(* the provider, the write.  The administrator's handler takes no lock,    *)
(* and every other edit of the account writes back the row it has read.    *)
(* Requests keep the access token in a cache that refreshers invalidate.   *)
(***************************************************************************)
EXTENDS Naturals, FiniteSets

CONSTANTS
    Processes, Requests, Admins,
    ProcessOf,     \* Requests -> Processes; a worker is named by its process
    MaxTokens,     \* bound on the tokens the provider issues
    MaxRetries,    \* token_refresh.max_retries
    MaxFaults,     \* bound on injected faults
    NoOne, None    \* free lock or mutex; empty cache

Refreshers == Processes \union Requests
Threads    == Refreshers \union Admins
Proc(t)    == IF t \in Requests THEN ProcessOf[t] ELSE t
Tokens     == 1..MaxTokens
Ages       == 0..2

ASSUME ThreadAssumption ==
    /\ Processes \intersect Requests = {} /\ Refreshers \intersect Admins = {}
    /\ ProcessOf \in [Requests -> Processes]
    /\ NoOne \notin Threads /\ IsFiniteSet(Threads)
ASSUME RefreshBoundAssumption ==
    MaxTokens \in Nat \ {0} /\ MaxRetries \in Nat \ {0} /\ MaxFaults \in Nat /\ None \notin Nat

VARIABLES
    live,    \* provider: the one refresh token it accepts
    age,     \* 0 fresh, 1 inside the worker's window, 2 inside the requests' skew
    db,      \* the account's credentials: [tok, ver], ver = _token_version
    status,  \* the account's status
    temp,    \* temp_unschedulable_until is in the future
    cache,   \* oauth:token
    lock,    \* oauth:refresh_lock; who set it is history, its value is 1
    mutex,   \* local lock of each process
    th,      \* each thread: see Thread
    losses,  \* history: how often the lock was missed or expired under its holder
    excuse,  \* history: a read failed, the provider refused a live token, a manual
             \* refresh overlapped, or an edit put older credentials back
    lost,    \* history: the live token did not reach the database, or was overwritten
    behind,  \* history: requests whose version check can not see that they are stale
    raced,   \* history: an invalidation was missed since the cache last was right
    faults

row   == <<db, status, temp>>
locks == <<lock, mutex>>
ghost == <<losses, excuse, lost>>
stale == <<behind, raced>>
vars  == <<live, age, row, cache, locks, th, ghost, stale, faults>>

Steps == {"idle", "get", "mutex", "lock", "reread", "refresh", "recover", "persist", "release",
          "invalidate", "setError", "setTemp", "wait", "check", "cache", "load", "write", "edit"}
Results == {"none", "refreshed", "already", "held", "failed", "invalid"}
Creds   == [tok : Tokens, ver : Tokens]
First   == [tok |-> 1, ver |-> 1]

\* acct: the account a thread was given; seen: the one it read again, with new
\* credentials after a refresh; result: what RefreshIfNeeded returns; locked: it
\* has taken the lock, and will delete it
Thread == [pc : Steps, acct : Creds, seen : Creds, result : Results, tries : 1..MaxRetries, locked : BOOLEAN]
Rest   == [pc |-> "idle", acct |-> First, seen |-> First, result |-> "none", tries |-> 1, locked |-> FALSE]

At(t, s)    == th[t].pc = s
Set(t, rec) == th' = [th EXCEPT ![t] = rec]
Goto(t, s)  == th' = [th EXCEPT ![t].pc = s]
Stop(t)     == Set(t, Rest)
\* Go on with nothing left of the refresh
Follow(t, s) == Set(t, [Rest EXCEPT !.pc = s])

Inject == faults < MaxFaults /\ faults' = faults + 1

Inside    == {t \in Refreshers : th[t].pc \in {"reread", "refresh", "recover", "persist"}}
InHand(t) == th[t].pc \in {"persist", "load", "write"}

\* The thread stored a token and has yet to delete or overwrite the cached one
WillRepair(t) ==
    At(t, "invalidate") \/ (th[t].result = "refreshed" /\ th[t].pc \in {"release", "check", "cache"})

\* Record whether this step leaves a stale entry that nothing will remove
Miss(loss) == raced' = ((loss \/ raced) /\ cache' \notin {None, db'.tok})

\* NeedsRefresh: workers look further ahead than requests
Due(t, c) == age[c.tok] >= (IF t \in Requests THEN 2 ELSE 1)

----------------------------------------------------------------------------
(* Who starts a refresh                                                    *)

\* processRefresh: candidates are active, not waiting after exhausted retries
Scan(p) ==
    /\ At(p, "idle")
    /\ status = "active" /\ ~temp /\ Due(p, db)
    /\ Set(p, [Rest EXCEPT !.pc = "mutex", !.acct = db])
    /\ UNCHANGED <<live, age, row, cache, locks, ghost, stale, faults>>

\* A request comes with the account the scheduler chose
Arrive(r) ==
    /\ At(r, "idle") /\ status = "active"
    /\ Set(r, [Rest EXCEPT !.pc = "get", !.acct = db])
    /\ UNCHANGED <<live, age, row, cache, locks, ghost, stale, faults>>

\* GetAccessToken: a hit ends it, a miss refreshes if the account is due
GetAccessToken(r) ==
    /\ At(r, "get")
    /\ \/ cache # None /\ Stop(r) /\ UNCHANGED faults
       \/ /\ (cache = None /\ UNCHANGED faults) \/ (cache # None /\ Inject)
          /\ Goto(r, IF Due(r, th[r].acct) THEN "mutex" ELSE "check")
    /\ UNCHANGED <<live, age, row, cache, locks, ghost, stale>>

----------------------------------------------------------------------------
(* RefreshIfNeeded                                                         *)

\* Mutant: the mutex of the process is not waited for
LocalLock_NoWait(t) ==
    /\ At(t, "mutex")
    /\ mutex' = [mutex EXCEPT ![Proc(t)] = t]
    /\ Goto(t, "lock")
    /\ UNCHANGED <<live, age, row, cache, lock, ghost, stale, faults>>

LocalLock(t) ==
    /\ At(t, "mutex") /\ mutex[Proc(t)] = NoOne
    /\ mutex' = [mutex EXCEPT ![Proc(t)] = t]
    /\ Goto(t, "lock")
    /\ UNCHANGED <<live, age, row, cache, lock, ghost, stale, faults>>

Unlocked(t) == mutex' = [mutex EXCEPT ![Proc(t)] = NoOne]

\* A request goes on with the account it got back, or with its own
RequestAfter(r, res) ==
    Set(r, [Rest EXCEPT !.pc = IF res = "held" THEN "wait" ELSE "check",
                        !.result = IF res = "refreshed" THEN res ELSE "none",
                        !.acct = th[r].acct])

\* refreshWithRetry: invalid tokens are not retried, other failures are
WorkerAfter(p, res) ==
    \/ res = "refreshed" /\ Follow(p, "invalidate")
    \/ res \in {"held", "already"} /\ Stop(p)
    \/ res = "invalid" /\ Follow(p, "setError")
    \/ res = "failed" /\ th[p].tries = MaxRetries /\ Follow(p, "setTemp")
    \/ /\ res = "failed" /\ th[p].tries < MaxRetries
       /\ Set(p, [Rest EXCEPT !.pc = "mutex", !.acct = th[p].acct, !.tries = th[p].tries + 1])

\* Every return releases the mutex
Return(t, res) ==
    /\ Unlocked(t)
    /\ (t \in Requests /\ RequestAfter(t, res)) \/ (t \in Processes /\ WorkerAfter(t, res))

\* A Redis error degrades to no lock at all
AcquireRefreshLock(t) ==
    /\ At(t, "lock")
    /\ \/ /\ lock = NoOne /\ lock' = t /\ UNCHANGED <<mutex, losses, faults>>
          /\ Set(t, [th[t] EXCEPT !.pc = "reread", !.locked = TRUE])
       \/ lock # NoOne /\ Return(t, "held") /\ UNCHANGED <<lock, losses, faults>>
       \/ Inject /\ losses' = losses + 1 /\ Goto(t, "reread") /\ UNCHANGED locks
    /\ UNCHANGED <<live, age, row, cache, excuse, lost, stale>>

\* On success the caller goes on with the account that was read or refreshed
Succeed(t, res, c) == Set(t, [th[t] EXCEPT !.pc = "release", !.result = res, !.acct = c, !.seen = First])
Finish(t, res)     == Succeed(t, res, th[t].acct)

ManualInHand == \E a \in Admins : InHand(a)

\* The second look at the expiry
Recheck(t, c) ==
    IF Due(t, c) THEN Set(t, [th[t] EXCEPT !.pc = "refresh", !.seen = c]) ELSE Succeed(t, "already", c)

\* Mutant: the account passed in is used as it is
Reread_Passed(t) ==
    /\ At(t, "reread")
    /\ Recheck(t, th[t].acct)
    /\ UNCHANGED <<live, age, row, cache, locks, ghost, stale, faults>>

\* The account is read again; on an error the one passed in is used
Reread(t) ==
    /\ At(t, "reread")
    /\ \/ Recheck(t, db) /\ excuse' = (excuse \/ ManualInHand) /\ UNCHANGED faults
       \/ Inject /\ Recheck(t, th[t].acct) /\ excuse' = TRUE
    /\ UNCHANGED <<live, age, row, cache, locks, losses, lost, stale>>

Issue == live < MaxTokens /\ live' = live + 1
Burned(t) == th[t].seen.tok # live

\* The provider issues a token for a live one.  A used one is refused, with
\* invalid_grant or with a message the race recovery does not look for.  The rest of
\* isNonRetryableRefreshError (invalid_client, access_denied, invalid_scope, a
\* subscription that ended) refuses a live token as well
Refresh(t) ==
    /\ At(t, "refresh") /\ t \in Refreshers
    /\ \/ /\ ~Burned(t) /\ Issue /\ lost' = FALSE /\ UNCHANGED <<excuse, faults>>
          /\ Set(t, [th[t] EXCEPT !.pc = "persist", !.seen = [tok |-> live', ver |-> live']])
       \/ Burned(t) /\ (Goto(t, "recover") \/ Finish(t, "invalid")) /\ UNCHANGED <<live, lost, excuse, faults>>
       \/ Inject /\ Finish(t, "invalid") /\ excuse' = TRUE /\ UNCHANGED <<live, lost>>
       \/ Inject /\ Finish(t, "failed") /\ UNCHANGED <<live, lost, excuse>>
       \/ Inject /\ Finish(t, "failed") /\ ~Burned(t) /\ Issue /\ lost' = TRUE /\ UNCHANGED excuse
    /\ UNCHANGED <<age, row, cache, locks, losses, stale>>

\* tryRecoverFromRefreshRace: another refresh token in the database is a success
Recover(t) ==
    /\ At(t, "recover")
    /\ \/ db.tok # th[t].seen.tok /\ Succeed(t, "already", db) /\ UNCHANGED <<excuse, faults>>
       \/ db.tok = th[t].seen.tok /\ Finish(t, "invalid") /\ UNCHANGED <<excuse, faults>>
       \/ Inject /\ excuse' = TRUE /\ Finish(t, "invalid")
    /\ UNCHANGED <<live, age, row, cache, locks, losses, lost, stale>>

\* Requests that have compared versions and are about to write the cache
Checked == {r \in Requests : At(r, "cache")}

\* Mutant: the old fields win over the provider's answer
Merged_OldWins(t) == [th[t].seen EXCEPT !.tok = db.tok]

\* The credentials written: the provider's answer over the old fields
Merged(t) == th[t].seen

\* persistAccountCredentials, under the new _token_version
Persist(t) ==
    /\ At(t, "persist")
    /\ UNCHANGED cache
    /\ \/ /\ db' = Merged(t) /\ Succeed(t, "refreshed", th[t].seen) /\ UNCHANGED <<lost, faults>>
          /\ behind' = behind \union Checked /\ Miss(FALSE)
       \/ Inject /\ Finish(t, "failed") /\ lost' = TRUE /\ UNCHANGED <<db, stale>>
    /\ UNCHANGED <<live, age, status, temp, locks, losses, excuse>>

\* The deferred DEL, whoever holds the lock by then; its error is ignored
ReleaseRefreshLock(t) ==
    /\ At(t, "release")
    /\ \/ lock' = (IF th[t].locked THEN NoOne ELSE lock) /\ UNCHANGED faults
       \/ th[t].locked /\ Inject /\ UNCHANGED lock
    /\ Return(t, th[t].result)
    /\ UNCHANGED <<live, age, row, cache, ghost, stale>>

----------------------------------------------------------------------------
(* Background worker, after RefreshIfNeeded                                *)

\* InvalidateToken
Invalidate == \/ cache' = None /\ Miss(FALSE) /\ UNCHANGED faults
              \/ Inject /\ UNCHANGED cache /\ Miss(TRUE)

\* postRefreshActions: clear the pause if it was there when the account was read,
\* delete the cached token
PostRefresh(p) ==
    /\ At(p, "invalidate") /\ p \in Processes
    /\ Stop(p)
    /\ temp' \in {temp, FALSE}
    /\ UNCHANGED <<live, age, db, status, locks, ghost, behind>>
    /\ Invalidate

SetError(p) ==
    /\ At(p, "setError") /\ Stop(p)
    /\ (status' = "error" /\ UNCHANGED faults) \/ (Inject /\ UNCHANGED status)
    /\ UNCHANGED <<live, age, db, temp, cache, locks, ghost, stale>>

\* An error of the update is only logged
SetTempUnschedulable(p) ==
    /\ At(p, "setTemp") /\ Stop(p)
    /\ temp' \in {temp, TRUE}
    /\ UNCHANGED <<live, age, db, status, cache, locks, ghost, stale, faults>>

----------------------------------------------------------------------------
(* Request, after RefreshIfNeeded                                          *)

\* Someone else refreshes: wait, look into the cache; a miss, or an error, goes on
\* with the old token
WaitForCache(r) ==
    /\ At(r, "wait")
    /\ \/ cache # None /\ Stop(r) /\ UNCHANGED faults
       \/ /\ (cache = None /\ UNCHANGED faults) \/ (cache # None /\ Inject)
          /\ Goto(r, "check")
    /\ UNCHANGED <<live, age, row, cache, locks, ghost, stale>>

\* Mutant: versions are not compared
Newer_Never(c) == FALSE

Newer(c) == db.ver > c.ver

\* CheckTokenVersion: a newer row is used and not cached
CheckTokenVersion(r) ==
    /\ At(r, "check")
    /\ \/ /\ IF Newer(th[r].acct) THEN Stop(r) ELSE Goto(r, "cache")
          \* a token written without a new version, or with an older one, goes unseen
          /\ behind' = behind \union {q \in {r} : th[q].acct.ver >= db.ver /\ th[q].acct # db}
          /\ UNCHANGED faults
       \/ Inject /\ Goto(r, "cache") /\ behind' = behind \union {r}
    /\ UNCHANGED <<live, age, row, cache, locks, ghost, raced>>

SetAccessToken(r) ==
    /\ At(r, "cache") /\ Stop(r)
    /\ behind' = behind \ {r}
    /\ UNCHANGED <<live, age, row, locks, ghost>>
    /\ \/ cache' = th[r].acct.tok /\ Miss(r \in behind) /\ UNCHANGED faults
       \/ Inject /\ UNCHANGED cache /\ Miss(WillRepair(r))

----------------------------------------------------------------------------
(* The administrator's refresh: no lock, no second look                    *)

AdminGet(a) ==
    /\ At(a, "idle") /\ live < MaxTokens
    /\ Set(a, [Rest EXCEPT !.pc = "refresh", !.seen = db])
    /\ UNCHANGED <<live, age, row, cache, locks, ghost, stale, faults>>

\* Every field but the token is kept, _token_version among them
AdminRefresh(a) ==
    /\ At(a, "refresh") /\ a \in Admins
    /\ \/ /\ ~Burned(a) /\ Issue
          /\ Set(a, [th[a] EXCEPT !.pc = "load", !.seen.tok = live'])
          /\ excuse' = (excuse \/ Inside # {}) /\ lost' = FALSE
       \/ Burned(a) /\ Stop(a) /\ UNCHANGED <<live, excuse, lost>>
    /\ UNCHANGED <<age, row, cache, locks, losses, stale, faults>>

\* UpdateAccount reads the row and writes all of it back, its status too
AdminLoad(a) ==
    /\ At(a, "load")
    /\ Set(a, [th[a] EXCEPT !.pc = "write", !.result = IF status = "active" THEN "none" ELSE "invalid"])
    /\ UNCHANGED <<live, age, row, cache, locks, ghost, stale, faults>>

\* An error, here or of a step before, loses the new token
AdminWrite(a) ==
    /\ At(a, "write")
    /\ UNCHANGED cache
    /\ \/ /\ db' = th[a].seen /\ Follow(a, "invalidate")
          /\ status' = IF th[a].result = "none" THEN "active" ELSE "error"
          /\ behind' = behind \union Checked /\ Miss(FALSE) /\ UNCHANGED <<lost, faults>>
       \/ Inject /\ lost' = TRUE /\ Stop(a) /\ UNCHANGED <<db, status, stale>>
    /\ UNCHANGED <<live, age, temp, locks, losses, excuse>>

AdminInvalidate(a) ==
    /\ At(a, "invalidate") /\ a \in Admins
    /\ Stop(a)
    /\ UNCHANGED <<live, age, row, locks, ghost, behind>>
    /\ Invalidate

----------------------------------------------------------------------------
(* Any other edit of the account by the administrator                      *)

\* UpdateAccount without tokens: the row is read ...
EditLoad(a) ==
    /\ At(a, "idle")
    /\ Set(a, [Rest EXCEPT !.pc = "edit", !.seen = db,
                           !.result = IF status = "active" THEN "none" ELSE "invalid"])
    /\ UNCHANGED <<live, age, row, cache, locks, ghost, stale, faults>>

\* The credentials the edit has read are not those stored now
RollsBack(a) == th[a].seen # db

\* ... and written back, the whole credentials column with it, over whatever was
\* stored since; the edit may set the account active.  Nothing invalidates the
\* cache.  An edit that is refused changes nothing.
EditWrite(a) ==
    /\ At(a, "edit") /\ Stop(a)
    /\ UNCHANGED cache
    /\ \/ /\ db' = th[a].seen
          /\ status' \in {"active", IF th[a].result = "none" THEN "active" ELSE "error"}
          /\ excuse' = (excuse \/ RollsBack(a))
          /\ lost' = ((lost \/ db.tok = live) /\ th[a].seen.tok # live)
          /\ behind' = behind \union {r \in Checked : RollsBack(a)} /\ Miss(RollsBack(a))
       \/ UNCHANGED <<db, status, excuse, lost, stale>>
    /\ UNCHANGED <<live, age, temp, locks, losses, faults>>

----------------------------------------------------------------------------
(* Time and failures                                                       *)

\* The stored token gets older; the last one the bound allows stays fresh
Age ==
    /\ db.tok < MaxTokens /\ age[db.tok] < 2
    /\ age' = [age EXCEPT ![db.tok] = @ + 1]
    /\ UNCHANGED <<live, row, cache, locks, th, ghost, stale, faults>>

CacheExpires ==
    /\ cache # None /\ cache' = None
    /\ UNCHANGED <<live, age, row, locks, th, ghost, behind, faults>>
    /\ Miss(FALSE)

PauseEnds ==
    /\ temp /\ temp' = FALSE
    /\ UNCHANGED <<live, age, db, status, cache, locks, th, ghost, stale, faults>>

\* Mutant: the lock has no TTL
OrphanExpires_Never == FALSE /\ UNCHANGED vars

\* The lock's TTL, on a lock its setter has left behind
OrphanExpires ==
    /\ lock # NoOne
    /\ lock \notin Inside \union {t \in Refreshers : At(t, "release")}
    /\ lock' = NoOne
    /\ UNCHANGED <<live, age, row, cache, mutex, th, ghost, stale, faults>>

\* A provider call may take longer than the TTL
LockExpires ==
    /\ lock \in Inside
    /\ Inject /\ losses' = losses + 1
    /\ lock' = NoOne
    /\ UNCHANGED <<live, age, row, cache, mutex, th, excuse, lost, stale>>

Crash(p) ==
    /\ Inject
    /\ UNCHANGED <<live, age, row, cache, lock, losses, excuse>>
    /\ mutex' = [mutex EXCEPT ![p] = NoOne]
    /\ LET dead == {t \in Refreshers : Proc(t) = p} IN
       /\ \E t \in dead : ~At(t, "idle")
       /\ th' = [t \in Threads |-> IF t \in dead THEN Rest ELSE th[t]]
       /\ lost' = (lost \/ \E t \in dead : InHand(t))
       /\ behind' = behind \ dead
       /\ Miss(\E t \in dead : WillRepair(t))

Init ==
    /\ live = 1 /\ age = [k \in Tokens |-> 0]
    /\ db = First /\ status = "active" /\ temp = FALSE
    /\ cache = None /\ lock = NoOne /\ mutex = [p \in Processes |-> NoOne]
    /\ th = [t \in Threads |-> Rest]
    /\ losses = 0 /\ excuse = FALSE /\ lost = FALSE /\ behind = {} /\ raced = FALSE /\ faults = 0

RefreshStep(t) ==
    \/ LocalLock(t) \/ AcquireRefreshLock(t) \/ Reread(t) \/ Refresh(t)
    \/ Recover(t) \/ Persist(t) \/ ReleaseRefreshLock(t)
WorkerStep(p)  == RefreshStep(p) \/ Scan(p) \/ PostRefresh(p) \/ SetError(p) \/ SetTempUnschedulable(p)
RequestStep(r) == RefreshStep(r) \/ GetAccessToken(r) \/ WaitForCache(r) \/ CheckTokenVersion(r) \/ SetAccessToken(r)
AdminStep(a)   == AdminRefresh(a) \/ AdminLoad(a) \/ AdminWrite(a) \/ AdminInvalidate(a) \/ EditWrite(a)

Next ==
    \/ \E p \in Processes : WorkerStep(p) \/ Crash(p)
    \/ \E r \in Requests : Arrive(r) \/ RequestStep(r)
    \/ \E a \in Admins : AdminGet(a) \/ EditLoad(a) \/ AdminStep(a)
    \/ Age \/ CacheExpires \/ PauseEnds \/ OrphanExpires \/ LockExpires

\* The workers' ticker and every started call run on; TTLs run out
Fairness ==
    /\ \A p \in Processes : WF_vars(WorkerStep(p))
    /\ \A r \in Requests : WF_vars(RequestStep(r))
    /\ \A a \in Admins : WF_vars(AdminStep(a))
    /\ WF_vars(PauseEnds) /\ WF_vars(OrphanExpires)

Spec == Init /\ [][Next]_vars /\ Fairness

----------------------------------------------------------------------------
(* Properties                                                              *)

\* Every variable keeps its type; ages and versions stay among the issued tokens.
TypeOK ==
    /\ live \in Tokens /\ age \in [Tokens -> Ages]
    /\ db \in Creds /\ status \in {"active", "error"} /\ temp \in BOOLEAN
    /\ cache \in Tokens \union {None}
    /\ lock \in Refreshers \union {NoOne} /\ mutex \in [Processes -> Refreshers \union {NoOne}]
    /\ th \in [Threads -> Thread]
    /\ losses \in 0..MaxFaults /\ faults \in 0..MaxFaults
    /\ excuse \in BOOLEAN /\ lost \in BOOLEAN /\ raced \in BOOLEAN /\ behind \subseteq Requests

\* An account is put into the error state only when its refresh token is dead: an
\* automatic refresh never condemns a healthy account by racing another one.  The
\* exceptions: the lock failed, a read failed, the provider refused a live token
\* with another non-retryable error (isNonRetryableRefreshError), a manual refresh
\* overlapped, or an edit of the account put older credentials back.
ErrorIsGenuine == status = "error" /\ db.tok = live => losses > 0 \/ excuse

\* One refresher per process whatever Redis does, and in all one more than the
\* lock was lost: a holder that deletes another's lock admits only one other.
OneRefresher ==
    /\ \A p \in Processes : Cardinality({t \in Inside : Proc(t) = p}) <= 1
    /\ Cardinality(Inside) <= 1 + losses

\* The one token the provider still accepts is in the database or on its way
\* there, unless it was lost with an answer, a failed write or a process, or an edit
\* of the account that had read the row before wrote the older credentials over it
\* (UpdateAccount; ratelimit_service.go gives up such a write for this reason).
LiveTokenIsKept == db.tok = live \/ lost \/ \E t \in Threads : InHand(t) /\ th[t].seen.tok = live

\* A cached token that is not the stored one is about to be deleted or replaced
\* by the thread that stored it, or an invalidation raced or failed, or an edit of
\* the account, which invalidates nothing, put older credentials back.
StaleCacheIsExplained ==
    \/ cache \in {None, db.tok}
    \/ raced
    \/ \E t \in Threads : WillRepair(t)

\* A token that comes up for refresh is replaced, or its account put aside,
\* whatever else contends for the lock; a token that was lost may keep the
\* workers out while requests retry it.
DueIsSettled == age[db.tok] > 0 ~> age[db.tok] = 0 \/ status = "error" \/ lost

=============================================================================
