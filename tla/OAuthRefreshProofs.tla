------------------------ MODULE OAuthRefreshProofs ------------------------
(***************************************************************************)
(* Theorems about OAuthRefresh: the types, and the four safety invariants  *)
(* of the rotation, for any number of processes, requests, administrators, *)
(* tokens and faults.                                                      *)
(***************************************************************************)
EXTENDS OAuthRefresh, FiniteSetTheorems, TLAPS

----------------------------------------------------------------------------
(* The inductive invariant                                                 *)

\* Only the administrator's handlers load and write; they never take a lock
Roles ==
    /\ \A t \in Refreshers : th[t].pc \notin {"load", "write"}
    /\ \A a \in Admins : /\ th[a].pc \in {"idle", "refresh", "load", "write", "edit", "invalidate"}
                         /\ th[a].result \in {"none", "invalid"}

\* Something other than the refreshers' own race has happened
Excused == losses > 0 \/ excuse = TRUE

\* The live token is nowhere but in someone's hands, or nowhere at all
Hidden == (\E u \in Threads : InHand(u)) \/ (lost = TRUE /\ ~Excused)

\* Credentials that were stored once: they are not the live ones while those are hidden
Known(c) == c.tok <= live /\ (Hidden => c.tok < live)

\* Whoever has a new token in hand has the live one, alone
Carries(t) ==
    /\ th[t].seen.tok = live /\ lost = FALSE
    /\ \A u \in Threads : InHand(u) => u = t

\* All that is stored, or that threads hold, was stored once or is new
Coherent ==
    /\ Known(db) /\ Known(First)
    /\ \A t \in Threads : Known(th[t].acct) /\ (InHand(t) \/ Known(th[t].seen))
    /\ \A t \in Threads : InHand(t) => Carries(t)

\* Between LocalLock and the return the mutex of the process is the refresher's
Guarded(t) == th[t].pc \in {"lock", "reread", "refresh", "recover", "persist", "release"}
MutexHeld  == \A t \in Refreshers : Guarded(t) => mutex[Proc(t)] = t

\* Refreshers that no lock protects, and those that will delete one not theirs
Deleting(t) == At(t, "release") /\ th[t].locked = TRUE
Zombies == {t \in Refreshers : (t \in Inside \/ Deleting(t)) /\ lock # t}
Fenced  == Cardinality(Zombies) <= losses

\* A refresher asks with the stored token, and no new one is on its way
AsksStored(t) == th[t].seen.tok = db.tok /\ \A u \in Threads : ~InHand(u)
Undisturbed   == \A t \in Refreshers : At(t, "refresh") => Excused \/ AsksStored(t)

\* A refused token, and an account in error, mean that the live token is lost
Condemned ==
    /\ status = "error" => lost = TRUE \/ Excused
    /\ \A t \in Threads : (th[t].pc \in {"recover", "setError"} \/ th[t].result = "invalid") => lost = TRUE \/ Excused

\* A request about to cache something else than the stored token is on record
BehindKnown == \A r \in Requests : At(r, "cache") /\ th[r].acct # db => r \in behind

\* The last writer repairs a stale entry: it is the one its version check lets through
Repairs(t) ==
    \/ At(t, "invalidate")
    \/ th[t].result = "refreshed" /\ th[t].pc \in {"release", "check", "cache"} /\ th[t].acct = db
RepairPending == cache \in {None, db.tok} \/ raced = TRUE \/ \E t \in Threads : Repairs(t)

\* The type invariant, and why the losses are within their bound
Typed == TypeOK /\ losses <= faults

IInv ==
    /\ Roles /\ Coherent /\ LiveTokenIsKept
    /\ MutexHeld /\ Fenced
    /\ Undisturbed /\ Condemned
    /\ BehindKnown /\ RepairPending

\* Every process and request has its process's mutex.
LEMMA ProcType ==
    /\ \A t \in Refreshers : Proc(t) \in Processes /\ t \in Threads /\ t # NoOne
    /\ \A p \in Processes : Proc(p) = p /\ p \in Refreshers /\ p \notin Requests
    /\ \A r \in Requests : r \in Refreshers /\ r \in Threads
    /\ \A a \in Admins : a \in Threads /\ a \notin Refreshers
BY ThreadAssumption DEF Proc, Refreshers, Threads

----------------------------------------------------------------------------
(* What a step makes of its thread                                         *)

\* The other threads stay as they are
Only(t) == \A u \in Threads : u # t => th'[u] = th[u]

\* The thread's record after the step, field by field
Becomes(t, s, a, c, res, l) ==
    /\ th' \in [Threads -> Thread] /\ Only(t)
    /\ th'[t].pc = s /\ th'[t].acct = a /\ th'[t].seen = c /\ th'[t].result = res /\ th'[t].locked = l

\* The reset record is a thread's record.
LEMMA RestType ==
    /\ First \in Creds /\ Rest \in Thread
    /\ Rest.pc = "idle" /\ Rest.acct = First /\ Rest.seen = First /\ Rest.result = "none" /\ Rest.locked = FALSE
<1>1. First \in Creds
  BY RefreshBoundAssumption DEF First, Creds, Tokens
<1>2. 1 \in 1..MaxRetries
  BY RefreshBoundAssumption
<1> QED BY <1>1, <1>2 DEF Rest, Thread, Steps, Results

\* A record that replaces the thread's is what the thread becomes.
LEMMA SetBecomes ==
    ASSUME th \in [Threads -> Thread], NEW t \in Threads, NEW rec \in Thread, Set(t, rec)
    PROVE  Becomes(t, rec.pc, rec.acct, rec.seen, rec.result, rec.locked)
BY DEF Set, Becomes, Only

\* Moving on changes the step alone.
LEMMA GotoBecomes ==
    ASSUME th \in [Threads -> Thread], NEW t \in Threads, NEW s \in Steps, Goto(t, s)
    PROVE  Becomes(t, s, th[t].acct, th[t].seen, th[t].result, th[t].locked)
<1>1. th[t] \in Thread
  OBVIOUS
<1>2. [th[t] EXCEPT !.pc = s] \in Thread
  BY <1>1 DEF Thread
<1>3. th' = [th EXCEPT ![t] = [th[t] EXCEPT !.pc = s]]
  BY DEF Goto
<1> QED BY <1>1, <1>2, <1>3 DEF Becomes, Only, Thread

\* Stop and Follow leave nothing of the refresh.
LEMMA FollowBecomes ==
    ASSUME th \in [Threads -> Thread], NEW t \in Threads
    PROVE  /\ Stop(t) => Becomes(t, "idle", First, First, "none", FALSE)
           /\ \A s \in Steps : Follow(t, s) => Becomes(t, s, First, First, "none", FALSE)
<1>1. Stop(t) => Becomes(t, "idle", First, First, "none", FALSE)
  BY RestType, SetBecomes DEF Stop
<1>2. ASSUME NEW s \in Steps, Follow(t, s) PROVE Becomes(t, s, First, First, "none", FALSE)
  <2>1. [Rest EXCEPT !.pc = s] \in Thread
    BY RestType DEF Thread
  <2> QED BY <1>2, <2>1, RestType, SetBecomes DEF Follow, Rest
<1> QED BY <1>1, <1>2

\* Scan, Arrive and AdminGet begin with the account as it is stored.
LEMMA StartBecomes ==
    ASSUME th \in [Threads -> Thread], NEW t \in Threads, NEW s \in Steps, NEW c \in Creds
    PROVE  /\ Set(t, [Rest EXCEPT !.pc = s, !.acct = c]) => Becomes(t, s, c, First, "none", FALSE)
           /\ Set(t, [Rest EXCEPT !.pc = s, !.seen = c]) => Becomes(t, s, First, c, "none", FALSE)
           /\ \A n \in 1..MaxRetries :
                 Set(t, [Rest EXCEPT !.pc = s, !.acct = c, !.tries = n]) => Becomes(t, s, c, First, "none", FALSE)
           /\ \A res \in Results :
                 /\ Set(t, [Rest EXCEPT !.pc = s, !.result = res, !.acct = c]) => Becomes(t, s, c, First, res, FALSE)
                 /\ Set(t, [Rest EXCEPT !.pc = s, !.seen = c, !.result = res]) => Becomes(t, s, First, c, res, FALSE)
<1>1. [Rest EXCEPT !.pc = s, !.acct = c] \in Thread /\ [Rest EXCEPT !.pc = s, !.seen = c] \in Thread
  BY RestType DEF Thread
<1>2. \A n \in 1..MaxRetries : [Rest EXCEPT !.pc = s, !.acct = c, !.tries = n] \in Thread
  BY RestType DEF Thread
<1>3. \A res \in Results : /\ [Rest EXCEPT !.pc = s, !.result = res, !.acct = c] \in Thread
                            /\ [Rest EXCEPT !.pc = s, !.seen = c, !.result = res] \in Thread
  BY RestType DEF Thread
<1>4. Set(t, [Rest EXCEPT !.pc = s, !.acct = c]) => Becomes(t, s, c, First, "none", FALSE)
  BY <1>1, SetBecomes DEF Rest
<1>5. Set(t, [Rest EXCEPT !.pc = s, !.seen = c]) => Becomes(t, s, First, c, "none", FALSE)
  BY <1>1, SetBecomes DEF Rest
<1>6. ASSUME NEW n \in 1..MaxRetries, Set(t, [Rest EXCEPT !.pc = s, !.acct = c, !.tries = n])
      PROVE Becomes(t, s, c, First, "none", FALSE)
  BY <1>2, <1>6, SetBecomes DEF Rest
<1>7. ASSUME NEW res \in Results, Set(t, [Rest EXCEPT !.pc = s, !.result = res, !.acct = c])
      PROVE Becomes(t, s, c, First, res, FALSE)
  BY <1>3, <1>7, SetBecomes DEF Rest
<1>8. ASSUME NEW res \in Results, Set(t, [Rest EXCEPT !.pc = s, !.seen = c, !.result = res])
      PROVE Becomes(t, s, First, c, res, FALSE)
  BY <1>3, <1>8, SetBecomes DEF Rest
<1> QED BY <1>4, <1>5, <1>6, <1>7, <1>8

\* A refresh goes to its end with the account it returns, or on with what it read.
LEMMA RefreshBecomes ==
    ASSUME th \in [Threads -> Thread], NEW t \in Threads, NEW c \in Creds
    PROVE  /\ \A res \in Results : Succeed(t, res, c) => Becomes(t, "release", c, First, res, th[t].locked)
           /\ \A res \in Results : Finish(t, res) => Becomes(t, "release", th[t].acct, First, res, th[t].locked)
           /\ \A s \in Steps : Set(t, [th[t] EXCEPT !.pc = s, !.seen = c])
                 => Becomes(t, s, th[t].acct, c, th[t].result, th[t].locked)
           /\ \A s \in Steps, res \in Results : Set(t, [th[t] EXCEPT !.pc = s, !.result = res])
                 => Becomes(t, s, th[t].acct, th[t].seen, res, th[t].locked)
           /\ \A s \in Steps : Set(t, [th[t] EXCEPT !.pc = s, !.locked = TRUE])
                 => Becomes(t, s, th[t].acct, th[t].seen, th[t].result, TRUE)
<1> DEFINE r == th[t]
<1>0. r \in Thread
  OBVIOUS
<1>a. \A e \in Creds, res \in Results : [r EXCEPT !.pc = "release", !.result = res, !.acct = e, !.seen = First] \in Thread
  BY <1>0, RestType DEF Thread, Steps
<1>b. \A s \in Steps : [r EXCEPT !.pc = s, !.seen = c] \in Thread
  BY <1>0 DEF Thread
<1>c. \A s \in Steps, res \in Results : [r EXCEPT !.pc = s, !.result = res] \in Thread
  BY <1>0 DEF Thread
<1>d. \A s \in Steps : [r EXCEPT !.pc = s, !.locked = TRUE] \in Thread
  BY <1>0 DEF Thread
<1>1. ASSUME NEW e \in Creds, NEW res \in Results, Succeed(t, res, e)
      PROVE  Becomes(t, "release", e, First, res, th[t].locked)
  <2> DEFINE n == [r EXCEPT !.pc = "release", !.result = res, !.acct = e, !.seen = First]
  <2>1. n \in Thread /\ Set(t, n)
    BY <1>1, <1>a DEF Succeed
  <2>2. n.pc = "release" /\ n.acct = e /\ n.seen = First /\ n.result = res /\ n.locked = r.locked
    BY <1>0 DEF Thread
  <2> HIDE DEF n
  <2> QED BY <2>1, <2>2, SetBecomes
<1>2. r.acct \in Creds
  BY <1>0 DEF Thread
<1>3. ASSUME NEW res \in Results, Finish(t, res)
      PROVE  Becomes(t, "release", th[t].acct, First, res, th[t].locked)
  BY <1>1, <1>2, <1>3 DEF Finish
<1>4. ASSUME NEW s \in Steps, Set(t, [th[t] EXCEPT !.pc = s, !.seen = c])
      PROVE  Becomes(t, s, th[t].acct, c, th[t].result, th[t].locked)
  BY <1>0, <1>4, <1>b, SetBecomes DEF Thread
<1>5. ASSUME NEW s \in Steps, NEW res \in Results, Set(t, [th[t] EXCEPT !.pc = s, !.result = res])
      PROVE  Becomes(t, s, th[t].acct, th[t].seen, res, th[t].locked)
  BY <1>0, <1>5, <1>c, SetBecomes DEF Thread
<1>6. ASSUME NEW s \in Steps, Set(t, [th[t] EXCEPT !.pc = s, !.locked = TRUE])
      PROVE  Becomes(t, s, th[t].acct, th[t].seen, th[t].result, TRUE)
  BY <1>0, <1>6, <1>d, SetBecomes DEF Thread
<1> QED BY <1>1, <1>3, <1>4, <1>5, <1>6

Outside == {"wait", "check", "invalidate", "idle", "setError", "setTemp", "mutex"}
Returned(t, res) ==
    \E s \in Outside, a \in {First, th[t].acct}, q \in {"none", "refreshed"} :
        /\ Becomes(t, s, a, First, q, FALSE)
        /\ s = "setError" => res = "invalid"
        /\ q = "refreshed" => res = "refreshed"
        /\ res = "refreshed" => s = "invalidate" \/ (s = "check" /\ q = "refreshed" /\ a = th[t].acct)

\* What RefreshIfNeeded's caller goes on with.
LEMMA ReturnBecomes ==
    ASSUME th \in [Threads -> Thread], NEW t \in Refreshers, NEW res \in Results, Return(t, res)
    PROVE  Returned(t, res)
<1> USE DEF Returned, Outside
<1> DEFINE P(s, a, q) ==
              /\ Becomes(t, s, a, First, q, FALSE)
              /\ s = "setError" => res = "invalid"
              /\ q = "refreshed" => res = "refreshed"
              /\ res = "refreshed" => s = "invalidate" \/ (s = "check" /\ q = "refreshed" /\ a = th[t].acct)
<1> DEFINE S == {"wait", "check", "invalidate", "idle", "setError", "setTemp", "mutex"}
<1>0. t \in Threads /\ S \subseteq Steps /\ th[t].acct \in Creds
  BY DEF Threads, Steps, Thread
<1>1. CASE t \in Requests /\ RequestAfter(t, res)
  <2> DEFINE s == IF res = "held" THEN "wait" ELSE "check"
             q == IF res = "refreshed" THEN res ELSE "none"
  <2>1. s \in S /\ s \in Steps /\ q \in Results
    BY DEF Steps, Results
  <2>2. Set(t, [Rest EXCEPT !.pc = s, !.result = q, !.acct = th[t].acct])
    BY <1>1 DEF RequestAfter
  <2>3. Becomes(t, s, th[t].acct, First, q, FALSE)
    BY <1>0, <2>1, <2>2, StartBecomes
  <2> QED BY <2>1, <2>3
<1>2. CASE t \in Processes /\ WorkerAfter(t, res)
  <2>1. CASE res = "refreshed" /\ Follow(t, "invalidate")
    BY <1>0, <2>1, FollowBecomes
  <2>2. CASE res \in {"held", "already"} /\ Stop(t)
    BY <1>0, <2>2, FollowBecomes
  <2>3. CASE res = "invalid" /\ Follow(t, "setError")
    BY <1>0, <2>3, FollowBecomes
  <2>4. CASE res = "failed" /\ Follow(t, "setTemp")
    BY <1>0, <2>4, FollowBecomes
  <2>5. CASE /\ res = "failed" /\ th[t].tries < MaxRetries
             /\ Set(t, [Rest EXCEPT !.pc = "mutex", !.acct = th[t].acct, !.tries = th[t].tries + 1])
    <3>1. th[t].tries + 1 \in 1..MaxRetries
      BY <1>0, <2>5, RefreshBoundAssumption DEF Thread
    <3>2. Becomes(t, "mutex", th[t].acct, First, "none", FALSE)
      BY <1>0, <2>5, <3>1, StartBecomes
    <3> QED BY <2>5, <3>2
  <2> QED BY <1>2, <2>1, <2>2, <2>3, <2>4, <2>5 DEF WorkerAfter
<1> QED BY <1>1, <1>2 DEF Return

----------------------------------------------------------------------------
(* What keeps each part of the invariant when one thread moves             *)

RoleOK(t) ==
    /\ t \in Refreshers => th[t].pc \notin {"load", "write"}
    /\ t \in Admins => /\ th[t].pc \in {"idle", "refresh", "load", "write", "edit", "invalidate"}
                       /\ th[t].result \in {"none", "invalid"}
Fence(t)   == th[t].pc \in {"reread", "refresh", "recover", "persist"} \/ Deleting(t)
Suspect(t) == th[t].pc \in {"recover", "setError"} \/ th[t].result = "invalid"

\* A thread keeps to the steps of its role.
LEMMA RolesKept ==
    ASSUME Roles, NEW t \in Threads, Only(t), RoleOK(t)'
    PROVE  Roles'
BY DEF Roles, RoleOK, Only, Threads

\* A thread with nothing in hand that keeps to stored credentials changes no token.
LEMMA CoherentKept ==
    ASSUME Coherent, LiveTokenIsKept, NEW t \in Threads, Only(t), UNCHANGED <<live, db, lost>>, Excused => Excused',
           ~InHand(t), ~InHand(t)', Known(th'[t].acct), Known(th'[t].seen)
    PROVE  Coherent' /\ LiveTokenIsKept'
<1>1. \A u \in Threads : InHand(u)' => u # t /\ InHand(u) /\ th'[u] = th[u]
  BY DEF InHand, Only
<1>2. \A u \in Threads : InHand(u) => u # t /\ InHand(u)' /\ th'[u] = th[u]
  BY DEF InHand, Only
<1>h. Hidden' => Hidden
  BY <1>1 DEF Hidden
<1>3. \A u \in Threads : Known(th'[u].acct) /\ (InHand(u)' \/ Known(th'[u].seen))
  BY <1>2 DEF Coherent, Only
<1>4. \A u \in Threads : InHand(u)' => Carries(u)'
  BY <1>1 DEF Coherent, Carries
<1>5. Coherent'
  BY <1>h, <1>3, <1>4 DEF Coherent, Known
<1>6. LiveTokenIsKept'
  BY <1>2 DEF LiveTokenIsKept
<1> QED BY <1>5, <1>6

\* The mutex stays with its holder.
LEMMA MutexKept ==
    ASSUME MutexHeld, NEW t \in Threads, Only(t), UNCHANGED mutex, t \in Refreshers /\ Guarded(t)' => Guarded(t)
    PROVE  MutexHeld'
BY DEF MutexHeld, Guarded, Only, Refreshers, Threads, Proc

\* Nobody new is without a lock.
LEMMA ZombiesKept ==
    ASSUME Fenced, Typed, Zombies' \subseteq Zombies, losses' \in Nat, losses' >= losses
    PROVE  Fenced'
<1>1. IsFiniteSet(Zombies)
  BY ThreadAssumption, FS_Subset DEF Zombies, Threads
<1>2. IsFiniteSet(Zombies') /\ Cardinality(Zombies') <= Cardinality(Zombies)
  BY <1>1, FS_Subset
<1>3. Cardinality(Zombies) \in Nat /\ Cardinality(Zombies') \in Nat
  BY <1>1, <1>2, FS_CardinalityType
<1>4. losses \in Nat
  BY RefreshBoundAssumption DEF Typed, TypeOK
<1>5. \A c, d, l, m \in Nat : c <= l /\ d <= c /\ m >= l => d <= m
  OBVIOUS
<1> QED BY <1>2, <1>3, <1>4, <1>5 DEF Fenced

LEMMA FencedKept ==
    ASSUME Fenced, Typed, NEW t \in Threads, Only(t), UNCHANGED lock, losses' \in Nat, losses' >= losses,
           t \in Refreshers /\ Fence(t)' => Fence(t)
    PROVE  Fenced'
<1>1. Zombies' \subseteq Zombies
  BY DEF Zombies, Inside, Fence, Deleting, At, Only, Threads
<1> QED BY <1>1, ZombiesKept

\* A thread that gets nothing in hand disturbs nobody's refresh.
LEMMA UndisturbedKept ==
    ASSUME Undisturbed, NEW t \in Threads, Only(t), UNCHANGED db, Excused => Excused',
           InHand(t)' => InHand(t),
           t \in Refreshers /\ At(t, "refresh")' => Excused' \/ AsksStored(t)'
    PROVE  Undisturbed'
<1> SUFFICES ASSUME NEW u \in Refreshers, At(u, "refresh")', u # t PROVE Excused' \/ AsksStored(u)'
  BY DEF Undisturbed
<1>1. u \in Threads
  BY ProcType
<1>2. Excused \/ AsksStored(u)
  BY <1>1 DEF Undisturbed, At, Only
<1>3. AsksStored(u) => AsksStored(u)'
  BY <1>1 DEF AsksStored, Only, InHand
<1> QED BY <1>2, <1>3

\* Nobody is newly refused, and no account newly put in error.
LEMMA CondemnedKept ==
    ASSUME Condemned, NEW t \in Threads, Only(t), UNCHANGED status,
           lost = TRUE \/ Excused => lost' = TRUE \/ Excused',
           Suspect(t)' => Suspect(t) \/ lost' = TRUE \/ Excused'
    PROVE  Condemned'
BY DEF Condemned, Suspect, Only

\* The record of stale requests stays complete.
LEMMA BehindKept ==
    ASSUME BehindKnown, NEW t \in Threads, Only(t), UNCHANGED db, \A u \in behind : u # t => u \in behind',
           t \in Requests /\ At(t, "cache")' /\ th'[t].acct # db => t \in behind'
    PROVE  BehindKnown'
BY DEF BehindKnown, At, Only, Threads, Refreshers

\* A repair under way stays under way.
LEMMA RepairKept ==
    ASSUME RepairPending, NEW t \in Threads, Only(t), UNCHANGED <<db, cache>>, raced = TRUE => raced' = TRUE,
           Repairs(t) => Repairs(t)'
    PROVE  RepairPending'
<1>1. \A u \in Threads : Repairs(u) => Repairs(u)'
  BY DEF Repairs, At, Only
<1> QED BY <1>1 DEF RepairPending

\* A step of a thread that has nothing in hand before or after it.
LEMMA QuietKept ==
    ASSUME Typed, IInv, NEW t \in Threads, Only(t), MutexHeld', Fenced', RoleOK(t)',
           UNCHANGED <<live, db, status, lost>>, Excused => Excused',
           ~InHand(t), ~InHand(t)', Known(th'[t].acct), Known(th'[t].seen),
           t \in Refreshers /\ At(t, "refresh")' => Excused' \/ AsksStored(t)',
           Suspect(t)' => Suspect(t) \/ lost = TRUE \/ Excused',
           BehindKnown', RepairPending'
    PROVE  IInv'
<1> USE DEF IInv
<1>1. Roles'
  BY RolesKept
<1>2. Coherent' /\ LiveTokenIsKept'
  BY CoherentKept
<1>3. Undisturbed'
  BY UndisturbedKept
<1>4. Condemned'
  BY CondemnedKept
<1> QED BY <1>1, <1>2, <1>3, <1>4

\* The same when the step leaves the cache and the stored token alone.
LEMMA PlainKept ==
    ASSUME Typed, IInv, NEW t \in Threads, Only(t), MutexHeld', Fenced', RoleOK(t)',
           UNCHANGED <<live, db, status, lost, behind, raced, cache>>, Excused => Excused',
           ~InHand(t), ~InHand(t)', Known(th'[t].acct), Known(th'[t].seen),
           t \in Refreshers /\ At(t, "refresh")' => Excused' \/ AsksStored(t)',
           Suspect(t)' => Suspect(t) \/ lost = TRUE \/ Excused',
           ~At(t, "cache")', Repairs(t) => Repairs(t)'
    PROVE  IInv'
<1>1. BehindKnown' /\ RepairPending'
  BY BehindKept, RepairKept DEF IInv
<1> QED BY <1>1, QuietKept

----------------------------------------------------------------------------
(* Types                                                                   *)

ValuesOK ==
    /\ live \in Tokens /\ age \in [Tokens -> Ages]
    /\ db \in Creds /\ status \in {"active", "error"} /\ cache \in Tokens \union {None}
FlagsOK  == temp \in BOOLEAN /\ excuse \in BOOLEAN /\ lost \in BOOLEAN /\ raced \in BOOLEAN
LocksOK  == lock \in Refreshers \union {NoOne} /\ mutex \in [Processes -> Refreshers \union {NoOne}]
CountsOK == losses \in 0..MaxFaults /\ faults \in 0..MaxFaults /\ losses <= faults

\* The parts of the type invariant.
LEMMA TypeParts ==
    /\ Typed => /\ th \in [Threads -> Thread] /\ behind \subseteq Requests
                /\ ValuesOK /\ FlagsOK /\ LocksOK /\ CountsOK
    /\ th' \in [Threads -> Thread] /\ behind' \subseteq Requests /\ ValuesOK' /\ FlagsOK' /\ LocksOK' /\ CountsOK'
       => Typed'
BY DEF Typed, TypeOK, ValuesOK, FlagsOK, LocksOK, CountsOK

\* Faults are counted up to their bound, losses no faster.
LEMMA CountsKept ==
    ASSUME CountsOK,
           \/ UNCHANGED <<losses, faults>>
           \/ Inject /\ UNCHANGED losses
           \/ Inject /\ losses' = losses + 1
    PROVE  CountsOK' /\ losses' \in Nat /\ losses' >= losses /\ losses \in Nat
BY RefreshBoundAssumption DEF CountsOK, Inject

\* What a step leaves alone keeps its type.
LEMMA SameTypes ==
    /\ ValuesOK /\ UNCHANGED <<live, age, db, status, cache>> => ValuesOK'
    /\ FlagsOK /\ UNCHANGED <<temp, excuse, lost, raced>> => FlagsOK'
    /\ LocksOK /\ UNCHANGED locks => LocksOK'
BY DEF ValuesOK, FlagsOK, LocksOK, locks

\* A step that moves one thread and at most counts a fault.
LEMMA MoveTyped ==
    ASSUME Typed, th' \in [Threads -> Thread], UNCHANGED <<live, age, row, cache, locks, ghost, stale>>,
           Inject \/ UNCHANGED faults
    PROVE  Typed'
<1>1. CountsOK'
  BY TypeParts, CountsKept DEF ghost
<1>2. ValuesOK' /\ FlagsOK' /\ LocksOK'
  BY TypeParts, SameTypes DEF row, ghost, stale
<1> QED BY <1>1, <1>2, TypeParts DEF stale

\* Stored credentials are known, and so are a thread's own.
LEMMA KnownCreds ==
    ASSUME Typed, Coherent
    PROVE  /\ Known(db) /\ Known(First) /\ db \in Creds /\ First \in Creds
           /\ \A t \in Threads : /\ Known(th[t].acct) /\ (~InHand(t) => Known(th[t].seen))
                                 /\ th[t] \in Thread /\ th[t].acct \in Creds /\ th[t].seen \in Creds
<1>1. db \in Creds
  BY DEF Typed, TypeOK
<1>2. Known(db)
  BY DEF Coherent
<1>3. \A t \in Threads : th[t] \in Thread /\ th[t].acct \in Creds /\ th[t].seen \in Creds
  BY DEF Typed, TypeOK, Thread
<1> QED BY <1>1, <1>2, <1>3, RestType DEF Coherent

----------------------------------------------------------------------------
(* Steps that move one thread and change nothing shared                    *)

\* A thread with nothing in hand goes on, with stored credentials, outside of a
\* refresh or to its end.
LEMMA MovedKept ==
    ASSUME Typed, IInv, NEW t \in Threads, NEW s, NEW a, NEW c, NEW q, NEW l, Becomes(t, s, a, c, q, l),
           UNCHANGED <<live, age, db, status, cache, locks, ghost, stale>>, temp' \in BOOLEAN, Inject \/ UNCHANGED faults,
           ~InHand(t), s \notin {"persist", "load", "write", "cache", "lock", "reread"},
           t \in Admins => s \in {"idle", "refresh", "edit", "invalidate"} /\ q \in {"none", "invalid"},
           t \in Refreshers => s # "refresh",
           s \in {"recover", "release"} => Guarded(t) /\ Fence(t),
           Known(a), Known(c),
           s \in {"recover", "setError"} \/ q = "invalid" => Suspect(t) \/ lost = TRUE \/ Excused,
           Repairs(t) => s = "invalidate" \/ (q = "refreshed" /\ s \in {"release", "check"} /\ a = db)
    PROVE  Typed' /\ IInv'
<1>1. CountsOK'
  BY TypeParts, CountsKept DEF ghost
<1>2. ValuesOK' /\ FlagsOK' /\ LocksOK'
  BY TypeParts, SameTypes DEF ghost, stale, FlagsOK
<1>3. Typed'
  BY <1>1, <1>2, TypeParts DEF stale, Becomes
<1>4. Only(t) /\ MutexHeld
  BY DEF Becomes, IInv
<1>5. MutexHeld'
  BY <1>4, MutexKept DEF Becomes, Guarded, locks
<1>6. RoleOK(t)' /\ ~InHand(t)' /\ Known(th'[t].acct) /\ Known(th'[t].seen)
  BY DEF Becomes, RoleOK, InHand
<1>7. /\ t \in Refreshers => ~At(t, "refresh")'
      /\ ~At(t, "cache")'
  BY DEF Becomes, At
<1>f. t \in Refreshers /\ Fence(t)' => Fence(t)
  BY DEF Becomes, Fence, Deleting, At
<1>g. losses' \in Nat /\ losses' >= losses /\ (Excused => Excused')
  BY TypeParts, CountsKept DEF ghost, Excused
<1>h. Fenced'
  BY <1>4, <1>f, <1>g, FencedKept DEF IInv, locks
<1>8. Suspect(t)' => Suspect(t) \/ lost = TRUE \/ Excused
  BY DEF Becomes, Suspect
<1>9. Repairs(t) => Repairs(t)'
  BY DEF Becomes, Repairs, At
<1>a. IInv'
  BY <1>4, <1>5, <1>6, <1>7, <1>8, <1>9, <1>g, <1>h, PlainKept DEF locks, ghost, stale, Excused
<1> QED BY <1>3, <1>a

\* A worker's scan, a request's arrival and a look into the cache, the wait for another
\* refresher's token, a pause after exhausted retries, and the start of a manual refresh
\* or of an edit.
LEMMA StartKept ==
    ASSUME Typed, IInv, NEW t \in Threads,
           \/ t \in Processes /\ (Scan(t) \/ SetTempUnschedulable(t))
           \/ t \in Requests /\ (Arrive(t) \/ GetAccessToken(t) \/ WaitForCache(t))
           \/ t \in Admins /\ (AdminGet(t) \/ EditLoad(t))
    PROVE  Typed' /\ IInv'
<1>1. th \in [Threads -> Thread] /\ db \in Creds /\ temp \in BOOLEAN
  BY DEF Typed, TypeOK
<1>2. Known(db) /\ Known(First) /\ Known(th[t].acct)
      /\ (~InHand(t) => Known(th[t].seen))
  BY KnownCreds DEF IInv
<1>3. (t \in Processes \/ t \in Requests => t \in Refreshers /\ t \notin Admins) /\ (t \in Admins => t \notin Refreshers)
  BY ProcType
<1>4. CASE t \in Processes /\ Scan(t)
  <2>1. Becomes(t, "mutex", db, First, "none", FALSE)
    BY <1>1, <1>4, StartBecomes DEF Scan, Steps
  <2> QED BY <1>1, <1>2, <1>3, <1>4, <2>1, MovedKept DEF Scan, At, InHand, Repairs, row
<1>5. CASE t \in Processes /\ SetTempUnschedulable(t)
  <2>1. Becomes(t, "idle", First, First, "none", FALSE)
    BY <1>1, <1>5, FollowBecomes DEF SetTempUnschedulable
  <2>2. temp' \in BOOLEAN
    BY <1>1, <1>5 DEF SetTempUnschedulable
  <2> QED BY <1>2, <1>3, <1>5, <2>1, <2>2, MovedKept DEF SetTempUnschedulable, At, InHand, Repairs, row
<1>6. CASE t \in Requests /\ Arrive(t)
  <2>1. Becomes(t, "get", db, First, "none", FALSE)
    BY <1>1, <1>6, StartBecomes DEF Arrive, Steps
  <2> QED BY <1>1, <1>2, <1>3, <1>6, <2>1, MovedKept DEF Arrive, At, InHand, Repairs, row
<1>7. CASE t \in Requests /\ GetAccessToken(t)
  <2>1. CASE Stop(t) /\ UNCHANGED faults
    <3>1. Becomes(t, "idle", First, First, "none", FALSE)
      BY <1>1, <2>1, FollowBecomes
    <3> QED BY <1>1, <1>2, <1>3, <1>7, <2>1, <3>1, MovedKept DEF GetAccessToken, At, InHand, Repairs, row
  <2>2. CASE Goto(t, IF Due(t, th[t].acct) THEN "mutex" ELSE "check") /\ (UNCHANGED faults \/ Inject)
    <3>1. PICK s \in {"mutex", "check"} : Goto(t, s)
      BY <2>2
    <3>2. Becomes(t, s, th[t].acct, th[t].seen, th[t].result, th[t].locked)
      BY <1>1, <3>1, GotoBecomes DEF Steps
    <3> QED BY <1>1, <1>2, <1>3, <1>7, <2>2, <3>1, <3>2, MovedKept
            DEF GetAccessToken, At, InHand, Repairs, Suspect, row
  <2> QED BY <1>7, <2>1, <2>2 DEF GetAccessToken
<1>8. CASE t \in Requests /\ WaitForCache(t)
  <2>0. th[t].pc = "wait" /\ UNCHANGED <<live, age, row, cache, locks, ghost, stale>> /\ (Inject \/ UNCHANGED faults)
    BY <1>8 DEF WaitForCache, At
  <2>1. CASE Stop(t)
    <3>1. Becomes(t, "idle", First, First, "none", FALSE)
      BY <1>1, <2>1, FollowBecomes
    <3> QED BY <1>1, <1>2, <1>3, <1>8, <2>0, <3>1, MovedKept DEF At, InHand, Repairs, row
  <2>2. CASE Goto(t, "check")
    <3>2. Becomes(t, "check", th[t].acct, th[t].seen, th[t].result, th[t].locked)
      BY <1>1, <2>2, GotoBecomes DEF Steps
    <3>4. "check" # "refresh"
      OBVIOUS
    <3> QED BY <1>1, <1>2, <1>3, <1>8, <2>0, <3>2, <3>4, MovedKept DEF At, InHand, Repairs, Suspect, row
  <2> QED BY <1>8, <2>1, <2>2 DEF WaitForCache
<1>9. CASE t \in Admins /\ AdminGet(t)
  <2>1. Becomes(t, "refresh", First, db, "none", FALSE)
    BY <1>1, <1>9, StartBecomes DEF AdminGet, Steps
  <2> QED BY <1>1, <1>2, <1>3, <1>9, <2>1, MovedKept DEF AdminGet, At, InHand, Repairs, row
<1>10. CASE t \in Admins /\ EditLoad(t)
  <2> DEFINE q == IF status = "active" THEN "none" ELSE "invalid"
  <2>1. q \in Results /\ q \in {"none", "invalid"} /\ (q = "invalid" => status = "error")
    BY DEF Results, Typed, TypeOK
  <2>2. Becomes(t, "edit", First, db, q, FALSE)
    BY <1>1, <1>10, <2>1, StartBecomes DEF EditLoad, Steps
  <2>3. q = "invalid" => lost = TRUE \/ Excused
    BY <2>1 DEF IInv, Condemned
  <2>4. th[t].pc = "idle" /\ UNCHANGED <<live, age, row, cache, locks, ghost, stale, faults>>
    BY <1>10 DEF EditLoad, At
  <2>5. "edit" # "refresh"
    OBVIOUS
  <2> HIDE DEF q
  <2> QED BY <1>1, <1>2, <1>3, <1>10, <2>1, <2>2, <2>3, <2>4, <2>5, MovedKept DEF At, InHand, Repairs, row
<1> QED BY <1>4, <1>5, <1>6, <1>7, <1>8, <1>9, <1>10

----------------------------------------------------------------------------
(* RefreshIfNeeded                                                         *)

\* Taking the mutex of the process.
LEMMA LocalLockKept ==
    ASSUME Typed, IInv, NEW t \in Refreshers, LocalLock(t)
    PROVE  Typed' /\ IInv'
<1>1. th \in [Threads -> Thread] /\ mutex \in [Processes -> Refreshers \union {NoOne}]
  BY DEF Typed, TypeOK
<1>2. t \in Threads /\ t \notin Admins /\ Proc(t) \in Processes
  BY ProcType
<1>3. Known(th[t].acct) /\ (~InHand(t) => Known(th[t].seen))
  BY <1>2, KnownCreds DEF IInv
<1>4. Becomes(t, "lock", th[t].acct, th[t].seen, th[t].result, th[t].locked)
  BY <1>1, <1>2, GotoBecomes DEF LocalLock, Steps
<1>5. LocksOK'
  BY <1>1, <1>2, TypeParts DEF LocalLock, LocksOK
<1>6. CountsOK'
  BY TypeParts, CountsKept DEF LocalLock, ghost
<1>7. Typed'
  BY <1>4, <1>5, <1>6, TypeParts, SameTypes DEF LocalLock, Becomes, row, ghost, stale
<1>8. MutexHeld'
  <2> SUFFICES ASSUME NEW u \in Refreshers, Guarded(u)' PROVE mutex'[Proc(u)] = u
    BY DEF MutexHeld, Proc
  <2>1. CASE u = t
    BY <1>1, <1>2, <2>1 DEF LocalLock
  <2>2. CASE u # t
    <3>1. Guarded(u) /\ Proc(u) \in Processes /\ u # NoOne
      BY <1>4, <2>2, ProcType DEF Becomes, Only, Guarded, Threads
    <3>2. mutex[Proc(u)] = u
      BY <3>1 DEF IInv, MutexHeld
    <3> QED BY <1>1, <1>2, <3>1, <3>2 DEF LocalLock
  <2> QED BY <2>1, <2>2
<1>9. t \in Refreshers /\ Fence(t)' => Fence(t)
  BY <1>4 DEF Becomes, Fence, Deleting, At
<1>10. Fenced' /\ (Excused => Excused')
  BY <1>2, <1>4, <1>9, FencedKept, CountsKept, TypeParts DEF IInv, LocalLock, Becomes, ghost, Excused
<1>11. IInv'
  BY <1>2, <1>3, <1>4, <1>8, <1>10, PlainKept
     DEF LocalLock, At, Becomes, RoleOK, InHand, Suspect, Repairs, row, ghost, stale
<1> QED BY <1>7, <1>11

\* The mutex is given back by its holder.
LEMMA ReturnMutex ==
    ASSUME Typed, MutexHeld, NEW t \in Refreshers, Guarded(t), Unlocked(t), Only(t), ~Guarded(t)'
    PROVE  MutexHeld' /\ mutex' \in [Processes -> Refreshers \union {NoOne}]
<1>1. mutex \in [Processes -> Refreshers \union {NoOne}] /\ Proc(t) \in Processes
  BY ProcType DEF Typed, TypeOK
<1>2. mutex[Proc(t)] = t
  BY DEF MutexHeld
<1>3. ASSUME NEW u \in Refreshers, Guarded(u)' PROVE mutex'[Proc(u)] = u
  <2>1. u # t
    BY <1>3
  <2>2. Guarded(u) /\ Proc(u) \in Processes
    BY <1>3, <2>1, ProcType DEF Only, Guarded
  <2>3. mutex[Proc(u)] = u
    BY <2>2 DEF MutexHeld
  <2> QED BY <1>1, <1>2, <2>1, <2>2, <2>3 DEF Unlocked
<1> QED BY <1>1, <1>3 DEF MutexHeld, Unlocked, Proc

\* Losing a lock, or going on without one, is counted.
LEMMA ZombieAdded ==
    ASSUME Fenced, Typed, NEW t, Zombies' \subseteq Zombies \union {t}, losses' = losses + 1
    PROVE  Fenced'
<1>1. IsFiniteSet(Zombies)
  BY ThreadAssumption, FS_Subset DEF Zombies, Threads
<1>c. Cardinality(Zombies) \in Nat
  BY <1>1, FS_CardinalityType
<1>2. IsFiniteSet(Zombies \union {t}) /\ Cardinality(Zombies \union {t}) <= Cardinality(Zombies) + 1
  BY <1>1, <1>c, FS_AddElement
<1>3. IsFiniteSet(Zombies') /\ Cardinality(Zombies') <= Cardinality(Zombies \union {t})
  BY <1>2, FS_Subset
<1>4. Cardinality(Zombies) \in Nat /\ Cardinality(Zombies') \in Nat /\ Cardinality(Zombies \union {t}) \in Nat
  BY <1>1, <1>2, <1>3, FS_CardinalityType
<1>5. losses \in Nat
  BY RefreshBoundAssumption DEF Typed, TypeOK
<1>6. \A c, d, e, l \in Nat : c <= l /\ d <= c + 1 /\ e <= d => e <= l + 1
  OBVIOUS
<1> QED BY <1>2, <1>3, <1>4, <1>5, <1>6 DEF Fenced

\* Whoever deletes a lock that is not its own leaves at most one other without one.
LEMMA ZombieSwapped ==
    ASSUME Fenced, Typed, NEW t \in Zombies, NEW u, Zombies' \subseteq (Zombies \ {t}) \union {u}, UNCHANGED losses
    PROVE  Fenced'
<1> DEFINE Z == Zombies \ {t}
<1>1. IsFiniteSet(Zombies)
  BY ThreadAssumption, FS_Subset DEF Zombies, Threads
<1>2. IsFiniteSet(Z) /\ Cardinality(Z) = Cardinality(Zombies) - 1
  BY <1>1, FS_RemoveElement
<1>c. Cardinality(Z) \in Nat
  BY <1>2, FS_CardinalityType
<1>3. IsFiniteSet(Z \union {u}) /\ Cardinality(Z \union {u}) <= Cardinality(Z) + 1
  BY <1>2, <1>c, FS_AddElement
<1>4. IsFiniteSet(Zombies') /\ Cardinality(Zombies') <= Cardinality(Z \union {u})
  BY <1>3, FS_Subset
<1>5. /\ Cardinality(Zombies) \in Nat /\ Cardinality(Zombies') \in Nat
      /\ Cardinality(Z \union {u}) \in Nat /\ Cardinality(Z) \in Nat
  BY <1>1, <1>2, <1>3, <1>4, FS_CardinalityType
<1>6. losses \in Nat
  BY RefreshBoundAssumption DEF Typed, TypeOK
<1>7. \A c, z, d, e, l \in Nat : c <= l /\ z = c - 1 /\ d <= z + 1 /\ e <= d => e <= l
  OBVIOUS
<1> HIDE DEF Z
<1> QED BY <1>2, <1>3, <1>4, <1>5, <1>6, <1>7 DEF Fenced

\* With no loss of the lock its holder is the only refresher inside.
LEMMA AloneInside ==
    ASSUME Typed, Fenced, losses = 0
    PROVE  \A t \in Inside : lock = t
<1>1. IsFiniteSet(Zombies)
  BY ThreadAssumption, FS_Subset DEF Zombies, Threads
<1>2. Cardinality(Zombies) = 0
  BY <1>1, FS_CardinalityType DEF Fenced
<1>3. Zombies = {}
  BY <1>1, <1>2, FS_EmptySet
<1> QED BY <1>3 DEF Zombies, Inside

\* What a refresher that returns goes on with disturbs nothing but the locks.
LEMMA ReturnKept ==
    ASSUME Typed, IInv, NEW t \in Refreshers, NEW res \in Results, Return(t, res),
           UNCHANGED <<live, db, status, lost, losses, excuse, behind, raced, cache>>, Fenced',
           th[t].pc \in {"lock", "release"},
           res = "invalid" => Suspect(t),
           Repairs(t) => res = "refreshed"
    PROVE  IInv' /\ th' \in [Threads -> Thread] /\ mutex' \in [Processes -> Refreshers \union {NoOne}]
<1>1. t \in Threads /\ t \notin Admins
  BY ProcType
<1>2. th \in [Threads -> Thread]
  BY DEF Typed, TypeOK
<1>0. Returned(t, res)
  BY <1>2, ReturnBecomes
<1>3. PICK s \in Outside, a \in {First, th[t].acct}, q \in {"none", "refreshed"} :
              /\ Becomes(t, s, a, First, q, FALSE)
              /\ s = "setError" => res = "invalid"
              /\ q = "refreshed" => res = "refreshed"
              /\ res = "refreshed" => s = "invalidate" \/ (s = "check" /\ q = "refreshed" /\ a = th[t].acct)
  BY <1>0, Zenon DEF Returned
<1>4. Known(First) /\ Known(th[t].acct)
  BY <1>1, KnownCreds DEF IInv
<1>5. MutexHeld' /\ mutex' \in [Processes -> Refreshers \union {NoOne}]
  BY <1>3, ReturnMutex DEF Outside, IInv, Return, Becomes, Guarded
<1>6. Suspect(t)' => Suspect(t)
  BY <1>3 DEF Outside, Becomes, Suspect
<1>7. Repairs(t) => Repairs(t)'
  <2> SUFFICES ASSUME Repairs(t) PROVE Repairs(t)'
    OBVIOUS
  <2>1. th[t].acct = db
    BY DEF Repairs, At
  <2> QED BY <1>3, <2>1 DEF Outside, Becomes, Repairs, At
<1>8. ~InHand(t) /\ ~InHand(t)' /\ RoleOK(t)' /\ ~At(t, "refresh")' /\ ~At(t, "cache")'
  BY <1>1, <1>3 DEF Outside, Becomes, InHand, RoleOK, At
<1>9. Only(t) /\ Known(th'[t].acct) /\ Known(th'[t].seen)
  BY <1>3, <1>4 DEF Becomes
<1>10. Excused => Excused'
  BY DEF Excused
<1>11. IInv'
  BY <1>1, <1>5, <1>6, <1>7, <1>8, <1>9, <1>10, PlainKept
<1> QED BY <1>3, <1>5, <1>11 DEF Becomes

\* Taking the lock, finding it held, or going on without it.
LEMMA AcquireKept ==
    ASSUME Typed, IInv, NEW t \in Refreshers, AcquireRefreshLock(t)
    PROVE  Typed' /\ IInv'
<1>1. t \in Threads /\ t \notin Admins /\ t # NoOne
  BY ProcType
<1>2. th \in [Threads -> Thread] /\ lock \in Refreshers \union {NoOne} /\ th[t].pc = "lock"
      /\ mutex \in [Processes -> Refreshers \union {NoOne}]
  BY DEF Typed, TypeOK, AcquireRefreshLock, At
<1>3. Known(th[t].acct) /\ Known(th[t].seen)
  BY <1>1, <1>2, KnownCreds DEF IInv, InHand
<1>4. ValuesOK' /\ FlagsOK' /\ behind' \subseteq Requests
  <2>1. UNCHANGED <<live, age, row, cache, excuse, lost, stale>>
    BY DEF AcquireRefreshLock
  <2> QED BY <2>1, TypeParts, SameTypes DEF row, stale
<1>5. CASE lock = NoOne /\ lock' = t /\ UNCHANGED <<mutex, losses, faults>>
           /\ Set(t, [th[t] EXCEPT !.pc = "reread", !.locked = TRUE])
  <2>1. Becomes(t, "reread", th[t].acct, th[t].seen, th[t].result, TRUE)
    BY <1>1, <1>2, <1>5, RefreshBecomes, RestType DEF Steps
  <2>2. LocksOK' /\ CountsOK'
    BY <1>2, <1>5, TypeParts, CountsKept DEF LocksOK
  <2>3. Zombies' \subseteq Zombies
    BY <1>5, <2>1, ProcType DEF Zombies, Inside, Deleting, At, Becomes, Only
  <2>4. Fenced' /\ (Excused => Excused')
    BY <1>5, <2>3, ZombiesKept, CountsKept, TypeParts DEF IInv, AcquireRefreshLock, Excused
  <2>5. MutexHeld'
    BY <1>1, <1>2, <1>5, <2>1, MutexKept DEF IInv, Becomes, Guarded
  <2>6. IInv'
    BY <1>1, <1>2, <1>3, <2>1, <2>4, <2>5, PlainKept
       DEF AcquireRefreshLock, At, Becomes, RoleOK, InHand, Suspect, Repairs, row, stale
  <2> QED BY <1>4, <2>1, <2>2, <2>6, TypeParts DEF Becomes
<1>6. CASE Return(t, "held") /\ UNCHANGED <<lock, losses, faults>>
  <2>1. Zombies' \subseteq Zombies
    <3>0. Returned(t, "held")
      BY <1>2, <1>6, ReturnBecomes DEF Results
    <3>1. PICK s \in Outside, a \in {First, th[t].acct}, q \in {"none", "refreshed"} : Becomes(t, s, a, First, q, FALSE)
      BY <3>0, Zenon DEF Returned
    <3> QED BY <1>6, <3>1, ProcType DEF Zombies, Inside, Deleting, At, Becomes, Only, Outside
  <2>2. Fenced'
    BY <1>6, <2>1, ZombiesKept, CountsKept, TypeParts DEF IInv
  <2>3. "held" \in Results /\ ~Repairs(t)
    BY <1>2 DEF Results, Repairs, At
  <2>4. UNCHANGED <<live, db, status, lost, losses, excuse, behind, raced, cache>>
    BY <1>6 DEF AcquireRefreshLock, row, stale
  <2>5. IInv' /\ th' \in [Threads -> Thread] /\ mutex' \in [Processes -> Refreshers \union {NoOne}]
    BY <1>2, <1>6, <2>2, <2>3, <2>4, ReturnKept
  <2>6. LocksOK' /\ CountsOK'
    BY <1>2, <1>6, <2>5, TypeParts, CountsKept DEF LocksOK
  <2> QED BY <1>4, <2>5, <2>6, TypeParts
<1>7. CASE Inject /\ losses' = losses + 1 /\ Goto(t, "reread") /\ UNCHANGED locks
  <2>1. Becomes(t, "reread", th[t].acct, th[t].seen, th[t].result, th[t].locked)
    BY <1>1, <1>2, <1>7, GotoBecomes DEF Steps
  <2>2. LocksOK' /\ CountsOK'
    BY <1>7, TypeParts, SameTypes, CountsKept
  <2>3. Zombies' \subseteq Zombies \union {t}
    BY <1>7, <2>1, ProcType DEF Zombies, Inside, Deleting, At, Becomes, Only, locks
  <2>4. Fenced'
    BY <1>7, <2>3, ZombieAdded DEF IInv
  <2>5. Excused'
    BY <1>7, TypeParts, RefreshBoundAssumption DEF CountsOK, Excused
  <2>6. MutexHeld'
    BY <1>1, <1>2, <1>7, <2>1, MutexKept DEF IInv, Becomes, Guarded, locks
  <2>7. IInv'
    BY <1>1, <1>2, <1>3, <2>1, <2>4, <2>5, <2>6, PlainKept
       DEF AcquireRefreshLock, At, Becomes, RoleOK, InHand, Suspect, Repairs, row, stale
  <2> QED BY <1>4, <2>1, <2>2, <2>7, TypeParts DEF Becomes
<1> QED BY <1>5, <1>6, <1>7 DEF AcquireRefreshLock

\* The end of RefreshIfNeeded, with the lock deleted or not.
LEMMA ReleaseKept ==
    ASSUME Typed, IInv, NEW t \in Refreshers, ReleaseRefreshLock(t)
    PROVE  Typed' /\ IInv'
<1>1. t \in Threads /\ t \notin Admins /\ t # NoOne
  BY ProcType
<1>2. th \in [Threads -> Thread] /\ lock \in Refreshers \union {NoOne} /\ th[t].pc = "release" /\ th[t].result \in Results
      /\ th[t].locked \in BOOLEAN
  BY <1>1 DEF Typed, TypeOK, ReleaseRefreshLock, At, Thread
<1>3. UNCHANGED <<live, db, status, lost, losses, excuse, behind, raced, cache>>
  BY DEF ReleaseRefreshLock, row, ghost, stale
<1>4. ValuesOK' /\ FlagsOK' /\ behind' \subseteq Requests
  <2>1. UNCHANGED <<live, age, row, cache, ghost, stale>>
    BY DEF ReleaseRefreshLock
  <2> QED BY <2>1, TypeParts, SameTypes DEF row, ghost, stale
<1>5. CountsOK'
  BY TypeParts, CountsKept DEF ReleaseRefreshLock, ghost
<1>6. Only(t) /\ th'[t].pc \notin {"reread", "refresh", "recover", "persist", "release"}
  <2>0. Return(t, th[t].result)
    BY DEF ReleaseRefreshLock
  <2>1. Returned(t, th[t].result)
    BY <1>2, <2>0, ReturnBecomes
  <2>2. PICK s \in Outside, a \in {First, th[t].acct}, q \in {"none", "refreshed"} : Becomes(t, s, a, First, q, FALSE)
    BY <2>1, Zenon DEF Returned
  <2> QED BY <2>2 DEF Becomes, Outside
<1>7. lock' \in {lock, NoOne} /\ (lock' # lock => Deleting(t))
  BY <1>2 DEF ReleaseRefreshLock, Deleting, At
<1>8. Fenced'
  <2>0. losses' \in Nat /\ losses' >= losses
    BY <1>3, TypeParts, RefreshBoundAssumption DEF CountsOK
  <2>1. \A u \in Zombies' : u # t /\ u \in Refreshers /\ (u \in Inside \/ Deleting(u)) /\ lock' # u
    BY <1>6, ProcType DEF Zombies, Inside, Deleting, At, Only
  <2>2. CASE lock' = lock
    <3>1. Zombies' \subseteq Zombies
      BY <2>1, <2>2 DEF Zombies
    <3> QED BY <2>0, <3>1, ZombiesKept DEF IInv
  <2>3. CASE lock' # lock /\ lock = t
    <3>1. Zombies' \subseteq Zombies
      BY <2>1, <2>3 DEF Zombies
    <3> QED BY <2>0, <3>1, ZombiesKept DEF IInv
  <2>4. CASE lock' # lock /\ lock # t
    <3>1. t \in Zombies
      BY <1>7, <2>4 DEF Zombies
    <3>2. Zombies' \subseteq (Zombies \ {t}) \union {lock}
      BY <2>1 DEF Zombies
    <3> QED BY <1>3, <3>1, <3>2, ZombieSwapped DEF IInv
  <2> QED BY <2>2, <2>3, <2>4
<1>9. Repairs(t) => th[t].result = "refreshed"
  BY <1>2 DEF Repairs, At
<1>10. IInv' /\ th' \in [Threads -> Thread] /\ mutex' \in [Processes -> Refreshers \union {NoOne}]
  BY <1>2, <1>3, <1>8, <1>9, ReturnKept DEF ReleaseRefreshLock, Suspect
<1>11. LocksOK'
  BY <1>2, <1>7, <1>10 DEF LocksOK
<1> QED BY <1>4, <1>5, <1>10, <1>11, TypeParts

\* Tokens and versions are numbers.
LEMMA Numbers ==
    ASSUME Typed
    PROVE  /\ live \in Nat /\ db.tok \in Nat /\ db.ver \in Nat
           /\ First.tok \in Nat /\ First.ver \in Nat
           /\ \A t \in Threads : /\ th[t].acct.tok \in Nat /\ th[t].acct.ver \in Nat
                                 /\ th[t].seen.tok \in Nat /\ th[t].seen.ver \in Nat
BY RefreshBoundAssumption DEF Typed, TypeOK, Thread, Creds, Tokens, First

\* The provider issues a token for a live one: it was no secret.
LEMMA IssueCoherent ==
    ASSUME Typed, Coherent, NEW t \in Threads, ~InHand(t), th[t].seen.tok = live
    PROVE  ~Hidden /\ (\A u \in Threads : ~InHand(u)) /\ (lost = TRUE => Excused)
<1>1. Known(th[t].seen)
  BY DEF Coherent
<1>2. ~Hidden
  BY <1>1, Numbers DEF Known
<1> QED BY <1>2 DEF Hidden

\* All that was known is older than a token that is issued now.
LEMMA IssueIsNew ==
    ASSUME Typed, Coherent, live' = live + 1
    PROVE  \A c : Known(c) /\ c.tok \in Nat => c.tok <= live' /\ c.tok < live'
BY Numbers DEF Known

\* The thread that gets it carries it.
LEMMA IssuedKept ==
    ASSUME Typed, Coherent, NEW t \in Threads, Only(t), ~InHand(t), th[t].seen.tok = live, live' = live + 1,
           UNCHANGED db, lost' = FALSE, InHand(t)', th'[t].acct = th[t].acct, th'[t].seen.tok = live'
    PROVE  Coherent' /\ LiveTokenIsKept'
<1>1. \A u \in Threads : ~InHand(u)
  BY IssueCoherent
<1>2. \A u \in Threads : Known(th[u].acct) /\ Known(th[u].seen)
  BY <1>1 DEF Coherent
<1>3. \A u \in Threads : InHand(u)' => u = t
  BY <1>1 DEF InHand, Only
<1>4. \A u \in Threads : Known(th'[u].acct) /\ th'[u].acct.tok \in Nat
  BY <1>2, Numbers DEF Only
<1>5. \A u \in Threads : u # t => Known(th'[u].seen) /\ th'[u].seen.tok \in Nat
  BY <1>2, Numbers DEF Only
<1>6. Known(db)' /\ Known(First)'
  BY Numbers, IssueIsNew DEF Coherent, Known, First
<1>7. \A u \in Threads : Known(th[u].acct)' /\ (InHand(u)' \/ Known(th[u].seen)')
  BY <1>4, <1>5, IssueIsNew DEF Known
<1>8. Carries(t)'
  BY <1>3 DEF Carries
<1>9. Coherent'
  BY <1>3, <1>6, <1>7, <1>8 DEF Coherent
<1>10. LiveTokenIsKept'
  BY DEF LiveTokenIsKept
<1> QED BY <1>9, <1>10

\* The provider's answer is lost, and with it the live token.
LEMMA UnansweredKept ==
    ASSUME Typed, Coherent, NEW t \in Threads, Only(t), ~InHand(t), th[t].seen.tok = live, live' = live + 1,
           UNCHANGED db, lost' = TRUE, ~InHand(t)', th'[t].acct = th[t].acct, th'[t].seen = First
    PROVE  Coherent' /\ LiveTokenIsKept'
<1>1. \A u \in Threads : ~InHand(u)
  BY IssueCoherent
<1>2. \A u \in Threads : /\ ~InHand(u)' /\ Known(th'[u].acct) /\ Known(th'[u].seen)
                         /\ th'[u].acct.tok \in Nat /\ th'[u].seen.tok \in Nat
  BY <1>1, Numbers DEF Coherent, Only, InHand
<1>3. Known(db)' /\ Known(First)'
  BY Numbers, IssueIsNew DEF Coherent, Known, First
<1>4. \A u \in Threads : Known(th[u].acct)' /\ Known(th[u].seen)'
  BY <1>2, IssueIsNew DEF Known
<1>5. Coherent'
  BY <1>2, <1>3, <1>4 DEF Coherent
<1> QED BY <1>5 DEF LiveTokenIsKept

\* The new token is stored, and is no longer hidden.
LEMMA StoredKept ==
    ASSUME Typed, Coherent, NEW t \in Threads, Only(t), InHand(t), ~InHand(t)', db' = th[t].seen,
           UNCHANGED <<live, lost>>, th'[t].acct \in {First, th[t].seen}, th'[t].seen = First
    PROVE  Coherent' /\ LiveTokenIsKept'
<1>1. Carries(t)
  BY DEF Coherent
<1>2. \A u \in Threads : ~InHand(u)'
  BY <1>1 DEF Carries, InHand, Only
<1>3. ~Hidden'
  BY <1>1, <1>2 DEF Hidden, Carries
<1>4. th[t].seen.tok <= live /\ First.tok <= live
  BY <1>1, Numbers DEF Carries, Coherent, Known
<1>5. \A u \in Threads : u # t => Known(th[u].acct) /\ Known(th[u].seen)
  BY <1>1 DEF Coherent, Carries
<1>6. Known(db)' /\ Known(First)'
  BY <1>3, <1>4 DEF Known, First
<1>7. \A u \in Threads : Known(th[u].acct)' /\ Known(th[u].seen)'
  BY <1>3, <1>4, <1>5 DEF Known, Only
<1>8. Coherent'
  BY <1>2, <1>6, <1>7 DEF Coherent
<1>9. LiveTokenIsKept'
  BY <1>1 DEF LiveTokenIsKept, Carries
<1> QED BY <1>8, <1>9

\* The write fails, and the token in hand is lost.
LEMMA DroppedKept ==
    ASSUME Typed, Coherent, NEW t \in Threads, Only(t), InHand(t), ~InHand(t)', UNCHANGED <<live, db>>, lost' = TRUE,
           Known(th'[t].acct), Known(th'[t].seen)
    PROVE  Coherent' /\ LiveTokenIsKept'
<1>1. Carries(t) /\ Hidden
  BY DEF Coherent, Hidden
<1>2. \A u \in Threads : ~InHand(u)'
  BY <1>1 DEF Carries, InHand, Only
<1>3. \A u \in Threads : Known(th'[u].acct) /\ Known(th'[u].seen)
  BY <1>1 DEF Coherent, Carries, Only
<1>4. \A u \in Threads : Known(th[u].acct)' /\ Known(th[u].seen)'
  BY <1>1, <1>3 DEF Known
<1>5. Known(db)' /\ Known(First)'
  BY <1>1 DEF Coherent, Known, First
<1>6. Coherent'
  BY <1>2, <1>4, <1>5 DEF Coherent
<1> QED BY <1>6 DEF LiveTokenIsKept

\* Steps of a refresher inside its locks leave the locks alone.
LEMMA InsideKept ==
    ASSUME Typed, IInv, NEW t \in Refreshers, th[t].pc \in {"reread", "refresh", "recover", "persist"}, Only(t),
           UNCHANGED <<locks, losses>>
    PROVE  MutexHeld' /\ Fenced'
<1>1. t \in Threads /\ losses' \in Nat /\ losses' >= losses
  BY ProcType, TypeParts, RefreshBoundAssumption DEF CountsOK
<1>2. Guarded(t) /\ Fence(t)
  BY DEF Guarded, Fence
<1> QED BY <1>1, <1>2, MutexKept, FencedKept DEF IInv, locks

\* Without a loss and with no manual refresh under way, a refresher that has read the
\* account knows that no new token is in anyone's hands.
LEMMA NothingInHand ==
    ASSUME Typed, Roles, Fenced, NEW t \in Refreshers, th[t].pc = "reread", losses = 0, ~ManualInHand
    PROVE  \A u \in Threads : ~InHand(u)
<1>1. t \in Inside
  BY DEF Inside
<1>2. lock = t
  BY <1>1, AloneInside
<1>3. ASSUME NEW u \in Refreshers PROVE ~InHand(u)
  <2>1. InHand(u) => u \in Inside
    BY DEF InHand, Inside, Roles
  <2>2. InHand(u) => u = t
    BY <1>2, <2>1, AloneInside
  <2> QED BY <2>2 DEF InHand
<1>4. \A a \in Admins : ~InHand(a)
  BY DEF ManualInHand
<1> QED BY <1>3, <1>4 DEF Threads

\* The account is read again, or the one passed in is used.
LEMMA RereadKept ==
    ASSUME Typed, IInv, NEW t \in Refreshers, Reread(t)
    PROVE  Typed' /\ IInv'
<1>1. t \in Threads /\ t \notin Admins
  BY ProcType
<1>2. th \in [Threads -> Thread] /\ th[t].pc = "reread" /\ excuse \in BOOLEAN
  BY DEF Typed, TypeOK, Reread, At
<1>3. /\ Known(db) /\ Known(First) /\ db \in Creds /\ First \in Creds
      /\ Known(th[t].acct) /\ Known(th[t].seen) /\ th[t].acct \in Creds
  BY <1>1, <1>2, KnownCreds DEF IInv, InHand
<1>4. PICK c \in Creds : /\ Known(c) /\ Recheck(t, c)
                         /\ excuse' = TRUE \/ (c = db /\ ~ManualInHand)
  BY <1>2, <1>3, Zenon DEF Reread
<1>5. Inject \/ UNCHANGED faults
  BY DEF Reread
<1>6. UNCHANGED <<live, age, row, cache, locks, losses, lost, stale>>
  BY DEF Reread
<1>7. excuse' \in BOOLEAN
  BY <1>2, Zenon DEF Reread
<1>8. excuse = TRUE => excuse' = TRUE
  BY <1>2, Zenon DEF Reread
<1>9. Excused => Excused'
  BY <1>6, <1>8 DEF Excused
<1>10. \/ Becomes(t, "refresh", th[t].acct, c, th[t].result, th[t].locked)
       \/ Becomes(t, "release", c, First, "already", th[t].locked)
  BY <1>1, <1>2, <1>4, RefreshBecomes DEF Recheck, Steps, Results
<1>11. Only(t) /\ th' \in [Threads -> Thread]
  BY <1>10 DEF Becomes
<1>12. MutexHeld' /\ Fenced'
  BY <1>2, <1>6, <1>11, InsideKept
<1>13. ValuesOK' /\ LocksOK' /\ CountsOK'
  BY <1>5, <1>6, TypeParts, SameTypes, CountsKept DEF row
<1>14. FlagsOK'
  BY <1>6, <1>7, TypeParts DEF FlagsOK, row, stale
<1>15. At(t, "refresh")' => Excused' \/ AsksStored(t)'
  <2> SUFFICES ASSUME At(t, "refresh")', ~Excused' PROVE AsksStored(t)'
    OBVIOUS
  <2>1. th'[t].seen = c /\ th'[t].pc = "refresh"
    BY <1>10 DEF Becomes, At
  <2>2. c = db /\ ~ManualInHand
    BY <1>4 DEF Excused
  <2>3. losses = 0
    BY <1>6, TypeParts, RefreshBoundAssumption DEF Excused, CountsOK
  <2>4. \A u \in Threads : ~InHand(u)
    BY <1>2, <2>2, <2>3, NothingInHand DEF IInv
  <2>5. \A u \in Threads : ~InHand(u)'
    BY <1>11, <2>1, <2>4 DEF InHand, Only
  <2> QED BY <1>6, <2>1, <2>2, <2>5 DEF AsksStored, row
<1>16. /\ ~InHand(t) /\ ~InHand(t)' /\ RoleOK(t)' /\ ~At(t, "cache")'
       /\ Known(th'[t].acct) /\ Known(th'[t].seen) /\ (Suspect(t)' => Suspect(t)) /\ ~Repairs(t)
  BY <1>1, <1>2, <1>3, <1>4, <1>10 DEF Becomes, InHand, RoleOK, At, Suspect, Repairs
<1>17. IInv'
  BY <1>1, <1>6, <1>9, <1>11, <1>12, <1>15, <1>16, PlainKept DEF row, stale
<1> QED BY <1>6, <1>11, <1>13, <1>14, <1>17, TypeParts DEF stale

\* While a new token is in someone's hands, whoever asks with another is excused.
LEMMA InHandExcuses ==
    ASSUME IInv, NEW t \in Threads, InHand(t)
    PROVE  \A u \in Refreshers : At(u, "refresh") => Excused
BY DEF IInv, Undisturbed, AsksStored

\* Two refreshers inside mean that the lock was lost.
LEMMA TwoInside ==
    ASSUME Typed, IInv, NEW t \in Inside, NEW u \in Inside, t # u
    PROVE  Excused
<1>1. losses # 0
  BY AloneInside DEF IInv
<1> QED BY <1>1, TypeParts, RefreshBoundAssumption DEF CountsOK, Excused

\* The call to the provider.
LEMMA RefreshKept ==
    ASSUME Typed, IInv, NEW t \in Refreshers, Refresh(t)
    PROVE  Typed' /\ IInv'
<1>1. t \in Threads /\ t \notin Admins
  BY ProcType
<1>2. /\ th \in [Threads -> Thread] /\ th[t].pc = "refresh" /\ live \in Tokens /\ lost \in BOOLEAN
      /\ temp \in BOOLEAN
  BY DEF Typed, TypeOK, Refresh, At
<1>3. /\ Known(db) /\ Known(First) /\ First \in Creds
      /\ Known(th[t].acct) /\ Known(th[t].seen) /\ th[t].acct \in Creds
  BY <1>1, <1>2, KnownCreds DEF IInv, InHand
<1>4. UNCHANGED <<age, row, cache, locks, losses, stale>>
  BY DEF Refresh
<1>5. UNCHANGED excuse \/ excuse' = TRUE => (Excused => Excused')
  BY <1>4 DEF Excused
<1>6. ~InHand(t) /\ ~Repairs(t) /\ Guarded(t) /\ Fence(t)
  BY <1>2 DEF InHand, Repairs, At, Guarded, Fence
<1>7. CASE /\ ~Burned(t) /\ Issue /\ lost' = FALSE /\ UNCHANGED <<excuse, faults>>
           /\ Set(t, [th[t] EXCEPT !.pc = "persist", !.seen = [tok |-> live', ver |-> live']])
  <2> DEFINE c == [tok |-> live', ver |-> live']
  <2>1. live' = live + 1 /\ live' \in Tokens /\ c \in Creds
    BY <1>2, <1>7, RefreshBoundAssumption DEF Issue, Tokens, Creds
  <2>2. Becomes(t, "persist", th[t].acct, c, th[t].result, th[t].locked)
    BY <1>1, <1>2, <1>7, <2>1, RefreshBecomes DEF Steps
  <2>3. Only(t) /\ InHand(t)' /\ th'[t].acct = th[t].acct /\ th'[t].seen.tok = live' /\ th'[t].seen.ver = live'
    BY <2>2 DEF Becomes, InHand
  <2>4. th[t].seen.tok = live
    BY <1>7 DEF Burned
  <2>5. Coherent' /\ LiveTokenIsKept'
    BY <1>1, <1>2, <1>4, <1>6, <1>7, <2>1, <2>3, <2>4, IssuedKept DEF IInv, row
  <2>6. MutexHeld' /\ Fenced'
    BY <1>2, <1>4, <2>3, InsideKept
  <2>7. Roles'
    BY <1>1, <2>2, <2>3, RolesKept DEF IInv, RoleOK, Becomes
  <2>8. Undisturbed'
    <3> SUFFICES ASSUME NEW u \in Refreshers, At(u, "refresh")' PROVE Excused'
      BY DEF Undisturbed
    <3>1. u # t /\ u \in Inside /\ t \in Inside
      BY <1>2, <2>2, ProcType DEF Becomes, Only, At, Inside
    <3> QED BY <1>5, <1>7, <3>1, TwoInside
  <2>9. Condemned'
    <3>1. lost = TRUE => Excused
      BY <1>1, <1>6, <2>4, IssueCoherent DEF IInv
    <3> QED BY <1>1, <1>2, <1>4, <1>5, <1>7, <2>2, <3>1, CondemnedKept DEF IInv, Becomes, Suspect, row
  <2>10. BehindKnown' /\ RepairPending'
    BY <1>1, <1>4, <1>6, <2>2, BehindKept, RepairKept DEF IInv, Becomes, At, row, stale
  <2>11. ValuesOK' /\ FlagsOK' /\ LocksOK' /\ CountsOK'
    <3>1. CountsOK' /\ LocksOK'
      BY <1>4, <1>7, TypeParts, SameTypes, CountsKept
    <3>2. FlagsOK'
      <4>1. lost' \in BOOLEAN
        BY <1>7, Zenon
      <4> QED BY <1>4, <1>7, <4>1, TypeParts DEF FlagsOK, row, stale
    <3> QED BY <1>4, <2>1, <3>1, <3>2, TypeParts DEF ValuesOK, row
  <2>12. Typed'
    BY <1>4, <2>2, <2>11, TypeParts DEF Becomes, stale
  <2> QED BY <2>5, <2>6, <2>7, <2>8, <2>9, <2>10, <2>12 DEF IInv
<1>8. CASE Burned(t) /\ (Goto(t, "recover") \/ Finish(t, "invalid")) /\ UNCHANGED <<live, lost, excuse, faults>>
  <2>1. lost = TRUE \/ Excused
    <3>1. Excused \/ AsksStored(t)
      BY <1>2 DEF IInv, Undisturbed, At
    <3>2. AsksStored(t) => lost
      BY <1>8 DEF IInv, LiveTokenIsKept, AsksStored, Burned
    <3> QED BY <1>2, <3>1, <3>2
  <2>2. \/ Becomes(t, "recover", th[t].acct, th[t].seen, th[t].result, th[t].locked)
        \/ Becomes(t, "release", th[t].acct, First, "invalid", th[t].locked)
    BY <1>1, <1>2, <1>3, <1>8, GotoBecomes, RefreshBecomes DEF Steps, Results
  <2>3. UNCHANGED <<live, age, db, status, cache, locks, ghost, stale>> /\ UNCHANGED faults
    BY <1>4, <1>8 DEF row, ghost
  <2>4. temp' \in BOOLEAN
    BY <1>2, <1>4 DEF row
  <2>5. "recover" # "refresh" /\ "release" # "refresh"
    OBVIOUS
  <2> QED BY <1>1, <1>3, <1>6, <2>1, <2>2, <2>3, <2>4, <2>5, MovedKept
<1>9. CASE Inject /\ Finish(t, "failed") /\ UNCHANGED <<live, lost, excuse>>
  <2>1. Becomes(t, "release", th[t].acct, First, "failed", th[t].locked)
    BY <1>1, <1>2, <1>3, <1>9, RefreshBecomes DEF Results
  <2>2. UNCHANGED <<live, age, db, status, cache, locks, ghost, stale>>
    BY <1>4, <1>9 DEF row, ghost
  <2>3. temp' \in BOOLEAN
    BY <1>2, <1>4 DEF row
  <2>4. "release" # "refresh"
    OBVIOUS
  <2> QED BY <1>1, <1>3, <1>6, <1>9, <2>1, <2>2, <2>3, <2>4, MovedKept
<1>10. CASE Inject /\ Finish(t, "failed") /\ ~Burned(t) /\ Issue /\ lost' = TRUE /\ UNCHANGED excuse
  <2>1. live' = live + 1 /\ live' \in Tokens
    BY <1>2, <1>10, RefreshBoundAssumption DEF Issue, Tokens
  <2>2. Becomes(t, "release", th[t].acct, First, "failed", th[t].locked)
    BY <1>1, <1>2, <1>3, <1>10, RefreshBecomes DEF Results
  <2>3. Only(t) /\ ~InHand(t)' /\ th'[t].acct = th[t].acct /\ th'[t].seen = First
    BY <2>2 DEF Becomes, InHand
  <2>4. th[t].seen.tok = live
    BY <1>10 DEF Burned
  <2>5. Coherent' /\ LiveTokenIsKept'
    BY <1>1, <1>3, <1>4, <1>6, <1>10, <2>1, <2>3, <2>4, UnansweredKept DEF IInv, row
  <2>6. MutexHeld' /\ Fenced'
    BY <1>2, <1>4, <2>3, InsideKept
  <2>7. Roles'
    BY <1>1, <2>2, <2>3, RolesKept DEF IInv, RoleOK, Becomes
  <2>8. Undisturbed'
    BY <1>1, <1>4, <1>5, <1>10, <2>2, <2>3, UndisturbedKept DEF IInv, Becomes, At, row
  <2>9. Condemned'
    BY <1>1, <1>2, <1>4, <1>5, <1>10, <2>2, CondemnedKept DEF IInv, Becomes, Suspect, row
  <2>10. BehindKnown' /\ RepairPending'
    BY <1>1, <1>4, <1>6, <2>2, BehindKept, RepairKept DEF IInv, Becomes, At, row, stale
  <2>11. ValuesOK' /\ FlagsOK' /\ LocksOK' /\ CountsOK'
    <3>1. CountsOK' /\ LocksOK'
      BY <1>4, <1>10, TypeParts, SameTypes, CountsKept
    <3>2. FlagsOK'
      BY <1>4, <1>10, TypeParts DEF FlagsOK, row, stale
    <3> QED BY <1>4, <2>1, <3>1, <3>2, TypeParts DEF ValuesOK, row
  <2>12. Typed'
    BY <1>4, <2>2, <2>11, TypeParts DEF Becomes, stale
  <2> QED BY <2>5, <2>6, <2>7, <2>8, <2>9, <2>10, <2>12 DEF IInv
<1>11. CASE Inject /\ Finish(t, "invalid") /\ excuse' = TRUE /\ UNCHANGED <<live, lost>>
  <2>1. Becomes(t, "release", th[t].acct, First, "invalid", th[t].locked)
    BY <1>1, <1>2, <1>3, <1>11, RefreshBecomes DEF Results
  <2>2. ValuesOK' /\ LocksOK' /\ CountsOK'
    BY <1>4, <1>11, TypeParts, SameTypes, CountsKept DEF row
  <2>3. FlagsOK'
    BY <1>4, <1>11, TypeParts DEF FlagsOK, row, stale
  <2>4. MutexHeld' /\ Fenced'
    BY <1>2, <1>4, <2>1, InsideKept DEF Becomes
  <2>5. Excused'
    BY <1>11 DEF Excused
  <2>6. /\ ~InHand(t)' /\ RoleOK(t)' /\ ~At(t, "cache")' /\ ~At(t, "refresh")'
        /\ Only(t) /\ Known(th'[t].acct) /\ Known(th'[t].seen)
    BY <1>1, <1>3, <2>1 DEF Becomes, InHand, RoleOK, At
  <2>7. IInv'
    BY <1>1, <1>4, <1>6, <1>11, <2>4, <2>5, <2>6, PlainKept DEF row, stale
  <2> QED BY <1>4, <2>1, <2>2, <2>3, <2>7, TypeParts DEF Becomes, stale
<1> QED BY <1>7, <1>8, <1>9, <1>10, <1>11 DEF Refresh

\* The race recovery looks for another refresh token in the database.
LEMMA RecoverKept ==
    ASSUME Typed, IInv, NEW t \in Refreshers, Recover(t)
    PROVE  Typed' /\ IInv'
<1>1. t \in Threads /\ t \notin Admins
  BY ProcType
<1>2. th \in [Threads -> Thread] /\ th[t].pc = "recover" /\ temp \in BOOLEAN
  BY DEF Typed, TypeOK, Recover, At
<1>3. /\ Known(db) /\ Known(First) /\ db \in Creds /\ First \in Creds
      /\ Known(th[t].acct) /\ th[t].acct \in Creds
  BY <1>1, KnownCreds DEF IInv
<1>4. UNCHANGED <<live, age, row, cache, locks, losses, lost, stale>>
  BY DEF Recover
<1>5. ~InHand(t) /\ ~Repairs(t) /\ Guarded(t) /\ Fence(t) /\ Suspect(t)
  BY <1>2 DEF InHand, Repairs, At, Guarded, Fence, Suspect
<1>6. temp' \in BOOLEAN
  BY <1>2, <1>4 DEF row
<1>7. CASE (Succeed(t, "already", db) \/ Finish(t, "invalid")) /\ UNCHANGED <<excuse, faults>>
  <2>1. \/ Becomes(t, "release", db, First, "already", th[t].locked)
        \/ Becomes(t, "release", th[t].acct, First, "invalid", th[t].locked)
    BY <1>1, <1>2, <1>3, <1>7, RefreshBecomes DEF Results
  <2>2. UNCHANGED <<live, age, db, status, cache, locks, ghost, stale>> /\ UNCHANGED faults
    BY <1>4, <1>7 DEF row, ghost
  <2>3. "release" # "refresh"
    OBVIOUS
  <2>4. CASE Becomes(t, "release", db, First, "already", th[t].locked)
    BY <1>1, <1>3, <1>5, <1>6, <2>2, <2>3, <2>4, MovedKept
  <2>5. CASE Becomes(t, "release", th[t].acct, First, "invalid", th[t].locked)
    BY <1>1, <1>3, <1>5, <1>6, <2>2, <2>3, <2>5, MovedKept
  <2> QED BY <2>1, <2>4, <2>5
<1>8. CASE Inject /\ excuse' = TRUE /\ Finish(t, "invalid")
  <2>1. Becomes(t, "release", th[t].acct, First, "invalid", th[t].locked)
    BY <1>1, <1>2, <1>3, <1>8, RefreshBecomes DEF Results
  <2>2. ValuesOK' /\ LocksOK' /\ CountsOK'
    BY <1>4, <1>8, TypeParts, SameTypes, CountsKept DEF row
  <2>3. FlagsOK'
    BY <1>4, <1>8, TypeParts DEF FlagsOK, row, stale
  <2>4. MutexHeld' /\ Fenced'
    BY <1>2, <1>4, <2>1, InsideKept DEF Becomes
  <2>5. Excused'
    BY <1>8 DEF Excused
  <2>6. /\ ~InHand(t)' /\ RoleOK(t)' /\ ~At(t, "cache")' /\ ~At(t, "refresh")'
        /\ Only(t) /\ Known(th'[t].acct) /\ Known(th'[t].seen)
    BY <1>1, <1>3, <2>1 DEF Becomes, InHand, RoleOK, At
  <2>7. IInv'
    BY <1>1, <1>4, <1>5, <2>4, <2>5, <2>6, PlainKept DEF row, stale
  <2> QED BY <1>4, <2>1, <2>2, <2>3, <2>7, TypeParts DEF Becomes, stale
<1> QED BY <1>7, <1>8 DEF Recover

\* What Miss records is a fact about the entry that is left.
LEMMA MissType ==
    ASSUME NEW loss, Miss(loss), raced \in BOOLEAN
    PROVE  /\ raced' \in BOOLEAN
           /\ loss /\ cache' \notin {None, db'.tok} => raced' = TRUE
           /\ raced = TRUE /\ cache' \notin {None, db'.tok} => raced' = TRUE
BY Zenon DEF Miss

\* Persist and AdminWrite make their thread the one that repairs the cache.
LEMMA WriterKept ==
    ASSUME Typed, IInv, NEW t \in Threads, Only(t), InHand(t), ~InHand(t)', db' = th[t].seen,
           UNCHANGED <<live, lost, losses, excuse>>, th'[t].acct \in {First, th[t].seen}, th'[t].seen = First,
           behind' = behind \union Checked, Repairs(t)', ~At(t, "cache")', ~Suspect(t)', ~At(t, "refresh")',
           status' = "error" => status = "error" \/ Suspect(t),
           MutexHeld', Fenced', RoleOK(t)'
    PROVE  IInv'
<1>1. Coherent' /\ LiveTokenIsKept'
  BY StoredKept DEF IInv
<1>2. Roles'
  BY RolesKept DEF IInv
<1>3. Excused => Excused'
  BY DEF Excused
<1>4. Undisturbed'
  <2> SUFFICES ASSUME NEW u \in Refreshers, At(u, "refresh")' PROVE Excused'
    BY DEF Undisturbed
  <2>1. At(u, "refresh")
    BY ProcType DEF At, Only
  <2> QED BY <1>3, <2>1, InHandExcuses
<1>5. Condemned'
  BY <1>3 DEF IInv, Condemned, Suspect, Only
<1>6. BehindKnown'
  BY ProcType DEF BehindKnown, Checked, At, Only
<1>7. RepairPending'
  BY DEF RepairPending
<1> QED BY <1>1, <1>2, <1>4, <1>5, <1>6, <1>7 DEF IInv

\* A write that fails loses the token in hand.
LEMMA DropKept ==
    ASSUME Typed, IInv, NEW t \in Threads, Only(t), InHand(t), ~InHand(t)', lost' = TRUE,
           UNCHANGED <<live, db, status, losses, excuse, cache, stale>>, Known(th'[t].acct), Known(th'[t].seen),
           ~Repairs(t), ~At(t, "cache")', ~Suspect(t)', ~At(t, "refresh")', MutexHeld', Fenced', RoleOK(t)'
    PROVE  IInv'
<1>1. Coherent' /\ LiveTokenIsKept'
  BY DroppedKept DEF IInv
<1>2. Roles'
  BY RolesKept DEF IInv
<1>3. Excused => Excused'
  BY DEF Excused
<1>4. Undisturbed' /\ Condemned'
  BY <1>3, UndisturbedKept, CondemnedKept DEF IInv
<1>5. BehindKnown' /\ RepairPending'
  BY BehindKept, RepairKept DEF IInv, stale
<1> QED BY <1>1, <1>2, <1>4, <1>5 DEF IInv

\* Storing the provider's answer.
LEMMA PersistKept ==
    ASSUME Typed, IInv, NEW t \in Refreshers, Persist(t)
    PROVE  Typed' /\ IInv'
<1>1. t \in Threads /\ t \notin Admins
  BY ProcType
<1>2. th \in [Threads -> Thread] /\ th[t].pc = "persist" /\ raced \in BOOLEAN
  BY DEF Typed, TypeOK, Persist, At
<1>3. Known(First) /\ First \in Creds /\ Known(th[t].acct) /\ th[t].acct \in Creds /\ th[t].seen \in Creds
  BY <1>1, KnownCreds DEF IInv
<1>4. UNCHANGED <<live, age, status, temp, locks, losses, excuse, cache>>
  BY DEF Persist
<1>5. InHand(t) /\ ~Repairs(t)
  BY <1>2 DEF InHand, Repairs, At
<1>6. CASE /\ db' = Merged(t) /\ Succeed(t, "refreshed", th[t].seen) /\ UNCHANGED <<lost, faults>>
           /\ behind' = behind \union Checked /\ Miss(FALSE)
  <2>1. Becomes(t, "release", th[t].seen, First, "refreshed", th[t].locked)
    BY <1>1, <1>2, <1>3, <1>6, RefreshBecomes DEF Results
  <2>2. Only(t) /\ ~InHand(t)' /\ th'[t].acct = th[t].seen /\ th'[t].seen = First /\ RoleOK(t)'
        /\ ~At(t, "cache")' /\ ~Suspect(t)' /\ ~At(t, "refresh")'
    BY <1>1, <2>1 DEF Becomes, InHand, RoleOK, At, Suspect
  <2>3. db' = th[t].seen /\ Repairs(t)'
    BY <1>6, <2>1 DEF Merged, Repairs, Becomes, At
  <2>4. MutexHeld' /\ Fenced'
    BY <1>2, <1>4, <2>2, InsideKept
  <2>5. IInv'
    BY <1>1, <1>4, <1>5, <1>6, <2>2, <2>3, <2>4, WriterKept
  <2>6. raced' \in BOOLEAN
    BY <1>2, <1>6, MissType
  <2>7. FlagsOK'
    BY <1>4, <1>6, <2>6, TypeParts DEF FlagsOK
  <2>8. ValuesOK' /\ LocksOK' /\ CountsOK'
    BY <1>3, <1>4, <1>6, <2>3, TypeParts, SameTypes, CountsKept DEF ValuesOK
  <2>9. behind' \subseteq Requests
    BY <1>6, TypeParts DEF Checked
  <2> QED BY <2>1, <2>5, <2>7, <2>8, <2>9, TypeParts DEF Becomes
<1>7. CASE Inject /\ Finish(t, "failed") /\ lost' = TRUE /\ UNCHANGED <<db, stale>>
  <2>1. Becomes(t, "release", th[t].acct, First, "failed", th[t].locked)
    BY <1>1, <1>2, <1>3, <1>7, RefreshBecomes DEF Results
  <2>2. Only(t) /\ ~InHand(t)' /\ Known(th'[t].acct) /\ Known(th'[t].seen) /\ RoleOK(t)'
        /\ ~At(t, "cache")' /\ ~Suspect(t)' /\ ~At(t, "refresh")'
    BY <1>1, <1>3, <2>1 DEF Becomes, InHand, RoleOK, At, Suspect
  <2>3. MutexHeld' /\ Fenced'
    BY <1>2, <1>4, <2>2, InsideKept
  <2>4. IInv'
    BY <1>1, <1>4, <1>5, <1>7, <2>2, <2>3, DropKept
  <2>5. FlagsOK'
    BY <1>4, <1>7, TypeParts DEF FlagsOK, stale
  <2>6. ValuesOK' /\ LocksOK' /\ CountsOK'
    BY <1>4, <1>7, TypeParts, SameTypes, CountsKept
  <2> QED BY <1>7, <2>1, <2>4, <2>5, <2>6, TypeParts DEF Becomes, stale
<1> QED BY <1>6, <1>7 DEF Persist

----------------------------------------------------------------------------
(* After RefreshIfNeeded                                                   *)

\* Steps outside RefreshIfNeeded leave the locks alone.
LEMMA OutsideKept ==
    ASSUME Typed, IInv, NEW t \in Threads, Only(t), UNCHANGED <<locks, losses>>,
           th'[t].pc \notin {"lock", "reread", "refresh", "recover", "persist", "release"} \/ t \notin Refreshers
    PROVE  MutexHeld' /\ Fenced'
<1>1. losses' \in Nat /\ losses' >= losses
  BY TypeParts, RefreshBoundAssumption DEF CountsOK
<1>2. ~(t \in Refreshers /\ Guarded(t)') /\ ~(t \in Refreshers /\ Fence(t)')
  BY DEF Guarded, Fence, Deleting, At
<1> QED BY <1>1, <1>2, MutexKept, FencedKept DEF IInv, locks

\* Whoever missed a repair has said so.
LEMMA MissedKept ==
    ASSUME Typed, RepairPending, NEW t \in Threads, Only(t), UNCHANGED <<db, cache>>,
           NEW loss, Miss(loss), Repairs(t) => loss
    PROVE  RepairPending'
<1>1. raced \in BOOLEAN
  BY DEF Typed, TypeOK
<1>2. \A u \in Threads : u # t /\ Repairs(u) => Repairs(u)'
  BY DEF Repairs, At, Only
<1> QED BY <1>1, <1>2, MissType DEF RepairPending

\* The cached token is deleted after a refresh, or that fails.
LEMMA InvalidateKept ==
    ASSUME Typed, IInv, NEW t \in Threads, At(t, "invalidate"), Stop(t), Invalidate,
           UNCHANGED <<live, age, db, status, locks, ghost, behind>>, temp' \in BOOLEAN
    PROVE  Typed' /\ IInv'
<1>1. th \in [Threads -> Thread] /\ raced \in BOOLEAN
  BY DEF Typed, TypeOK
<1>2. Becomes(t, "idle", First, First, "none", FALSE)
  BY <1>1, FollowBecomes
<1>3. Known(First)
  BY KnownCreds DEF IInv
<1>4. /\ Only(t) /\ ~InHand(t) /\ ~InHand(t)' /\ Known(th'[t].acct) /\ Known(th'[t].seen) /\ RoleOK(t)'
      /\ ~At(t, "cache")' /\ ~Suspect(t)' /\ ~At(t, "refresh")'
  BY <1>2, <1>3 DEF Becomes, InHand, RoleOK, At, Suspect
<1>5. MutexHeld' /\ Fenced'
  BY <1>2, <1>4, OutsideKept DEF Becomes, ghost
<1>6. BehindKnown'
  BY <1>4, BehindKept DEF IInv
<1>7. RepairPending' /\ raced' \in BOOLEAN
  <2>1. CASE cache' = None /\ Miss(FALSE)
    BY <1>1, <2>1, MissType DEF RepairPending
  <2>2. CASE UNCHANGED cache /\ Miss(TRUE)
    BY <1>1, <1>4, <2>2, MissType, MissedKept DEF IInv
  <2> QED BY <2>1, <2>2 DEF Invalidate
<1>8. UNCHANGED <<live, db, status, lost, losses, excuse>> /\ (Excused => Excused')
  BY DEF ghost, Excused
<1>9. IInv'
  BY <1>4, <1>5, <1>6, <1>7, <1>8, QuietKept
<1>10. ValuesOK'
  BY TypeParts DEF ValuesOK, Invalidate
<1>11. CountsOK' /\ LocksOK'
  BY TypeParts, CountsKept, SameTypes DEF Invalidate, ghost
<1>12. FlagsOK'
  BY <1>7, TypeParts DEF FlagsOK, ghost
<1> QED BY <1>2, <1>9, <1>10, <1>11, <1>12, TypeParts DEF Becomes

\* The worker's way, which may also end a pause.
LEMMA PostRefreshKept ==
    ASSUME Typed, IInv, NEW p \in Processes, PostRefresh(p)
    PROVE  Typed' /\ IInv'
<1>1. p \in Threads
  BY ProcType
<1>2. temp' \in BOOLEAN
  BY DEF Typed, TypeOK, PostRefresh
<1> QED BY <1>1, <1>2, InvalidateKept DEF PostRefresh

\* The administrator's way.
LEMMA AdminInvalidateKept ==
    ASSUME Typed, IInv, NEW a \in Admins, AdminInvalidate(a)
    PROVE  Typed' /\ IInv'
<1>1. a \in Threads
  BY ProcType
<1>2. temp' \in BOOLEAN
  BY DEF Typed, TypeOK, AdminInvalidate, row
<1> QED BY <1>1, <1>2, InvalidateKept DEF AdminInvalidate, row

\* An account is put in error by a worker whose token was refused.
LEMMA SetErrorKept ==
    ASSUME Typed, IInv, NEW p \in Processes, SetError(p)
    PROVE  Typed' /\ IInv'
<1>1. p \in Threads /\ p \notin Admins
  BY ProcType
<1>2. th \in [Threads -> Thread] /\ th[p].pc = "setError"
  BY DEF Typed, TypeOK, SetError, At
<1>3. Becomes(p, "idle", First, First, "none", FALSE)
  BY <1>1, <1>2, FollowBecomes DEF SetError
<1>4. UNCHANGED <<live, age, db, temp, cache, locks, ghost, stale>>
  BY DEF SetError
<1>5. lost = TRUE \/ Excused
  BY <1>1, <1>2 DEF IInv, Condemned
<1>6. Excused => Excused'
  BY <1>4 DEF Excused, ghost
<1>7. Known(First)
  BY KnownCreds DEF IInv
<1>8. /\ Only(p) /\ ~InHand(p) /\ ~InHand(p)' /\ Known(th'[p].acct) /\ Known(th'[p].seen) /\ RoleOK(p)'
      /\ ~At(p, "cache")' /\ ~Suspect(p)' /\ ~At(p, "refresh")' /\ ~Repairs(p)
  BY <1>1, <1>2, <1>3, <1>7 DEF Becomes, InHand, RoleOK, At, Suspect, Repairs
<1>9. MutexHeld' /\ Fenced'
  BY <1>1, <1>3, <1>4, <1>8, OutsideKept DEF Becomes, ghost
<1>10. Roles' /\ Coherent' /\ LiveTokenIsKept' /\ Undisturbed'
  BY <1>1, <1>4, <1>6, <1>8, RolesKept, CoherentKept, UndisturbedKept DEF IInv, ghost
<1>11. Condemned'
  BY <1>4, <1>5, <1>6, <1>8 DEF IInv, Condemned, Suspect, Only, ghost
<1>12. BehindKnown' /\ RepairPending'
  BY <1>1, <1>4, <1>8, BehindKept, RepairKept DEF IInv, stale
<1>13. ValuesOK'
  BY <1>4, TypeParts DEF ValuesOK, SetError
<1>14. CountsOK' /\ LocksOK' /\ FlagsOK'
  BY <1>4, TypeParts, CountsKept, SameTypes DEF SetError, ghost, stale
<1> QED BY <1>3, <1>4, <1>9, <1>10, <1>11, <1>12, <1>13, <1>14, TypeParts DEF IInv, Becomes, stale

\* The version check before a request caches its token.
LEMMA CheckKept ==
    ASSUME Typed, IInv, NEW r \in Requests, CheckTokenVersion(r)
    PROVE  Typed' /\ IInv'
<1>1. r \in Threads /\ r \in Refreshers /\ r \notin Admins
  BY ProcType
<1>2. th \in [Threads -> Thread] /\ th[r].pc = "check"
  BY DEF Typed, TypeOK, CheckTokenVersion, At
<1>3. UNCHANGED <<live, age, row, cache, locks, ghost, raced>>
  BY DEF CheckTokenVersion
<1>4. \/ Newer(th[r].acct) /\ Becomes(r, "idle", First, First, "none", FALSE)
      \/ Becomes(r, "cache", th[r].acct, th[r].seen, th[r].result, th[r].locked)
  BY <1>1, <1>2, FollowBecomes, GotoBecomes DEF CheckTokenVersion, Steps
<1>5. ~InHand(r)
  BY <1>2 DEF InHand
<1>6. Known(First) /\ Known(th[r].acct) /\ Known(th[r].seen)
  BY <1>1, <1>5, KnownCreds DEF IInv
<1>7. /\ Only(r) /\ ~InHand(r)' /\ Known(th'[r].acct) /\ Known(th'[r].seen) /\ RoleOK(r)'
      /\ (Suspect(r)' => Suspect(r)) /\ ~At(r, "refresh")'
  BY <1>1, <1>4, <1>6 DEF Becomes, InHand, RoleOK, At, Suspect
<1>8. MutexHeld' /\ Fenced'
  <2>1. th'[r].pc \in {"idle", "cache"}
    BY <1>4 DEF Becomes
  <2> QED BY <1>1, <1>3, <1>7, <2>1, OutsideKept DEF ghost
<1>9. behind \subseteq behind' /\ behind' \subseteq behind \union {r}
  BY DEF CheckTokenVersion
<1>10. Repairs(r) => Repairs(r)'
  <2> SUFFICES ASSUME Repairs(r) PROVE Repairs(r)'
    OBVIOUS
  <2>1. th[r].acct = db /\ th[r].result = "refreshed"
    BY <1>2 DEF Repairs, At
  <2>2. ~Newer(th[r].acct)
    BY <2>1, Numbers DEF Newer
  <2> QED BY <1>3, <1>4, <2>1, <2>2 DEF Becomes, Repairs, At, row
<1>11. RepairPending'
  BY <1>1, <1>3, <1>7, <1>10, RepairKept DEF IInv, row
<1>12. At(r, "cache")' /\ th'[r].acct # db => r \in behind'
  <2> SUFFICES ASSUME At(r, "cache")', th'[r].acct # db PROVE r \in behind'
    OBVIOUS
  <2>1. th'[r].acct = th[r].acct /\ th'[r].pc = "cache"
    BY <1>4 DEF Becomes, At
  <2>3. CASE Newer(th[r].acct) /\ Stop(r)
    BY <1>1, <1>2, <2>1, <2>3, FollowBecomes DEF Becomes
  <2>4. CASE /\ ~Newer(th[r].acct)
             /\ behind' = behind \union {q \in {r} : th[q].acct.ver >= db.ver /\ th[q].acct # db}
    <3>1. th[r].acct.ver >= db.ver
      BY <1>1, <2>4, Numbers DEF Newer
    <3> QED BY <2>1, <2>4, <3>1
  <2>5. CASE behind' = behind \union {r}
    BY <2>5
  <2> QED BY <2>3, <2>4, <2>5 DEF CheckTokenVersion
<1>13. BehindKnown'
  BY <1>1, <1>3, <1>7, <1>9, <1>12, BehindKept DEF IInv, row
<1>14. UNCHANGED <<live, db, status, lost>> /\ (Excused => Excused')
  BY <1>3 DEF row, ghost, Excused
<1>15. IInv'
  BY <1>1, <1>5, <1>7, <1>8, <1>11, <1>13, <1>14, QuietKept
<1>16. ValuesOK' /\ FlagsOK' /\ LocksOK'
  BY <1>3, TypeParts, SameTypes DEF row, ghost
<1>17. CountsOK'
  BY <1>3, TypeParts, CountsKept DEF CheckTokenVersion, ghost
<1>18. th' \in [Threads -> Thread] /\ behind' \subseteq Requests
  BY <1>4, <1>9, TypeParts DEF Becomes
<1> QED BY <1>15, <1>16, <1>17, <1>18, TypeParts

\* A request writes its token to the cache, or fails to.
LEMMA SetAccessTokenKept ==
    ASSUME Typed, IInv, NEW r \in Requests, SetAccessToken(r)
    PROVE  Typed' /\ IInv'
<1>1. r \in Threads /\ r \in Refreshers /\ r \notin Admins
  BY ProcType
<1>2. th \in [Threads -> Thread] /\ th[r].pc = "cache" /\ raced \in BOOLEAN /\ th[r].acct \in Creds
  BY <1>1 DEF Typed, TypeOK, SetAccessToken, At, Thread
<1>3. UNCHANGED <<live, age, row, locks, ghost>> /\ behind' = behind \ {r}
  BY DEF SetAccessToken
<1>4. Becomes(r, "idle", First, First, "none", FALSE)
  BY <1>1, <1>2, FollowBecomes DEF SetAccessToken
<1>5. Known(First)
  BY KnownCreds DEF IInv
<1>6. /\ Only(r) /\ ~InHand(r) /\ ~InHand(r)' /\ Known(th'[r].acct) /\ Known(th'[r].seen) /\ RoleOK(r)'
      /\ ~Suspect(r)' /\ ~At(r, "refresh")' /\ ~At(r, "cache")'
  BY <1>1, <1>2, <1>4, <1>5 DEF Becomes, InHand, RoleOK, At, Suspect
<1>7. MutexHeld' /\ Fenced'
  BY <1>1, <1>3, <1>4, <1>6, OutsideKept DEF Becomes, ghost
<1>8. BehindKnown'
  BY <1>1, <1>3, <1>6, BehindKept DEF IInv, row
<1>9. RepairPending' /\ raced' \in BOOLEAN
  <2>1. CASE cache' = th[r].acct.tok /\ Miss(r \in behind)
    <3>1. r \notin behind => th[r].acct = db
      BY <1>2 DEF IInv, BehindKnown, At
    <3>2. raced' \in BOOLEAN /\ (r \in behind /\ cache' \notin {None, db'.tok} => raced' = TRUE)
      BY <1>2, <2>1, MissType
    <3> QED BY <1>3, <2>1, <3>1, <3>2 DEF RepairPending, row
  <2>2. CASE UNCHANGED cache /\ Miss(WillRepair(r))
    <3>1. Repairs(r) => WillRepair(r)
      BY DEF Repairs, WillRepair
    <3> QED BY <1>1, <1>2, <1>3, <1>6, <2>2, <3>1, MissType, MissedKept DEF IInv, row
  <2> QED BY <2>1, <2>2 DEF SetAccessToken
<1>10. UNCHANGED <<live, db, status, lost>> /\ (Excused => Excused')
  BY <1>3 DEF row, ghost, Excused
<1>11. IInv'
  BY <1>1, <1>6, <1>7, <1>8, <1>9, <1>10, QuietKept
<1>12. ValuesOK'
  BY <1>2, <1>3, TypeParts DEF ValuesOK, SetAccessToken, Creds, row
<1>13. CountsOK' /\ LocksOK'
  BY <1>3, TypeParts, CountsKept, SameTypes DEF SetAccessToken, ghost
<1>14. FlagsOK'
  BY <1>3, <1>9, TypeParts DEF FlagsOK, row, ghost
<1>15. th' \in [Threads -> Thread] /\ behind' \subseteq Requests
  BY <1>3, <1>4, TypeParts DEF Becomes
<1> QED BY <1>11, <1>12, <1>13, <1>14, <1>15, TypeParts

----------------------------------------------------------------------------
(* The administrator's refresh                                             *)

\* The manual call to the provider.
LEMMA AdminRefreshKept ==
    ASSUME Typed, IInv, NEW a \in Admins, AdminRefresh(a)
    PROVE  Typed' /\ IInv'
<1>1. a \in Threads /\ a \notin Refreshers
  BY ProcType
<1>2. /\ th \in [Threads -> Thread] /\ th[a].pc = "refresh" /\ live \in Tokens /\ lost \in BOOLEAN
      /\ excuse \in BOOLEAN /\ temp \in BOOLEAN /\ th[a].result \in {"none", "invalid"}
  BY DEF Typed, TypeOK, AdminRefresh, At, IInv, Roles
<1>3. /\ Known(First) /\ th[a] \in Thread /\ th[a].seen \in Creds
  BY <1>1, KnownCreds DEF IInv
<1>4. UNCHANGED <<age, row, cache, locks, losses, stale, faults>>
  BY DEF AdminRefresh
<1>5. ~InHand(a) /\ ~Repairs(a)
  BY <1>2 DEF InHand, Repairs, At
<1>6. CASE /\ ~Burned(a) /\ Issue
           /\ Set(a, [th[a] EXCEPT !.pc = "load", !.seen.tok = live'])
           /\ excuse' = (excuse \/ Inside # {}) /\ lost' = FALSE
  <2> DEFINE c == [tok |-> live', ver |-> th[a].seen.ver]
  <2>1. live' = live + 1 /\ live' \in Tokens /\ c \in Creds
    BY <1>2, <1>3, <1>6, RefreshBoundAssumption DEF Issue, Tokens, Creds
  <2>2. [th[a].seen EXCEPT !.tok = live'] = c
    BY <1>3 DEF Creds
  <2>3. Set(a, [th[a] EXCEPT !.pc = "load", !.seen = c])
    BY <1>6, <2>2
  <2>4. Becomes(a, "load", th[a].acct, c, th[a].result, th[a].locked)
    BY <1>1, <1>2, <2>1, <2>3, RefreshBecomes DEF Steps
  <2>5. th[a].seen.tok = live
    BY <1>6 DEF Burned
  <2>7. Only(a) /\ InHand(a)' /\ th'[a].acct = th[a].acct /\ th'[a].seen.tok = live'
    BY <2>4 DEF Becomes, InHand
  <2>8. Coherent' /\ LiveTokenIsKept'
    BY <1>1, <1>2, <1>4, <1>5, <1>6, <2>1, <2>5, <2>7, IssuedKept DEF IInv, row
  <2>9. MutexHeld' /\ Fenced'
    BY <1>1, <1>4, <2>7, OutsideKept
  <2>10. Roles'
    BY <1>1, <1>2, <2>4, <2>7, RolesKept DEF IInv, RoleOK, Becomes
  <2>11. excuse' \in BOOLEAN /\ (excuse = TRUE => excuse' = TRUE) /\ (Inside # {} => excuse' = TRUE)
    BY <1>2, <1>6, Zenon
  <2>12. Excused => Excused'
    BY <1>4, <2>11 DEF Excused
  <2>13. Undisturbed'
    <3> SUFFICES ASSUME NEW u \in Refreshers, At(u, "refresh")' PROVE Excused'
      BY DEF Undisturbed
    <3>1. u \in Inside
      BY <1>1, <2>7, ProcType DEF At, Only, Inside
    <3> QED BY <2>11, <3>1 DEF Excused
  <2>14. Condemned'
    <3>1. lost = TRUE => Excused
      BY <1>1, <1>5, <2>5, IssueCoherent DEF IInv
    <3> QED BY <1>1, <1>2, <1>4, <2>4, <2>12, <3>1, CondemnedKept DEF IInv, Becomes, Suspect, row
  <2>15. BehindKnown' /\ RepairPending'
    BY <1>1, <1>4, <1>5, <2>4, BehindKept, RepairKept DEF IInv, Becomes, At, row, stale
  <2>16. CountsOK' /\ LocksOK'
    BY <1>4, TypeParts, SameTypes, CountsKept
  <2>17. FlagsOK'
    <3>1. lost' \in BOOLEAN
      BY <1>6, Zenon
    <3> QED BY <1>4, <2>11, <3>1, TypeParts DEF FlagsOK, row, stale
  <2>18. ValuesOK'
    BY <1>4, <2>1, TypeParts DEF ValuesOK, row
  <2>19. Typed'
    BY <1>4, <2>4, <2>16, <2>17, <2>18, TypeParts DEF Becomes, stale
  <2> QED BY <2>8, <2>9, <2>10, <2>13, <2>14, <2>15, <2>19 DEF IInv
<1>7. CASE Stop(a) /\ UNCHANGED <<live, excuse, lost>>
  <2>1. Becomes(a, "idle", First, First, "none", FALSE)
    BY <1>1, <1>2, <1>7, FollowBecomes
  <2>2. UNCHANGED <<live, age, db, status, cache, locks, ghost, stale>> /\ UNCHANGED faults
    BY <1>4, <1>7 DEF row, ghost
  <2>3. temp' \in BOOLEAN
    BY <1>2, <1>4 DEF row
  <2>4. "idle" # "refresh"
    OBVIOUS
  <2> QED BY <1>1, <1>3, <1>5, <2>1, <2>2, <2>3, <2>4, MovedKept
<1> QED BY <1>6, <1>7 DEF AdminRefresh

\* The row is read before it is written: nothing is stored yet.
LEMMA AdminLoadKept ==
    ASSUME Typed, IInv, NEW a \in Admins, AdminLoad(a)
    PROVE  Typed' /\ IInv'
<1>1. a \in Threads /\ a \notin Refreshers
  BY ProcType
<1>2. th \in [Threads -> Thread] /\ th[a].pc = "load" /\ status \in {"active", "error"}
  BY DEF Typed, TypeOK, AdminLoad, At
<1>3. UNCHANGED <<live, age, row, cache, locks, ghost, stale, faults>>
  BY DEF AdminLoad
<1> DEFINE q == IF status = "active" THEN "none" ELSE "invalid"
<1>4. q \in Results /\ (q = "invalid" => status = "error") /\ q \in {"none", "invalid"}
  BY <1>2 DEF Results
<1>5. Becomes(a, "write", th[a].acct, th[a].seen, q, th[a].locked)
  BY <1>1, <1>2, <1>4, RefreshBecomes, RestType DEF AdminLoad, Steps
<1> HIDE DEF q
<1>6. /\ Only(a) /\ InHand(a) /\ InHand(a)' /\ RoleOK(a)' /\ ~At(a, "cache")' /\ ~At(a, "refresh")' /\ ~Repairs(a)
      /\ th'[a].acct = th[a].acct /\ th'[a].seen = th[a].seen
  BY <1>1, <1>2, <1>4, <1>5 DEF Becomes, InHand, RoleOK, At, Repairs
<1>7. Excused => Excused'
  BY <1>3 DEF Excused, ghost
<1>8. \A u \in Threads : InHand(u)' <=> InHand(u)
  BY <1>6 DEF InHand, Only
<1>9. \A u \in Threads : th'[u].acct = th[u].acct /\ th'[u].seen = th[u].seen
  BY <1>6 DEF Only
<1>10. UNCHANGED <<live, db, lost>>
  BY <1>3 DEF row, ghost
<1>11. \A u \in Threads : InHand(u)' => Carries(u)'
  BY <1>8, <1>9, <1>10 DEF IInv, Coherent, Carries
<1>h. Hidden' => Hidden
  BY <1>7, <1>8, <1>10 DEF Hidden
<1>12. \A u \in Threads : Known(th[u].acct)' /\ (InHand(u)' \/ Known(th[u].seen)')
  BY <1>8, <1>9, <1>10, <1>h DEF IInv, Coherent, Known
<1>13. Coherent' /\ LiveTokenIsKept'
  BY <1>8, <1>9, <1>10, <1>11, <1>12, <1>h DEF IInv, Coherent, LiveTokenIsKept, Known, First
<1>14. MutexHeld' /\ Fenced'
  BY <1>1, <1>3, <1>6, OutsideKept DEF ghost
<1>15. Roles' /\ Undisturbed'
  BY <1>1, <1>6, <1>7, <1>10, RolesKept, UndisturbedKept DEF IInv
<1>16. Condemned'
  <2>1. Suspect(a)' => lost = TRUE \/ Excused
    BY <1>4, <1>5 DEF Becomes, Suspect, IInv, Condemned
  <2> QED BY <1>1, <1>3, <1>6, <1>7, <2>1, CondemnedKept DEF IInv, row, ghost
<1>17. BehindKnown' /\ RepairPending'
  BY <1>1, <1>3, <1>6, BehindKept, RepairKept DEF IInv, row, stale
<1>18. Typed'
  BY <1>3, <1>5, MoveTyped DEF Becomes
<1> QED BY <1>13, <1>14, <1>15, <1>16, <1>17, <1>18 DEF IInv

\* The account is written back with the new token and the status that was read.
LEMMA AdminWriteKept ==
    ASSUME Typed, IInv, NEW a \in Admins, AdminWrite(a)
    PROVE  Typed' /\ IInv'
<1>1. a \in Threads /\ a \notin Refreshers
  BY ProcType
<1>2. /\ th \in [Threads -> Thread] /\ th[a].pc = "write" /\ raced \in BOOLEAN
      /\ th[a].result \in {"none", "invalid"}
  BY DEF Typed, TypeOK, AdminWrite, At, IInv, Roles
<1>3. Known(First) /\ th[a].seen \in Creds
  BY <1>1, KnownCreds DEF IInv
<1>4. UNCHANGED <<live, age, temp, locks, losses, excuse, cache>>
  BY DEF AdminWrite
<1>5. InHand(a) /\ ~Repairs(a)
  BY <1>2 DEF InHand, Repairs, At
<1>6. CASE /\ db' = th[a].seen /\ Follow(a, "invalidate")
           /\ status' = IF th[a].result = "none" THEN "active" ELSE "error"
           /\ behind' = behind \union Checked /\ Miss(FALSE) /\ UNCHANGED <<lost, faults>>
  <2>1. Becomes(a, "invalidate", First, First, "none", FALSE)
    BY <1>1, <1>2, <1>6, FollowBecomes DEF Steps
  <2>2. /\ Only(a) /\ ~InHand(a)' /\ th'[a].acct = First /\ th'[a].seen = First /\ RoleOK(a)'
        /\ ~At(a, "cache")' /\ ~Suspect(a)' /\ ~At(a, "refresh")' /\ Repairs(a)'
    BY <1>1, <2>1 DEF Becomes, InHand, RoleOK, At, Suspect, Repairs
  <2>3. status' = "error" => Suspect(a)
    BY <1>2, <1>6 DEF Suspect
  <2>4. MutexHeld' /\ Fenced'
    BY <1>1, <1>4, <2>2, OutsideKept
  <2>5. IInv'
    BY <1>1, <1>4, <1>5, <1>6, <2>2, <2>3, <2>4, WriterKept
  <2>6. raced' \in BOOLEAN
    BY <1>2, <1>6, MissType
  <2>7. FlagsOK'
    BY <1>4, <1>6, <2>6, TypeParts DEF FlagsOK
  <2>8. LocksOK' /\ CountsOK'
    BY <1>4, <1>6, TypeParts, SameTypes, CountsKept
  <2>9. ValuesOK'
    BY <1>3, <1>4, <1>6, TypeParts DEF ValuesOK
  <2>10. behind' \subseteq Requests
    BY <1>6, TypeParts DEF Checked
  <2> QED BY <2>1, <2>5, <2>7, <2>8, <2>9, <2>10, TypeParts DEF Becomes
<1>7. CASE Inject /\ lost' = TRUE /\ Stop(a) /\ UNCHANGED <<db, status, stale>>
  <2>1. Becomes(a, "idle", First, First, "none", FALSE)
    BY <1>1, <1>2, <1>7, FollowBecomes
  <2>2. /\ Only(a) /\ ~InHand(a)' /\ Known(th'[a].acct) /\ Known(th'[a].seen) /\ RoleOK(a)'
        /\ ~At(a, "cache")' /\ ~Suspect(a)' /\ ~At(a, "refresh")'
    BY <1>1, <1>3, <2>1 DEF Becomes, InHand, RoleOK, At, Suspect
  <2>3. MutexHeld' /\ Fenced'
    BY <1>1, <1>4, <2>2, OutsideKept
  <2>4. IInv'
    BY <1>1, <1>4, <1>5, <1>7, <2>2, <2>3, DropKept
  <2>5. FlagsOK'
    BY <1>4, <1>7, TypeParts DEF FlagsOK, stale
  <2>6. ValuesOK' /\ LocksOK' /\ CountsOK'
    BY <1>4, <1>7, TypeParts, SameTypes, CountsKept
  <2> QED BY <1>7, <2>1, <2>4, <2>5, <2>6, TypeParts DEF Becomes, stale
<1> QED BY <1>6, <1>7 DEF AdminWrite

----------------------------------------------------------------------------
(* Other edits of the account                                              *)

\* The row is written back as it was read: if that puts older credentials back, it is
\* on record, and otherwise nothing but the status changes.
LEMMA EditWriteKept ==
    ASSUME Typed, IInv, NEW a \in Admins, EditWrite(a)
    PROVE  Typed' /\ IInv'
<1>1. a \in Threads /\ a \notin Refreshers
  BY ProcType
<1>2. /\ th \in [Threads -> Thread] /\ th[a].pc = "edit" /\ raced \in BOOLEAN /\ lost \in BOOLEAN
      /\ excuse \in BOOLEAN /\ temp \in BOOLEAN /\ th[a].result \in {"none", "invalid"}
  BY DEF Typed, TypeOK, EditWrite, At, IInv, Roles
<1>3. ~InHand(a) /\ ~Repairs(a)
  BY <1>2 DEF InHand, Repairs, At
<1>4. Known(First) /\ Known(th[a].seen) /\ th[a].seen \in Creds
  BY <1>1, <1>3, KnownCreds DEF IInv
<1>5. UNCHANGED <<live, age, temp, locks, losses, faults, cache>>
  BY DEF EditWrite
<1>6. Becomes(a, "idle", First, First, "none", FALSE)
  BY <1>1, <1>2, FollowBecomes DEF EditWrite
<1>7. CASE UNCHANGED <<db, status, excuse, lost, stale>>
  <2>1. UNCHANGED <<live, age, db, status, cache, locks, ghost, stale>> /\ temp' \in BOOLEAN
    BY <1>2, <1>5, <1>7 DEF ghost
  <2>2. "idle" # "refresh"
    OBVIOUS
  <2> QED BY <1>1, <1>3, <1>4, <1>5, <1>6, <2>1, <2>2, MovedKept
<1>8. CASE /\ db' = th[a].seen
           /\ status' \in {"active", IF th[a].result = "none" THEN "active" ELSE "error"}
           /\ excuse' = (excuse \/ RollsBack(a))
           /\ lost' = ((lost \/ db.tok = live) /\ th[a].seen.tok # live)
           /\ behind' = behind \union {r \in Checked : RollsBack(a)} /\ Miss(RollsBack(a))
  <2>1. excuse' \in BOOLEAN /\ (excuse = TRUE => excuse' = TRUE) /\ (RollsBack(a) => excuse' = TRUE)
    BY <1>2, <1>8, Zenon
  <2>2. /\ lost' \in BOOLEAN
        /\ lost' = TRUE => lost = TRUE \/ db.tok = live
        /\ lost' = TRUE => th[a].seen.tok # live
        /\ (lost = TRUE \/ db.tok = live) /\ th[a].seen.tok # live => lost' = TRUE
    BY <1>2, <1>8, Zenon
  <2>3. /\ (Excused => Excused') /\ (RollsBack(a) => Excused')
        /\ ~RollsBack(a) => db' = db /\ th[a].seen = db
    BY <1>5, <1>8, <2>1 DEF Excused, RollsBack
  <2>4. /\ Only(a) /\ ~InHand(a)' /\ th'[a].acct = First /\ th'[a].seen = First /\ RoleOK(a)'
        /\ ~At(a, "cache")' /\ ~Suspect(a)' /\ ~At(a, "refresh")'
    BY <1>1, <1>6 DEF Becomes, InHand, RoleOK, At, Suspect
  <2>5. \A u \in Threads : (InHand(u)' <=> InHand(u)) /\ (InHand(u) => u # a /\ th'[u] = th[u])
    BY <1>3, <2>4 DEF InHand, Only
  <2>6. Hidden => db.tok < live /\ db.tok # live
    BY Numbers DEF IInv, Coherent, Known
  <2>7. Hidden' => Hidden
    BY <2>2, <2>3, <2>5 DEF Hidden
  <2>8. Known(db)' /\ Known(First)'
    BY <1>4, <1>5, <1>8, <2>7 DEF Known, First
  <2>9. \A u \in Threads : Known(th[u].acct)' /\ (InHand(u)' \/ Known(th[u].seen)')
    <3> SUFFICES ASSUME NEW u \in Threads PROVE Known(th[u].acct)' /\ (InHand(u)' \/ Known(th[u].seen)')
      OBVIOUS
    <3>1. CASE u = a
      BY <2>4, <2>8, <3>1 DEF Known, First
    <3>2. CASE u # a
      <4>1. th'[u] = th[u]
        BY <2>4, <3>2 DEF Only
      <4>2. Known(th[u].acct) /\ (InHand(u) \/ Known(th[u].seen))
        BY DEF IInv, Coherent
      <4> QED BY <1>5, <2>5, <2>7, <4>1, <4>2 DEF Known
    <3> QED BY <3>1, <3>2
  <2>10. \A u \in Threads : InHand(u)' => Carries(u)'
    <3> SUFFICES ASSUME NEW u \in Threads, InHand(u) PROVE Carries(u)'
      BY <2>5
    <3>1. Carries(u) /\ Hidden
      BY DEF IInv, Coherent, Hidden
    <3>2. lost' = FALSE
      BY <2>2, <2>6, <3>1 DEF Carries
    <3> QED BY <1>5, <2>5, <3>1, <3>2 DEF Carries
  <2>11. Coherent'
    BY <2>8, <2>9, <2>10 DEF Coherent
  <2>12. LiveTokenIsKept'
    <3>1. CASE th[a].seen.tok = live
      BY <1>5, <1>8, <3>1 DEF LiveTokenIsKept
    <3>2. CASE th[a].seen.tok # live /\ (lost = TRUE \/ db.tok = live)
      BY <2>2, <3>2 DEF LiveTokenIsKept
    <3>3. ASSUME NEW u \in Threads, InHand(u), th[u].seen.tok = live PROVE LiveTokenIsKept'
      BY <1>5, <2>5, <3>3 DEF LiveTokenIsKept
    <3>4. lost = TRUE \/ ~lost
      BY <1>2
    <3> QED BY <3>1, <3>2, <3>3, <3>4 DEF IInv, LiveTokenIsKept
  <2>13. MutexHeld' /\ Fenced'
    BY <1>1, <1>5, <2>4, OutsideKept
  <2>14. Roles'
    BY <1>1, <2>4, RolesKept DEF IInv
  <2>15. Undisturbed'
    <3>1. CASE RollsBack(a)
      BY <2>3, <3>1 DEF Undisturbed
    <3>2. CASE ~RollsBack(a)
      BY <1>1, <1>3, <2>3, <2>4, <3>2, UndisturbedKept DEF IInv
    <3> QED BY <3>1, <3>2
  <2>16. Condemned'
    <3>1. lost = TRUE \/ Excused => lost' = TRUE \/ Excused'
      <4>1. CASE RollsBack(a) \/ Excused
        BY <2>3, <4>1
      <4>2. CASE ~RollsBack(a) /\ lost = TRUE /\ ~Excused
        BY <2>2, <2>3, <2>6, <4>2 DEF Hidden
      <4> QED BY <4>1, <4>2
    <3>2. status' = "error" => lost = TRUE \/ Excused
      BY <1>1, <1>2, <1>8 DEF IInv, Condemned
    <3>3. \A u \in Threads : Suspect(u)' => lost = TRUE \/ Excused
      BY <2>4 DEF IInv, Condemned, Suspect, Only
    <3> QED BY <3>1, <3>2, <3>3 DEF Condemned, Suspect
  <2>17. BehindKnown'
    <3> SUFFICES ASSUME NEW r \in Requests, At(r, "cache")', th'[r].acct # db' PROVE r \in behind'
      BY DEF BehindKnown
    <3>1. r \in Threads /\ r # a /\ th'[r] = th[r]
      BY <1>1, <2>4, ProcType DEF Only
    <3>2. At(r, "cache") /\ r \in Checked
      BY <3>1 DEF At, Checked
    <3>3. CASE RollsBack(a)
      BY <1>8, <3>2, <3>3
    <3>4. CASE ~RollsBack(a)
      BY <1>8, <2>3, <3>1, <3>2, <3>4 DEF IInv, BehindKnown
    <3> QED BY <3>3, <3>4
  <2>18. raced' \in BOOLEAN /\ RepairPending'
    <3>1. /\ raced' \in BOOLEAN
          /\ RollsBack(a) /\ cache' \notin {None, db'.tok} => raced' = TRUE
          /\ raced = TRUE /\ cache' \notin {None, db'.tok} => raced' = TRUE
      BY <1>2, <1>8, MissType
    <3>2. CASE RollsBack(a)
      BY <3>1, <3>2 DEF RepairPending
    <3>3. CASE ~RollsBack(a)
      <4>1. \A u \in Threads : Repairs(u) => Repairs(u)'
        BY <1>3, <2>3, <2>4, <3>3 DEF Repairs, At, Only
      <4> QED BY <1>5, <2>3, <3>1, <3>3, <4>1 DEF IInv, RepairPending
    <3> QED BY <3>1, <3>2, <3>3
  <2>19. IInv'
    BY <2>11, <2>12, <2>13, <2>14, <2>15, <2>16, <2>17, <2>18 DEF IInv
  <2>20. FlagsOK'
    BY <1>2, <1>5, <2>1, <2>2, <2>18 DEF FlagsOK
  <2>21. LocksOK' /\ CountsOK'
    BY <1>5, TypeParts, SameTypes, CountsKept
  <2>22. ValuesOK'
    BY <1>4, <1>5, <1>8, TypeParts DEF ValuesOK
  <2>23. behind' \subseteq Requests
    BY <1>8, TypeParts DEF Checked
  <2> QED BY <1>6, <2>19, <2>20, <2>21, <2>22, <2>23, TypeParts DEF Becomes
<1> QED BY <1>7, <1>8 DEF EditWrite

----------------------------------------------------------------------------
(* Time and failures                                                       *)

\* Steps that move no thread and change neither tokens nor locks.
LEMMA StillKept ==
    ASSUME IInv, UNCHANGED <<live, db, status, locks, th, ghost, behind>>, RepairPending'
    PROVE  IInv'
<1> USE DEF IInv, ghost, locks
<1>1. Roles'
  BY DEF Roles
<1>2. Coherent' /\ LiveTokenIsKept'
  BY DEF Coherent, Carries, Known, Hidden, Excused, First, InHand, LiveTokenIsKept
<1>3. MutexHeld'
  BY DEF MutexHeld, Guarded
<1>4. Zombies' = Zombies
  BY DEF Zombies, Inside, Deleting, At
<1>5. Fenced'
  BY <1>4 DEF Fenced
<1>6. Undisturbed'
  BY DEF Undisturbed, AsksStored, InHand, Excused, At
<1>7. Condemned'
  BY DEF Condemned, Excused
<1>8. BehindKnown'
  BY DEF BehindKnown, At
<1> QED BY <1>1, <1>2, <1>3, <1>5, <1>6, <1>7, <1>8

\* The clock, the end of a pause and the TTL of the cached token.
LEMMA TimeKept ==
    ASSUME Typed, IInv, Age \/ PauseEnds \/ CacheExpires
    PROVE  Typed' /\ IInv'
<1>1. UNCHANGED <<live, db, status, locks, th, ghost, behind, faults>>
  BY DEF Age, PauseEnds, CacheExpires, row, stale
<1>2. RepairPending' /\ raced' \in BOOLEAN
  <2>1. CASE Age \/ PauseEnds
    <3>1. UNCHANGED <<db, cache, raced, th>>
      BY <2>1 DEF Age, PauseEnds, row, stale
    <3> QED BY <3>1, TypeParts DEF IInv, RepairPending, Repairs, At, FlagsOK
  <2>2. CASE CacheExpires
    BY <2>2, MissType, TypeParts DEF CacheExpires, RepairPending, FlagsOK
  <2> QED BY <2>1, <2>2
<1>3. IInv'
  BY <1>1, <1>2, StillKept
<1>4. CountsOK' /\ LocksOK'
  BY <1>1, TypeParts, CountsKept, SameTypes DEF ghost
<1>5. temp' \in BOOLEAN
  BY TypeParts DEF Age, PauseEnds, CacheExpires, FlagsOK, row
<1>6. FlagsOK'
  BY <1>1, <1>2, <1>5, TypeParts DEF FlagsOK, ghost
<1>7. age' \in [Tokens -> Ages]
  <2>1. CASE Age
    <3>1. db.tok \in Tokens /\ age[db.tok] + 1 \in Ages /\ age \in [Tokens -> Ages]
      BY <2>1 DEF Age, Typed, TypeOK, Creds, Ages
    <3> QED BY <2>1, <3>1 DEF Age
  <2>2. CASE PauseEnds \/ CacheExpires
    BY <2>2, TypeParts DEF PauseEnds, CacheExpires, ValuesOK
  <2> QED BY <2>1, <2>2
<1>8. cache' \in Tokens \union {None}
  BY TypeParts DEF ValuesOK, Age, PauseEnds, CacheExpires
<1>9. ValuesOK'
  BY <1>1, <1>7, <1>8, TypeParts DEF ValuesOK
<1> QED BY <1>1, <1>3, <1>4, <1>6, <1>9, TypeParts

\* The lock runs out, under its holder or after it.
LEMMA ExpiryKept ==
    ASSUME Typed, IInv, OrphanExpires \/ LockExpires
    PROVE  Typed' /\ IInv'
<1>1. UNCHANGED <<live, age, row, cache, mutex, th, excuse, lost, stale>> /\ lock' = NoOne
  BY DEF OrphanExpires, LockExpires, ghost
<1>2. CountsOK' /\ (Excused => Excused')
  <2>1. CASE OrphanExpires
    BY <2>1, TypeParts, CountsKept DEF OrphanExpires, ghost, Excused
  <2>2. CASE LockExpires
    BY <2>2, TypeParts, CountsKept, RefreshBoundAssumption DEF LockExpires, CountsOK, Excused
  <2> QED BY <2>1, <2>2
<1>3. Zombies' \subseteq Zombies \union {lock}
  BY <1>1 DEF Zombies, Inside, Deleting, At
<1>4. Fenced'
  <2>1. CASE OrphanExpires
    <3>1. Zombies' \subseteq Zombies
      BY <1>1, <2>1 DEF OrphanExpires, Zombies, Inside, Deleting, At
    <3> QED BY <2>1, <3>1, ZombiesKept, CountsKept, TypeParts DEF IInv, OrphanExpires, ghost
  <2>2. CASE LockExpires
    BY <1>3, <2>2, ZombieAdded DEF IInv, LockExpires
  <2> QED BY <2>1, <2>2
<1>5. MutexHeld'
  BY <1>1 DEF IInv, MutexHeld, Guarded
<1>h. Hidden' => Hidden
  BY <1>1, <1>2 DEF Hidden, InHand
<1>6. Coherent' /\ LiveTokenIsKept' /\ Roles'
  BY <1>1, <1>h DEF IInv, Coherent, Carries, Known, First, InHand, LiveTokenIsKept, Roles, row
<1>7. Undisturbed' /\ Condemned'
  BY <1>1, <1>2 DEF IInv, Undisturbed, AsksStored, InHand, At, Condemned, row
<1>8. BehindKnown' /\ RepairPending'
  BY <1>1 DEF IInv, BehindKnown, RepairPending, Repairs, At, row, stale
<1>9. ValuesOK' /\ FlagsOK' /\ LocksOK'
  BY <1>1, TypeParts, SameTypes DEF LocksOK, row, stale
<1> QED BY <1>1, <1>2, <1>4, <1>5, <1>6, <1>7, <1>8, <1>9, TypeParts DEF IInv, stale

\* A process stops, with its worker and its requests.
LEMMA CrashKept ==
    ASSUME Typed, IInv, NEW p \in Processes, Crash(p)
    PROVE  Typed' /\ IInv'
<1> DEFINE dead == {t \in Refreshers : Proc(t) = p}
<1>1. /\ Inject /\ UNCHANGED <<live, age, row, cache, lock, losses, excuse>>
      /\ mutex' = [mutex EXCEPT ![p] = NoOne]
      /\ th' = [t \in Threads |-> IF t \in dead THEN Rest ELSE th[t]]
      /\ behind' = behind \ dead
      /\ Miss(\E t \in dead : WillRepair(t))
  BY DEF Crash
<1>2. lost' = (lost \/ \E t \in dead : InHand(t))
  BY DEF Crash
<1>3. th \in [Threads -> Thread] /\ lost \in BOOLEAN /\ raced \in BOOLEAN /\ mutex \in [Processes -> Refreshers \union {NoOne}]
  BY DEF Typed, TypeOK
<1>4. /\ lost' \in BOOLEAN /\ (lost = TRUE => lost' = TRUE)
      /\ \A t \in dead : InHand(t) => lost' = TRUE
      /\ lost' = TRUE => lost = TRUE \/ \E t \in dead : InHand(t)
  BY <1>2, <1>3, Zenon
<1>5. dead \subseteq Threads /\ dead \subseteq Refreshers
  BY ProcType
<1>d. \A u \in Refreshers : u \notin dead => Proc(u) # p
  OBVIOUS
<1>e. \A u \in dead : u \in Refreshers
  OBVIOUS
<1>m. raced' \in BOOLEAN /\ ((\E t \in dead : WillRepair(t)) /\ cache' \notin {None, db'.tok} => raced' = TRUE)
      /\ (raced = TRUE /\ cache' \notin {None, db'.tok} => raced' = TRUE)
  BY <1>1, <1>3, MissType
<1> HIDE DEF dead
<1>6. /\ \A u \in Threads : u \notin dead => th'[u] = th[u]
      /\ \A u \in dead : th'[u] = Rest
  BY <1>1, <1>5
<1>7. th' \in [Threads -> Thread]
  BY <1>1, <1>3, RestType
<1>8. \A u \in dead : /\ th'[u].pc = "idle" /\ th'[u].acct = First /\ th'[u].seen = First /\ th'[u].result = "none"
                      /\ ~InHand(u)'
  BY <1>6, RestType DEF InHand
<1>9. UNCHANGED <<live, db, status>> /\ (Excused => Excused') /\ losses' = losses
  BY <1>1 DEF row, Excused
<1>10. Roles'
  BY <1>6, <1>8, ProcType DEF IInv, Roles, Threads
<1>11. \A u \in Threads : InHand(u)' => u \notin dead /\ InHand(u) /\ th'[u] = th[u]
  BY <1>6, <1>8 DEF InHand
<1>12. Coherent'
  <2>0. Hidden' => Hidden
    BY <1>4, <1>5, <1>9, <1>11 DEF Hidden
  <2>1. Known(First)' /\ Known(db)'
    BY <1>9, <2>0 DEF IInv, Coherent, Known, First
  <2>2. \A u \in Threads : Known(th[u].acct)' /\ (InHand(u)' \/ Known(th[u].seen)')
    <3> SUFFICES ASSUME NEW u \in Threads PROVE Known(th[u].acct)' /\ (InHand(u)' \/ Known(th[u].seen)')
      OBVIOUS
    <3>1. CASE u \in dead
      BY <1>8, <2>1, <3>1 DEF Known, First
    <3>2. CASE u \notin dead
      BY <1>6, <1>9, <2>0, <3>2 DEF IInv, Coherent, Known, InHand
    <3> QED BY <3>1, <3>2
  <2>4. \A u \in Threads : InHand(u)' => Carries(u)'
    <3> SUFFICES ASSUME NEW u \in Threads, InHand(u)' PROVE Carries(u)'
      OBVIOUS
    <3>1. Carries(u) /\ u \notin dead /\ th'[u] = th[u]
      BY <1>11 DEF IInv, Coherent
    <3>2. lost' = FALSE
      BY <1>4, <1>5, <3>1 DEF Carries
    <3> QED BY <1>9, <1>11, <3>1, <3>2 DEF Carries
  <2> QED BY <2>1, <2>2, <2>4 DEF Coherent
<1>13. LiveTokenIsKept'
  <2>1. CASE db.tok = live
    BY <1>9, <2>1 DEF LiveTokenIsKept
  <2>2. CASE lost
    BY <1>3, <1>4, <2>2 DEF LiveTokenIsKept
  <2>3. ASSUME NEW u \in Threads, InHand(u), th[u].seen.tok = live PROVE LiveTokenIsKept'
    <3>1. CASE u \in dead
      BY <1>4, <2>3, <3>1 DEF LiveTokenIsKept
    <3>2. CASE u \notin dead
      BY <1>6, <1>9, <2>3, <3>2 DEF LiveTokenIsKept, InHand
    <3> QED BY <3>1, <3>2
  <2> QED BY <2>1, <2>2, <2>3 DEF IInv, LiveTokenIsKept
<1>14. MutexHeld'
  <2> SUFFICES ASSUME NEW u \in Refreshers, Guarded(u)' PROVE mutex'[Proc(u)] = u
    BY DEF MutexHeld, Proc
  <2>1. u \in Threads /\ Proc(u) \in Processes
    BY ProcType
  <2>2. u \notin dead
    BY <1>8 DEF Guarded
  <2>3. mutex[Proc(u)] = u
    BY <1>6, <2>1, <2>2 DEF IInv, MutexHeld, Guarded
  <2> QED BY <1>1, <1>3, <1>d, <2>1, <2>2, <2>3
<1>15. Fenced'
  <2>1. Zombies' \subseteq Zombies
    BY <1>1, <1>6, <1>8, ProcType DEF Zombies, Inside, Deleting, At
  <2>2. losses' \in Nat /\ losses' >= losses
    BY <1>9, TypeParts, RefreshBoundAssumption DEF CountsOK
  <2> QED BY <2>1, <2>2, ZombiesKept DEF IInv
<1>16. Undisturbed'
  <2> SUFFICES ASSUME NEW u \in Refreshers, At(u, "refresh")', ~Excused' PROVE AsksStored(u)'
    BY DEF Undisturbed
  <2>1. u \in Threads /\ u \notin dead /\ th'[u] = th[u]
    BY <1>6, <1>8, ProcType DEF At
  <2>2. AsksStored(u)
    BY <1>9, <2>1 DEF IInv, Undisturbed, At
  <2> QED BY <1>9, <1>11, <2>1, <2>2 DEF AsksStored
<1>17. Condemned'
  <2>1. status' = "error" => lost' = TRUE \/ Excused'
    BY <1>4, <1>9 DEF IInv, Condemned
  <2>2. ASSUME NEW u \in Threads, Suspect(u)' PROVE lost' = TRUE \/ Excused'
    <3>1. u \notin dead
      BY <1>8, <2>2 DEF Suspect
    <3>2. Suspect(u)
      BY <1>6, <2>2, <3>1 DEF Suspect
    <3> QED BY <1>4, <1>9, <3>2 DEF IInv, Condemned, Suspect
  <2> QED BY <2>1, <2>2 DEF Condemned, Suspect
<1>18. BehindKnown'
  BY <1>1, <1>6, <1>8, <1>9, ProcType DEF IInv, BehindKnown, At
<1>19. RepairPending'
  <2>1. ASSUME NEW u \in Threads, Repairs(u), cache' \notin {None, db'.tok} PROVE RepairPending'
    <3>1. CASE u \in dead
      <4>1. WillRepair(u)
        BY <2>1 DEF Repairs, WillRepair
      <4> QED BY <1>m, <2>1, <3>1, <4>1 DEF RepairPending
    <3>2. CASE u \notin dead
      <4>1. Repairs(u)'
        BY <1>6, <1>9, <2>1, <3>2 DEF Repairs, At
      <4> QED BY <4>1 DEF RepairPending
    <3> QED BY <3>1, <3>2
  <2>2. cache' = cache
    BY <1>1
  <2> QED BY <1>9, <1>m, <2>1, <2>2 DEF IInv, RepairPending
<1>20. ValuesOK'
  BY <1>1, TypeParts, SameTypes DEF row
<1>21. FlagsOK'
  BY <1>1, <1>4, <1>m, TypeParts DEF FlagsOK, row
<1>22. LocksOK' /\ CountsOK'
  BY <1>1, <1>3, TypeParts, CountsKept DEF LocksOK
<1>23. behind' \subseteq Requests
  BY <1>1, TypeParts
<1>24. Typed'
  BY <1>7, <1>20, <1>21, <1>22, <1>23, TypeParts
<1> QED BY <1>10, <1>12, <1>13, <1>14, <1>15, <1>16, <1>17, <1>18, <1>19, <1>24 DEF IInv

----------------------------------------------------------------------------
(* The theorems                                                            *)

\* A fresh account, nobody at work.
LEMMA InitKept == Init => Typed /\ IInv
<1> SUFFICES ASSUME Init PROVE Typed /\ IInv
  OBVIOUS
<1>1. First \in Creds /\ First.tok = 1 /\ First.ver = 1 /\ 1 \in Tokens /\ Rest \in Thread
  BY RestType, RefreshBoundAssumption DEF First, Tokens
<1>2. \A t \in Threads : th[t] = Rest
  BY DEF Init
<1>3. \A t \in Threads : /\ th[t].pc = "idle" /\ th[t].acct = First /\ th[t].seen = First /\ th[t].result = "none"
                         /\ ~InHand(t)
  BY <1>2, RestType DEF InHand
<1>4. /\ age \in [Tokens -> Ages] /\ th \in [Threads -> Thread]
      /\ mutex \in [Processes -> Refreshers \union {NoOne}]
  BY <1>1 DEF Init, Ages
<1>5. temp \in BOOLEAN /\ excuse \in BOOLEAN /\ lost \in BOOLEAN /\ raced \in BOOLEAN
  BY Zenon DEF Init
<1>6. Typed
  BY <1>1, <1>4, <1>5, RefreshBoundAssumption DEF Typed, TypeOK, Init
<1>7. Known(First)
  <2>1. ~Hidden
    <3>1. lost # TRUE
      BY Zenon DEF Init
    <3> QED BY <1>3, <3>1 DEF Hidden
  <2> QED BY <1>1, <2>1 DEF Known, Init
<1>8. Coherent /\ LiveTokenIsKept
  <2>1. db.tok = live
    BY <1>1 DEF Init
  <2>2. Known(db)
    BY <1>7 DEF Init
  <2> QED BY <1>3, <1>7, <2>1, <2>2 DEF Coherent, LiveTokenIsKept
<1>9. Zombies = {}
  BY <1>3, ProcType DEF Zombies, Inside, Deleting, At
<1>10. Fenced
  BY <1>9, FS_EmptySet DEF Fenced, Init
<1>11. Roles /\ MutexHeld /\ Undisturbed
  BY <1>3, ProcType DEF Roles, MutexHeld, Guarded, Undisturbed, At
<1>12. Condemned
  BY <1>3 DEF Condemned, Init
<1>13. BehindKnown /\ RepairPending
  BY <1>3, ProcType DEF BehindKnown, RepairPending, At, Init
<1> QED BY <1>6, <1>8, <1>10, <1>11, <1>12, <1>13 DEF IInv

\* Every step keeps the invariant.
LEMMA NextKept == Typed /\ IInv /\ [Next]_vars => Typed' /\ IInv'
<1> SUFFICES ASSUME Typed, IInv, [Next]_vars PROVE Typed' /\ IInv'
  OBVIOUS
<1>1. ASSUME NEW t \in Refreshers, RefreshStep(t) PROVE Typed' /\ IInv'
  BY <1>1, LocalLockKept, AcquireKept, RereadKept, RefreshKept, RecoverKept, PersistKept, ReleaseKept DEF RefreshStep
<1>2. ASSUME NEW p \in Processes, WorkerStep(p) \/ Crash(p) PROVE Typed' /\ IInv'
  <2>1. p \in Refreshers /\ p \in Threads
    BY ProcType
  <2> QED BY <1>1, <1>2, <2>1, StartKept, PostRefreshKept, SetErrorKept, CrashKept DEF WorkerStep
<1>3. ASSUME NEW r \in Requests, Arrive(r) \/ RequestStep(r) PROVE Typed' /\ IInv'
  <2>1. r \in Refreshers /\ r \in Threads
    BY ProcType
  <2> QED BY <1>1, <1>3, <2>1, StartKept, CheckKept, SetAccessTokenKept DEF RequestStep
<1>4. ASSUME NEW a \in Admins, AdminGet(a) \/ EditLoad(a) \/ AdminStep(a) PROVE Typed' /\ IInv'
  <2>1. a \in Threads
    BY ProcType
  <2> QED BY <1>4, <2>1, StartKept, AdminRefreshKept, AdminLoadKept, AdminWriteKept, AdminInvalidateKept,
            EditWriteKept DEF AdminStep
<1>5. CASE UNCHANGED vars
  <2>1. UNCHANGED <<live, age, db, status, temp, cache, locks, th, ghost, stale, faults>>
    BY <1>5 DEF vars, row
  <2>2. RepairPending'
    BY <2>1 DEF IInv, RepairPending, Repairs, At, stale
  <2>3. IInv'
    BY <2>1, <2>2, StillKept DEF stale
  <2>4. Typed'
    BY <2>1, MoveTyped, TypeParts DEF row
  <2> QED BY <2>3, <2>4
<1> QED BY <1>2, <1>3, <1>4, <1>5, TimeKept, ExpiryKept DEF Next

\* The invariant holds in every reachable state, whatever fails, expires or stops.
THEOREM Invariance == Spec => [](Typed /\ IInv)
BY InitKept, NextKept, PTL DEF Spec

\* The account, the locks, the cache and the threads keep their types.
THEOREM TypeCorrect == Spec => []TypeOK
<1>1. Typed => TypeOK
  BY DEF Typed
<1> QED BY <1>1, Invariance, PTL

\* The one token the provider still accepts is stored or on its way, unless it was lost
\* with an answer, a write or a process, or an edit of the account overwrote it with the
\* row it had read before (RefreshIfNeeded, persistAccountCredentials, UpdateAccount): no
\* interleaving of refreshers and manual refreshes replaces it by an older one.
THEOREM NoTokenIsOverwritten == Spec => []LiveTokenIsKept
<1>1. IInv => LiveTokenIsKept
  BY DEF IInv
<1> QED BY <1>1, Invariance, PTL

\* A worker puts an account in error only when its token is dead, unless the lock or a
\* read failed, the provider refused a live token, a manual refresh overlapped or an edit
\* put older credentials back (RefreshIfNeeded, refreshWithRetry).
THEOREM OnlyDeadAccountsFail == Spec => []ErrorIsGenuine
<1>1. Typed /\ IInv => ErrorIsGenuine
  <2> SUFFICES ASSUME Typed, IInv, status = "error", db.tok = live PROVE losses > 0 \/ excuse
    BY DEF ErrorIsGenuine
  <2>1. lost = TRUE \/ Excused
    BY DEF IInv, Condemned
  <2>2. lost # TRUE \/ Excused
    <3>1. ~(db.tok < live)
      BY Numbers
    <3>2. Hidden => db.tok < live
      BY DEF IInv, Coherent, Known
    <3> QED BY <3>1, <3>2 DEF Hidden
  <2>3. excuse = TRUE => excuse
    OBVIOUS
  <2> QED BY <2>1, <2>2, <2>3 DEF Excused
<1> QED BY <1>1, Invariance, PTL

\* One refresher per process is inside RefreshIfNeeded's locks, and in all one more than
\* the lock was lost, although whoever ends deletes the lock without an owner check.
THEOREM RefreshersAreFenced == Spec => []OneRefresher
<1>1. Typed /\ IInv => OneRefresher
  <2> SUFFICES ASSUME Typed, IInv PROVE OneRefresher
    OBVIOUS
  <2>1. ASSUME NEW p \in Processes PROVE Cardinality({t \in Inside : Proc(t) = p}) <= 1
    <3> DEFINE S == {t \in Inside : Proc(t) = p}
    <3>1. S \subseteq {mutex[p]}
      BY DEF Inside, IInv, MutexHeld, Guarded
    <3>2. IsFiniteSet({mutex[p]}) /\ Cardinality({mutex[p]}) = 1
      BY FS_Singleton
    <3>3. Cardinality(S) <= Cardinality({mutex[p]})
      BY <3>1, <3>2, FS_Subset
    <3> QED BY <3>2, <3>3
  <2>2. Inside \subseteq Zombies \union {lock}
    BY DEF Inside, Zombies
  <2>3. IsFiniteSet(Zombies)
    BY ThreadAssumption, FS_Subset DEF Zombies, Threads
  <2>4. Cardinality(Zombies) \in Nat
    BY <2>3, FS_CardinalityType
  <2>5. IsFiniteSet(Zombies \union {lock}) /\ Cardinality(Zombies \union {lock}) <= Cardinality(Zombies) + 1
    BY <2>3, <2>4, FS_AddElement
  <2>6. IsFiniteSet(Inside) /\ Cardinality(Inside) <= Cardinality(Zombies \union {lock})
    BY <2>2, <2>5, FS_Subset
  <2>7. Cardinality(Inside) \in Nat /\ Cardinality(Zombies \union {lock}) \in Nat /\ losses \in Nat
    BY <2>5, <2>6, FS_CardinalityType, TypeParts, RefreshBoundAssumption DEF CountsOK
  <2>8. \A i, u, z, l \in Nat : i <= u /\ u <= z + 1 /\ z <= l => i <= 1 + l
    OBVIOUS
  <2>9. Cardinality(Inside) <= 1 + losses
    BY <2>4, <2>5, <2>6, <2>7, <2>8 DEF IInv, Fenced
  <2> QED BY <2>1, <2>9 DEF OneRefresher
<1> QED BY <1>1, Invariance, PTL

\* A stale cached token is about to be deleted or replaced by the thread that stored the
\* new one, or an invalidation raced or failed, or an edit put older credentials back
\* (postRefreshActions, CheckTokenVersion, UpdateAccount).
THEOREM StaleTokensAreRepaired == Spec => []StaleCacheIsExplained
<1>1. Typed /\ IInv => StaleCacheIsExplained
  <2> SUFFICES ASSUME Typed, IInv PROVE StaleCacheIsExplained
    OBVIOUS
  <2>1. \A t \in Threads : Repairs(t) => WillRepair(t)
    BY DEF Repairs, WillRepair
  <2>2. raced = TRUE => raced
    OBVIOUS
  <2> QED BY <2>1, <2>2 DEF IInv, RepairPending, StaleCacheIsExplained
<1> QED BY <1>1, Invariance, PTL
=============================================================================
