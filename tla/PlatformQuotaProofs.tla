------------------------ MODULE PlatformQuotaProofs ------------------------
(***************************************************************************)
(* Proofs about the platform quota: without the flusher the row shows what *)
(* was spent, with it an entry that is ahead of the row is marked, and the *)
(* entry that decides admission misses no cost but those counted.          *)
(***************************************************************************)
EXTENDS PlatformQuota, FiniteSetTheorems, TLAPS

\* An entry, whatever the bounds on days and costs
Row == [usage : Nat, win : Nat \union {None}]

\* What an entry says of day d, and that it was not opened after it
UsageOn(e, d) == IF e.win = None THEN 0 ELSE IF e.win < d THEN 0 ELSE e.usage
Opened(e, d)  == e.win = None \/ e.win <= d

RequestsOK == pc \in [Requests -> Steps] /\ val \in [Requests -> Row] /\ stamp \in [Requests -> Nat]
FlushersOK == fpc \in [Flushers -> {"idle", "read", "write", "readd"}] /\ snap \in [Flushers -> Row]
FlagsOK    == /\ flusher \in BOOLEAN /\ dirty \in BOOLEAN /\ resetting \in BOOLEAN
              /\ late \in BOOLEAN /\ failed \in BOOLEAN /\ unmarked \in BOOLEAN
CountsOK   == day \in Nat /\ served \in Nat /\ missed \in Nat /\ spent \in Int
Typed      == db \in Row /\ cache \in Row \union {None} /\ RequestsOK /\ FlushersOK /\ FlagsOK /\ CountsOK

\* No window and no stamp is of a day to come
Dated ==
    /\ Opened(db, day) /\ (cache # None => Opened(cache, day))
    /\ \A r \in Requests : Opened(val[r], day) /\ stamp[r] <= day
    /\ \A f \in Flushers : Opened(snap[f], day)

AllIdle == \A f \in Flushers : fpc[f] = "idle"

\* Costs go to the row by goroutines or by the flusher, never by both
OneWay ==
    /\ flusher = TRUE => Pending = {}
    /\ flusher # TRUE => dirty # TRUE /\ AllIdle

Booked == flusher # TRUE /\ late # TRUE /\ failed # TRUE => UsageOn(db, day) + Cardinality(Pending) = spent

\* With the costs counted as missed, whatever is the entry or may become it shows
\* what was served: the entry, the values about to be written to it, and the row
\* it will be filled from
Covers(e) == UsageOn(e, day) + missed >= served
Shown ==
    /\ cache # None => Covers(cache)
    /\ \A r \in Requests : pc[r] = "set" => Covers(val[r])
    /\ flusher = TRUE /\ cache = None => Covers(db)
    /\ flusher # TRUE => UsageOn(db, day) + Cardinality(Fresh) + missed >= served

\* What the entry shows, the row shows or will
Within(e) == UsageOn(cache, day) <= UsageOn(e, day)
Marked ==
    flusher = TRUE /\ cache # None /\ resetting # TRUE /\ unmarked # TRUE =>
        \/ Within(db) \/ dirty = TRUE
        \/ \E f \in Flushers : fpc[f] \in {"read", "readd"}
        \/ \E f \in Flushers : fpc[f] = "write" /\ Within(snap[f])

IInv == Dated /\ OneWay /\ Booked /\ Shown /\ Marked

----------------------------------------------------------------------------
(* Entries and their windows                                               *)

LEMMA NoneIsNoRow == None \notin Row /\ None \notin Nat
BY QuotaBoundAssumption DEF Row

\* What an entry says of a day, and what is left of it after midnight.
LEMMA UsageFacts ==
    ASSUME NEW e \in Row, NEW d \in Nat
    PROVE  /\ UsageOn(e, d) \in Nat
           /\ Opened(e, d) => UsageOn(e, d + 1) = 0 /\ Opened(e, d + 1)
           /\ e.win \in Nat \union {None} /\ e.usage \in Nat
BY NoneIsNoRow DEF Row, UsageOn, Opened

\* quotaWindowExpired in terms of UsageOn.
LEMMA ExpiredFacts ==
    ASSUME NEW e \in Row, day \in Nat
    PROVE  /\ Expired(e.win) => UsageOn(e, day) = 0
           /\ ~Expired(e.win) => UsageOn(e, day) = e.usage /\ e.win # None
           /\ Today(e) = UsageOn(e, day)
BY NoneIsNoRow DEF Row, UsageOn, Expired, Today

\* The row of a request that finds nothing: no usage, today's window.
LEMMA FreshRow ==
    ASSUME NEW d \in Nat, NEW u \in Nat, NEW w \in Nat \union {None}
    PROVE  LET e == [usage |-> u, win |-> w] IN
           /\ e \in Row /\ e.usage = u /\ e.win = w
           /\ w = d => UsageOn(e, d) = u /\ Opened(e, d)
           /\ u = 0 => UsageOn(e, d) = 0
           /\ w = None => UsageOn(e, d) = 0 /\ Opened(e, d)
BY NoneIsNoRow DEF Row, UsageOn, Opened

LEMMA NoEntryRow == NoEntry \in Row /\ \A d \in Nat : UsageOn(NoEntry, d) = 0 /\ Opened(NoEntry, d)
BY FreshRow DEF NoEntry, Row, UsageOn, Opened

\* The script adds 1 to an entry and leaves its window.
LEMMA AddedRow ==
    ASSUME NEW e \in Row, NEW d \in Nat
    PROVE  /\ Added(e) \in Row /\ (Opened(e, d) => Opened(Added(e), d))
           /\ UsageOn(Added(e), d) = UsageOn(e, d) + 1 \/ UsageOn(Added(e), d) = UsageOn(e, d)
           /\ UsageOn(Added(e), d) = UsageOn(e, d) => UsageOn(e, d) = 0
           /\ (e.win \in Nat /\ ~(e.win < d)) => UsageOn(Added(e), d) = UsageOn(e, d) + 1
BY NoneIsNoRow DEF Row, UsageOn, Opened, Added

\* What Load makes of the row says the same of today.
LEMMA LoadedRow ==
    ASSUME NEW e \in Row, NEW d \in Nat, NEW u \in Nat, u = UsageOn(e, d)
    PROVE  LET v == [usage |-> u, win |-> e.win] IN
           v \in Row /\ UsageOn(v, d) = u /\ (Opened(e, d) => Opened(v, d))
BY NoneIsNoRow DEF Row, UsageOn, Opened

\* The parts of the type invariant, before and after a step.
LEMMA TypeParts ==
    /\ Typed => /\ db \in Row /\ cache \in Row \union {None} /\ RequestsOK /\ FlushersOK /\ FlagsOK /\ CountsOK
                /\ day \in Nat /\ served \in Nat /\ missed \in Nat /\ spent \in Int
                /\ \A r \in Requests : pc[r] \in Steps /\ val[r] \in Row /\ stamp[r] \in Nat
                /\ \A f \in Flushers : fpc[f] \in {"idle", "read", "write", "readd"} /\ snap[f] \in Row
    /\ db' \in Row /\ cache' \in Row \union {None} /\ RequestsOK' /\ FlushersOK' /\ FlagsOK' /\ CountsOK' => Typed'
BY DEF Typed, RequestsOK, FlushersOK, CountsOK

\* A request moves: its step changes, the others' do not.
LEMMA GotoFacts ==
    ASSUME Typed, NEW r \in Requests, NEW s \in Steps, Goto(r, s)
    PROVE  /\ pc' \in [Requests -> Steps] /\ pc'[r] = s
           /\ \A q \in Requests : q # r => pc'[q] = pc[q]
           /\ \A q \in Requests : pc'[q] = IF q = r THEN s ELSE pc[q]
BY TypeParts DEF Goto, RequestsOK

\* A request outside the goroutine's steps has no part in the costs under way.
LEMMA PendingSame ==
    ASSUME Typed, NEW r \in Requests, NEW s \in Steps, Goto(r, s),
           pc[r] \notin {"spawn", "persist"}, s \notin {"spawn", "persist"}, UNCHANGED <<stamp, day>>
    PROVE  Pending' = Pending /\ Fresh' = Fresh
<1>1. Pending' = Pending
  BY GotoFacts DEF Pending
<1>2. \A q \in Pending : q \in Requests /\ pc'[q] = pc[q]
  BY GotoFacts DEF Pending
<1> QED BY <1>1, <1>2 DEF Fresh

LEMMA FiniteCosts ==
    /\ IsFiniteSet(Pending) /\ Cardinality(Pending) \in Nat /\ Fresh \subseteq Pending
    /\ IsFiniteSet(Fresh) /\ Cardinality(Fresh) \in Nat
    /\ Pending = {} => Cardinality(Fresh) = 0
<1>1. Pending \subseteq Requests /\ Fresh \subseteq Pending
  BY DEF Pending, Fresh
<1>2. IsFiniteSet(Pending)
  BY <1>1, QuotaBoundAssumption, FS_Subset
<1>3. IsFiniteSet(Fresh) /\ (Pending = {} => Fresh = {})
  BY <1>1, <1>2, FS_Subset
<1> QED BY <1>1, <1>2, <1>3, FS_CardinalityType, FS_EmptySet

\* What one entry shows beyond another.
LEMMA ExcessFacts ==
    ASSUME NEW d \in Row, NEW e \in Row, day \in Nat
    PROVE  Excess(d, e) \in Nat /\ UsageOn(d, day) <= UsageOn(e, day) + Excess(d, e)
<1>1. Today(d) = UsageOn(d, day) /\ Today(e) = UsageOn(e, day)
  BY ExpiredFacts
<1>2. UsageOn(d, day) \in Nat /\ UsageOn(e, day) \in Nat
  BY UsageFacts
<1> QED BY <1>1, <1>2 DEF Excess

\* Counting n costs as missed makes up for n that are not shown any more.
LEMMA MissFacts ==
    ASSUME missed \in Nat, served \in Nat, NEW n \in Nat, Miss(n)
    PROVE  /\ missed' \in Nat
           /\ \A u, w \in Nat : u + missed >= served /\ u <= w + n => w + missed' >= served
           /\ \A u \in Nat : u + missed >= served => u + missed' >= served
BY DEF Miss

----------------------------------------------------------------------------
(* Admission                                                               *)

\* A step of admission: the request judges, prepares an entry or writes the one it prepared.
LEMMA AdmissionKept ==
    ASSUME Typed, IInv, NEW r \in Requests, NEW s \in Steps, Goto(r, s),
           pc[r] \notin {"spawn", "persist"}, s \notin {"spawn", "persist"},
           UNCHANGED <<flusher, day, db, dirty, stamp, flush, resetting, served, spent, late, failed>>,
           val' \in [Requests -> Row], Opened(val'[r], day),
           \A q \in Requests : q # r => val'[q] = val[q],
           missed' \in Nat, unmarked' \in BOOLEAN,
           \A u \in Nat : u + missed >= served => u + missed' >= served,
           cache' = cache \/ (cache' = val[r] /\ pc[r] = "set"),
           unmarked' # TRUE => unmarked # TRUE,
           cache' # cache /\ unmarked' # TRUE /\ flusher = TRUE => UsageOn(val[r], day) <= UsageOn(db, day) \/ dirty = TRUE,
           s = "set" => UsageOn(val'[r], day) + missed' >= served
    PROVE  Typed' /\ IInv'
<1>1. /\ pc' \in [Requests -> Steps] /\ pc'[r] = s
      /\ \A q \in Requests : q # r => pc'[q] = pc[q]
  BY GotoFacts
<1>2. cache' \in Row \union {None} /\ val[r] \in Row /\ (cache' = None => cache = None)
  BY TypeParts, NoneIsNoRow
<1>3. FlagsOK'
  BY TypeParts, Zenon DEF FlagsOK
<1>4. Typed'
  BY <1>1, <1>2, <1>3, TypeParts DEF RequestsOK, FlushersOK, CountsOK, flush
<1>5. Pending' = Pending /\ Fresh' = Fresh
  BY PendingSame
<1>6. Dated'
  BY <1>1, TypeParts DEF IInv, Dated, flush
<1>7. OneWay' /\ Booked'
  BY <1>5 DEF IInv, OneWay, Booked, AllIdle, flush
<1>8. Shown'
  <2>1. Shown
    BY DEF IInv
  <2>2. \A e \in Row : Covers(e) => UsageOn(e, day) + missed' >= served
    BY TypeParts, UsageFacts DEF Covers
  <2>3. cache' # None => UsageOn(cache', day) + missed' >= served
    BY <1>2, <2>1, <2>2, TypeParts DEF Shown
  <2>4. \A q \in Requests : pc'[q] = "set" => UsageOn(val'[q], day) + missed' >= served
    BY <1>1, <2>1, <2>2, TypeParts DEF Shown
  <2>5. flusher = TRUE /\ cache' = None => UsageOn(db, day) + missed' >= served
    BY <1>2, <2>1, <2>2, TypeParts DEF Shown
  <2>6. flusher # TRUE => UsageOn(db, day) + Cardinality(Fresh) + missed' >= served
    <3>1. UsageOn(db, day) + Cardinality(Fresh) \in Nat
      BY TypeParts, UsageFacts, FiniteCosts
    <3> QED BY <2>1, <3>1 DEF Shown
  <2> QED BY <1>5, <2>3, <2>4, <2>5, <2>6 DEF Shown, Covers
<1>9. Marked'
  <2>1. Marked
    BY DEF IInv
  <2>2. CASE cache' = cache
    BY <2>1, <2>2 DEF Marked, Within, flush
  <2>3. CASE cache' # cache
    BY <2>3 DEF Marked, Within, flush
  <2> QED BY <2>2, <2>3
<1> QED BY <1>4, <1>6, <1>7, <1>8, <1>9 DEF IInv

\* What was covered stays covered when nothing is counted.
LEMMA NoneMissed ==
    ASSUME Typed, missed' = missed, unmarked' = unmarked
    PROVE  /\ missed' \in Nat /\ unmarked' \in BOOLEAN /\ (unmarked' # TRUE => unmarked # TRUE)
           /\ \A u \in Nat : u + missed >= served => u + missed' >= served
<1>1. unmarked' \in BOOLEAN
  BY TypeParts, Zenon DEF FlagsOK
<1> QED BY <1>1, TypeParts

\* checkUserPlatformQuotaEligibility on a hit, a miss and an error.
LEMMA GetKept ==
    ASSUME Typed, IInv, NEW r \in Requests, Get(r)
    PROVE  Typed' /\ IInv'
<1>1. missed' = missed /\ unmarked' = unmarked
  BY DEF Get, ghost
<1>2. /\ pc[r] = "idle" /\ cache' = cache
      /\ UNCHANGED <<flusher, day, db, dirty, stamp, flush, resetting, served, spent, late, failed>>
  BY DEF Get, ghost
<1>3. val \in [Requests -> Row] /\ Opened(val[r], day)
  BY TypeParts DEF RequestsOK, IInv, Dated
<1>4. CASE val' = val /\ \E s \in {"serving", "idle", "load", "peek"} : Goto(r, s)
  <2>1. PICK s \in {"serving", "idle", "load", "peek"} : Goto(r, s)
    BY <1>4
  <2>2. s \in Steps /\ s # "set" /\ s \notin {"spawn", "persist"}
    BY DEF Steps
  <2> QED BY <1>1, <1>2, <1>3, <1>4, <2>1, <2>2, NoneMissed, AdmissionKept
<1>5. CASE cache # None /\ Expired(cache.win) /\ Goto(r, "set") /\ val' = [val EXCEPT ![r] = [usage |-> 0, win |-> day]]
  <2> DEFINE e == [usage |-> 0, win |-> day]
  <2>1. e \in Row /\ UsageOn(e, day) = 0 /\ Opened(e, day)
    BY FreshRow, TypeParts
  <2>2. val' \in [Requests -> Row] /\ val'[r] = e /\ \A q \in Requests : q # r => val'[q] = val[q]
    BY <1>3, <1>5, <2>1
  <2>3. UsageOn(e, day) + missed >= served
    <3>1. cache \in Row /\ UsageOn(cache, day) = 0
      BY <1>5, TypeParts, ExpiredFacts
    <3> QED BY <1>5, <2>1, <3>1 DEF IInv, Shown, Covers
  <2>4. "set" \in Steps /\ "set" \notin {"spawn", "persist"} /\ pc[r] \notin {"spawn", "persist"}
    BY <1>2 DEF Steps
  <2> HIDE DEF e
  <2> QED BY <1>1, <1>2, <1>5, <2>1, <2>2, <2>3, <2>4, NoneMissed, AdmissionKept
<1> QED BY <1>4, <1>5 DEF Get, Judge

\* What a fill from the row does not show is counted.
LEMMA LoadCovers ==
    ASSUME Typed, IInv, Miss(IF flusher /\ cache # None THEN Excess(cache, db) ELSE Cardinality(Fresh))
    PROVE  /\ missed' \in Nat /\ UsageOn(db, day) + missed' >= served
           /\ \A u \in Nat : u + missed >= served => u + missed' >= served
<1>1. flusher \in BOOLEAN
  BY TypeParts, Zenon DEF FlagsOK
<1>2. UsageOn(db, day) \in Nat /\ Cardinality(Fresh) \in Nat /\ missed \in Nat /\ served \in Nat /\ day \in Nat
  BY TypeParts, UsageFacts, FiniteCosts
<1>3. CASE flusher = TRUE /\ cache # None
  <2>1. Miss(Excess(cache, db))
    BY <1>3
  <2>2. cache \in Row /\ db \in Row /\ UsageOn(cache, day) \in Nat
    BY <1>2, <1>3, TypeParts, UsageFacts
  <2>3. Excess(cache, db) \in Nat /\ UsageOn(cache, day) <= UsageOn(db, day) + Excess(cache, db)
    BY <1>2, <2>2, ExcessFacts
  <2>4. UsageOn(cache, day) + missed >= served
    BY <1>3 DEF IInv, Shown, Covers
  <2> QED BY <1>2, <2>1, <2>2, <2>3, <2>4, MissFacts
<1>4. CASE ~(flusher = TRUE /\ cache # None)
  <2>1. Miss(Cardinality(Fresh))
    BY <1>1, <1>4
  <2>2. UsageOn(db, day) + Cardinality(Fresh) + missed >= served
    <3>1. CASE flusher = TRUE
      BY <1>2, <1>4, <3>1 DEF IInv, Shown, Covers
    <3>2. CASE flusher # TRUE
      BY <3>2 DEF IInv, Shown
    <3> QED BY <3>1, <3>2
  <2>3. UsageOn(db, day) + Cardinality(Fresh) \in Nat
        /\ UsageOn(db, day) + Cardinality(Fresh) <= UsageOn(db, day) + Cardinality(Fresh)
    BY <1>2
  <2> QED BY <1>2, <2>1, <2>2, <2>3, MissFacts
<1> QED BY <1>3, <1>4

\* getUserPlatformQuota reads the row.
LEMMA LoadKept ==
    ASSUME Typed, IInv, NEW r \in Requests, Load(r)
    PROVE  Typed' /\ IInv'
<1>1. unmarked' \in BOOLEAN /\ (unmarked' # TRUE => unmarked # TRUE)
  BY TypeParts, Zenon DEF Load, FlagsOK
<1>2. /\ pc[r] = "load" /\ cache' = cache /\ pc[r] \notin {"spawn", "persist"} /\ unmarked' = unmarked
      /\ UNCHANGED <<flusher, day, db, dirty, stamp, flush, resetting, served, spent, late, failed>>
  BY DEF Load
<1>3. val \in [Requests -> Row] /\ Opened(val[r], day)
  BY TypeParts DEF RequestsOK, IInv, Dated
<1>4. /\ "serving" \in Steps /\ "set" \in Steps /\ "serving" # "set"
      /\ "serving" \notin {"spawn", "persist"} /\ "set" \notin {"spawn", "persist"}
  BY DEF Steps
<1>5. CASE Goto(r, "serving") /\ val' = val /\ missed' = missed
  BY <1>2, <1>3, <1>4, <1>5, NoneMissed, AdmissionKept
<1>6. CASE /\ Goto(r, "set") /\ val' = [val EXCEPT ![r] = [usage |-> Today(db), win |-> db.win]]
           /\ Miss(IF flusher /\ cache # None THEN Excess(cache, db) ELSE Cardinality(Fresh))
  <2> DEFINE e == [usage |-> Today(db), win |-> db.win]
  <2>1. db \in Row /\ day \in Nat /\ Today(db) = UsageOn(db, day) /\ UsageOn(db, day) \in Nat
    BY TypeParts, ExpiredFacts, UsageFacts
  <2>2. e \in Row /\ UsageOn(e, day) = UsageOn(db, day) /\ Opened(e, day)
    <3>1. Opened(db, day)
      BY DEF IInv, Dated
    <3> QED BY <2>1, <3>1, LoadedRow
  <2>3. val' \in [Requests -> Row] /\ val'[r] = e /\ \A q \in Requests : q # r => val'[q] = val[q]
    BY <1>3, <1>6, <2>2
  <2>4. /\ missed' \in Nat /\ UsageOn(db, day) + missed' >= served
        /\ \A u \in Nat : u + missed >= served => u + missed' >= served
    BY <1>6, LoadCovers
  <2> HIDE DEF e
  <2> QED BY <1>1, <1>2, <1>4, <1>6, <2>2, <2>3, <2>4, AdmissionKept
<1> QED BY <1>5, <1>6 DEF Load

\* With Redis down the row decides.
LEMMA PeekKept ==
    ASSUME Typed, IInv, NEW r \in Requests, Peek(r)
    PROVE  Typed' /\ IInv'
<1>1. missed' = missed /\ unmarked' = unmarked
  BY DEF Peek, ghost
<1>2. /\ pc[r] \notin {"spawn", "persist"} /\ cache' = cache /\ val' = val
      /\ UNCHANGED <<flusher, day, db, dirty, stamp, flush, resetting, served, spent, late, failed>>
  BY DEF Peek, ghost
<1>3. val \in [Requests -> Row] /\ Opened(val[r], day)
  BY TypeParts DEF RequestsOK, IInv, Dated
<1>4. PICK s \in {"serving", "idle"} : Goto(r, s)
  BY DEF Peek, Judge
<1>5. s \in Steps /\ s # "set" /\ s \notin {"spawn", "persist"}
  BY DEF Steps
<1> QED BY <1>1, <1>2, <1>3, <1>4, <1>5, NoneMissed, AdmissionKept

\* SetUserPlatformQuotaCache overwrites the entry, or fails.
LEMMA SetCacheKept ==
    ASSUME Typed, IInv, NEW r \in Requests, SetCache(r)
    PROVE  Typed' /\ IInv'
<1>1. missed' = missed /\ missed' \in Nat /\ \A u \in Nat : u + missed >= served => u + missed' >= served
  BY TypeParts DEF SetCache
<1>2. /\ pc[r] = "set" /\ pc[r] \notin {"spawn", "persist"} /\ (cache' = cache \/ cache' = val[r])
      /\ UNCHANGED <<flusher, day, db, dirty, stamp, flush, resetting, served, spent, late, failed>>
  BY DEF SetCache
<1>3. NoEntry \in Row /\ Opened(NoEntry, day)
  BY TypeParts, NoEntryRow
<1>4. val' \in [Requests -> Row] /\ val'[r] = NoEntry /\ \A q \in Requests : q # r => val'[q] = val[q]
  BY <1>3, TypeParts DEF SetCache, Forget, RequestsOK
<1>5. PICK s \in {"serving", "idle"} : Goto(r, s)
  BY DEF SetCache, Judge
<1>6. s \in Steps /\ s # "set" /\ s \notin {"spawn", "persist"}
  BY DEF Steps
<1>7. /\ unmarked' \in BOOLEAN /\ (unmarked' # TRUE => unmarked # TRUE)
      /\ cache' # cache /\ unmarked' # TRUE /\ flusher = TRUE => ~(Today(val[r]) > Today(db)) \/ dirty = TRUE
  BY TypeParts, Zenon DEF SetCache, Unmark, FlagsOK
<1>8. Today(val[r]) = UsageOn(val[r], day) /\ Today(db) = UsageOn(db, day)
      /\ UsageOn(val[r], day) \in Nat /\ UsageOn(db, day) \in Nat
  BY TypeParts, ExpiredFacts, UsageFacts
<1>9. cache' # cache /\ unmarked' # TRUE /\ flusher = TRUE => UsageOn(val[r], day) <= UsageOn(db, day) \/ dirty = TRUE
  BY <1>7, <1>8
<1> QED BY <1>1, <1>2, <1>3, <1>4, <1>5, <1>6, <1>7, <1>9, AdmissionKept

----------------------------------------------------------------------------
(* Charging                                                                *)

\* A cost that enters or leaves the goroutines changes their number by one.
LEMMA CostCount ==
    ASSUME NEW S, IsFiniteSet(S), NEW r
    PROVE  /\ r \notin S => Cardinality(S \union {r}) = Cardinality(S) + 1
           /\ r \in S => Cardinality(S \ {r}) = Cardinality(S) - 1
           /\ r \notin S => Cardinality(S \ {r}) = Cardinality(S)
           /\ Cardinality(S) \in Nat /\ Cardinality(S \ {r}) \in Nat
<1>1. Cardinality(S) \in Nat
  BY FS_CardinalityType
<1>2. r \notin S => Cardinality(S \union {r}) = Cardinality(S) + 1
  BY FS_AddElement
<1>3. IsFiniteSet(S \ {r}) /\ Cardinality(S \ {r}) = IF r \in S THEN Cardinality(S) - 1 ELSE Cardinality(S)
  BY FS_RemoveElement
<1>4. Cardinality(S \ {r}) \in Nat
  BY <1>3, FS_CardinalityType
<1> QED BY <1>1, <1>2, <1>3, <1>4

\* The request ends: its cost is served, added to the entry if there is one, and sent to the row.
LEMMA CompleteKept ==
    ASSUME Typed, IInv, NEW r \in Requests, Complete(r)
    PROVE  Typed' /\ IInv'
<1> DEFINE s == IF flusher THEN "idle" ELSE "spawn"
<1>1. /\ pc[r] = "serving" /\ Goto(r, s) /\ served' = served + 1 /\ spent' = spent + 1
      /\ UNCHANGED <<flusher, day, db, val, stamp, flush, resetting, late, failed>>
  BY DEF Complete
<1>2. flusher \in BOOLEAN
  BY TypeParts, Zenon DEF FlagsOK
<1>3. s \in Steps /\ s # "set" /\ s # "persist" /\ (flusher = TRUE => s = "idle") /\ (flusher # TRUE => s = "spawn")
  BY <1>2 DEF Steps
<1> HIDE DEF s
<1>4. /\ pc' \in [Requests -> Steps] /\ pc'[r] = s
      /\ \A q \in Requests : q # r => pc'[q] = pc[q]
  BY <1>1, <1>3, GotoFacts
<1>5. /\ dirty' \in BOOLEAN /\ unmarked' \in BOOLEAN
      /\ flusher # TRUE => dirty' = dirty \/ dirty' # TRUE
      /\ cache' # cache /\ flusher = TRUE => dirty' = TRUE
      /\ cache' # cache \/ (dirty' = dirty /\ unmarked' = unmarked) \/ dirty' = TRUE \/ flusher # TRUE
  BY TypeParts, Zenon DEF Complete, FlagsOK
<1>6. FlagsOK'
  BY <1>1, <1>5, TypeParts, Zenon DEF FlagsOK
<1>7. /\ (cache # None /\ cache' = Added(cache)) \/ cache' = cache
      /\ missed' = missed \/ missed' = missed + 1
  BY TypeParts DEF Complete
<1>8. cache' \in Row \union {None} /\ (cache' # None => Opened(cache', day)) /\ (cache' = None <=> cache = None)
  BY <1>7, TypeParts, AddedRow, NoneIsNoRow DEF IInv, Dated
<1>9. Typed'
  BY <1>1, <1>4, <1>6, <1>7, <1>8, TypeParts DEF RequestsOK, FlushersOK, CountsOK, flush
<1>10. Dated'
  BY <1>1, <1>8 DEF IInv, Dated, flush
<1>11. /\ flusher = TRUE => Pending' = Pending
       /\ flusher # TRUE => Pending' = Pending \union {r} /\ r \notin Pending
  BY <1>1, <1>3, <1>4 DEF Pending
<1>12. flusher # TRUE => Fresh' = Fresh \union {r} /\ r \notin Fresh
  <2> SUFFICES ASSUME flusher # TRUE PROVE Fresh' = Fresh \union {r} /\ r \notin Fresh
    OBVIOUS
  <2>1. Pending' = Pending \union {r} /\ r \notin Pending /\ pc'[r] # "persist"
    BY <1>3, <1>4, <1>11
  <2>2. \A q \in Pending : q # r /\ pc'[q] = pc[q]
    BY <1>4, <2>1 DEF Pending
  <2> QED BY <1>1, <2>1, <2>2 DEF Fresh
<1>13. OneWay'
  BY <1>1, <1>5, <1>11 DEF IInv, OneWay, AllIdle, flush
<1>14. Booked'
  <2>1. flusher # TRUE => Cardinality(Pending') = Cardinality(Pending) + 1
    BY <1>11, FiniteCosts, CostCount
  <2>2. UsageOn(db, day) \in Nat /\ Cardinality(Pending) \in Nat /\ spent \in Int
    BY TypeParts, UsageFacts, FiniteCosts
  <2>3. flusher # TRUE /\ late # TRUE /\ failed # TRUE => UsageOn(db, day) + Cardinality(Pending') = spent'
    BY <1>1, <2>1, <2>2 DEF IInv, Booked
  <2> QED BY <1>1, <2>3 DEF Booked
<1>15. Shown'
  <2>1. /\ cache # None /\ missed' = missed => Overwriting = {} /\ ~Expired(cache.win) /\ cache' = Added(cache)
        /\ missed' = missed => Overwriting = {}
        /\ cache = None /\ missed' = missed => flusher # TRUE
    <3>1. missed \in Nat
      BY TypeParts
    <3>2. missed' = missed => ~Unseen /\ (cache # None => cache' = Added(cache))
      BY <3>1 DEF Complete
    <3>3. ~Unseen => Overwriting = {} /\ (cache = None => flusher # TRUE) /\ (cache # None => ~Expired(cache.win))
      BY <1>2 DEF Unseen
    <3> QED BY <3>2, <3>3
  <2>2. \A e \in Row : Covers(e) /\ missed' = missed + 1 => UsageOn(e, day) + missed' >= served + 1
    BY TypeParts, UsageFacts DEF Covers
  <2>3. cache' # None => UsageOn(cache', day) + missed' >= served + 1
    <3> SUFFICES ASSUME cache' # None PROVE UsageOn(cache', day) + missed' >= served + 1
      OBVIOUS
    <3>1. cache \in Row /\ UsageOn(cache, day) \in Nat /\ cache' \in Row /\ UsageOn(cache', day) \in Nat
          /\ UsageOn(cache, day) + missed >= served
      BY <1>8, TypeParts, UsageFacts DEF IInv, Shown, Covers
    <3>2. UsageOn(Added(cache), day) = UsageOn(cache, day) + 1 \/ UsageOn(Added(cache), day) = UsageOn(cache, day)
      BY <3>1, TypeParts, AddedRow
    <3>3. CASE missed' = missed + 1
      BY <1>7, <3>1, <3>2, <3>3, TypeParts
    <3>4. CASE missed' = missed
      <4>1. cache.win \in Nat /\ ~(cache.win < day) /\ cache' = Added(cache)
        BY <1>8, <2>1, <3>1, <3>4, TypeParts, UsageFacts DEF Expired
      <4>2. UsageOn(cache', day) = UsageOn(cache, day) + 1
        BY <3>1, <4>1, TypeParts, AddedRow
      <4> QED BY <3>1, <3>4, <4>2, TypeParts
    <3> QED BY <1>7, <3>3, <3>4
  <2>4. \A q \in Requests : pc'[q] = "set" => UsageOn(val[q], day) + missed' >= served + 1
    <3> SUFFICES ASSUME NEW q \in Requests, pc'[q] = "set" PROVE UsageOn(val[q], day) + missed' >= served + 1
      OBVIOUS
    <3>1. pc[q] = "set" /\ q \in Overwriting
      BY <1>3, <1>4 DEF Overwriting
    <3>2. missed' = missed + 1 /\ Covers(val[q]) /\ val[q] \in Row
      BY <1>7, <2>1, <3>1, TypeParts DEF IInv, Shown
    <3> QED BY <2>2, <3>2
  <2>5. flusher = TRUE /\ cache' = None => UsageOn(db, day) + missed' >= served + 1
    BY <1>7, <1>8, <2>1, <2>2, TypeParts DEF IInv, Shown
  <2>6. flusher # TRUE => UsageOn(db, day) + Cardinality(Fresh') + missed' >= served + 1
    <3> SUFFICES ASSUME flusher # TRUE PROVE UsageOn(db, day) + Cardinality(Fresh') + missed' >= served + 1
      OBVIOUS
    <3>1. Cardinality(Fresh') = Cardinality(Fresh) + 1
      BY <1>12, FiniteCosts, CostCount
    <3>2. UsageOn(db, day) + Cardinality(Fresh) + missed >= served
      BY DEF IInv, Shown
    <3>3. UsageOn(db, day) \in Nat /\ Cardinality(Fresh) \in Nat /\ missed \in Nat /\ served \in Nat
      BY TypeParts, UsageFacts, FiniteCosts
    <3> QED BY <1>7, <3>1, <3>2, <3>3
  <2> QED BY <1>1, <2>3, <2>4, <2>5, <2>6 DEF Shown, Covers
<1>16. Marked'
  <2>1. CASE flusher = TRUE /\ dirty' # TRUE
    <3>1. cache' = cache /\ dirty' = dirty /\ unmarked' = unmarked
      BY <1>5, <2>1
    <3> QED BY <1>1, <3>1 DEF IInv, Marked, Within, flush
  <2>2. CASE flusher # TRUE \/ dirty' = TRUE
    BY <1>1, <2>2 DEF Marked
  <2> QED BY <2>1, <2>2
<1> QED BY <1>9, <1>10, <1>13, <1>14, <1>15, <1>16 DEF IInv

\* The goroutine takes the time.
LEMMA SpawnKept ==
    ASSUME Typed, IInv, NEW r \in Requests, Spawn(r)
    PROVE  Typed' /\ IInv'
<1>1. /\ pc[r] = "spawn" /\ Goto(r, "persist") /\ stamp' = [stamp EXCEPT ![r] = day]
      /\ UNCHANGED <<flusher, day, db, cache, dirty, val, flush, resetting, served, spent, late, failed, missed, unmarked>>
  BY DEF Spawn, ghost
<1>2. "persist" \in Steps
  BY DEF Steps
<1>3. /\ pc' \in [Requests -> Steps] /\ pc'[r] = "persist"
      /\ \A q \in Requests : q # r => pc'[q] = pc[q]
  BY <1>1, <1>2, GotoFacts
<1>4. stamp' \in [Requests -> Nat] /\ stamp'[r] = day /\ \A q \in Requests : q # r => stamp'[q] = stamp[q]
  BY <1>1, TypeParts DEF RequestsOK
<1>5. FlagsOK'
  BY <1>1, TypeParts, Zenon DEF FlagsOK
<1>6. Typed'
  BY <1>1, <1>3, <1>4, <1>5, TypeParts DEF RequestsOK, FlushersOK, CountsOK, flush
<1>7. Pending' = Pending /\ r \in Pending
  BY <1>1, <1>3 DEF Pending
<1>8. ~(day < day)
  BY TypeParts
<1>9. Fresh' = Fresh
  <2>1. \A q \in Pending : q # r => pc'[q] = pc[q] /\ stamp'[q] = stamp[q]
    BY <1>3, <1>4 DEF Pending
  <2> QED BY <1>1, <1>3, <1>4, <1>7, <1>8, <2>1 DEF Fresh
<1>10. Dated'
  BY <1>1, <1>4, TypeParts DEF IInv, Dated, flush
<1>11. OneWay' /\ Booked'
  BY <1>1, <1>7 DEF IInv, OneWay, Booked, AllIdle, flush
<1>12. \A q \in Requests : pc'[q] = "set" <=> pc[q] = "set"
  BY <1>1, <1>3
<1>13. Shown'
  BY <1>1, <1>9, <1>12 DEF IInv, Shown, Covers
<1>14. Marked'
  BY <1>1 DEF IInv, Marked, Within, flush
<1> QED BY <1>6, <1>10, <1>11, <1>13, <1>14 DEF IInv

\* Where a cost stamped on day `on' leaves the row, read on day d.
LEMMA IncrementedRow ==
    ASSUME db \in Row, NEW on \in Nat, NEW d \in Nat, on <= d, Opened(db, d)
    PROVE  /\ Incremented(on) \in Row /\ Opened(Incremented(on), d)
           /\ on = d => UsageOn(Incremented(on), d) = UsageOn(db, d) + 1
           /\ on < d => UsageOn(Incremented(on), d) = 0
           /\ on < d /\ ~(db.win # None /\ on < db.win) => UsageOn(db, d) = 0
<1>1. db.win \in Nat \union {None} /\ db.usage \in Nat
  BY UsageFacts
<1> DEFINE e == [usage |-> IF db.win = on THEN db.usage + 1 ELSE 1, win |-> on]
<1>2. e \in Row /\ e.win = on /\ e.usage = IF db.win = on THEN db.usage + 1 ELSE 1
  BY <1>1 DEF Row
<1>3. Incremented(on) = e
  BY DEF Incremented
<1> HIDE DEF e
<1>4. Opened(e, d) /\ UsageOn(e, d) = IF on < d THEN 0 ELSE e.usage
  BY <1>2, NoneIsNoRow DEF Opened, UsageOn
<1>5. on = d => UsageOn(e, d) = UsageOn(db, d) + 1
  BY <1>1, <1>2, <1>4, NoneIsNoRow DEF UsageOn, Opened
<1>6. on < d /\ ~(db.win # None /\ on < db.win) => UsageOn(db, d) = 0
  BY <1>1, <1>4, NoneIsNoRow DEF UsageOn
<1> QED BY <1>2, <1>3, <1>4, <1>5, <1>6

\* IncrementUsageWithReset, or its failure.
LEMMA PersistKept ==
    ASSUME Typed, IInv, NEW r \in Requests, Persist(r)
    PROVE  Typed' /\ IInv'
<1>1. /\ pc[r] = "persist" /\ Goto(r, "idle") /\ stamp' = [stamp EXCEPT ![r] = 0]
      /\ UNCHANGED <<flusher, day, cache, dirty, val, flush, resetting, served, unmarked>>
  BY DEF Persist
<1>2. "idle" \in Steps
  BY DEF Steps
<1>3. /\ pc' \in [Requests -> Steps] /\ pc'[r] = "idle"
      /\ \A q \in Requests : q # r => pc'[q] = pc[q]
  BY <1>1, <1>2, GotoFacts
<1>4. stamp' \in [Requests -> Nat] /\ stamp'[r] = 0 /\ \A q \in Requests : q # r => stamp'[q] = stamp[q]
  BY <1>1, TypeParts DEF RequestsOK
<1>5. /\ late' \in BOOLEAN /\ failed' \in BOOLEAN
      /\ (late' # TRUE => late # TRUE) /\ (failed' # TRUE => failed # TRUE)
  BY TypeParts, Zenon DEF Persist, FlagsOK
<1>6. FlagsOK'
  BY <1>1, <1>5, TypeParts, Zenon DEF FlagsOK
<1>7. r \in Pending /\ flusher # TRUE
  BY <1>1 DEF Pending, IInv, OneWay
<1>8. Pending' = Pending \ {r}
  BY <1>1, <1>3 DEF Pending
<1>9. Fresh' = Fresh \ {r} /\ (r \in Fresh <=> ~(stamp[r] < day))
  <2>1. \A q \in Pending \ {r} : pc'[q] = pc[q] /\ stamp'[q] = stamp[q]
    BY <1>3, <1>4 DEF Pending
  <2> QED BY <1>1, <1>7, <1>8, <2>1 DEF Fresh
<1>10. /\ stamp[r] \in Nat /\ day \in Nat /\ stamp[r] <= day /\ db \in Row /\ Opened(db, day)
       /\ spent \in Int /\ served \in Nat /\ missed \in Nat /\ UsageOn(db, day) \in Nat /\ Today(db) = UsageOn(db, day)
  BY TypeParts, UsageFacts, ExpiredFacts DEF IInv, Dated
<1> DEFINE e == Incremented(stamp[r])
<1>11. /\ e \in Row /\ Opened(e, day)
       /\ stamp[r] = day => UsageOn(e, day) = UsageOn(db, day) + 1
       /\ stamp[r] < day => UsageOn(e, day) = 0
       /\ stamp[r] < day /\ ~(db.win # None /\ stamp[r] < db.win) => UsageOn(db, day) = 0
  BY <1>10, IncrementedRow
<1>12. /\ Cardinality(Pending') = Cardinality(Pending) - 1 /\ Cardinality(Pending) \in Nat
       /\ Cardinality(Fresh) \in Nat /\ Cardinality(Fresh') \in Nat
       /\ Cardinality(Fresh') = IF stamp[r] < day THEN Cardinality(Fresh) ELSE Cardinality(Fresh) - 1
  BY <1>7, <1>8, <1>9, FiniteCosts, CostCount
<1>13. \/ db' = e /\ spent' = (IF stamp[r] < day THEN spent - 1 ELSE spent) /\ Miss(IF stamp[r] < day THEN Today(db) ELSE 0)
       \/ db' = db /\ spent' = spent /\ Miss(IF stamp[r] < day THEN 0 ELSE 1)
  BY DEF Persist
<1>14. failed' # TRUE => db' = e /\ spent' = IF stamp[r] < day THEN spent - 1 ELSE spent
  BY DEF Persist
<1>15. late' # TRUE /\ failed' # TRUE => ~(db.win # None /\ stamp[r] < db.win)
  BY TypeParts, Zenon DEF Persist, FlagsOK
<1> HIDE DEF e
<1>16. PICK n \in Nat : Miss(n) /\ UsageOn(db, day) + Cardinality(Fresh) <= UsageOn(db', day) + Cardinality(Fresh') + n
  <2>1. CASE stamp[r] < day
    <3>1. CASE db' = e /\ Miss(Today(db))
      <4>1. UsageOn(db, day) + Cardinality(Fresh) <= UsageOn(db', day) + Cardinality(Fresh') + UsageOn(db, day)
        BY <1>10, <1>11, <1>12, <2>1, <3>1
      <4> QED BY <1>10, <3>1, <4>1
    <3>2. CASE db' = db /\ Miss(0)
      <4>1. UsageOn(db, day) + Cardinality(Fresh) <= UsageOn(db', day) + Cardinality(Fresh') + 0
        BY <1>10, <1>12, <2>1, <3>2
      <4> QED BY <3>2, <4>1
    <3> QED BY <1>13, <2>1, <3>1, <3>2
  <2>2. CASE ~(stamp[r] < day)
    <3>1. stamp[r] = day
      BY <1>10, <2>2
    <3>2. CASE db' = e /\ Miss(0)
      <4>1. UsageOn(db, day) + Cardinality(Fresh) <= UsageOn(db', day) + Cardinality(Fresh') + 0
        BY <1>10, <1>11, <1>12, <2>2, <3>1, <3>2
      <4> QED BY <3>2, <4>1
    <3>3. CASE db' = db /\ Miss(1)
      <4>1. UsageOn(db, day) + Cardinality(Fresh) <= UsageOn(db', day) + Cardinality(Fresh') + 1
        BY <1>10, <1>12, <2>2, <3>3
      <4> QED BY <3>3, <4>1
    <3> QED BY <1>13, <2>2, <3>2, <3>3
  <2> QED BY <2>1, <2>2
<1>17. db' \in Row /\ Opened(db', day) /\ spent' \in Int /\ UsageOn(db', day) \in Nat
  BY <1>10, <1>11, <1>13, UsageFacts
<1>18. /\ missed' \in Nat
       /\ \A u, w \in Nat : u + missed >= served /\ u <= w + n => w + missed' >= served
       /\ \A u \in Nat : u + missed >= served => u + missed' >= served
  BY <1>10, <1>16, MissFacts
<1>19. Typed'
  BY <1>1, <1>3, <1>4, <1>6, <1>17, <1>18, TypeParts DEF RequestsOK, FlushersOK, CountsOK, flush
<1>20. Dated'
  BY <1>1, <1>4, <1>10, <1>17 DEF IInv, Dated, flush
<1>21. OneWay'
  BY <1>1, <1>7 DEF IInv, OneWay, AllIdle, flush
<1>22. Booked'
  <2>1. ASSUME late' # TRUE, failed' # TRUE PROVE UsageOn(db', day) + Cardinality(Pending') = spent'
    <3>1. UsageOn(db, day) + Cardinality(Pending) = spent
      BY <1>5, <1>7, <2>1 DEF IInv, Booked
    <3> QED BY <1>10, <1>11, <1>12, <1>14, <1>15, <2>1, <3>1
  <2> QED BY <1>1, <2>1 DEF Booked
<1>23. Shown'
  <2>1. \A x \in Row : Covers(x) => UsageOn(x, day) + missed' >= served
    BY <1>10, <1>18, UsageFacts DEF Covers
  <2>2. cache # None => UsageOn(cache, day) + missed' >= served
    BY <2>1, TypeParts DEF IInv, Shown
  <2>3. \A q \in Requests : pc'[q] = "set" => UsageOn(val[q], day) + missed' >= served
    <3>1. \A q \in Requests : pc'[q] = "set" => pc[q] = "set"
      BY <1>1, <1>3
    <3> QED BY <2>1, <3>1, TypeParts DEF IInv, Shown
  <2>4. UsageOn(db', day) + Cardinality(Fresh') + missed' >= served
    <3>1. UsageOn(db, day) + Cardinality(Fresh) + missed >= served
      BY <1>7 DEF IInv, Shown
    <3>2. UsageOn(db, day) + Cardinality(Fresh) \in Nat /\ UsageOn(db', day) + Cardinality(Fresh') \in Nat
      BY <1>10, <1>12, <1>17
    <3> QED BY <1>16, <1>18, <3>1, <3>2
  <2> QED BY <1>1, <1>7, <2>2, <2>3, <2>4 DEF Shown, Covers
<1>24. Marked'
  BY <1>1, <1>7 DEF Marked
<1> QED BY <1>19, <1>20, <1>21, <1>22, <1>23, <1>24 DEF IInv

----------------------------------------------------------------------------
(* Flusher                                                                 *)

\* A step of the flusher, which touches neither the entry nor the requests.
LEMMA FlushKept ==
    ASSUME Typed, IInv, flusher = TRUE,
           UNCHANGED <<flusher, day, cache, request, resetting, served, spent, late, failed>>,
           db' \in Row, Opened(db', day), FlushersOK', FlagsOK', missed' \in Nat,
           \A g \in Flushers : Opened(snap'[g], day),
           \A u \in Nat : u + missed >= served => u + missed' >= served,
           cache = None => UsageOn(db', day) + missed' >= served,
           Marked'
    PROVE  Typed' /\ IInv'
<1>1. pc' = pc /\ val' = val /\ stamp' = stamp
  BY DEF request
<1>2. Typed'
  BY <1>1, TypeParts DEF RequestsOK, CountsOK
<1>3. Pending' = Pending
  BY <1>1 DEF Pending
<1>4. Dated'
  BY <1>1 DEF IInv, Dated
<1>5. OneWay' /\ Booked'
  BY <1>3 DEF IInv, OneWay, Booked
<1>6. Shown'
  <2>1. \A e \in Row : Covers(e) => UsageOn(e, day) + missed' >= served
    BY TypeParts, UsageFacts DEF Covers
  <2> QED BY <1>1, <2>1, TypeParts DEF IInv, Shown, Covers
<1> QED BY <1>2, <1>4, <1>5, <1>6 DEF IInv

\* When the row is left alone it covers what it covered.
LEMMA RowUntouched ==
    ASSUME Typed, IInv, flusher = TRUE, db' = db, missed' = missed
    PROVE  /\ db' \in Row /\ Opened(db', day) /\ missed' \in Nat
           /\ \A u \in Nat : u + missed >= served => u + missed' >= served
           /\ cache = None => UsageOn(db', day) + missed' >= served
BY TypeParts DEF IInv, Dated, Shown, Covers

\* The flusher moves on: its step changes, the others' do not.
LEMMA FlushGotoFacts ==
    ASSUME Typed, NEW f \in Flushers, NEW s \in {"idle", "read", "write", "readd"}, FlushGoto(f, s)
    PROVE  /\ fpc' \in [Flushers -> {"idle", "read", "write", "readd"}] /\ fpc'[f] = s
           /\ \A g \in Flushers : g # f => fpc'[g] = fpc[g]
BY TypeParts DEF FlushGoto, FlushersOK

\* Who works with the flusher marks, pops or flushes.
LEMMA FlusherOn ==
    ASSUME Typed, IInv, NEW f \in Flushers, dirty = TRUE \/ fpc[f] # "idle"
    PROVE  flusher = TRUE
BY TypeParts, Zenon DEF IInv, OneWay, AllIdle, FlagsOK

\* SPOP.
LEMMA PopKept ==
    ASSUME Typed, IInv, NEW f \in Flushers, Pop(f)
    PROVE  Typed' /\ IInv'
<1>1. /\ FlushGoto(f, "read") /\ snap' = snap
      /\ UNCHANGED <<flusher, day, db, cache, request, resetting, served, spent, late, failed, missed, unmarked>>
  BY DEF Pop, ghost
<1>2. dirty = TRUE /\ dirty' \in BOOLEAN
  BY TypeParts, Zenon DEF Pop, FlagsOK
<1>3. FlagsOK'
  BY <1>1, <1>2, TypeParts, Zenon DEF FlagsOK
<1>4. flusher = TRUE
  BY <1>2, FlusherOn
<1>5. FlushersOK' /\ fpc'[f] = "read"
  BY <1>1, FlushGotoFacts, TypeParts DEF FlushersOK
<1>6. \A g \in Flushers : Opened(snap'[g], day)
  BY <1>1 DEF IInv, Dated
<1>7. Marked'
  BY <1>5 DEF Marked
<1> QED BY <1>1, <1>3, <1>4, <1>5, <1>6, <1>7, RowUntouched, FlushKept

\* BatchGetUserPlatformQuotaCache.
LEMMA SnapshotKept ==
    ASSUME Typed, IInv, NEW f \in Flushers, Snapshot(f)
    PROVE  Typed' /\ IInv'
<1>1. /\ fpc[f] = "read"
      /\ UNCHANGED <<flusher, day, db, cache, dirty, request, resetting, served, spent, late, failed, missed, unmarked>>
  BY DEF Snapshot, ghost
<1>2. FlagsOK'
  BY <1>1, TypeParts, Zenon DEF FlagsOK
<1>3. flusher = TRUE
  BY <1>1, FlusherOn
<1>4. snap \in [Flushers -> Row] /\ \A g \in Flushers : Opened(snap[g], day)
  BY TypeParts DEF FlushersOK, IInv, Dated
<1>5. FlushersOK' /\ (\A g \in Flushers : Opened(snap'[g], day)) /\ Marked'
  <2>1. CASE FlushGoto(f, "idle") /\ snap' = snap /\ (cache = None \/ cache.win = None)
    <3>1. cache # None => UsageOn(cache, day) = 0 /\ UsageOn(db, day) \in Nat
      BY <2>1, TypeParts, UsageFacts DEF UsageOn
    <3>2. cache # None => Within(db)
      BY <3>1 DEF Within
    <3> QED BY <1>1, <1>4, <2>1, <3>2, FlushGotoFacts DEF FlushersOK, Marked, Within
  <2>2. CASE FlushGoto(f, "write") /\ cache # None /\ snap' = [snap EXCEPT ![f] = cache]
    <3>1. cache \in Row /\ Opened(cache, day) /\ UsageOn(cache, day) \in Nat
      BY <2>2, TypeParts, UsageFacts DEF IInv, Dated
    <3>2. FlushersOK' /\ fpc'[f] = "write" /\ snap'[f] = cache /\ \A g \in Flushers : Opened(snap'[g], day)
      BY <1>4, <2>2, <3>1, FlushGotoFacts DEF FlushersOK
    <3>3. UsageOn(cache', day') <= UsageOn(snap'[f], day')
      BY <1>1, <3>1, <3>2
    <3> QED BY <3>2, <3>3 DEF Marked, Within
  <2>3. CASE FlushGoto(f, "readd") /\ snap' = snap
    BY <1>4, <2>3, FlushGotoFacts DEF FlushersOK, Marked
  <2> QED BY <2>1, <2>2, <2>3 DEF Snapshot
<1> QED BY <1>1, <1>2, <1>3, <1>5, RowUntouched, FlushKept

\* BatchSnapshotUsage, put back or dropped on an error.
LEMMA WriteKept ==
    ASSUME Typed, IInv, NEW f \in Flushers, Write(f)
    PROVE  Typed' /\ IInv'
<1>1. /\ fpc[f] = "write" /\ snap' = [snap EXCEPT ![f] = NoEntry]
      /\ UNCHANGED <<flusher, day, cache, dirty, request, resetting, served, spent, late, failed>>
  BY DEF Write
<1>2. unmarked' \in BOOLEAN /\ (unmarked' # TRUE => unmarked # TRUE)
  BY TypeParts, Zenon DEF Write, Unmark, FlagsOK
<1>3. FlagsOK'
  BY <1>1, <1>2, TypeParts, Zenon DEF FlagsOK
<1>4. flusher = TRUE
  BY <1>1, FlusherOn
<1>5. snap[f] \in Row /\ Opened(snap[f], day) /\ db \in Row /\ Opened(db, day)
  BY TypeParts DEF IInv, Dated
<1>6. /\ snap' \in [Flushers -> Row] /\ \A g \in Flushers : Opened(snap'[g], day)
      /\ \A g \in Flushers : g # f => snap'[g] = snap[g]
  BY <1>1, TypeParts, NoEntryRow DEF FlushersOK, IInv, Dated
<1>7. CASE /\ db' = snap[f] /\ FlushGoto(f, "idle") /\ Unmark(Today(snap[f]) < Today(db))
           /\ Miss(IF cache = None THEN Excess(db, snap[f]) ELSE 0)
  <2>1. /\ FlushersOK' /\ fpc'[f] = "idle" /\ \A g \in Flushers : g # f => fpc'[g] = fpc[g]
    BY <1>6, <1>7, FlushGotoFacts DEF FlushersOK
  <2>2. /\ UsageOn(db, day) \in Nat /\ UsageOn(snap[f], day) \in Nat /\ missed \in Nat /\ served \in Nat /\ day \in Nat
        /\ Today(db) = UsageOn(db, day) /\ Today(snap[f]) = UsageOn(snap[f], day)
    BY <1>5, TypeParts, UsageFacts, ExpiredFacts
  <2>3. Excess(db, snap[f]) \in Nat /\ UsageOn(db, day) <= UsageOn(snap[f], day) + Excess(db, snap[f])
    BY <1>5, <2>2, ExcessFacts
  <2>4. /\ missed' \in Nat /\ (\A u \in Nat : u + missed >= served => u + missed' >= served)
        /\ cache = None => UsageOn(db', day) + missed' >= served
    <3>1. CASE cache = None
      <4>1. Miss(Excess(db, snap[f])) /\ UsageOn(db, day) + missed >= served
        BY <1>4, <1>7, <3>1 DEF IInv, Shown, Covers
      <4> QED BY <1>7, <2>2, <2>3, <4>1, MissFacts
    <3>2. CASE cache # None
      <4>1. Miss(0)
        BY <1>7, <3>2
      <4> QED BY <2>2, <3>2, <4>1, MissFacts
    <3> QED BY <3>1, <3>2
  <2>5. unmarked' # TRUE => ~(Today(snap[f]) < Today(db)) \/ dirty = TRUE
    BY <1>4, <1>7, TypeParts, Zenon DEF Unmark, FlagsOK
  <2>6. Marked'
    <3> SUFFICES ASSUME cache # None, resetting # TRUE, unmarked' # TRUE, dirty # TRUE
                 PROVE  \/ UsageOn(cache, day) <= UsageOn(db', day)
                        \/ \E g \in Flushers : fpc'[g] \in {"read", "readd"}
                        \/ \E g \in Flushers : fpc'[g] = "write" /\ UsageOn(cache, day) <= UsageOn(snap'[g], day)
      BY <1>1 DEF Marked, Within
    <3>1. UsageOn(db, day) <= UsageOn(db', day) /\ UsageOn(cache, day) \in Nat
      <4>1. ~(UsageOn(snap[f], day) < UsageOn(db, day))
        BY <2>2, <2>5
      <4>2. UsageOn(db, day) <= UsageOn(snap[f], day)
        BY <2>2, <4>1
      <4> QED BY <1>7, <2>2, <4>2, TypeParts, UsageFacts
    <3>2. \/ UsageOn(cache, day) <= UsageOn(db, day)
          \/ \E g \in Flushers : fpc[g] \in {"read", "readd"}
          \/ \E g \in Flushers : fpc[g] = "write" /\ UsageOn(cache, day) <= UsageOn(snap[g], day)
      BY <1>2, <1>4 DEF IInv, Marked, Within
    <3>3. CASE UsageOn(cache, day) <= UsageOn(db, day)
      <4>1. UsageOn(cache, day) <= UsageOn(db', day)
        BY <1>7, <2>2, <3>1, <3>3
      <4> QED BY <4>1
    <3>4. CASE \E g \in Flushers : fpc[g] \in {"read", "readd"}
      BY <1>1, <2>1, <3>4
    <3>5. CASE \E g \in Flushers : fpc[g] = "write" /\ UsageOn(cache, day) <= UsageOn(snap[g], day)
      BY <1>6, <1>7, <2>1, <3>5
    <3> QED BY <3>2, <3>3, <3>4, <3>5
  <2> QED BY <1>1, <1>3, <1>4, <1>5, <1>6, <1>7, <2>1, <2>4, <2>6, FlushKept
<1>8. CASE FlushGoto(f, "readd") /\ db' = db /\ missed' = missed
  <2>1. FlushersOK' /\ Marked'
    BY <1>6, <1>8, FlushGotoFacts DEF FlushersOK, Marked
  <2> QED BY <1>1, <1>3, <1>4, <1>6, <1>8, <2>1, RowUntouched, FlushKept
<1>9. CASE FlushGoto(f, "idle") /\ Unmark(TRUE) /\ db' = db /\ missed' = missed
  <2>1. unmarked' = TRUE \/ dirty = TRUE
    BY <1>4, <1>9, TypeParts, Zenon DEF Unmark, FlagsOK
  <2>2. FlushersOK' /\ Marked'
    BY <1>1, <1>6, <1>9, <2>1, FlushGotoFacts DEF FlushersOK, Marked
  <2> QED BY <1>1, <1>3, <1>4, <1>6, <1>9, <2>2, RowUntouched, FlushKept
<1> QED BY <1>7, <1>8, <1>9 DEF Write

\* readdOrCountLost.
LEMMA ReaddKept ==
    ASSUME Typed, IInv, NEW f \in Flushers, Readd(f)
    PROVE  Typed' /\ IInv'
<1>1. /\ fpc[f] = "readd" /\ FlushGoto(f, "idle") /\ snap' = snap
      /\ UNCHANGED <<flusher, day, db, cache, request, resetting, served, spent, late, failed, missed>>
  BY DEF Readd
<1>2. flusher = TRUE
  BY <1>1, FlusherOn
<1>3. dirty' \in BOOLEAN /\ unmarked' \in BOOLEAN /\ (dirty' = TRUE \/ unmarked' = TRUE)
  BY <1>2, TypeParts, Zenon DEF Readd, Unmark, FlagsOK
<1>4. FlagsOK'
  BY <1>1, <1>3, TypeParts, Zenon DEF FlagsOK
<1>5. FlushersOK' /\ Marked' /\ \A g \in Flushers : Opened(snap'[g], day)
  BY <1>1, <1>3, FlushGotoFacts, TypeParts DEF FlushersOK, Marked, IInv, Dated
<1> QED BY <1>1, <1>2, <1>4, <1>5, RowUntouched, FlushKept

----------------------------------------------------------------------------
(* Administrator, clock, TTL                                               *)

\* When nothing was served yet, every entry shows enough.
LEMMA NothingServed ==
    ASSUME Typed', served' = 0
    PROVE  Shown'
<1>1. /\ db' \in Row /\ cache' \in Row \union {None} /\ day' \in Nat /\ missed' \in Nat
      /\ \A r \in Requests : val'[r] \in Row
  BY DEF Typed, RequestsOK, CountsOK
<1>2. \A e \in Row : UsageOn(e, day') \in Nat
  BY <1>1, UsageFacts
<1>3. \A e \in Row : UsageOn(e, day') + missed' >= served'
  BY <1>1, <1>2
<1>4. Cardinality(Fresh') \in Nat
  <2>1. Fresh' \subseteq Requests
    BY DEF Fresh, Pending
  <2> QED BY <2>1, QuotaBoundAssumption, FS_Subset, FS_CardinalityType
<1>5. UsageOn(db', day') + Cardinality(Fresh') + missed' >= served'
  BY <1>1, <1>2, <1>4
<1> QED BY <1>1, <1>3, <1>5 DEF Shown, Covers

\* ResetExpiredWindow.
LEMMA ResetWindowKept ==
    ASSUME Typed, IInv, ResetWindow
    PROVE  Typed' /\ IInv'
<1>1. /\ db' = [usage |-> 0, win |-> day] /\ served' = 0 /\ missed' = 0 /\ spent' = Cardinality(Pending)
      /\ UNCHANGED <<flusher, day, cache, dirty, request, flush, unmarked>>
  BY DEF ResetWindow, NewWindow
<1>2. resetting' = TRUE /\ late' \in BOOLEAN /\ failed' \in BOOLEAN
  BY Zenon DEF ResetWindow, NewWindow
<1>3. FlagsOK'
  BY <1>1, <1>2, TypeParts, Zenon DEF FlagsOK
<1>4. db' \in Row /\ Opened(db', day) /\ UsageOn(db', day) = 0 /\ day \in Nat
  BY <1>1, FreshRow, TypeParts
<1>5. Cardinality(Pending) \in Nat
  BY FiniteCosts
<1>6. Typed'
  BY <1>1, <1>3, <1>4, <1>5, TypeParts DEF RequestsOK, FlushersOK, CountsOK, request, flush
<1>7. Pending' = Pending
  BY <1>1 DEF Pending, request
<1>8. Dated'
  BY <1>1, <1>4 DEF IInv, Dated, request, flush
<1>9. OneWay'
  BY <1>1, <1>7 DEF IInv, OneWay, AllIdle, flush
<1>10. Booked'
  <2>1. UsageOn(db', day') + Cardinality(Pending') = spent'
    BY <1>1, <1>4, <1>5, <1>7
  <2> QED BY <2>1 DEF Booked
<1>11. Shown'
  BY <1>1, <1>6, NothingServed
<1>12. Marked'
  BY <1>2 DEF Marked
<1> QED BY <1>6, <1>8, <1>9, <1>10, <1>11, <1>12 DEF IInv

\* What goes with an entry that the flusher has not written is counted.
LEMMA EntryGone ==
    ASSUME Typed, IInv, NEW n \in Nat, Miss(n), cache' = None,
           UNCHANGED <<flusher, day, db, dirty, request, flush, served, spent, late, failed, unmarked>>,
           resetting' \in BOOLEAN,
           flusher = TRUE /\ cache # None => UsageOn(cache, day) <= UsageOn(db, day) + n
    PROVE  Typed' /\ IInv'
<1>1. /\ missed' \in Nat
      /\ \A u, w \in Nat : u + missed >= served /\ u <= w + n => w + missed' >= served
      /\ \A u \in Nat : u + missed >= served => u + missed' >= served
  BY TypeParts, MissFacts
<1>2. FlagsOK'
  BY TypeParts, Zenon DEF FlagsOK
<1>3. Typed'
  BY <1>1, <1>2, TypeParts DEF RequestsOK, FlushersOK, CountsOK, request, flush
<1>4. Pending' = Pending /\ Fresh' = Fresh
  BY DEF Pending, Fresh, request
<1>5. Dated' /\ OneWay' /\ Booked'
  BY <1>4 DEF IInv, Dated, OneWay, Booked, AllIdle, request, flush
<1>6. Shown'
  <2>1. \A e \in Row : Covers(e) => UsageOn(e, day) + missed' >= served
    BY <1>1, TypeParts, UsageFacts DEF Covers
  <2>2. \A r \in Requests : pc[r] = "set" => UsageOn(val[r], day) + missed' >= served
    BY <2>1, TypeParts DEF IInv, Shown
  <2>3. UsageOn(db, day) \in Nat /\ Cardinality(Fresh) \in Nat /\ day \in Nat
    BY TypeParts, UsageFacts, FiniteCosts
  <2>4. flusher = TRUE => UsageOn(db, day) + missed' >= served
    <3> SUFFICES ASSUME flusher = TRUE PROVE UsageOn(db, day) + missed' >= served
      OBVIOUS
    <3>1. CASE cache = None
      BY <2>1, <3>1, TypeParts DEF IInv, Shown
    <3>2. CASE cache # None
      <4>1. UsageOn(cache, day) \in Nat /\ UsageOn(cache, day) + missed >= served
        BY <2>3, <3>2, TypeParts, UsageFacts DEF IInv, Shown, Covers
      <4> QED BY <1>1, <2>3, <3>2, <4>1
    <3> QED BY <3>1, <3>2
  <2>5. flusher # TRUE => UsageOn(db, day) + Cardinality(Fresh) + missed' >= served
    <3>1. UsageOn(db, day) + Cardinality(Fresh) \in Nat
      BY <2>3
    <3> QED BY <1>1, <3>1 DEF IInv, Shown
  <2> QED BY <1>4, <2>2, <2>4, <2>5 DEF Shown, Covers, request
<1>7. Marked'
  BY DEF Marked
<1> QED BY <1>3, <1>5, <1>6, <1>7 DEF IInv

\* Unwritten is a number of costs that makes up for the entry.
LEMMA UnwrittenFacts ==
    ASSUME Typed
    PROVE  /\ Unwritten \in Nat
           /\ flusher = TRUE /\ cache # None => UsageOn(cache, day) <= UsageOn(db, day) + Unwritten
<1>1. flusher \in BOOLEAN
  BY TypeParts, Zenon DEF FlagsOK
<1>2. cache # None => /\ Excess(cache, db) \in Nat
                      /\ UsageOn(cache, day) <= UsageOn(db, day) + Excess(cache, db)
  BY TypeParts, ExcessFacts
<1> QED BY <1>1, <1>2 DEF Unwritten

\* DeleteUserPlatformQuotaCache after the reset.
LEMMA DeleteCacheKept ==
    ASSUME Typed, IInv, DeleteCache
    PROVE  Typed' /\ IInv'
<1>1. UNCHANGED <<flusher, day, db, dirty, request, flush, served, spent, late, failed>>
  BY DEF DeleteCache
<1>2. resetting' \in BOOLEAN /\ unmarked' \in BOOLEAN
  BY TypeParts, Zenon DEF DeleteCache, Unmark, FlagsOK
<1>3. CASE cache' = None /\ Miss(Unwritten) /\ unmarked' = unmarked
  <2>1. PICK n \in Nat : Miss(n) /\ (flusher = TRUE /\ cache # None => UsageOn(cache, day) <= UsageOn(db, day) + n)
    BY <1>3, UnwrittenFacts
  <2> QED BY <1>1, <1>2, <1>3, <2>1, EntryGone
<1>4. CASE Unmark(TRUE) /\ cache' = cache /\ missed' = missed
  <2>1. flusher = TRUE => unmarked' = TRUE \/ dirty = TRUE
    BY <1>4, TypeParts, Zenon DEF Unmark, FlagsOK
  <2>2. FlagsOK'
    BY <1>1, <1>2, TypeParts, Zenon DEF FlagsOK
  <2>3. Typed'
    BY <1>1, <1>4, <2>2, TypeParts DEF RequestsOK, FlushersOK, CountsOK, request, flush
  <2>4. Pending' = Pending /\ Fresh' = Fresh
    BY <1>1 DEF Pending, Fresh, request
  <2>5. Dated' /\ OneWay' /\ Booked' /\ Shown'
    BY <1>1, <1>4, <2>4 DEF IInv, Dated, OneWay, Booked, Shown, Covers, AllIdle, request, flush
  <2>6. Marked'
    BY <1>1, <2>1 DEF Marked
  <2> QED BY <2>3, <2>5, <2>6 DEF IInv
<1> QED BY <1>3, <1>4 DEF DeleteCache

\* A new day.
LEMMA MidnightKept ==
    ASSUME Typed, IInv, Midnight
    PROVE  Typed' /\ IInv'
<1>1. /\ day' = day + 1 /\ served' = 0 /\ missed' = 0 /\ spent' = Cardinality(Pending)
      /\ UNCHANGED <<flusher, db, cache, dirty, request, flush, resetting, unmarked>>
  BY DEF Midnight, NewWindow
<1>2. FlagsOK'
  <2>1. late' \in BOOLEAN /\ failed' \in BOOLEAN
    BY Zenon DEF Midnight, NewWindow
  <2> QED BY <1>1, <2>1, TypeParts, Zenon DEF FlagsOK
<1>3. Cardinality(Pending) \in Nat
  BY FiniteCosts
<1>4. Typed'
  BY <1>1, <1>2, <1>3, TypeParts DEF RequestsOK, FlushersOK, CountsOK, request, flush
<1>5. Pending' = Pending
  BY <1>1 DEF Pending, request
<1>6. \A e \in Row : Opened(e, day) => UsageOn(e, day + 1) = 0 /\ Opened(e, day + 1)
  BY TypeParts, UsageFacts
<1>7. /\ UsageOn(db, day + 1) = 0 /\ Opened(db, day + 1)
      /\ cache # None => UsageOn(cache, day + 1) = 0 /\ Opened(cache, day + 1)
      /\ \A r \in Requests : Opened(val[r], day + 1) /\ stamp[r] <= day + 1
      /\ \A f \in Flushers : Opened(snap[f], day + 1)
  BY <1>6, TypeParts DEF IInv, Dated
<1>8. Dated'
  BY <1>1, <1>7 DEF Dated, request, flush
<1>9. OneWay'
  BY <1>1, <1>5 DEF IInv, OneWay, AllIdle, flush
<1>10. Booked'
  <2>1. UsageOn(db', day') + Cardinality(Pending') = spent'
    BY <1>1, <1>3, <1>5, <1>7
  <2> QED BY <2>1 DEF Booked
<1>11. Shown'
  BY <1>1, <1>4, NothingServed
<1>12. Marked'
  <2>1. cache' # None => UsageOn(cache', day') <= UsageOn(db', day')
    BY <1>1, <1>7
  <2> QED BY <2>1 DEF Marked, Within
<1> QED BY <1>4, <1>8, <1>9, <1>10, <1>11, <1>12 DEF IInv

\* The entry expires a day after its last cost.
LEMMA CacheExpiresKept ==
    ASSUME Typed, IInv, CacheExpires
    PROVE  Typed' /\ IInv'
<1>1. /\ cache # None /\ cache' = None /\ Miss(IF unmarked \/ resetting THEN Unwritten ELSE 0)
      /\ UNCHANGED <<flusher, day, db, dirty, request, flush, resetting, served, spent, late, failed, unmarked>>
  BY DEF CacheExpires
<1>2. dirty # TRUE /\ \A f \in Flushers : fpc[f] = "idle"
  BY Zenon DEF CacheExpires, Active
<1>3. resetting' \in BOOLEAN /\ resetting \in BOOLEAN /\ unmarked \in BOOLEAN
  BY <1>1, TypeParts, Zenon DEF FlagsOK
<1>4. PICK n \in Nat : Miss(n) /\ (flusher = TRUE /\ cache # None => UsageOn(cache, day) <= UsageOn(db, day) + n)
  <2>1. CASE unmarked = TRUE \/ resetting = TRUE
    <3>1. Miss(Unwritten)
      BY <1>1, <2>1
    <3> QED BY <3>1, UnwrittenFacts
  <2>2. CASE unmarked # TRUE /\ resetting # TRUE
    <3>1. Miss(0)
      BY <1>1, <1>3, <2>2
    <3>2. flusher = TRUE => UsageOn(cache, day) <= UsageOn(db, day)
      BY <1>1, <1>2, <2>2 DEF IInv, Marked, Within
    <3>3. UsageOn(db, day) + 0 = UsageOn(db, day)
      BY TypeParts, UsageFacts
    <3> QED BY <3>1, <3>2, <3>3
  <2> QED BY <2>1, <2>2
<1> QED BY <1>1, <1>3, <1>4, EntryGone

----------------------------------------------------------------------------
(* The theorems                                                            *)

\* A user's row before the first request.
LEMMA InitKept == Init => Typed /\ IInv
<1> SUFFICES ASSUME Init PROVE Typed /\ IInv
  OBVIOUS
<1>1. /\ day = 0 /\ cache = None /\ served = 0 /\ spent = 0 /\ missed = 0
      /\ db \in Row /\ Opened(db, 0) /\ UsageOn(db, 0) = 0
  BY NoneIsNoRow DEF Init, Row, Opened, UsageOn
<1>2. pc \in [Requests -> Steps] /\ \A r \in Requests : pc[r] = "idle"
  BY DEF Init, Steps
<1>3. val \in [Requests -> Row] /\ stamp \in [Requests -> Nat] /\ \A r \in Requests : Opened(val[r], 0) /\ stamp[r] = 0
  BY NoEntryRow DEF Init
<1>4. FlushersOK /\ AllIdle /\ \A f \in Flushers : Opened(snap[f], 0)
  BY NoEntryRow DEF Init, FlushersOK, AllIdle
<1>5. FlagsOK
  BY Zenon DEF Init, FlagsOK
<1>6. dirty # TRUE
  BY Zenon DEF Init
<1>7. Typed
  BY <1>1, <1>2, <1>3, <1>4, <1>5 DEF Typed, RequestsOK, CountsOK
<1>8. Pending = {} /\ Fresh = {}
  BY <1>2 DEF Pending, Fresh
<1>9. Cardinality(Pending) = 0 /\ Cardinality(Fresh) = 0
  BY <1>8, FS_EmptySet
<1>10. Dated
  BY <1>1, <1>3, <1>4 DEF Dated
<1>11. OneWay
  BY <1>4, <1>6, <1>8 DEF OneWay
<1>12. UsageOn(db, day) + Cardinality(Pending) = spent /\ UsageOn(db, day) + missed >= served
       /\ UsageOn(db, day) + Cardinality(Fresh) + missed >= served
  BY <1>1, <1>9
<1>13. Booked /\ Shown
  BY <1>1, <1>2, <1>12 DEF Booked, Shown, Covers
<1>14. Marked
  BY <1>1 DEF Marked
<1> QED BY <1>7, <1>10, <1>11, <1>13, <1>14 DEF IInv

\* Every step keeps the invariant.
LEMMA NextKept == Typed /\ IInv /\ [Next]_vars => Typed' /\ IInv'
<1> SUFFICES ASSUME Typed, IInv, [Next]_vars PROVE Typed' /\ IInv'
  OBVIOUS
<1>1. ASSUME NEW r \in Requests,
             Get(r) \/ Load(r) \/ Peek(r) \/ SetCache(r) \/ Complete(r) \/ Spawn(r) \/ Persist(r)
      PROVE  Typed' /\ IInv'
  BY <1>1, GetKept, LoadKept, PeekKept, SetCacheKept, CompleteKept, SpawnKept, PersistKept
<1>2. ASSUME NEW f \in Flushers, FlushStep(f) PROVE Typed' /\ IInv'
  BY <1>2, PopKept, SnapshotKept, WriteKept, ReaddKept DEF FlushStep
<1>3. CASE UNCHANGED vars
  <2>1. UNCHANGED <<flusher, day, db, cache, dirty, request, flush, resetting, served, spent, late, failed, missed, unmarked>>
    BY <1>3 DEF vars, ghost
  <2>2. FlagsOK'
    BY <2>1, TypeParts, Zenon DEF FlagsOK
  <2>3. Typed'
    BY <2>1, <2>2, TypeParts DEF RequestsOK, FlushersOK, CountsOK, request, flush
  <2>4. Pending' = Pending /\ Fresh' = Fresh
    BY <2>1 DEF Pending, Fresh, request
  <2>5. Dated' /\ OneWay' /\ Booked' /\ Shown'
    BY <2>1, <2>4 DEF IInv, Dated, OneWay, Booked, Shown, Covers, AllIdle, request, flush
  <2>6. Marked'
    BY <2>1 DEF IInv, Marked, Within, flush
  <2> QED BY <2>3, <2>5, <2>6 DEF IInv
<1> QED BY <1>1, <1>2, <1>3, ResetWindowKept, DeleteCacheKept, MidnightKept, CacheExpiresKept DEF Next

\* The invariant holds in every reachable state, for any number of requests, flushers,
\* days, costs and faults.
THEOREM Invariance == Spec => [](Typed /\ IInv)
BY InitKept, NextKept, PTL DEF Spec

\* Without the flusher the row shows today's cost but for what its goroutines still carry
\* (IncrementUsageWithReset), unless in this window a write failed or one stamped on an
\* earlier day met a row of today.
THEOREM RowIsExact == Spec => []LedgerIsExact
<1>1. Typed /\ IInv => LedgerIsExact
  <2> SUFFICES ASSUME Typed, IInv, ~flusher, ~late, ~failed PROVE Today(db) + Cardinality(Pending) = spent
    BY DEF LedgerIsExact
  <2>1. flusher # TRUE /\ late # TRUE /\ failed # TRUE
    OBVIOUS
  <2>2. Today(db) = UsageOn(db, day)
    BY TypeParts, ExpiredFacts
  <2> QED BY <2>1, <2>2 DEF IInv, Booked
<1> QED BY <1>1, Invariance, PTL

\* The entry that checkUserPlatformQuotaEligibility decides on shows every cost served in
\* the window, less the costs counted one by one in missed: those whose script failed or met
\* an overwrite, a window closed or never opened, or no entry (Complete), those a fill did not
\* find in the row (Load), those whose write failed or was wiped (Persist, Write), and those
\* that went with an entry the flusher had not written (DeleteCache, CacheExpires).
THEOREM AdmissionMissesNothing == Spec => []EntryIsComplete
<1>1. Typed /\ IInv => EntryIsComplete
  <2> SUFFICES ASSUME Typed, IInv, cache # None, ~Expired(cache.win) PROVE cache.usage + missed >= served
    BY DEF EntryIsComplete
  <2>1. UsageOn(cache, day) = cache.usage
    BY TypeParts, ExpiredFacts
  <2> QED BY <2>1 DEF IInv, Shown, Covers
<1> QED BY <1>1, Invariance, PTL

\* With the flusher, an entry ahead of the row is marked, about to be read or put back by a
\* flusher, or in a snapshot it is about to write (flushOneBatch, readdOrCountLost), unless
\* its reset is under way or it was unmarked and no cost has marked it since.
THEOREM AheadEntriesAreMarked == Spec => []AheadIsMarked
<1>1. Typed /\ IInv => AheadIsMarked
  <2> SUFFICES ASSUME Typed, IInv, flusher, cache # None, ~resetting, ~unmarked
               PROVE  \/ Today(cache) <= Today(db) \/ dirty
                      \/ \E f \in Flushers : fpc[f] \in {"read", "readd"}
                      \/ \E f \in Flushers : fpc[f] = "write" /\ Today(cache) <= Today(snap[f])
    BY DEF AheadIsMarked
  <2>1. flusher = TRUE /\ resetting # TRUE /\ unmarked # TRUE
    BY TypeParts, Zenon DEF FlagsOK
  <2>2. /\ Today(cache) = UsageOn(cache, day) /\ Today(db) = UsageOn(db, day)
        /\ \A f \in Flushers : Today(snap[f]) = UsageOn(snap[f], day)
    BY TypeParts, ExpiredFacts
  <2>3. \/ Within(db) \/ dirty = TRUE
        \/ \E f \in Flushers : fpc[f] \in {"read", "readd"}
        \/ \E f \in Flushers : fpc[f] = "write" /\ Within(snap[f])
    BY <2>1 DEF IInv, Marked
  <2> QED BY <2>2, <2>3 DEF Within
<1> QED BY <1>1, Invariance, PTL
=============================================================================
