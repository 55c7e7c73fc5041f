-------------------------- MODULE RateLimiterProofs ---------------------------
(***************************************************************************)
(* Theorems about RateLimiter, for any finite number of requests, any      *)
(* limit, window, delay and concurrency of the client.                     *)
(***************************************************************************)
EXTENDS RateLimiter, FiniteSetTheorems, TLAPS

\* Who has been let through has come and counted.
PassedHaveCounted == \A r \in passed : at[r] \notin {"new", "count"}

\* Who is about to add itself has been let through.
AddersHavePassed == \A r \in Requests : at[r] = "add" => r \in passed

\* A handler that is called again has committed once at most, a write not at all.
AppliedSoFar == \A r \in Requests :
    /\ at[r] \notin {"again", "done"} => applied[r] = 0
    /\ at[r] = "again" => applied[r] \in 0..1 /\ (r \notin CommitFirst => applied[r] = 0)

\* The key outlives the window of every member.
KeyOutlives == \A r \in zset : now[r] + Window < clock + ttl

\* Neither the trimming of requests that came earlier or later nor EXPIRE forgets
\* a request of the last Window ticks (rate_limit.py:50-52, 63).
RecentRemembered ==
    \A r \in passed \ astray :
        clock < now[r] + Window => r \in zset \/ at[r] = "add"

\* What the guard of Arrive asks of the client.
FewInFlight == Cardinality(Unrecorded) <= InFlight

LimiterInv == /\ TypeOK /\ PassedHaveCounted /\ AddersHavePassed /\ KeyOutlives
              /\ RecentRemembered /\ FewInFlight /\ OverrunBounded
              /\ AppliedSoFar /\ WritesAppliedOnce

\* Sets of requests are finite, and a part has no more members.
LEMMA PartOfRequests ==
    ASSUME NEW T \in SUBSET Requests, NEW S \in SUBSET T
    PROVE  /\ IsFiniteSet(S) /\ IsFiniteSet(T)
           /\ Cardinality(S) \in Nat /\ Cardinality(T) \in Nat
           /\ Cardinality(S) <= Cardinality(T)
<1>1. IsFiniteSet(T)
  BY LimiterAssumption, FS_Subset
<1>2. IsFiniteSet(S) /\ Cardinality(S) <= Cardinality(T)
  BY <1>1, FS_Subset
<1>3. QED
  BY <1>1, <1>2, FS_CardinalityType

-----------------------------------------------------------------------------
LEMMA InitLimiterInv == Init => LimiterInv
<1> SUFFICES ASSUME Init PROVE LimiterInv
  OBVIOUS
<1> USE LimiterAssumption DEF Init
<1>1. TypeOK
  BY DEF TypeOK, Phases
<1>2. PassedHaveCounted /\ AddersHavePassed /\ KeyOutlives /\ RecentRemembered
  BY DEF PassedHaveCounted, AddersHavePassed, KeyOutlives, RecentRemembered
<1>3. FewInFlight
  <2>1. Unrecorded = {}
    BY DEF Unrecorded
  <2> QED
    BY <2>1, FS_EmptySet DEF FewInFlight
<1>4. OverrunBounded
  <2>1. \A x : Within(x) = {}
    BY DEF Within
  <2> QED
    BY <2>1, FS_EmptySet DEF OverrunBounded
<1>5. AppliedSoFar /\ WritesAppliedOnce
  BY DEF AppliedSoFar, WritesAppliedOnce
<1> QED
  BY <1>1, <1>2, <1>3, <1>4, <1>5 DEF LimiterInv

\* What a step of r does to the sorted set: nothing, ZREMRANGEBYSCORE or ZADD.
RedisStep(r) == Trim(r) \/ Record(r) \/ UNCHANGED redisVars

\* The sorted set stays one of members whose key outlives their window, if what is
\* added has come.
LEMMA RedisKeepsKey ==
    ASSUME TypeOK, KeyOutlives, NEW r \in Requests, RedisStep(r), UNCHANGED <<clock, now>>
    PROVE  /\ ttl' \in 0..(Window + 1) /\ KeyOutlives'
           /\ zset' \subseteq zset \union {r}
<1> USE LimiterAssumption
<1>1. CASE Trim(r)
  <2>1. zset' \subseteq zset
    BY <1>1 DEF Trim, Kept
  <2>2. ttl' \in 0..(Window + 1) /\ (zset' # {} => ttl' = Window + 1)
    BY <1>1 DEF Trim, Expire
  <2>3. \A q \in zset' : now[q] \in Nat /\ now[q] <= clock /\ clock \in Nat
    BY <2>1 DEF TypeOK
  <2> QED
    BY <2>1, <2>2, <2>3 DEF KeyOutlives
<1>2. CASE Record(r)
  <2>1. zset' = zset \union {r}
    BY <1>2 DEF Record
  <2>2. ttl' = Window + 1
    BY <1>2, <2>1 DEF Record, Expire
  <2>3. \A q \in zset' : now[q] \in Nat /\ now[q] <= clock /\ clock \in Nat
    BY <2>1 DEF TypeOK
  <2> QED
    BY <2>1, <2>2, <2>3 DEF KeyOutlives
<1>3. CASE UNCHANGED redisVars
  BY <1>3 DEF redisVars, KeyOutlives, TypeOK
<1> QED
  BY <1>1, <1>2, <1>3 DEF RedisStep

\* A step that lets nobody through leaves in every window whom it had, or fewer.
LEMMA NobodyElse ==
    ASSUME LimiterInv, passed' \ astray' \subseteq passed \ astray,
           \A q \in passed : now'[q] = now[q]
    PROVE  OverrunBounded'
<1> SUFFICES ASSUME NEW x \in 0..MaxClock
             PROVE  Cardinality(Within(x)') < MaxRequests + InFlight
  BY DEF OverrunBounded
<1>1. Within(x)' \subseteq Within(x) /\ Within(x) \subseteq Requests
  BY DEF Within, LimiterInv, TypeOK
<1>2. Cardinality(Within(x)') <= Cardinality(Within(x)) /\ Cardinality(Within(x)) \in Nat
      /\ Cardinality(Within(x)') \in Nat
  BY <1>1, PartOfRequests
<1>3. Cardinality(Within(x)) < MaxRequests + InFlight
  BY DEF LimiterInv, OverrunBounded
<1> QED
  BY <1>2, <1>3, LimiterAssumption

\* A step that leaves no new request before its ZADD keeps them few.
LEMMA NoMoreInFlight ==
    ASSUME LimiterInv, Unrecorded' \subseteq Unrecorded
    PROVE  FewInFlight'
<1>1. Unrecorded \subseteq Requests
  BY DEF Unrecorded
<1>2. Cardinality(Unrecorded') <= Cardinality(Unrecorded)
      /\ Cardinality(Unrecorded') \in Nat /\ Cardinality(Unrecorded) \in Nat
  BY <1>1, PartOfRequests
<1> QED
  BY <1>2, LimiterAssumption DEF LimiterInv, FewInFlight

\* Until it is over a request that does not reach its handler commits nothing.
LEMMA NothingApplied ==
    ASSUME LimiterInv, NEW r \in Requests, UNCHANGED applied,
           at[r] \in {"new", "count", "add"}, at'[r] # "done",
           \A q \in Requests \ {r} : at'[q] = at[q]
    PROVE  AppliedSoFar' /\ WritesAppliedOnce'
BY DEF LimiterInv, AppliedSoFar, WritesAppliedOnce

-----------------------------------------------------------------------------
LEMMA ArriveKeeps ==
    ASSUME LimiterInv, NEW r \in Requests, Arrive(r)
    PROVE  LimiterInv'
<1> USE LimiterAssumption
<1>1. /\ at[r] = "new" /\ at' = [at EXCEPT ![r] = "count"]
      /\ now' = [now EXCEPT ![r] = clock]
      /\ UNCHANGED <<clock, zset, ttl, passed, astray, applied>>
  BY DEF Arrive, Go
<1>2. r \notin passed /\ r \notin zset
  BY <1>1 DEF LimiterInv, PassedHaveCounted, TypeOK
<1>3. \A q \in passed : q # r /\ now'[q] = now[q] /\ at'[q] = at[q]
  BY <1>1, <1>2 DEF LimiterInv, TypeOK
<1>4. TypeOK'
  BY <1>1 DEF LimiterInv, TypeOK, Phases
<1>5. PassedHaveCounted' /\ AddersHavePassed' /\ KeyOutlives' /\ RecentRemembered'
  BY <1>1, <1>3 DEF LimiterInv, PassedHaveCounted, AddersHavePassed, KeyOutlives,
                    RecentRemembered, TypeOK
<1>6. FewInFlight'
  <2>1. Unrecorded' = Unrecorded \union {r} /\ Unrecorded \subseteq Requests
    BY <1>1 DEF Unrecorded, LimiterInv, TypeOK
  <2>2. Cardinality(Unrecorded) \in Nat /\ IsFiniteSet(Unrecorded)
    BY <2>1, PartOfRequests
  <2>3. Cardinality(Unrecorded') = Cardinality(Unrecorded) + 1
    <3>1. r \notin Unrecorded
      BY <1>1 DEF Unrecorded
    <3>2. Cardinality(Unrecorded \union {r}) = Cardinality(Unrecorded) + 1
      BY <2>2, <3>1, FS_AddElement
    <3> QED
      BY <2>1, <3>2
  <2>4. Cardinality(Unrecorded) < InFlight
    BY DEF Arrive
  <2>5. Cardinality(Unrecorded') \in Nat
    <3>1. Unrecorded' \subseteq Requests
      BY <2>1
    <3> QED
      BY <3>1, PartOfRequests
  <2> QED
    BY <2>2, <2>3, <2>4, <2>5 DEF FewInFlight
<1>7. OverrunBounded'
  BY <1>1, <1>3, NobodyElse
<1>8. AppliedSoFar' /\ WritesAppliedOnce'
  BY <1>1, NothingApplied DEF LimiterInv, TypeOK
<1> QED
  BY <1>4, <1>5, <1>6, <1>7, <1>8 DEF LimiterInv

\* Trimming by a request that has waited MaxDelay ticks at most keeps whoever is
\* remembered and may still matter.
LEMMA TrimRemembers ==
    ASSUME LimiterInv, NEW r \in Requests, Trim(r), UNCHANGED now
    PROVE  \A q \in zset : clock < now[q] + Window => q \in zset'
<1>1. clock \in Nat /\ now[r] \in Nat /\ now[r] <= clock
  BY LimiterAssumption DEF LimiterInv, TypeOK
<1>2. \A q \in zset : now[q] \in Nat
  BY LimiterAssumption DEF LimiterInv, TypeOK
<1> QED
  BY <1>1, <1>2, LimiterAssumption DEF Trim, Kept

\* Those of a window who have passed when r counts are in what r counts, or have
\* not added themselves yet.
LEMMA WindowIsCounted ==
    ASSUME LimiterInv, NEW r \in Requests, at[r] = "count",
           NEW x \in 0..MaxClock, now[r] <= x
    PROVE  Within(x) \subseteq Kept(r) \union Unrecorded
<1> USE LimiterAssumption
<1> SUFFICES ASSUME NEW q \in Within(x), q \notin Unrecorded
             PROVE  q \in Kept(r)
  OBVIOUS
<1>1. /\ q \in passed \ astray /\ q \in Requests
      /\ x + MaxDelay < now[q] + Window
  BY DEF Within, LimiterInv, TypeOK
<1>2. /\ clock \in Nat /\ now[q] \in Nat /\ now[r] \in Nat
      /\ now[r] <= clock /\ clock <= now[r] + MaxDelay
  BY <1>1 DEF LimiterInv, TypeOK
<1>3. clock < now[q] + Window /\ now[r] < now[q] + Window
  BY <1>1, <1>2
<1>4. at[q] # "add"
  BY <1>1 DEF Unrecorded
<1>5. q \in zset
  BY <1>1, <1>3, <1>4 DEF LimiterInv, RecentRemembered
<1> QED
  BY <1>3, <1>5 DEF Kept

LEMMA CountKeeps ==
    ASSUME LimiterInv, NEW r \in Requests, Count(r)
    PROVE  LimiterInv'
<1> USE LimiterAssumption
<1>1. at[r] = "count" /\ Trim(r) /\ UNCHANGED <<clock, now, astray, applied>>
  BY DEF Count
<1>2. RedisStep(r) /\ zset' \subseteq zset
  BY <1>1 DEF RedisStep, Trim, Kept
<1>3. ttl' \in 0..(Window + 1) /\ KeyOutlives'
  BY <1>1, <1>2, RedisKeepsKey DEF LimiterInv
<1>4. r \notin passed /\ r \in Unrecorded
  BY <1>1 DEF LimiterInv, PassedHaveCounted, Unrecorded
<1>5. \/ Go(r, "refused") /\ UNCHANGED passed
      \/ Go(r, "add") /\ passed' = passed \union {r}
  BY DEF Count
<1>6. /\ \A q \in Requests \ {r} : at'[q] = at[q]
      /\ at'[r] \in {"refused", "add"} /\ (at'[r] = "refused" => passed' = passed)
      /\ at' \in [Requests -> Phases]
      /\ passed \subseteq passed' /\ passed' \subseteq passed \union {r}
  BY <1>5 DEF Go, LimiterInv, TypeOK, Phases
<1>7. TypeOK'
  BY <1>1, <1>2, <1>3, <1>6 DEF LimiterInv, TypeOK
<1>8. PassedHaveCounted' /\ AddersHavePassed'
  BY <1>4, <1>5, <1>6 DEF LimiterInv, PassedHaveCounted, AddersHavePassed, TypeOK, Go
<1>9. RecentRemembered'
  <2> SUFFICES ASSUME NEW q \in passed' \ astray, clock < now[q] + Window
               PROVE  q \in zset' \/ at'[q] = "add"
    BY <1>1 DEF RecentRemembered
  <2>1. CASE q = r
    BY <2>1, <1>4, <1>6
  <2>2. CASE q # r
    <3>1. q \in passed \ astray /\ at'[q] = at[q]
      BY <2>2, <1>6 DEF LimiterInv, TypeOK
    <3>2. q \in zset \/ at[q] = "add"
      BY <3>1 DEF LimiterInv, RecentRemembered
    <3> QED
      BY <3>1, <3>2, <1>1, TrimRemembers
  <2> QED
    BY <2>1, <2>2
<1>10. FewInFlight'
  <2>1. Unrecorded' \subseteq Unrecorded
    BY <1>4, <1>6 DEF Unrecorded
  <2> QED
    BY <2>1, NoMoreInFlight
<1>11. OverrunBounded'
  <2>1. CASE passed' = passed
    BY <2>1, <1>1, NobodyElse
  <2>2. CASE passed' # passed
    <3>1. Cardinality(Kept(r)) < MaxRequests
      <4>1. Kept(r) \subseteq Requests
        BY DEF Kept, LimiterInv, TypeOK
      <4>2. Cardinality(Kept(r)) \in Nat
        BY <4>1, PartOfRequests
      <4> QED
        BY <4>2, <2>2 DEF Count
    <3> SUFFICES ASSUME NEW x \in 0..MaxClock
                 PROVE  Cardinality(Within(x)') < MaxRequests + InFlight
      BY DEF OverrunBounded
    <3>2. Within(x)' \subseteq Within(x) \union {r} /\ Within(x) \subseteq Requests
      BY <1>1, <1>6 DEF Within, LimiterInv, TypeOK
    <3>3. CASE r \in Within(x)'
      <4>1. now[r] <= x
        BY <3>3, <1>1 DEF Within
      <4>2. Within(x)' \subseteq Kept(r) \union Unrecorded
        BY <4>1, <3>2, <1>1, <1>4, WindowIsCounted
      <4>3. Kept(r) \subseteq Requests /\ Unrecorded \subseteq Requests
        BY DEF Kept, Unrecorded, LimiterInv, TypeOK
      <4>4. /\ IsFiniteSet(Kept(r)) /\ IsFiniteSet(Unrecorded)
            /\ Cardinality(Kept(r)) \in Nat /\ Cardinality(Unrecorded) \in Nat
            /\ Cardinality(Kept(r) \intersect Unrecorded) \in Nat
        BY <4>3, PartOfRequests
      <4>5. Cardinality(Kept(r) \union Unrecorded)
               = Cardinality(Kept(r)) + Cardinality(Unrecorded)
                 - Cardinality(Kept(r) \intersect Unrecorded)
        BY <4>4, FS_Union
      <4>6. Cardinality(Unrecorded) <= InFlight
        BY DEF LimiterInv, FewInFlight
      <4>7. /\ Cardinality(Within(x)') <= Cardinality(Kept(r) \union Unrecorded)
            /\ Cardinality(Within(x)') \in Nat
        BY <4>2, <4>3, PartOfRequests
      <4> QED
        BY <4>4, <4>5, <4>6, <4>7, <3>1
    <3>4. CASE r \notin Within(x)'
      <4>1. Within(x)' \subseteq Within(x)
        BY <3>2, <3>4
      <4>2. Cardinality(Within(x)') <= Cardinality(Within(x))
            /\ Cardinality(Within(x)') \in Nat /\ Cardinality(Within(x)) \in Nat
        BY <4>1, <3>2, PartOfRequests
      <4>3. Cardinality(Within(x)) < MaxRequests + InFlight
        BY DEF LimiterInv, OverrunBounded
      <4> QED
        BY <4>2, <4>3
    <3> QED
      BY <3>3, <3>4
  <2> QED
    BY <2>1, <2>2
<1>12. AppliedSoFar' /\ WritesAppliedOnce'
  BY <1>1, <1>6, NothingApplied
<1> QED
  BY <1>3, <1>7, <1>8, <1>9, <1>10, <1>11, <1>12 DEF LimiterInv

\* The second round trip, whether it succeeds or not, lets nobody through.
LEMMA AddKeeps ==
    ASSUME LimiterInv, NEW r \in Requests, Add(r) \/ AddFails(r)
    PROVE  LimiterInv'
<1> USE LimiterAssumption
<1>1. /\ at[r] = "add" /\ UNCHANGED <<clock, now, passed, applied>>
      /\ Record(r) \/ UNCHANGED redisVars
      /\ astray' = astray \/ astray' = astray \union {r}
      /\ r \in astray' \/ Record(r)
      /\ at' \in [Requests -> Phases]
      /\ \A q \in Requests \ {r} : at'[q] = at[q]
      /\ at'[r] \in {"handler", "again", "dead"}
  BY DEF Add, AddFails, Go, LimiterInv, TypeOK, Phases
<1>2. RedisStep(r) /\ zset \subseteq zset' /\ (r \in zset' \/ r \in astray')
  BY <1>1 DEF RedisStep, Record, redisVars
<1>3. ttl' \in 0..(Window + 1) /\ KeyOutlives' /\ zset' \subseteq zset \union {r}
  BY <1>1, <1>2, RedisKeepsKey DEF LimiterInv
<1>4. r \in passed
  BY <1>1 DEF LimiterInv, AddersHavePassed
<1>5. TypeOK' /\ PassedHaveCounted' /\ AddersHavePassed'
  BY <1>1, <1>3, <1>4 DEF LimiterInv, TypeOK, PassedHaveCounted, AddersHavePassed
<1>6. RecentRemembered'
  <2> SUFFICES ASSUME NEW q \in passed \ astray', clock < now[q] + Window
               PROVE  q \in zset' \/ at'[q] = "add"
    BY <1>1 DEF RecentRemembered
  <2>1. CASE q = r
    BY <2>1, <1>2
  <2>2. CASE q # r
    BY <2>2, <1>1, <1>2 DEF LimiterInv, RecentRemembered, TypeOK
  <2> QED
    BY <2>1, <2>2
<1>7. FewInFlight'
  <2>1. Unrecorded' \subseteq Unrecorded
    BY <1>1 DEF Unrecorded
  <2> QED
    BY <2>1, NoMoreInFlight
<1>8. OverrunBounded'
  BY <1>1, NobodyElse
<1>9. AppliedSoFar' /\ WritesAppliedOnce'
  BY <1>1, NothingApplied
<1> QED
  BY <1>3, <1>5, <1>6, <1>7, <1>8, <1>9 DEF LimiterInv

\* What the handler commits: a write that is called again has committed nothing,
\* because it was its purge that raised.
LEMMA HandlerApplies ==
    ASSUME LimiterInv, NEW r \in Requests, Handle(r) \/ HandlerRaises(r)
    PROVE  /\ applied' \in [Requests -> 0..2]
           /\ AppliedSoFar' /\ WritesAppliedOnce'
<1>1. /\ at \in [Requests -> Phases] /\ applied \in [Requests -> 0..2]
      /\ at[r] \in {"handler", "again"}
      /\ applied[r] \in 0..1 /\ (r \notin CommitFirst => applied[r] = 0)
      /\ at[r] = "handler" => applied[r] = 0
  BY DEF Handle, HandlerRaises, LimiterInv, TypeOK, AppliedSoFar
<1>2. CASE Handle(r)
  BY <1>1, <1>2
     DEF Handle, Go, Commits, LimiterInv, AppliedSoFar, WritesAppliedOnce
<1>3. CASE HandlerRaises(r)
  BY <1>1, <1>3
     DEF HandlerRaises, Go, Commits, LimiterInv, AppliedSoFar, WritesAppliedOnce
<1> QED
  BY <1>2, <1>3

\* A count that fails, and the handler, let nobody through either.
LEMMA OthersKeep ==
    ASSUME LimiterInv, NEW r \in Requests,
           CountFails(r) \/ Handle(r) \/ HandlerRaises(r)
    PROVE  LimiterInv'
<1> USE LimiterAssumption
<1>1. /\ at[r] \in {"count", "handler", "again"}
      /\ UNCHANGED <<clock, now, passed, astray>>
      /\ Trim(r) \/ UNCHANGED redisVars
      /\ at' \in [Requests -> Phases]
      /\ \A q \in Requests \ {r} : at'[q] = at[q]
      /\ at'[r] \in {"done", "again", "dead"}
  BY DEF CountFails, Handle, HandlerRaises, Go, LimiterInv, TypeOK, Phases, redisVars
<1>2. RedisStep(r) /\ zset' \subseteq zset
  BY <1>1 DEF RedisStep, Trim, Kept, redisVars
<1>3. ttl' \in 0..(Window + 1) /\ KeyOutlives'
  BY <1>1, <1>2, RedisKeepsKey DEF LimiterInv
<1>4. applied' \in [Requests -> 0..2] /\ AppliedSoFar' /\ WritesAppliedOnce'
  <2>1. CASE CountFails(r)
    <3>1. at[r] = "count" /\ UNCHANGED applied /\ at'[r] # "done"
      BY <2>1 DEF CountFails, Go, LimiterInv, TypeOK
    <3> QED
      BY <3>1, <1>1, NothingApplied DEF LimiterInv, TypeOK
  <2> QED
    BY <2>1, HandlerApplies
<1>5. TypeOK' /\ PassedHaveCounted' /\ AddersHavePassed'
  BY <1>1, <1>2, <1>3, <1>4 DEF LimiterInv, TypeOK, PassedHaveCounted, AddersHavePassed
<1>6. RecentRemembered'
  <2> SUFFICES ASSUME NEW q \in passed \ astray, clock < now[q] + Window
               PROVE  q \in zset' \/ at'[q] = "add"
    BY <1>1 DEF RecentRemembered
  <2>1. q \in zset \/ at[q] = "add"
    BY DEF LimiterInv, RecentRemembered
  <2>2. q \in zset => q \in zset'
    BY <1>1, TrimRemembers DEF redisVars
  <2>3. at[q] = "add" => at'[q] = "add"
    BY <1>1 DEF LimiterInv, TypeOK
  <2> QED
    BY <2>1, <2>2, <2>3
<1>7. FewInFlight'
  <2>1. Unrecorded' \subseteq Unrecorded
    BY <1>1 DEF Unrecorded
  <2> QED
    BY <2>1, NoMoreInFlight
<1>8. OverrunBounded'
  BY <1>1, NobodyElse
<1> QED
  BY <1>3, <1>5, <1>6, <1>7, <1>8, <1>4 DEF LimiterInv

\* A key that expires takes only members with it whose window is over.
LEMMA TickKeeps ==
    ASSUME LimiterInv, Tick
    PROVE  LimiterInv'
<1> USE LimiterAssumption
<1>1. /\ clock \in Nat /\ clock < MaxClock /\ clock' = clock + 1
      /\ ttl \in 0..(Window + 1) /\ ttl' = IF ttl = 0 THEN 0 ELSE ttl - 1
      /\ zset' = IF ttl' = 0 THEN {} ELSE zset
      /\ UNCHANGED <<at, now, passed, astray, applied>>
      /\ \A r \in Requests : at[r] = "count" => clock < now[r] + MaxDelay
  BY DEF Tick, LimiterInv, TypeOK
<1>2. \A r \in passed : r \in Requests /\ now[r] \in Nat
  BY DEF LimiterInv, TypeOK
<1>3. \A r \in zset : r \in passed /\ now[r] + Window < clock + ttl
  BY DEF LimiterInv, TypeOK, KeyOutlives
<1>4. TypeOK'
  BY <1>1 DEF LimiterInv, TypeOK
<1>5. KeyOutlives'
  BY <1>1, <1>2, <1>3 DEF KeyOutlives
<1>6. RecentRemembered'
  <2> SUFFICES ASSUME NEW r \in passed \ astray, clock + 1 < now[r] + Window
               PROVE  r \in zset' \/ at[r] = "add"
    BY <1>1 DEF RecentRemembered
  <2>1. r \in zset \/ at[r] = "add"
    BY <1>1, <1>2 DEF LimiterInv, RecentRemembered
  <2>2. r \in zset => ttl' # 0
    BY <1>1, <1>2, <1>3
  <2> QED
    BY <1>1, <2>1, <2>2
<1>7. PassedHaveCounted' /\ AddersHavePassed'
  BY <1>1 DEF LimiterInv, PassedHaveCounted, AddersHavePassed
<1>8. FewInFlight'
  BY <1>1, NoMoreInFlight DEF Unrecorded
<1>9. OverrunBounded'
  BY <1>1, NobodyElse
<1>10. AppliedSoFar' /\ WritesAppliedOnce'
  BY <1>1 DEF LimiterInv, AppliedSoFar, WritesAppliedOnce
<1> QED
  BY <1>4, <1>5, <1>6, <1>7, <1>8, <1>9, <1>10 DEF LimiterInv

LEMMA StutterKeeps == LimiterInv /\ UNCHANGED vars => LimiterInv'
BY DEF LimiterInv, vars, TypeOK, PassedHaveCounted, AddersHavePassed, KeyOutlives,
       RecentRemembered, FewInFlight, Unrecorded, OverrunBounded, Within,
       AppliedSoFar, WritesAppliedOnce

LEMMA LimiterInvariant == Spec => []LimiterInv
<1>1. LimiterInv /\ [Next]_vars => LimiterInv'
  BY ArriveKeeps, CountKeeps, AddKeeps, OthersKeep, TickKeeps, StutterKeeps
     DEF Next, RequestStep
<1> QED
  BY <1>1, InitLimiterInv, PTL DEF Spec

-----------------------------------------------------------------------------
\* The types of RateLimiter: only who was let through is a member of the sorted
\* set, and no count is older than MaxDelay (rate_limit.py:44-64).
THEOREM LimiterTypes == Spec => []TypeOK
BY LimiterInvariant, PTL DEF LimiterInv

\* However requests of one client interleave, fail and die, at most
\* MaxRequests + InFlight - 1 of those that came in a window are let through by
\* the limiter (rate_limit.py:44-64).
THEOREM OverrunIsBounded == Spec => []OverrunBounded
BY LimiterInvariant, PTL DEF LimiterInv

\* No trimming and no expiry forgets a request of the last Window ticks
\* (rate_limit.py:50-52, 63).
THEOREM RecentAreRemembered == Spec => []RecentRemembered
BY LimiterInvariant, PTL DEF LimiterInv

\* A write of write.py is applied once at most, although a RedisError of its purge
\* makes the limiter call its handler again (rate_limit.py:73-75, write.py:156-157).
THEOREM WritesAreAppliedOnce == Spec => []WritesAppliedOnce
BY LimiterInvariant, PTL DEF LimiterInv

\* Every refusal has MaxRequests others, let through in the window before it, for
\* its reason (rate_limit.py:57-58).
THEOREM RefusalsAreForOthers == Spec => RefusedForOthers
<1>1. ASSUME LimiterInv, [Next]_vars, NEW r \in Requests,
             at[r] = "count", at'[r] = "refused"
      PROVE  /\ r \notin passed'
             /\ Cardinality({q \in passed : now[q] + Window > now[r]}) >= MaxRequests
  <2> DEFINE Recent == {q \in passed : now[q] + Window > now[r]}
  <2>1. Count(r)
    <3>1. at'[r] # at[r]
      BY <1>1
    <3>2. at \in [Requests -> Phases]
      BY <1>1 DEF LimiterInv, TypeOK
    <3>3. \A q \in Requests : RequestStep(q) => q = r \/ at'[r] = at[r]
      BY <3>2 DEF RequestStep, Arrive, Count, Add, CountFails, AddFails, Handle,
                      HandlerRaises, Go
    <3>4. RequestStep(r)
      BY <1>1, <3>1, <3>3 DEF Next, Tick, vars
    <3> QED
      BY <1>1, <3>2, <3>4
         DEF RequestStep, Arrive, Add, CountFails, AddFails, Handle, HandlerRaises, Go
  <2>2. Cardinality(Kept(r)) >= MaxRequests /\ passed' = passed
    <3>1. at \in [Requests -> Phases]
      BY <1>1 DEF LimiterInv, TypeOK
    <3> QED
      BY <1>1, <2>1, <3>1 DEF Count, Go
  <2>3. r \notin passed
    BY <1>1 DEF LimiterInv, PassedHaveCounted
  <2>4. Kept(r) \subseteq Recent /\ Recent \subseteq Requests
    BY <1>1 DEF Kept, LimiterInv, TypeOK
  <2>5. /\ Cardinality(Kept(r)) \in Nat /\ Cardinality(Recent) \in Nat
        /\ Cardinality(Kept(r)) <= Cardinality(Recent)
    BY <2>4, PartOfRequests
  <2> QED
    BY <2>2, <2>3, <2>5, LimiterAssumption
<1>2. LimiterInv /\ [Next]_vars => \A r \in Requests : at[r] = "count" /\ at'[r] = "refused" =>
          /\ r \notin passed'
          /\ Cardinality({q \in passed : now[q] + Window > now[r]}) >= MaxRequests
  BY <1>1
<1> QED
  BY <1>2, LimiterInvariant, PTL DEF Spec, RefusedForOthers
==============================================================================
