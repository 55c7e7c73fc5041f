----------------------------- MODULE RateLimiter ------------------------------
(***************************************************************************)
(* middleware/rate_limit.py for one client address: a sorted set in Redis, *)
(* whose members are requests and whose scores are the times they came.    *)
(* A request counts in one round trip and adds itself in another, between  *)
(* which others of the client may count; any Redis error lets it through.  *)
(*                                                                         *)
(* A request runs once, so that it is a member under its own name.         *)
(***************************************************************************)
EXTENDS Naturals, FiniteSets

CONSTANTS
    Requests,      \* the requests of the client that are limited at all
    CommitFirst,   \* those whose handler commits before it purges the cache: the
                   \* source toggle and the taxonomy of the admin; the writes of
                   \* write.py purge first
    MaxRequests,   \* rate_limit_max_requests
    Window,        \* rate_limit_window_seconds, in ticks
    InFlight,      \* requests the client has between arrival and ZADD at once
    MaxDelay,      \* ticks from time.time() until Redis has counted
    MaxClock       \* bound: the last tick

ASSUME LimiterAssumption ==
    /\ IsFiniteSet(Requests) /\ CommitFirst \subseteq Requests
    /\ MaxRequests \in Nat /\ Window \in Nat /\ InFlight \in Nat \ {0}
    /\ MaxDelay \in Nat /\ MaxClock \in Nat

VARIABLES
    clock,    \* time.time() of the host all workers run on
    zset,     \* members of the sorted set; the score of r is now[r]
    ttl,      \* ticks until the key expires, 0 when there is none
    at,       \* at[r]: where the request is in dispatch
    now,      \* now[r]: when it came
    passed,   \* ghost: whom the count has let through
    astray,   \* ghost: whose ZADD had no reply
    applied   \* applied[r]: commits of the handler of r

vars == <<clock, zset, ttl, at, now, passed, astray, applied>>
redisVars == <<zset, ttl>>

Phases == {"new", "count", "add",           \* before the handler
           "handler", "again", "done",      \* in it, in it again, after it
           "refused", "dead"}
Unrecorded == {r \in Requests : at[r] \in {"count", "add"}}

Init == /\ clock = 0 /\ zset = {} /\ ttl = 0 /\ passed = {} /\ astray = {}
        /\ at = [r \in Requests |-> "new"]
        /\ now = [r \in Requests |-> 0]
        /\ applied = [r \in Requests |-> 0]

Go(r, phase) == at' = [at EXCEPT ![r] = phase]

\* The assumption about the client is in the guard.
Arrive(r) ==
    /\ at[r] = "new" /\ Cardinality(Unrecorded) < InFlight
    /\ Go(r, "count")
    /\ now' = [now EXCEPT ![r] = clock]
    /\ UNCHANGED <<clock, zset, ttl, passed, astray, applied>>

\* What ZREMRANGEBYSCORE up to window_start leaves, and ZCARD counts.
Kept(r) == {q \in zset : now[q] + Window > now[r]}

\* The two pipelines, each a MULTI. EXPIRE does nothing for an empty set.
Expire == ttl' = IF zset' = {} THEN 0 ELSE Window + 1
Record(r) == zset' = zset \union {r} /\ Expire
\* Mutant of Trim: the request adds itself before it counts.
TrimAndRecord(r) == zset' = Kept(r) \union {r} /\ Expire
Trim(r) == zset' = Kept(r) /\ Expire

\* Mutant of Count: one request too many.
CountOneMore(r) ==
    /\ at[r] = "count" /\ Trim(r)
    /\ IF Cardinality(Kept(r)) > MaxRequests
       THEN Go(r, "refused") /\ UNCHANGED passed
       ELSE Go(r, "add") /\ passed' = passed \union {r}
    /\ UNCHANGED <<clock, now, astray, applied>>

Count(r) ==
    /\ at[r] = "count" /\ Trim(r)
    /\ IF Cardinality(Kept(r)) >= MaxRequests
       THEN Go(r, "refused") /\ UNCHANGED passed
       ELSE Go(r, "add") /\ passed' = passed \union {r}
    /\ UNCHANGED <<clock, now, astray, applied>>

Add(r) ==
    /\ at[r] = "add" /\ Record(r)
    /\ Go(r, "handler")
    /\ UNCHANGED <<clock, now, passed, astray, applied>>

\* A RedisError lets the request through, the death of the worker ends it; the
\* pipeline on its way may be executed all the same.
CountFails(r) ==
    /\ at[r] = "count"
    /\ Trim(r) \/ UNCHANGED redisVars
    /\ Go(r, "again") \/ Go(r, "dead")
    /\ UNCHANGED <<clock, now, passed, astray, applied>>

AddFails(r) ==
    /\ at[r] = "add"
    /\ Record(r) \/ UNCHANGED redisVars
    /\ Go(r, "again") \/ Go(r, "dead")
    /\ astray' = astray \union {r}
    /\ UNCHANGED <<clock, now, passed, applied>>

\* The handler commits and answers.  One that answers without a commit only makes
\* the number of commits smaller.
Commits(r) == applied' = [applied EXCEPT ![r] = @ + 1]
Handle(r) ==
    /\ at[r] \in {"handler", "again"} /\ Go(r, "done") /\ Commits(r)
    /\ UNCHANGED <<clock, zset, ttl, now, passed, astray>>

\* A RedisError leaves the handler, from its purge if it writes.  The except block
\* takes it for an error of the limiter and calls the handler again.
\* Mutant of HandlerRaises: the purges of write.py come after the commit.
HandlerRaisesLate(r) ==
    /\ \/ at[r] = "handler" /\ Go(r, "again")
       \/ at[r] = "again" /\ Go(r, "done")
    /\ Commits(r)
    /\ UNCHANGED <<clock, zset, ttl, now, passed, astray>>
HandlerRaises(r) ==
    /\ \/ at[r] = "handler" /\ Go(r, "again")
       \/ at[r] = "again" /\ Go(r, "done")
    /\ IF r \in CommitFirst THEN Commits(r) ELSE UNCHANGED applied
    /\ UNCHANGED <<clock, zset, ttl, now, passed, astray>>

\* Time passes; a key whose TTL is over is gone.
Tick ==
    /\ clock < MaxClock
    /\ \A r \in Requests : at[r] = "count" => clock < now[r] + MaxDelay
    /\ clock' = clock + 1
    /\ ttl' = IF ttl = 0 THEN 0 ELSE ttl - 1
    /\ zset' = IF ttl' = 0 THEN {} ELSE zset
    /\ UNCHANGED <<at, now, passed, astray, applied>>

RequestStep(r) == \/ Arrive(r) \/ Count(r) \/ Add(r)
                  \/ CountFails(r) \/ AddFails(r) \/ Handle(r) \/ HandlerRaises(r)
Next == Tick \/ \E r \in Requests : RequestStep(r)
Spec == Init /\ [][Next]_vars

-----------------------------------------------------------------------------
\* Whom the limiter has let through, and not an error, in the Window - MaxDelay
\* ticks that end at x.
Within(x) == {r \in passed \ astray : now[r] <= x /\ x + MaxDelay < now[r] + Window}

\* Types; and a request that waits for its count has come MaxDelay ticks ago at
\* most, which is what Tick grants.
TypeOK ==
    /\ clock \in 0..MaxClock /\ ttl \in 0..(Window + 1)
    /\ zset \subseteq passed /\ passed \subseteq Requests /\ astray \subseteq passed
    /\ applied \in [Requests -> 0..2]
    /\ at \in [Requests -> Phases] /\ now \in [Requests -> 0..MaxClock]
    /\ \A r \in Requests : now[r] <= clock
    /\ \A r \in Requests : at[r] = "count" => clock <= now[r] + MaxDelay

\* Requests that count before others have added themselves exceed the limit
\* together, by those in flight and no more, in whatever order they count, add
\* and come; a delay between time.time() and Redis shortens the window that is
\* watched by that delay (rate_limit.py:44-64).
OverrunBounded ==
    \A x \in 0..MaxClock : Cardinality(Within(x)) < MaxRequests + InFlight

\* Who is refused is refused for MaxRequests requests of the Window before it
\* that were let through: a refusal counts for nobody, itself or others, which is
\* why the code counts before it adds (README.md:228, rate_limit.py:57-58).
RefusedForOthers ==
    [][\A r \in Requests : at[r] = "count" /\ at'[r] = "refused" =>
          /\ r \notin passed'
          /\ Cardinality({q \in passed : now[q] + Window > now[r]}) >= MaxRequests]_vars

\* The limiter catches what leaves the handler, and the handler runs again: a write
\* of write.py is applied once all the same, because it purges before it commits
\* and the purge is all that raises (rate_limit.py:73-75, write.py:156-157).
WritesAppliedOnce == \A r \in Requests \ CommitFirst : applied[r] <= 1
==============================================================================
