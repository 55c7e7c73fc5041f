------------------------------ MODULE ReadCache ------------------------------
(***************************************************************************)
(* One cache key of the read endpoints: cache_get_or_set, the fallback of  *)
(* its callers (query_api.py), the invalidation the writers run before     *)
(* they commit, and the three clocks that decide what survives: the TTL of *)
(* the cached entry, the TTL of the stampede lock, and the snapshot of the *)
(* request, pinned when its REPEATABLE READ session is opened (db.py).     *)
(*                                                                         *)
(* The data is the number of the committed version it was computed from.   *)
(* Time is counted in ticks; every step takes place within a tick.         *)
(***************************************************************************)
EXTENDS Naturals, FiniteSets

CONSTANTS
    Readers,      \* request slots: a slot serves one request after another
    Writers,      \* concurrent write transactions
    MaxVersion,   \* bound: commits that change the data behind the key
    LockTimeout,  \* _LOCK_TIMEOUT: TTL of the lock and length of the polling
    EntryTTL,     \* ttl or settings.cache_ttl
    MaxWork,      \* ticks a handler may take besides polling: its statements
                  \* have statement_timeout, the 504 of the request does not
                  \* end it
    Nobody,       \* owner of a free lock
    NoAnswer, Failed

ASSUME ConstantsAssumption ==
    /\ MaxVersion \in Nat /\ LockTimeout \in Nat \ {0}
    /\ EntryTTL \in Nat \ {0} /\ MaxWork \in Nat
    /\ Nobody \notin Readers
    /\ NoAnswer \notin Nat /\ Failed \notin Nat

VARIABLES
    db,         \* committed version in Postgres
    stale,      \* stale[v]: ticks since v was superseded (ghost)
    entry,      \* the cached value under the key, ttl = 0 when absent
    lock,       \* the key's ":lock"; Redis stores no owner, by is a ghost
    req,        \* req[r]: the request the slot serves, a record of
                \*   at      where it is in cache_get_or_set or its caller
                \*   snap    the version its database snapshot shows
                \*   work    ticks spent outside polling since the snapshot
                \*   polled  ticks spent polling
    ans,        \* ans[r]: the answer of the slot's latest request
    purging,    \* purging[w]: keys the writer's SCAN has still to visit
    writing,    \* writers between their first statement and their commit
    lockLost    \* ghost: some live owner lost the lock to TTL or SCAN

vars == <<db, stale, entry, lock, req, ans,
          purging, writing, lockLost>>
dbVars == <<db, stale>>
writeVars == <<purging, writing>>

Versions == 0..MaxVersion

\* The oldest answer the clocks allow: a snapshot may be MaxWork +
\* LockTimeout ticks old when its value is cached, and stays for EntryTTL.
StaleBound == MaxWork + LockTimeout + EntryTTL

Promise == INSTANCE StaleRegister WITH
    Readers <- Readers, MaxVersion <- MaxVersion, StaleBound <- StaleBound,
    NoAnswer <- NoAnswer, Failed <- Failed,
    db <- db, stale <- stale, ans <- ans

NoEntry == [val |-> 0, ttl |-> 0]
NoLock  == [by |-> Nobody, ttl |-> 0]
Cached(v) == [val |-> v, ttl |-> EntryTTL]

Phases == {"idle", "lookup", "acquire", "poll",      \* before or without lock
           "check", "fetch", "release",              \* inside the try block
           "fallback", "store"}                      \* the caller's own fetch
Request == [at : Phases, snap : Versions, work : Nat, polled : Nat]
Idle == [at |-> "idle", snap |-> 0, work |-> 0, polled |-> 0]

InTry(r) == req[r].at \in {"check", "fetch", "release"}
Active(r) == req[r].at # "idle"
Age(r) == req[r].work + req[r].polled

GoTo(r, phase) == req' = [req EXCEPT ![r].at = phase]
Finish(r) == req' = [req EXCEPT ![r] = Idle]
Reply(r, a) == ans' = [ans EXCEPT ![r] = a]

Init ==
    /\ Promise!Init
    /\ entry = NoEntry
    /\ lock = NoLock
    /\ req = [r \in Readers |-> Idle]
    /\ purging = [w \in Writers |-> {}]
    /\ writing = {}
    /\ lockLost = FALSE

------------------------------------------------------------------------------
(* Requests *)

\* Mutant of Open: the pooled connection kept its transaction, and with it
\* the snapshot of the first version.
OpenOnOldSnapshot(r) ==
    /\ req[r].at = "idle"
    /\ req' = [req EXCEPT ![r] = [Idle EXCEPT !.at = "lookup"]]
    /\ Reply(r, NoAnswer)
    /\ UNCHANGED <<dbVars, entry, lock, writeVars, lockLost>>

\* get_session: its first statement pins the snapshot, before any cache call.
Open(r) ==
    /\ req[r].at = "idle"
    /\ req' = [req EXCEPT ![r] = [Idle EXCEPT !.at = "lookup", !.snap = db]]
    /\ Reply(r, NoAnswer)
    /\ UNCHANGED <<dbVars, entry, lock, writeVars, lockLost>>

\* Mutant of Lookup: a hit gives the entry its whole TTL again.
LookupSliding(r) ==
    /\ req[r].at = "lookup"
    /\ \/ /\ entry.ttl > 0
          /\ Reply(r, entry.val) /\ Finish(r)
          /\ entry' = Cached(entry.val)
       \/ /\ entry.ttl = 0
          /\ GoTo(r, "acquire") /\ UNCHANGED <<ans, entry>>
    /\ UNCHANGED <<dbVars, lock, writeVars, lockLost>>

\* The first client.get.
Lookup(r) ==
    /\ req[r].at = "lookup"
    /\ \/ /\ entry.ttl > 0
          /\ Reply(r, entry.val) /\ Finish(r)
       \/ /\ entry.ttl = 0
          /\ GoTo(r, "acquire") /\ UNCHANGED ans
    /\ UNCHANGED <<dbVars, entry, lock, writeVars, lockLost>>

\* SET lock NX EX 5.
Acquire(r) ==
    /\ req[r].at = "acquire"
    /\ \/ /\ lock.ttl = 0
          /\ lock' = [by |-> r, ttl |-> LockTimeout]
          /\ GoTo(r, "check")
       \/ /\ lock.ttl > 0
          /\ GoTo(r, "poll") /\ UNCHANGED lock
    /\ UNCHANGED <<dbVars, entry, ans, writeVars, lockLost>>

\* One client.get of the polling loop that finds the value.
PollHit(r) ==
    /\ req[r].at = "poll"
    /\ entry.ttl > 0
    /\ Reply(r, entry.val) /\ Finish(r)
    /\ UNCHANGED <<dbVars, entry, lock, writeVars, lockLost>>

\* Mutant of PollGiveUp: no limit on the retries.
PollForever(r) == req[r].at = "poll" /\ FALSE

\* Mutant of PollGiveUp: the polling is inside the try, so its finally runs.
PollGiveUpInTry(r) ==
    /\ req[r].at = "poll"
    /\ req[r].polled = LockTimeout
    /\ entry.ttl = 0
    /\ lock' = NoLock
    /\ GoTo(r, "fallback")
    /\ UNCHANGED <<dbVars, entry, ans, writeVars, lockLost>>

\* The last poll found nothing: return (None, "MISS").
PollGiveUp(r) ==
    /\ req[r].at = "poll"
    /\ req[r].polled = LockTimeout
    /\ entry.ttl = 0
    /\ GoTo(r, "fallback")
    /\ UNCHANGED <<dbVars, entry, lock, ans, writeVars, lockLost>>

\* The double check after the lock was acquired.
DoubleCheck(r) ==
    /\ req[r].at = "check"
    /\ \/ /\ entry.ttl > 0
          /\ Reply(r, entry.val) /\ GoTo(r, "release")
       \/ /\ entry.ttl = 0
          /\ GoTo(r, "fetch") /\ UNCHANGED ans
    /\ UNCHANGED <<dbVars, entry, lock, writeVars, lockLost>>

\* fetch_fn reads the request's snapshot, then client.set(key, ex=ttl).
FetchAndStore(r) ==
    /\ req[r].at = "fetch"
    /\ entry' = Cached(req[r].snap)
    /\ Reply(r, req[r].snap) /\ GoTo(r, "release")
    /\ UNCHANGED <<dbVars, lock, writeVars, lockLost>>

\* An exception inside the try, nothing cached: fetch_fn raised (not found, a
\* statement timeout) or Redis did.
FetchFail(r) ==
    /\ req[r].at \in {"check", "fetch"}
    /\ Reply(r, Failed) /\ GoTo(r, "release")
    /\ UNCHANGED <<dbVars, entry, lock, writeVars, lockLost>>

\* finally: delete(lock_key), whoever holds it by now.
Release(r) ==
    /\ req[r].at = "release"
    /\ lock' = NoLock
    /\ Finish(r)
    /\ UNCHANGED <<dbVars, entry, ans, writeVars, lockLost>>

\* The caller's _fetch() outside the lock, then cache_set_async.
Fallback(r) ==
    /\ req[r].at = "fallback"
    /\ \/ Reply(r, req[r].snap) /\ GoTo(r, "store")
       \/ Reply(r, Failed) /\ Finish(r)
    /\ UNCHANGED <<dbVars, entry, lock, writeVars, lockLost>>

\* The background task of cache_set_async; its error is only logged.
Store(r) ==
    /\ req[r].at = "store"
    /\ \/ entry' = Cached(req[r].snap)
       \/ UNCHANGED entry
    /\ Finish(r)
    /\ UNCHANGED <<dbVars, lock, ans, writeVars, lockLost>>

\* The worker dies, or a Redis call raises: no finally, or one that fails too.
\* A request that was answered already loses only its background task.
Crash(r) ==
    /\ Active(r)
    /\ Finish(r)
    /\ IF req[r].at = "store" THEN UNCHANGED ans ELSE Reply(r, Failed)
    /\ UNCHANGED <<dbVars, entry, lock, writeVars, lockLost>>

------------------------------------------------------------------------------
(* Writers *)

\* A write transaction has flushed and starts cache_delete_pattern.
BeginWrite(w) ==
    /\ w \notin writing
    /\ db < MaxVersion
    /\ writing' = writing \union {w}
    /\ purging' = [purging EXCEPT ![w] = {"entry", "lock"}]
    /\ UNCHANGED <<dbVars, entry, lock, req, ans, lockLost>>

\* SCAN visits the two keys in any order and deletes each on its own: the
\* lock key matches the pattern of its endpoint like the entry does.
PurgeEntry(w) ==
    /\ "entry" \in purging[w]
    /\ purging' = [purging EXCEPT ![w] = @ \ {"entry"}]
    /\ entry' = NoEntry
    /\ UNCHANGED <<dbVars, lock, req, ans, writing, lockLost>>

PurgeLock(w) ==
    /\ "lock" \in purging[w]
    /\ purging' = [purging EXCEPT ![w] = @ \ {"lock"}]
    /\ lock' = NoLock
    /\ lockLost' = (lockLost \/ \E r \in Readers : InTry(r) /\ lock.by = r)
    /\ UNCHANGED <<dbVars, entry, req, ans, writing>>

CommitWrite(w) ==
    /\ w \in writing
    /\ purging[w] = {}
    /\ Promise!Commit
    /\ writing' = writing \ {w}
    /\ UNCHANGED <<entry, lock, req, purging, lockLost>>

\* A conflict, a statement timeout or a Redis error: rolled back, keys stay deleted.
FailWrite(w) ==
    /\ w \in writing
    /\ writing' = writing \ {w}
    /\ purging' = [purging EXCEPT ![w] = {}]
    /\ UNCHANGED <<dbVars, entry, lock, req, ans, lockLost>>

------------------------------------------------------------------------------
(* Time *)

\* Mutant of MayWait: one retry too many.
MayWaitOneMore(r) == IF req[r].at = "poll" THEN req[r].polled <= LockTimeout
                                           ELSE Active(r) => req[r].work < MaxWork

\* Assumption: a request spends at most MaxWork ticks outside polling; the
\* polling loop ends after LockTimeout.  Time waits for a request that is due.
MayWait(r) == IF req[r].at = "poll" THEN req[r].polled < LockTimeout
                                ELSE Active(r) => req[r].work < MaxWork

Elapsed(q) == IF q.at = "idle" THEN q
              ELSE IF q.at = "poll" THEN [q EXCEPT !.polled = @ + 1]
              ELSE [q EXCEPT !.work = @ + 1]

\* One tick off the TTL of a key.
Expire(key, gone) ==
    IF key.ttl <= 1 THEN gone ELSE [key EXCEPT !.ttl = @ - 1]

Tick ==
    /\ \A r \in Readers : MayWait(r)
    /\ Promise!Tick
    /\ req' = [r \in Readers |-> Elapsed(req[r])]
    /\ entry' = Expire(entry, NoEntry)
    /\ lock' = Expire(lock, NoLock)
    /\ lockLost' = (lockLost \/ \E r \in Readers :
                                   InTry(r) /\ lock.by = r /\ lock.ttl = 1)
    /\ UNCHANGED writeVars

------------------------------------------------------------------------------
ReaderStep(r) ==
    \/ Lookup(r) \/ Acquire(r) \/ PollHit(r) \/ PollGiveUp(r)
    \/ DoubleCheck(r) \/ FetchAndStore(r) \/ FetchFail(r) \/ Release(r)
    \/ Fallback(r) \/ Store(r)

WriterStep(w) == \/ BeginWrite(w) \/ PurgeEntry(w) \/ PurgeLock(w)
                 \/ CommitWrite(w) \/ FailWrite(w)

Next == \/ \E r \in Readers : Open(r) \/ ReaderStep(r) \/ Crash(r)
        \/ \E w \in Writers : WriterStep(w)
        \/ Tick

Spec == Init /\ [][Next]_vars

\* The event loop runs every task that is ready and time passes.  Nothing
\* forces a client to ask, a writer to write or a worker to crash.
FairSpec == /\ Spec
            /\ \A r \in Readers : WF_vars(ReaderStep(r))
            /\ WF_vars(Tick)

------------------------------------------------------------------------------
(* Properties *)

DbTypeOK == db \in Versions /\ stale \in [Versions -> Nat]
CacheTypeOK == /\ entry \in [val : Versions, ttl : 0..EntryTTL]
               /\ lock \in [by : Readers \union {Nobody}, ttl : 0..LockTimeout]
RequestTypeOK ==
    /\ req \in [Readers -> Request]
    /\ \A r \in Readers : req[r].work <= MaxWork /\ req[r].polled <= LockTimeout
    /\ ans \in [Readers -> Versions \union {NoAnswer, Failed}]
WriterTypeOK == /\ purging \in [Writers -> SUBSET {"entry", "lock"}]
                /\ writing \subseteq Writers

\* Every variable stays in its type; the two TTLs never exceed what SET gave
\* them and no request polls longer than the loop of cache_get_or_set.
TypeOK == /\ DbTypeOK /\ CacheTypeOK /\ RequestTypeOK /\ WriterTypeOK
          /\ lockLost \in BOOLEAN

\* No cached value and no request in flight is older than the clocks allow:
\* what a stale snapshot puts in the cache after the purge of a later write
\* is gone EntryTTL later.  (cache_get_or_set and cache_set_async set ex=.)
BoundedStaleness ==
    /\ entry.ttl > 0 => /\ entry.val <= db
                        /\ stale[entry.val] + entry.ttl <= StaleBound
    /\ \A r \in Readers :
          Active(r) => /\ req[r].snap <= db
                       /\ stale[req[r].snap] <= Age(r)

\* Seen by its clients, the cache is a register whose reads are at most
\* StaleBound ticks behind the last commit.
PromiseKept == Promise!Spec

\* Cache and requests in flight agree with the database.
Settled == /\ entry.ttl > 0 => entry.val = db
           /\ \A r \in Readers : Active(r) => req[r].snap = db

\* Old data enters the cache only through requests that were in flight when
\* a write committed: from a settled state no step but a commit leads to an
\* unsettled one, whatever crashes, expires, is purged or fails.
StalenessNeedsCommit == [][Settled /\ db' = db => Settled']_vars

\* SET NX keeps two requests from fetching the same key, as long as no owner
\* that still works loses its lock to the TTL or to the SCAN of a writer:
\* the unconditional delete in the finally clause is harmless until then.
OneOwner == lockLost \/ \A r, s \in Readers : InTry(r) /\ InTry(s) => r = s

\* Every request ends: with a value, an error or the death of its worker.
\* Waiters do not depend on the lock's owner, which may have crashed.
EveryRequestEnds == \A r \in Readers : Active(r) ~> ~Active(r)

\* Once the commits stop (MaxVersion bounds them), the old versions leave the
\* cache for good.
EventuallySettled == <>[]Settled
==============================================================================
