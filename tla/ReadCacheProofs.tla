--------------------------- MODULE ReadCacheProofs ---------------------------
(***************************************************************************)
(* Theorems about ReadCache, for any number of requests and writers, any   *)
(* TTLs and any number of commits.                                         *)
(***************************************************************************)
EXTENDS ReadCache, TLAPS

\* The initial state is well typed.
LEMMA InitType == Init => TypeOK
<1> SUFFICES ASSUME Init PROVE TypeOK
  OBVIOUS
<1> USE ConstantsAssumption DEF Init
<1>1. DbTypeOK
  BY DEF DbTypeOK, Promise!Init, Promise!Versions, Versions
<1>2. CacheTypeOK
  BY DEF CacheTypeOK, NoEntry, NoLock, Versions
<1>3. RequestTypeOK
  BY DEF RequestTypeOK, Promise!Init, Idle, Request, Phases, Versions
<1>4. WriterTypeOK
  BY DEF WriterTypeOK
<1>5. QED
  BY <1>1, <1>2, <1>3, <1>4 DEF TypeOK

\* Aging the superseded versions keeps their ages natural numbers and adds at
\* most one tick to each.
LEMMA OlderType ==
    ASSUME NEW s \in [Versions -> Nat], NEW c \in Versions
    PROVE  /\ Promise!Older(s, c) \in [Versions -> Nat]
           /\ \A v \in Versions : Promise!Older(s, c)[v] <= s[v] + 1
           /\ Promise!Older(s, c)[c] = s[c]
BY ConstantsAssumption DEF Promise!Older, Promise!Versions, Promise!Min2, Versions, StaleBound

\* A request that moves on, ends or is answered stays well typed.
LEMMA RequestMoves ==
    ASSUME RequestTypeOK, NEW r \in Readers,
           \/ \E phase \in Phases : GoTo(r, phase)
           \/ Finish(r)
           \/ UNCHANGED req,
           \/ \E a \in Versions \union {NoAnswer, Failed} : Reply(r, a)
           \/ UNCHANGED ans
    PROVE  RequestTypeOK'
<1>1. ans' \in [Readers -> Versions \union {NoAnswer, Failed}]
  BY DEF RequestTypeOK, Reply
<1>2. CASE \E phase \in Phases : GoTo(r, phase)
  BY <1>1, <1>2 DEF RequestTypeOK, GoTo, Request
<1>3. CASE Finish(r)
  BY <1>1, <1>3, ConstantsAssumption
     DEF RequestTypeOK, Finish, Idle, Request, Phases, Versions
<1>4. CASE UNCHANGED req
  BY <1>1, <1>4 DEF RequestTypeOK
<1>5. QED
  BY <1>2, <1>3, <1>4

\* Every step of a request keeps the types.
LEMMA ReaderType ==
    ASSUME TypeOK, NEW r \in Readers, Open(r) \/ ReaderStep(r) \/ Crash(r)
    PROVE  TypeOK'
<1> USE ConstantsAssumption DEF TypeOK
<1>1. DbTypeOK' /\ WriterTypeOK' /\ lockLost' \in BOOLEAN
  BY DEF DbTypeOK, WriterTypeOK, ReaderStep, Open, Lookup, Acquire, PollHit,
         PollGiveUp, DoubleCheck, FetchAndStore, FetchFail, Release, Fallback,
         Store, Crash, dbVars, writeVars
<1>2. req[r].snap \in Versions /\ entry.val \in Versions
  BY DEF RequestTypeOK, CacheTypeOK, Request
<1>3. CacheTypeOK'
  BY <1>2 DEF CacheTypeOK, ReaderStep, Open, Lookup, Acquire, PollHit,
         PollGiveUp, DoubleCheck, FetchAndStore, FetchFail, Release, Fallback,
         Store, Crash, NoLock, Cached
<1>4. RequestTypeOK'
  <2>1. CASE Open(r)
    <3> DEFINE fresh == [Idle EXCEPT !.at = "lookup", !.snap = db]
    <3>1. fresh \in Request /\ fresh.work = 0 /\ fresh.polled = 0
      BY DEF DbTypeOK, Idle, Request, Phases
    <3>2. req' = [req EXCEPT ![r] = fresh] /\ ans' = [ans EXCEPT ![r] = NoAnswer]
      BY <2>1 DEF Open, Reply
    <3> HIDE DEF fresh
    <3>3. QED
      BY <3>1, <3>2 DEF RequestTypeOK
  <2> USE RequestMoves, <1>2 DEF Phases
  <2>2. CASE Lookup(r)
    BY <2>2 DEF Lookup
  <2>3. CASE Acquire(r)
    BY <2>3 DEF Acquire
  <2>4. CASE PollHit(r)
    BY <2>4 DEF PollHit
  <2>5. CASE PollGiveUp(r)
    BY <2>5 DEF PollGiveUp
  <2>6. CASE DoubleCheck(r)
    BY <2>6 DEF DoubleCheck
  <2>7. CASE FetchAndStore(r)
    BY <2>7 DEF FetchAndStore
  <2>8. CASE FetchFail(r)
    BY <2>8 DEF FetchFail
  <2>9. CASE Release(r)
    BY <2>9 DEF Release
  <2>10. CASE Fallback(r)
    BY <2>10 DEF Fallback
  <2>11. CASE Store(r)
    BY <2>11 DEF Store
  <2>12. CASE Crash(r)
    BY <2>12 DEF Crash
  <2>13. QED
    BY <2>1, <2>2, <2>3, <2>4, <2>5, <2>6, <2>7, <2>8, <2>9, <2>10, <2>11, <2>12 DEF ReaderStep
<1>5. QED
  BY <1>1, <1>3, <1>4

\* Every step of a writer keeps the types.
LEMMA WriterType ==
    ASSUME TypeOK, NEW w \in Writers, WriterStep(w)
    PROVE  TypeOK'
<1> USE ConstantsAssumption
    DEF TypeOK, WriterStep, BeginWrite, PurgeEntry, PurgeLock, CommitWrite, FailWrite
<1>1. DbTypeOK'
  BY DEF DbTypeOK, Promise!Commit, dbVars, Versions
<1>2. CacheTypeOK'
  BY DEF CacheTypeOK, NoEntry, NoLock, Versions
<1>3. UNCHANGED <<req, ans>>
  BY DEF Promise!Commit
<1>4. RequestTypeOK'
  BY <1>3 DEF RequestTypeOK
<1>5. WriterTypeOK'
  BY DEF WriterTypeOK
<1>6. lockLost' \in BOOLEAN
  BY DEF PurgeLock
<1>7. QED
  BY <1>1, <1>2, <1>4, <1>5, <1>6 DEF TypeOK

\* The passing of time keeps the types: this is where the polling limit and
\* the assumption on MaxWork are needed.
LEMMA TickType ==
    ASSUME TypeOK, Tick
    PROVE  TypeOK'
<1> USE ConstantsAssumption DEF TypeOK
<1>1. DbTypeOK' /\ UNCHANGED ans
  BY OlderType DEF DbTypeOK, Tick, Promise!Tick
<1>2. CacheTypeOK'
  BY DEF CacheTypeOK, Tick, Expire, NoEntry, NoLock, Versions
<1>3. ASSUME NEW r \in Readers
      PROVE  /\ Elapsed(req[r]) \in Request
             /\ Elapsed(req[r]).work <= MaxWork
             /\ Elapsed(req[r]).polled <= LockTimeout
  BY DEF RequestTypeOK, Tick, MayWait, Active, Elapsed, Request, Phases
<1>4. req' = [r \in Readers |-> Elapsed(req[r])]
  BY DEF Tick
<1>5. RequestTypeOK'
  BY <1>1, <1>3, <1>4 DEF RequestTypeOK
<1>6. WriterTypeOK' /\ lockLost' \in BOOLEAN
  BY DEF WriterTypeOK, Tick, writeVars
<1>7. QED
  BY <1>1, <1>2, <1>5, <1>6

\* TypeOK holds in every reachable state.
THEOREM TypeCorrect == Spec => []TypeOK
<1>1. TypeOK /\ [Next]_vars => TypeOK'
  <2> SUFFICES ASSUME TypeOK, [Next]_vars PROVE TypeOK'
    OBVIOUS
  <2>1. CASE UNCHANGED vars
    BY <2>1 DEF TypeOK, DbTypeOK, CacheTypeOK, RequestTypeOK, WriterTypeOK, vars
  <2>2. QED
    BY <2>1, ReaderType, WriterType, TickType DEF Next
<1>2. QED
  BY InitType, <1>1, PTL DEF Spec

------------------------------------------------------------------------------
(***************************************************************************)
(* Staleness.  The inductive invariant adds to BoundedStaleness that the   *)
(* current version, and those still to come, have not begun to age: a      *)
(* request that opens now starts at age 0, and so does its data.           *)
(***************************************************************************)
CurrentIsFresh == \A v \in Versions : v >= db => stale[v] = 0

StalenessInv == TypeOK /\ CurrentIsFresh /\ BoundedStaleness

\* One request that moves within an invariant-keeping step: the others do not
\* change, and the step leaves the database alone.
LEMMA ReaderStaleness ==
    ASSUME StalenessInv, NEW r \in Readers, Open(r) \/ ReaderStep(r) \/ Crash(r)
    PROVE  CurrentIsFresh' /\ BoundedStaleness'
<1> USE ConstantsAssumption DEF StalenessInv, TypeOK
<1>1. UNCHANGED dbVars
  BY DEF ReaderStep, Open, Lookup, Acquire, PollHit, PollGiveUp, DoubleCheck,
         FetchAndStore, FetchFail, Release, Fallback, Store, Crash, dbVars
<1>2. CurrentIsFresh'
  BY <1>1 DEF CurrentIsFresh, dbVars
<1>3. \/ UNCHANGED entry
      \/ entry' = Cached(req[r].snap) /\ Active(r)
  BY DEF ReaderStep, Open, Lookup, Acquire, PollHit, PollGiveUp, DoubleCheck,
         FetchAndStore, FetchFail, Release, Fallback, Store, Crash, Active
<1>4. entry'.ttl > 0 => /\ entry'.val <= db
                        /\ stale[entry'.val] + entry'.ttl <= StaleBound
  <2>1. CASE UNCHANGED entry
    BY <2>1 DEF BoundedStaleness
  <2>2. CASE entry' = Cached(req[r].snap) /\ Active(r)
    <3>1. req[r].snap \in Versions /\ req[r].work \in Nat /\ req[r].polled \in Nat
      BY DEF RequestTypeOK, Request
    <3>2. req[r].work <= MaxWork /\ req[r].polled <= LockTimeout
      BY DEF RequestTypeOK
    <3>3. stale[req[r].snap] \in Nat
      BY <3>1 DEF DbTypeOK
    <3>4. QED
      BY <2>2, <3>1, <3>2, <3>3 DEF BoundedStaleness, Cached, Age, StaleBound
  <2>3. QED
    BY <1>3, <2>1, <2>2
<1>5. ASSUME NEW s \in Readers, req'[s].at # "idle"
      PROVE  /\ req'[s].snap <= db
             /\ stale[req'[s].snap] <= req'[s].work + req'[s].polled
  <2>1. CASE Open(r)
    <3>1. CASE s = r
      BY <2>1, <3>1 DEF Open, RequestTypeOK, Idle, CurrentIsFresh, DbTypeOK, Versions
    <3>2. CASE s # r
      BY <1>5, <2>1, <3>2 DEF Open, RequestTypeOK, BoundedStaleness, Active, Age
    <3>3. QED
      BY <3>1, <3>2
  <2>2. CASE ReaderStep(r) \/ Crash(r)
    <3>1. \/ UNCHANGED req
          \/ Finish(r)
          \/ (\E phase \in Phases : GoTo(r, phase)) /\ Active(r)
      BY <2>2
         DEF ReaderStep, Lookup, Acquire, PollHit, PollGiveUp, DoubleCheck,
             FetchAndStore, FetchFail, Release, Fallback, Store, Crash, Active, Phases
    <3>2. Active(s) /\ UNCHANGED <<req[s].snap, req[s].work, req[s].polled>>
      BY <1>5, <3>1 DEF RequestTypeOK, Request, GoTo, Finish, Idle, Active
    <3>3. QED
      BY <3>2 DEF BoundedStaleness, Age
  <2>3. QED
    BY <2>1, <2>2
<1>6. BoundedStaleness'
  BY <1>1, <1>4, <1>5 DEF BoundedStaleness, Active, Age, dbVars
<1>7. QED
  BY <1>2, <1>6

\* Writers only empty the cache or make the current version an old one.
LEMMA WriterStaleness ==
    ASSUME StalenessInv, NEW w \in Writers, WriterStep(w)
    PROVE  CurrentIsFresh' /\ BoundedStaleness'
<1> USE ConstantsAssumption DEF StalenessInv, TypeOK
<1>1. stale' = stale /\ db' \in Versions /\ db' >= db /\ req' = req
  BY DEF WriterStep, BeginWrite, PurgeEntry, PurgeLock, CommitWrite, FailWrite,
         Promise!Commit, dbVars, DbTypeOK, Versions
<1>2. entry' = entry \/ entry' = NoEntry
  BY DEF WriterStep, BeginWrite, PurgeEntry, PurgeLock, CommitWrite, FailWrite
<1>3. CurrentIsFresh'
  BY <1>1 DEF CurrentIsFresh, DbTypeOK, Versions
<1>4. entry'.ttl > 0 => /\ entry'.val <= db'
                        /\ stale[entry'.val] + entry'.ttl <= StaleBound
  BY <1>1, <1>2 DEF BoundedStaleness, NoEntry, DbTypeOK, CacheTypeOK, Versions
<1>5. \A s \in Readers : Active(s) => /\ req[s].snap <= db'
                                      /\ stale[req[s].snap] <= Age(s)
  BY <1>1 DEF BoundedStaleness, DbTypeOK, RequestTypeOK, Request, Versions
<1>6. BoundedStaleness'
  BY <1>1, <1>4, <1>5 DEF BoundedStaleness, Active, Age
<1>7. QED
  BY <1>3, <1>6

\* A tick ages the data by at most one, the requests in flight by exactly one,
\* and takes one off the entry's TTL.
LEMMA TickStaleness ==
    ASSUME StalenessInv, Tick
    PROVE  CurrentIsFresh' /\ BoundedStaleness'
<1> USE ConstantsAssumption DEF StalenessInv, TypeOK
<1>1. /\ stale' = Promise!Older(stale, db) /\ db' = db
      /\ entry' = Expire(entry, NoEntry)
      /\ req' = [r \in Readers |-> Elapsed(req[r])]
  BY DEF Tick, Promise!Tick
<1>2. /\ stale' \in [Versions -> Nat]
      /\ \A v \in Versions : stale'[v] <= stale[v] + 1
  BY <1>1, OlderType DEF DbTypeOK
<1>3. CurrentIsFresh'
  BY <1>1 DEF CurrentIsFresh, Promise!Older, Promise!Versions, DbTypeOK, Versions
<1>4. entry'.ttl > 0 => /\ entry'.val <= db'
                        /\ stale'[entry'.val] + entry'.ttl <= StaleBound
  <2> SUFFICES ASSUME entry'.ttl > 0
               PROVE  entry'.val <= db /\ stale'[entry'.val] + entry'.ttl <= StaleBound
    BY <1>1
  <2>1. /\ entry.val \in Versions /\ entry.ttl \in Nat /\ entry.ttl > 1
        /\ entry'.val = entry.val /\ entry'.ttl = entry.ttl - 1
    BY <1>1 DEF Expire, NoEntry, CacheTypeOK, Versions
  <2>2. stale[entry.val] \in Nat /\ stale'[entry.val] \in Nat
    BY <1>2, <2>1 DEF DbTypeOK
  <2>3. StaleBound \in Nat
    BY DEF StaleBound
  <2>4. QED
    BY <1>2, <2>1, <2>2, <2>3 DEF BoundedStaleness
<1>5. ASSUME NEW s \in Readers, req'[s].at # "idle"
      PROVE  /\ req'[s].snap <= db
             /\ stale'[req'[s].snap] <= req'[s].work + req'[s].polled
  <2>1. req[s] \in Request /\ req'[s] = Elapsed(req[s])
    BY <1>1 DEF RequestTypeOK
  <2>2. /\ req[s].at # "idle"
        /\ req[s].snap \in Versions /\ req'[s].snap = req[s].snap
        /\ req[s].work \in Nat /\ req[s].polled \in Nat
        /\ req'[s].work + req'[s].polled = req[s].work + req[s].polled + 1
    BY <1>5, <2>1 DEF Elapsed, Request
  <2>3. stale[req[s].snap] \in Nat /\ stale'[req[s].snap] \in Nat
    BY <1>2, <2>2 DEF DbTypeOK
  <2>4. QED
    BY <1>2, <2>2, <2>3 DEF BoundedStaleness, Active, Age
<1>6. BoundedStaleness'
  BY <1>1, <1>4, <1>5 DEF BoundedStaleness, Active, Age
<1>7. QED
  BY <1>3, <1>6

\* The strengthened invariant is inductive.
LEMMA StalenessInvariant == Spec => []StalenessInv
<1>1. Init => StalenessInv
  <2> SUFFICES ASSUME Init PROVE StalenessInv
    OBVIOUS
  <2>1. CurrentIsFresh
    BY DEF Init, Promise!Init, Promise!Versions, CurrentIsFresh, Versions
  <2>2. BoundedStaleness
    BY DEF Init, Promise!Init, BoundedStaleness, NoEntry, Active, Idle
  <2>3. QED
    BY <2>1, <2>2, InitType DEF StalenessInv
<1>2. StalenessInv /\ [Next]_vars => StalenessInv'
  <2> SUFFICES ASSUME StalenessInv, [Next]_vars PROVE StalenessInv'
    OBVIOUS
  <2>1. CASE UNCHANGED vars
    BY <2>1 DEF StalenessInv, TypeOK, DbTypeOK, CacheTypeOK, RequestTypeOK, WriterTypeOK,
                CurrentIsFresh, BoundedStaleness, Active, Age, vars
  <2>2. CASE Next
    <3>1. CurrentIsFresh' /\ BoundedStaleness'
      BY <2>2, ReaderStaleness, WriterStaleness, TickStaleness DEF Next
    <3>2. TypeOK'
      BY <2>2, ReaderType, WriterType, TickType DEF Next, StalenessInv
    <3>3. QED
      BY <3>1, <3>2 DEF StalenessInv
  <2>3. QED
    BY <2>1, <2>2
<1>3. QED
  BY <1>1, <1>2, PTL DEF Spec

\* No entry and no request in flight is older than the clocks allow, whatever
\* requests, writers, crashes and expiries interleave.
THEOREM StalenessIsBounded == Spec => []BoundedStaleness
<1>1. StalenessInv => BoundedStaleness
  BY DEF StalenessInv
<1>2. QED
  BY <1>1, StalenessInvariant, PTL

------------------------------------------------------------------------------
(***************************************************************************)
(* Refinement.  db, stale and ans are the variables of StaleRegister, so   *)
(* the refinement mapping is the identity on them.                         *)
(***************************************************************************)

\* A step of a request asks, fails, answers within the bound, or is invisible.
LEMMA ReaderRefines ==
    ASSUME StalenessInv, NEW r \in Readers, Open(r) \/ ReaderStep(r) \/ Crash(r)
    PROVE  [Promise!Next]_<<db, stale, ans>>
<1> USE ConstantsAssumption DEF StalenessInv, TypeOK
<1>1. UNCHANGED dbVars
  BY DEF ReaderStep, Open, Lookup, Acquire, PollHit, PollGiveUp, DoubleCheck,
         FetchAndStore, FetchFail, Release, Fallback, Store, Crash, dbVars
<1>2. \/ UNCHANGED ans \/ Reply(r, NoAnswer) \/ Reply(r, Failed)
      \/ Reply(r, req[r].snap) /\ Active(r)
      \/ Reply(r, entry.val) /\ entry.ttl > 0
  BY DEF ReaderStep, Open, Lookup, Acquire, PollHit, PollGiveUp, DoubleCheck,
         FetchAndStore, FetchFail, Release, Fallback, Store, Crash, Active
<1>3. CASE UNCHANGED ans
  BY <1>1, <1>3 DEF dbVars
<1>4. CASE Reply(r, NoAnswer)
  BY <1>1, <1>4 DEF Promise!Next, Promise!Ask, Reply, dbVars
<1>5. CASE Reply(r, Failed)
  BY <1>1, <1>5 DEF Promise!Next, Promise!Fail, Reply, dbVars
<1>6. ASSUME NEW v \in 0..db, stale[v] <= StaleBound, Reply(r, v)
      PROVE  Promise!Next
  BY <1>1, <1>6 DEF Promise!Next, Promise!Answer, Reply, dbVars
<1>7. CASE Reply(r, req[r].snap) /\ Active(r)
  <2>1. /\ req[r].snap \in Versions /\ req[r].work \in Nat /\ req[r].polled \in Nat
        /\ req[r].work <= MaxWork /\ req[r].polled <= LockTimeout
    BY DEF RequestTypeOK, Request
  <2>2. stale[req[r].snap] \in Nat /\ db \in Nat
    BY <2>1 DEF DbTypeOK, Versions
  <2>3. req[r].snap \in 0..db /\ stale[req[r].snap] <= StaleBound
    BY <1>7, <2>1, <2>2 DEF BoundedStaleness, Age, StaleBound, Versions
  <2>4. QED
    BY <1>6, <1>7, <2>3
<1>8. CASE Reply(r, entry.val) /\ entry.ttl > 0
  <2>1. entry.val \in Versions /\ entry.ttl \in Nat /\ stale[entry.val] \in Nat
    BY DEF CacheTypeOK, DbTypeOK
  <2>2. entry.val \in 0..db /\ stale[entry.val] <= StaleBound
    BY <1>8, <2>1 DEF BoundedStaleness, StaleBound, Versions, DbTypeOK
  <2>3. QED
    BY <1>6, <1>8, <2>2
<1>9. QED
  BY <1>2, <1>3, <1>4, <1>5, <1>7, <1>8

\* The read cache implements the bounded-staleness register.
THEOREM CacheKeepsPromise == Spec => PromiseKept
<1>1. Init => Promise!Init
  BY DEF Init
<1>2. StalenessInv /\ [Next]_vars => [Promise!Next]_<<db, stale, ans>>
  <2> SUFFICES ASSUME StalenessInv, [Next]_vars
               PROVE  [Promise!Next]_<<db, stale, ans>>
    OBVIOUS
  <2>1. ASSUME NEW w \in Writers, WriterStep(w)
        PROVE  [Promise!Next]_<<db, stale, ans>>
    BY <2>1 DEF WriterStep, BeginWrite, PurgeEntry, PurgeLock, CommitWrite,
                FailWrite, Promise!Next, dbVars
  <2>2. CASE Tick
    BY <2>2 DEF Tick, Promise!Next
  <2>3. CASE UNCHANGED vars
    BY <2>3 DEF vars
  <2>4. QED
    BY <2>1, <2>2, <2>3, ReaderRefines DEF Next
<1>3. QED
  BY <1>1, <1>2, StalenessInvariant, PTL DEF Spec, PromiseKept, Promise!Spec, Promise!vars

------------------------------------------------------------------------------
(***************************************************************************)
(* The stampede lock.                                                      *)
(***************************************************************************)

\* Until an owner at work loses the lock, whoever is in the try block holds it:
\* so nobody else can acquire it, and a release removes its own lock.
OwnerInv == ~lockLost => \A r \in Readers :
                            InTry(r) => lock.by = r /\ lock.ttl > 0

\* At most one request works under the lock until the TTL or a writer's SCAN
\* takes the lock from an owner that is still at work.
THEOREM LockIsExclusive == Spec => []OneOwner
<1>1. Init => OwnerInv
  BY DEF Init, OwnerInv, InTry, Idle
<1>2. TypeOK /\ OwnerInv /\ [Next]_vars => OwnerInv'
  <2> SUFFICES ASSUME TypeOK, OwnerInv, [Next]_vars, ~lockLost',
                      NEW s \in Readers, InTry(s)'
               PROVE  lock'.by = s /\ lock'.ttl > 0
    BY DEF OwnerInv
  <2> USE ConstantsAssumption DEF TypeOK, InTry
  <2>1. ASSUME NEW r \in Readers, Open(r) \/ ReaderStep(r) \/ Crash(r)
        PROVE  lock'.by = s /\ lock'.ttl > 0
    <3>1. ~lockLost
      BY <2>1 DEF ReaderStep, Open, Lookup, Acquire, PollHit, PollGiveUp, DoubleCheck,
                  FetchAndStore, FetchFail, Release, Fallback, Store, Crash
    <3>2. CASE Acquire(r)
      BY <3>1, <3>2 DEF Acquire, OwnerInv, GoTo, RequestTypeOK, CacheTypeOK, Request
    <3>3. CASE Release(r)
      <4>1. InTry(s) /\ s # r
        BY <3>3 DEF Release, Finish, Idle, RequestTypeOK
      <4>2. InTry(r)
        BY <3>3 DEF Release
      <4>3. QED
        BY <3>1, <4>1, <4>2 DEF OwnerInv
    <3>4. CASE ~Acquire(r) /\ ~Release(r)
      <4>1. /\ UNCHANGED lock
            /\ \/ Finish(r)
               \/ req' = [req EXCEPT ![r] = [Idle EXCEPT !.at = "lookup", !.snap = db]]
               \/ \E phase \in Phases : GoTo(r, phase) /\ ~(phase \in {"check", "fetch", "release"})
               \/ (\E phase \in Phases : GoTo(r, phase)) /\ InTry(r)
        BY <2>1, <3>4
           DEF ReaderStep, Open, Lookup, PollHit, PollGiveUp, DoubleCheck,
               FetchAndStore, FetchFail, Fallback, Store, Crash, Phases
      <4>2. CASE s = r
        <5>1. \A phase \in Phases : GoTo(r, phase) => req'[r].at = phase
          BY DEF GoTo, RequestTypeOK, Request
        <5>2. InTry(r)
          <6>1. ~Finish(r)
            BY <4>2 DEF Finish, Idle, RequestTypeOK
          <6>2. req' # [req EXCEPT ![r] = [Idle EXCEPT !.at = "lookup", !.snap = db]]
            BY <4>2 DEF Idle, RequestTypeOK
          <6>3. QED
            BY <4>1, <4>2, <5>1, <6>1, <6>2
        <5>3. QED
          BY <3>1, <4>1, <4>2, <5>2 DEF OwnerInv
      <4>3. CASE s # r
        BY <3>1, <4>1, <4>3 DEF GoTo, Finish, RequestTypeOK, OwnerInv
      <4>4. QED
        BY <3>1, <4>1, <4>2, <4>3 DEF OwnerInv
    <3>5. QED
      BY <3>2, <3>3, <3>4
  <2>2. ASSUME NEW w \in Writers, WriterStep(w)
        PROVE  lock'.by = s /\ lock'.ttl > 0
    BY <2>2 DEF WriterStep, BeginWrite, PurgeEntry, PurgeLock, CommitWrite,
                FailWrite, OwnerInv
  <2>3. CASE Tick
    <3>1. req[s].at = req'[s].at
      BY <2>3 DEF Tick, Elapsed, RequestTypeOK, Request
    <3>2. lock.by = s /\ lock.ttl > 0 /\ lock.ttl # 1
      BY <2>3, <3>1 DEF Tick, OwnerInv
    <3>3. QED
      BY <2>3, <3>2 DEF Tick, Expire, CacheTypeOK
  <2>4. CASE UNCHANGED vars
    BY <2>4 DEF vars, OwnerInv
  <2>5. QED
    BY <2>1, <2>2, <2>3, <2>4 DEF Next
<1>3. OwnerInv => OneOwner
  BY DEF OwnerInv, OneOwner
<1>4. QED
  BY <1>1, <1>2, <1>3, TypeCorrect, PTL DEF Spec

------------------------------------------------------------------------------
\* From a settled state only a commit leads to an unsettled one.
THEOREM OnlyCommitsUnsettle == Spec => StalenessNeedsCommit
<1>1. TypeOK /\ [Next]_vars => [Settled /\ db' = db => Settled']_vars
  <2> SUFFICES ASSUME TypeOK, Next, Settled, db' = db
               PROVE  Settled'
    OBVIOUS
  <2> USE ConstantsAssumption DEF TypeOK, Settled, Active
  <2>1. ASSUME NEW r \in Readers, Open(r) \/ ReaderStep(r) \/ Crash(r)
        PROVE  Settled'
    <3>1. entry'.ttl > 0 => entry'.val = db
      BY <2>1 DEF ReaderStep, Open, Lookup, Acquire, PollHit, PollGiveUp, DoubleCheck,
                  FetchAndStore, FetchFail, Release, Fallback, Store, Crash, Cached
    <3>2. ASSUME NEW s \in Readers, Active(s)'
          PROVE  req'[s].snap = db
      <4>1. CASE Open(r)
        BY <3>2, <4>1 DEF Open, RequestTypeOK, Idle
      <4>2. CASE ReaderStep(r) \/ Crash(r)
        <5>1. \/ UNCHANGED req
              \/ Finish(r)
              \/ (\E phase \in Phases : GoTo(r, phase)) /\ req[r].at # "idle"
          BY <4>2
             DEF ReaderStep, Lookup, Acquire, PollHit, PollGiveUp, DoubleCheck,
                 FetchAndStore, FetchFail, Release, Fallback, Store, Crash, Phases
        <5>2. QED
          BY <3>2, <5>1 DEF GoTo, Finish, Idle, RequestTypeOK, Request
      <4>3. QED
        BY <2>1, <4>1, <4>2
    <3>3. QED
      BY <3>1, <3>2
  <2>2. ASSUME NEW w \in Writers, WriterStep(w)
        PROVE  Settled'
    BY <2>2 DEF WriterStep, BeginWrite, PurgeEntry, PurgeLock, CommitWrite,
                FailWrite, Promise!Commit, NoEntry, DbTypeOK, Versions
  <2>3. CASE Tick
    <3>1. entry'.ttl > 0 => entry.ttl > 0 /\ entry'.val = entry.val
      BY <2>3 DEF Tick, Expire, NoEntry, CacheTypeOK
    <3>2. \A s \in Readers : /\ req'[s].at = req[s].at
                             /\ req'[s].snap = req[s].snap
      BY <2>3 DEF Tick, Elapsed, RequestTypeOK, Request
    <3>3. QED
      BY <3>1, <3>2
  <2>4. QED
    BY <2>1, <2>2, <2>3 DEF Next
<1>2. QED
  BY <1>1, TypeCorrect, PTL DEF Spec, StalenessNeedsCommit
==============================================================================
