-------------------------- MODULE ListFiltersProofs ---------------------------
(***************************************************************************)
(* Theorems about ListFilters, for any number of workers, requests and     *)
(* admins, any lifetimes and any number of changes.                        *)
(***************************************************************************)
EXTENDS ListFilters, TLAPS

\* The conjuncts of CopiesBounded for one copy, in tables of version t with ages s.
FreshMem(m, t, s) == m.age < FilterTTL => m.v <= t /\ s[m.v] <= MaxWork + m.age
FreshLevels(l, t, s) == l.ttl > 0 => l.v <= t /\ s[l.v] + l.ttl <= MaxWork + LevelTTL
FreshEntry(e, t, s) == e.ttl > 0 => /\ e.src <= t /\ s[e.src] + e.ttl <= SourceBound
                                    /\ e.lvl <= t /\ s[e.lvl] + e.ttl <= LevelBound

\* A request waits for the filter no longer than it has worked.
FreshRequest(q, t, s) ==
    /\ q.waited <= q.work
    /\ q.at # "idle" => /\ q.snap <= t /\ s[q.snap] <= q.work
                        /\ q.src <= t /\ s[q.src] <= MaxWork + FilterTTL + q.work
                        /\ q.lvl <= t /\ s[q.lvl] <= MaxWork + LevelTTL + q.work

TablesInv == TablesTypeOK /\ \A v \in Versions : v >= db => stale[v] = 0
MemInv    == /\ mem \in [Workers -> [v : Versions, age : 0..FilterTTL]]
             /\ \A w \in Workers : FreshMem(mem[w], db, stale)
LevelsInv == /\ levels \in [v : Versions, ttl : 0..LevelTTL]
             /\ FreshLevels(levels, db, stale)
EntryInv  == /\ entry \in [src : Versions, lvl : Versions, ttl : 0..EntryTTL]
             /\ FreshEntry(entry, db, stale)
ReqInv    == /\ req \in [Readers -> Request]
             /\ \A r \in Readers : FreshRequest(req[r], db, stale)
AnsInv    == ans \in Answer \union {NoAnswer}

CopiesInv == MemInv /\ LevelsInv /\ EntryInv
FilterInv == TablesInv /\ CopiesInv /\ ReqInv /\ AnsInv /\ TaskTypeOK

------------------------------------------------------------------------------
(* Values *)

LEMMA Numbers ==
    /\ Versions \subseteq Nat /\ 0 \in Versions
    /\ SourceBound \in Nat /\ LevelBound \in Nat /\ Horizon \in Nat
    /\ SourceBound <= Horizon /\ LevelBound <= Horizon
    /\ SourceBound = MaxWork + FilterTTL + MaxWork + EntryTTL
    /\ LevelBound = MaxWork + LevelTTL + MaxWork + EntryTTL
  BY FiltersAssumption DEF Versions, SourceBound, LevelBound, Horizon, Max2

LEMMA NothingStored ==
    /\ Unloaded \in [v : Versions, age : 0..FilterTTL]
    /\ NoLevels \in [v : Versions, ttl : 0..LevelTTL]
    /\ NoEntry \in [src : Versions, lvl : Versions, ttl : 0..EntryTTL]
    /\ ~(Unloaded.age < FilterTTL) /\ NoLevels.ttl = 0 /\ NoEntry.ttl = 0
  BY FiltersAssumption DEF Unloaded, NoLevels, NoEntry, Versions

LEMMA IdleRequest == ASSUME NEW t, NEW s
                     PROVE  Idle \in Request /\ FreshRequest(Idle, t, s)
  BY FiltersAssumption DEF Idle, Request, Phases, Versions, FreshRequest

\* One request moves, and the tables stay.
LEMMA OneRequest ==
    ASSUME ReqInv, UNCHANGED tables, NEW r \in Readers, NEW q \in Request,
           FreshRequest(q, db, stale), req' = [req EXCEPT ![r] = q]
    PROVE  ReqInv'
  BY DEF ReqInv, tables

\* A request that only moves on.
LEMMA MovedRequest ==
    ASSUME ReqInv, UNCHANGED tables, NEW r \in Readers, Active(r),
           NEW phase \in Phases, GoTo(r, phase)
    PROVE  ReqInv'
  <1> DEFINE q == [req[r] EXCEPT !.at = phase]
  <1>1. req[r] \in Request /\ FreshRequest(req[r], db, stale) /\ req[r].at # "idle"
    BY DEF ReqInv, Active
  <1>2. q \in Request /\ FreshRequest(q, db, stale)
    BY <1>1 DEF Request, FreshRequest
  <1> QED  BY <1>2, OneRequest DEF GoTo

LEMMA EndedRequest ==
    ASSUME ReqInv, UNCHANGED tables, NEW r \in Readers, Finish(r)
    PROVE  ReqInv'
  BY IdleRequest, OneRequest DEF Finish

\* What an active request has in hand.
LEMMA InHand ==
    ASSUME TablesInv, ReqInv, NEW r \in Readers, Active(r)
    PROVE  /\ req[r] \in Request /\ FreshRequest(req[r], db, stale) /\ req[r].at # "idle"
           /\ req[r].snap \in Nat /\ req[r].src \in Nat /\ req[r].lvl \in Nat
           /\ req[r].work \in Nat /\ req[r].work <= MaxWork /\ req[r].waited \in Nat
           /\ stale[req[r].snap] \in Nat /\ stale[req[r].src] \in Nat
           /\ stale[req[r].lvl] \in Nat
           /\ db \in Nat
  <1>1. req[r] \in Request /\ FreshRequest(req[r], db, stale) /\ req[r].at # "idle"
    BY DEF ReqInv, Active
  <1>2. /\ req[r].snap \in Versions /\ req[r].src \in Versions /\ req[r].lvl \in Versions
        /\ req[r].work \in 0..MaxWork /\ req[r].waited \in 0..MaxWork
    BY <1>1 DEF Request
  <1>3. db \in Versions /\ stale \in [Versions -> Nat]
    BY DEF TablesInv, TablesTypeOK
  <1>4. 0..MaxWork \subseteq Nat /\ \A n \in 0..MaxWork : n <= MaxWork
    BY FiltersAssumption
  <1>5. Versions \subseteq Nat  BY Numbers
  <1> QED  BY <1>1, <1>2, <1>3, <1>4, <1>5

------------------------------------------------------------------------------
(* The steps of a request *)

LEMMA OpenStep == ASSUME FilterInv, NEW r \in Readers, Open(r)  PROVE FilterInv'
  <1> DEFINE q == [Idle EXCEPT !.at = "lookup", !.snap = db, !.src = db, !.lvl = db]
  <1>0. db \in Versions /\ db \in Nat /\ stale[db] = 0
    BY Numbers DEF FilterInv, TablesInv, TablesTypeOK
  <1>1. Idle \in Request /\ "lookup" \in Phases  BY IdleRequest DEF Phases
  <1>2. q \in Request
    BY <1>0, <1>1 DEF Request
  <1>3. FreshRequest(q, db, stale)
    <2>1. /\ q.work = Idle.work /\ q.waited = Idle.waited
          /\ q.snap = db /\ q.src = db /\ q.lvl = db
      BY <1>0, <1>1 DEF Request
    <2>2. Idle.work = 0 /\ Idle.waited = 0  BY DEF Idle
    <2> HIDE DEF q
    <2> QED  BY <1>0, <2>1, <2>2, FiltersAssumption DEF FreshRequest
  <1> HIDE DEF q
  <1>4. ReqInv'
    <2>1. req' = [req EXCEPT ![r] = q]  BY DEF Open, q
    <2> QED  BY <1>2, <1>3, <2>1, OneRequest DEF Open, FilterInv
  <1>5. AnsInv'  BY DEF Open, AnsInv
  <1> QED  BY <1>4, <1>5
           DEF Open, FilterInv, TablesInv, TablesTypeOK, CopiesInv, MemInv, LevelsInv,
               EntryInv, TaskTypeOK, tables, caches

LEMMA HitStep == ASSUME FilterInv, NEW r \in Readers, Hit(r)  PROVE FilterInv'
  <1>1. ReqInv'  BY EndedRequest DEF Hit, FilterInv, tables
  <1>2. AnsInv'  BY DEF Hit, AnsInv, Answer, FilterInv, CopiesInv, EntryInv
  <1> QED  BY <1>1, <1>2
           DEF Hit, FilterInv, TablesInv, TablesTypeOK, CopiesInv, MemInv, LevelsInv,
               EntryInv, TaskTypeOK, tables, caches

\* The sources of a version that is not too old are a filter.
LEMMA Filtered ==
    ASSUME TablesInv, ReqInv, UNCHANGED tables, NEW r \in Readers, Active(r),
           NEW v \in Versions, v <= db, stale[v] <= MaxWork + FilterTTL + req[r].work,
           FilterBy(r, v)
    PROVE  ReqInv'
  <1> DEFINE q == [req[r] EXCEPT !.at = "level", !.src = v, !.waited = 0]
  <1>1. req[r] \in Request /\ FreshRequest(req[r], db, stale) /\ req[r].at # "idle"
        /\ req[r].work \in Nat
    BY InHand
  <1>2. q \in Request
    <2>1. "level" \in Phases /\ 0 \in 0..MaxWork  BY FiltersAssumption DEF Phases
    <2> QED  BY <1>1, <2>1 DEF Request
  <1>3. FreshRequest(q, db, stale)
    BY <1>1 DEF FreshRequest, Request
  <1> QED  BY <1>2, <1>3, OneRequest DEF FilterBy

LEMMA MissStep == ASSUME FilterInv, NEW r \in Readers, Miss(r)  PROVE FilterInv'
  <1>1. ReqInv'
    <2>0. Active(r) /\ UNCHANGED tables /\ TablesInv /\ ReqInv
      BY DEF Miss, Active, FilterInv
    <2>1. CASE Usable(Home[r]) /\ FilterBy(r, mem[Home[r]].v)
      <3>1. Home[r] \in Workers  BY FiltersAssumption
      <3>2. /\ mem[Home[r]].v \in Versions /\ mem[Home[r]].age \in 0..FilterTTL
            /\ FreshMem(mem[Home[r]], db, stale)
        BY <3>1 DEF FilterInv, CopiesInv, MemInv
      <3>3. /\ mem[Home[r]].v <= db
            /\ stale[mem[Home[r]].v] <= MaxWork + mem[Home[r]].age
            /\ stale[mem[Home[r]].v] \in Nat
        BY <2>1, <3>2 DEF Usable, FreshMem, FilterInv, TablesInv, TablesTypeOK
      <3>4. stale[mem[Home[r]].v] <= MaxWork + FilterTTL + req[r].work
        BY <2>0, <3>2, <3>3, InHand, FiltersAssumption
      <3> QED  BY <2>0, <2>1, <3>2, <3>3, <3>4, Filtered
    <2>2. CASE GoTo(r, "load")
      BY <2>0, <2>2, MovedRequest DEF Phases
    <2> QED  BY <2>1, <2>2 DEF Miss
  <1> QED  BY <1>1
           DEF Miss, FilterInv, TablesInv, TablesTypeOK, CopiesInv, MemInv, LevelsInv,
               EntryInv, AnsInv, TaskTypeOK, tables, caches

LEMMA LoadStep == ASSUME FilterInv, NEW r \in Readers, LoadFilter(r)  PROVE FilterInv'
  <1>0. Active(r) /\ UNCHANGED tables /\ TablesInv /\ ReqInv /\ MemInv
    BY DEF LoadFilter, Active, FilterInv, CopiesInv, tables
  <1>1. /\ req[r].snap \in Versions /\ req[r].waited \in Nat /\ req[r].work \in Nat
        /\ req[r].snap <= db /\ stale[req[r].snap] <= req[r].work
        /\ req[r].work <= MaxWork /\ stale[req[r].snap] \in Nat
    BY <1>0, InHand DEF FreshRequest, Request
  <1>2. stale[req[r].snap] <= MaxWork + FilterTTL + req[r].work
    BY <1>1, FiltersAssumption
  <1>3. ReqInv'
    BY <1>0, <1>1, <1>2, Filtered DEF LoadFilter
  <1>4. MemInv'
    <2> DEFINE m == IF req[r].waited >= FilterTTL THEN Unloaded
                    ELSE [v |-> req[r].snap, age |-> req[r].waited]
    <2>1. m \in [v : Versions, age : 0..FilterTTL]
      BY <1>1, NothingStored, FiltersAssumption
    <2>2. FreshMem(m, db, stale)
      BY <1>1, NothingStored, FiltersAssumption DEF FreshMem
    <2> HIDE DEF m
    <2>3. mem' = [mem EXCEPT ![Home[r]] = m]  BY DEF LoadFilter, m
    <2> QED  BY <1>0, <2>1, <2>2, <2>3 DEF MemInv, tables
  <1> QED  BY <1>3, <1>4
           DEF LoadFilter, FilterInv, TablesInv, TablesTypeOK, CopiesInv, LevelsInv,
               EntryInv, AnsInv, TaskTypeOK, tables

\* The level of a version that is not too old is used in the query.
LEMMA Levelled ==
    ASSUME TablesInv, ReqInv, UNCHANGED tables, NEW r \in Readers, Active(r),
           NEW v \in Versions, v <= db, stale[v] <= MaxWork + LevelTTL + req[r].work,
           req' = [req EXCEPT ![r].lvl = v, ![r].at = "query"]
    PROVE  ReqInv'
  <1> DEFINE q == [req[r] EXCEPT !.lvl = v, !.at = "query"]
  <1>1. req[r] \in Request /\ FreshRequest(req[r], db, stale) /\ req[r].at # "idle"
    BY InHand
  <1>2. q \in Request  BY <1>1 DEF Request, Phases
  <1>3. FreshRequest(q, db, stale)  BY <1>1 DEF FreshRequest, Request
  <1>4. req' = [req EXCEPT ![r] = q]  BY DEF ReqInv
  <1> QED  BY <1>2, <1>3, <1>4, OneRequest

LEMMA ReadLevelStep == ASSUME FilterInv, NEW r \in Readers, ReadLevel(r)  PROVE FilterInv'
  <1>0. Active(r) /\ UNCHANGED tables /\ TablesInv /\ ReqInv
    BY DEF ReadLevel, Active, FilterInv
  <1>1. ReqInv'
    <2>1. CASE levels.ttl > 0 /\ req' = [req EXCEPT ![r].lvl = levels.v, ![r].at = "query"]
      <3>1. /\ levels.v \in Versions /\ levels.ttl \in 0..LevelTTL
            /\ levels.v <= db /\ stale[levels.v] + levels.ttl <= MaxWork + LevelTTL
            /\ stale[levels.v] \in Nat
        BY <2>1 DEF FilterInv, CopiesInv, LevelsInv, FreshLevels, TablesInv, TablesTypeOK
      <3>2. stale[levels.v] <= MaxWork + LevelTTL + req[r].work
        BY <1>0, <3>1, InHand, FiltersAssumption
      <3> QED  BY <1>0, <2>1, <3>1, <3>2, Levelled
    <2>2. CASE GoTo(r, "build")
      BY <1>0, <2>2, MovedRequest DEF Phases
    <2> QED  BY <2>1, <2>2 DEF ReadLevel
  <1> QED  BY <1>1
           DEF ReadLevel, FilterInv, TablesInv, TablesTypeOK, CopiesInv, MemInv, LevelsInv,
               EntryInv, AnsInv, TaskTypeOK, tables, caches

LEMMA BuildStep == ASSUME FilterInv, NEW r \in Readers, BuildLevels(r)  PROVE FilterInv'
  <1>0. Active(r) /\ UNCHANGED tables /\ TablesInv /\ ReqInv /\ LevelsInv
    BY DEF BuildLevels, Active, FilterInv, CopiesInv, tables
  <1>1. /\ req[r].snap \in Versions /\ req[r].work \in Nat
        /\ req[r].snap <= db /\ stale[req[r].snap] <= req[r].work
        /\ req[r].work <= MaxWork /\ stale[req[r].snap] \in Nat
    BY <1>0, InHand DEF FreshRequest, Request
  <1>2. stale[req[r].snap] <= MaxWork + LevelTTL + req[r].work
    BY <1>1, FiltersAssumption
  <1>3. ReqInv'
    BY <1>0, <1>1, <1>2, Levelled DEF BuildLevels
  <1>4. LevelsInv'
    <2>1. CASE levels' = levels  BY <1>0, <2>1 DEF LevelsInv, tables
    <2>2. CASE levels' = [v |-> req[r].snap, ttl |-> LevelTTL]
      BY <1>0, <1>1, <2>2, FiltersAssumption DEF LevelsInv, FreshLevels, tables
    <2> QED  BY <2>1, <2>2 DEF BuildLevels
  <1> QED  BY <1>3, <1>4
           DEF BuildLevels, FilterInv, TablesInv, TablesTypeOK, CopiesInv, MemInv,
               EntryInv, AnsInv, TaskTypeOK, tables

\* The response of a request is young enough to be cached.
LEMMA ResponseFresh ==
    ASSUME TablesInv, ReqInv, NEW r \in Readers, Active(r)
    PROVE  /\ Response(r) \in [src : Versions, lvl : Versions, ttl : 0..EntryTTL]
           /\ FreshEntry(Response(r), db, stale)
           /\ req[r].src \in 0..db /\ stale[req[r].src] <= SourceBound
           /\ req[r].lvl \in 0..db /\ stale[req[r].lvl] <= LevelBound
  BY InHand, Numbers, FiltersAssumption
  DEF Response, FreshEntry, FreshRequest, Request

LEMMA StoredEntry ==
    ASSUME TablesInv, ReqInv, EntryInv, UNCHANGED tables, NEW r \in Readers, Active(r),
           entry' = Response(r) \/ entry' = entry
    PROVE  EntryInv'
  BY ResponseFresh DEF EntryInv, tables

LEMMA QueryStep == ASSUME FilterInv, NEW r \in Readers, Query(r)  PROVE FilterInv'
  <1>0. Active(r) /\ UNCHANGED tables /\ TablesInv /\ ReqInv /\ EntryInv
    BY DEF Query, Active, FilterInv, CopiesInv
  <1>1. ReqInv'
    BY <1>0, EndedRequest, MovedRequest DEF Query, Phases
  <1>2. EntryInv'  BY <1>0, StoredEntry DEF Query
  <1>3. AnsInv'  BY <1>0, InHand DEF Query, AnsInv, Answer, Request
  <1> QED  BY <1>1, <1>2, <1>3
           DEF Query, FilterInv, TablesInv, TablesTypeOK, CopiesInv, MemInv, LevelsInv,
               TaskTypeOK, tables

LEMMA StoreStep == ASSUME FilterInv, NEW r \in Readers, Store(r)  PROVE FilterInv'
  <1>0. Active(r) /\ UNCHANGED tables /\ TablesInv /\ ReqInv /\ EntryInv
    BY DEF Store, Active, FilterInv, CopiesInv
  <1>1. ReqInv'  BY <1>0, EndedRequest DEF Store
  <1>2. EntryInv'  BY <1>0, StoredEntry DEF Store
  <1> QED  BY <1>1, <1>2
           DEF Store, FilterInv, TablesInv, TablesTypeOK, CopiesInv, MemInv, LevelsInv,
               AnsInv, TaskTypeOK, tables

LEMMA FailStep == ASSUME FilterInv, NEW r \in Readers, Fail(r)  PROVE FilterInv'
  <1>1. ReqInv'  BY EndedRequest DEF Fail, FilterInv
  <1> QED  BY <1>1
           DEF Fail, FilterInv, TablesInv, TablesTypeOK, CopiesInv, MemInv, LevelsInv,
               EntryInv, AnsInv, TaskTypeOK, tables, caches

------------------------------------------------------------------------------
(* Restarts, admins and time *)

LEMMA RestartStep == ASSUME FilterInv, NEW w \in Workers, Restart(w)  PROVE FilterInv'
  <1>1. ReqInv'
    BY IdleRequest DEF Restart, FilterInv, ReqInv, tables
  <1>2. MemInv'
    BY NothingStored DEF Restart, FilterInv, CopiesInv, MemInv, FreshMem, tables
  <1>3. TaskTypeOK'
    BY DEF Restart, FilterInv, TaskTypeOK, Done
  <1> QED  BY <1>1, <1>2, <1>3
           DEF Restart, FilterInv, TablesInv, TablesTypeOK, CopiesInv, LevelsInv,
               EntryInv, AnsInv, tables

\* A commit makes no copy older than it is.
LEMMA CommitStep ==
    ASSUME FilterInv, NEW a \in Admins, NEW w \in Workers,
           NEW todo \in Seq({"memory", "levels", "list"}), Start(a, w, todo)
    PROVE  FilterInv'
  <1>1. /\ db \in Nat /\ db' = db + 1 /\ db' \in Versions /\ stale' = stale
        /\ stale \in [Versions -> Nat]
    BY FiltersAssumption DEF Start, FilterInv, TablesInv, TablesTypeOK, Versions
  <1>2. TablesInv'
    BY <1>1, Numbers DEF FilterInv, TablesInv, TablesTypeOK
  <1>0. UNCHANGED <<mem, levels, entry>> /\ MemInv /\ LevelsInv /\ EntryInv
    BY DEF Start, caches, FilterInv, CopiesInv
  <1>3. MemInv'
    <2>1. ASSUME NEW w2 \in Workers  PROVE FreshMem(mem[w2], db', stale')
      <3>1. mem[w2].v \in Nat /\ FreshMem(mem[w2], db, stale)
        BY <1>0, Numbers DEF MemInv
      <3> QED  BY <1>1, <3>1 DEF FreshMem
    <2> QED  BY <1>0, <2>1 DEF MemInv
  <1>4. LevelsInv'
    <2>1. levels.v \in Nat /\ FreshLevels(levels, db, stale)
      BY <1>0, Numbers DEF LevelsInv
    <2>2. FreshLevels(levels, db', stale')  BY <1>1, <2>1 DEF FreshLevels
    <2> QED  BY <1>0, <2>2 DEF LevelsInv
  <1>5. EntryInv'
    <2>1. entry.src \in Nat /\ entry.lvl \in Nat /\ FreshEntry(entry, db, stale)
      BY <1>0, Numbers DEF EntryInv
    <2>2. FreshEntry(entry, db', stale')  BY <1>1, <2>1 DEF FreshEntry
    <2> QED  BY <1>0, <2>2 DEF EntryInv
  <1>6. ReqInv'
    <2> SUFFICES ASSUME NEW r \in Readers PROVE FreshRequest(req[r], db', stale')
      BY DEF Start, FilterInv, ReqInv
    <2>1. /\ req[r] \in Request /\ FreshRequest(req[r], db, stale)
          /\ req[r].snap \in Nat /\ req[r].src \in Nat /\ req[r].lvl \in Nat
      BY Numbers DEF FilterInv, ReqInv, Request
    <2> QED  BY <1>1, <2>1 DEF FreshRequest
  <1>7. TaskTypeOK'
    BY DEF Start, FilterInv, TaskTypeOK
  <1> QED  BY <1>2, <1>3, <1>4, <1>5, <1>6, <1>7
           DEF Start, FilterInv, CopiesInv, AnsInv

LEMMA ClearStep == ASSUME FilterInv, NEW a \in Admins, Clear(a)  PROVE FilterInv'
  <1>1. MemInv'
    BY NothingStored DEF Clear, FilterInv, CopiesInv, MemInv, FreshMem, tables
  <1>2. LevelsInv'
    BY NothingStored DEF Clear, FilterInv, CopiesInv, LevelsInv, FreshLevels, tables
  <1>3. EntryInv'
    BY NothingStored DEF Clear, FilterInv, CopiesInv, EntryInv, FreshEntry, tables
  <1>4. TaskTypeOK'
    <2>1. task[a].worker \in Workers \union {Nowhere}
          /\ task[a].todo \in Seq({"memory", "levels", "list"}) /\ task[a].todo # <<>>
      BY DEF Clear, FilterInv, TaskTypeOK
    <2>2. Tail(task[a].todo) \in Seq({"memory", "levels", "list"})
      BY <2>1
    <2>3. Done \in [worker : Workers \union {Nowhere}, todo : Seq({"memory", "levels", "list"})]
      BY DEF Done
    <2> DEFINE t == IF Len(task[a].todo) = 1 THEN Done
                    ELSE [worker |-> task[a].worker, todo |-> Tail(task[a].todo)]
    <2>4. t \in [worker : Workers \union {Nowhere}, todo : Seq({"memory", "levels", "list"})]
      BY <2>1, <2>2, <2>3
    <2> HIDE DEF t
    <2>5. task' = [task EXCEPT ![a] = t]  BY DEF Clear, t
    <2> QED  BY <2>4, <2>5 DEF FilterInv, TaskTypeOK
  <1> QED  BY <1>1, <1>2, <1>3, <1>4
           DEF Clear, FilterInv, TablesInv, TablesTypeOK, CopiesInv, ReqInv, AnsInv, tables

LEMMA FailTaskStep == ASSUME FilterInv, NEW a \in Admins, FailTask(a)  PROVE FilterInv'
  <1>1. TaskTypeOK'  BY DEF FailTask, FilterInv, TaskTypeOK, Done
  <1> QED  BY <1>1
           DEF FailTask, FilterInv, TablesInv, TablesTypeOK, CopiesInv, MemInv, LevelsInv,
               EntryInv, ReqInv, AnsInv, tables, caches

\* Nothing ages by more than one tick, and what is current not at all.
LEMMA Aged ==
    ASSUME TablesInv, Tick
    PROVE  /\ db \in Versions /\ db \in Nat /\ db' = db
           /\ stale \in [Versions -> Nat] /\ stale' \in [Versions -> Nat]
           /\ \A v \in Versions : stale'[v] <= stale[v] + 1
           /\ \A v \in Versions : v >= db => stale'[v] = 0
  <1>1. /\ db \in Versions /\ stale \in [Versions -> Nat] /\ db' = db
        /\ stale' = [u \in Versions |-> IF u < db THEN Min2(stale[u] + 1, Horizon + 1)
                                                  ELSE stale[u]]
    BY DEF Tick, Older, TablesInv, TablesTypeOK
  <1>2. \A v \in Versions : /\ stale'[v] \in Nat /\ stale'[v] <= stale[v] + 1
                            /\ v >= db => stale'[v] = stale[v]
    BY <1>1, Numbers DEF Min2
  <1> QED  BY <1>1, <1>2, Numbers DEF TablesInv

LEMMA TickStep == ASSUME FilterInv, Tick  PROVE FilterInv'
  <1>0. TablesInv  BY DEF FilterInv
  <1>1. TablesInv'
    BY <1>0, Aged DEF TablesInv, TablesTypeOK
  <1>2. MemInv'
    <2> DEFINE next(w) == IF mem[w].age + 1 >= FilterTTL THEN Unloaded
                          ELSE [mem[w] EXCEPT !.age = @ + 1]
    <2>1. ASSUME NEW w \in Workers
          PROVE  /\ next(w) \in [v : Versions, age : 0..FilterTTL]
                 /\ FreshMem(next(w), db', stale')
      <3>1. /\ mem[w] \in [v : Versions, age : 0..FilterTTL]
            /\ FreshMem(mem[w], db, stale)
        BY DEF FilterInv, CopiesInv, MemInv
      <3>2. CASE mem[w].age + 1 >= FilterTTL
        BY <3>2, NothingStored DEF FreshMem
      <3>3. CASE ~(mem[w].age + 1 >= FilterTTL)
        BY <1>0, <3>1, <3>3, Aged, Numbers, FiltersAssumption DEF FreshMem
      <3> QED  BY <3>2, <3>3
    <2> HIDE DEF next
    <2>2. mem' = [w \in Workers |-> next(w)]  BY DEF Tick, next
    <2> QED  BY <2>1, <2>2 DEF MemInv
  <1>3. LevelsInv'
    <2>1. levels \in [v : Versions, ttl : 0..LevelTTL] /\ FreshLevels(levels, db, stale)
      BY DEF FilterInv, CopiesInv, LevelsInv
    <2>2. CASE levels.ttl <= 1
      BY <2>2, NothingStored DEF Tick, Expire, LevelsInv, FreshLevels
    <2>3. CASE ~(levels.ttl <= 1)
      BY <1>0, <2>1, <2>3, Aged, Numbers, FiltersAssumption
      DEF Tick, Expire, LevelsInv, FreshLevels
    <2> QED  BY <2>2, <2>3
  <1>4. EntryInv'
    <2>1. /\ entry \in [src : Versions, lvl : Versions, ttl : 0..EntryTTL]
          /\ FreshEntry(entry, db, stale)
      BY DEF FilterInv, CopiesInv, EntryInv
    <2>2. CASE entry.ttl <= 1
      BY <2>2, NothingStored DEF Tick, Expire, EntryInv, FreshEntry
    <2>3. CASE ~(entry.ttl <= 1)
      BY <1>0, <2>1, <2>3, Aged, Numbers, FiltersAssumption
      DEF Tick, Expire, EntryInv, FreshEntry
    <2> QED  BY <2>2, <2>3
  <1>5. ReqInv'
    <2>1. ASSUME NEW r \in Readers
          PROVE  Elapsed(req[r]) \in Request /\ FreshRequest(Elapsed(req[r]), db', stale')
      <3> DEFINE q == req[r]
      <3>1. q \in Request /\ FreshRequest(q, db, stale)  BY DEF FilterInv, ReqInv
      <3>2. CASE q.at = "idle"
        BY <3>1, <3>2 DEF Elapsed, FreshRequest
      <3>3. CASE q.at # "idle"
        <4>1. q.work < MaxWork  BY <3>3 DEF Tick, Active
        <4>2. /\ q.work \in Nat /\ q.waited \in Nat /\ q.waited <= q.work
              /\ q.snap \in Versions /\ q.src \in Versions /\ q.lvl \in Versions
          BY <3>1, FiltersAssumption DEF Request, FreshRequest
        <4>3. Elapsed(q) \in Request
          <5>1. q.work + 1 \in 0..MaxWork /\ q.waited + 1 \in 0..MaxWork
            BY <4>1, <4>2, FiltersAssumption
          <5>2. CASE q.at = "load"
            <6>1. Elapsed(q) = [q EXCEPT !.work = q.work + 1, !.waited = q.waited + 1]
              BY <5>2 DEF Elapsed
            <6> QED  BY <3>1, <5>1, <6>1 DEF Request
          <5>3. CASE q.at # "load"
            <6>1. Elapsed(q) = [q EXCEPT !.work = q.work + 1]
              BY <3>3, <5>3 DEF Elapsed
            <6> QED  BY <3>1, <5>1, <6>1 DEF Request
          <5> QED  BY <5>2, <5>3
        <4>4. /\ Elapsed(q).work = q.work + 1 /\ Elapsed(q).waited <= q.waited + 1
              /\ Elapsed(q).snap = q.snap /\ Elapsed(q).src = q.src
              /\ Elapsed(q).lvl = q.lvl /\ Elapsed(q).waited \in Nat
          BY <3>1, <3>3, <4>2 DEF Elapsed, Request
        <4>5. /\ stale'[q.snap] <= stale[q.snap] + 1 /\ stale'[q.src] <= stale[q.src] + 1
              /\ stale'[q.lvl] <= stale[q.lvl] + 1 /\ db' = db
              /\ stale[q.snap] \in Nat /\ stale[q.src] \in Nat /\ stale[q.lvl] \in Nat
              /\ stale'[q.snap] \in Nat /\ stale'[q.src] \in Nat /\ stale'[q.lvl] \in Nat
          BY <1>0, <4>2, Aged
        <4>6. FreshRequest(Elapsed(q), db', stale')
          BY <3>1, <3>3, <4>2, <4>4, <4>5, FiltersAssumption DEF FreshRequest
        <4> QED  BY <4>3, <4>6
      <3> QED  BY <3>2, <3>3
    <2> QED  BY <2>1 DEF Tick, ReqInv
  <1> QED  BY <1>1, <1>2, <1>3, <1>4, <1>5
           DEF Tick, FilterInv, CopiesInv, AnsInv, TaskTypeOK

------------------------------------------------------------------------------
(* The invariant *)

LEMMA InitFilters == Init => FilterInv
  <1> SUFFICES ASSUME Init PROVE FilterInv
    OBVIOUS
  <1>1. TablesInv  BY Numbers DEF Init, TablesInv, TablesTypeOK
  <1>2. CopiesInv
    BY NothingStored DEF Init, CopiesInv, MemInv, LevelsInv, EntryInv, FreshMem,
                         FreshLevels, FreshEntry
  <1>3. ReqInv  BY IdleRequest DEF Init, ReqInv
  <1>4. TaskTypeOK  BY DEF Init, TaskTypeOK, Done
  <1> QED  BY <1>1, <1>2, <1>3, <1>4 DEF Init, FilterInv, AnsInv

LEMMA ReaderInv ==
    ASSUME FilterInv, NEW r \in Readers, Open(r) \/ ReaderStep(r) \/ Fail(r)
    PROVE  FilterInv'
  BY OpenStep, HitStep, MissStep, LoadStep, ReadLevelStep, BuildStep, QueryStep,
     StoreStep, FailStep DEF ReaderStep

LEMMA AdminInv == ASSUME FilterInv, NEW a \in Admins, AdminStep(a)  PROVE FilterInv'
  <1>1. ASSUME NEW w \in Workers, Toggle(a, w) \/ EditTaxonomy(a, w)  PROVE FilterInv'
    <2>1. /\ <<"memory", "list">> \in Seq({"memory", "levels", "list"})
          /\ <<"levels", "list">> \in Seq({"memory", "levels", "list"})
      OBVIOUS
    <2> QED  BY <1>1, <2>1, CommitStep DEF Toggle, EditTaxonomy
  <1> QED  BY <1>1, ClearStep, FailTaskStep DEF AdminStep

LEMMA StepFilters == FilterInv /\ [Next]_vars => FilterInv'
  <1> SUFFICES ASSUME FilterInv, [Next]_vars PROVE FilterInv'
    OBVIOUS
  <1>1. CASE \E r \in Readers : Open(r) \/ ReaderStep(r) \/ Fail(r)
    BY <1>1, ReaderInv
  <1>2. CASE \E a \in Admins : AdminStep(a)
    BY <1>2, AdminInv
  <1>3. CASE \E w \in Workers : Restart(w)
    BY <1>3, RestartStep
  <1>4. CASE Tick  BY <1>4, TickStep
  <1>5. CASE UNCHANGED vars
    BY <1>5 DEF vars, tables, caches, FilterInv, TablesInv, TablesTypeOK, CopiesInv, MemInv,
                LevelsInv, EntryInv, ReqInv, AnsInv, TaskTypeOK
  <1> QED  BY <1>1, <1>2, <1>3, <1>4, <1>5 DEF Next

\* Every copy of the two tables is as young as the clocks on its way make it.
THEOREM FilterInvariant == Spec => []FilterInv
  <1>1. Init => FilterInv  BY InitFilters
  <1>2. FilterInv /\ [Next]_vars => FilterInv'  BY StepFilters
  <1> QED  BY <1>1, <1>2, PTL DEF Spec

\* The model's type invariant.
THEOREM FilterTypes == Spec => []TypeOK
  <1>1. FilterInv => TypeOK
    BY DEF FilterInv, CopiesInv, MemInv, LevelsInv, EntryInv, ReqInv, AnsInv, TypeOK,
           TablesInv, CachesTypeOK, RequestsTypeOK
  <1> QED  BY <1>1, FilterInvariant, PTL

\* No copy of the sources or of the levels is older than the clocks allow,
\* however many workers hold one and in whatever order they load and clear it.
THEOREM CopiesAreBounded == Spec => []CopiesBounded
  <1>1. FilterInv => CopiesBounded
    <2> SUFFICES ASSUME FilterInv PROVE CopiesBounded
      OBVIOUS
    <2>1. MemoryBounded
      BY DEF FilterInv, CopiesInv, MemInv, FreshMem, MemoryBounded, Usable
    <2>2. LevelsBounded
      BY DEF FilterInv, CopiesInv, LevelsInv, FreshLevels, LevelsBounded
    <2>3. RequestsBounded
      BY DEF FilterInv, ReqInv, FreshRequest, RequestsBounded, Active
    <2>4. EntryBounded
      BY DEF FilterInv, CopiesInv, EntryInv, FreshEntry, EntryBounded
    <2> QED  BY <2>1, <2>2, <2>3, <2>4 DEF CopiesBounded
  <1> QED  BY <1>1, FilterInvariant, PTL

------------------------------------------------------------------------------
(***************************************************************************)
(* Refinement.  Seen through one field of the answers, with the ages cut   *)
(* off at that field's bound, the model is a StaleRegister of one reader.  *)
(***************************************************************************)

\* An answer that may be given now.
GoodAnswer(m) == /\ m \in Answer
                 /\ m.src \in 0..db /\ stale[m.src] <= SourceBound
                 /\ m.lvl \in 0..db /\ stale[m.lvl] <= LevelBound

\* A cached response is a good answer while it lives.
LEMMA CachedAnswer ==
    ASSUME TablesInv, EntryInv, entry.ttl > 0
    PROVE  GoodAnswer([src |-> entry.src, lvl |-> entry.lvl])
  <1>1. /\ entry.src \in Versions /\ entry.lvl \in Versions /\ entry.ttl \in 0..EntryTTL
        /\ entry.src <= db /\ stale[entry.src] + entry.ttl <= SourceBound
        /\ entry.lvl <= db /\ stale[entry.lvl] + entry.ttl <= LevelBound
    BY DEF EntryInv, FreshEntry
  <1>2. stale[entry.src] \in Nat /\ stale[entry.lvl] \in Nat /\ db \in Nat
        /\ entry.src \in Nat /\ entry.lvl \in Nat /\ entry.ttl \in Nat
    <2>1. 0..EntryTTL \subseteq Nat  BY FiltersAssumption
    <2>2. db \in Versions /\ stale \in [Versions -> Nat]  BY DEF TablesInv, TablesTypeOK
    <2> QED  BY <1>1, <2>1, <2>2, Numbers
  <1>3. /\ entry.src \in 0..db /\ stale[entry.src] <= SourceBound
        /\ entry.lvl \in 0..db /\ stale[entry.lvl] <= LevelBound
    BY <1>1, <1>2, Numbers
  <1> QED  BY <1>1, <1>3 DEF GoodAnswer, Answer

\* What a step does to the answer and to the tables.
LEMMA VisibleSteps ==
    ASSUME FilterInv, [Next]_vars
    PROVE  \/ UNCHANGED <<db, stale, ans>>
           \/ UNCHANGED tables /\ ans' = NoAnswer
           \/ UNCHANGED tables /\ GoodAnswer(ans')
           \/ db < MaxVersion /\ db' = db + 1 /\ UNCHANGED <<stale, ans>>
           \/ stale' = Older(stale, db) /\ UNCHANGED <<db, ans>>
  <1>1. ASSUME NEW r \in Readers, Hit(r)
        PROVE  UNCHANGED tables /\ GoodAnswer(ans')
    BY <1>1, CachedAnswer DEF Hit, FilterInv, CopiesInv
  <1>2. ASSUME NEW r \in Readers, Query(r)
        PROVE  UNCHANGED tables /\ GoodAnswer(ans')
    <2>1. TablesInv /\ ReqInv /\ Active(r) /\ UNCHANGED tables
          /\ ans' = [src |-> req[r].src, lvl |-> req[r].lvl]
      BY <1>2 DEF Query, Active, FilterInv
    <2>2. req[r].src \in Versions /\ req[r].lvl \in Versions
      BY <2>1, InHand DEF Request
    <2> QED  BY <2>1, <2>2, ResponseFresh DEF GoodAnswer, Answer
  <1>3. ASSUME NEW r \in Readers, Open(r) \/ ReaderStep(r) \/ Fail(r)
        PROVE  \/ UNCHANGED <<db, stale, ans>>
               \/ UNCHANGED tables /\ ans' = NoAnswer
               \/ UNCHANGED tables /\ GoodAnswer(ans')
    BY <1>1, <1>2, <1>3
    DEF Open, ReaderStep, Miss, LoadFilter, ReadLevel, BuildLevels, Store, Fail, tables
  <1>4. ASSUME NEW a \in Admins, AdminStep(a)
        PROVE  \/ UNCHANGED <<db, stale, ans>>
               \/ db < MaxVersion /\ db' = db + 1 /\ UNCHANGED <<stale, ans>>
    BY <1>4 DEF AdminStep, Toggle, EditTaxonomy, Start, Clear, FailTask, tables
  <1>5. ASSUME NEW w \in Workers, Restart(w)
        PROVE  UNCHANGED <<db, stale, ans>>
    BY <1>5 DEF Restart, tables
  <1>6. CASE Tick  BY <1>6 DEF Tick
  <1>7. CASE UNCHANGED vars  BY <1>7 DEF vars
  <1> QED  BY <1>3, <1>4, <1>5, <1>6, <1>7 DEF Next

\* Cutting the ages off commutes with the clock.
LEMMA CappedAges ==
    ASSUME TablesInv, NEW bound \in Nat, bound <= Horizon, stale' = Older(stale, db),
           NEW v \in Versions
    PROVE  Capped(bound)'[v] = IF v < db THEN Min2(Capped(bound)[v] + 1, bound + 1)
                                         ELSE Capped(bound)[v]
  <1>1. stale[v] \in Nat /\ Horizon \in Nat /\ v \in Nat /\ db \in Nat
    BY Numbers DEF TablesInv, TablesTypeOK
  <1>2. stale'[v] = IF v < db THEN Min2(stale[v] + 1, Horizon + 1) ELSE stale[v]
    BY DEF Older
  <1>3. Capped(bound)[v] = Min2(stale[v], bound + 1)  BY DEF Capped
  <1>4. Capped(bound)'[v] = Min2(stale'[v], bound + 1)  BY DEF Capped
  <1> QED  BY <1>1, <1>2, <1>3, <1>4 DEF Min2

\* The answers are good for the register of the sources, ...
LEMMA SourceRefines ==
    ASSUME FilterInv, [Next]_vars
    PROVE  [SourcePromise!Next]_<<db, Capped(SourceBound), Last("src")>>
  <1>0. TablesInv  BY DEF FilterInv
  <1>1. CASE UNCHANGED <<db, stale, ans>>
    BY <1>1 DEF Capped, Last
  <1>2. CASE UNCHANGED tables /\ ans' = NoAnswer
    <2>1. UNCHANGED <<db, Capped(SourceBound)>>  BY <1>2 DEF tables, Capped
    <2>2. Last("src")' = [Last("src") EXCEPT !["last"] = NoAnswer]  BY <1>2 DEF Last
    <2> QED  BY <2>1, <2>2 DEF SourcePromise!Next, SourcePromise!Ask
  <1>3. CASE UNCHANGED tables /\ GoodAnswer(ans')
    <2>1. UNCHANGED <<db, Capped(SourceBound)>>  BY <1>3 DEF tables, Capped
    <2>2. ans' # NoAnswer
      BY <1>3, Numbers, FiltersAssumption DEF GoodAnswer, Answer
    <2>3. Last("src")' = [Last("src") EXCEPT !["last"] = ans'.src]
      BY <2>2 DEF Last
    <2>4. ans'.src \in Versions /\ ans'.src \in 0..db /\ stale[ans'.src] <= SourceBound
      BY <1>3 DEF GoodAnswer, Answer
    <2>5. Capped(SourceBound)[ans'.src] <= SourceBound
      BY <1>0, <2>4, Numbers DEF Capped, Min2, TablesInv, TablesTypeOK
    <2> QED  BY <2>1, <2>3, <2>4, <2>5 DEF SourcePromise!Next, SourcePromise!Answer
  <1>4. CASE db < MaxVersion /\ db' = db + 1 /\ UNCHANGED <<stale, ans>>
    BY <1>4 DEF SourcePromise!Next, SourcePromise!Commit, Capped, Last
  <1>5. CASE stale' = Older(stale, db) /\ UNCHANGED <<db, ans>>
    <2>1. Capped(SourceBound)' = SourcePromise!Older(Capped(SourceBound), db)
      BY <1>0, <1>5, CappedAges, Numbers
      DEF Capped, SourcePromise!Older, SourcePromise!Versions, SourcePromise!Min2,
          Versions, Min2
    <2> QED  BY <1>5, <2>1 DEF SourcePromise!Next, SourcePromise!Tick, Last
  <1> QED  BY <1>1, <1>2, <1>3, <1>4, <1>5, VisibleSteps

\* ... and for that of the levels.
LEMMA LevelRefines ==
    ASSUME FilterInv, [Next]_vars
    PROVE  [LevelPromise!Next]_<<db, Capped(LevelBound), Last("lvl")>>
  <1>0. TablesInv  BY DEF FilterInv
  <1>1. CASE UNCHANGED <<db, stale, ans>>
    BY <1>1 DEF Capped, Last
  <1>2. CASE UNCHANGED tables /\ ans' = NoAnswer
    <2>1. UNCHANGED <<db, Capped(LevelBound)>>  BY <1>2 DEF tables, Capped
    <2>2. Last("lvl")' = [Last("lvl") EXCEPT !["last"] = NoAnswer]  BY <1>2 DEF Last
    <2> QED  BY <2>1, <2>2 DEF LevelPromise!Next, LevelPromise!Ask
  <1>3. CASE UNCHANGED tables /\ GoodAnswer(ans')
    <2>1. UNCHANGED <<db, Capped(LevelBound)>>  BY <1>3 DEF tables, Capped
    <2>2. ans' # NoAnswer
      BY <1>3, Numbers, FiltersAssumption DEF GoodAnswer, Answer
    <2>3. Last("lvl")' = [Last("lvl") EXCEPT !["last"] = ans'.lvl]
      BY <2>2 DEF Last
    <2>4. ans'.lvl \in Versions /\ ans'.lvl \in 0..db /\ stale[ans'.lvl] <= LevelBound
      BY <1>3 DEF GoodAnswer, Answer
    <2>5. Capped(LevelBound)[ans'.lvl] <= LevelBound
      BY <1>0, <2>4, Numbers DEF Capped, Min2, TablesInv, TablesTypeOK
    <2> QED  BY <2>1, <2>3, <2>4, <2>5 DEF LevelPromise!Next, LevelPromise!Answer
  <1>4. CASE db < MaxVersion /\ db' = db + 1 /\ UNCHANGED <<stale, ans>>
    BY <1>4 DEF LevelPromise!Next, LevelPromise!Commit, Capped, Last
  <1>5. CASE stale' = Older(stale, db) /\ UNCHANGED <<db, ans>>
    <2>1. Capped(LevelBound)' = LevelPromise!Older(Capped(LevelBound), db)
      BY <1>0, <1>5, CappedAges, Numbers
      DEF Capped, LevelPromise!Older, LevelPromise!Versions, LevelPromise!Min2,
          Versions, Min2
    <2> QED  BY <1>5, <2>1 DEF LevelPromise!Next, LevelPromise!Tick, Last
  <1> QED  BY <1>1, <1>2, <1>3, <1>4, <1>5, VisibleSteps

\* At the start nobody has an answer, and no version has been superseded.
LEMMA InitRefines == Init => SourcePromise!Init /\ LevelPromise!Init
  BY Numbers DEF Init, SourcePromise!Init, LevelPromise!Init, Capped, Last, Min2,
                 SourcePromise!Versions, LevelPromise!Versions, Versions

\* A source that is switched off is gone from every answer SourceBound ticks
\* after the commit, whatever becomes of the toggle and of the workers.
THEOREM SourcePromiseIsKept == Spec => SourcePromiseKept
  <1>1. FilterInv /\ [Next]_vars
        => [SourcePromise!Next]_<<db, Capped(SourceBound), Last("src")>>
    BY SourceRefines
  <1> QED  BY <1>1, InitRefines, FilterInvariant, PTL
           DEF Spec, SourcePromiseKept, SourcePromise!Spec, SourcePromise!vars

\* The same of a category that is moved or renamed, and LevelBound.
THEOREM LevelPromiseIsKept == Spec => LevelPromiseKept
  <1>1. FilterInv /\ [Next]_vars
        => [LevelPromise!Next]_<<db, Capped(LevelBound), Last("lvl")>>
    BY LevelRefines
  <1> QED  BY <1>1, InitRefines, FilterInvariant, PTL
           DEF Spec, LevelPromiseKept, LevelPromise!Spec, LevelPromise!vars

------------------------------------------------------------------------------
(* Settled copies *)

\* A request that agrees with the tables, or is none.
Agrees(q) == q.at # "idle" => {q.snap, q.src, q.lvl} = {db}
RequestsAgree == \A r \in Readers : Agrees(req[r])
CachesAgree == /\ \A w \in Workers : mem[w].age < FilterTTL => mem[w].v = db
               /\ levels.ttl > 0 => levels.v = db
               /\ entry.ttl > 0 => entry.src = db /\ entry.lvl = db

LEMMA SettledParts == Settled <=> RequestsAgree /\ CachesAgree
  BY DEF Settled, RequestsAgree, CachesAgree, Agrees, Usable, Active

\* Requests keep agreeing when one of them changes to one that agrees.
LEMMA OneAgrees ==
    ASSUME ReqInv, RequestsAgree, UNCHANGED db, NEW r \in Readers, NEW q,
           Agrees(q), req' = [req EXCEPT ![r] = q]
    PROVE  RequestsAgree'
  BY DEF RequestsAgree, ReqInv, Agrees

LEMMA IdleAgrees == Agrees(Idle)  BY DEF Agrees, Idle

LEMMA ReaderSettled ==
    ASSUME FilterInv, Settled, NEW r \in Readers, Open(r) \/ ReaderStep(r) \/ Fail(r)
    PROVE  RequestsAgree' /\ CachesAgree'
  <1>0. /\ ReqInv /\ MemInv /\ RequestsAgree /\ CachesAgree
        /\ req \in [Readers -> Request]
    BY SettledParts DEF FilterInv, CopiesInv, ReqInv
  <1>1. UNCHANGED tables
    BY DEF Open, ReaderStep, Hit, Miss, LoadFilter, ReadLevel, BuildLevels, Query, Store, Fail
  <1>2. req[r] \in Request /\ Agrees(req[r])  BY <1>0 DEF RequestsAgree
  <1>3. ASSUME Active(r), NEW phase \in Phases, GoTo(r, phase)  PROVE RequestsAgree'
    <2>1. Agrees([req[r] EXCEPT !.at = phase])
      BY <1>2, <1>3 DEF Agrees, Active, Request
    <2> QED  BY <1>0, <1>1, <1>3, <2>1, OneAgrees DEF GoTo, tables
  <1>4. ASSUME Finish(r)  PROVE RequestsAgree'
    BY <1>0, <1>1, <1>4, IdleAgrees, OneAgrees DEF Finish, tables
  <1>5. ASSUME Active(r), FilterBy(r, db)  PROVE RequestsAgree'
    <2>1. Agrees([req[r] EXCEPT !.at = "level", !.src = db, !.waited = 0])
      BY <1>2, <1>5 DEF Agrees, Active, Request
    <2> QED  BY <1>0, <1>1, <1>5, <2>1, OneAgrees DEF FilterBy, tables
  <1>6. ASSUME Active(r), req' = [req EXCEPT ![r].lvl = db, ![r].at = "query"]
        PROVE  RequestsAgree'
    <2> DEFINE q == [req[r] EXCEPT !.lvl = db, !.at = "query"]
    <2>1. Agrees(q)  BY <1>2, <1>6 DEF Agrees, Active, Request
    <2>2. req' = [req EXCEPT ![r] = q]  BY <1>0, <1>6
    <2> QED  BY <1>0, <1>1, <2>1, <2>2, OneAgrees DEF tables
  <1>7. ASSUME Active(r)  PROVE req[r].snap = db /\ req[r].src = db /\ req[r].lvl = db
    BY <1>2, <1>7 DEF Agrees, Active
  <1>8. CASE Open(r)
    <2> DEFINE q == [Idle EXCEPT !.at = "lookup", !.snap = db, !.src = db, !.lvl = db]
    <2>1. Agrees(q)  BY IdleRequest DEF Agrees, Request
    <2>2. req' = [req EXCEPT ![r] = q]  BY <1>8 DEF Open
    <2> HIDE DEF q
    <2>3. RequestsAgree'  BY <1>0, <1>1, <2>1, <2>2, OneAgrees DEF tables
    <2> QED  BY <1>0, <1>1, <1>8, <2>3 DEF Open, CachesAgree, tables, caches
  <1>9. CASE Hit(r)
    BY <1>0, <1>1, <1>4, <1>9 DEF Hit, CachesAgree, tables, caches
  <1>10. CASE Miss(r)
    <2>1. Home[r] \in Workers /\ "load" \in Phases  BY FiltersAssumption DEF Phases
    <2>2. Active(r)  BY <1>10 DEF Miss, Active
    <2>3. Usable(Home[r]) => mem[Home[r]].v = db
      BY <1>0, <2>1 DEF CachesAgree, Usable
    <2>4. RequestsAgree'  BY <1>3, <1>5, <1>10, <2>1, <2>2, <2>3 DEF Miss
    <2> QED  BY <1>0, <1>1, <1>10, <2>4 DEF Miss, CachesAgree, tables, caches
  <1>11. CASE LoadFilter(r)
    <2>1. Active(r)  BY <1>11 DEF LoadFilter, Active
    <2>2. req[r].snap = db  BY <1>7, <2>1
    <2>3. RequestsAgree'  BY <1>5, <1>11, <2>1, <2>2 DEF LoadFilter
    <2> DEFINE m == IF req[r].waited >= FilterTTL THEN Unloaded
                    ELSE [v |-> req[r].snap, age |-> req[r].waited]
    <2>4. m.age < FilterTTL => m.v = db
      BY <2>2, NothingStored
    <2>5. mem' = [mem EXCEPT ![Home[r]] = m]  BY <1>11 DEF LoadFilter
    <2> HIDE DEF m
    <2>6. \A w \in Workers : mem'[w].age < FilterTTL => mem'[w].v = db
      BY <1>0, <2>4, <2>5 DEF MemInv, CachesAgree
    <2> QED  BY <1>0, <1>1, <1>11, <2>3, <2>6 DEF LoadFilter, CachesAgree, tables
  <1>12. CASE ReadLevel(r)
    <2>1. Active(r) /\ "build" \in Phases  BY <1>12 DEF ReadLevel, Active, Phases
    <2>2. levels.ttl > 0 => levels.v = db  BY <1>0 DEF CachesAgree
    <2>3. RequestsAgree'  BY <1>3, <1>6, <1>12, <2>1, <2>2 DEF ReadLevel
    <2> QED  BY <1>0, <1>1, <1>12, <2>3 DEF ReadLevel, CachesAgree, tables, caches
  <1>13. CASE BuildLevels(r)
    <2>1. Active(r)  BY <1>13 DEF BuildLevels, Active
    <2>2. RequestsAgree'  BY <1>6, <1>7, <1>13, <2>1 DEF BuildLevels
    <2> QED  BY <1>0, <1>1, <1>7, <1>13, <2>1, <2>2 DEF BuildLevels, CachesAgree, tables
  <1>14. ASSUME Active(r), entry' = Response(r) \/ entry' = entry, UNCHANGED <<mem, levels>>
         PROVE  CachesAgree'
    BY <1>0, <1>1, <1>7, <1>14 DEF Response, CachesAgree, tables
  <1>15. CASE Query(r)
    <2>1. Active(r) /\ "store" \in Phases  BY <1>15 DEF Query, Active, Phases
    <2> QED  BY <1>3, <1>4, <1>14, <1>15, <2>1 DEF Query
  <1>16. CASE Store(r)
    <2>1. Active(r)  BY <1>16 DEF Store, Active
    <2> QED  BY <1>4, <1>14, <1>16, <2>1 DEF Store
  <1>17. CASE Fail(r)
    BY <1>0, <1>1, <1>4, <1>17 DEF Fail, CachesAgree, tables, caches
  <1> QED  BY <1>8, <1>9, <1>10, <1>11, <1>12, <1>13, <1>15, <1>16, <1>17 DEF ReaderStep

LEMMA TickSettled ==
    ASSUME FilterInv, Settled, Tick  PROVE RequestsAgree' /\ CachesAgree'
  <1>0. /\ RequestsAgree /\ CachesAgree /\ db' = db /\ MemInv /\ LevelsInv /\ EntryInv
        /\ req \in [Readers -> Request]
    BY SettledParts DEF Tick, FilterInv, CopiesInv, ReqInv
  <1>1. RequestsAgree'
    <2>1. ASSUME NEW r \in Readers  PROVE Agrees(Elapsed(req[r]))
      <3>1. req[r] \in Request /\ Agrees(req[r])  BY <1>0 DEF RequestsAgree
      <3> QED  BY <3>1 DEF Elapsed, Agrees, Request
    <2> QED  BY <1>0, <2>1 DEF Tick, RequestsAgree, Agrees
  <1>2. \A w \in Workers : mem'[w].age < FilterTTL => mem'[w].v = db
    <2> SUFFICES ASSUME NEW w \in Workers, mem'[w].age < FilterTTL
                 PROVE  mem'[w].v = db
      OBVIOUS
    <2>1. mem[w] \in [v : Versions, age : 0..FilterTTL] /\ mem[w].age \in Nat
      <3>1. 0..FilterTTL \subseteq Nat  BY FiltersAssumption
      <3> QED  BY <1>0, <3>1 DEF MemInv
    <2>2. mem'[w] = IF mem[w].age + 1 >= FilterTTL THEN Unloaded
                    ELSE [mem[w] EXCEPT !.age = @ + 1]
      BY DEF Tick
    <2>3. mem[w].age + 1 < FilterTTL /\ mem'[w].v = mem[w].v
      BY <2>1, <2>2, NothingStored, FiltersAssumption
    <2>4. mem[w].age < FilterTTL  BY <2>1, <2>3, FiltersAssumption
    <2> QED  BY <1>0, <2>3, <2>4 DEF CachesAgree
  <1>3. levels'.ttl > 0 => levels'.v = db
    <2>1. levels.ttl \in 0..LevelTTL /\ levels \in [v : Versions, ttl : 0..LevelTTL]
      BY <1>0 DEF LevelsInv
    <2> QED  BY <1>0, <2>1, NothingStored, FiltersAssumption DEF Tick, Expire, CachesAgree
  <1>4. entry'.ttl > 0 => entry'.src = db /\ entry'.lvl = db
    <2>1. /\ entry.ttl \in 0..EntryTTL
          /\ entry \in [src : Versions, lvl : Versions, ttl : 0..EntryTTL]
      BY <1>0 DEF EntryInv
    <2> QED  BY <1>0, <2>1, NothingStored, FiltersAssumption DEF Tick, Expire, CachesAgree
  <1> QED  BY <1>0, <1>1, <1>2, <1>3, <1>4 DEF CachesAgree

\* Once every copy agrees with the tables only a commit can change that: no
\* request, failure, restart or admin brings an old version back.
THEOREM CommitsAloneUnsettle == Spec => OnlyCommitsUnsettle
  <1>1. FilterInv /\ [Next]_vars => [Settled /\ db' = db => Settled']_vars
    <2> SUFFICES ASSUME FilterInv, Next, Settled, db' = db  PROVE Settled'
      OBVIOUS
    <2>0. RequestsAgree' /\ CachesAgree' => Settled'
      BY DEF Settled, RequestsAgree, CachesAgree, Agrees, Usable, Active
    <2>1. ASSUME NEW r \in Readers, Open(r) \/ ReaderStep(r) \/ Fail(r)  PROVE Settled'
      BY <2>0, <2>1, ReaderSettled
    <2>2. ASSUME NEW a \in Admins, AdminStep(a)  PROVE Settled'
      <3>0. RequestsAgree /\ CachesAgree /\ MemInv /\ db \in Nat
        BY SettledParts, Numbers DEF FilterInv, CopiesInv, TablesInv, TablesTypeOK
      <3>1. Clear(a) \/ FailTask(a)
        BY <2>2, <3>0 DEF AdminStep, Toggle, EditTaxonomy, Start
      <3>2. RequestsAgree'
        BY <3>0, <3>1 DEF Clear, FailTask, RequestsAgree, Agrees
      <3>3. CachesAgree'
        BY <3>0, <3>1, NothingStored
        DEF Clear, FailTask, CachesAgree, caches, MemInv
      <3> QED  BY <2>0, <3>2, <3>3
    <2>3. ASSUME NEW w \in Workers, Restart(w)  PROVE Settled'
      <3>0. RequestsAgree /\ CachesAgree /\ MemInv
        BY SettledParts DEF FilterInv, CopiesInv
      <3>1. RequestsAgree'
        BY <2>3, <3>0, IdleAgrees DEF Restart, RequestsAgree, Agrees
      <3>2. CachesAgree'
        BY <2>3, <3>0, NothingStored DEF Restart, CachesAgree, MemInv
      <3> QED  BY <2>0, <3>1, <3>2
    <2>4. CASE Tick  BY <2>0, <2>4, TickSettled
    <2> QED  BY <2>1, <2>2, <2>3, <2>4 DEF Next
  <1> QED  BY <1>1, FilterInvariant, PTL DEF Spec, OnlyCommitsUnsettle
==============================================================================
