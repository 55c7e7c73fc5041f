----------------------------- MODULE ListFilters ------------------------------
(***************************************************************************)
(* What the answers of the read endpoints are filtered by, and how old it  *)
(* may be: the set of enabled sources, which every worker process keeps in *)
(* memory for 30 s (source_filter.py), and the levels of the categories,   *)
(* which all workers share in Redis for 60 s (taxonomy.py).  Behind both   *)
(* stands the response cache, and beside them the admin requests that      *)
(* commit a change and then clear these copies one after another.          *)
(*                                                                         *)
(* A committed version is the state of both tables after so many changes;  *)
(* an answer is the pair of versions its source filter and its category    *)
(* level were taken from.  The stampede lock of the caches is ReadCache's  *)
(* subject: here a request that misses may wait in "lookup" and may fetch  *)
(* with or without the lock, so any number of them fetch at once.          *)
(***************************************************************************)
EXTENDS Naturals, Sequences

CONSTANTS
    Readers,      \* request slots
    Admins,       \* slots of admin requests
    Workers,      \* worker processes
    Home,         \* Home[r]: the worker that serves the slot
    MaxVersion,   \* bound: committed changes
    FilterTTL,    \* _CACHE_TTL of source_filter.py
    LevelTTL,     \* _LEVELS_TTL of taxonomy.py
    EntryTTL,     \* TTL of the cached response
    MaxWork,      \* ticks a request may take, polling included
    Nowhere,      \* the worker of an idle slot
    NoAnswer      \* nobody has been answered since the last request

ASSUME FiltersAssumption ==
    /\ MaxVersion \in Nat /\ MaxWork \in Nat
    /\ FilterTTL \in Nat \ {0} /\ LevelTTL \in Nat \ {0}
    /\ EntryTTL \in Nat \ {0}
    /\ Home \in [Readers -> Workers]
    /\ NoAnswer \notin [src : Nat, lvl : Nat]

VARIABLES
    db,       \* committed version of data_sources and unified_categories
    stale,    \* stale[v]: ticks since v was superseded (ghost)
    mem,      \* mem[w]: the worker's set of sources and its age
    levels,   \* the shared map of category levels
    entry,    \* the cached response to one list request
    req,      \* req[r]: the request in the slot
    task,     \* task[a]: what the admin request has still to clear
    ans       \* the answer given last, until somebody asks again

vars == <<db, stale, mem, levels, entry, req, task, ans>>
tables == <<db, stale>>
caches == <<mem, levels, entry>>

Versions == 0..MaxVersion
Max2(a, b) == IF a > b THEN a ELSE b
Min2(a, b) == IF a < b THEN a ELSE b

\* A snapshot may be MaxWork old when it is copied to the first cache, the
\* copy TTL old when a request uses it, that request MaxWork old when its
\* response is cached, and the response EntryTTL old when it is served.
SourceBound == MaxWork + FilterTTL + MaxWork + EntryTTL
LevelBound  == MaxWork + LevelTTL + MaxWork + EntryTTL
Horizon     == Max2(SourceBound, LevelBound)

\* What the answers say of the sources and of the categories: each a register
\* of StaleRegister with a bound of its own.
Last(field) == [one \in {"last"} |-> IF ans = NoAnswer THEN NoAnswer ELSE ans[field]]
Capped(bound) == [v \in Versions |-> Min2(stale[v], bound + 1)]

SourcePromise == INSTANCE StaleRegister WITH
    Readers <- {"last"}, Failed <- Nowhere,
    StaleBound <- SourceBound, stale <- Capped(SourceBound), ans <- Last("src")
LevelPromise == INSTANCE StaleRegister WITH
    Readers <- {"last"}, Failed <- Nowhere,
    StaleBound <- LevelBound, stale <- Capped(LevelBound), ans <- Last("lvl")

\* An unloaded set and an expired one are the same to get_disabled_sources.
Unloaded == [v |-> 0, age |-> FilterTTL]
NoLevels == [v |-> 0, ttl |-> 0]
NoEntry  == [src |-> 0, lvl |-> 0, ttl |-> 0]
Usable(w) == mem[w].age < FilterTTL

Phases == {"idle", "lookup",              \* the response cache
           "load",                        \* the SELECT of get_disabled_sources
           "level", "build",              \* get_category_level
           "query", "store"}              \* the main query, the background set
Request == [at : Phases,
            snap : Versions,              \* the version its snapshot shows
            work : 0..MaxWork,            \* ticks since the snapshot
            waited : 0..MaxWork,          \* ticks since datetime.now in "load"
            src : Versions, lvl : Versions]
Answer == [src : Versions, lvl : Versions]
Idle == [at |-> "idle", snap |-> 0, work |-> 0, waited |-> 0, src |-> 0, lvl |-> 0]
Done == [worker |-> Nowhere, todo |-> <<>>]

Active(r) == req[r].at # "idle"
GoTo(r, phase) == req' = [req EXCEPT ![r].at = phase]
Finish(r) == req' = [req EXCEPT ![r] = Idle]
Older(s, v) == [u \in Versions |-> IF u < v THEN Min2(s[u] + 1, Horizon + 1) ELSE s[u]]

Init ==
    /\ db = 0
    /\ stale = [v \in Versions |-> 0]
    /\ mem = [w \in Workers |-> Unloaded]
    /\ levels = NoLevels
    /\ entry = NoEntry
    /\ req = [r \in Readers |-> Idle]
    /\ task = [a \in Admins |-> Done]
    /\ ans = NoAnswer

------------------------------------------------------------------------------
(* Requests *)

\* get_session pins the snapshot.
Open(r) ==
    /\ req[r].at = "idle"
    /\ req' = [req EXCEPT ![r] = [Idle EXCEPT !.at = "lookup", !.snap = db,
                                  !.src = db, !.lvl = db]]
    /\ ans' = NoAnswer
    /\ UNCHANGED <<tables, caches, task>>

\* The response is cached.
Hit(r) ==
    /\ req[r].at = "lookup"
    /\ entry.ttl > 0
    /\ ans' = [src |-> entry.src, lvl |-> entry.lvl]
    /\ Finish(r)
    /\ UNCHANGED <<tables, caches, task>>

\* source_not_in_clause: the enabled sources of version v go into the query.
FilterBy(r, v) ==
    req' = [req EXCEPT ![r] = [@ EXCEPT !.at = "level", !.src = v, !.waited = 0]]

\* Mutant of Miss: a set that is used is young again.
MissSliding(r) ==
    /\ req[r].at = "lookup"
    /\ entry.ttl = 0
    /\ \/ /\ Usable(Home[r])
          /\ FilterBy(r, mem[Home[r]].v)
          /\ mem' = [mem EXCEPT ![Home[r]].age = 0]
       \/ /\ ~Usable(Home[r])
          /\ GoTo(r, "load") /\ UNCHANGED mem
    /\ UNCHANGED <<tables, levels, entry, task, ans>>

\* The last look at the response cache found nothing: without an await in
\* between, get_disabled_sources takes the worker's set if it is young.
Miss(r) ==
    /\ req[r].at = "lookup"
    /\ entry.ttl = 0
    /\ \/ /\ Usable(Home[r])
          /\ FilterBy(r, mem[Home[r]].v)
       \/ /\ ~Usable(Home[r])
          /\ GoTo(r, "load")
    /\ UNCHANGED <<tables, caches, task, ans>>

\* The SELECT has returned what the snapshot shows: it becomes the worker's
\* set, with the time from before the SELECT, whatever happened meanwhile.
LoadFilter(r) ==
    /\ req[r].at = "load"
    /\ mem' = [mem EXCEPT ![Home[r]] =
                  IF req[r].waited >= FilterTTL THEN Unloaded
                  ELSE [v |-> req[r].snap, age |-> req[r].waited]]
    /\ FilterBy(r, req[r].snap)
    /\ UNCHANGED <<tables, levels, entry, task, ans>>

\* Mutant of ReadLevel: the map is copied into the process for good.
ReadLevelForever(r) ==
    /\ req[r].at = "level"
    /\ req' = [req EXCEPT ![r].lvl = 0, ![r].at = "query"]
    /\ UNCHANGED <<tables, caches, task, ans>>

\* _get_levels finds the map in the cache, or not.
ReadLevel(r) ==
    /\ req[r].at = "level"
    /\ \/ /\ levels.ttl > 0
          /\ req' = [req EXCEPT ![r].lvl = levels.v, ![r].at = "query"]
       \/ /\ levels.ttl = 0
          /\ GoTo(r, "build")
    /\ UNCHANGED <<tables, caches, task, ans>>

\* Mutant of BuildLevels: ttl=_LEVELS_TTL is left out, the default is longer.
BuildLevelsDefaultTTL(r) ==
    /\ req[r].at = "build"
    /\ levels' \in {levels, [v |-> req[r].snap, ttl |-> EntryTTL]}
    /\ req' = [req EXCEPT ![r].lvl = req[r].snap, ![r].at = "query"]
    /\ UNCHANGED <<tables, mem, entry, task, ans>>

\* _build_level_cache reads the snapshot; the result is cached by the request
\* that holds the lock only.
BuildLevels(r) ==
    /\ req[r].at = "build"
    /\ levels' \in {levels, [v |-> req[r].snap, ttl |-> LevelTTL]}
    /\ req' = [req EXCEPT ![r].lvl = req[r].snap, ![r].at = "query"]
    /\ UNCHANGED <<tables, mem, entry, task, ans>>

Response(r) == [src |-> req[r].src, lvl |-> req[r].lvl, ttl |-> EntryTTL]

\* The main query: its answer is cached under the lock, or left to the
\* background task of a request that fetched without.
Query(r) ==
    /\ req[r].at = "query"
    /\ ans' = [src |-> req[r].src, lvl |-> req[r].lvl]
    /\ \/ entry' = Response(r) /\ Finish(r)
       \/ GoTo(r, "store") /\ UNCHANGED entry
    /\ UNCHANGED <<tables, mem, levels, task>>

\* cache_set_async; its error is only logged.
Store(r) ==
    /\ req[r].at = "store"
    /\ \/ entry' = Response(r)
       \/ UNCHANGED entry
    /\ Finish(r)
    /\ UNCHANGED <<tables, mem, levels, task, ans>>

\* A statement timeout or an error: no answer, and nothing is stored.
Fail(r) ==
    /\ Active(r)
    /\ Finish(r)
    /\ UNCHANGED <<tables, caches, task, ans>>

\* A worker process dies and is started again.
Restart(w) ==
    /\ mem' = [mem EXCEPT ![w] = Unloaded]
    /\ req' = [r \in Readers |-> IF Home[r] = w THEN Idle ELSE req[r]]
    /\ task' = [a \in Admins |-> IF task[a].worker = w THEN Done ELSE task[a]]
    /\ UNCHANGED <<tables, levels, entry, ans>>

------------------------------------------------------------------------------
(* Admin requests: a failing one commits nothing and clears nothing. *)

Start(a, w, todo) ==
    /\ task[a].todo = <<>>
    /\ db < MaxVersion
    /\ db' = db + 1
    /\ task' = [task EXCEPT ![a] = [worker |-> w, todo |-> todo]]
    /\ UNCHANGED <<stale, caches, req, ans>>

\* admin_toggle_source, up to its commit.
Toggle(a, w) == Start(a, w, <<"memory", "list">>)

\* The create, update and delete of a category, up to their commit.
EditTaxonomy(a, w) == Start(a, w, <<"levels", "list">>)

\* invalidate_cache in this process, one pattern of cache_delete_pattern.
Clear(a) ==
    /\ task[a].todo # <<>>
    /\ LET what == Head(task[a].todo) IN
       /\ mem' = IF what = "memory" THEN [mem EXCEPT ![task[a].worker] = Unloaded] ELSE mem
       /\ levels' = IF what = "levels" THEN NoLevels ELSE levels
       /\ entry' = IF what = "list" THEN NoEntry ELSE entry
    /\ task' = [task EXCEPT ![a] = IF Len(@.todo) = 1 THEN Done
                                   ELSE [worker |-> @.worker, todo |-> Tail(@.todo)]]
    /\ UNCHANGED <<tables, req, ans>>

\* Redis fails in the middle.
FailTask(a) ==
    /\ task[a].todo # <<>>
    /\ task' = [task EXCEPT ![a] = Done]
    /\ UNCHANGED <<tables, caches, req, ans>>

------------------------------------------------------------------------------
(* Time *)

Elapsed(q) == IF q.at = "idle" THEN q
              ELSE IF q.at = "load" THEN [q EXCEPT !.work = @ + 1, !.waited = @ + 1]
              ELSE [q EXCEPT !.work = @ + 1]
Expire(key, gone) == IF key.ttl <= 1 THEN gone ELSE [key EXCEPT !.ttl = @ - 1]

\* Assumption: no request takes more than MaxWork ticks.
Tick ==
    /\ \A r \in Readers : Active(r) => req[r].work < MaxWork
    /\ stale' = Older(stale, db)
    /\ req' = [r \in Readers |-> Elapsed(req[r])]
    /\ mem' = [w \in Workers |-> IF mem[w].age + 1 >= FilterTTL THEN Unloaded
                                 ELSE [mem[w] EXCEPT !.age = @ + 1]]
    /\ levels' = Expire(levels, NoLevels)
    /\ entry' = Expire(entry, NoEntry)
    /\ UNCHANGED <<db, task, ans>>

------------------------------------------------------------------------------
ReaderStep(r) == \/ Hit(r) \/ Miss(r) \/ LoadFilter(r) \/ ReadLevel(r)
                 \/ BuildLevels(r) \/ Query(r) \/ Store(r)

AdminStep(a) == \/ \E w \in Workers : Toggle(a, w) \/ EditTaxonomy(a, w)
                \/ Clear(a) \/ FailTask(a)

Next == \/ \E r \in Readers : Open(r) \/ ReaderStep(r) \/ Fail(r)
        \/ \E a \in Admins : AdminStep(a)
        \/ \E w \in Workers : Restart(w)
        \/ Tick

Spec == Init /\ [][Next]_vars

------------------------------------------------------------------------------
(* Properties *)

TablesTypeOK == /\ db \in Versions
                /\ stale \in [Versions -> Nat]
CachesTypeOK == /\ mem \in [Workers -> [v : Versions, age : 0..FilterTTL]]
                /\ levels \in [v : Versions, ttl : 0..LevelTTL]
                /\ entry \in [src : Versions, lvl : Versions, ttl : 0..EntryTTL]
RequestsTypeOK == /\ req \in [Readers -> Request]
                  /\ ans \in Answer \union {NoAnswer}
TaskTypeOK == task \in [Admins -> [worker : Workers \union {Nowhere},
                                   todo : Seq({"memory", "levels", "list"})]]

\* Every variable stays in its type.
TypeOK == TablesTypeOK /\ CachesTypeOK /\ RequestsTypeOK /\ TaskTypeOK

\* No copy of the two tables is older than the clocks on its way allow: not
\* the sets in the processes, not the levels in Redis, not a request's own
\* choice of filter, not a response.
MemoryBounded == \A w \in Workers :
    Usable(w) => mem[w].v <= db /\ stale[mem[w].v] <= MaxWork + mem[w].age
LevelsBounded ==
    levels.ttl > 0 => levels.v <= db /\ stale[levels.v] + levels.ttl <= MaxWork + LevelTTL
RequestsBounded == \A r \in Readers : Active(r) =>
    /\ req[r].snap <= db /\ stale[req[r].snap] <= req[r].work
    /\ req[r].src <= db /\ stale[req[r].src] <= MaxWork + FilterTTL + req[r].work
    /\ req[r].lvl <= db /\ stale[req[r].lvl] <= MaxWork + LevelTTL + req[r].work
EntryBounded == entry.ttl > 0 =>
    /\ entry.src <= db /\ stale[entry.src] + entry.ttl <= SourceBound
    /\ entry.lvl <= db /\ stale[entry.lvl] + entry.ttl <= LevelBound
CopiesBounded == MemoryBounded /\ LevelsBounded /\ RequestsBounded /\ EntryBounded

\* A source that is disabled disappears from every answer of every worker,
\* and one that is enabled appears, SourceBound ticks after the commit at the
\* latest, whether or not the toggle lives to clear anything.
SourcePromiseKept == SourcePromise!Spec

\* The same of the category levels and LevelBound.
LevelPromiseKept == LevelPromise!Spec

\* Every copy that is in use agrees with the tables.
Settled ==
    /\ \A w \in Workers : Usable(w) => mem[w].v = db
    /\ levels.ttl > 0 => levels.v = db
    /\ entry.ttl > 0 => entry.src = db /\ entry.lvl = db
    /\ \A r \in Readers : Active(r) => {req[r].snap, req[r].src, req[r].lvl} = {db}

\* Workers do not infect each other: once all copies agree with the tables,
\* only a commit makes one of them stale, whatever fails or restarts.
OnlyCommitsUnsettle == [][Settled /\ db' = db => Settled']_vars
==============================================================================
