# TLA+ for unified-my3pai-place-service

Specifications of the concurrent core of the place service, model-checked with
TLC and proved with TLAPS. Source paths are relative to the repository; those
that start with `services/`, `admin/` and the like are under `src/dmo/`.

    tlc -workers 2 -config ReadCache.cfg MCReadCache.tla
    tlapm ReadCacheProofs.tla

## The system

A FastAPI service of eight uvicorn workers (`docker-compose.prod.yml`) over one
Postgres (REPEATABLE READ, `db.py:26`) and one Redis. Inside a worker requests
are asyncio tasks: they interleave at every `await`. Between workers nothing is
shared but the two stores, so every lock that matters is in one of them.

| Component | State it keeps | Operations | Talks to | What is hard | What makes it correct |
|---|---|---|---|---|---|
| Response cache (`services/cache.py`, `services/query_api.py`) | Redis entries and their `:lock` keys, both with TTL | get-or-set, poll, fallback, background store, SCAN purge | every read endpoint, MCP tools; purged by writers and the admin | lock and entry expire on their own; snapshot older than the cache lookup; purge before commit; a lock without an owner | answers bounded in age; a lock has one owner while it lasts; nobody waits forever |
| Entity writes (`services/write.py`) | rows of `entities`, row locks, advisory lock, unflushed ORM edits | create, update, soft delete, bulk upsert with retry | Postgres, then the cache purge | snapshot against lock order, retry after rollback, edits flushed late, deadlocks | no lost update, stable ids, all or nothing, an acknowledged bulk is applied |
| Sessions (`db.py`) | pool, statement timeout, snapshot | open with `set_config`, commit, rollback | all services | the first statement pins the snapshot; `set_config` is undone by a rollback | each request reads one version |
| Source filter (`services/source_filter.py`, `admin/router.py`) | per-process set of disabled sources, 30 s | load, invalidate, toggle | search, spatial, detail, response cache | eight copies, one invalidated; an empty set means no filter | a disabled source disappears everywhere after a bounded time |
| Script runs (`admin/script_runner.py`, `admin/router.py`) | run record in Redis, stop file | create, update, read, stop | background task, all admin scripts | read-modify-write, record under the purged prefix, session of an ended request | the final status is kept; a stop reaches its script |
| Batch scripts (`admin_scripts/`, fourteen of them) | last id or offset, batch, own or the request's session | select, write, commit, report, batch after batch | Postgres, progress callback | rows inserted, written and locked by others between two statements; OFFSET over a changing set | a run that ends has left nothing behind and has overwritten nothing it did not see |
| Scripts with external calls (`rephrase_from_source.py`, `enrich_from_wikidata.py`) | offset, seen ids, stop file | the same loop around LLM and Wikidata calls, resume | Postgres, LLM client | failing calls, early breaks, resume, two runs on the same keys | counts are what was committed; no row is passed over unseen |
| Taxonomy (`services/taxonomy.py`) | categories, cached slug-to-level map | edit, invalidate, resolve | response cache | two derived caches, purged one by one | lists agree with the taxonomy after a bounded time |
| Pagination (`services/pagination.py`, `search.py`, `spatial.py`) | cursor held by the client | encode, decode, next page | Postgres, cache | pages of different snapshots and cache ages | rows that do not change are seen exactly once |
| Rate limiter (`middleware/rate_limit.py`) | sorted set per client | trim and count, add | Redis, every request | count and add are two round trips; fail-open | the limit is exceeded by a bounded amount |
| Settings file (`admin/settings_manager.py`) | one JSON file | load, save | LLM client | truncate, then write | no save is lost |
| Request pipeline (`main.py`, `middleware/`) | none | timeout, metrics, ids | all | the 504 ends the wait for a handler, not the handler | a repeated request is one more request |
| MCP server (`mcp/`) | none | tools over the functions of `query_api.py` | response cache | as REST | as REST |

Models, configuration, logging, templates, migrations, deployment and load
tests keep no state of the running service. `PROJECT.json` lists every
component with its files, and every hazard with its line.

## Modules

| Module | What it is |
|---|---|
| `StaleRegister` | What a cached endpoint promises its clients: an answer at most `StaleBound` ticks old, or an error. No caches, no locks. |
| `ReadCache` | One cache key with its lock, its requests, its writers and the clock. Instantiates `StaleRegister` as `Promise`. |
| `MCReadCache` | `ReadCache` for TLC. |
| `ReadCacheProofs` | Theorems about `ReadCache`. |
| `RowStore` | What the write endpoints promise: read all rows at one moment, replace rows nobody changed since at another, or change nothing. No locks, flushes or retries. |
| `EntityWrites` | The four entity writes as transactions under REPEATABLE READ. Instantiates `RowStore` as `Store`. |
| `MCEntityWrites` | Which requests run against which keys on which worker. |
| `EntityWritesProofs` | Theorems about `EntityWrites`: types, rows, ids, locks. |
| `EntityWritesOutcomeProofs` | Theorems about what a request leaves behind, and that `EntityWrites` implements `RowStore`. |
| `BatchScripts` | The batch loops of the maintenance scripts, run at once on one table. |
| `MCBatchScripts` | The tables to start from and the scripts that may be started. |
| `BatchScriptsProofs` | Theorems about `BatchScripts`. |
| `ListFilters` | The source filter of every worker and the shared levels of the taxonomy, with the response cache behind them. Instantiates `StaleRegister` twice: `SourcePromise` and `LevelPromise`. |
| `MCListFilters` | Two workers and their symmetry. |
| `ListFiltersProofs` | Theorems about `ListFilters`. |
| `AdminRuns` | A script run from the button to its record, with the loop of `rephrase_from_source.py` and the stop file. |
| `MCAdminRuns` | The parameters runs are started with. |
| `AdminRunsProofs` | Theorems about `AdminRuns`: types, records, the stop file, counts; then its OFFSET and what a run has copied at its end. |
| `Pagination` | A client with a cursor in each of six lists. |
| `MCPagination` | `Pagination` for TLC. |
| `PaginationProofs` | Theorems about `Pagination`. |
| `RateLimiter` | The requests of one client and their sorted set in Redis. |
| `MCRateLimiter` | Symmetry of the requests. |
| `RateLimiterProofs` | Theorems about `RateLimiter`. |

`ReadCache` is the stampede lock of one key and the writers of entities;
`ListFilters` is what the data in an answer was filtered by, several copies deep,
and takes from `ReadCache` only that any number of requests may fetch at once;
`Pagination` takes from both only that a page may be from an old version.
`RateLimiter` knows of a handler only whether it purges before it commits, which
`ReadCache` (`PurgeEntry`, `CommitWrite`) and `ListFilters` (`Toggle`, `Clear`) have in the two orders.
`AdminRuns` and `BatchScripts` share `run_task`: the first has the whole life of
a run with one script, the second the loops of fourteen.

### ReadCache and the code

One key of one endpoint. The data is the number of the committed version it was
computed from, which is all that freshness can tell apart. `req[r].at` is where
the request is in `cache_get_or_set` or in its caller; each action is the code
between two awaits on Redis or Postgres.

| Action | Code |
|---|---|
| `Open` | `get_session`, whose `set_config` pins the snapshot before the handler runs (`db.py:47`) |
| `Lookup`, `Acquire` | the first `get` and `SET NX EX` (`cache.py:86`, `98`) |
| `PollHit`, `PollGiveUp` | the polling loop (`cache.py:101-111`) |
| `DoubleCheck`, `FetchAndStore`, `FetchFail`, `Release` | the `try` and its `finally` (`cache.py:113-124`) |
| `Fallback`, `Store` | the callers in `query_api.py`, and `cache_set_async` (`cache.py:133-141`) |
| `Crash` | a dying worker, a Redis call that raises outside the `try` or in the `finally` (`84-124`) |
| `BeginWrite`, `PurgeEntry`, `PurgeLock`, `CommitWrite`, `FailWrite` | flush, `invalidate_entity_caches`, commit or rollback of every write of `write.py` |
| `Tick` | one tick for both TTLs, the polling, the running requests and the superseded versions |

`lock.by`, `stale` and `lockLost` are ghosts: Redis stores the value `"1"` as the
lock, nobody knows how old a version is, and nobody notices a lost lock.
`MaxWork` is an assumption, that a handler spends a bounded time outside the
polling. What backs it is the statement timeout of 10 s (`db.py:47`). The request
timeout of 30 s does not: under `BaseHTTPMiddleware` the `wait_for` of
`timeout_middleware` (`main.py:133`) ends the wait for `call_next` and not the handler,
which is a task of its own and goes on to store, release its lock or commit. A 504 therefore
changes an answer and no state, and no module has an action for it.

### EntityWrites and the code

Every request is one transaction, with its `snap` (what its first statement
saw), its `view` (with its own writes), the ORM edits it has not flushed
(`dirty`), the entities still to insert (`pending`) and `location_updates`
(`moves`). A field of a row is the name of the request that wrote it.

| Action | Code |
|---|---|
| `Begin` | the snapshot: `set_config`, or after a rollback the request for the advisory lock |
| `LockAdvisory` | `pg_advisory_xact_lock(hash(source) % 2^31)` (`write.py:276-284`); `hash` of a string is randomised per process, so the lock is one per worker |
| `SelectBulk`, `SelectCreate`, `SelectUpdate`, `SelectDelete` | from the first SELECT to the flush of each function |
| `FlushUpdate`, `FlushInsert`, `EndFlush` | `session.flush()`, row by row; edits before inserts, as the unit of work orders them |
| `Conflict`, `Recheck` | IntegrityError: 409 for a create; rollback, lock, second SELECT and field copy for a bulk (`write.py:395-441`) |
| `SetLocation`, `EndLocate` | the raw UPDATE of `_set_location` and `_set_locations_batch` |
| `Commit` | flush of what is left, commit |
| `Die`, `AbortDeadlock` | a statement timeout, a Redis error in the purge, a dead worker or connection (`db.py:33-57`); Postgres breaking a deadlock |

A request that was answered with 504 is a transaction like others until its handler is over, and
may still end in `Commit`; a client that repeats its bulk is one more bulk on
the same keys, on another worker as a rule, which is an instance of `entity_writes`.

Postgres itself (snapshots, row locks, serialization errors, unique keys,
deadlock detection) is external and modelled from what the code relies on;
`WriteRow` is the rule for an UPDATE under REPEATABLE READ, which `db.py:26` chooses. An UPDATE that
changes no column is not sent by the ORM, which `WriteRow` keeps. Simplified: a
payload has both coordinates or none, and all keys are of one source. Raw
UPDATEs of locations are taken one row at a time, as Postgres locks them.

`RowStore` has what is left of this when everything between the snapshot and the
end of a request is hidden. `Snapshots` and `States` map a transaction to what a
`RowStore` request has read and whether it is still reading; only `Begin`, the
restart of a bulk and the last step of a request show, the rest are stutters. Its
operators say what each endpoint makes of a row: `Created`, `Updated`, `Deleted`,
`Overwritten`, and for a bulk that met an IntegrityError `Copied` for rows it ran
into and `Moved` for rows it had found, whose edits the rollback dropped. `CopiedLate`
is such a bulk when every row of the batch exists by then: no insert makes the
session flush, the raw UPDATE of the location comes first and the copied fields
are flushed by the commit, over it when the row had a location.

### BatchScripts and the code

The scripts differ in a few decisions and share the rest. A script is an
`Order`, a record of those decisions, read off its SQL and its loop; `Orders`
are the scripts that may be started. A script whose UPDATE repeats the
condition of its SELECT is `guarded`, one that loses its rows from the
selection by writing them `clears`, and so on; the comment above `Order` names
each field. Postgres READ COMMITTED (`helpers.py:17`, the scripts' own engine)
and REPEATABLE READ (the session of the request) are the difference between
`"own"` and `"request"`. One column stands for what a script writes, so two
runs of the model always want the same column. That is the hard case; scripts
on different columns still lock each other's rows.

| Action | Code |
|---|---|
| `Launch` | `admin_script_run` and the start of `run_task` (`admin/router.py:435-476`) |
| `BeginFrom` | the first unscored id (`score_osm_entities.py:176-188`) |
| `BeginOffset` | `COUNT(*)`, the bound of the offset (`fix_wrapped_websites.py:22-28`) |
| `SelectKeyset` | the SELECT with `id > :last_id` or `id >= :last_id` |
| `SelectOffset` | LIMIT and OFFSET, and the commit after the loop (`fix_wrapped_websites.py:33-66`) |
| `WriteRow`, `SkipRow`, `Conflict` | one row of an UPDATE: written, not matched or nothing to write, serialization error |
| `EndBatch` | commit, `last_id = ids[-1]` |
| `Tell` | the progress callback |
| `Timeout`, `Fail` | `max_seconds`; a statement that raises, a lost connection or a dead worker |
| `Abandon`, `Collect` | a Redis error in the callback of `fix_wrapped_websites`, between an UPDATE and the commit (`50-66`): `run_task` catches it and rolls nothing back, so the rows stay locked until Python collects the session |
| `AbortDeadlock` | Postgres breaking a deadlock |
| `OtherWrite` | a write of the API or an importer: a new row, a value, a deactivation |

The first SELECT of `fix_wrapped_websites` sees the snapshot of the request, or a
new one when FastAPI has closed the session by then (`BeginOffset`); every other loop
begins its first page in a transaction of its own. A closing in the middle of a
loop is a `Fail`; that the loop of `fix_wrapped_websites` could go on after
losing its transaction in a callback is left out. A script whose callback does
not follow an open UPDATE has nothing to keep locked when it fails. `due` is a ghost: the rows that met the condition of a
run at its start and ever since, and that it has not dealt with. A row whose
value or activity somebody else has changed so that it no longer matches is no
longer owed.

`clean_dzt_data` first updates the whole table, twice, and commits each
statement on its own (`clean_dzt_data.py:200-203`), so that its loop starts with a new transaction;
`extract_attributes` has four loops in a row: each loop is an `Order` of its
own, and the whole-table statements are left out. `score_entities` repeats no
condition but skips rows whose score stays as it is (`IS DISTINCT FROM`,
`score_entities.py:103`), which makes it `partial`. The step of
`extract_attributes` for amenities has the decisions of `UnifyPlaceTypes`.

### ListFilters and the code

A version is the state of `data_sources` and `unified_categories` after so many
commits. A request takes one of each, `src` and `lvl`, and its answer is that
pair; the main query and the cached response only carry it. So the question of
this module is how far back the filter of an answer may lie, through up to
four copies: the snapshot of the request that loaded the copy, the copy, the
request that used it, the response.

| Action | Code |
|---|---|
| `Open` | `get_session` |
| `Hit`, `Miss` | the last look at the response cache; on a miss `get_disabled_sources` follows without an await, and takes the worker's set if it is younger than 30 s (`source_filter.py:34-37`) |
| `LoadFilter` | the SELECT and the three assignments (`39-49`); `_cache_time` is from before the SELECT, which `waited` keeps |
| `ReadLevel`, `BuildLevels` | `_get_levels` (`taxonomy.py:23-38`): found, or rebuilt by the owner of the lock (stored) or by who gave up waiting (not stored) |
| `Query`, `Store` | the main query, stored under the lock or by the background task of the fallback |
| `Toggle`, `EditTaxonomy` | `admin_toggle_source`, `admin_taxonomy_*` up to the commit |
| `Clear`, `FailTask` | what they clear, one after another; an error of Redis ends it |
| `Restart`, `Fail` | a worker process dies; a statement times out or raises |
| `Tick` | one tick for all lifetimes |

Simplified: a request for a list always has a category, a response is one entry,
the seven patterns of `invalidate_taxonomy_cache` are the levels and then that
entry. That a slug without a level drops the filter (`search.py:60-65`) and that
an empty set of sources does the same (`source_filter.py:84`) is data.

### AdminRuns and the code

Entities are numbers in the order of their `source_id`; `CopyOf(n)` is the
entity `rx:` + `source_id` of the target source. The transaction of the session
is `open` with its `view`; it begins with the session of the request, is closed
when FastAPI closes that session (`Respond`), and then at each commit.

| Action | Code |
|---|---|
| `Launch` | `admin_script_run` up to its answer (`admin/router.py:439-502`) |
| `Respond` | the request is over, its session closed under the task |
| `Started`, `Reported`, `Faulted`, `FailUpdate` | the updates of `run_task` around the script (`465-494`); an exception ends in `status="error"` |
| `WriteRecord` | `update_run` (`script_runner.py:36-61`), which writes nothing if the record is gone |
| `Unanswered` | an update that raises in `update_run`, executed or not (`44-61`), in `FailUpdate` and `Die` |
| `Setup`, `NoModel` | count, resume set (`rephrase_from_source.py:503-541`); no language model |
| `Check` | `_check_stop` |
| `Fetch` | the SELECT with OFFSET, the rows seen before, the break (`550-624`) |
| `CallLLM` | `asyncio.gather` of the calls with their retries: which of them succeed is open (`186-367`, `626-661`) |
| `Insert`, `Collide`, `Conflict` | `_insert_entity` (`369-456`): inserted, found, unique key committed since the snapshot; an uncommitted one makes it wait |
| `Commit`, `Told` | commit and offset; callback and the break for a batch that made nothing (`710-733`) |
| `Raise`, `Leave` | the `except` and `finally` of the loop, the quality check of a dry run (`735-787`) |
| `PressStop` | `admin_script_stop` |
| `Forget` | TTL of the record, or a purge of `dmo:*` by a bulk |
| `Change` | an original is deactivated or activated by the API |
| `Die` | the worker dies, or `update_run` raises in the handler of the failure |

An update whose reply is lost may have been executed: a record then says "done", and
"error" after that, because the exception leads to the second update of `run_task`.
`Respond` is an assumption about time: the close of the session comes before the
first batch, which waits for the language model. A close between an INSERT and
its commit, which would roll back copies that are counted, is therefore not in the model,
and `CountsAreCommitted` says nothing about it.

`update_run` is one step although it is a GET and a SET: the task is the only
writer of its record, and a purge between the two is undone, as if it had not
been. The
variables of the loop are cleared behind it (`Outside`), where the code does not use them again. `made`, `refused`, `fresh`, `same` and `asked` are ghosts. `Depth` bounds
the copies of copies that a run of all sources makes.

### Pagination and the code

One action for each list. Its argument is the version its page comes from (any
that a cache may still hold; the admin list is not cached) and what `total`
counts: with the cursor filter beside `COUNT(*) OVER()` what the cursor leaves,
with the filter around a subquery (`search.py:147-170`) everything. `KeyOf` is
the sort key: name, descending rank, distance, nothing (`map`, mappings), or
category and value. A cursor that is no cursor is refused (`pagination.py:14-32`);
the admin list ignores it instead and starts again, which is not modelled.

### RateLimiter and the code

The member of the sorted set is the request, its score `now[r]`. Time is in ticks;
a request that waits for its count holds the clock after `MaxDelay` ticks.

| Action | Code |
|---|---|
| `Arrive` | `now = time.time()` (`rate_limit.py:42-47`) |
| `Count` | ZREMRANGEBYSCORE, ZCARD, EXPIRE in one MULTI, and the answer 429 (`49-58`) |
| `Add` | ZADD, EXPIRE (`60-64`) |
| `CountFails`, `AddFails` | RedisError or a dead worker, with the pipeline executed or not (`73-75`) |
| `Handle`, `HandlerRaises` | `call_next`; a RedisError out of it is caught by the same `except`, which calls it again (`66-75`) |
| `Tick` | time, and the expiry of the key |

`passed`, `astray` and `applied` are ghosts. `InFlight` is what the client does, the
code has no bound for it. `MaxDelay` is what Redis and the event loop do: the
client of Redis has no timeout (`cache.py:29`). `CommitFirst` are the handlers
that commit before they purge (`admin/router.py:1029`, `661`, `700`, `711`). A handler
that answers without a commit is left out, it only lowers `applied`. A second
call that finds its request body consumed is such a handler.

## Runs

| Run | Instance | Shows |
|---|---|---|
| `read_cache` | 2 requests, 1 writer, lock 1 tick, entry 2, work 1; fair | types, `BoundedStaleness`, `OneOwner`, `PromiseKept` (refinement), `StalenessNeedsCommit`, `EveryRequestEnds`, `EventuallySettled` |
| `entity_writes` | 2 bulks on two workers, create, update, delete; 2 keys | `NoLostUpdate`, `AllOrNothing`, `RetriesProgress`, `ImplementsRowStore` (refinement) |
| `entity_writes_liveness` | 3 bulks on two workers, create; fair | types, `EveryWriteEnds` |
| `entity_writes_retry` | bulk and create | violated: an acknowledged bulk has dropped its edits |
| `batch_scripts` | 2 runs of any two of five scripts, 3 rows, 1 write of others; fair | types, `NothingLeftBehind`, `OnlyFillsEmpty`, `NoBlindOverwrite`, `EveryRunEnds` |
| `batch_scripts_websites` | `fix_wrapped_websites` alone | violated: it ends with websites still wrapped |
| `list_filters` | 2 workers with a request slot each, 1 admin, 1 commit; set 2 ticks, levels 1, response 2, work 1 | types, `CopiesBounded`, `SourcePromiseKept` and `LevelPromiseKept` (refinements), `OnlyCommitsUnsettle` |
| `admin_runs` | a live run beside a dry run of one entity or a run of all sources; 2 originals, copies of copies, batches of 1, 1 change | types, `RecordTruth`, `CountsAreCommitted`, `NothingSkipped`, `FreshRunCompletes`, `StopLostToOthers` |
| `admin_runs_liveness` | 2 live runs of the same source; fair | `EveryRunEnds`, `EveryRecordSettles` |
| `admin_runs_resume` | 2 live runs, the first original perhaps done before | violated: a resumed run ends in front of the rest |
| `pagination` | 4 rows, 2 keys, pages of 2, any table, 1 change, six lists; fair | types, `SteadyOnce`, `TotalIsRight`, `CursorAdvances`, `EveryWalkEnds` |
| `rate_limiter` | 4 requests, limit 1, 2 in flight, window 2 ticks, delay 1 | types, `OverrunBounded`, `RefusedForOthers`, `WritesAppliedOnce` |

**Bounds.** A slot of `Readers` serves one request after another, so two slots
meet every pair of overlapping requests. The lifetimes keep what matters of 5 s, 60 s to 30 min
and 10 s: a fetch may outlast the lock, and an entry outlives both. One commit
makes one superseded version; the theorems do not depend on any of these
numbers. In `EntityWrites` two keys are the least for a deadlock and for a bulk
that finds one row and inserts another, two retries let a bulk succeed after
one conflict and fail after two (the code has three), and the five requests are
one of each kind, with the second bulk on another worker. `MaxVersion` and the
set of requests bound the behaviours; the writes stop when all have run, which
is why deadlock is not checked there. In `BatchScripts` three rows and batches
of two give a full and a short page, with a gap in which a new row may appear
behind or before the cursor; two runs deadlock and overwrite each other; the
five scripts of `MCOrders` differ in where the next batch starts, in what the
UPDATE repeats, in the session and in the reporting (`FixWrapped(FALSE)` is the one that may be abandoned), and every other `Order`
only combines their decisions. `N`, `MaxLaunches` and `MaxWrites` bound it. In
`ListFilters` two workers are the least that can disagree; a set that outlives
the levels, and a response that outlives both, reach every order of expiry, and
one commit gives one version to be stale; both kinds of admin request may make it. In
`AdminRuns` two originals in batches of one are a row done and a row to do,
which is what resume, OFFSET and the breaks need; the second run stops, resumes,
collides with the first or copies its copies, and one change moves a row in
front of an offset. In `Pagination` four rows in pages of two need two or three
pages, two keys give ties and rows that move over the cursor; a second change
adds nothing that another start table does not have, since a walk may begin at any time.
In `RateLimiter` two requests in flight exceed a limit of one, and four are needed
to see what the delay does: two that exceed it, one that trims them, and one that
came before that and counts after it. Without `MaxDelay` in `Within` the run
fails. The clock goes one tick beyond the window, where the key expires.

**Fairness.** `ReadCache`: weak fairness on every step of a request (the event
loop runs what is ready, Redis answers or raises) and on the clock; none on
clients, writers and crashes. `EntityWrites`: weak fairness on each request's
own steps including the abort by the deadlock detector; none on `Die`. Weak
fairness is enough because every request runs once: a holder of a lock ends, and
only finitely many others can take the lock first. `BatchScripts`: weak fairness
on the steps of each run, again with the deadlock detector, and on `Collect`, because CPython drops the session with the task that
holds it; none on starting a
run, on `OtherWrite`, `Timeout`, `Fail` and `Abandon`, so that `EveryRunEnds` does not hold
because runs are cut short. `AdminRuns`: weak fairness on the steps of each run, with the
failure that ends a wait for a foreign key, since every call of the language
model has a timeout (`llm_client.py:56`), and on the TTL of records; none on
buttons, deaths and failures. `Pagination`: weak fairness on the client.
`ListFilters` and `RateLimiter` have safety only, their bounds say more than that
things end.

**Findings.** Three runs end in a violation of what the repository says of
itself; `PROJECT.json` quotes the lines.

1. The rollback of a retried bulk drops the edits of rows it had found, and the
   bulk is acknowledged (`write.py:401`).
2. `fix_wrapped_websites` pages with OFFSET over the rows that are still
   wrapped, and skips as many as it repairs (`fix_wrapped_websites.py:38`).
3. A run of `rephrase_from_source` that resumes ends with success at the first
   page it has seen before, in front of the rows to do
   (`rephrase_from_source.py:623`).

Seen while modelling, each too plain for a run of its own:

- writers purge and then commit: a read in between, or one with an older
  snapshot, caches the old data for a whole TTL (`write.py:156`), as long as
  `BoundedStaleness` says;
- the rate limiter takes a RedisError of the handler for its own and calls the
  handler again: a source whose toggle commits and then fails to purge is
  toggled back (`rate_limit.py:75`, `admin/router.py:1022-1037`). The writes of
  `write.py` escape it because they purge first (`WritesAppliedOnce`); moving their
  purge behind the commit, which would mend the point above, brings it upon them;
- `RATE_LIMIT_MAX_REQUESTS` is "per window per IP" in the `README.md` of the
  service (260): the limiter lets one less than the requests in flight more
  through (`OverrunBounded`);
- the stampede lock (5 s) is shorter than a fetch (10 s) and is deleted by purges,
  so a miss may be fetched twice at once (`cache.py:98`, `124`);
- the second of two bulks of a source waits for the advisory lock with a
  snapshot already taken, and fails with a serialization error if they share a
  row (`write.py:282`);
- a bulk upsert moves the location of an existing row and never writes its
  latitude and longitude (`write.py:310`);
- four scripts call the progress callback with the message only and end with a
  TypeError after their first batch (`unify_place_types.py:142`);
- a stop signal reaches whichever live run of the host looks first, and is
  cleared by any that ends (`router.py:535`);
- with `entity_id`, `rephrase_from_source` selects with a parameter it does not
  bind (`565-567`); after a failure `affected_count` includes the rows of the
  rolled-back batch (`743`); `tests/test_rephrase_from_source.py:258` expects a
  collision to be a failure, and it is counted as an error of a successful run;
- `total` is the size of the list on the first page only, in four of six lists;
- of the entities of a batch with the same QID, `enrich_from_wikidata` processes
  one (`552`), and a dry run without `max_entities` over rows it may not write never ends (`471`).

A dry run of `score_osm_entities` has no end, because its loop starts again at
the last id (`id >= :last_id`) and writes nothing: `ScoreOsm(TRUE)` describes it,
and the run of `EveryRunEnds` starts `ScoreOsm(FALSE)` only.

## Proofs

All theorems hold for any sets and numbers that satisfy `ConstantsAssumption`,
`WritesAssumption`, `BatchAssumption`, `FiltersAssumption`, `RunsAssumption`,
`PaginationAssumption` or `LimiterAssumption`.

`ReadCacheProofs`. `TypeCorrect` bounds the TTLs and the polling.
`StalenessIsBounded` needs more than `BoundedStaleness`: that the version the
database holds has age 0 (`CurrentIsFresh`), so that a snapshot starts young; a
tick adds one to the age of a version, to the age of every request and takes
one from the TTL of the entry, which keeps their sums below `StaleBound`.
`CacheKeepsPromise` maps every step to a step or a stutter of `StaleRegister`,
with the bound from that invariant. `LockIsExclusive` rests on `OwnerInv`:
until a live owner has lost its lock, whoever is inside the `try` is the
owner that the lock names, so that no `finally` deletes a foreign lock.
`OnlyCommitsUnsettle` needs the types only.

`EntityWritesProofs`. `WritesTypeCorrect` needs that a bulk about to flush has
a retry left. The three theorems about rows share the inductive `WritesInv`: a
row keeps its id in every snapshot, view and in the table (`IdInv`); whoever
holds a row lock is past its SELECT, and the row is as its snapshot shows it
(`LockInv`); only rows that exist are edited (`EditInv`), and a location kept
over a rollback is of a row that still exists (`MoveInv`), because rows are
never removed. A step is split into what it does to others (`OtherSession`,
`TableStep`) and to itself (`OwnSession`). From it follow `OwnWritesCurrent`,
`NoUpdateIsLost` and `IdentityIsStable`.

`EntityWritesOutcomeProofs`. `RequestsAreAtomic` needs that the view of a
transaction shows data of itself and of acknowledged requests only
(`AtomicityInv`): only then does its commit bring in nothing of a request that
failed. `RetriesMakeProgress` follows the key a flush ran into (`HitInv`): it is
in the table when the bulk starts over, therefore in its next snapshot, and
therefore found by the recheck.

`WritesImplementRowStore` is the strongest result about the writes: with locks,
flushes, conflicts and retries hidden, a request that is acknowledged has at
one moment replaced the rows it changes, and each of them was as it had read it.
Its invariant is about the future of a transaction: `Outlook` is the row that each
key becomes when the edits, inserts, moves and flushes a transaction has still to do are done, and
`PlanInv` says that it is what the endpoint makes of the row that was read
(`Planned`). It is fixed at the SELECT; every step that writes takes from what is
to do what it puts into the view (`WritingPlan`, `RowWrite`, `BatchMoves`), and a
restart of a bulk settles it again (`OwnPlan`). At the commit
nothing is left to do, so the view is the plan (`CommitPuts`). What has been changed in the
view is locked and therefore still in the table as it was read, or was inserted where the
table has no row (`Prepared`). `CleanBulksAreApplied` is a consequence: for a bulk that met no
IntegrityError the plan is `Overwritten` or `Created` for every row; a retry takes
the other plan, which `entity_writes_retry` shows.

No run checks `WritesAreCurrent`, `IdentityStable` and `CleanBulkApplied` on their
own: what each says of the table follows from `ImplementsRowStore`, which
`entity_writes` checks. They are stated, and proved, because they
say it in the terms of the endpoints.

`BatchScriptsProofs`. `NothingLeftBehind` speaks of the end of a run; the
inductive `BatchInv` says at each step where the rows are that a keyset run
still owes: past its cursor, or in the batch at hand or past that (`Ahead`). The steps of others only take obligations away
(`SettleGood`). `Held` says that a locked row is as it was when it was locked,
and `Exclusive` that no two runs lock it; so the commit of one run does not
touch what another has checked, and `GuardedFillsEmpty` and
`NothingIsOverwrittenBlindly` follow. `Lockless` bounds the time of a lock,
which is the point of `BatchTypeCorrect`: a run that has ended holds one only if
it was abandoned.

`ListFiltersProofs`. `CopiesAreBounded` is inductive with the types and with the
fact that the current version has age 0: a copy adds its own age to that of what
it was made from, and each clock runs against one of the two. The two promises follow
as for `ReadCache`, with the ages cut off at the bound (`Capped`), because
`StaleRegister` counts no further.

`AdminRunsProofs`. Every step of a task is shown to replace one run by a
`Sound` one (`OneTask`); what a step does to the fields the theorems speak of is
stated once for each action (`SetupDoes`, `FetchDoes` and so on). `RecordTruth` is then
inductive by itself: it says where a task is when its record says what, and an update without an
answer moves both. `StopGoesToOthers` needs that only `Leave` of a live run
clears the file. `CountsAreTrue` rests on `CountInv`: what is created is what is
made and pending together, nobody else has a pending key, and pending keys are
not in the table.

In the second half, for the OFFSET of a run of one source whose originals nobody else has
changed, `PagingInv` says that every original whose rank is below the offset, or
below the end of the batch that is being written, has been seen, and that the open transaction shows the originals there are. It is inductive
because ranks are distinct and have no gaps, so that a page is what comes next
and has no more rows than its limit (`RankGrows`, `RanksAreDense`, `PageIsNext`).
`FreshRunsComplete` adds `FreshInv`: what a clean run has seen is copied or in
its batch, a batch is written as a whole, and a fresh run has seen nothing behind
its batch. So a page without unseen rows is empty, all originals are before the
offset, and all were seen. For a resumed run that step fails, and
`admin_runs_resume` shows how. Copies of others may appear at any time; they add
to the table only.

`PaginationProofs`. `WalkInvariant` says that a steady row has been given once
if and only if it lies at or before the cursor. A page from another version
keeps it, because a steady row has the same position in every version the page may come
from, and a page is a beginning of what the cursor leaves; that in turn needs
that a finite set has a last row. `TotalOfFirstPage` counts the same rows.

`RateLimiterProofs`. `OverrunIsBounded` follows the one step that lets somebody
through. When `r` counts, whoever passed in its window and has added itself is in
the sorted set: the trims before it were by requests that came `MaxDelay` ticks
later at most (`WindowIsCounted`, from `RecentRemembered`), and the key lives longer than any member's window
(`KeyOutlives`). Those are fewer than the limit, and who passed and has not added
itself is in flight, with `r` (`FewInFlight`). `WritesAreAppliedOnce`
says what has been committed at each place (`AppliedSoFar`).

Only model-checked: the liveness properties, which are out of the prover's reach,
with ENABLED. Every invariant, every action property and the
refinement of the passing runs are theorems.

## Not modelled, and why

SQL text, ranking, geometry, text cleaning and scoring are data here: no
property tells them apart. Templates, authentication, MCP shaping and logging
keep no state; an MCP tool is one more reader of the functions of `query_api.py`.
The pool limit and the length of statement timeouts are left out of
`EntityWrites`: a request of which a statement would time out may `Die` at any step. The cache
purge of the writes is in `ReadCache` and not in `EntityWrites`, which has no
reader of the cache.

- Media and classification writes insert or delete one row after looking for it
  and have no retry; a duplicate is an IntegrityError and a 500.
- The merge of detail and open status reads two keys of `ReadCache` one after the
  other; nothing relates their ages.
- `enrich_from_wikidata` is a keyset walk like `ScoreOsm` around lookups that are
  data. The one-shot scripts have one batch.
- The settings file has no lock, and two administrators who save at once lose
  one of their changes.
- Migrations, deployment and load tests have no state of the running service.
