---------------------------- MODULE BatchScripts -----------------------------
(***************************************************************************)
(* The maintenance scripts of admin_scripts/ that walk the entities in     *)
(* batches: select some ids, write the rows, commit, report the progress,  *)
(* select the next ids.  Several runs of scripts, the API and the importer *)
(* work on the same rows.                                                  *)
(*                                                                         *)
(* One column stands for what a script writes.  Its field is "todo" (the   *)
(* script would select the row), "hand" (somebody else has given it a      *)
(* value) or the run that wrote it.  Rows are numbered in the order of     *)
(* their ids; an id is a random UUID, so a new row may have any number.    *)
(*                                                                         *)
(* How the scripts differ is in the record that describes each of them     *)
(* (Orders): where the next batch starts, whether a written row leaves the *)
(* selection, whether the UPDATE repeats the condition of the SELECT, and  *)
(* whose session it uses.                                                  *)
(***************************************************************************)
EXTENDS Integers, FiniteSets

CONSTANTS
    N,            \* rows of the table, present or yet to be inserted
    Runs,         \* slots for script runs; a slot is used again after a run
    Orders,       \* scripts that may be started, described as below
    Start,        \* tables to start from
    BatchSize,    \* batch_size, the LIMIT of the SELECT
    MaxLaunches,  \* bound on the runs started
    MaxWrites     \* bound on the writes of others

Rows == 1..N

(* How a script walks the table.
     cursor    "after": id > last_id, "from": id >= last_id, "offset": OFFSET
     clears    a row that was written is no longer selected
     guarded   the write repeats the condition "still empty"
     partial   a selected row may turn out to need no write, or to have no value
     session   "own": a READ COMMITTED engine; "request": the REPEATABLE READ
               session of the request that started the run
     rowwise   one UPDATE for each row, in the order of the ids
     timed     has max_seconds
     message   calls progress_callback with the message only
     dry       started with dry_run, for a script whose dry run is the loop   *)
Order == [cursor : {"after", "from", "offset"}, clears : BOOLEAN,
          guarded : BOOLEAN, partial : BOOLEAN, session : {"own", "request"},
          rowwise : BOOLEAN, timed : BOOLEAN, message : BOOLEAN, dry : BOOLEAN]

ASSUME BatchAssumption ==
    /\ N \in Nat
    /\ BatchSize \in Nat \ {0}
    /\ MaxLaunches \in Nat
    /\ MaxWrites \in Nat
    /\ Orders \subseteq Order
    /\ \A o \in Orders : o.cursor = "offset" => o.session = "request"
    /\ Runs \cap {"none", "todo", "hand"} = {}
    /\ Start \subseteq [Rows -> [active : BOOLEAN, field : {"none", "todo", "hand"}]]

------------------------------------------------------------------------------
(* The scripts *)

BackfillSummary ==
    [cursor |-> "after", clears |-> TRUE, guarded |-> TRUE, partial |-> FALSE,
     session |-> "own", rowwise |-> FALSE, timed |-> FALSE, message |-> FALSE,
     dry |-> FALSE]

BackfillThumbnail == BackfillSummary
BackfillSourceUrl == [BackfillSummary EXCEPT !.timed = TRUE]

\* INSERT ... ON CONFLICT DO NOTHING: the unique key makes it wait and look.
BackfillClassifications == [BackfillSummary EXCEPT !.timed = TRUE]

\* The guard is e.country = m.raw, with m.raw from the first SELECT.
NormalizeCountries == [BackfillSummary EXCEPT !.timed = TRUE]

\* build_address may find only blanks.
HealMissingAddress == [BackfillSummary EXCEPT !.timed = TRUE, !.partial = TRUE]

\* Selects every active row; writes a score if it IS DISTINCT FROM the one there.
ScoreEntities == [BackfillSummary EXCEPT !.clears = FALSE, !.guarded = FALSE,
                                         !.partial = TRUE, !.timed = TRUE]

UnifyOpentripmap == [BackfillSummary EXCEPT !.clears = FALSE, !.guarded = FALSE,
                                            !.partial = TRUE]

UnifyPlaceTypes == [BackfillSummary EXCEPT !.clears = FALSE, !.guarded = FALSE,
                                           !.message = TRUE]

\* Each of its loops inserts what is missing.
UnifyClassifications == [BackfillSummary EXCEPT !.clears = FALSE, !.partial = TRUE,
                                                !.message = TRUE]

\* Its three loops over an empty website or thumbnail, without force.
ExtractAttributes == [BackfillSummary EXCEPT !.guarded = FALSE, !.partial = TRUE,
                                             !.message = TRUE]

\* Regions from localities; an unknown locality gives none.  The statements for
\* whole tables that come first commit each on its own.
CleanDzt == [BackfillSummary EXCEPT !.guarded = FALSE, !.partial = TRUE,
                                    !.session = "request", !.rowwise = TRUE,
                                    !.message = TRUE]

ScoreOsm(dry) == [BackfillSummary EXCEPT !.cursor = "from", !.guarded = FALSE,
                                         !.rowwise = TRUE, !.dry = dry]

FixWrapped(dry) == [BackfillSummary EXCEPT !.cursor = "offset", !.guarded = FALSE,
                                           !.session = "request", !.dry = dry]

------------------------------------------------------------------------------
VARIABLES
    table,      \* the committed rows
    run,        \* run[s]: local variables, session and ghosts of the run in s
    launches,   \* runs started so far
    writes      \* writes of others so far

vars == <<table, run, launches, writes>>

Fields == Runs \union {"none", "todo", "hand"}

\* field = "none": no such row yet.
Row == [active : BOOLEAN, field : Fields]
NoRow == [active |-> FALSE, field |-> "none"]
Blank == [i \in Rows |-> NoRow]

Ends == {"done", "stopped", "failed", "rejected"}

\* at     where the run is
\* how    what was started
\* cursor last_id, or the offset
\* total  COUNT(*) of the offset loop
\* batch  ids of the last SELECT; left: those still to write
\* mine   rows written and not committed, and so locked
\* snap   the snapshot of a REPEATABLE READ transaction
\* due    ghost: rows the run has met the condition of since it was started,
\*        without a break, and has not dealt with
Run == [at : {"idle", "begin", "select", "write", "tell"} \union Ends,
        how : Order, cursor : Nat, total : Nat,
        batch : SUBSET Rows, left : SUBSET Rows, mine : SUBSET Rows,
        snap : [Rows -> Row], due : SUBSET Rows]

Idle == [at |-> "idle", how |-> BackfillSummary, cursor |-> 0, total |-> 0,
         batch |-> {}, left |-> {}, mine |-> {}, snap |-> Blank, due |-> {}]

Init ==
    /\ table \in Start
    /\ run = [s \in Runs |-> Idle]
    /\ launches = 0
    /\ writes = 0

------------------------------------------------------------------------------
(* What the statements see and do *)

\* Mutant of Matching: the SELECT forgets "is still empty".
MatchingAny(how, tbl) == {i \in Rows : tbl[i].active}

\* The WHERE clause of the SELECT.
Matching(how, tbl) ==
    {i \in Rows : tbl[i].active /\ (how.clears => tbl[i].field = "todo")}

\* tbl with the rows of s that it has not committed yet.
With(tbl, s) ==
    [i \in Rows |-> IF i \in run[s].mine THEN [tbl[i] EXCEPT !.field = s] ELSE tbl[i]]

\* Row locks are held until the transaction ends.
Free(s, i) == \A u \in Runs \ {s} : i \notin run[u].mine

\* Whatever changes the table takes rows out of the obligations of every run.
Settle(r, tbl) == [r EXCEPT !.due = @ \intersect Matching(r.how, tbl)]

\* Mutant of IsPage: LIMIT without ORDER BY id.
IsPageUnordered(b, rows) ==
    /\ b \subseteq rows
    /\ Cardinality(b) = IF Cardinality(rows) < BatchSize THEN Cardinality(rows)
                                                         ELSE BatchSize

\* LIMIT on an ordered selection.
IsPage(b, rows) ==
    /\ b \subseteq rows
    /\ Cardinality(b) = IF Cardinality(rows) < BatchSize THEN Cardinality(rows)
                                                         ELSE BatchSize
    /\ \A x \in b, y \in rows \ b : x < y

\* Mutant of Ended: the session is not closed, and keeps its transaction.
EndedOpen(r, at) == [Idle EXCEPT !.at = at, !.how = r.how, !.mine = r.mine]

\* The rest of the run is forgotten, with a transaction that is still open.
Ended(r, at) ==
    IF at = "done" THEN [Idle EXCEPT !.at = at, !.how = r.how, !.due = r.due]
                   ELSE [Idle EXCEPT !.at = at]

End(s, at) ==
    /\ run' = [run EXCEPT ![s] = Ended(@, at)]
    /\ UNCHANGED <<table, launches, writes>>

Continue(s, r) ==
    /\ run' = [run EXCEPT ![s] = r]
    /\ UNCHANGED <<table, launches, writes>>

------------------------------------------------------------------------------
(* A run *)

\* admin_script_run.  The session of the request has had its snapshot since
\* get_session.
Launch(s, o) ==
    /\ run[s].at \in {"idle"} \union Ends /\ run[s].mine = {}
    /\ launches < MaxLaunches
    /\ launches' = launches + 1
    /\ run' = [run EXCEPT ![s] =
                 [Idle EXCEPT !.at = IF o.cursor = "after" THEN "select" ELSE "begin",
                              !.how = o,
                              !.snap = IF o.cursor = "offset" THEN table ELSE Blank,
                              !.due = Matching(o, table)]]
    /\ UNCHANGED <<table, writes>>

\* The first unscored id is where the loop starts; without one there is none.
BeginFrom(s) ==
    LET rows == Matching(run[s].how, table) IN
    /\ run[s].at = "begin"
    /\ run[s].how.cursor = "from"
    /\ IF rows = {}
       THEN End(s, "done")
       ELSE \E first \in rows :
              /\ \A i \in rows : first <= i
              /\ Continue(s, [run[s] EXCEPT !.at = "select", !.cursor = first])

\* The number of matching rows bounds the offset.  The first transaction on the
\* session of a request has the snapshot of the request, unless FastAPI has
\* closed the session by now and it is a new one.
BeginOffset(s) ==
    /\ run[s].at = "begin"
    /\ run[s].how.cursor = "offset"
    /\ \E view \in {run[s].snap, table} :
         LET total == Cardinality(Matching(run[s].how, view)) IN
         IF total = 0
         THEN End(s, "done")
         ELSE Continue(s, [run[s] EXCEPT !.at = "select", !.total = total,
                                         !.snap = view])

\* The rows of view past the cursor of r.
Pending(r, view) ==
    {i \in Matching(r.how, view) :
       IF r.how.cursor = "after" THEN i > r.cursor ELSE i >= r.cursor}

\* One page of them; each transaction has one batch and begins with its SELECT.
SelectKeyset(s) ==
    LET how  == run[s].how
        rows == Pending(run[s], table)
    IN
    /\ run[s].at = "select"
    /\ how.cursor # "offset"
    /\ IF rows = {}
       THEN End(s, "done")
       ELSE \E b \in SUBSET rows :
              /\ IsPage(b, rows)
              /\ Continue(s, [run[s] EXCEPT
                                !.at = "write", !.batch = b,
                                !.left = IF how.dry THEN {} ELSE b,
                                !.snap = IF how.session = "request" THEN table
                                                                    ELSE Blank])

\* LIMIT and OFFSET without ORDER BY: any rows, as many as the offset leaves.
\* When it leaves none the one transaction commits.
SelectOffset(s) ==
    LET seen == Matching(run[s].how, With(run[s].snap, s))
        more == run[s].cursor < run[s].total /\ run[s].cursor < Cardinality(seen)
        size == IF Cardinality(seen) - run[s].cursor < BatchSize
                THEN Cardinality(seen) - run[s].cursor ELSE BatchSize
    IN
    /\ run[s].at = "select"
    /\ run[s].how.cursor = "offset"
    /\ IF more
       THEN \E b \in SUBSET seen :
              /\ Cardinality(b) = size
              /\ Continue(s, [run[s] EXCEPT !.at = "write", !.batch = b,
                                            !.left = IF run[s].how.dry THEN {} ELSE b])
       ELSE LET tbl == With(table, s)
                r   == [run[s] EXCEPT !.due = @ \ run[s].mine]
            IN /\ table' = tbl
               /\ run' = [u \in Runs |-> Settle(IF u = s THEN Ended(r, "done")
                                                         ELSE run[u], tbl)]
               /\ UNCHANGED <<launches, writes>>

\* Which row the UPDATE comes to next: one statement takes its rows in any order.
Upcoming(s, i) ==
    /\ run[s].at = "write"
    /\ i \in run[s].left
    /\ run[s].how.rowwise => \A j \in run[s].left : i <= j

\* Mutant of WriteRow: an UPDATE that does not repeat the condition.
WriteRowUnguarded(s, i) ==
    /\ Upcoming(s, i)
    /\ Free(s, i)
    /\ run[s].how.session = "request" => table[i] = run[s].snap[i]
    /\ Continue(s, [run[s] EXCEPT !.left = @ \ {i}, !.mine = @ \union {i}])

\* Mutant of WriteRow: the session of the request is READ COMMITTED too.
WriteRowCommitted(s, i) ==
    /\ Upcoming(s, i)
    /\ Free(s, i)
    /\ run[s].how.guarded => table[i].field = "todo"
    /\ Continue(s, [run[s] EXCEPT !.left = @ \ {i}, !.mine = @ \union {i}])

\* The row is locked, read again and written.
WriteRow(s, i) ==
    /\ Upcoming(s, i)
    /\ Free(s, i)
    /\ run[s].how.session = "request" => table[i] = run[s].snap[i]
    /\ run[s].how.guarded => table[i].field = "todo"
    /\ Continue(s, [run[s] EXCEPT !.left = @ \ {i}, !.mine = @ \union {i}])

\* There is nothing to write, or the guard of the UPDATE fails.
SkipRow(s, i) ==
    /\ Upcoming(s, i)
    /\ \/ run[s].how.partial
       \/ run[s].how.guarded /\ Free(s, i) /\ table[i].field # "todo"
    /\ Continue(s, [run[s] EXCEPT !.left = @ \ {i}])

\* REPEATABLE READ: the row has been committed after the snapshot.
Conflict(s, i) ==
    /\ Upcoming(s, i)
    /\ Free(s, i)
    /\ run[s].how.session = "request" /\ table[i] # run[s].snap[i]
    /\ End(s, "failed")

\* The batch is written: commit, unless nothing is or the script commits last.
EndBatch(s) ==
    LET r   == run[s]
        tbl == With(table, s)
    IN
    /\ r.at = "write"
    /\ r.left = {}
    /\ UNCHANGED <<launches, writes>>
    /\ IF r.how.cursor = "offset"
       THEN /\ run' = [run EXCEPT ![s] = [r EXCEPT !.at = "tell", !.batch = {},
                                             !.cursor = @ + Cardinality(r.batch)]]
            /\ UNCHANGED table
       ELSE \E last \in r.batch :
              /\ \A i \in r.batch : i <= last
              /\ table' = tbl
              /\ run' = [u \in Runs |-> Settle(
                           IF u = s
                           THEN [r EXCEPT !.at = "tell", !.cursor = last, !.batch = {},
                                          !.mine = {},
                                          !.due = IF r.how.dry THEN @ ELSE @ \ r.batch]
                           ELSE run[u], tbl)]

\* make_progress_callback takes a percentage and a message; a call with the
\* message alone is a TypeError, which ends the run after its first batch.
Tell(s) ==
    /\ run[s].at = "tell"
    /\ IF run[s].how.message
       THEN End(s, "rejected")
       ELSE Continue(s, [run[s] EXCEPT !.at = "select"])

\* max_seconds has passed.
Timeout(s) ==
    /\ run[s].at = "select"
    /\ run[s].how.timed
    /\ End(s, "stopped")

\* A statement timeout, a lost connection or the death of the worker, which roll
\* back what is open, or an exception while nothing is.
Fail(s) ==
    /\ run[s].at \notin {"idle"} \union Ends
    /\ End(s, "failed")

\* A Redis error in the callback of the offset loop, which has not committed:
\* nobody closes the session, and its transaction stays open ...
Abandon(s) ==
    /\ run[s].at = "tell"
    /\ run[s].mine # {}
    /\ Continue(s, [Ended(run[s], "failed") EXCEPT
                      !.how = run[s].how, !.mine = run[s].mine, !.snap = run[s].snap])

\* ... until the task is over and the session is collected with it.
Collect(s) ==
    /\ run[s].at = "failed"
    /\ run[s].mine # {}
    /\ End(s, "failed")

\* Two runs that hold what the other one wants: Postgres aborts one.
Blocked(s) ==
    /\ run[s].at = "write" /\ run[s].left # {}
    /\ \A i \in Rows : Upcoming(s, i) => ~Free(s, i)
WaitsFor(s, u) == s # u /\ Blocked(s) /\ \E i \in run[u].mine : Upcoming(s, i)
AbortDeadlock(s) ==
    /\ \A S \in SUBSET Runs :
         (\A u \in S \union {s}, v \in Runs : WaitsFor(u, v) => v \in S) => s \in S
    /\ End(s, "failed")

------------------------------------------------------------------------------
(* Everybody else: the writes of services/write.py, one at a time *)

OtherWrite(i, row) ==
    /\ writes < MaxWrites
    /\ \A s \in Runs : i \notin run[s].mine
    /\ row # table[i]
    /\ table' = [table EXCEPT ![i] = row]
    /\ run' = [s \in Runs |-> Settle(run[s], table')]
    /\ writes' = writes + 1
    /\ UNCHANGED launches

------------------------------------------------------------------------------
RunStep(s) ==
    \/ BeginFrom(s) \/ BeginOffset(s)
    \/ SelectKeyset(s) \/ SelectOffset(s)
    \/ \E i \in Rows : WriteRow(s, i) \/ SkipRow(s, i) \/ Conflict(s, i)
    \/ EndBatch(s) \/ Tell(s) \/ AbortDeadlock(s) \/ Collect(s)

Next ==
    \/ \E s \in Runs : RunStep(s) \/ Timeout(s) \/ Fail(s) \/ Abandon(s)
    \/ \E s \in Runs, o \in Orders : Launch(s, o)
    \/ \E i \in Rows, row \in [active : BOOLEAN, field : {"todo", "hand"}] :
         OtherWrite(i, row)

Spec == Init /\ [][Next]_vars

\* The event loop and Postgres go on, and Python drops the session of a task with
\* the task; nobody has to start a run, to write, to run out of time or to fail.
FairSpec == Spec /\ \A s \in Runs : WF_vars(RunStep(s))

------------------------------------------------------------------------------
(* Properties *)

\* Types; and that an ended run holds no row lock, unless it failed in the offset
\* loop, which commits last, and its session is not collected yet.
TypeOK ==
    /\ table \in [Rows -> Row]
    /\ run \in [Runs -> Run]
    /\ \A s \in Runs : run[s].at \in Ends /\ run[s].mine # {} =>
          run[s].at = "failed" /\ run[s].how.cursor = "offset"
    /\ launches \in 0..MaxLaunches
    /\ writes \in 0..MaxWrites

\* A keyset run that ends by itself has dealt with every row that met its
\* condition all along, whatever was inserted, changed or written by other runs
\* in between.  Nothing is owed for a row that somebody else took care of.
NothingLeftBehind ==
    \A s \in Runs :
       run[s].at = "done" /\ run[s].how.cursor # "offset" /\ ~run[s].how.dry
         => run[s].due = {}

\* A script whose UPDATE repeats its condition fills empty fields only: a value
\* that somebody gave a row between SELECT and UPDATE survives, and of two runs
\* on one row the first one wins.
OnlyFillsEmpty ==
    [][\A s \in Runs, i \in Rows :
          run[s].how.guarded /\ table'[i].field = s /\ table[i].field # s
             => table[i].field = "todo"]_vars

\* The scripts on the session of the request have no guard in their UPDATE; it
\* is the isolation level that keeps them from overwriting a row they have not
\* seen.  Until they commit or are rolled back, the row is as their snapshot
\* shows it.
NoBlindOverwrite ==
    \A s \in Runs : run[s].how.session = "request" =>
       \A i \in run[s].mine : table[i] = run[s].snap[i]

\* Every run ends, with whatever happens around it.
EveryRunEnds == \A s \in Runs : (run[s].at # "idle") ~> (run[s].at \in Ends)

\* fix_wrapped_websites: a run that ends by itself has unwrapped every website
\* that was wrapped all along.
EveryWebsiteUnwrapped ==
    \A s \in Runs : run[s].at = "done" /\ ~run[s].how.dry => run[s].due = {}
==============================================================================
