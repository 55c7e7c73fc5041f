---------------------------- MODULE EntityWrites -----------------------------
(***************************************************************************)
(* The entity writes of services/write.py as concurrent transactions on    *)
(* one table under REPEATABLE READ (db.py): create_entity, update_entity,  *)
(* delete_entity and bulk_upsert with its advisory lock and its retry on   *)
(* IntegrityError.  Every transaction is one request, and runs once.       *)
(*                                                                         *)
(* Postgres, as the code uses it: a transaction reads the snapshot of its  *)
(* first statement; writing a row takes its lock until the transaction     *)
(* ends; writing a row that was committed after the snapshot fails with a  *)
(* serialization error, which is no IntegrityError; inserting a key that   *)
(* another transaction has committed is an IntegrityError; a cycle of      *)
(* waiting transactions is broken by aborting one of them.                 *)
(*                                                                         *)
(* The data a request carries is the name of its transaction: a field      *)
(* holds the transaction that wrote it, "seed" for the rows there at the   *)
(* start, or "null".  A payload carries both coordinates or none; an empty *)
(* bulk and an update without fields return at once and are no requests.   *)
(***************************************************************************)
EXTENDS Naturals, FiniteSets

CONSTANTS
    Keys,         \* (source, source_id) pairs of one source
    Txns,         \* the write requests
    Op,           \* Op[t]: "bulk", "create", "update" or "delete"
    Target,       \* Target[t]: the keys of the request, one if not a bulk
    Located,      \* transactions whose data carries latitude and longitude
    Worker,       \* Worker[t]: the worker process that serves it; hash(source)
                  \* is randomised per process, so it stands for the lock id
    MaxRetries    \* max_retries

ASSUME WritesAssumption ==
    /\ Op \in [Txns -> {"bulk", "create", "update", "delete"}]
    /\ Target \in [Txns -> SUBSET Keys]
    /\ Located \subseteq Txns
    /\ MaxRetries \in Nat \ {0}
    /\ Txns \cap {"seed", "null", "nobody"} = {}

VARIABLES
    table,      \* the committed rows
    locked,     \* locked[k]: the transaction with an uncommitted write of k
    advisory,   \* advisory[w]: who holds the advisory lock with w's id
    txn         \* txn[t]: session and local variables of the request

vars == <<table, locked, advisory, txn>>

Workers == {Worker[t] : t \in Txns}
Owners == Txns \union {"nobody"}
Values == Txns \union {"seed", "null"}

\* id is who created the row; data stands for the fields every payload sets,
\* coord for the columns latitude and longitude, loc for location.
Row == [id : Values, data : Values, active : BOOLEAN, coord : Values, loc : Values]
NoRow == [id |-> "null", data |-> "null", active |-> FALSE,
          coord |-> "null", loc |-> "null"]
Seed == [id |-> "seed", data |-> "seed", active |-> TRUE,
         coord |-> "seed", loc |-> "seed"]

\* Edits of a loaded row that the ORM has not flushed yet.
Edits == {"clean", "overwrite", "copy", "update", "delete"}

Phases == {"start", "advisory", "select", "flush", "restart", "recheck",
           "locate", "commit", "done"}
Outcomes == {"none", "ok", "exists", "missing", "failed", "died"}

Session == [at : Phases,
            snap : [Keys -> Row],      \* the snapshot
            view : [Keys -> Row],      \* the snapshot and the own writes
            dirty : [Keys -> Edits],
            pending : SUBSET Keys,     \* new entities still to insert
            moves : SUBSET Keys,       \* location_updates
            retries : 0..MaxRetries,   \* IntegrityErrors so far
            outcome : Outcomes]

Marked(ks, edit) == [k \in Keys |-> IF k \in ks THEN edit ELSE "clean"]
AllClean == [k \in Keys |-> "clean"]
NewSession == [at |-> "start", snap |-> [k \in Keys |-> NoRow],
               view |-> [k \in Keys |-> NoRow], dirty |-> AllClean,
               pending |-> {}, moves |-> {}, retries |-> 0, outcome |-> "none"]

Become(t, session) == txn' = [txn EXCEPT ![t] = session]

Exists(row) == row # NoRow
Found(t) == {k \in Keys : Exists(txn[t].snap[k])}
Wrote(t) == {k \in Keys : locked[k] = t}
Dirty(t) == {k \in Keys : txn[t].dirty[k] # "clean"}
IsBulk(t) == Op[t] = "bulk"

\* Payload coordinates, None for a payload without.
Coord(t) == IF t \in Located THEN t ELSE "null"
LocatedKeys(t, ks) == IF t \in Located THEN ks ELSE {}

\* The row create_entity and bulk_upsert build: its location comes later.
NewRow(t) == [id |-> t, data |-> t, active |-> TRUE, coord |-> Coord(t), loc |-> "null"]

\* What flushing an edit does to a row.
\*  overwrite  bulk_upsert of an existing key: latitude and longitude are popped
\*             when both are given, and set to None when they are not;
\*  copy       the retry: every field of the unsaved entity is copied, the
\*             location it never had included; the ORM writes a changed column
\*             only, so a location that was empty when loaded is left alone;
\*  update     update_entity: data, and both coordinates when given.
Edited(t, edit, row, loaded) ==
    CASE edit = "overwrite" ->
           [row EXCEPT !.data = t, !.active = TRUE,
                       !.coord = IF t \in Located THEN @ ELSE "null"]
      [] edit = "copy" ->
           [row EXCEPT !.data = t, !.active = TRUE, !.coord = Coord(t),
                       !.loc = IF loaded.loc = "null" THEN @ ELSE "null"]
      [] edit = "update" ->
           [row EXCEPT !.data = t, !.coord = IF t \in Located THEN t ELSE @]
      [] edit = "delete" -> [row EXCEPT !.active = FALSE]
      [] OTHER -> row

\* The requests as RowStore knows them: those under way have their snapshot.
Snapshots == [t \in Txns |-> txn[t].snap]
States == [t \in Txns |-> CASE txn[t].at = "start" -> "waiting"
                            [] txn[t].at = "done" -> txn[t].outcome
                            [] OTHER -> "reading"]
Store == INSTANCE RowStore WITH rows <- table, read <- Snapshots, state <- States

Init ==
    /\ \E present \in SUBSET Keys :
          table = [k \in Keys |-> IF k \in present THEN Seed ELSE NoRow]
    /\ locked = [k \in Keys |-> "nobody"]
    /\ advisory = [w \in Workers |-> "nobody"]
    /\ txn = [t \in Txns |-> NewSession]

------------------------------------------------------------------------------
(* The end of a transaction *)

\* Mutant of Unlock: pg_advisory_lock, which outlives the transaction.
UnlockRowsOnly(t) ==
    /\ locked' = [k \in Keys |-> IF locked[k] = t THEN "nobody" ELSE locked[k]]
    /\ UNCHANGED advisory

Unlock(t) ==
    /\ locked' = [k \in Keys |-> IF locked[k] = t THEN "nobody" ELSE locked[k]]
    /\ advisory' = [w \in Workers |-> IF advisory[w] = t THEN "nobody" ELSE advisory[w]]

Finished(t, outcome) == [NewSession EXCEPT !.at = "done", !.outcome = outcome,
                                           !.retries = txn[t].retries]

\* Mutant of Abort: autocommit, no transaction around the statements.
AbortKeepingWrites(t, outcome) ==
    /\ Unlock(t)
    /\ Become(t, Finished(t, outcome))
    /\ table' = [k \in Keys |-> IF locked[k] = t THEN txn[t].view[k] ELSE table[k]]

Abort(t, outcome) == /\ Unlock(t)
                     /\ Become(t, Finished(t, outcome))
                     /\ UNCHANGED table

\* Mutant of Begin: after an IntegrityError the transaction goes on with the
\* snapshot it had (a savepoint instead of a rollback).
BeginKeepingSnapshot(t) ==
    /\ txn[t].at \in {"start", "restart"}
    /\ Become(t, [txn[t] EXCEPT !.at = IF IsBulk(t) THEN "advisory" ELSE "select",
                                !.snap = IF txn[t].at = "start" THEN table ELSE @,
                                !.view = IF txn[t].at = "start" THEN table ELSE @])
    /\ UNCHANGED <<table, locked, advisory>>

\* The first statement of the transaction pins the snapshot: set_config in
\* get_session, and after a rollback the request for the advisory lock, whose
\* snapshot is taken before it waits.
Begin(t) ==
    /\ txn[t].at \in {"start", "restart"}
    /\ Become(t, [txn[t] EXCEPT !.at = IF IsBulk(t) THEN "advisory" ELSE "select",
                                !.snap = table,
                                !.view = table])
    /\ UNCHANGED <<table, locked, advisory>>

\* pg_advisory_xact_lock(hash(source) % 2^31).
LockAdvisory(t) ==
    /\ txn[t].at = "advisory"
    /\ advisory[Worker[t]] = "nobody"
    /\ advisory' = [advisory EXCEPT ![Worker[t]] = t]
    /\ Become(t, [txn[t] EXCEPT !.at = IF txn[t].retries > 0 THEN "recheck" ELSE "select"])
    /\ UNCHANGED <<table, locked>>

------------------------------------------------------------------------------
(* Reading, and the edits it leads to *)

\* bulk_upsert: existing_map, then one edit or one new entity per key.
SelectBulk(t) ==
    /\ txn[t].at = "select" /\ IsBulk(t)
    /\ LET old == Target[t] \cap Found(t)
           new == Target[t] \ Found(t)
       IN Become(t, [txn[t] EXCEPT !.at = IF new = {} THEN "locate" ELSE "flush",
                                   !.dirty = Marked(old, "overwrite"),
                                   !.pending = new,
                                   !.moves = LocatedKeys(t, old)])
    /\ UNCHANGED <<table, locked, advisory>>

\* create_entity adds its entity without looking.
SelectCreate(t) ==
    /\ txn[t].at = "select" /\ Op[t] = "create"
    /\ Become(t, [txn[t] EXCEPT !.at = "flush", !.pending = Target[t]])
    /\ UNCHANGED <<table, locked, advisory>>

\* Mutant of SelectUpdate: new coordinates, and the location stays where it was.
SelectUpdateUnmoved(t) ==
    /\ txn[t].at = "select" /\ Op[t] = "update"
    /\ IF Target[t] \subseteq Found(t)
       THEN /\ Become(t, [txn[t] EXCEPT !.at = "flush",
                                        !.dirty = Marked(Target[t], "update")])
            /\ UNCHANGED <<table, locked, advisory>>
       ELSE Abort(t, "missing")

\* update_entity flushes its edit before it moves the location.
SelectUpdate(t) ==
    /\ txn[t].at = "select" /\ Op[t] = "update"
    /\ IF Target[t] \subseteq Found(t)
       THEN /\ Become(t, [txn[t] EXCEPT
                 !.at = "flush",
                 !.dirty = Marked(Target[t], "update"),
                 !.moves = LocatedKeys(t, Target[t])])
            /\ UNCHANGED <<table, locked, advisory>>
       ELSE Abort(t, "missing")

\* delete_entity leaves its edit to the flush of the commit.
SelectDelete(t) ==
    /\ txn[t].at = "select" /\ Op[t] = "delete"
    /\ IF Target[t] \subseteq Found(t)
       THEN /\ Become(t, [txn[t] EXCEPT
                 !.at = "commit",
                 !.dirty = Marked(Target[t], "delete")])
            /\ UNCHANGED <<table, locked, advisory>>
       ELSE Abort(t, "missing")

\* Mutant of Recheck: one retry more than max_retries.
RecheckOneMore(t) ==
    /\ txn[t].at = "recheck"
    /\ LET old == txn[t].pending \cap Found(t)
           new == txn[t].pending \ Found(t)
       IN IF new # {} /\ txn[t].retries > MaxRetries
          THEN Abort(t, "failed")
          ELSE /\ Become(t, [txn[t] EXCEPT
                    !.at = IF new = {} THEN "locate" ELSE "flush",
                    !.dirty = Marked(old, "copy"),
                    !.pending = new,
                    !.moves = @ \union LocatedKeys(t, old)])
               /\ UNCHANGED <<table, locked, advisory>>

\* After an IntegrityError: keys found by now are edited, the rest is retried.
Recheck(t) ==
    /\ txn[t].at = "recheck"
    /\ LET old == txn[t].pending \cap Found(t)
           new == txn[t].pending \ Found(t)
       IN IF new # {} /\ txn[t].retries = MaxRetries
          THEN Abort(t, "failed")
          ELSE /\ Become(t, [txn[t] EXCEPT
                    !.at = IF new = {} THEN "locate" ELSE "flush",
                    !.dirty = Marked(old, "copy"),
                    !.pending = new,
                    !.moves = @ \union LocatedKeys(t, old)])
               /\ UNCHANGED <<table, locked, advisory>>

------------------------------------------------------------------------------
(* Writing *)

Free(t, k) == locked[k] \in {t, "nobody"}

\* Mutant of WriteRow: READ COMMITTED, where the UPDATE does not fail on a row
\* that changed since it was loaded.
WriteRowReadCommitted(t, k, row, next) ==
    \/ /\ row = txn[t].view[k]
       /\ Become(t, next)
       /\ UNCHANGED <<table, locked, advisory>>
    \/ /\ row # txn[t].view[k] /\ Free(t, k)
       /\ locked' = [locked EXCEPT ![k] = t]
       /\ Become(t, [next EXCEPT !.view[k] = row])
       /\ UNCHANGED <<table, advisory>>

\* Every write of an existing row, unless it changes nothing: lock the row, or
\* fail when it changed since the snapshot.
WriteRow(t, k, row, next) ==
    \/ /\ row = txn[t].view[k]
       /\ Become(t, next)
       /\ UNCHANGED <<table, locked, advisory>>
    \/ /\ row # txn[t].view[k] /\ Free(t, k)
       /\ table[k] = txn[t].snap[k]
       /\ locked' = [locked EXCEPT ![k] = t]
       /\ Become(t, [next EXCEPT !.view[k] = row])
       /\ UNCHANGED <<table, advisory>>
    \/ /\ row # txn[t].view[k] /\ Free(t, k)
       /\ table[k] # txn[t].snap[k]
       /\ Abort(t, "failed")

\* The UPDATE of one edited row, in session.flush or in the commit.
FlushUpdate(t, k) ==
    /\ txn[t].at \in {"flush", "commit"}
    /\ k \in Dirty(t)
    /\ WriteRow(t, k, Edited(t, txn[t].dirty[k], txn[t].view[k], txn[t].snap[k]),
                [txn[t] EXCEPT !.dirty[k] = "clean"])

\* IntegrityError.  create_entity answers 409; bulk_upsert rolls back, which
\* also discards the edits of the rows it had found, and starts over with the
\* entities it still holds as pending.
Conflict(t) ==
    IF IsBulk(t)
    THEN /\ Unlock(t)
         /\ Become(t, [txn[t] EXCEPT !.at = "restart",
                                     !.dirty = AllClean,
                                     !.retries = @ + 1])
         /\ UNCHANGED table
    ELSE Abort(t, "exists")

\* Mutant of FlushInsert: the new row replaces the one with the same key.
FlushInsertReplacing(t, k) ==
    /\ txn[t].at = "flush" /\ Dirty(t) = {}
    /\ k \in txn[t].pending \ Wrote(t)
    /\ Free(t, k)
    /\ locked' = [locked EXCEPT ![k] = t]
    /\ Become(t, [txn[t] EXCEPT !.view[k] = NewRow(t)])
    /\ UNCHANGED <<table, advisory>>

\* The INSERT of one pending entity, after the UPDATEs of the same flush.
FlushInsert(t, k) ==
    /\ txn[t].at = "flush" /\ Dirty(t) = {}
    /\ k \in txn[t].pending \ Wrote(t)
    /\ Free(t, k)
    /\ IF Exists(table[k])
       THEN Conflict(t)
       ELSE /\ locked' = [locked EXCEPT ![k] = t]
            /\ Become(t, [txn[t] EXCEPT !.view[k] = NewRow(t)])
            /\ UNCHANGED <<table, advisory>>

EndFlush(t) ==
    /\ txn[t].at = "flush" /\ Dirty(t) = {}
    /\ txn[t].pending \subseteq Wrote(t)
    /\ Become(t, [txn[t] EXCEPT !.at = "locate",
                                !.moves = @ \union LocatedKeys(t, txn[t].pending)])
    /\ UNCHANGED <<table, locked, advisory>>

\* The raw UPDATE of _set_location and _set_locations_batch: text() does not
\* flush the session, so it may come before the edits of the same row.
SetLocation(t, k) ==
    /\ txn[t].at = "locate"
    /\ k \in txn[t].moves
    /\ WriteRow(t, k, [txn[t].view[k] EXCEPT !.loc = t],
                [txn[t] EXCEPT !.moves = @ \ {k}])

EndLocate(t) ==
    /\ txn[t].at = "locate" /\ txn[t].moves = {}
    /\ Become(t, [txn[t] EXCEPT !.at = "commit"])
    /\ UNCHANGED <<table, locked, advisory>>

\* Mutant of Commit: the edits still in memory are not flushed.
CommitUnflushed(t) ==
    /\ txn[t].at = "commit"
    /\ table' = [k \in Keys |-> IF locked[k] = t THEN txn[t].view[k] ELSE table[k]]
    /\ Unlock(t)
    /\ Become(t, Finished(t, "ok"))

Commit(t) ==
    /\ txn[t].at = "commit" /\ Dirty(t) = {}
    /\ table' = [k \in Keys |-> IF locked[k] = t THEN txn[t].view[k] ELSE table[k]]
    /\ Unlock(t)
    /\ Become(t, Finished(t, "ok"))

\* A statement timeout, a Redis error in the invalidation or the death of the
\* worker: the session is left, or the connection lost, and Postgres rolls back.
\* The 504 of timeout_middleware is no action: it ends the wait for the handler,
\* which goes on and may commit.  The request is a transaction here until its
\* handler is over, whatever its client was told meanwhile.
Die(t) ==
    /\ txn[t].at # "done"
    /\ Abort(t, "died")

------------------------------------------------------------------------------
(* Deadlock detection of Postgres *)

Wanted(t) == CASE Dirty(t) # {} /\ txn[t].at \in {"flush", "commit"} -> Dirty(t)
               [] Dirty(t) = {} /\ txn[t].at = "flush" -> txn[t].pending
               [] txn[t].at = "locate" -> txn[t].moves
               [] OTHER -> {}
WaitsFor(t, u) == t # u /\ \E k \in Wanted(t) : locked[k] = u

Holders == {locked[k] : k \in Keys} \ {"nobody"}

\* t waits for itself through the others: it is in every set that holds those t
\* waits for and those its members wait for.  The rows of a flush come in any
\* order, so a wanted row is one the transaction may be waiting for.
Deadlocked(t) ==
    \A S \in SUBSET Holders :
       (\A u \in S \union {t}, v \in Holders : WaitsFor(u, v) => v \in S) => t \in S

AbortDeadlock(t) == Deadlocked(t) /\ Abort(t, "failed")

------------------------------------------------------------------------------
TxnStep(t) ==
    \/ Begin(t) \/ LockAdvisory(t)
    \/ SelectBulk(t) \/ SelectCreate(t) \/ SelectUpdate(t) \/ SelectDelete(t)
    \/ Recheck(t)
    \/ \E k \in Keys : FlushUpdate(t, k) \/ FlushInsert(t, k) \/ SetLocation(t, k)
    \/ EndFlush(t) \/ EndLocate(t) \/ Commit(t)
    \/ AbortDeadlock(t)

Next == \E t \in Txns : TxnStep(t) \/ Die(t)

Spec == Init /\ [][Next]_vars

\* Postgres executes what it is given, grants free locks and breaks deadlocks;
\* nothing has to die.
FairSpec == Spec /\ \A t \in Txns : WF_vars(TxnStep(t))

------------------------------------------------------------------------------
(* Properties *)

\* Every variable stays in its type.
TypeOK == /\ table \in [Keys -> Row]
          /\ locked \in [Keys -> Owners]
          /\ advisory \in [Workers -> Owners]
          /\ txn \in [Txns -> Session]

Commits(t) == txn[t].at = "commit" /\ txn'[t].outcome = "ok"

\* No lost update: a committed change of a row was computed from the very row
\* it replaces, through retries, raw UPDATEs and edits flushed at the commit.
NoLostUpdate ==
    [][\A k \in Keys : table'[k] # table[k] =>
          \E t \in Txns : Commits(t) /\ txn[t].snap[k] = table[k]]_vars

\* The same, while the transaction runs: what it has written stays current.
WritesAreCurrent ==
    \A k \in Keys, t \in Txns : locked[k] = t => txn[t].snap[k] = table[k]

\* A key keeps its row: no upsert, retry or race replaces the id that media and
\* classifications refer to.
IdentityStable ==
    [][\A k \in Keys : Exists(table[k]) => /\ Exists(table'[k])
                                           /\ table'[k].id = table[k].id]_vars

\* A request that was refused, failed or died leaves nothing in the table.
AllOrNothing ==
    \A k \in Keys, t \in Txns :
       t \in {table[k].id, table[k].data, table[k].coord, table[k].loc}
          => txn[t].outcome = "ok"

\* An IntegrityError is never in vain: the recheck finds a row that the flush
\* ran into, so no retry works on the same entities twice.
RetriesProgress ==
    [][\A t \in Txns : txn[t].at = "recheck" /\ txn'[t].at # "recheck" =>
          \/ txn'[t].outcome = "died"
          \/ txn[t].pending \cap Found(t) # {}]_vars

\* A bulk that met no IntegrityError has, when it is acknowledged, written its
\* data to every row of its batch, and the location of those with coordinates.
CleanBulkApplied ==
    [][\A t \in Txns : Commits(t) /\ IsBulk(t) /\ txn[t].retries = 0 =>
          \A k \in Target[t] : /\ table'[k].data = t
                               /\ t \in Located => table'[k].loc = t]_vars

\* Whatever the interleaving, every request reads at one moment and writes what
\* it makes of that at one later moment, or writes nothing.
ImplementsRowStore == Store!Spec

\* Every request is answered: whoever waits for a row or for the advisory lock
\* gets it, or is aborted.
EveryWriteEnds == \A t \in Txns : <>(txn[t].at = "done")

\* README.md:226 "retries on IntegrityError": an acknowledged bulk has written
\* its data to every row of its batch, with or without a retry.
AcknowledgedBulkApplied ==
    [][\A t \in Txns : Commits(t) /\ IsBulk(t) =>
          \A k \in Target[t] : table'[k].data = t]_vars
==============================================================================
