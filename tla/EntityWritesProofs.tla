-------------------------- MODULE EntityWritesProofs -------------------------
(***************************************************************************)
(* Theorems about EntityWrites, for any set of keys and requests, any      *)
(* assignment of requests to workers and any max_retries.                  *)
(***************************************************************************)
EXTENDS EntityWrites, TLAPS

\* A bulk that is about to insert has a retry left: what the bound of the
\* retry counter in TypeOK rests on.
RetriesLeft == \A t \in Txns : IsBulk(t) /\ txn[t].at \in {"select", "flush"}
                                  => txn[t].retries < MaxRetries

TypeInv == TypeOK /\ RetriesLeft

\* What the operators on rows build is a row.
LEMMA RowTypes ==
    /\ NoRow \in Row /\ Seed \in Row
    /\ \A t \in Txns : NewRow(t) \in Row
    /\ \A t \in Txns, edit \in Edits, row \in Row, loaded \in Row :
          Edited(t, edit, row, loaded) \in Row
<1>1. NoRow \in Row /\ Seed \in Row
  BY DEF NoRow, Seed, Row, Values
<1>2. \A t \in Txns : Coord(t) \in Values /\ t \in Values /\ "null" \in Values
  BY DEF Coord, Values
<1>3. \A t \in Txns : NewRow(t) \in Row
  BY <1>2 DEF NewRow, Row
<1>4. ASSUME NEW t \in Txns, NEW edit \in Edits, NEW row \in Row, NEW loaded \in Row
      PROVE  Edited(t, edit, row, loaded) \in Row
  <2>1. CASE edit = "overwrite"
    BY <1>2, <2>1 DEF Edited, Row
  <2>2. CASE edit = "copy"
    BY <1>2, <2>2 DEF Edited, Row
  <2>3. CASE edit = "update"
    BY <1>2, <2>3 DEF Edited, Row
  <2>4. CASE edit = "delete"
    BY <2>4 DEF Edited, Row
  <2>5. CASE edit = "clean"
    BY <2>5 DEF Edited
  <2>6. QED
    BY <2>1, <2>2, <2>3, <2>4, <2>5 DEF Edits
<1>5. QED
  BY <1>1, <1>3, <1>4

\* The session of a request at its start and after its end.
LEMMA SessionTypes ==
    /\ NewSession \in Session
    /\ TypeOK => \A t \in Txns, outcome \in Outcomes :
                    /\ Finished(t, outcome) \in Session
                    /\ Finished(t, outcome).at = "done"
<1>1. NewSession \in Session
  <2>1. 0 \in 0..MaxRetries
    BY WritesAssumption
  <2>2. AllClean \in [Keys -> Edits]
    BY DEF AllClean, Edits
  <2>3. QED
    BY <2>1, <2>2, RowTypes DEF NewSession, Session, Phases, Outcomes
<1>2. ASSUME NEW t \in Txns, NEW outcome \in Outcomes, TypeOK
      PROVE  Finished(t, outcome) \in Session /\ Finished(t, outcome).at = "done"
  <2>1. txn[t].retries \in 0..MaxRetries
    BY <1>2 DEF TypeOK, Session
  <2> HIDE DEF NewSession
  <2>2. QED
    BY <1>1, <2>1 DEF Finished, Session, Phases
<1>3. QED
  BY <1>1, <1>2

\* A request's session is replaced by a well-typed one that has a retry left
\* where it needs one.
LEMMA BecomeType ==
    ASSUME TypeInv, NEW t \in Txns, NEW s \in Session, Become(t, s),
           table' \in [Keys -> Row], locked' \in [Keys -> Owners],
           advisory' \in [Workers -> Owners],
           IsBulk(t) /\ s.at \in {"select", "flush"} => s.retries < MaxRetries
    PROVE  TypeInv'
<1>1. TypeOK'
  BY DEF TypeInv, TypeOK, Become
<1>2. RetriesLeft'
  BY DEF TypeInv, TypeOK, RetriesLeft, Become, IsBulk
<1>3. QED
  BY <1>1, <1>2 DEF TypeInv

LEMMA UnlockType ==
    ASSUME TypeOK, NEW t \in Txns, Unlock(t)
    PROVE  locked' \in [Keys -> Owners] /\ advisory' \in [Workers -> Owners]
BY DEF TypeOK, Unlock, Owners

LEMMA AbortType ==
    ASSUME TypeInv, NEW t \in Txns, NEW outcome \in Outcomes, Abort(t, outcome)
    PROVE  TypeInv'
<1>1. Finished(t, outcome) \in Session /\ Finished(t, outcome).at = "done"
  BY SessionTypes DEF TypeInv
<1>2. table' \in [Keys -> Row] /\ Become(t, Finished(t, outcome)) /\ Unlock(t)
  BY DEF TypeInv, TypeOK, Abort
<1>3. locked' \in [Keys -> Owners] /\ advisory' \in [Workers -> Owners]
  BY <1>2, UnlockType DEF TypeInv
<1>4. QED
  BY <1>1, <1>2, <1>3, BecomeType

\* The initial state is well typed.
LEMMA InitType == Init => TypeInv
<1> SUFFICES ASSUME Init PROVE TypeInv
  OBVIOUS
<1>1. TypeOK
  BY RowTypes, SessionTypes DEF Init, TypeOK, Owners
<1>2. RetriesLeft
  BY DEF Init, RetriesLeft, NewSession
<1>3. QED
  BY <1>1, <1>2 DEF TypeInv

\* The steps that read and decide keep the types.
LEMMA ReadType ==
    ASSUME TypeInv, NEW t \in Txns,
           \/ Begin(t) \/ LockAdvisory(t) \/ SelectBulk(t) \/ SelectCreate(t)
           \/ SelectUpdate(t) \/ SelectDelete(t) \/ Recheck(t)
    PROVE  TypeInv'
<1> DEFINE s == txn[t]
<1> USE WritesAssumption
<1>0. /\ s \in Session /\ Target[t] \in SUBSET Keys
      /\ table \in [Keys -> Row] /\ locked \in [Keys -> Owners]
      /\ advisory \in [Workers -> Owners]
  BY DEF TypeInv, TypeOK
<1>1. /\ s.retries \in 0..MaxRetries /\ s.pending \in SUBSET Keys
      /\ s.moves \in SUBSET Keys /\ Found(t) \in SUBSET Keys
  BY <1>0 DEF Session, Found
<1>2. \A ks \in SUBSET Keys : LocatedKeys(t, ks) \in SUBSET Keys
  BY DEF LocatedKeys
<1>3. \A ks \in SUBSET Keys, edit \in Edits : Marked(ks, edit) \in [Keys -> Edits]
  BY DEF Marked, Edits
<1>4. CASE Begin(t)
  <2> DEFINE n == [s EXCEPT !.at = IF IsBulk(t) THEN "advisory" ELSE "select",
                            !.snap = table, !.view = table]
  <2>1. n \in Session /\ (n.at \in {"select", "flush"} => ~IsBulk(t))
    BY <1>0 DEF Session, Phases
  <2>2. Become(t, n) /\ UNCHANGED <<table, locked, advisory>>
    BY <1>4 DEF Begin
  <2> HIDE DEF n
  <2>3. QED
    BY <1>0, <2>1, <2>2, BecomeType
<1>5. CASE LockAdvisory(t)
  <2> DEFINE n == [s EXCEPT !.at = IF s.retries > 0 THEN "recheck" ELSE "select"]
  <2>1. n \in Session /\ (n.at \in {"select", "flush"} => n.retries < MaxRetries)
    BY <1>0, <1>1 DEF Session, Phases
  <2>2. Become(t, n) /\ UNCHANGED <<table, locked>>
    BY <1>5 DEF LockAdvisory
  <2>3. advisory' \in [Workers -> Owners]
    BY <1>0, <1>5 DEF LockAdvisory, Owners
  <2> HIDE DEF n
  <2>4. QED
    BY <1>0, <2>1, <2>2, <2>3, BecomeType
<1>6. CASE SelectBulk(t)
  <2> DEFINE old == Target[t] \cap Found(t)
             new == Target[t] \ Found(t)
             n == [s EXCEPT !.at = IF new = {} THEN "locate" ELSE "flush",
                            !.dirty = Marked(old, "overwrite"),
                            !.pending = new,
                            !.moves = LocatedKeys(t, old)]
  <2>1. /\ Marked(old, "overwrite") \in [Keys -> Edits] /\ new \in SUBSET Keys
        /\ LocatedKeys(t, old) \in SUBSET Keys
    BY <1>0, <1>2, <1>3 DEF Edits
  <2>2. s.retries < MaxRetries
    BY <1>6 DEF TypeInv, RetriesLeft, SelectBulk
  <2>3. Become(t, n) /\ UNCHANGED <<table, locked, advisory>>
    BY <1>6 DEF SelectBulk
  <2> HIDE DEF old, new
  <2>4. n \in Session /\ n.retries < MaxRetries
    BY <1>0, <2>1, <2>2 DEF Session, Phases
  <2> HIDE DEF n
  <2>5. QED
    BY <1>0, <2>3, <2>4, BecomeType
<1>7. CASE SelectCreate(t)
  <2> DEFINE n == [s EXCEPT !.at = "flush", !.pending = Target[t]]
  <2>1. n \in Session /\ ~IsBulk(t)
    BY <1>0, <1>7 DEF Session, Phases, SelectCreate, IsBulk
  <2>2. Become(t, n) /\ UNCHANGED <<table, locked, advisory>>
    BY <1>7 DEF SelectCreate
  <2> HIDE DEF n
  <2>3. QED
    BY <1>0, <2>1, <2>2, BecomeType
<1>8. CASE SelectUpdate(t)
  <2> DEFINE n == [s EXCEPT !.at = "flush", !.dirty = Marked(Target[t], "update"),
                            !.moves = LocatedKeys(t, Target[t])]
  <2>1. n \in Session /\ ~IsBulk(t)
    <3>1. /\ Marked(Target[t], "update") \in [Keys -> Edits]
          /\ LocatedKeys(t, Target[t]) \in SUBSET Keys
      BY <1>0, <1>2, <1>3 DEF Edits
    <3>2. QED
      BY <1>0, <1>8, <3>1 DEF Session, Phases, SelectUpdate, IsBulk
  <2>2. CASE Abort(t, "missing")
    BY <2>2, AbortType DEF Outcomes
  <2>3. CASE Become(t, n) /\ UNCHANGED <<table, locked, advisory>>
    <3> HIDE DEF n
    <3>1. QED
      BY <1>0, <2>1, <2>3, BecomeType
  <2>4. QED
    BY <1>8, <2>2, <2>3 DEF SelectUpdate
<1>9. CASE SelectDelete(t)
  <2> DEFINE n == [s EXCEPT !.at = "commit", !.dirty = Marked(Target[t], "delete")]
  <2>1. n \in Session /\ ~IsBulk(t)
    <3>1. Marked(Target[t], "delete") \in [Keys -> Edits]
      BY <1>0, <1>3 DEF Edits
    <3>2. QED
      BY <1>0, <1>9, <3>1 DEF Session, Phases, SelectDelete, IsBulk
  <2>2. CASE Abort(t, "missing")
    BY <2>2, AbortType DEF Outcomes
  <2>3. CASE Become(t, n) /\ UNCHANGED <<table, locked, advisory>>
    <3> HIDE DEF n
    <3>1. QED
      BY <1>0, <2>1, <2>3, BecomeType
  <2>4. QED
    BY <1>9, <2>2, <2>3 DEF SelectDelete
<1>10. CASE Recheck(t)
  <2> DEFINE old == s.pending \cap Found(t)
             new == s.pending \ Found(t)
             n == [s EXCEPT !.at = IF new = {} THEN "locate" ELSE "flush",
                            !.dirty = Marked(old, "copy"),
                            !.pending = new,
                            !.moves = @ \union LocatedKeys(t, old)]
  <2>1. /\ Marked(old, "copy") \in [Keys -> Edits] /\ new \in SUBSET Keys
        /\ LocatedKeys(t, old) \in SUBSET Keys
    BY <1>1, <1>2, <1>3 DEF Edits
  <2>2. CASE Abort(t, "failed")
    BY <2>2, AbortType DEF Outcomes
  <2>3. CASE /\ ~(new # {} /\ s.retries = MaxRetries)
             /\ Become(t, n) /\ UNCHANGED <<table, locked, advisory>>
    <3> HIDE DEF old, new
    <3>1. n \in Session
      BY <1>0, <1>1, <2>1 DEF Session, Phases
    <3>2. n.at = "flush" => n.retries < MaxRetries
      BY <1>0, <1>1, <2>3 DEF Session
    <3>3. n.at # "select"
      BY <1>0 DEF Session
    <3> HIDE DEF n
    <3>4. QED
      BY <1>0, <2>3, <3>1, <3>2, <3>3, BecomeType
  <2>4. QED
    BY <1>10, <2>2, <2>3 DEF Recheck
<1>11. QED
  BY <1>4, <1>5, <1>6, <1>7, <1>8, <1>9, <1>10

\* A write of an existing row keeps the types.
LEMMA WriteRowType ==
    ASSUME TypeInv, NEW t \in Txns, NEW k \in Keys, NEW row \in Row,
           NEW next \in Session, WriteRow(t, k, row, next),
           IsBulk(t) /\ next.at \in {"select", "flush"} => next.retries < MaxRetries
    PROVE  TypeInv'
<1>1. /\ table \in [Keys -> Row] /\ locked \in [Keys -> Owners]
      /\ advisory \in [Workers -> Owners]
  BY DEF TypeInv, TypeOK
<1>2. CASE Become(t, next) /\ UNCHANGED <<table, locked, advisory>>
  BY <1>1, <1>2, BecomeType
<1>3. CASE /\ locked' = [locked EXCEPT ![k] = t]
           /\ Become(t, [next EXCEPT !.view[k] = row])
           /\ UNCHANGED <<table, advisory>>
  <2> DEFINE n == [next EXCEPT !.view[k] = row]
  <2>1. /\ n \in Session
        /\ IsBulk(t) /\ n.at \in {"select", "flush"} => n.retries < MaxRetries
    BY DEF Session
  <2>2. locked' \in [Keys -> Owners] /\ table' \in [Keys -> Row]
        /\ advisory' \in [Workers -> Owners]
    BY <1>1, <1>3 DEF Owners
  <2>3. Become(t, n)
    BY <1>3
  <2> HIDE DEF n
  <2>4. QED
    BY <2>1, <2>2, <2>3, BecomeType
<1>4. CASE Abort(t, "failed")
  BY <1>4, AbortType DEF Outcomes
<1>5. QED
  BY <1>2, <1>3, <1>4 DEF WriteRow

\* The steps that flush, locate and end a transaction keep the types.
LEMMA WriteType ==
    ASSUME TypeInv, NEW t \in Txns,
           \/ \E k \in Keys : FlushUpdate(t, k) \/ FlushInsert(t, k) \/ SetLocation(t, k)
           \/ EndFlush(t) \/ EndLocate(t) \/ Commit(t) \/ AbortDeadlock(t) \/ Die(t)
    PROVE  TypeInv'
<1> DEFINE s == txn[t]
<1>1. /\ s \in Session /\ table \in [Keys -> Row] /\ locked \in [Keys -> Owners]
      /\ advisory \in [Workers -> Owners]
  BY DEF TypeInv, TypeOK
<1>2. /\ s.retries \in 0..MaxRetries /\ s.pending \in SUBSET Keys
      /\ s.moves \in SUBSET Keys /\ s.view \in [Keys -> Row] /\ s.snap \in [Keys -> Row]
      /\ s.dirty \in [Keys -> Edits]
  BY <1>1 DEF Session
<1>3. IsBulk(t) /\ s.at = "flush" => s.retries < MaxRetries
  BY DEF TypeInv, RetriesLeft
<1>4. ASSUME NEW k \in Keys, FlushUpdate(t, k)
      PROVE  TypeInv'
  <2> DEFINE n == [s EXCEPT !.dirty[k] = "clean"]
             row == Edited(t, s.dirty[k], s.view[k], s.snap[k])
  <2>1. n \in Session /\ n.at = s.at /\ n.retries = s.retries /\ s.at # "select"
    BY <1>1, <1>4 DEF Session, Edits, FlushUpdate
  <2>2. row \in Row
    BY <1>2, RowTypes
  <2>3. WriteRow(t, k, row, n)
    BY <1>4 DEF FlushUpdate
  <2> HIDE DEF n, row
  <2>4. QED
    BY <1>3, <2>1, <2>2, <2>3, WriteRowType
<1>5. ASSUME NEW k \in Keys, FlushInsert(t, k)
      PROVE  TypeInv'
  <2>1. CASE IsBulk(t) /\ Conflict(t)
    <3> DEFINE n == [s EXCEPT !.at = "restart", !.dirty = AllClean, !.retries = @ + 1]
    <3>1. s.retries + 1 \in 0..MaxRetries
      BY <1>2, <1>3, <1>5, <2>1, WritesAssumption DEF FlushInsert
    <3>2. n \in Session /\ n.at = "restart"
      BY <1>1, <3>1 DEF Session, Phases, AllClean, Edits
    <3>3. Become(t, n) /\ Unlock(t) /\ UNCHANGED table
      BY <2>1 DEF Conflict
    <3>4. locked' \in [Keys -> Owners] /\ advisory' \in [Workers -> Owners]
      BY <3>3, UnlockType DEF TypeInv
    <3> HIDE DEF n
    <3>5. QED
      BY <1>1, <3>2, <3>3, <3>4, BecomeType
  <2>2. CASE Abort(t, "exists")
    BY <2>2, AbortType DEF Outcomes
  <2>3. CASE /\ locked' = [locked EXCEPT ![k] = t]
             /\ Become(t, [txn[t] EXCEPT !.view[k] = NewRow(t)])
             /\ UNCHANGED <<table, advisory>>
    <3> DEFINE n == [s EXCEPT !.view[k] = NewRow(t)]
    <3>1. NewRow(t) \in Row
      BY RowTypes
    <3>2. n \in Session /\ n.at = "flush" /\ n.retries = s.retries /\ s.at = "flush"
      BY <1>1, <1>5, <3>1 DEF Session, FlushInsert
    <3>3. locked' \in [Keys -> Owners]
      BY <1>1, <2>3 DEF Owners
    <3>4. Become(t, n)
      BY <2>3
    <3> HIDE DEF n
    <3>5. QED
      BY <1>1, <1>3, <2>3, <3>2, <3>3, <3>4, BecomeType
  <2>4. QED
    BY <1>5, <2>1, <2>2, <2>3 DEF FlushInsert, Conflict
<1>6. ASSUME NEW k \in Keys, SetLocation(t, k)
      PROVE  TypeInv'
  <2> DEFINE n == [s EXCEPT !.moves = @ \ {k}]
             row == [s.view[k] EXCEPT !.loc = t]
  <2>1. n \in Session /\ n.at = "locate"
    BY <1>1, <1>6 DEF Session, SetLocation
  <2>2. row \in Row
    BY <1>2 DEF Row, Values
  <2>3. WriteRow(t, k, row, n)
    BY <1>6 DEF SetLocation
  <2> HIDE DEF n, row
  <2>4. QED
    BY <2>1, <2>2, <2>3, WriteRowType
<1>7. CASE EndFlush(t)
  <2> DEFINE moved == LocatedKeys(t, s.pending)
             n == [s EXCEPT !.at = "locate", !.moves = @ \union moved]
  <2>1. moved \in SUBSET Keys
    BY <1>2 DEF LocatedKeys
  <2>2. Become(t, n) /\ UNCHANGED <<table, locked, advisory>>
    BY <1>7 DEF EndFlush
  <2> HIDE DEF moved
  <2>3. n \in Session /\ n.at = "locate"
    BY <1>1, <2>1 DEF Session, Phases
  <2> HIDE DEF n
  <2>4. QED
    BY <1>1, <2>2, <2>3, BecomeType
<1>8. CASE EndLocate(t)
  <2> DEFINE n == [s EXCEPT !.at = "commit"]
  <2>1. n \in Session /\ n.at = "commit"
    BY <1>1 DEF Session, Phases
  <2>2. Become(t, n) /\ UNCHANGED <<table, locked, advisory>>
    BY <1>8 DEF EndLocate
  <2> HIDE DEF n
  <2>3. QED
    BY <1>1, <2>1, <2>2, BecomeType
<1>9. CASE Commit(t)
  <2>1. Finished(t, "ok") \in Session /\ Finished(t, "ok").at = "done"
    BY SessionTypes DEF TypeInv, Outcomes
  <2>2. table' \in [Keys -> Row]
    BY <1>1, <1>2, <1>9 DEF Commit
  <2>3. locked' \in [Keys -> Owners] /\ advisory' \in [Workers -> Owners]
    BY <1>9, UnlockType DEF Commit, TypeInv
  <2>4. Become(t, Finished(t, "ok"))
    BY <1>9 DEF Commit
  <2>5. QED
    BY <2>1, <2>2, <2>3, <2>4, BecomeType
<1>10. CASE AbortDeadlock(t)
  BY <1>10, AbortType DEF AbortDeadlock, Outcomes
<1>11. CASE Die(t)
  BY <1>11, AbortType DEF Die, Outcomes
<1>12. QED
  BY <1>4, <1>5, <1>6, <1>7, <1>8, <1>9, <1>10, <1>11

\* Every variable stays in its type; in particular bulk_upsert gives up after
\* max_retries IntegrityErrors.
THEOREM WritesTypeCorrect == Spec => []TypeOK
<1>1. TypeInv /\ [Next]_vars => TypeInv'
  <2> SUFFICES ASSUME TypeInv, [Next]_vars PROVE TypeInv'
    OBVIOUS
  <2>1. CASE UNCHANGED vars
    BY <2>1 DEF vars, TypeInv, TypeOK, RetriesLeft, IsBulk
  <2>2. CASE Next
    BY <2>2, ReadType, WriteType DEF Next, TxnStep
  <2>3. QED
    BY <2>1, <2>2
<1>2. TypeInv => TypeOK
  BY DEF TypeInv
<1>3. QED
  BY InitType, <1>1, <1>2, PTL DEF Spec

------------------------------------------------------------------------------
(* The inductive invariant behind the properties of the rows *)

\* A row that somebody created; no row is anything but NoRow or such a row.
Present(row) == row.id # "null"
RowOK(row) == row = NoRow \/ Present(row)

TableInv == \A k \in Keys : RowOK(table[k])

\* A row keeps the id it has in a snapshot: in the transaction and in the table.
IdInv(t) == \A k \in Keys :
    /\ RowOK(txn[t].snap[k]) /\ RowOK(txn[t].view[k])
    /\ Present(txn[t].snap[k]) => /\ txn[t].view[k].id = txn[t].snap[k].id
                                  /\ table[k].id = txn[t].snap[k].id

\* Whoever holds a row lock is writing, and the row is as its snapshot shows it.
LockInv(t) == \A k \in Keys : locked[k] = t =>
    /\ txn[t].at \in {"flush", "locate", "commit"}
    /\ Present(txn[t].view[k])
    /\ txn[t].snap[k] = table[k]

\* Only rows that exist are edited or moved; a move that survives a rollback
\* is of a row that still exists.
EditInv(t) == \A k \in Dirty(t) : Present(txn[t].snap[k])
MoveInv(t) == \A k \in txn[t].moves :
    /\ txn[t].at \in {"start", "restart"} => Present(table[k])
    /\ txn[t].at = "locate" => Present(txn[t].view[k])
    /\ txn[t].at \notin {"start", "restart", "locate"} => Present(txn[t].snap[k])

SessionInv(t) == IdInv(t) /\ LockInv(t) /\ EditInv(t) /\ MoveInv(t)

WritesInv == TypeInv /\ TableInv /\ \A t \in Txns : SessionInv(t)

\* The initial state satisfies it.
LEMMA InitWrites == Init => WritesInv
<1> SUFFICES ASSUME Init PROVE WritesInv
  OBVIOUS
<1> USE WritesAssumption
<1>1. TypeInv
  BY InitType
<1>2. TableInv
  BY DEF Init, TableInv, RowOK, Present, Seed, NoRow
<1>3. ASSUME NEW t \in Txns
      PROVE  SessionInv(t)
  <2>1. txn[t] = NewSession
    BY DEF Init
  <2>2. IdInv(t)
    BY <2>1 DEF IdInv, NewSession, RowOK, Present, NoRow
  <2>3. LockInv(t)
    BY DEF Init, LockInv
  <2>4. EditInv(t)
    BY <2>1 DEF EditInv, Dirty, NewSession, AllClean
  <2>5. MoveInv(t)
    BY <2>1 DEF MoveInv, NewSession
  <2>6. QED
    BY <2>2, <2>3, <2>4, <2>5 DEF SessionInv
<1>4. QED
  BY <1>1, <1>2, <1>3 DEF WritesInv

\* A step of t leaves the other sessions and their locks alone, and changes
\* the table in its commit only.
LEMMA StepFrame ==
    ASSUME TypeOK, NEW t \in Txns, TxnStep(t) \/ Die(t)
    PROVE  /\ UNCHANGED table \/ Commit(t)
           /\ \A u \in Txns \ {t} : txn'[u] = txn[u]
           /\ \A u \in Txns \ {t}, k \in Keys : locked'[k] = u => locked[k] = u
<1>1. UNCHANGED table \/ Commit(t)
  BY DEF TxnStep, Die, Begin, LockAdvisory, SelectBulk, SelectCreate, SelectUpdate,
         SelectDelete, Recheck, FlushUpdate, FlushInsert, SetLocation, EndFlush,
         EndLocate, AbortDeadlock, Abort, Conflict, WriteRow
<1>2. \E s : Become(t, s)
  BY DEF TxnStep, Die, Begin, LockAdvisory, SelectBulk, SelectCreate, SelectUpdate,
         SelectDelete, Recheck, FlushUpdate, FlushInsert, SetLocation, EndFlush,
         EndLocate, Commit, AbortDeadlock, Abort, Conflict, WriteRow
<1>3. \/ UNCHANGED locked \/ Unlock(t)
      \/ \E k \in Keys : locked' = [locked EXCEPT ![k] = t]
  BY DEF TxnStep, Die, Begin, LockAdvisory, SelectBulk, SelectCreate, SelectUpdate,
         SelectDelete, Recheck, FlushUpdate, FlushInsert, SetLocation, EndFlush,
         EndLocate, Commit, AbortDeadlock, Abort, Conflict, WriteRow
<1>4. \A u \in Txns \ {t} : txn'[u] = txn[u]
  BY <1>2 DEF Become, TypeOK
<1>5. \A u \in Txns \ {t}, k \in Keys : locked'[k] = u => locked[k] = u
  BY <1>3, WritesAssumption DEF Unlock, TypeOK
<1>6. QED
  BY <1>1, <1>4, <1>5

\* What a step does to the table: rows stay, with their ids, and only those
\* that t has locked change.
LEMMA TableStep ==
    ASSUME WritesInv, NEW t \in Txns, UNCHANGED table \/ Commit(t)
    PROVE  \A k \in Keys : /\ RowOK(table'[k])
                           /\ Present(table[k]) => table'[k].id = table[k].id
                           /\ table'[k] # table[k] => /\ locked[k] = t
                                                      /\ txn[t].snap[k] = table[k]
<1> SUFFICES ASSUME NEW k \in Keys
             PROVE  /\ RowOK(table'[k])
                    /\ Present(table[k]) => table'[k].id = table[k].id
                    /\ table'[k] # table[k] => /\ locked[k] = t
                                               /\ txn[t].snap[k] = table[k]
  OBVIOUS
<1>1. RowOK(table[k]) /\ IdInv(t) /\ LockInv(t)
  BY DEF WritesInv, TableInv, SessionInv
<1>2. CASE UNCHANGED table
  BY <1>1, <1>2
<1>3. CASE Commit(t) /\ locked[k] # t
  BY <1>1, <1>3 DEF Commit
<1>4. CASE Commit(t) /\ locked[k] = t
  <2>1. table'[k] = txn[t].view[k] /\ txn[t].snap[k] = table[k]
    BY <1>1, <1>4 DEF Commit, LockInv
  <2>2. QED
    BY <1>1, <1>4, <2>1 DEF IdInv
<1>5. QED
  BY <1>2, <1>3, <1>4

\* A step of t keeps the invariant of the other sessions.
LEMMA OtherSession ==
    ASSUME WritesInv, NEW t \in Txns, NEW u \in Txns, u # t, TxnStep(t) \/ Die(t)
    PROVE  SessionInv(u)'
<1>1. /\ txn'[u] = txn[u]
      /\ UNCHANGED table \/ Commit(t)
      /\ \A k \in Keys : locked'[k] = u => locked[k] = u
  BY StepFrame DEF WritesInv, TypeInv
<1>2. \A k \in Keys : /\ Present(table[k]) => table'[k].id = table[k].id
                      /\ locked[k] = u => table'[k] = table[k]
  BY <1>1, TableStep
<1>3. SessionInv(u) /\ txn[u].moves \subseteq Keys /\ Dirty(u) \subseteq Keys
  BY DEF WritesInv, TypeInv, TypeOK, Session, Dirty
<1>4. IdInv(u)'
  BY <1>1, <1>2, <1>3 DEF IdInv, SessionInv, RowOK, Present
<1>5. LockInv(u)'
  BY <1>1, <1>2, <1>3 DEF LockInv, SessionInv, Present
<1>6. EditInv(u)'
  BY <1>1, <1>3 DEF EditInv, SessionInv, Dirty, Present
<1>7. MoveInv(u)'
  BY <1>1, <1>2, <1>3 DEF MoveInv, SessionInv, Present
<1>8. QED
  BY <1>4, <1>5, <1>6, <1>7 DEF SessionInv

\* The end of a transaction leaves nothing to keep.
LEMMA EndedSession ==
    ASSUME WritesInv, NEW t \in Txns, NEW outcome \in Outcomes,
           Unlock(t), Become(t, Finished(t, outcome))
    PROVE  SessionInv(t)'
<1> DEFINE n == Finished(t, outcome)
<1>1. /\ n.snap = [k \in Keys |-> NoRow] /\ n.view = [k \in Keys |-> NoRow]
      /\ n.dirty = [k \in Keys |-> "clean"] /\ n.moves = {}
  BY DEF Finished, NewSession, AllClean
<1>2. txn'[t] = n
  BY DEF Become, WritesInv, TypeInv, TypeOK
<1>3. \A k \in Keys : locked'[k] # t
  BY WritesAssumption DEF Unlock
<1> HIDE DEF n
<1>4. IdInv(t)'
  <2>1. /\ \A k \in Keys : n.snap[k] = NoRow /\ n.view[k] = NoRow
        /\ ~Present(NoRow)
    BY <1>1 DEF Present, NoRow
  <2>2. QED
    BY <1>2, <2>1 DEF IdInv, RowOK, Present
<1>5. LockInv(t)'
  BY <1>3 DEF LockInv
<1>6. EditInv(t)'
  BY <1>1, <1>2 DEF EditInv, Dirty
<1>7. MoveInv(t)'
  BY <1>1, <1>2 DEF MoveInv
<1>8. QED
  BY <1>4, <1>5, <1>6, <1>7 DEF SessionInv

\* A step that reads, decides or goes on to the next phase.
LEMMA LocalStep ==
    ASSUME WritesInv, NEW t \in Txns, NEW n \in Session, Become(t, n),
           UNCHANGED <<table, locked>>, n.snap = txn[t].snap, n.view = txn[t].view,
           txn[t].at \in {"flush", "locate"} => n.at \in {"flush", "locate", "commit"},
           txn[t].at # "commit", n.at \notin {"start", "restart"},
           \A k \in Keys : n.dirty[k] # "clean" => Present(txn[t].snap[k]),
           \A k \in n.moves : IF n.at = "locate" THEN Present(txn[t].view[k])
                                                 ELSE Present(txn[t].snap[k])
    PROVE  SessionInv(t)'
<1>1. txn'[t] = n
  BY DEF Become, WritesInv, TypeInv, TypeOK
<1>2. SessionInv(t)
  BY DEF WritesInv
<1>3. IdInv(t)'
  BY <1>1, <1>2 DEF IdInv, SessionInv, RowOK, Present
<1>4. LockInv(t)'
  BY <1>1, <1>2 DEF LockInv, SessionInv, Present
<1>5. EditInv(t)'
  BY <1>1 DEF EditInv, Dirty, Present
<1>6. MoveInv(t)'
  BY <1>1 DEF MoveInv, Present
<1>7. QED
  BY <1>3, <1>4, <1>5, <1>6 DEF SessionInv

\* A write of an existing row keeps its id.
LEMMA WriteRowStep ==
    ASSUME WritesInv, NEW t \in Txns, NEW k \in Keys, NEW row \in Row,
           NEW next \in Session, WriteRow(t, k, row, next),
           next.snap = txn[t].snap, next.view = txn[t].view, next.at = txn[t].at,
           txn[t].at \in {"flush", "locate", "commit"},
           \A j \in Keys : next.dirty[j] # "clean" => txn[t].dirty[j] # "clean",
           next.moves \subseteq txn[t].moves,
           Present(txn[t].view[k]), row.id = txn[t].view[k].id
    PROVE  SessionInv(t)'
<1> DEFINE s == txn[t]
<1>1. /\ s \in Session /\ txn \in [Txns -> Session] /\ table \in [Keys -> Row]
      /\ locked \in [Keys -> Owners] /\ SessionInv(t)
  BY DEF WritesInv, TypeInv, TypeOK
<1>2. /\ s.view \in [Keys -> Row] /\ s.dirty \in [Keys -> Edits]
      /\ s.moves \in SUBSET Keys
  BY <1>1 DEF Session
<1>3. CASE Abort(t, "failed")
  BY <1>3, EndedSession DEF Abort, Outcomes
<1>4. CASE Become(t, next) /\ UNCHANGED <<table, locked, advisory>>
  <2>1. txn'[t] = next
    BY <1>1, <1>4 DEF Become
  <2>2. IdInv(t)'
    BY <1>1, <1>4, <2>1 DEF IdInv, SessionInv, RowOK, Present
  <2>3. LockInv(t)'
    BY <1>1, <1>4, <2>1 DEF LockInv, SessionInv, Present
  <2>4. EditInv(t)'
    BY <1>1, <1>4, <2>1 DEF EditInv, SessionInv, Dirty, Present
  <2>5. MoveInv(t)'
    BY <1>1, <1>2, <1>4, <2>1 DEF MoveInv, SessionInv, Present
  <2>6. QED
    BY <2>2, <2>3, <2>4, <2>5 DEF SessionInv
<1>5. CASE /\ table[k] = txn[t].snap[k]
           /\ locked' = [locked EXCEPT ![k] = t]
           /\ Become(t, [next EXCEPT !.view[k] = row])
           /\ UNCHANGED <<table, advisory>>
  <2> DEFINE n == [next EXCEPT !.view[k] = row]
  <2>1. /\ n.snap = s.snap /\ n.at = s.at /\ n.dirty = next.dirty
        /\ n.moves = next.moves
        /\ \A j \in Keys : n.view[j] = IF j = k THEN row ELSE s.view[j]
    BY <1>2 DEF Session
  <2>2. txn'[t] = n
    BY <1>1, <1>5 DEF Become
  <2>3. \A j \in Keys : locked'[j] = t => j = k \/ locked[j] = t
    BY <1>1, <1>5
  <2> HIDE DEF n
  <2>4. Present(row) /\ \A j \in Keys : n.view[j].id = s.view[j].id
    BY <2>1 DEF Present
  <2>5. IdInv(t)'
    BY <1>1, <1>5, <2>1, <2>2, <2>4 DEF IdInv, SessionInv, RowOK, Present
  <2>6. LockInv(t)'
    BY <1>1, <1>5, <2>1, <2>2, <2>3, <2>4 DEF LockInv, SessionInv, Present
  <2>7. EditInv(t)'
    BY <1>1, <2>1, <2>2 DEF EditInv, SessionInv, Dirty, Present
  <2>8. MoveInv(t)'
    BY <1>1, <1>2, <1>5, <2>1, <2>2, <2>4 DEF MoveInv, SessionInv, Present
  <2>9. QED
    BY <2>5, <2>6, <2>7, <2>8 DEF SessionInv
<1>6. QED
  BY <1>3, <1>4, <1>5 DEF WriteRow

\* A step of t keeps its own invariant.
LEMMA OwnSession ==
    ASSUME WritesInv, NEW t \in Txns, TxnStep(t) \/ Die(t)
    PROVE  SessionInv(t)'
<1> DEFINE s == txn[t]
<1>1. /\ s \in Session /\ txn \in [Txns -> Session] /\ table \in [Keys -> Row]
      /\ locked \in [Keys -> Owners] /\ SessionInv(t) /\ TypeInv'
      /\ \A k \in Keys : RowOK(table[k])
  BY ReadType, WriteType DEF WritesInv, TypeInv, TypeOK, TableInv, TxnStep
<1>2. /\ s.view \in [Keys -> Row] /\ s.snap \in [Keys -> Row]
      /\ s.dirty \in [Keys -> Edits]
      /\ s.moves \in SUBSET Keys /\ s.pending \in SUBSET Keys
  BY <1>1 DEF Session
<1>3. txn'[t] \in Session
  BY <1>1 DEF TypeInv, TypeOK
<1>4. \A k \in Keys : Present(s.snap[k]) => Present(s.view[k]) /\ Present(table[k])
  BY <1>1 DEF SessionInv, IdInv, Present
<1>5. \A k \in Found(t) : k \in Keys /\ Present(s.snap[k]) /\ Present(s.view[k])
  BY <1>1, <1>4 DEF Found, Exists, SessionInv, IdInv, RowOK
<1>6. \A ks \in SUBSET Keys : LocatedKeys(t, ks) \subseteq ks
  BY DEF LocatedKeys
<1>7. \A ks \in SUBSET Keys, edit \in Edits, k \in Keys :
         Marked(ks, edit)[k] # "clean" => k \in ks
  BY DEF Marked
<1>8. \A k \in Keys : s.dirty[k] # "clean" => Present(s.snap[k])
  BY <1>1 DEF SessionInv, EditInv, Dirty
<1>9. ASSUME NEW outcome \in Outcomes, Abort(t, outcome)
      PROVE  SessionInv(t)'
  BY <1>9, EndedSession DEF Abort
<1>10. CASE Begin(t)
  <2> DEFINE n == [s EXCEPT !.at = IF IsBulk(t) THEN "advisory" ELSE "select",
                            !.snap = table, !.view = table]
  <2>1. /\ n.snap = table /\ n.view = table /\ n.dirty = s.dirty /\ n.moves = s.moves
        /\ n.at \in {"advisory", "select"}
    BY <1>1 DEF Session
  <2>2. txn'[t] = n /\ UNCHANGED <<table, locked>> /\ s.at \in {"start", "restart"}
    BY <1>1, <1>10 DEF Begin, Become
  <2> HIDE DEF n
  <2>3. IdInv(t)'
    BY <1>1, <2>1, <2>2 DEF IdInv, RowOK, Present
  <2>4. LockInv(t)'
    BY <1>1, <2>1, <2>2 DEF LockInv, SessionInv, Present
  <2>5. EditInv(t)'
    BY <1>4, <1>8, <2>1, <2>2 DEF EditInv, Dirty, Present
  <2>6. MoveInv(t)'
    BY <1>1, <1>2, <2>1, <2>2 DEF MoveInv, SessionInv, Present
  <2>7. QED
    BY <2>3, <2>4, <2>5, <2>6 DEF SessionInv
<1>11. CASE LockAdvisory(t)
  <2> DEFINE n == [s EXCEPT !.at = IF s.retries > 0 THEN "recheck" ELSE "select"]
  <2>1. /\ Become(t, n) /\ UNCHANGED <<table, locked>> /\ txn'[t] = n
        /\ s.at = "advisory"
    BY <1>1, <1>11 DEF LockAdvisory, Become
  <2>2. /\ n.snap = s.snap /\ n.view = s.view /\ n.dirty = s.dirty
        /\ n.moves = s.moves /\ n.at \in {"recheck", "select"}
    BY <1>1 DEF Session
  <2>3. \A k \in s.moves : Present(s.snap[k])
    BY <1>1, <2>1 DEF SessionInv, MoveInv
  <2> HIDE DEF n
  <2>4. QED
    BY <1>3, <1>8, <2>1, <2>2, <2>3, LocalStep
<1>12. CASE SelectBulk(t)
  <2> DEFINE old == Target[t] \cap Found(t)
             new == Target[t] \ Found(t)
             n == [s EXCEPT !.at = IF new = {} THEN "locate" ELSE "flush",
                            !.dirty = Marked(old, "overwrite"),
                            !.pending = new,
                            !.moves = LocatedKeys(t, old)]
  <2>1. /\ Become(t, n) /\ UNCHANGED <<table, locked>> /\ txn'[t] = n
        /\ s.at = "select"
    BY <1>1, <1>12 DEF SelectBulk, Become
  <2>2. /\ n.snap = s.snap /\ n.view = s.view /\ n.dirty = Marked(old, "overwrite")
        /\ n.moves = LocatedKeys(t, old) /\ n.at \in {"locate", "flush"}
    BY <1>1 DEF Session
  <2>3. old \in SUBSET Keys /\ \A k \in old : Present(s.snap[k]) /\ Present(s.view[k])
    BY <1>5
  <2> HIDE DEF n, old, new
  <2>4. n.moves \subseteq old /\ \A k \in Keys : n.dirty[k] # "clean" => k \in old
    BY <1>6, <1>7, <2>2, <2>3 DEF Edits
  <2>5. QED
    BY <1>3, <2>1, <2>2, <2>3, <2>4, LocalStep
<1>13. CASE SelectCreate(t)
  <2> DEFINE n == [s EXCEPT !.at = "flush", !.pending = Target[t]]
  <2>1. /\ Become(t, n) /\ UNCHANGED <<table, locked>> /\ txn'[t] = n
        /\ s.at = "select"
    BY <1>1, <1>13 DEF SelectCreate, Become
  <2>2. /\ n.snap = s.snap /\ n.view = s.view /\ n.dirty = s.dirty
        /\ n.moves = s.moves /\ n.at = "flush"
    BY <1>1 DEF Session
  <2>3. \A k \in s.moves : Present(s.snap[k])
    BY <1>1, <2>1 DEF SessionInv, MoveInv
  <2> HIDE DEF n
  <2>4. QED
    BY <1>3, <1>8, <2>1, <2>2, <2>3, LocalStep
<1>14. CASE SelectUpdate(t)
  <2> DEFINE n == [s EXCEPT !.at = "flush", !.dirty = Marked(Target[t], "update"),
                            !.moves = LocatedKeys(t, Target[t])]
  <2>1. CASE /\ Target[t] \subseteq Found(t) /\ Become(t, n)
             /\ UNCHANGED <<table, locked>> /\ s.at = "select"
    <3>1. txn'[t] = n
      BY <1>1, <2>1 DEF Become
    <3>2. /\ n.snap = s.snap /\ n.view = s.view /\ n.dirty = Marked(Target[t], "update")
          /\ n.moves = LocatedKeys(t, Target[t]) /\ n.at = "flush"
      BY <1>1 DEF Session
    <3>3. Target[t] \in SUBSET Keys /\ \A k \in Target[t] : Present(s.snap[k])
      BY <1>5, <2>1
    <3> HIDE DEF n
    <3>4. /\ n.moves \subseteq Target[t]
          /\ \A k \in Keys : n.dirty[k] # "clean" => k \in Target[t]
      BY <1>6, <1>7, <3>2, <3>3 DEF Edits
    <3>5. QED
      BY <1>3, <2>1, <3>1, <3>2, <3>3, <3>4, LocalStep
  <2>2. QED
    BY <1>9, <1>14, <2>1 DEF SelectUpdate, Outcomes
<1>15. CASE SelectDelete(t)
  <2> DEFINE n == [s EXCEPT !.at = "commit", !.dirty = Marked(Target[t], "delete")]
  <2>1. CASE /\ Target[t] \subseteq Found(t) /\ Become(t, n)
             /\ UNCHANGED <<table, locked>> /\ s.at = "select"
    <3>1. txn'[t] = n
      BY <1>1, <2>1 DEF Become
    <3>2. /\ n.snap = s.snap /\ n.view = s.view /\ n.dirty = Marked(Target[t], "delete")
          /\ n.moves = s.moves /\ n.at = "commit"
      BY <1>1 DEF Session
    <3>3. Target[t] \in SUBSET Keys /\ \A k \in Target[t] : Present(s.snap[k])
      BY <1>5, <2>1
    <3>4. \A k \in s.moves : Present(s.snap[k])
      BY <1>1, <2>1 DEF SessionInv, MoveInv
    <3> HIDE DEF n
    <3>5. \A k \in Keys : n.dirty[k] # "clean" => k \in Target[t]
      BY <1>7, <3>2, <3>3 DEF Edits
    <3>6. QED
      BY <1>3, <2>1, <3>1, <3>2, <3>3, <3>4, <3>5, LocalStep
  <2>2. QED
    BY <1>9, <1>15, <2>1 DEF SelectDelete, Outcomes
<1>16. CASE Recheck(t)
  <2> DEFINE old == s.pending \cap Found(t)
             new == s.pending \ Found(t)
             n == [s EXCEPT !.at = IF new = {} THEN "locate" ELSE "flush",
                            !.dirty = Marked(old, "copy"),
                            !.pending = new,
                            !.moves = @ \union LocatedKeys(t, old)]
  <2>1. CASE /\ Become(t, n) /\ UNCHANGED <<table, locked>> /\ s.at = "recheck"
    <3>1. txn'[t] = n
      BY <1>1, <2>1 DEF Become
    <3>2. /\ n.snap = s.snap /\ n.view = s.view /\ n.dirty = Marked(old, "copy")
          /\ n.moves = s.moves \union LocatedKeys(t, old)
          /\ n.at \in {"locate", "flush"}
      BY <1>1 DEF Session
    <3>3. old \in SUBSET Keys /\ \A k \in old : Present(s.snap[k]) /\ Present(s.view[k])
      BY <1>5
    <3>4. \A k \in s.moves : Present(s.snap[k]) /\ Present(s.view[k])
      BY <1>1, <1>2, <1>4, <2>1 DEF SessionInv, MoveInv
    <3> HIDE DEF n, old, new
    <3>5. /\ n.moves \subseteq s.moves \union old
          /\ \A k \in Keys : n.dirty[k] # "clean" => k \in old
      BY <1>6, <1>7, <3>2, <3>3 DEF Edits
    <3>6. QED
      BY <1>3, <2>1, <3>1, <3>2, <3>3, <3>4, <3>5, LocalStep
  <2>2. QED
    BY <1>9, <1>16, <2>1 DEF Recheck, Outcomes
<1>17. ASSUME NEW k \in Keys, FlushUpdate(t, k)
       PROVE  SessionInv(t)'
  <2> DEFINE n == [s EXCEPT !.dirty[k] = "clean"]
             row == Edited(t, s.dirty[k], s.view[k], s.snap[k])
  <2>1. /\ WriteRow(t, k, row, n) /\ s.at \in {"flush", "commit"}
        /\ Present(s.view[k])
    BY <1>4, <1>8, <1>17 DEF FlushUpdate, Dirty
  <2>2. row \in Row /\ row.id = s.view[k].id
    <3>1. s.dirty[k] \in Edits /\ s.view[k] \in Row /\ s.snap[k] \in Row
      BY <1>2
    <3>2. row \in Row
      BY <3>1, RowTypes
    <3>3. row.id = s.view[k].id
      BY <3>1 DEF Edited, Row
    <3>4. QED
      BY <3>2, <3>3
  <2>3. /\ n \in Session /\ n.snap = s.snap /\ n.view = s.view /\ n.at = s.at
        /\ n.moves = s.moves
        /\ \A j \in Keys : n.dirty[j] # "clean" => s.dirty[j] # "clean"
    BY <1>1, <1>2 DEF Session, Edits
  <2> HIDE DEF n, row
  <2>4. QED
    BY <2>1, <2>2, <2>3, WriteRowStep
<1>18. ASSUME NEW k \in Keys, FlushInsert(t, k)
       PROVE  SessionInv(t)'
  <2>1. CASE IsBulk(t) /\ Conflict(t)
    <3> DEFINE n == [s EXCEPT !.at = "restart", !.dirty = AllClean, !.retries = @ + 1]
    <3>1. Unlock(t) /\ UNCHANGED table /\ txn'[t] = n /\ s.at = "flush"
      BY <1>1, <1>18, <2>1 DEF FlushInsert, Conflict, Become
    <3>2. /\ n.snap = s.snap /\ n.view = s.view /\ n.at = "restart"
          /\ n.moves = s.moves /\ \A j \in Keys : n.dirty[j] = "clean"
      BY <1>1 DEF Session, AllClean
    <3> HIDE DEF n
    <3>3. IdInv(t)'
      BY <1>1, <3>1, <3>2 DEF IdInv, SessionInv, RowOK, Present
    <3>4. LockInv(t)'
      BY <3>1, WritesAssumption DEF LockInv, Unlock
    <3>5. EditInv(t)'
      BY <3>1, <3>2 DEF EditInv, Dirty
    <3>6. MoveInv(t)'
      BY <1>1, <1>2, <1>4, <3>1, <3>2 DEF MoveInv, SessionInv, Present
    <3>7. QED
      BY <3>3, <3>4, <3>5, <3>6 DEF SessionInv
  <2>2. CASE /\ ~Exists(table[k])
             /\ locked' = [locked EXCEPT ![k] = t]
             /\ Become(t, [txn[t] EXCEPT !.view[k] = NewRow(t)])
             /\ UNCHANGED <<table, advisory>>
    <3> DEFINE n == [s EXCEPT !.view[k] = NewRow(t)]
    <3>1. txn'[t] = n /\ s.at = "flush"
      BY <1>1, <1>18, <2>2 DEF FlushInsert, Become
    <3>2. /\ n.snap = s.snap /\ n.at = s.at /\ n.dirty = s.dirty /\ n.moves = s.moves
          /\ \A j \in Keys : n.view[j] = IF j = k THEN NewRow(t) ELSE s.view[j]
      BY <1>1, <1>2 DEF Session
    <3> HIDE DEF n
    <3>3. Present(NewRow(t)) /\ ~Present(NoRow)
      BY WritesAssumption DEF Present, NewRow, NoRow
    <3>4. ~Present(s.snap[k]) /\ s.snap[k] = NoRow /\ table[k] = NoRow
      BY <1>1, <1>4, <2>2, <3>3 DEF Exists, SessionInv, IdInv, RowOK
    <3>5. \A j \in Keys : locked'[j] = t => j = k \/ locked[j] = t
      BY <1>1, <2>2
    <3>6. IdInv(t)'
      BY <1>1, <2>2, <3>1, <3>2, <3>3, <3>4 DEF IdInv, SessionInv, RowOK, Present
    <3>7. LockInv(t)'
      BY <1>1, <2>2, <3>1, <3>2, <3>3, <3>4, <3>5 DEF LockInv, SessionInv, Present
    <3>8. EditInv(t)'
      BY <1>1, <3>1, <3>2 DEF EditInv, SessionInv, Dirty, Present
    <3>9. MoveInv(t)'
      BY <1>1, <1>2, <2>2, <3>1, <3>2 DEF MoveInv, SessionInv, Present
    <3>10. QED
      BY <3>6, <3>7, <3>8, <3>9 DEF SessionInv
  <2>3. QED
    BY <1>9, <1>18, <2>1, <2>2 DEF FlushInsert, Conflict, Outcomes
<1>19. ASSUME NEW k \in Keys, SetLocation(t, k)
       PROVE  SessionInv(t)'
  <2> DEFINE n == [s EXCEPT !.moves = @ \ {k}]
             row == [s.view[k] EXCEPT !.loc = t]
  <2>1. WriteRow(t, k, row, n) /\ s.at = "locate" /\ k \in s.moves
    BY <1>19 DEF SetLocation
  <2>2. Present(s.view[k])
    BY <1>1, <2>1 DEF SessionInv, MoveInv
  <2>3. row \in Row /\ row.id = s.view[k].id
    BY <1>2 DEF Row, Values
  <2>4. /\ n \in Session /\ n.snap = s.snap /\ n.view = s.view /\ n.at = s.at
        /\ n.moves \subseteq s.moves /\ n.dirty = s.dirty
    BY <1>1, <1>2 DEF Session
  <2> HIDE DEF n, row
  <2>5. QED
    BY <2>1, <2>2, <2>3, <2>4, WriteRowStep
<1>20. CASE EndFlush(t)
  <2> DEFINE moved == LocatedKeys(t, s.pending)
             n == [s EXCEPT !.at = "locate", !.moves = @ \union moved]
  <2>1. /\ Become(t, n) /\ UNCHANGED <<table, locked>> /\ txn'[t] = n
        /\ s.at = "flush" /\ s.pending \subseteq Wrote(t)
    BY <1>1, <1>20 DEF EndFlush, Become
  <2>2. moved \subseteq s.pending /\ \A k \in s.pending : Present(s.view[k])
    BY <1>1, <1>2, <1>6, <2>1 DEF Wrote, SessionInv, LockInv
  <2>3. \A k \in s.moves : Present(s.view[k])
    BY <1>1, <1>2, <1>4, <2>1 DEF SessionInv, MoveInv
  <2> HIDE DEF moved
  <2>4. /\ n.snap = s.snap /\ n.view = s.view /\ n.dirty = s.dirty
        /\ n.moves = s.moves \union moved /\ n.at = "locate"
    BY <1>1 DEF Session
  <2> HIDE DEF n
  <2>5. QED
    BY <1>3, <1>8, <2>1, <2>2, <2>3, <2>4, LocalStep
<1>21. CASE EndLocate(t)
  <2> DEFINE n == [s EXCEPT !.at = "commit"]
  <2>1. /\ Become(t, n) /\ UNCHANGED <<table, locked>> /\ txn'[t] = n
        /\ s.at = "locate" /\ s.moves = {}
    BY <1>1, <1>21 DEF EndLocate, Become
  <2>2. /\ n.snap = s.snap /\ n.view = s.view /\ n.dirty = s.dirty
        /\ n.moves = s.moves /\ n.at = "commit"
    BY <1>1 DEF Session
  <2> HIDE DEF n
  <2>3. QED
    BY <1>3, <1>8, <2>1, <2>2, LocalStep
<1>22. CASE Commit(t)
  BY <1>22, EndedSession DEF Commit, Outcomes
<1>23. CASE AbortDeadlock(t) \/ Die(t)
  BY <1>9, <1>23 DEF AbortDeadlock, Die, Outcomes
<1>24. QED
  BY <1>10, <1>11, <1>12, <1>13, <1>14, <1>15, <1>16, <1>17, <1>18, <1>19, <1>20,
     <1>21, <1>22, <1>23 DEF TxnStep

\* Every step keeps the invariant.
LEMMA WritesStep == WritesInv /\ [Next]_vars => WritesInv'
<1> SUFFICES ASSUME WritesInv, [Next]_vars PROVE WritesInv'
  OBVIOUS
<1>1. CASE UNCHANGED vars
  <2>1. TypeInv'
    BY <1>1 DEF vars, WritesInv, TypeInv, TypeOK, RetriesLeft, IsBulk
  <2>2. TableInv'
    BY <1>1 DEF vars, WritesInv, TableInv, RowOK, Present
  <2>3. \A t \in Txns : SessionInv(t)'
    BY <1>1 DEF vars, WritesInv, SessionInv, IdInv, LockInv, EditInv, MoveInv,
                Dirty, RowOK, Present
  <2>4. QED
    BY <2>1, <2>2, <2>3 DEF WritesInv
<1>2. ASSUME NEW t \in Txns, TxnStep(t) \/ Die(t)
      PROVE  WritesInv'
  <2>1. TypeInv'
    BY <1>2, ReadType, WriteType DEF WritesInv, TxnStep
  <2>2. TableInv'
    BY <1>2, StepFrame, TableStep DEF WritesInv, TypeInv, TableInv, RowOK, Present
  <2>3. \A u \in Txns : SessionInv(u)'
    BY <1>2, OwnSession, OtherSession
  <2>4. QED
    BY <2>1, <2>2, <2>3 DEF WritesInv
<1>3. QED
  BY <1>1, <1>2 DEF Next

\* What a transaction has locked is still as its snapshot shows it: nobody can
\* have committed the row since.
THEOREM OwnWritesCurrent == Spec => []WritesAreCurrent
<1>1. WritesInv => WritesAreCurrent
  BY DEF WritesInv, SessionInv, LockInv, WritesAreCurrent
<1>2. QED
  BY InitWrites, WritesStep, <1>1, PTL DEF Spec

\* Every committed change of a row was computed from the row it replaces.
THEOREM NoUpdateIsLost == Spec => NoLostUpdate
<1> DEFINE Kept == \A k \in Keys : table'[k] # table[k] =>
                      \E t \in Txns : Commits(t) /\ txn[t].snap[k] = table[k]
<1>1. WritesInv /\ [Next]_vars => [Kept]_vars
  <2> SUFFICES ASSUME WritesInv, NEW t \in Txns, TxnStep(t) \/ Die(t),
                      NEW k \in Keys, table'[k] # table[k]
               PROVE  Commits(t) /\ txn[t].snap[k] = table[k]
    BY DEF Next
  <2>1. Commit(t)
    BY StepFrame DEF WritesInv, TypeInv
  <2>2. txn[t].snap[k] = table[k]
    BY <2>1, TableStep
  <2>3. Commits(t)
    <3>1. txn'[t] = Finished(t, "ok") /\ txn[t].at = "commit"
      BY <2>1 DEF Commit, Become, WritesInv, TypeInv, TypeOK
    <3>2. Finished(t, "ok").outcome = "ok"
      BY DEF Finished, NewSession
    <3>3. QED
      BY <3>1, <3>2 DEF Commits
  <2>4. QED
    BY <2>2, <2>3
<1>2. QED
  BY InitWrites, WritesStep, <1>1, PTL DEF Spec, NoLostUpdate

\* A key keeps its row and its id through every upsert, retry and race.
THEOREM IdentityIsStable == Spec => IdentityStable
<1> DEFINE Stable == \A k \in Keys : Exists(table[k]) =>
                        /\ Exists(table'[k])
                        /\ table'[k].id = table[k].id
<1>1. WritesInv /\ [Next]_vars => [Stable]_vars
  <2> SUFFICES ASSUME WritesInv, NEW t \in Txns, TxnStep(t) \/ Die(t),
                      NEW k \in Keys, Exists(table[k])
               PROVE  Exists(table'[k]) /\ table'[k].id = table[k].id
    BY DEF Next
  <2>1. Present(table[k])
    BY DEF WritesInv, TableInv, RowOK, Exists
  <2>2. table'[k].id = table[k].id
    BY <2>1, StepFrame, TableStep DEF WritesInv, TypeInv
  <2>3. Exists(table'[k])
    BY <2>1, <2>2 DEF Exists, Present, NoRow
  <2>4. QED
    BY <2>2, <2>3
<1>2. QED
  BY InitWrites, WritesStep, <1>1, PTL DEF Spec, IdentityStable
==============================================================================
