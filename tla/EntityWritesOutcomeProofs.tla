---------------------- MODULE EntityWritesOutcomeProofs -----------------------
(***************************************************************************)
(* What the outcome of a request says about the table: theorems about      *)
(* EntityWrites, for any set of keys and requests, any assignment of       *)
(* requests to workers and any max_retries.                                *)
(***************************************************************************)
EXTENDS EntityWritesProofs

------------------------------------------------------------------------------
(* Requests that did not succeed leave nothing *)

\* The requests whose data a row carries.
Writers(row) == {row.id, row.data, row.coord, row.loc} \cap Txns

\* A transaction sees its own data and that of acknowledged requests only, and
\* an acknowledged request has ended.
SeesOnlyAcknowledged(t) ==
    /\ txn[t].outcome = "ok" => txn[t].at = "done"
    /\ \A k \in Keys : \A u \in Writers(txn[t].view[k]) :
          u = t \/ txn[u].outcome = "ok"

AtomicityInv == TypeInv /\ AllOrNothing /\ \A t \in Txns : SeesOnlyAcknowledged(t)

\* A transaction puts only its own name into a row.
LEMMA WrittenRows ==
    ASSUME NEW t \in Txns
    PROVE  /\ Writers(NoRow) = {} /\ Writers(Seed) = {}
           /\ Writers(NewRow(t)) \subseteq {t}
           /\ \A row \in Row : Writers([row EXCEPT !.loc = t]) \subseteq Writers(row) \union {t}
           /\ \A edit \in Edits, row \in Row, loaded \in Row :
                 Writers(Edited(t, edit, row, loaded)) \subseteq Writers(row) \union {t}
<1> USE WritesAssumption
<1>1. Writers(NoRow) = {} /\ Writers(Seed) = {}
  BY DEF Writers, NoRow, Seed
<1>2. Coord(t) \in {t, "null"}
  BY DEF Coord
<1>3. Writers(NewRow(t)) \subseteq {t}
  BY <1>2 DEF Writers, NewRow
<1>4. \A row \in Row : Writers([row EXCEPT !.loc = t]) \subseteq Writers(row) \union {t}
  BY DEF Writers, Row
<1>5. ASSUME NEW edit \in Edits, NEW row \in Row, NEW loaded \in Row
      PROVE  Writers(Edited(t, edit, row, loaded)) \subseteq Writers(row) \union {t}
  <2>1. CASE edit = "overwrite"
    BY <2>1 DEF Edited, Row, Writers
  <2>2. CASE edit = "copy"
    <3> DEFINE new == Edited(t, edit, row, loaded)
    <3>1. /\ new.id = row.id /\ new.data = t
          /\ new.coord \in {t, "null"} /\ new.loc \in {row.loc, "null"}
      BY <1>2, <2>2 DEF Edited, Row
    <3> HIDE DEF new
    <3>2. Writers(new) \subseteq Writers(row) \union {t}
      BY <3>1 DEF Writers
    <3>3. QED
      BY <3>2 DEF new
  <2>3. CASE edit = "update"
    BY <2>3 DEF Edited, Row, Writers
  <2>4. CASE edit = "delete"
    BY <2>4 DEF Edited, Row, Writers
  <2>5. CASE edit = "clean"
    BY <2>5 DEF Edited
  <2>6. QED
    BY <2>1, <2>2, <2>3, <2>4, <2>5 DEF Edits
<1>6. QED
  BY <1>1, <1>3, <1>4, <1>5

\* What a step of t does to its own session: a request that has ended takes no
\* step, a commit acknowledges, and what its view shows comes from the view, the
\* table or itself.
OwnStep(t) ==
    /\ txn[t].at # "done"
    /\ \/ txn'[t].outcome = txn[t].outcome
       \/ txn'[t].at = "done" /\ (txn'[t].outcome = "ok" => Commit(t))
    /\ \A k \in Keys : Writers(txn'[t].view[k]) \subseteq
                          Writers(txn[t].view[k]) \union Writers(table[k]) \union {t}

\* The end of a transaction is such a step.
LEMMA EndedStep ==
    ASSUME TypeInv, NEW t \in Txns, NEW outcome \in Outcomes, txn[t].at # "done",
           Become(t, Finished(t, outcome)), outcome = "ok" => Commit(t)
    PROVE  OwnStep(t)
<1>1. txn'[t] = Finished(t, outcome)
  BY DEF Become, TypeInv, TypeOK
<1>2. /\ Finished(t, outcome).at = "done" /\ Finished(t, outcome).outcome = outcome
      /\ \A k \in Keys : Finished(t, outcome).view[k] = NoRow
  BY DEF Finished, NewSession
<1>3. QED
  BY <1>1, <1>2, WrittenRows DEF OwnStep

\* So is a step that leaves the view and the outcome alone, or writes one row.
LEMMA GoneOn ==
    ASSUME TypeInv, NEW t \in Txns, NEW n, Become(t, n), txn[t].at # "done",
           n.outcome = txn[t].outcome,
           \A k \in Keys : Writers(n.view[k]) \subseteq
                          Writers(txn[t].view[k]) \union Writers(table[k]) \union {t}
    PROVE  OwnStep(t)
BY DEF OwnStep, Become, TypeInv, TypeOK

\* So is a write of an existing row.
LEMMA RowWritten ==
    ASSUME TypeInv, NEW t \in Txns, NEW k \in Keys, NEW row, NEW next,
           WriteRow(t, k, row, next), txn[t].at # "done",
           next.outcome = txn[t].outcome, next.view = txn[t].view,
           DOMAIN next = DOMAIN txn[t],
           Writers(row) \subseteq Writers(txn[t].view[k]) \union {t}
    PROVE  OwnStep(t)
<1>1. txn[t].view \in [Keys -> Row] /\ txn[t] \in Session
  BY DEF TypeInv, TypeOK, Session
<1>2. CASE Become(t, next)
  BY <1>2, GoneOn
<1>3. CASE Become(t, [next EXCEPT !.view[k] = row])
  <2> DEFINE n == [next EXCEPT !.view[k] = row]
  <2>1. DOMAIN next = {"at", "snap", "view", "dirty", "pending", "moves", "retries",
                       "outcome"}
    BY <1>1 DEF Session
  <2>2. /\ n.outcome = txn[t].outcome
        /\ \A j \in Keys : n.view[j] = IF j = k THEN row ELSE txn[t].view[j]
    BY <1>1, <2>1
  <2>3. Become(t, n)
    BY <1>3
  <2> HIDE DEF n
  <2>4. QED
    BY <2>2, <2>3, GoneOn
<1>4. CASE Abort(t, "failed")
  BY <1>4, EndedStep DEF Abort, Outcomes
<1>5. QED
  BY <1>2, <1>3, <1>4 DEF WriteRow

\* Every step of t is one.
LEMMA OwnSteps ==
    ASSUME TypeInv, NEW t \in Txns, TxnStep(t) \/ Die(t)
    PROVE  OwnStep(t)
<1> DEFINE s == txn[t]
<1>1. /\ s \in Session /\ table \in [Keys -> Row]
      /\ s.view \in [Keys -> Row] /\ s.snap \in [Keys -> Row]
      /\ s.dirty \in [Keys -> Edits]
  BY DEF TypeInv, TypeOK, Session
<1>2. ASSUME NEW outcome \in Outcomes \ {"ok"}, Abort(t, outcome), s.at # "done"
      PROVE  OwnStep(t)
  BY <1>2, EndedStep DEF Abort
<1>3. CASE Begin(t)
  <2> DEFINE n == [s EXCEPT !.at = IF IsBulk(t) THEN "advisory" ELSE "select",
                            !.snap = table, !.view = table]
  <2>1. Become(t, n) /\ s.at # "done"
    BY <1>3 DEF Begin
  <2>2. n.outcome = s.outcome /\ n.view = table
    BY <1>1 DEF Session
  <2> HIDE DEF n
  <2>3. QED
    BY <2>1, <2>2, GoneOn
<1>4. ASSUME NEW n, Become(t, n), n.outcome = s.outcome, n.view = s.view, s.at # "done"
      PROVE  OwnStep(t)
  BY <1>4, GoneOn
<1>5. CASE LockAdvisory(t)
  BY <1>1, <1>4, <1>5 DEF LockAdvisory, Session
<1>6. CASE SelectBulk(t)
  BY <1>1, <1>4, <1>6 DEF SelectBulk, Session
<1>7. CASE SelectCreate(t)
  BY <1>1, <1>4, <1>7 DEF SelectCreate, Session
<1>8. CASE SelectUpdate(t)
  BY <1>1, <1>2, <1>4, <1>8 DEF SelectUpdate, Session, Outcomes
<1>9. CASE SelectDelete(t)
  BY <1>1, <1>2, <1>4, <1>9 DEF SelectDelete, Session, Outcomes
<1>10. CASE Recheck(t)
  BY <1>1, <1>2, <1>4, <1>10 DEF Recheck, Session, Outcomes
<1>11. CASE EndFlush(t)
  BY <1>1, <1>4, <1>11 DEF EndFlush, Session
<1>12. CASE EndLocate(t)
  BY <1>1, <1>4, <1>12 DEF EndLocate, Session
<1>13. ASSUME NEW k \in Keys, FlushUpdate(t, k)
       PROVE  OwnStep(t)
  <2> DEFINE row  == Edited(t, s.dirty[k], s.view[k], s.snap[k])
             next == [s EXCEPT !.dirty[k] = "clean"]
  <2>1. WriteRow(t, k, row, next) /\ s.at # "done"
    BY <1>13 DEF FlushUpdate
  <2>2. Writers(row) \subseteq Writers(s.view[k]) \union {t}
    BY <1>1, WrittenRows
  <2>3. next.outcome = s.outcome /\ next.view = s.view /\ DOMAIN next = DOMAIN s
    BY <1>1 DEF Session
  <2> HIDE DEF row, next
  <2>4. QED
    BY <2>1, <2>2, <2>3, RowWritten
<1>14. ASSUME NEW k \in Keys, SetLocation(t, k)
       PROVE  OwnStep(t)
  <2> DEFINE row  == [s.view[k] EXCEPT !.loc = t]
             next == [s EXCEPT !.moves = @ \ {k}]
  <2>1. WriteRow(t, k, row, next) /\ s.at # "done"
    BY <1>14 DEF SetLocation
  <2>2. Writers(row) \subseteq Writers(s.view[k]) \union {t}
    <3>1. s.view[k] \in Row
      BY <1>1
    <3>2. \A r \in Row : Writers([r EXCEPT !.loc = t]) \subseteq Writers(r) \union {t}
      BY WrittenRows
    <3>3. QED
      BY <3>1, <3>2
  <2>3. next.outcome = s.outcome /\ next.view = s.view /\ DOMAIN next = DOMAIN s
    BY <1>1 DEF Session
  <2> HIDE DEF row, next
  <2>4. QED
    BY <2>1, <2>2, <2>3, RowWritten
<1>15. ASSUME NEW k \in Keys, FlushInsert(t, k)
       PROVE  OwnStep(t)
  <2>1. s.at # "done"
    BY <1>15 DEF FlushInsert
  <2>2. CASE Conflict(t)
    BY <1>1, <1>2, <1>4, <2>1, <2>2 DEF Conflict, Session, Outcomes
  <2>3. CASE Become(t, [s EXCEPT !.view[k] = NewRow(t)])
    <3> DEFINE n == [s EXCEPT !.view[k] = NewRow(t)]
    <3>1. /\ n.outcome = s.outcome
          /\ \A j \in Keys : n.view[j] = IF j = k THEN NewRow(t) ELSE s.view[j]
      BY <1>1 DEF Session
    <3>2. Become(t, n) /\ Writers(NewRow(t)) \subseteq {t}
      BY <2>3, WrittenRows
    <3> HIDE DEF n
    <3>3. QED
      BY <2>1, <3>1, <3>2, GoneOn
  <2>4. QED
    BY <1>15, <2>2, <2>3 DEF FlushInsert
<1>16. CASE Commit(t)
  BY <1>16, EndedStep DEF Commit, Outcomes
<1>17. CASE AbortDeadlock(t)
  <2>1. s.at # "done"
    <3>1. s.at = "done" => Wanted(t) = {}
      BY DEF Wanted
    <3>2. s.at = "done" => \A u \in {} \union {t}, v \in Holders : WaitsFor(u, v) => v \in {}
      BY <3>1 DEF WaitsFor
    <3>3. {} \in SUBSET Holders
      OBVIOUS
    <3>4. QED
      BY <1>17, <3>2, <3>3 DEF AbortDeadlock, Deadlocked
  <2>2. QED
    BY <1>2, <1>17, <2>1 DEF AbortDeadlock, Outcomes
<1>18. CASE Die(t)
  BY <1>2, <1>18 DEF Die, Outcomes
<1>19. QED
  BY <1>3, <1>5, <1>6, <1>7, <1>8, <1>9, <1>10, <1>11, <1>12, <1>13, <1>14, <1>15,
     <1>16, <1>17, <1>18 DEF TxnStep

LEMMA AtomicityInvariant == Spec => []AtomicityInv
<1>1. Init => AtomicityInv
  <2> SUFFICES ASSUME Init PROVE AtomicityInv
    OBVIOUS
  <2>1. \A k \in Keys : table[k] = Seed \/ table[k] = NoRow
    BY DEF Init
  <2>2. AllOrNothing
    BY <2>1, WritesAssumption DEF AllOrNothing, Seed, NoRow
  <2>3. ASSUME NEW t \in Txns
        PROVE  SeesOnlyAcknowledged(t)
    <3>1. txn[t].outcome = "none" /\ \A k \in Keys : txn[t].view[k] = NoRow
      BY DEF Init, NewSession
    <3>2. QED
      BY <3>1, WrittenRows DEF SeesOnlyAcknowledged
  <2>4. QED
    BY <2>2, <2>3, InitType DEF AtomicityInv
<1>2. AtomicityInv /\ [Next]_vars => AtomicityInv'
  <2> SUFFICES ASSUME AtomicityInv, [Next]_vars PROVE AtomicityInv'
    OBVIOUS
  <2>1. CASE UNCHANGED vars
    BY <2>1 DEF vars, AtomicityInv, TypeInv, TypeOK, RetriesLeft, IsBulk, AllOrNothing,
                SeesOnlyAcknowledged, Writers
  <2>2. ASSUME NEW t \in Txns, TxnStep(t) \/ Die(t)
        PROVE  AtomicityInv'
    <3>1. TypeInv /\ TypeInv' /\ OwnStep(t)
      BY <2>2, ReadType, WriteType, OwnSteps DEF AtomicityInv, TxnStep
    <3>2. \A u \in Txns \ {t} : txn'[u] = txn[u]
      BY <2>2, <3>1, StepFrame DEF TypeInv
    <3>3. \A u \in Txns : txn[u].outcome = "ok" => txn'[u].outcome = "ok"
      BY <3>1, <3>2 DEF AtomicityInv, SeesOnlyAcknowledged, OwnStep
    <3>4. \A k \in Keys : \A u \in Writers(table[k]) : txn[u].outcome = "ok"
      BY DEF AtomicityInv, AllOrNothing, Writers
    <3>5. \A k \in Keys : \A u \in Writers(table'[k]) : txn'[u].outcome = "ok"
      <4>1. CASE UNCHANGED table
        BY <3>3, <3>4, <4>1 DEF Writers
      <4>2. CASE Commit(t)
        <5>1. txn'[t].outcome = "ok"
          <6>1. txn'[t] = Finished(t, "ok")
            BY <3>1, <4>2 DEF Commit, Become, TypeInv, TypeOK
          <6>2. QED
            BY <6>1 DEF Finished, NewSession
        <5>2. \A k \in Keys : table'[k] = txn[t].view[k] \/ table'[k] = table[k]
          BY <4>2 DEF Commit
        <5>3. \A k \in Keys : \A u \in Writers(txn[t].view[k]) :
                 u = t \/ txn[u].outcome = "ok"
          BY DEF AtomicityInv, SeesOnlyAcknowledged
        <5>4. \A row : Writers(row) \subseteq Txns
          BY DEF Writers
        <5>5. QED
          BY <3>3, <3>4, <5>1, <5>2, <5>3, <5>4
      <4>3. QED
        BY <2>2, <3>1, <4>1, <4>2, StepFrame DEF TypeInv
    <3>6. AllOrNothing'
      BY <3>5 DEF AllOrNothing, Writers
    <3>7. \A row : Writers(row) \subseteq Txns
      BY DEF Writers
    <3>8. ASSUME NEW u \in Txns
          PROVE  SeesOnlyAcknowledged(u)'
      <4>1. SeesOnlyAcknowledged(u)
        BY DEF AtomicityInv
      <4>2. CASE u # t
        <5>1. txn'[u] = txn[u]
          BY <3>2, <4>2
        <5>2. QED
          BY <3>3, <4>1, <5>1 DEF SeesOnlyAcknowledged, Writers
      <4>3. CASE u = t
        <5>1. txn'[t].outcome = "ok" => txn'[t].at = "done"
          BY <3>1, <4>1, <4>3 DEF OwnStep, SeesOnlyAcknowledged
        <5>2. \A k \in Keys : \A v \in Writers(txn'[t].view[k]) :
                 v = t \/ txn'[v].outcome = "ok"
          BY <3>1, <3>3, <3>4, <3>7, <4>1, <4>3 DEF OwnStep, SeesOnlyAcknowledged
        <5>3. QED
          BY <4>3, <5>1, <5>2 DEF SeesOnlyAcknowledged, Writers
      <4>4. QED
        BY <4>2, <4>3
    <3>9. QED
      BY <3>1, <3>6, <3>8 DEF AtomicityInv
  <2>3. QED
    BY <2>1, <2>2 DEF Next
<1>3. QED
  BY <1>1, <1>2, PTL DEF Spec

\* A request that was refused, failed or died leaves nothing in the table, in
\* a row it shares with requests that succeeded neither.
THEOREM RequestsAreAtomic == Spec => []AllOrNothing
<1>1. AtomicityInv => AllOrNothing
  BY DEF AtomicityInv
<1>2. QED
  BY <1>1, AtomicityInvariant, PTL

------------------------------------------------------------------------------
(* Retries find what they ran into *)

\* A bulk that starts over, or is about to look again, has a pending entity
\* whose key is taken: in the table first, then in its new snapshot.
HitInv(t) ==
    /\ txn[t].at = "start" => txn[t].retries = 0
    /\ txn[t].at \in {"restart", "recheck"} => txn[t].retries > 0
    /\ txn[t].at = "restart" => \E k \in txn[t].pending : Present(table[k])
    /\ txn[t].at = "recheck" \/ (txn[t].at = "advisory" /\ txn[t].retries > 0)
          => \E k \in txn[t].pending : Present(txn[t].snap[k])

Hits == \A t \in Txns : HitInv(t)

RetryPhases == {"start", "restart", "advisory", "recheck"}

\* Where a step leads that is none of those of a retry.
LEMMA PlainStep ==
    ASSUME WritesInv, NEW t \in Txns, TxnStep(t) \/ Die(t),
           ~Begin(t), ~LockAdvisory(t), \A k \in Keys : ~(FlushInsert(t, k) /\ Conflict(t))
    PROVE  txn'[t].at \notin RetryPhases
<1> DEFINE s == txn[t]
<1>1. s \in Session /\ txn \in [Txns -> Session] /\ TypeOK
  BY DEF WritesInv, TypeInv, TypeOK
<1>2. ASSUME NEW n, Become(t, n), n.at \notin RetryPhases
      PROVE  txn'[t].at \notin RetryPhases
  BY <1>1, <1>2 DEF Become
<1>3. ASSUME NEW outcome \in Outcomes, Abort(t, outcome)
      PROVE  txn'[t].at \notin RetryPhases
  BY <1>1, <1>2, <1>3, SessionTypes DEF Abort, RetryPhases
<1>4. ASSUME NEW k \in Keys, NEW row, NEW next, WriteRow(t, k, row, next),
             DOMAIN next = DOMAIN s, next.at \notin RetryPhases
      PROVE  txn'[t].at \notin RetryPhases
  <2>1. DOMAIN next = {"at", "snap", "view", "dirty", "pending", "moves", "retries",
                       "outcome"}
    BY <1>1, <1>4 DEF Session
  <2>2. [next EXCEPT !.view[k] = row].at = next.at
    BY <2>1
  <2>3. CASE Become(t, next)
    BY <1>2, <1>4, <2>3
  <2>4. CASE Become(t, [next EXCEPT !.view[k] = row])
    BY <1>2, <1>4, <2>2, <2>4
  <2>5. CASE Abort(t, "failed")
    BY <1>3, <2>5 DEF Outcomes
  <2>6. QED
    BY <1>4, <2>3, <2>4, <2>5 DEF WriteRow
<1>5. CASE SelectBulk(t) \/ SelectCreate(t)
  BY <1>1, <1>2, <1>5 DEF SelectBulk, SelectCreate, Session, RetryPhases
<1>6. CASE SelectUpdate(t) \/ SelectDelete(t)
  BY <1>1, <1>2, <1>3, <1>6 DEF SelectUpdate, SelectDelete, Session, RetryPhases, Outcomes
<1>7. CASE Recheck(t)
  BY <1>1, <1>2, <1>3, <1>7 DEF Recheck, Session, RetryPhases, Outcomes
<1>8. CASE EndFlush(t) \/ EndLocate(t)
  BY <1>1, <1>2, <1>8 DEF EndFlush, EndLocate, Session, RetryPhases
<1>9. ASSUME NEW k \in Keys, FlushUpdate(t, k)
      PROVE  txn'[t].at \notin RetryPhases
  <2> DEFINE row  == Edited(t, s.dirty[k], s.view[k], s.snap[k])
             next == [s EXCEPT !.dirty[k] = "clean"]
  <2>1. WriteRow(t, k, row, next) /\ s.at \in {"flush", "commit"}
    BY <1>9 DEF FlushUpdate
  <2>2. next.at = s.at /\ DOMAIN next = DOMAIN s
    BY <1>1 DEF Session
  <2> HIDE DEF row, next
  <2>3. QED
    BY <1>4, <2>1, <2>2 DEF RetryPhases
<1>10. ASSUME NEW k \in Keys, SetLocation(t, k)
       PROVE  txn'[t].at \notin RetryPhases
  <2> DEFINE row  == [s.view[k] EXCEPT !.loc = t]
             next == [s EXCEPT !.moves = @ \ {k}]
  <2>1. WriteRow(t, k, row, next) /\ s.at = "locate"
    BY <1>10 DEF SetLocation
  <2>2. next.at = s.at /\ DOMAIN next = DOMAIN s
    BY <1>1 DEF Session
  <2> HIDE DEF row, next
  <2>3. QED
    BY <1>4, <2>1, <2>2 DEF RetryPhases
<1>11. ASSUME NEW k \in Keys, FlushInsert(t, k)
       PROVE  txn'[t].at \notin RetryPhases
  <2>1. Become(t, [s EXCEPT !.view[k] = NewRow(t)]) /\ s.at = "flush"
    BY <1>11 DEF FlushInsert
  <2>2. [s EXCEPT !.view[k] = NewRow(t)].at = s.at
    BY <1>1 DEF Session
  <2>3. QED
    BY <1>2, <2>1, <2>2 DEF RetryPhases
<1>12. CASE Commit(t)
  BY <1>1, <1>2, <1>12, SessionTypes DEF Commit, RetryPhases, Outcomes
<1>13. CASE AbortDeadlock(t) \/ Die(t)
  BY <1>3, <1>13 DEF AbortDeadlock, Die, Outcomes
<1>14. QED
  BY <1>5, <1>6, <1>7, <1>8, <1>9, <1>10, <1>11, <1>12, <1>13 DEF TxnStep

LEMMA RetryInvariant == Spec => [](WritesInv /\ Hits)
<1>1. Init => Hits
  BY DEF Init, Hits, HitInv, NewSession
<1>2. WritesInv /\ Hits /\ [Next]_vars => Hits'
  <2> SUFFICES ASSUME WritesInv, Hits, [Next]_vars PROVE Hits'
    OBVIOUS
  <2>1. CASE UNCHANGED vars
    BY <2>1 DEF vars, Hits, HitInv, Present
  <2>2. ASSUME NEW t \in Txns, TxnStep(t) \/ Die(t)
        PROVE  Hits'
    <3> DEFINE s == txn[t]
    <3>1. /\ TypeOK /\ s \in Session /\ txn \in [Txns -> Session]
          /\ s.pending \in SUBSET Keys /\ s.retries \in Nat /\ HitInv(t)
      BY WritesAssumption DEF WritesInv, TypeInv, TypeOK, Session, Hits
    <3>2. \A k \in Keys : Present(table[k]) => table'[k].id = table[k].id
      BY <2>2, <3>1, StepFrame, TableStep
    <3>3. ASSUME NEW u \in Txns, u # t
          PROVE  HitInv(u)'
      <4>1. txn'[u] = txn[u] /\ txn[u].pending \in SUBSET Keys /\ HitInv(u)
        BY <2>2, <3>1, <3>3, StepFrame DEF TypeOK, Session, Hits
      <4>2. QED
        BY <3>2, <4>1 DEF HitInv, Present
    <3>4. HitInv(t)'
      <4>1. CASE Begin(t)
        <5> DEFINE n == [s EXCEPT !.at = IF IsBulk(t) THEN "advisory" ELSE "select",
                                  !.snap = table, !.view = table]
        <5>1. txn'[t] = n /\ s.at \in {"start", "restart"}
          BY <3>1, <4>1 DEF Begin, Become
        <5>2. /\ n.snap = table /\ n.pending = s.pending /\ n.retries = s.retries
              /\ n.at \in {"advisory", "select"}
          BY <3>1 DEF Session
        <5> HIDE DEF n
        <5>3. QED
          BY <3>1, <5>1, <5>2 DEF HitInv, Present
      <4>2. CASE LockAdvisory(t)
        <5> DEFINE n == [s EXCEPT !.at = IF s.retries > 0 THEN "recheck" ELSE "select"]
        <5>1. txn'[t] = n /\ s.at = "advisory"
          BY <3>1, <4>2 DEF LockAdvisory, Become
        <5>2. /\ n.snap = s.snap /\ n.pending = s.pending /\ n.retries = s.retries
              /\ n.at = IF s.retries > 0 THEN "recheck" ELSE "select"
          BY <3>1 DEF Session
        <5> HIDE DEF n
        <5>3. QED
          BY <3>1, <5>1, <5>2 DEF HitInv, Present
      <4>3. ASSUME NEW k \in Keys, FlushInsert(t, k), Conflict(t)
            PROVE  HitInv(t)'
        <5>1. k \in s.pending
          BY <4>3 DEF FlushInsert
        <5>2. CASE Exists(table[k]) /\ IsBulk(t)
          <6> DEFINE n == [s EXCEPT !.at = "restart", !.dirty = AllClean,
                                    !.retries = s.retries + 1]
          <6>1. txn'[t] = n /\ table' = table
            BY <3>1, <4>3, <5>2 DEF Conflict, Become
          <6>2. n.at = "restart" /\ n.pending = s.pending /\ n.retries = s.retries + 1
            BY <3>1 DEF Session
          <6>3. Present(table[k])
            BY <5>2 DEF WritesInv, TableInv, RowOK, Exists
          <6> HIDE DEF n
          <6>4. QED
            BY <3>1, <5>1, <6>1, <6>2, <6>3 DEF HitInv, Present
        <5>3. CASE ~IsBulk(t)
          <6>1. txn'[t] = Finished(t, "exists")
            BY <3>1, <4>3, <5>3 DEF Conflict, Abort, Become
          <6>2. Finished(t, "exists").at = "done"
            BY <3>1, SessionTypes DEF Outcomes
          <6>3. QED
            BY <6>1, <6>2 DEF HitInv
        <5>4. CASE ~Exists(table[k]) /\ IsBulk(t)
          <6>1. locked'[k] = t /\ locked' = [j \in Keys |-> IF locked[j] = t THEN "nobody"
                                                           ELSE locked[j]]
            BY <3>1, <4>3, <5>4 DEF FlushInsert, Conflict, Unlock, TypeOK
          <6>2. locked'[k] # t
            BY <6>1, WritesAssumption
          <6>3. QED
            BY <6>1, <6>2
        <5>5. QED
          BY <5>2, <5>3, <5>4
      <4>4. CASE txn'[t].at \notin RetryPhases
        BY <4>4 DEF HitInv, RetryPhases
      <4>5. QED
        BY <2>2, <4>1, <4>2, <4>3, <4>4, PlainStep
    <3>5. QED
      BY <3>3, <3>4 DEF Hits
  <2>3. QED
    BY <2>1, <2>2 DEF Next
<1>3. QED
  BY InitWrites, WritesStep, <1>1, <1>2, PTL DEF Spec

\* An IntegrityError is never in vain: the recheck finds a row that the flush
\* ran into.
THEOREM RetriesMakeProgress == Spec => RetriesProgress
<1> DEFINE Progress == \A t \in Txns : txn[t].at = "recheck" /\ txn'[t].at # "recheck" =>
                         \/ txn'[t].outcome = "died"
                         \/ txn[t].pending \cap Found(t) # {}
<1>1. WritesInv /\ Hits => [Progress]_vars
  <2> SUFFICES ASSUME WritesInv, NEW t \in Txns, HitInv(t), txn[t].at = "recheck"
               PROVE  txn[t].pending \cap Found(t) # {}
    BY DEF Hits
  <2>1. PICK k \in txn[t].pending : Present(txn[t].snap[k])
    BY DEF HitInv
  <2>2. k \in Keys
    BY DEF WritesInv, TypeInv, TypeOK, Session
  <2>3. txn[t].snap[k] # NoRow
    BY <2>1 DEF Present, NoRow
  <2>4. QED
    BY <2>2, <2>3 DEF Found, Exists
<1>2. QED
  BY <1>1, RetryInvariant, PTL DEF Spec, RetriesProgress

------------------------------------------------------------------------------
(* What a request makes of the rows it read *)

\* The phases in which a transaction writes.
Writing == {"flush", "locate", "commit"}

\* The row that k becomes when t goes on to its commit: what is still to come of
\* its edit, its INSERT and its move, in the order of the phases.  Writing steps
\* carry out a part of it, and leave it as it is.
Flushed(t, k, row) == Edited(t, txn[t].dirty[k], row, txn[t].snap[k])
Placed(t, ks, k, row) == IF k \in ks THEN [row EXCEPT !.loc = t] ELSE row
Outlook(t, k) ==
    CASE txn[t].at = "flush" ->
           Placed(t, txn[t].moves \union LocatedKeys(t, txn[t].pending), k,
                  IF k \in txn[t].pending /\ locked[k] # t
                  THEN NewRow(t) ELSE Flushed(t, k, txn[t].view[k]))
      [] txn[t].at = "locate" ->
           Flushed(t, k, Placed(t, txn[t].moves, k, txn[t].view[k]))
      [] OTHER -> Flushed(t, k, txn[t].view[k])

\* The new row of k is the one that RowStore wants of it.
Old(t) == {k \in Target[t] : txn[t].snap[k] # NoRow}
BulkPlanned(t, copied) ==
    \A k \in Target[t] :
       Outlook(t, k) = IF k \in copied
                       THEN IF Old(t) = Target[t] THEN Store!CopiedLate(t, txn[t].snap[k])
                                                  ELSE Store!Copied(t, txn[t].snap[k])
                       ELSE IF k \in Old(t) THEN Store!Moved(t, txn[t].snap[k])
                       ELSE Store!Created(t)
Planned(t) ==
    /\ \A k \in Keys \ Target[t] : Outlook(t, k) = txn[t].snap[k]
    /\ Op[t] = "create" => \A k \in Target[t] : Outlook(t, k) = Store!Created(t)
    /\ Op[t] = "update" => /\ Old(t) = Target[t]
                           /\ \A k \in Target[t] :
                                 Outlook(t, k) = Store!Updated(t, txn[t].snap[k])
    /\ Op[t] = "delete" => /\ Old(t) = Target[t]
                           /\ \A k \in Target[t] :
                                 Outlook(t, k) = Store!Deleted(txn[t].snap[k])
    /\ Op[t] = "bulk" /\ txn[t].retries = 0 =>
          \A k \in Target[t] :
             Outlook(t, k) = IF k \in Old(t) THEN Store!Overwritten(t, txn[t].snap[k])
                                             ELSE Store!Created(t)
    /\ Op[t] = "bulk" /\ txn[t].retries > 0 =>
          \E copied \in (SUBSET Old(t)) \ {{}} : BulkPlanned(t, copied)

\* What a writing transaction has changed it has locked, and what it has still to
\* insert was not there.
Inserting(t) ==
    /\ \A k \in Keys : locked[k] # t => txn[t].view[k] = txn[t].snap[k]
    /\ \A k \in txn[t].pending : /\ txn[t].dirty[k] = "clean"
                                 /\ locked[k] = t => txn[t].snap[k] = NoRow
                                 /\ locked[k] # t => txn[t].at = "flush"
    /\ Op[t] = "create" => txn[t].pending = Target[t]
    /\ Op[t] \in {"update", "delete"} => txn[t].pending = {}

\* Before it writes, a transaction has no edits, and shows what it read; a bulk
\* that starts over brings its new entities and the moves of the other rows.
Prepared(t) ==
    LET s == txn[t] IN
    /\ s.at \in {"restart", "advisory", "recheck"} => IsBulk(t)
    /\ s.at \notin Writing => \A k \in Keys : s.dirty[k] = "clean"
    /\ s.at \in {"advisory", "select", "recheck"} => s.view = s.snap
    /\ s.at \in {"start", "select"} \/ (s.at = "advisory" /\ s.retries = 0)
          => s.retries = 0 /\ s.pending = {} /\ s.moves = {}
    /\ IsBulk(t) /\ (s.at \in {"flush", "restart", "recheck"} \/ (s.at = "advisory" /\ s.retries > 0))
          => /\ s.pending \subseteq Target[t]
             /\ s.moves = LocatedKeys(t, Target[t] \ s.pending)
             /\ \A k \in Target[t] \ s.pending :
                   Present(IF s.at = "restart" THEN table[k] ELSE s.snap[k])
    /\ \A k \in Keys : t \notin Writers(s.snap[k])

PlanInv(t) == Prepared(t) /\ (txn[t].at \in Writing => Inserting(t) /\ Planned(t))
Plans == \A t \in Txns : PlanInv(t)

\* A step of t takes no lock from another transaction.
LEMMA LocksKept ==
    ASSUME TypeOK, NEW t \in Txns, NEW u \in Txns, u # t, TxnStep(t) \/ Die(t),
           NEW k \in Keys, locked[k] = u
    PROVE  locked'[k] = u
<1>1. \/ UNCHANGED locked \/ Unlock(t)
      \/ \E j \in Keys : Free(t, j) /\ locked' = [locked EXCEPT ![j] = t]
  BY DEF TxnStep, Die, Begin, LockAdvisory, SelectBulk, SelectCreate, SelectUpdate,
         SelectDelete, Recheck, FlushUpdate, FlushInsert, SetLocation, EndFlush,
         EndLocate, Commit, AbortDeadlock, Abort, Conflict, WriteRow
<1>2. u # "nobody"
  BY WritesAssumption
<1>3. QED
  BY <1>1, <1>2 DEF Unlock, Free, TypeOK

\* The step of another transaction.
LEMMA OtherPlan ==
    ASSUME WritesInv, Plans, NEW t \in Txns, TxnStep(t) \/ Die(t), NEW u \in Txns, u # t
    PROVE  PlanInv(u)'
<1>1. TypeOK /\ Target[u] \in SUBSET Keys /\ txn[u].pending \in SUBSET Keys
  BY WritesAssumption DEF WritesInv, TypeInv, TypeOK, Session
<1>2. txn'[u] = txn[u] /\ \A k \in Keys : locked'[k] = u <=> locked[k] = u
  BY <1>1, StepFrame, LocksKept
<1>3. \A k \in Keys : Present(table[k]) => Present(table'[k])
  BY StepFrame, <1>1, TableStep DEF Present
<1>4. PlanInv(u)
  BY DEF Plans
<1>5. \A k \in Keys : Outlook(u, k)' = Outlook(u, k)
  BY <1>2 DEF Outlook, Flushed
<1>6. Planned(u) => Planned(u)'
  <2>1. Old(u)' = Old(u)
    BY <1>2 DEF Old
  <2>2. \A copied : BulkPlanned(u, copied) => BulkPlanned(u, copied)'
    BY <1>1, <1>2, <1>5, <2>1 DEF BulkPlanned
  <2>3. QED
    BY <1>1, <1>2, <1>5, <2>1, <2>2 DEF Planned
<1>7. Inserting(u) => Inserting(u)'
  BY <1>1, <1>2 DEF Inserting
<1>8. Prepared(u)'
  <2>1. Prepared(u)
    BY <1>4 DEF PlanInv
  <2>2. QED
    BY <1>1, <1>2, <1>3, <2>1 DEF Prepared, Writers, IsBulk, Present
<1>9. QED
  BY <1>2, <1>4, <1>6, <1>7, <1>8 DEF PlanInv

\* The session of a request that has ended.
LEMMA EndedPlan ==
    ASSUME TypeOK, NEW t \in Txns, NEW outcome \in Outcomes, Become(t, Finished(t, outcome))
    PROVE  PlanInv(t)'
<1> DEFINE n == Finished(t, outcome)
<1>1. /\ n.at = "done" /\ \A k \in Keys : n.dirty[k] = "clean" /\ n.snap[k] = NoRow
  BY DEF Finished, NewSession, AllClean
<1>2. txn'[t] = n
  BY DEF Become, TypeOK
<1> HIDE DEF n
<1>3. Prepared(t)'
  BY <1>1, <1>2, WrittenRows DEF Prepared, Writing
<1>4. QED
  BY <1>1, <1>2, <1>3 DEF PlanInv, Writing

\* A writing step that leaves what is to become of the rows.
LEMMA KeepsPlan ==
    ASSUME WritesInv, NEW t \in Txns, PlanInv(t), NEW n, txn'[t] = n,
           txn[t].at \in Writing, n.at \in Writing,
           n.at = "flush" => txn[t].at = "flush" /\ n.moves = txn[t].moves,
           n.snap = txn[t].snap, n.retries = txn[t].retries, n.pending = txn[t].pending,
           \A k \in Keys : Outlook(t, k)' = Outlook(t, k),
           Inserting(t)'
    PROVE  PlanInv(t)'
<1>1. Target[t] \in SUBSET Keys /\ txn[t].pending \in SUBSET Keys
  BY WritesAssumption DEF WritesInv, TypeInv, TypeOK, Session
<1>2. Planned(t) /\ Prepared(t)
  BY DEF PlanInv
<1>3. Old(t)' = Old(t)
  BY DEF Old
<1>4. \A copied : BulkPlanned(t, copied) => BulkPlanned(t, copied)'
  BY <1>1, <1>3 DEF BulkPlanned
<1>5. Planned(t)'
  BY <1>1, <1>2, <1>3, <1>4 DEF Planned
<1>6. Prepared(t)'
  BY <1>2 DEF Prepared, Writing, Writers, IsBulk, Present
<1>7. QED
  BY <1>5, <1>6 DEF PlanInv

\* What writing an existing row does, unless it fails.
Rewritten(t, k, row, n) ==
    /\ txn'[t] = n
    /\ \A j \in Keys : locked'[j] = t <=> locked[j] = t \/ (j = k /\ row # txn[t].view[k])

LEMMA RowWrite ==
    ASSUME TypeOK, NEW t \in Txns, NEW k \in Keys, NEW row, NEW next \in Session,
           next.view = txn[t].view, WriteRow(t, k, row, next)
    PROVE  Abort(t, "failed") \/ Rewritten(t, k, row, [next EXCEPT !.view[k] = row])
<1>1. next.view \in [Keys -> Row] /\ locked \in [Keys -> Owners]
  BY DEF TypeOK, Session
<1>2. CASE row = txn[t].view[k] /\ Become(t, next) /\ UNCHANGED locked
  <2>1. [next.view EXCEPT ![k] = row] = next.view
    BY <1>1, <1>2
  <2>2. [next EXCEPT !.view[k] = row] = next
    BY <2>1 DEF Session
  <2>3. QED
    BY <1>2, <2>2 DEF Become, TypeOK, Rewritten
<1>3. CASE /\ row # txn[t].view[k] /\ Become(t, [next EXCEPT !.view[k] = row])
           /\ locked' = [locked EXCEPT ![k] = t]
  BY <1>1, <1>3 DEF Become, TypeOK, Rewritten
<1>4. QED
  BY <1>2, <1>3 DEF WriteRow

\* Writing steps keep the plan.
LEMMA WritingPlan ==
    ASSUME WritesInv, Plans, NEW t \in Txns, txn[t].at \in Writing,
           \/ \E k \in Keys : FlushUpdate(t, k) \/ SetLocation(t, k)
           \/ \E k \in Keys : FlushInsert(t, k) /\ ~Conflict(t)
           \/ EndFlush(t) \/ EndLocate(t)
    PROVE  PlanInv(t)'
<1> DEFINE s == txn[t]
<1>1. /\ TypeOK /\ s \in Session /\ txn \in [Txns -> Session]
      /\ s.view \in [Keys -> Row] /\ s.snap \in [Keys -> Row] /\ s.dirty \in [Keys -> Edits]
      /\ s.moves \in SUBSET Keys /\ s.pending \in SUBSET Keys
      /\ Target[t] \in SUBSET Keys /\ locked \in [Keys -> Owners]
  BY WritesAssumption DEF WritesInv, TypeInv, TypeOK, Session
<1>2. PlanInv(t) /\ Inserting(t) /\ SessionInv(t)
  BY DEF Plans, PlanInv, WritesInv
<1>3. \A row, loaded : Edited(t, "clean", row, loaded) = row
  BY DEF Edited
<1>4. Abort(t, "failed") => PlanInv(t)'
  BY <1>1, EndedPlan DEF Abort, Outcomes
<1>5. ASSUME NEW k \in Keys, FlushUpdate(t, k)
      PROVE  PlanInv(t)'
  <2> DEFINE row  == Flushed(t, k, s.view[k])
             next == [s EXCEPT !.dirty[k] = "clean"]
             n    == [next EXCEPT !.view[k] = row]
  <2>1. WriteRow(t, k, row, next) /\ s.at \in {"flush", "commit"} /\ s.dirty[k] # "clean"
    BY <1>5 DEF FlushUpdate, Dirty, Flushed
  <2>2. /\ next \in Session /\ next.view = s.view /\ next.at = s.at /\ next.snap = s.snap
        /\ next.retries = s.retries /\ next.pending = s.pending /\ next.moves = s.moves
        /\ \A j \in Keys : next.dirty[j] = IF j = k THEN "clean" ELSE s.dirty[j]
    BY <1>1 DEF Session, Edits
  <2> HIDE DEF row, next
  <2>3. /\ n.dirty = next.dirty /\ n.at = s.at /\ n.pending = s.pending /\ n.moves = s.moves
        /\ n.snap = s.snap /\ n.retries = s.retries
        /\ \A j \in Keys : n.view[j] = IF j = k THEN row ELSE s.view[j]
    BY <1>1, <2>2 DEF Session
  <2> HIDE DEF n
  <2>4. Abort(t, "failed") \/ Rewritten(t, k, row, n)
    BY <1>1, <2>1, <2>2, RowWrite DEF n
  <2>5. CASE Rewritten(t, k, row, n)
    <3>1. k \notin s.pending
      BY <1>2, <2>1 DEF Inserting
    <3>2. \A j \in Keys : Outlook(t, j)' = Outlook(t, j)
      <4> SUFFICES ASSUME NEW j \in Keys PROVE Outlook(t, j)' = Outlook(t, j)
        OBVIOUS
      <4>1. j \in s.pending => (locked'[j] # t <=> locked[j] # t)
        BY <2>5, <3>1 DEF Rewritten
      <4>2. Edited(t, n.dirty[j], n.view[j], s.snap[j]) = Flushed(t, j, s.view[j])
        BY <1>3, <2>2, <2>3 DEF Flushed, row
      <4>3. QED
        BY <2>1, <2>3, <2>5, <4>1, <4>2 DEF Outlook, Flushed, Placed, Rewritten
    <3>3. Inserting(t)'
      BY <1>1, <1>2, <2>2, <2>3, <2>5, <3>1 DEF Inserting, Rewritten
    <3>4. QED
      BY <1>2, <2>1, <2>3, <2>5, <3>2, <3>3, KeepsPlan DEF Rewritten
  <2>6. QED
    BY <1>4, <2>4, <2>5
<1>6. ASSUME NEW k \in Keys, SetLocation(t, k)
      PROVE  PlanInv(t)'
  <2> DEFINE row  == [s.view[k] EXCEPT !.loc = t]
             next == [s EXCEPT !.moves = s.moves \ {k}]
             n    == [next EXCEPT !.view[k] = row]
  <2>1. WriteRow(t, k, row, next) /\ s.at = "locate" /\ k \in s.moves
    BY <1>6 DEF SetLocation
  <2>2. /\ next \in Session /\ next.view = s.view /\ next.at = s.at /\ next.snap = s.snap
        /\ next.retries = s.retries /\ next.pending = s.pending /\ next.dirty = s.dirty
        /\ next.moves = s.moves \ {k}
    BY <1>1 DEF Session
  <2>3. Placed(t, s.moves, k, s.view[k]) = row
    BY <2>1 DEF Placed
  <2> HIDE DEF row, next
  <2>4. /\ n.dirty = s.dirty /\ n.at = s.at /\ n.pending = s.pending
        /\ n.moves = s.moves \ {k} /\ n.snap = s.snap /\ n.retries = s.retries
        /\ \A j \in Keys : n.view[j] = IF j = k THEN row ELSE s.view[j]
    BY <1>1, <2>2 DEF Session
  <2> HIDE DEF n
  <2>5. Abort(t, "failed") \/ Rewritten(t, k, row, n)
    BY <1>1, <2>1, <2>2, RowWrite DEF n
  <2>6. CASE Rewritten(t, k, row, n)
    <3>1. \A j \in Keys : Outlook(t, j)' = Outlook(t, j)
      <4> SUFFICES ASSUME NEW j \in Keys PROVE Outlook(t, j)' = Outlook(t, j)
        OBVIOUS
      <4>1. Placed(t, n.moves, j, n.view[j]) = Placed(t, s.moves, j, s.view[j])
        BY <2>3, <2>4 DEF Placed
      <4>2. QED
        BY <2>1, <2>4, <2>6, <4>1 DEF Outlook, Flushed, Placed, Rewritten
    <3>2. Inserting(t)'
      BY <1>1, <1>2, <2>1, <2>4, <2>6 DEF Inserting, Rewritten
    <3>3. QED
      BY <1>2, <2>1, <2>4, <2>6, <3>1, <3>2, KeepsPlan DEF Rewritten
  <2>7. QED
    BY <1>4, <2>5, <2>6
<1>7. ASSUME NEW k \in Keys, FlushInsert(t, k), ~Conflict(t)
      PROVE  PlanInv(t)'
  <2> DEFINE n == [s EXCEPT !.view[k] = NewRow(t)]
  <2>1. /\ s.at = "flush" /\ k \in s.pending /\ locked[k] # t /\ ~Exists(table[k])
        /\ locked' = [locked EXCEPT ![k] = t] /\ txn'[t] = n
        /\ \A j \in Keys : s.dirty[j] = "clean"
    BY <1>1, <1>7 DEF FlushInsert, Become, Wrote, Dirty
  <2>2. /\ n.dirty = s.dirty /\ n.at = s.at /\ n.pending = s.pending /\ n.moves = s.moves
        /\ n.snap = s.snap /\ n.retries = s.retries
        /\ \A j \in Keys : n.view[j] = IF j = k THEN NewRow(t) ELSE s.view[j]
    BY <1>1 DEF Session
  <2> HIDE DEF n
  <2>3. \A j \in Keys : locked'[j] = IF j = k THEN t ELSE locked[j]
    BY <1>1, <2>1
  <2>4. s.snap[k] = NoRow
    BY <1>2, <2>1 DEF SessionInv, IdInv, RowOK, Present, Exists, NoRow
  <2>5. \A j \in Keys : Outlook(t, j)' = Outlook(t, j)
    <3> SUFFICES ASSUME NEW j \in Keys PROVE Outlook(t, j)' = Outlook(t, j)
      OBVIOUS
    <3>1. (IF j \in n.pending /\ locked'[j] # t
           THEN NewRow(t) ELSE Edited(t, n.dirty[j], n.view[j], n.snap[j]))
          = (IF j \in s.pending /\ locked[j] # t THEN NewRow(t) ELSE Flushed(t, j, s.view[j]))
      BY <1>3, <2>1, <2>2, <2>3 DEF Flushed
    <3>2. QED
      BY <2>1, <2>2, <3>1 DEF Outlook, Flushed, Placed
  <2>6. Inserting(t)'
    BY <1>1, <1>2, <2>1, <2>2, <2>3, <2>4 DEF Inserting
  <2>7. QED
    BY <1>2, <2>1, <2>2, <2>5, <2>6, KeepsPlan DEF Writing
<1>8. CASE EndFlush(t)
  <2> DEFINE m == s.moves \union LocatedKeys(t, s.pending)
             n == [s EXCEPT !.at = "locate", !.moves = m]
  <2>1. /\ txn'[t] = n /\ UNCHANGED locked /\ s.at = "flush"
        /\ \A k \in Keys : s.dirty[k] = "clean"
        /\ \A k \in s.pending : locked[k] = t
    BY <1>1, <1>8 DEF EndFlush, Become, Dirty, Wrote
  <2> HIDE DEF m
  <2>2. /\ n.view = s.view /\ n.at = "locate" /\ n.moves = m /\ n.dirty = s.dirty
        /\ n.retries = s.retries /\ n.snap = s.snap /\ n.pending = s.pending
    BY <1>1 DEF Session
  <2> HIDE DEF n
  <2>3. \A k \in Keys : Outlook(t, k)' = Outlook(t, k)
    <3> SUFFICES ASSUME NEW k \in Keys PROVE Outlook(t, k)' = Outlook(t, k)
      OBVIOUS
    <3>1. Outlook(t, k) = Placed(t, m, k, s.view[k])
      BY <1>3, <2>1 DEF Outlook, Flushed, m
    <3>2. Outlook(t, k)' = Placed(t, m, k, s.view[k])
      BY <1>3, <2>1, <2>2 DEF Outlook, Flushed, Placed
    <3>3. QED
      BY <3>1, <3>2
  <2>4. Inserting(t)'
    BY <1>1, <1>2, <2>1, <2>2 DEF Inserting
  <2>5. QED
    BY <1>2, <2>1, <2>2, <2>3, <2>4, KeepsPlan DEF Writing
<1>9. CASE EndLocate(t)
  <2> DEFINE n == [s EXCEPT !.at = "commit"]
  <2>1. txn'[t] = n /\ UNCHANGED locked /\ s.at = "locate" /\ s.moves = {}
    BY <1>1, <1>9 DEF EndLocate, Become
  <2>2. /\ n.view = s.view /\ n.at = "commit" /\ n.dirty = s.dirty /\ n.pending = s.pending
        /\ n.retries = s.retries /\ n.snap = s.snap /\ n.moves = s.moves
    BY <1>1 DEF Session
  <2> HIDE DEF n
  <2>3. \A k \in Keys : Outlook(t, k)' = Outlook(t, k)
    BY <2>1, <2>2 DEF Outlook, Flushed, Placed
  <2>4. Inserting(t)'
    BY <1>1, <1>2, <2>1, <2>2 DEF Inserting
  <2>5. QED
    BY <1>2, <2>1, <2>2, <2>3, <2>4, KeepsPlan DEF Writing
<1>10. QED
  BY <1>5, <1>6, <1>7, <1>8, <1>9

\* What the edits of the code make of a row, before or after its move, is what
\* RowStore makes of it.
LEMMA RowPlans ==
    ASSUME NEW t \in Txns, NEW row \in Row
    PROVE  /\ Store!Created(t) = Store!Moved(t, NewRow(t))
           /\ Store!Updated(t, row) = Store!Moved(t, Edited(t, "update", row, row))
           /\ Store!Deleted(row) = Edited(t, "delete", row, row)
           /\ Store!Overwritten(t, row) = Store!Moved(t, Edited(t, "overwrite", row, row))
           /\ Store!Overwritten(t, row) = Edited(t, "overwrite", Store!Moved(t, row), row)
           /\ Store!Copied(t, row) = Store!Moved(t, Edited(t, "copy", row, row))
           /\ Store!CopiedLate(t, row) = Edited(t, "copy", Store!Moved(t, row), row)
<1>1. Store!Created(t) = Store!Moved(t, NewRow(t))
  BY DEF Store!Created, Store!Moved, NewRow, Store!Coord, Coord
<1>2. Store!Updated(t, row) = Store!Moved(t, Edited(t, "update", row, row))
  BY DEF Store!Updated, Store!Moved, Edited
<1>3. Store!Deleted(row) = Edited(t, "delete", row, row)
  BY DEF Store!Deleted, Edited
<1>4. Store!Overwritten(t, row) = Store!Moved(t, Edited(t, "overwrite", row, row))
  BY DEF Store!Overwritten, Store!Moved, Edited
<1>5. Store!Overwritten(t, row) = Edited(t, "overwrite", Store!Moved(t, row), row)
  BY DEF Store!Overwritten, Store!Moved, Edited, Row
<1>6. Store!Copied(t, row) = Store!Moved(t, Edited(t, "copy", row, row))
  BY DEF Store!Copied, Store!Moved, Edited, Row, Store!Coord, Coord
<1>7. Store!CopiedLate(t, row) = Edited(t, "copy", Store!Moved(t, row), row)
  BY DEF Store!Copied, Store!CopiedLate, Store!Moved, Edited, Row, Store!Coord, Coord
<1>8. QED
  BY <1>1, <1>2, <1>3, <1>4, <1>5, <1>6, <1>7

\* The moves of a batch are those of all its rows, or none.
LEMMA BatchMoves ==
    ASSUME NEW t \in Txns, NEW ks \in SUBSET Keys, NEW k \in Keys, NEW row
    PROVE  Placed(t, LocatedKeys(t, ks), k, row) = IF k \in ks THEN Store!Moved(t, row) ELSE row
BY DEF Placed, LocatedKeys, Store!Moved

\* The plan of a transaction that has read, and written nothing.
LEMMA ReadOutlook ==
    ASSUME NEW t \in Txns, NEW k \in Keys, NEW n, txn'[t] = n, locked'[k] # t,
           n.view = n.snap
    PROVE  Outlook(t, k)' =
             CASE n.at = "flush" ->
                    Placed(t, n.moves \union LocatedKeys(t, n.pending), k,
                           IF k \in n.pending THEN NewRow(t)
                           ELSE Edited(t, n.dirty[k], n.snap[k], n.snap[k]))
               [] n.at = "locate" ->
                    Edited(t, n.dirty[k], Placed(t, n.moves, k, n.snap[k]), n.snap[k])
               [] OTHER -> Edited(t, n.dirty[k], n.snap[k], n.snap[k])
BY DEF Outlook, Flushed, Placed

\* A bulk that has read and not written: the rows in old are edited, those in new
\* inserted, the others moved.
LEMMA BulkOutlook ==
    ASSUME NEW t \in Txns, NEW n, txn'[t] = n, NEW edit,
           NEW old \in SUBSET Target[t], NEW new \in SUBSET Target[t], old \cap new = {},
           n.at = IF new = {} THEN "locate" ELSE "flush",
           n.dirty = Marked(old, edit), n.pending = new,
           n.moves = LocatedKeys(t, Target[t] \ new),
           n.view = n.snap, Target[t] \in SUBSET Keys, \A k \in Keys : locked'[k] # t
    PROVE  \A k \in Keys :
             Outlook(t, k)' =
               IF k \in old
               THEN IF new = {} THEN Edited(t, edit, Store!Moved(t, n.snap[k]), n.snap[k])
                                ELSE Store!Moved(t, Edited(t, edit, n.snap[k], n.snap[k]))
               ELSE IF k \in new THEN Store!Moved(t, NewRow(t))
               ELSE IF k \in Target[t] THEN Store!Moved(t, n.snap[k]) ELSE n.snap[k]
<1> SUFFICES ASSUME NEW k \in Keys
             PROVE  Outlook(t, k)' =
               IF k \in old
               THEN IF new = {} THEN Edited(t, edit, Store!Moved(t, n.snap[k]), n.snap[k])
                                ELSE Store!Moved(t, Edited(t, edit, n.snap[k], n.snap[k]))
               ELSE IF k \in new THEN Store!Moved(t, NewRow(t))
               ELSE IF k \in Target[t] THEN Store!Moved(t, n.snap[k]) ELSE n.snap[k]
  OBVIOUS
<1>1. n.dirty[k] = IF k \in old THEN edit ELSE "clean"
  BY DEF Marked
<1>2. \A row, loaded : Edited(t, "clean", row, loaded) = row
  BY DEF Edited
<1>3. CASE new = {}
  <2>1. Target[t] \ new = Target[t] /\ n.at = "locate"
    BY <1>3
  <2>2. Placed(t, n.moves, k, n.snap[k])
           = IF k \in Target[t] THEN Store!Moved(t, n.snap[k]) ELSE n.snap[k]
    BY <2>1, BatchMoves
  <2>3. Outlook(t, k)' = Edited(t, n.dirty[k], Placed(t, n.moves, k, n.snap[k]), n.snap[k])
    BY <2>1, ReadOutlook
  <2>4. QED
    BY <1>1, <1>2, <1>3, <2>2, <2>3
<1>4. CASE new # {}
  <2>1. LocatedKeys(t, Target[t] \ new) \union LocatedKeys(t, new) = LocatedKeys(t, Target[t])
    BY DEF LocatedKeys
  <2> DEFINE row == IF k \in n.pending THEN NewRow(t)
                    ELSE Edited(t, n.dirty[k], n.snap[k], n.snap[k])
  <2>2. Outlook(t, k)' = Placed(t, n.moves \union LocatedKeys(t, n.pending), k, row)
    BY <1>4, ReadOutlook
  <2>3. Outlook(t, k)' = Placed(t, LocatedKeys(t, Target[t]), k, row)
    BY <2>1, <2>2
  <2>4. row = IF k \in old THEN Edited(t, edit, n.snap[k], n.snap[k])
              ELSE IF k \in new THEN NewRow(t) ELSE n.snap[k]
    BY <1>1, <1>2
  <2> HIDE DEF row
  <2>5. Outlook(t, k)' = IF k \in Target[t] THEN Store!Moved(t, row) ELSE row
    BY <2>3, BatchMoves
  <2>6. QED
    BY <1>4, <2>4, <2>5
<1>5. QED
  BY <1>3, <1>4

\* So does every other step of t.
LEMMA OwnPlan ==
    ASSUME WritesInv, AtomicityInv, Hits, Plans, NEW t \in Txns, TxnStep(t) \/ Die(t)
    PROVE  PlanInv(t)'
<1> DEFINE s == txn[t]
<1>1. TypeOK /\ txn \in [Txns -> Session] /\ table \in [Keys -> Row]
  BY DEF WritesInv, TypeInv, TypeOK
<1>2. /\ s \in Session /\ s.view \in [Keys -> Row] /\ s.snap \in [Keys -> Row]
      /\ s.dirty \in [Keys -> Edits] /\ s.moves \in SUBSET Keys /\ s.pending \in SUBSET Keys
      /\ s.retries \in Nat /\ Target[t] \in SUBSET Keys
  BY <1>1, WritesAssumption DEF Session
<1>3. PlanInv(t) /\ Prepared(t) /\ HitInv(t) /\ SessionInv(t)
  BY DEF Plans, PlanInv, Hits, WritesInv
<1>4. ASSUME NEW outcome \in Outcomes, Abort(t, outcome)
      PROVE  PlanInv(t)'
  BY <1>1, <1>4, EndedPlan DEF Abort
<1>5. \A n : Become(t, n) => txn'[t] = n
  BY <1>1 DEF Become
<1>6. s.at \notin Writing => \A k \in Keys : locked[k] # t
  BY <1>3 DEF SessionInv, LockInv, Writing
<1>7. \A row, loaded : Edited(t, "clean", row, loaded) = row
  BY DEF Edited
<1>8. CASE Begin(t)
  <2> DEFINE n == [s EXCEPT !.at = IF IsBulk(t) THEN "advisory" ELSE "select",
                            !.snap = table, !.view = table]
  <2>1. txn'[t] = n /\ UNCHANGED table /\ s.at \in {"start", "restart"}
    BY <1>5, <1>8 DEF Begin
  <2>2. /\ n.at = (IF IsBulk(t) THEN "advisory" ELSE "select") /\ n.snap = table
        /\ n.view = table /\ n.dirty = s.dirty /\ n.moves = s.moves
        /\ n.pending = s.pending /\ n.retries = s.retries
    BY <1>2 DEF Session
  <2> HIDE DEF n
  <2>3. \A k \in Keys : t \notin Writers(table[k])
    BY <2>1 DEF AtomicityInv, AllOrNothing, SeesOnlyAcknowledged, Writers
  <2>4. /\ s.at = "restart" => IsBulk(t) /\ s.retries > 0
        /\ s.at = "start" => s.retries = 0 /\ s.pending = {} /\ s.moves = {}
        /\ \A k \in Keys : s.dirty[k] = "clean"
    BY <1>3, <2>1 DEF Prepared, HitInv, Writing
  <2>5. s.at = "restart" => /\ s.pending \subseteq Target[t]
                            /\ s.moves = LocatedKeys(t, Target[t] \ s.pending)
                            /\ \A k \in Target[t] \ s.pending : Present(table[k])
    BY <1>3, <2>4 DEF Prepared
  <2>6. Prepared(t)'
    BY <1>2, <2>1, <2>2, <2>3, <2>4, <2>5 DEF Prepared, IsBulk, Writing
  <2>7. QED
    BY <2>1, <2>2, <2>6 DEF PlanInv, Writing
<1>9. CASE LockAdvisory(t)
  <2> DEFINE n == [s EXCEPT !.at = IF s.retries > 0 THEN "recheck" ELSE "select"]
  <2>1. txn'[t] = n /\ UNCHANGED table /\ s.at = "advisory"
    BY <1>5, <1>9 DEF LockAdvisory
  <2>2. /\ n.at = (IF s.retries > 0 THEN "recheck" ELSE "select") /\ n.snap = s.snap
        /\ n.view = s.view /\ n.dirty = s.dirty /\ n.moves = s.moves
        /\ n.pending = s.pending /\ n.retries = s.retries
    BY <1>2 DEF Session
  <2> HIDE DEF n
  <2>3. Prepared(t)'
    BY <1>2, <1>3, <2>1, <2>2 DEF Prepared, IsBulk, Writing, Writers, Present
  <2>4. QED
    BY <2>1, <2>2, <2>3 DEF PlanInv, Writing
<1>10. \A k \in Keys : /\ Present(s.snap[k]) <=> s.snap[k] # NoRow
                       /\ k \in Found(t) <=> s.snap[k] # NoRow
  BY <1>3 DEF SessionInv, IdInv, RowOK, Present, NoRow, Found, Exists
<1>11. \A k \in Keys : /\ Store!Overwritten(t, s.snap[k])
                              = Store!Moved(t, Edited(t, "overwrite", s.snap[k], s.snap[k]))
                       /\ Store!Overwritten(t, s.snap[k])
                              = Edited(t, "overwrite", Store!Moved(t, s.snap[k]), s.snap[k])
                       /\ Store!Copied(t, s.snap[k])
                              = Store!Moved(t, Edited(t, "copy", s.snap[k], s.snap[k]))
                       /\ Store!CopiedLate(t, s.snap[k])
                              = Edited(t, "copy", Store!Moved(t, s.snap[k]), s.snap[k])
                       /\ Store!Updated(t, s.snap[k])
                              = Store!Moved(t, Edited(t, "update", s.snap[k], s.snap[k]))
                       /\ Store!Deleted(s.snap[k]) = Edited(t, "delete", s.snap[k], s.snap[k])
                       /\ Store!Created(t) = Store!Moved(t, NewRow(t))
  BY <1>2, RowPlans
<1>12. CASE SelectBulk(t)
  <2> DEFINE old == Target[t] \cap Found(t)
             new == Target[t] \ Found(t)
             n   == [s EXCEPT !.at = IF new = {} THEN "locate" ELSE "flush",
                              !.dirty = Marked(old, "overwrite"),
                              !.pending = new,
                              !.moves = LocatedKeys(t, old)]
  <2>1. /\ txn'[t] = n /\ UNCHANGED <<table, locked>> /\ s.at = "select" /\ Op[t] = "bulk"
    BY <1>5, <1>12 DEF SelectBulk, IsBulk
  <2>2. old \in SUBSET Target[t] /\ new \in SUBSET Target[t] /\ old \cap new = {}
        /\ Target[t] \ new = old
    OBVIOUS
  <2>3. /\ n.at = (IF new = {} THEN "locate" ELSE "flush") /\ n.snap = s.snap
        /\ n.view = s.snap /\ n.dirty = Marked(old, "overwrite") /\ n.pending = new
        /\ n.moves = LocatedKeys(t, Target[t] \ new) /\ n.retries = 0
    BY <1>2, <1>3, <2>1, <2>2 DEF Session, Prepared
  <2>4. \A k \in Target[t] : (k \in old <=> s.snap[k] # NoRow) /\ (k \in new <=> s.snap[k] = NoRow)
    BY <1>2, <1>10
  <2> HIDE DEF n, old, new
  <2>5. \A k \in Keys : locked'[k] # t
    BY <1>6, <2>1 DEF Writing
  <2>6. \A k \in Keys :
             Outlook(t, k)' =
               IF k \in old
               THEN IF new = {} THEN Edited(t, "overwrite", Store!Moved(t, n.snap[k]), n.snap[k])
                                ELSE Store!Moved(t, Edited(t, "overwrite", n.snap[k], n.snap[k]))
               ELSE IF k \in new THEN Store!Moved(t, NewRow(t))
               ELSE IF k \in Target[t] THEN Store!Moved(t, n.snap[k]) ELSE n.snap[k]
    BY <1>2, <2>1, <2>2, <2>3, <2>5, BulkOutlook
  <2>7. Old(t)' = old
    BY <2>1, <2>2, <2>3, <2>4 DEF Old
  <2>8. Planned(t)'
    <3>1. \A k \in Keys \ Target[t] : Outlook(t, k)' = n.snap[k]
      BY <2>2, <2>6
    <3>2. \A k \in Target[t] : Outlook(t, k)' =
             IF k \in old THEN Store!Overwritten(t, n.snap[k]) ELSE Store!Created(t)
      BY <1>2, <1>11, <2>3, <2>4, <2>6
    <3>3. QED
      BY <2>1, <2>3, <2>7, <3>1, <3>2 DEF Planned
  <2>9. Inserting(t)'
    BY <1>2, <2>1, <2>2, <2>3, <2>5 DEF Inserting, Marked
  <2>10. Prepared(t)'
    BY <1>2, <1>3, <1>10, <2>1, <2>2, <2>3, <2>4 DEF Prepared, Writing, Writers, Present
  <2>11. QED
    BY <2>8, <2>9, <2>10 DEF PlanInv
<1>13. CASE Recheck(t)
  <2> DEFINE old == s.pending \cap Found(t)
             new == s.pending \ Found(t)
             n   == [s EXCEPT !.at = IF new = {} THEN "locate" ELSE "flush",
                              !.dirty = Marked(old, "copy"), !.pending = new,
                              !.moves = s.moves \union LocatedKeys(t, old)]
  <2>1. /\ s.at = "recheck"
        /\ Abort(t, "failed") \/ (Become(t, n) /\ UNCHANGED <<table, locked>>)
    BY <1>2, <1>13 DEF Recheck
  <2>2. CASE Become(t, n) /\ UNCHANGED <<table, locked>>
    <3>1. /\ txn'[t] = n /\ Op[t] = "bulk" /\ s.retries > 0
          /\ s.pending \subseteq Target[t] /\ s.moves = LocatedKeys(t, Target[t] \ s.pending)
          /\ \A k \in Target[t] \ s.pending : s.snap[k] # NoRow
      BY <1>2, <1>3, <1>5, <1>10, <2>1, <2>2 DEF Prepared, HitInv, IsBulk
    <3>2. /\ old \in SUBSET Target[t] /\ new \in SUBSET Target[t] /\ old \cap new = {}
          /\ (Target[t] \ s.pending) \union old = Target[t] \ new
      BY <3>1
    <3>3. s.moves \union LocatedKeys(t, old) = LocatedKeys(t, Target[t] \ new)
      BY <3>1, <3>2 DEF LocatedKeys
    <3>4. /\ n.at = (IF new = {} THEN "locate" ELSE "flush") /\ n.snap = s.snap
          /\ n.view = s.snap /\ n.dirty = Marked(old, "copy") /\ n.pending = new
          /\ n.moves = LocatedKeys(t, Target[t] \ new) /\ n.retries = s.retries
      BY <1>2, <1>3, <2>1, <3>3 DEF Session, Prepared
    <3>5. /\ \A k \in new : s.snap[k] = NoRow
          /\ \A k \in Target[t] \ new : s.snap[k] # NoRow
          /\ old # {}
      BY <1>2, <1>3, <1>10, <2>1, <3>1, <3>2 DEF HitInv
    <3> HIDE DEF n, old, new
    <3>6. \A k \in Keys : locked'[k] # t
      BY <1>6, <2>1, <2>2 DEF Writing
    <3>7. \A k \in Keys :
               Outlook(t, k)' =
                 IF k \in old
                 THEN IF new = {} THEN Edited(t, "copy", Store!Moved(t, n.snap[k]), n.snap[k])
                                  ELSE Store!Moved(t, Edited(t, "copy", n.snap[k], n.snap[k]))
                 ELSE IF k \in new THEN Store!Moved(t, NewRow(t))
                 ELSE IF k \in Target[t] THEN Store!Moved(t, n.snap[k]) ELSE n.snap[k]
      BY <1>2, <3>1, <3>2, <3>4, <3>6, BulkOutlook
    <3>8. Old(t)' = Target[t] \ new
      BY <3>1, <3>2, <3>4, <3>5 DEF Old
    <3>9. Old(t)' = Target[t] <=> new = {}
      BY <3>2, <3>8
    <3>10. Planned(t)'
      <4>1. \A k \in Keys \ Target[t] : Outlook(t, k)' = n.snap[k]
        BY <3>2, <3>7
      <4>2. \A k \in Target[t] : Outlook(t, k)' =
               IF k \in old THEN IF new = {} THEN Store!CopiedLate(t, n.snap[k])
                                             ELSE Store!Copied(t, n.snap[k])
               ELSE IF k \in Target[t] \ new THEN Store!Moved(t, n.snap[k])
               ELSE Store!Created(t)
        <5>1. CASE new = {}
          BY <1>2, <1>11, <3>4, <3>7, <5>1
        <5>2. CASE new # {}
          BY <1>2, <1>11, <3>4, <3>7, <5>2
        <5>3. QED
          BY <5>1, <5>2
      <4>3. PICK copied \in SUBSET Keys : copied = old
        BY <1>2, <3>2
      <4>4. BulkPlanned(t, copied)'
        BY <3>1, <3>4, <3>8, <3>9, <4>2, <4>3 DEF BulkPlanned
      <4>5. copied \in (SUBSET Old(t)') \ {{}}
        BY <3>2, <3>5, <3>8, <4>3
      <4>6. QED
        BY <3>1, <3>4, <4>1, <4>4, <4>5 DEF Planned
    <3>11. Inserting(t)'
      BY <1>2, <3>1, <3>2, <3>4, <3>6 DEF Inserting, Marked
    <3>12. Prepared(t)'
      BY <1>2, <1>3, <1>10, <2>1, <3>1, <3>2, <3>4, <3>5
         DEF Prepared, Writing, Writers, Present, IsBulk
    <3>13. QED
      BY <3>10, <3>11, <3>12 DEF PlanInv
  <2>3. QED
    BY <1>4, <2>1, <2>2 DEF Outcomes
<1>14. CASE SelectCreate(t)
  <2> DEFINE n == [s EXCEPT !.at = "flush", !.pending = Target[t]]
  <2>1. /\ txn'[t] = n /\ UNCHANGED <<table, locked>> /\ s.at = "select" /\ Op[t] = "create"
    BY <1>5, <1>14 DEF SelectCreate
  <2>2. /\ n.at = "flush" /\ n.snap = s.snap /\ n.view = s.snap /\ n.dirty = s.dirty
        /\ n.pending = Target[t] /\ n.moves = {} /\ n.retries = s.retries
        /\ \A k \in Keys : s.dirty[k] = "clean" /\ locked'[k] # t
    BY <1>2, <1>3, <1>6, <2>1 DEF Session, Prepared, Writing
  <2> HIDE DEF n
  <2>3. \A k \in Keys : Outlook(t, k)' = IF k \in Target[t] THEN Store!Created(t) ELSE n.snap[k]
    <3> SUFFICES ASSUME NEW k \in Keys
                 PROVE  Outlook(t, k)' = IF k \in Target[t] THEN Store!Created(t) ELSE n.snap[k]
      OBVIOUS
    <3> DEFINE row == IF k \in Target[t] THEN NewRow(t) ELSE n.snap[k]
    <3>1. row = IF k \in n.pending THEN NewRow(t) ELSE Edited(t, n.dirty[k], n.snap[k], n.snap[k])
      BY <1>7, <2>2
    <3> HIDE DEF row
    <3>2. Outlook(t, k)' = Placed(t, n.moves \union LocatedKeys(t, n.pending), k, row)
      BY <2>1, <2>2, <3>1, ReadOutlook
    <3>3. Outlook(t, k)' = Placed(t, LocatedKeys(t, Target[t]), k, row)
      BY <2>2, <3>2
    <3>4. QED
      BY <1>2, <1>11, <3>3, BatchMoves DEF row
  <2>4. Planned(t)'
    BY <1>2, <2>1, <2>2, <2>3 DEF Planned
  <2>5. Inserting(t)'
    BY <1>2, <2>1, <2>2 DEF Inserting
  <2>6. Prepared(t)'
    BY <1>3, <2>1, <2>2 DEF Prepared, Writing, Writers, IsBulk
  <2>7. QED
    BY <2>4, <2>5, <2>6 DEF PlanInv
<1>15. CASE SelectUpdate(t)
  <2> DEFINE n == [s EXCEPT !.at = "flush", !.dirty = Marked(Target[t], "update"),
                            !.moves = LocatedKeys(t, Target[t])]
  <2>1. /\ s.at = "select" /\ Op[t] = "update"
        /\ \/ Abort(t, "missing")
           \/ Target[t] \subseteq Found(t) /\ Become(t, n) /\ UNCHANGED <<table, locked>>
    BY <1>15 DEF SelectUpdate
  <2>2. CASE Target[t] \subseteq Found(t) /\ Become(t, n) /\ UNCHANGED <<table, locked>>
    <3>1. txn'[t] = n
      BY <1>5, <2>2
    <3>2. /\ n.at = "flush" /\ n.snap = s.snap /\ n.view = s.snap
          /\ n.dirty = Marked(Target[t], "update") /\ n.pending = {}
          /\ n.moves = LocatedKeys(t, Target[t]) /\ n.retries = s.retries
          /\ \A k \in Keys : locked'[k] # t
      BY <1>2, <1>3, <1>6, <2>1, <2>2 DEF Session, Prepared, Writing
    <3> HIDE DEF n
    <3>3. \A k \in Keys : Outlook(t, k)' =
             IF k \in Target[t] THEN Store!Updated(t, n.snap[k]) ELSE n.snap[k]
      <4> SUFFICES ASSUME NEW k \in Keys
                   PROVE  Outlook(t, k)' =
                            IF k \in Target[t] THEN Store!Updated(t, n.snap[k]) ELSE n.snap[k]
        OBVIOUS
      <4> DEFINE row == Edited(t, n.dirty[k], n.snap[k], n.snap[k])
      <4>1. row = IF k \in Target[t] THEN Edited(t, "update", n.snap[k], n.snap[k]) ELSE n.snap[k]
        BY <1>7, <3>2 DEF Marked
      <4>2. n.moves \union LocatedKeys(t, n.pending) = LocatedKeys(t, Target[t])
        BY <3>2 DEF LocatedKeys
      <4>3. Outlook(t, k)' = Placed(t, n.moves \union LocatedKeys(t, n.pending), k, row)
        BY <3>1, <3>2, ReadOutlook
      <4> HIDE DEF row
      <4>4. Outlook(t, k)' = Placed(t, LocatedKeys(t, Target[t]), k, row)
        BY <4>2, <4>3
      <4>5. Outlook(t, k)' = IF k \in Target[t] THEN Store!Moved(t, row) ELSE row
        BY <1>2, <4>4, BatchMoves
      <4>6. QED
        BY <1>2, <1>11, <3>2, <4>1, <4>5
    <3>4. Old(t)' = Target[t]
      BY <1>2, <1>10, <2>2, <3>1, <3>2 DEF Old
    <3>5. Planned(t)'
      BY <1>2, <2>1, <3>1, <3>2, <3>3, <3>4 DEF Planned
    <3>6. Inserting(t)'
      BY <2>1, <3>1, <3>2 DEF Inserting
    <3>7. Prepared(t)'
      BY <1>3, <2>1, <3>1, <3>2 DEF Prepared, Writing, Writers, IsBulk
    <3>8. QED
      BY <3>5, <3>6, <3>7 DEF PlanInv
  <2>3. QED
    BY <1>4, <2>1, <2>2 DEF Outcomes
<1>16. CASE SelectDelete(t)
  <2> DEFINE n == [s EXCEPT !.at = "commit", !.dirty = Marked(Target[t], "delete")]
  <2>1. /\ s.at = "select" /\ Op[t] = "delete"
        /\ \/ Abort(t, "missing")
           \/ Target[t] \subseteq Found(t) /\ Become(t, n) /\ UNCHANGED <<table, locked>>
    BY <1>16 DEF SelectDelete
  <2>2. CASE Target[t] \subseteq Found(t) /\ Become(t, n) /\ UNCHANGED <<table, locked>>
    <3>1. txn'[t] = n
      BY <1>5, <2>2
    <3>2. /\ n.at = "commit" /\ n.snap = s.snap /\ n.view = s.snap
          /\ n.dirty = Marked(Target[t], "delete") /\ n.pending = {} /\ n.retries = s.retries
          /\ \A k \in Keys : locked'[k] # t
      BY <1>2, <1>3, <1>6, <2>1, <2>2 DEF Session, Prepared, Writing
    <3> HIDE DEF n
    <3>3. \A k \in Keys : Outlook(t, k)' = Edited(t, n.dirty[k], n.snap[k], n.snap[k])
      BY <3>1, <3>2, ReadOutlook
    <3>4. \A k \in Keys : Outlook(t, k)' =
             IF k \in Target[t] THEN Store!Deleted(n.snap[k]) ELSE n.snap[k]
      BY <1>7, <1>11, <3>2, <3>3 DEF Marked
    <3>5. Old(t)' = Target[t]
      BY <1>2, <1>10, <2>2, <3>1, <3>2 DEF Old
    <3>6. Planned(t)'
      BY <1>2, <2>1, <3>1, <3>2, <3>4, <3>5 DEF Planned
    <3>7. Inserting(t)'
      BY <2>1, <3>1, <3>2 DEF Inserting
    <3>8. Prepared(t)'
      BY <1>3, <2>1, <3>1, <3>2 DEF Prepared, Writing, Writers, IsBulk
    <3>9. QED
      BY <3>6, <3>7, <3>8 DEF PlanInv, Writing
  <2>3. QED
    BY <1>4, <2>1, <2>2 DEF Outcomes
<1>17. ASSUME NEW k \in Keys, FlushInsert(t, k), Conflict(t)
       PROVE  PlanInv(t)'
  <2>1. CASE IsBulk(t)
    <3> DEFINE n == [s EXCEPT !.at = "restart", !.dirty = AllClean,
                              !.retries = s.retries + 1]
    <3>1. txn'[t] = n /\ UNCHANGED table /\ s.at = "flush"
      BY <1>5, <1>17, <2>1 DEF Conflict, FlushInsert
    <3>2. /\ n.at = "restart" /\ n.dirty = AllClean /\ n.pending = s.pending
          /\ n.moves = s.moves /\ n.snap = s.snap
      BY <1>2 DEF Session
    <3> HIDE DEF n
    <3>3. \A j \in Keys : Present(s.snap[j]) => Present(table[j])
      BY <1>3 DEF SessionInv, IdInv, Present
    <3>4. Prepared(t)'
      BY <1>2, <1>3, <2>1, <3>1, <3>2, <3>3
         DEF Prepared, Writing, Writers, IsBulk, AllClean, Present
    <3>5. QED
      BY <3>1, <3>2, <3>4 DEF PlanInv, Writing
  <2>2. QED
    BY <1>4, <1>17, <2>1 DEF Conflict, Outcomes
<1>18. CASE \/ \E k \in Keys : FlushUpdate(t, k) \/ SetLocation(t, k)
            \/ \E k \in Keys : FlushInsert(t, k) /\ ~Conflict(t)
            \/ EndFlush(t) \/ EndLocate(t)
  <2>1. s.at \in Writing
    BY <1>18 DEF FlushUpdate, SetLocation, FlushInsert, EndFlush, EndLocate, Writing
  <2>2. QED
    BY <1>18, <2>1, WritingPlan
<1>19. CASE Commit(t)
  BY <1>1, <1>19, EndedPlan DEF Commit, Outcomes
<1>20. CASE AbortDeadlock(t) \/ Die(t)
  BY <1>4, <1>20 DEF AbortDeadlock, Die, Outcomes
<1>21. QED
  BY <1>8, <1>9, <1>12, <1>13, <1>14, <1>15, <1>16, <1>17, <1>18, <1>19, <1>20 DEF TxnStep

\* Every transaction carries out its plan.
LEMMA PlanInvariant == Spec => []Plans
<1>1. Init => Plans
  <2> SUFFICES ASSUME Init, NEW t \in Txns PROVE PlanInv(t)
    BY DEF Plans
  <2>1. /\ txn[t].at = "start" /\ txn[t].retries = 0
        /\ txn[t].pending = {} /\ txn[t].moves = {}
        /\ \A k \in Keys : txn[t].snap[k] = NoRow /\ txn[t].dirty[k] = "clean"
    BY DEF Init, NewSession, AllClean
  <2>2. QED
    BY <2>1, WrittenRows DEF PlanInv, Prepared, Writing
<1>2. WritesInv /\ Hits /\ AtomicityInv /\ Plans /\ [Next]_vars => Plans'
  <2> SUFFICES ASSUME WritesInv, Hits, AtomicityInv, Plans, [Next]_vars
               PROVE  Plans'
    OBVIOUS
  <2>1. CASE UNCHANGED vars
    <3> SUFFICES ASSUME NEW t \in Txns PROVE PlanInv(t)'
      BY DEF Plans
    <3>1. PlanInv(t) /\ table' = table /\ txn' = txn /\ locked' = locked
      BY <2>1 DEF Plans, vars
    <3>2. Prepared(t)'
      BY <3>1 DEF PlanInv, Prepared, Writers, IsBulk, Present
    <3>3. \A k : Outlook(t, k)' = Outlook(t, k)
      BY <3>1 DEF Outlook, Flushed
    <3>4. Planned(t) => Planned(t)'
      <4>1. Old(t)' = Old(t)
        BY <3>1 DEF Old
      <4>2. \A copied : BulkPlanned(t, copied) => BulkPlanned(t, copied)'
        BY <3>1, <3>3, <4>1 DEF BulkPlanned
      <4>3. QED
        BY <3>1, <3>3, <4>1, <4>2 DEF Planned
    <3>5. QED
      BY <3>1, <3>2, <3>4 DEF PlanInv, Inserting
  <2>2. CASE \E t \in Txns : TxnStep(t) \/ Die(t)
    BY <2>2, OwnPlan, OtherPlan DEF Plans
  <2>3. QED
    BY <2>1, <2>2 DEF Next
<1>3. QED
  BY <1>1, <1>2, RetryInvariant, AtomicityInvariant, PTL DEF Spec

------------------------------------------------------------------------------
(* The transactions implement RowStore *)

LEMMA Mapped ==
    ASSUME TypeOK, NEW t \in Txns, NEW n, Become(t, n)
    PROVE  /\ Snapshots[t] = txn[t].snap
           /\ Snapshots' = [Snapshots EXCEPT ![t] = n.snap]
           /\ States[t] = CASE txn[t].at = "start" -> "waiting"
                            [] txn[t].at = "done" -> txn[t].outcome
                            [] OTHER -> "reading"
           /\ States' = [States EXCEPT ![t] = CASE n.at = "start" -> "waiting"
                                                [] n.at = "done" -> n.outcome
                                                [] OTHER -> "reading"]
BY DEF Snapshots, States, Become, TypeOK

\* The end of a transaction is the answer to its request.
LEMMA Answered ==
    ASSUME TypeOK, NEW t \in Txns, NEW outcome \in Outcomes, Become(t, Finished(t, outcome))
    PROVE  Store!Answer(t, outcome)
<1> DEFINE n == Finished(t, outcome)
<1>1. n.at = "done" /\ n.outcome = outcome /\ n.snap = [k \in Keys |-> NoRow]
  BY DEF Finished, NewSession
<1>2. Become(t, n)
  OBVIOUS
<1> HIDE DEF n
<1>3. QED
  BY <1>1, <1>2, Mapped DEF Store!Answer, Store!Nothing

\* A step within a transaction.
LEMMA Inside ==
    ASSUME TypeOK, NEW t \in Txns, NEW n, Become(t, n), UNCHANGED table,
           n.snap = txn[t].snap, n.at \notin {"start", "done"},
           txn[t].at \notin {"start", "done"}
    PROVE  UNCHANGED <<table, Snapshots, States>>
<1>1. /\ Snapshots' = [Snapshots EXCEPT ![t] = Snapshots[t]]
      /\ States' = [States EXCEPT ![t] = States[t]]
  BY Mapped
<1>2. QED
  BY <1>1 DEF Snapshots, States

\* A commit replaces at once what has become of the rows.
LEMMA CommitPuts ==
    ASSUME WritesInv, Plans, NEW t \in Txns, Commit(t),
           NEW new, \A k \in Target[t] : new[k] = Outlook(t, k)
    PROVE  Store!Put(t, new)
<1> DEFINE s == txn[t]
           changed == {k \in Target[t] : new[k] # Snapshots[t][k]}
<1>1. TypeOK /\ Target[t] \in SUBSET Keys /\ s.at = "commit"
  BY WritesAssumption DEF WritesInv, TypeInv, Commit
<1>2. \A k \in Keys : /\ Outlook(t, k) = s.view[k]
                      /\ k \notin Target[t] => s.view[k] = s.snap[k]
                      /\ locked[k] # t => s.view[k] = s.snap[k]
                      /\ locked[k] = t => s.snap[k] = table[k]
  <2>1. SessionInv(t) /\ Inserting(t) /\ Planned(t)
    BY <1>1 DEF WritesInv, Plans, PlanInv, Writing
  <2>2. \A k \in Keys : Outlook(t, k) = s.view[k]
    BY <1>1 DEF Outlook, Flushed, Edited, Commit, Dirty
  <2>3. QED
    BY <2>1, <2>2 DEF SessionInv, LockInv, Inserting, Planned
<1>3. Store!Answer(t, "ok") /\ States[t] = "reading" /\ Snapshots[t] = s.snap
  BY <1>1, Answered, Mapped DEF Commit, Outcomes
<1>4. \A k \in changed : table[k] = Snapshots[t][k]
  BY <1>1, <1>2, <1>3
<1>5. table' = [k \in Keys |-> IF k \in changed THEN new[k] ELSE table[k]]
  <2>1. table' = [k \in Keys |-> IF locked[k] = t THEN s.view[k] ELSE table[k]]
    BY DEF Commit
  <2>2. \A k \in Keys : (IF locked[k] = t THEN s.view[k] ELSE table[k])
                          = IF k \in changed THEN new[k] ELSE table[k]
    BY <1>1, <1>2, <1>3
  <2>3. QED
    BY <2>1, <2>2
<1>6. QED
  BY <1>3, <1>4, <1>5 DEF Store!Put

\* An abort answers without a change of the table.
LEMMA AbortRefuses ==
    ASSUME TypeOK, NEW t \in Txns, NEW outcome \in {"exists", "missing", "failed", "died"},
           Abort(t, outcome), txn[t].at # "done",
           outcome = "exists" => Op[t] = "create" /\ \E k \in Target[t] : table[k] # NoRow,
           outcome = "missing" => /\ Op[t] \in {"update", "delete"}
                                  /\ txn[t].at = "select" /\ Old(t) # Target[t]
    PROVE  Store!Refuse(t)
<1>1. Store!Answer(t, outcome) /\ UNCHANGED table
  BY Answered DEF Abort, Outcomes
<1>2. /\ States[t] \in {"waiting", "reading"} /\ Snapshots[t] = txn[t].snap
      /\ txn[t].at = "select" => States[t] = "reading"
  BY DEF States, Snapshots
<1>3. Store!Old(t) = Old(t)
  BY <1>2 DEF Store!Old, Old
<1>4. QED
  BY <1>1, <1>2, <1>3 DEF Store!Refuse

\* A commit is the operation of its request, applied to what it read.
LEMMA CommitImplements ==
    ASSUME WritesInv, Plans, NEW t \in Txns, Commit(t)
    PROVE  \/ Store!Create(t) \/ Store!Update(t) \/ Store!Delete(t)
           \/ Store!Bulk(t) \/ Store!RetriedBulk(t)
<1>1. /\ Op[t] \in {"bulk", "create", "update", "delete"} /\ Target[t] \in SUBSET Keys
      /\ txn[t].at = "commit" /\ txn[t].retries \in Nat /\ TypeOK
  BY WritesAssumption DEF WritesInv, TypeInv, TypeOK, Session, Commit
<1>2. Inserting(t) /\ Planned(t)
  BY <1>1 DEF Plans, PlanInv, Writing
<1>3. Snapshots[t] = txn[t].snap
  BY DEF Snapshots
<1>4. Store!Old(t) = Old(t)
  BY <1>3 DEF Store!Old, Old
<1>5. CASE Op[t] = "create"
  <2>1. Old(t) = {}
    BY <1>1, <1>2, <1>5 DEF Inserting, Old
  <2>2. Store!Put(t, [k \in Target[t] |-> Store!Created(t)])
    BY <1>2, <1>5, CommitPuts DEF Planned
  <2>3. QED
    BY <1>4, <1>5, <2>1, <2>2 DEF Store!Create
<1>6. CASE Op[t] = "update"
  <2>1. Store!Put(t, [k \in Target[t] |-> Store!Updated(t, Snapshots[t][k])])
    BY <1>2, <1>3, <1>6, CommitPuts DEF Planned
  <2>2. QED
    BY <1>2, <1>4, <1>6, <2>1 DEF Store!Update, Planned
<1>7. CASE Op[t] = "delete"
  <2>1. Store!Put(t, [k \in Target[t] |-> Store!Deleted(Snapshots[t][k])])
    BY <1>2, <1>3, <1>7, CommitPuts DEF Planned
  <2>2. QED
    BY <1>2, <1>4, <1>7, <2>1 DEF Store!Delete, Planned
<1>8. CASE Op[t] = "bulk" /\ txn[t].retries = 0
  <2>1. Store!Put(t, [k \in Target[t] |-> IF k \in Store!Old(t)
                                          THEN Store!Overwritten(t, Snapshots[t][k])
                                          ELSE Store!Created(t)])
    BY <1>2, <1>3, <1>4, <1>8, CommitPuts DEF Planned
  <2>2. QED
    BY <1>8, <2>1 DEF Store!Bulk
<1>9. CASE Op[t] = "bulk" /\ txn[t].retries > 0
  <2>1. PICK copied \in (SUBSET Old(t)) \ {{}} : BulkPlanned(t, copied)
    BY <1>2, <1>9 DEF Planned
  <2>2. Store!Put(t, [k \in Target[t] |->
                        IF k \in copied THEN IF Store!Old(t) = Target[t]
                                             THEN Store!CopiedLate(t, Snapshots[t][k])
                                             ELSE Store!Copied(t, Snapshots[t][k])
                        ELSE IF k \in Store!Old(t) THEN Store!Moved(t, Snapshots[t][k])
                        ELSE Store!Created(t)])
    BY <1>3, <1>4, <2>1, CommitPuts DEF BulkPlanned
  <2>3. QED
    BY <1>4, <1>9, <2>1, <2>2 DEF Store!RetriedBulk
<1>10. QED
  BY <1>1, <1>5, <1>6, <1>7, <1>8, <1>9

\* Every step of t is one of RowStore, or none.
LEMMA StepImplements ==
    ASSUME WritesInv, AtomicityInv, Hits, Plans, NEW t \in Txns, TxnStep(t) \/ Die(t)
    PROVE  Store!Next \/ UNCHANGED <<table, Snapshots, States>>
<1> DEFINE s    == txn[t]
           Goal == Store!Next \/ UNCHANGED <<table, Snapshots, States>>
<1>1. /\ TypeOK /\ s \in Session /\ s.at # "done"
  BY OwnSteps DEF WritesInv, TypeInv, TypeOK, AtomicityInv, OwnStep
<1>2. PlanInv(t)
  BY DEF Plans
<1>3. ASSUME NEW n, Become(t, n), UNCHANGED table, n.snap = s.snap,
             n.at \notin {"start", "done"}, s.at # "start"
      PROVE  Goal
  BY <1>1, <1>3, Inside
<1>4. ASSUME NEW outcome \in {"failed", "died"}, Abort(t, outcome)
      PROVE  Goal
  BY <1>1, <1>4, AbortRefuses DEF Store!Next
<1>5. ASSUME NEW k \in Keys, NEW row, NEW next \in Session, WriteRow(t, k, row, next),
             next.snap = s.snap, next.at = s.at, s.at # "start"
      PROVE  Goal
  <2>1. [next EXCEPT !.view[k] = row].snap = next.snap
        /\ [next EXCEPT !.view[k] = row].at = next.at
    BY DEF Session
  <2>2. CASE Become(t, next) /\ UNCHANGED table
    BY <1>1, <1>3, <1>5, <2>2
  <2>3. CASE Become(t, [next EXCEPT !.view[k] = row]) /\ UNCHANGED table
    BY <1>1, <1>3, <1>5, <2>1, <2>3
  <2>4. QED
    BY <1>4, <1>5, <2>2, <2>3 DEF WriteRow
<1>6. CASE Begin(t)
  <2> DEFINE n == [s EXCEPT !.at = IF IsBulk(t) THEN "advisory" ELSE "select",
                            !.snap = table, !.view = table]
  <2>1. Become(t, n) /\ UNCHANGED table /\ s.at \in {"start", "restart"}
    BY <1>6 DEF Begin
  <2>2. n.at \in {"advisory", "select"} /\ n.snap = table
    BY <1>1 DEF Session
  <2> HIDE DEF n
  <2>3. /\ Snapshots' = [Snapshots EXCEPT ![t] = table]
        /\ States' = [States EXCEPT ![t] = "reading"]
        /\ States[t] \in {"waiting", "reading"}
    BY <1>1, <2>1, <2>2, Mapped
  <2>4. QED
    BY <2>1, <2>3 DEF Store!Next, Store!Read
<1>7. CASE LockAdvisory(t) \/ EndFlush(t) \/ EndLocate(t)
  BY <1>1, <1>3, <1>7 DEF LockAdvisory, EndFlush, EndLocate, Session
<1>8. CASE SelectBulk(t) \/ SelectCreate(t)
  BY <1>1, <1>3, <1>8 DEF SelectBulk, SelectCreate, Session
<1>9. CASE Recheck(t)
  BY <1>1, <1>3, <1>4, <1>9 DEF Recheck, Session
<1>10. CASE SelectUpdate(t) \/ SelectDelete(t)
  <2>1. /\ s.at = "select" /\ Op[t] \in {"update", "delete"}
        /\ \/ ~(Target[t] \subseteq Found(t)) /\ Abort(t, "missing")
           \/ \E n : /\ Become(t, n) /\ n.snap = s.snap /\ n.at \in {"flush", "commit"}
                     /\ UNCHANGED table
    BY <1>1, <1>10 DEF SelectUpdate, SelectDelete, Session
  <2>2. Old(t) = Target[t] => Target[t] \subseteq Found(t)
    BY WritesAssumption DEF Old, Found, Exists
  <2>3. CASE ~(Target[t] \subseteq Found(t)) /\ Abort(t, "missing")
    BY <1>1, <2>1, <2>2, <2>3, AbortRefuses DEF Store!Next
  <2>4. QED
    BY <1>3, <2>1, <2>3
<1>11. ASSUME NEW k \in Keys, FlushUpdate(t, k)
       PROVE  Goal
  <2> DEFINE row  == Edited(t, s.dirty[k], s.view[k], s.snap[k])
             next == [s EXCEPT !.dirty[k] = "clean"]
  <2>1. WriteRow(t, k, row, next) /\ s.at \in {"flush", "commit"}
    BY <1>11 DEF FlushUpdate
  <2>2. next \in Session /\ next.snap = s.snap /\ next.at = s.at
    BY <1>1 DEF Session, Edits
  <2> HIDE DEF row, next
  <2>3. QED
    BY <1>5, <2>1, <2>2
<1>12. ASSUME NEW k \in Keys, SetLocation(t, k)
       PROVE  Goal
  <2> DEFINE row  == [s.view[k] EXCEPT !.loc = t]
             next == [s EXCEPT !.moves = s.moves \ {k}]
  <2>1. WriteRow(t, k, row, next) /\ s.at = "locate"
    BY <1>12 DEF SetLocation
  <2>2. next \in Session /\ next.snap = s.snap /\ next.at = s.at
    BY <1>1 DEF Session
  <2> HIDE DEF row, next
  <2>3. QED
    BY <1>5, <2>1, <2>2
<1>13. ASSUME NEW k \in Keys, FlushInsert(t, k)
       PROVE  Goal
  <2>1. s.at = "flush" /\ k \in s.pending
    BY <1>13 DEF FlushInsert
  <2>2. CASE UNCHANGED table /\ Become(t, [s EXCEPT !.view[k] = NewRow(t)])
    BY <1>1, <1>3, <2>1, <2>2 DEF Session
  <2>3. CASE Conflict(t) /\ IsBulk(t)
    BY <1>1, <1>3, <2>1, <2>3 DEF Conflict, Session
  <2>4. CASE Exists(table[k]) /\ Conflict(t) /\ ~IsBulk(t)
    <3>1. Inserting(t) /\ Op[t] \in {"create", "update", "delete"}
      BY <1>2, <2>1, <2>4, WritesAssumption DEF PlanInv, Writing, IsBulk
    <3>2. Op[t] = "create" /\ \E j \in Target[t] : table[j] # NoRow
      BY <2>1, <2>4, <3>1 DEF Inserting, Exists
    <3>3. QED
      BY <1>1, <2>4, <3>2, AbortRefuses DEF Conflict, Store!Next
  <2>5. QED
    BY <1>13, <2>2, <2>3, <2>4 DEF FlushInsert
<1>14. CASE Commit(t)
  BY <1>14, CommitImplements DEF Store!Next
<1>15. CASE AbortDeadlock(t) \/ Die(t)
  BY <1>4, <1>15 DEF AbortDeadlock, Die
<1>16. QED
  BY <1>6, <1>7, <1>8, <1>9, <1>10, <1>11, <1>12, <1>13, <1>14, <1>15 DEF TxnStep

\* Whatever the interleaving of their locks, flushes, retries and deaths, the
\* requests of write.py behave as if each read the table at one moment and wrote
\* what its endpoint makes of that at one later moment, or wrote nothing.
THEOREM WritesImplementRowStore == Spec => ImplementsRowStore
<1>1. Init => Store!Init
  <2> SUFFICES ASSUME Init PROVE Store!Init
    OBVIOUS
  <2>1. table \in [Keys -> {NoRow, Seed}]
    BY DEF Init
  <2>2. /\ Snapshots = [t \in Txns |-> [k \in Keys |-> NoRow]]
        /\ States = [t \in Txns |-> "waiting"]
    BY DEF Init, Snapshots, States, NewSession
  <2>3. QED
    BY <2>1, <2>2 DEF Store!Init, Store!Nothing
<1>2. WritesInv /\ AtomicityInv /\ Hits /\ Plans /\ [Next]_vars
         => [Store!Next]_<<table, Snapshots, States>>
  <2> SUFFICES ASSUME WritesInv, AtomicityInv, Hits, Plans, [Next]_vars
               PROVE  Store!Next \/ UNCHANGED <<table, Snapshots, States>>
    OBVIOUS
  <2>1. CASE UNCHANGED vars
    BY <2>1 DEF vars, Snapshots, States
  <2>2. QED
    BY <2>1, StepImplements DEF Next
<1>3. QED
  BY <1>1, <1>2, RetryInvariant, AtomicityInvariant, PlanInvariant, PTL
     DEF Spec, ImplementsRowStore, Store!Spec, Store!vars

\* A bulk that met no IntegrityError has, when it is acknowledged, written its
\* data to every row of its batch, and the location of those with coordinates.
THEOREM CleanBulksAreApplied == Spec => CleanBulkApplied
<1> DEFINE Applied == \A t \in Txns : Commits(t) /\ IsBulk(t) /\ txn[t].retries = 0 =>
                        \A k \in Target[t] : /\ table'[k].data = t
                                             /\ t \in Located => table'[k].loc = t
<1>1. WritesInv /\ AtomicityInv /\ Plans /\ [Next]_vars => [Applied]_vars
  <2> SUFFICES ASSUME WritesInv, AtomicityInv, Plans, Next, NEW t \in Txns,
                      Commits(t), IsBulk(t), txn[t].retries = 0, NEW k \in Target[t]
               PROVE  table'[k].data = t /\ (t \in Located => table'[k].loc = t)
    OBVIOUS
  <2>1. TypeOK /\ k \in Keys /\ txn[t].snap[k] \in Row
    BY WritesAssumption DEF WritesInv, TypeInv, TypeOK, Session
  <2>2. Commit(t)
    <3>1. PICK u \in Txns : TxnStep(u) \/ Die(u)
      BY DEF Next
    <3>2. txn[t].at = "commit" /\ txn'[t].outcome = "ok"
      BY DEF Commits
    <3>3. txn[t].outcome # "ok"
      BY <3>2 DEF AtomicityInv, SeesOnlyAcknowledged
    <3>4. u = t
      BY <2>1, <3>1, <3>2, <3>3, StepFrame
    <3>5. QED
      BY <3>1, <3>2, <3>3, <3>4, OwnSteps DEF AtomicityInv, OwnStep
  <2>3. txn[t].at = "commit" /\ Prepared(t) /\ Inserting(t) /\ Planned(t)
    BY <2>2 DEF Commit, Plans, PlanInv, Writing
  <2>4. Outlook(t, k) = txn[t].view[k]
    BY <2>1, <2>2, <2>3 DEF Outlook, Flushed, Edited, Commit, Dirty
  <2>5. Outlook(t, k) = Store!Overwritten(t, txn[t].snap[k]) \/ Outlook(t, k) = Store!Created(t)
    BY <2>3 DEF Planned, IsBulk
  <2>6. txn[t].view[k].data = t /\ (t \in Located => txn[t].view[k].loc = t)
    <3>1. \A row \in Row : /\ Store!Overwritten(t, row).data = t
                           /\ t \in Located => Store!Overwritten(t, row).loc = t
      BY DEF Store!Overwritten, Store!Moved, Row
    <3>2. Store!Created(t).data = t /\ (t \in Located => Store!Created(t).loc = t)
      BY DEF Store!Created, Store!Coord
    <3>3. QED
      BY <2>1, <2>4, <2>5, <3>1, <3>2
  <2>7. txn[t].snap[k].data # t
    BY <2>1, <2>3 DEF Prepared, Writers
  <2>8. locked[k] = t
    BY <2>1, <2>3, <2>6, <2>7 DEF Inserting
  <2>9. table'[k] = txn[t].view[k]
    BY <2>1, <2>2, <2>8 DEF Commit
  <2>10. QED
    BY <2>6, <2>9
<1>2. QED
  BY <1>1, RetryInvariant, AtomicityInvariant, PlanInvariant, PTL DEF Spec, CleanBulkApplied
==============================================================================
