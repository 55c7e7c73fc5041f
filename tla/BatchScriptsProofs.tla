-------------------------- MODULE BatchScriptsProofs -------------------------
(***************************************************************************)
(* Theorems about BatchScripts, for any number of rows, any set of run     *)
(* slots, any scripts that an Order describes and any batch size.          *)
(***************************************************************************)
EXTENDS BatchScripts, FiniteSetTheorems, TLAPS

\* A run that reads page by page, and writes.
Keyset(r) == r.how.cursor # "offset" /\ ~r.how.dry

Past(r, i) == IF r.how.cursor = "after" THEN i > r.cursor ELSE i >= r.cursor

\* What a keyset run still owes is ahead of it: past its cursor, or in the batch
\* at hand or past that.
Ahead(r) ==
    /\ r.at \in {"select", "tell"} => \A i \in r.due : Past(r, i)
    /\ r.at = "write" => \A i \in r.due : i \in r.batch \/ \A x \in r.batch : x < i
    /\ r.at = "done" => r.due = {}

\* Rows are locked while a batch is written, and up to the end by the offset
\* loop, which commits last or leaves them to the collector.
Lockless(r) ==
    r.at = "write" \/ (r.how.cursor = "offset" /\ r.at \in {"select", "tell", "failed"})
       \/ r.mine = {}

\* A locked row is as it was when it was locked.
Held(r, tbl) ==
    /\ r.how.guarded => \A i \in r.mine : tbl[i].field = "todo"
    /\ r.how.session = "request" => \A i \in r.mine : tbl[i] = r.snap[i]

Good(r, tbl) ==
    /\ r \in Run
    /\ Lockless(r)
    /\ Held(r, tbl)
    /\ r.due \subseteq Matching(r.how, tbl)
    /\ Keyset(r) => Ahead(r)

Exclusive == \A s, u \in Runs : s # u => run[s].mine \intersect run[u].mine = {}

BatchInv ==
    /\ table \in [Rows -> Row]
    /\ launches \in 0..MaxLaunches
    /\ writes \in 0..MaxWrites
    /\ run \in [Runs -> Run]
    /\ \A s \in Runs : Good(run[s], table)
    /\ Exclusive

------------------------------------------------------------------------------
(* Rows and runs *)

\* The counts of rows are numbers.
LEMMA RowsFinite ==
    \A S \in SUBSET Rows : IsFiniteSet(S) /\ Cardinality(S) \in Nat
<1>1. IsFiniteSet(Rows)
  BY BatchAssumption, FS_Interval DEF Rows
<1>2. QED
  BY <1>1, FS_Subset, FS_CardinalityType

LEMMA BasicTypes ==
    /\ BackfillSummary \in Order
    /\ NoRow \in Row
    /\ Blank \in [Rows -> Row]
    /\ Idle \in Run
<1>1. BackfillSummary \in Order
  BY DEF BackfillSummary, Order
<1>2. NoRow \in Row
  BY DEF NoRow, Row, Fields
<1>3. Blank \in [Rows -> Row]
  BY <1>2 DEF Blank
<1>4. QED
  BY <1>1, <1>2, <1>3 DEF Idle, Run

\* An ended run is good when it has kept its promise.
LEMMA EndedGood ==
    ASSUME NEW r \in Run, NEW tbl, NEW at \in Ends,
           r.due \subseteq Matching(r.how, tbl),
           at = "done" /\ Keyset(r) => r.due = {}
    PROVE  Good(Ended(r, at), tbl) /\ Ended(r, at).mine = {}
<1>1. r.how \in Order /\ r.due \in SUBSET Rows
  BY DEF Run
<1>2. CASE at = "done"
  <2>1. Ended(r, at) = [Idle EXCEPT !.at = "done", !.how = r.how, !.due = r.due]
    BY <1>2 DEF Ended
  <2> DEFINE e == [Idle EXCEPT !.at = "done", !.how = r.how, !.due = r.due]
  <2>2. e \in Run /\ e.mine = {} /\ e.at = "done" /\ e.how = r.how /\ e.due = r.due
    BY <1>1, BasicTypes DEF Run, Ends, Idle
  <2> HIDE DEF e
  <2>3. Keyset(e) => Ahead(e)
    BY <1>2, <2>2 DEF Keyset, Ahead
  <2>4. Good(e, tbl)
    BY <2>2, <2>3 DEF Good, Lockless, Held
  <2>5. QED
    BY <2>1, <2>2, <2>4 DEF e
<1>3. CASE at # "done"
  <2>1. Ended(r, at) = [Idle EXCEPT !.at = at]
    BY <1>3 DEF Ended
  <2> DEFINE e == [Idle EXCEPT !.at = at]
  <2>2. e \in Run /\ e.mine = {} /\ e.at = at /\ e.due = {}
    BY BasicTypes DEF Run, Idle
  <2> HIDE DEF e
  <2>3. Keyset(e) => Ahead(e)
    BY <2>2 DEF Keyset, Ahead, Ends
  <2>4. Good(e, tbl)
    BY <2>2, <2>3 DEF Good, Lockless, Held, Ends
  <2>5. QED
    BY <2>1, <2>2, <2>4 DEF e
<1>4. QED
  BY <1>2, <1>3

\* Settling a run on a table only takes obligations away.
LEMMA SettleGood ==
    ASSUME NEW r \in Run, NEW tbl \in [Rows -> Row],
           Lockless(r), Held(r, tbl), Keyset(r) => Ahead(r)
    PROVE  Good(Settle(r, tbl), tbl) /\ Settle(r, tbl).mine = r.mine
<1> DEFINE t == Settle(r, tbl)
<1>1. /\ t \in Run
      /\ t.due = r.due \intersect Matching(r.how, tbl)
      /\ t.at = r.at /\ t.how = r.how /\ t.cursor = r.cursor /\ t.batch = r.batch
      /\ t.mine = r.mine /\ t.snap = r.snap
  BY DEF Settle, Run
<1> HIDE DEF t
<1>2. Lockless(t) /\ Held(t, tbl)
  BY <1>1 DEF Lockless, Held
<1>3. Keyset(t) => Ahead(t)
  BY <1>1 DEF Keyset, Ahead, Past
<1>4. Good(t, tbl)
  BY <1>1, <1>2, <1>3 DEF Good
<1>5. QED
  BY <1>1, <1>4 DEF t

------------------------------------------------------------------------------
(* The three ways a step may change the state *)

\* A step of one run that leaves the table alone and locks free rows only.
LEMMA LocalStep ==
    ASSUME BatchInv, NEW s \in Runs, NEW r,
           Good(r, table),
           \A i \in r.mine : i \in run[s].mine \/ Free(s, i),
           run' = [run EXCEPT ![s] = r],
           UNCHANGED <<table, writes>>,
           launches' \in 0..MaxLaunches
    PROVE  BatchInv'
<1>1. \A u \in Runs : run'[u] = IF u = s THEN r ELSE run[u]
  BY DEF BatchInv
<1>2. \A u \in Runs : Good(run'[u], table')
  BY <1>1 DEF BatchInv
<1>3. Exclusive'
  <2>1. \A u \in Runs \ {s} : r.mine \intersect run[u].mine = {}
    BY DEF BatchInv, Exclusive, Free
  <2>2. QED
    BY <1>1, <2>1 DEF BatchInv, Exclusive
<1>4. run' \in [Runs -> Run]
  BY DEF BatchInv, Good
<1>5. QED
  BY <1>2, <1>3, <1>4 DEF BatchInv

\* A run commits its rows and releases them.
LEMMA CommitStep ==
    ASSUME BatchInv, NEW s \in Runs, NEW r \in Run,
           r.mine = {},
           Keyset(r) => Ahead(r),
           table' = With(table, s),
           run' = [u \in Runs |-> Settle(IF u = s THEN r ELSE run[u], With(table, s))],
           UNCHANGED <<launches, writes>>
    PROVE  BatchInv'
<1> DEFINE tbl == With(table, s)
<1>1. tbl \in [Rows -> Row]
  BY DEF With, BatchInv, Row, Fields
<1>2. \A u \in Runs \ {s} : \A i \in run[u].mine : i \in Rows /\ tbl[i] = table[i]
  BY DEF With, BatchInv, Exclusive, Good, Run
<1>3. \A u \in Runs \ {s} : Held(run[u], tbl)
  BY <1>2 DEF BatchInv, Good, Held
<1> HIDE DEF tbl
<1>4. \A u \in Runs \ {s} :
         Good(Settle(run[u], tbl), tbl) /\ Settle(run[u], tbl).mine = run[u].mine
  BY <1>1, <1>3, SettleGood DEF BatchInv, Good
<1>5. Good(Settle(r, tbl), tbl) /\ Settle(r, tbl).mine = {}
  <2>1. Lockless(r) /\ Held(r, tbl)
    BY DEF Lockless, Held
  <2>2. QED
    BY <1>1, <2>1, SettleGood
<1>6. \A u \in Runs : run'[u] = Settle(IF u = s THEN r ELSE run[u], tbl)
  BY DEF tbl
<1>7. \A u \in Runs : Good(run'[u], table')
  BY <1>4, <1>5, <1>6 DEF tbl
<1>8. Exclusive'
  BY <1>4, <1>5, <1>6 DEF BatchInv, Exclusive
<1>9. run' \in [Runs -> Run]
  BY <1>4, <1>5 DEF tbl, Good
<1>10. QED
  BY <1>1, <1>7, <1>8, <1>9 DEF BatchInv, tbl

\* Somebody else writes a row that no run has locked.
LEMMA OtherStep ==
    ASSUME BatchInv, NEW i \in Rows,
           NEW row \in [active : BOOLEAN, field : {"todo", "hand"}],
           OtherWrite(i, row)
    PROVE  BatchInv'
<1>1. table' \in [Rows -> Row] /\ \A j \in Rows : j # i => table'[j] = table[j]
  BY DEF OtherWrite, BatchInv, Row, Fields
<1>2. writes' \in 0..MaxWrites /\ launches' \in 0..MaxLaunches
  BY BatchAssumption DEF OtherWrite, BatchInv
<1>3. \A u \in Runs : run'[u] = Settle(run[u], table')
  BY DEF OtherWrite
<1>4. \A u \in Runs : Held(run[u], table')
  BY <1>1 DEF OtherWrite, BatchInv, Good, Held, Run
<1>5. \A u \in Runs :
         Good(Settle(run[u], table'), table') /\ Settle(run[u], table').mine = run[u].mine
  BY <1>1, <1>4, SettleGood DEF BatchInv, Good
<1>6. run' \in [Runs -> Run]
  BY <1>5 DEF OtherWrite, Good
<1>7. QED
  BY <1>1, <1>2, <1>3, <1>5, <1>6 DEF BatchInv, Exclusive

\* A run ends and rolls back; to end by itself it must owe nothing.
LEMMA EndStep ==
    ASSUME BatchInv, NEW s \in Runs, NEW at \in Ends, End(s, at),
           at = "done" /\ Keyset(run[s]) => run[s].due = {}
    PROVE  BatchInv'
<1> DEFINE e == Ended(run[s], at)
<1>1. Good(e, table) /\ e.mine = {}
  BY EndedGood DEF BatchInv, Good
<1>2. run' = [run EXCEPT ![s] = e]
  BY DEF End
<1>3. UNCHANGED <<table, writes>> /\ launches' \in 0..MaxLaunches
  BY DEF End, BatchInv
<1> HIDE DEF e
<1>4. \A i \in e.mine : i \in run[s].mine \/ Free(s, i)
  BY <1>1
<1>5. QED
  BY <1>1, <1>2, <1>3, <1>4, LocalStep

\* A run goes on, locking at most one free row.
LEMMA ContinueStep ==
    ASSUME BatchInv, NEW s \in Runs, NEW r, Continue(s, r), Good(r, table),
           \A i \in r.mine : i \in run[s].mine \/ Free(s, i)
    PROVE  BatchInv'
<1>1. /\ run' = [run EXCEPT ![s] = r]
      /\ UNCHANGED <<table, writes>>
      /\ launches' \in 0..MaxLaunches
  BY DEF Continue, BatchInv
<1>2. QED
  BY <1>1, LocalStep

------------------------------------------------------------------------------
(* The steps of a run *)

LEMMA LaunchStep ==
    ASSUME BatchInv, NEW s \in Runs, NEW o \in Orders, Launch(s, o)
    PROVE  BatchInv'
<1> DEFINE r == [Idle EXCEPT !.at = IF o.cursor = "after" THEN "select" ELSE "begin",
                             !.how = o,
                             !.snap = IF o.cursor = "offset" THEN table ELSE Blank,
                             !.due = Matching(o, table)]
<1>1. o \in Order
  BY BatchAssumption
<1>2. Matching(o, table) \in SUBSET Rows
  BY DEF Matching
<1>3. /\ r \in Run
      /\ r.at = IF o.cursor = "after" THEN "select" ELSE "begin"
      /\ r.how = o /\ r.cursor = 0 /\ r.mine = {} /\ r.due = Matching(o, table)
  BY <1>1, <1>2, BasicTypes DEF Run, Idle, BatchInv
<1>4. run' = [run EXCEPT ![s] = r] /\ UNCHANGED <<table, writes>>
  BY DEF Launch
<1>5. launches' \in 0..MaxLaunches
  BY BatchAssumption DEF Launch, BatchInv
<1> HIDE DEF r
<1>6. Keyset(r) => Ahead(r)
  BY <1>1, <1>2, <1>3 DEF Keyset, Ahead, Past, Rows, Order
<1>7. Good(r, table)
  BY <1>3, <1>6 DEF Good, Lockless, Held
<1>8. \A i \in r.mine : i \in run[s].mine \/ Free(s, i)
  BY <1>3
<1>9. QED
  BY <1>4, <1>5, <1>7, <1>8, LocalStep

LEMMA BeginFromStep ==
    ASSUME BatchInv, NEW s \in Runs, BeginFrom(s)
    PROVE  BatchInv'
<1> DEFINE rows == Matching(run[s].how, table)
<1>1. run[s].due \subseteq rows /\ rows \subseteq Rows /\ run[s].mine = {}
  BY DEF BatchInv, Good, Lockless, BeginFrom, Matching
<1>2. CASE rows = {}
  <2>1. End(s, "done")
    BY <1>2 DEF BeginFrom
  <2>2. QED
    BY <1>1, <1>2, <2>1, EndStep DEF Ends
<1>3. CASE rows # {}
  <2>1. PICK first \in rows :
            /\ \A i \in rows : first <= i
            /\ Continue(s, [run[s] EXCEPT !.at = "select", !.cursor = first])
    BY <1>3 DEF BeginFrom
  <2> DEFINE r == [run[s] EXCEPT !.at = "select", !.cursor = first]
  <2>2. first \in Nat /\ first # 0
    BY <1>1, <2>1, BatchAssumption DEF Rows
  <2>3. /\ r \in Run
        /\ r.at = "select" /\ r.how = run[s].how /\ r.cursor = first
        /\ r.mine = {} /\ r.due = run[s].due
    BY <1>1, <2>2 DEF Run, BatchInv
  <2> HIDE DEF r
  <2>4. Keyset(r) => Ahead(r)
    BY <1>1, <2>1, <2>3 DEF Keyset, Ahead, Past, BeginFrom
  <2>5. Good(r, table)
    BY <1>1, <2>2, <2>3, <2>4 DEF Good, Lockless, Held
  <2>6. Continue(s, r) /\ \A i \in r.mine : i \in run[s].mine \/ Free(s, i)
    BY <2>1, <2>3 DEF r
  <2>7. QED
    BY <2>5, <2>6, ContinueStep
<1>4. QED
  BY <1>2, <1>3

LEMMA BeginOffsetStep ==
    ASSUME BatchInv, NEW s \in Runs, BeginOffset(s)
    PROVE  BatchInv'
<1>1. PICK view \in {run[s].snap, table} :
         IF Cardinality(Matching(run[s].how, view)) = 0
         THEN End(s, "done")
         ELSE Continue(s, [run[s] EXCEPT !.at = "select", !.snap = view,
                             !.total = Cardinality(Matching(run[s].how, view))])
  BY DEF BeginOffset
<1> DEFINE total == Cardinality(Matching(run[s].how, view))
<1>2. total \in Nat
  BY RowsFinite DEF Matching
<1>3. /\ run[s].how.cursor = "offset" /\ ~Keyset(run[s])
      /\ run[s].mine = {} /\ run[s] \in Run
  BY DEF BeginOffset, Keyset, BatchInv, Good, Lockless
<1>4. CASE total = 0
  BY <1>1, <1>3, <1>4, EndStep DEF Ends
<1>5. CASE total # 0
  <2> DEFINE r == [run[s] EXCEPT !.at = "select", !.snap = view, !.total = total]
  <2>1. Continue(s, r)
    BY <1>1, <1>5
  <2> HIDE DEF total
  <2>2. /\ r \in Run
        /\ r.at = "select" /\ r.how = run[s].how
        /\ r.mine = {} /\ r.due = run[s].due
    BY <1>2, <1>3 DEF Run, BatchInv
  <2> HIDE DEF r
  <2>3. Good(r, table)
    BY <1>3, <2>2 DEF Good, Lockless, Held, BatchInv, Keyset
  <2>4. QED
    BY <2>1, <2>2, <2>3, ContinueStep
<1>6. QED
  BY <1>4, <1>5

LEMMA SelectKeysetStep ==
    ASSUME BatchInv, NEW s \in Runs, SelectKeyset(s)
    PROVE  BatchInv'
<1> DEFINE how == run[s].how
           rows == Pending(run[s], table)
           written(b) ==
             [run[s] EXCEPT !.at = "write", !.batch = b,
                            !.left = IF how.dry THEN {} ELSE b,
                            !.snap = IF how.session = "request" THEN table ELSE Blank]
<1>1. IF rows = {}
      THEN End(s, "done")
      ELSE \E b \in SUBSET rows : IsPage(b, rows) /\ Continue(s, written(b))
  BY DEF SelectKeyset
<1>2. /\ rows \subseteq Rows /\ run[s].mine = {} /\ how \in Order
      /\ run[s] \in Run /\ table \in [Rows -> Row]
  BY DEF BatchInv, Good, Lockless, SelectKeyset, Pending, Matching, Run
<1>3. Keyset(run[s]) => run[s].due \subseteq rows
  BY DEF SelectKeyset, BatchInv, Good, Ahead, Pending, Past
<1>4. CASE rows = {}
  BY <1>1, <1>3, <1>4, EndStep DEF Ends
<1>5. CASE rows # {}
  <2>1. PICK b \in SUBSET rows : IsPage(b, rows) /\ Continue(s, written(b))
    BY <1>1, <1>5
  <2> DEFINE r == written(b)
  <2>2. b \in SUBSET Rows
    BY <1>2
  <2>3. /\ r \in Run
        /\ r.at = "write" /\ r.how = run[s].how /\ r.batch = b
        /\ r.mine = {} /\ r.due = run[s].due
    BY <1>2, <2>2, BasicTypes DEF Run
  <2>4. Continue(s, r)
    BY <2>1
  <2> HIDE DEF r
  <2>5. Keyset(r) => Ahead(r)
    <3>1. \A x \in b, y \in rows \ b : x < y
      BY <2>1 DEF IsPage
    <3> HIDE DEF rows
    <3>2. QED
      BY <1>3, <2>3, <3>1 DEF Keyset, Ahead
  <2>6. Good(r, table)
    BY <2>3, <2>5 DEF Good, Lockless, Held, BatchInv
  <2>7. QED
    BY <2>3, <2>4, <2>6, ContinueStep
<1>6. QED
  BY <1>4, <1>5

LEMMA SelectOffsetStep ==
    ASSUME BatchInv, NEW s \in Runs, SelectOffset(s)
    PROVE  BatchInv'
<1> DEFINE seen == Matching(run[s].how, With(run[s].snap, s))
           more == run[s].cursor < run[s].total /\ run[s].cursor < Cardinality(seen)
<1>1. ~Keyset(run[s]) /\ run[s] \in Run /\ seen \subseteq Rows
  BY DEF SelectOffset, Keyset, BatchInv, Matching
<1>2. CASE more
  <2>1. PICK b \in SUBSET seen :
            Continue(s, [run[s] EXCEPT !.at = "write", !.batch = b,
                                       !.left = IF run[s].how.dry THEN {} ELSE b])
    BY <1>2 DEF SelectOffset
  <2> DEFINE r == [run[s] EXCEPT !.at = "write", !.batch = b,
                                 !.left = IF run[s].how.dry THEN {} ELSE b]
  <2>2. Continue(s, r)
    BY <2>1
  <2>3. b \in SUBSET Rows
    BY <1>1
  <2>4. /\ r \in Run
        /\ r.at = "write" /\ r.how = run[s].how /\ r.snap = run[s].snap
        /\ r.mine = run[s].mine /\ r.due = run[s].due
    BY <1>1, <2>3 DEF Run
  <2> HIDE DEF r
  <2>5. Good(r, table)
    BY <1>1, <2>4 DEF Good, Lockless, Held, BatchInv, Keyset
  <2>6. QED
    BY <2>2, <2>4, <2>5, ContinueStep
<1>3. CASE ~more
  <2> DEFINE r == [run[s] EXCEPT !.due = @ \ run[s].mine]
             e == Ended(r, "done")
  <2>1. /\ table' = With(table, s)
        /\ run' = [u \in Runs |-> Settle(IF u = s THEN e ELSE run[u], With(table, s))]
        /\ UNCHANGED <<launches, writes>>
    BY <1>3 DEF SelectOffset
  <2>2. r \in Run /\ r.how = run[s].how /\ r.due \subseteq run[s].due
    BY <1>1 DEF Run
  <2> HIDE DEF r
  <2>3. Good(e, table) /\ e.mine = {}
    BY <1>1, <2>2, EndedGood DEF BatchInv, Good, Keyset, Ends
  <2> HIDE DEF e
  <2>4. e \in Run /\ (Keyset(e) => Ahead(e))
    BY <2>3 DEF Good
  <2>5. QED
    BY <2>1, <2>3, <2>4, CommitStep
<1>4. QED
  BY <1>2, <1>3

LEMMA WriteRowStep ==
    ASSUME BatchInv, NEW s \in Runs, NEW i \in Rows, WriteRow(s, i)
    PROVE  BatchInv'
<1> DEFINE r == [run[s] EXCEPT !.left = @ \ {i}, !.mine = @ \union {i}]
<1>1. Continue(s, r)
  BY DEF WriteRow
<1>2. /\ r \in Run
      /\ r.at = "write" /\ r.how = run[s].how /\ r.batch = run[s].batch
      /\ r.snap = run[s].snap /\ r.due = run[s].due
      /\ r.mine = run[s].mine \union {i}
  BY DEF Run, BatchInv, WriteRow, Upcoming
<1> HIDE DEF r
<1>3. Held(r, table)
  BY <1>2 DEF Held, BatchInv, Good, WriteRow
<1>4. Keyset(r) => Ahead(r)
  BY <1>2 DEF Keyset, Ahead, BatchInv, Good, WriteRow, Upcoming
<1>5. Good(r, table)
  BY <1>2, <1>3, <1>4 DEF Good, Lockless, BatchInv
<1>6. \A j \in r.mine : j \in run[s].mine \/ Free(s, j)
  BY <1>2 DEF WriteRow
<1>7. QED
  BY <1>1, <1>5, <1>6, ContinueStep

LEMMA SkipRowStep ==
    ASSUME BatchInv, NEW s \in Runs, NEW i \in Rows, SkipRow(s, i)
    PROVE  BatchInv'
<1> DEFINE r == [run[s] EXCEPT !.left = @ \ {i}]
<1>1. Continue(s, r)
  BY DEF SkipRow
<1>2. /\ r \in Run
      /\ r.at = "write" /\ r.how = run[s].how /\ r.batch = run[s].batch
      /\ r.snap = run[s].snap /\ r.due = run[s].due
      /\ r.mine = run[s].mine
  BY DEF Run, BatchInv, SkipRow, Upcoming
<1> HIDE DEF r
<1>3. Keyset(r) => Ahead(r)
  BY <1>2 DEF Keyset, Ahead, BatchInv, Good, SkipRow, Upcoming
<1>4. Good(r, table)
  BY <1>2, <1>3 DEF Good, Lockless, Held, BatchInv
<1>5. QED
  BY <1>1, <1>2, <1>4, ContinueStep

LEMMA EndBatchStep ==
    ASSUME BatchInv, NEW s \in Runs, EndBatch(s)
    PROVE  BatchInv'
<1>1. run[s] \in Run /\ run[s].at = "write" /\ UNCHANGED <<launches, writes>>
  BY DEF EndBatch, BatchInv
<1>2. CASE run[s].how.cursor = "offset"
  <2> DEFINE r == [run[s] EXCEPT !.at = "tell", !.batch = {},
                                 !.cursor = @ + Cardinality(run[s].batch)]
  <2>1. run' = [run EXCEPT ![s] = r] /\ UNCHANGED table
    BY <1>2 DEF EndBatch
  <2>2. run[s].cursor + Cardinality(run[s].batch) \in Nat
    BY <1>1, RowsFinite DEF Run
  <2>3. /\ r \in Run
        /\ r.at = "tell" /\ r.how = run[s].how /\ r.snap = run[s].snap
        /\ r.mine = run[s].mine /\ r.due = run[s].due
    BY <1>1, <2>2 DEF Run
  <2> HIDE DEF r
  <2>4. Good(r, table)
    BY <1>2, <2>3 DEF Good, Lockless, Held, BatchInv, Keyset
  <2>5. Continue(s, r)
    BY <1>1, <2>1 DEF Continue
  <2>6. QED
    BY <2>3, <2>4, <2>5, ContinueStep
<1>3. CASE run[s].how.cursor # "offset"
  <2>1. PICK last \in run[s].batch :
           /\ \A i \in run[s].batch : i <= last
           /\ table' = With(table, s)
           /\ run' = [u \in Runs |-> Settle(
                 IF u = s
                 THEN [run[s] EXCEPT !.at = "tell", !.cursor = last, !.batch = {},
                                     !.mine = {},
                                     !.due = IF run[s].how.dry THEN @ ELSE @ \ run[s].batch]
                 ELSE run[u], With(table, s))]
    BY <1>3 DEF EndBatch
  <2> DEFINE r == [run[s] EXCEPT !.at = "tell", !.cursor = last, !.batch = {},
                                 !.mine = {},
                                 !.due = IF run[s].how.dry THEN @ ELSE @ \ run[s].batch]
  <2>2. last \in Nat /\ last # 0
    BY <1>1, <2>1, BatchAssumption DEF Run, Rows
  <2>3. /\ r \in Run
        /\ r.at = "tell" /\ r.how = run[s].how /\ r.cursor = last /\ r.mine = {}
        /\ r.due = IF run[s].how.dry THEN run[s].due ELSE run[s].due \ run[s].batch
    BY <1>1, <2>2 DEF Run
  <2>4. run' = [u \in Runs |-> Settle(IF u = s THEN r ELSE run[u], With(table, s))]
    BY <2>1
  <2> HIDE DEF r
  <2>5. Keyset(r) => Ahead(r)
    <3>1. Keyset(run[s]) => \A i \in run[s].due \ run[s].batch : last < i
      BY <1>1, <2>1 DEF Keyset, BatchInv, Good, Ahead
    <3>2. \A i \in run[s].due : i \in Nat
      BY <1>1, BatchAssumption DEF Run, Rows
    <3>3. QED
      BY <2>2, <2>3, <3>1, <3>2 DEF Keyset, Ahead, Past
  <2>6. QED
    BY <1>1, <2>1, <2>3, <2>4, <2>5, CommitStep
<1>4. QED
  BY <1>2, <1>3

LEMMA TellStep ==
    ASSUME BatchInv, NEW s \in Runs, Tell(s)
    PROVE  BatchInv'
<1>1. CASE run[s].how.message
  BY <1>1, EndStep DEF Tell, Ends
<1>2. CASE ~run[s].how.message
  <2> DEFINE r == [run[s] EXCEPT !.at = "select"]
  <2>1. Continue(s, r)
    BY <1>2 DEF Tell
  <2>2. /\ r \in Run
        /\ r.at = "select" /\ r.how = run[s].how /\ r.cursor = run[s].cursor
        /\ r.snap = run[s].snap /\ r.mine = run[s].mine /\ r.due = run[s].due
    BY DEF Run, BatchInv
  <2> HIDE DEF r
  <2>3. Keyset(r) => Ahead(r)
    BY <2>2 DEF Keyset, Ahead, Past, BatchInv, Good, Tell
  <2>4. Good(r, table)
    BY <2>2, <2>3 DEF Good, Lockless, Held, BatchInv, Tell
  <2>5. QED
    BY <2>1, <2>2, <2>4, ContinueStep
<1>3. QED
  BY <1>1, <1>2

\* What an abandoned run has locked stays locked, and as it was.
LEMMA AbandonStep ==
    ASSUME BatchInv, NEW s \in Runs, Abandon(s)
    PROVE  BatchInv'
<1> DEFINE e == Ended(run[s], "failed")
           r == [e EXCEPT !.how = run[s].how, !.mine = run[s].mine, !.snap = run[s].snap]
<1>1. run[s] \in Run /\ Good(run[s], table)
  BY DEF BatchInv
<1>2. run[s].how.cursor = "offset"
  BY <1>1 DEF Abandon, Good, Lockless
<1>3. e \in Run /\ e.at = "failed" /\ e.due = {}
  BY BasicTypes DEF Ended, Run, Idle, Ends
<1>4. Continue(s, r)
  BY DEF Abandon
<1> HIDE DEF e
<1>5. /\ r \in Run
      /\ r.at = "failed" /\ r.how = run[s].how /\ r.mine = run[s].mine
      /\ r.snap = run[s].snap /\ r.due = {}
  BY <1>1, <1>3 DEF Run
<1> HIDE DEF r
<1>6. Good(r, table)
  BY <1>1, <1>2, <1>5 DEF Good, Lockless, Held, Keyset
<1>7. QED
  BY <1>4, <1>5, <1>6, ContinueStep

------------------------------------------------------------------------------
(* The invariant *)

LEMMA BatchInit == Init => BatchInv
<1> SUFFICES ASSUME Init PROVE BatchInv
  OBVIOUS
<1>1. table \in [Rows -> Row]
  BY BatchAssumption DEF Init, Row, Fields
<1>2. \A s \in Runs : run[s] = Idle
  BY DEF Init
<1>3. Idle.mine = {} /\ Idle.due = {} /\ Idle.at = "idle"
  BY DEF Idle
<1>4. Good(Idle, table)
  BY <1>3, BasicTypes DEF Good, Lockless, Held, Ahead
<1>5. QED
  BY <1>1, <1>2, <1>3, <1>4, BasicTypes, BatchAssumption DEF Init, BatchInv, Exclusive

LEMMA BatchStep == BatchInv /\ [Next]_vars => BatchInv'
<1> SUFFICES ASSUME BatchInv, [Next]_vars PROVE BatchInv'
  OBVIOUS
<1>1. ASSUME NEW s \in Runs, RunStep(s) PROVE BatchInv'
  <2>1. CASE BeginFrom(s)
    BY <2>1, BeginFromStep
  <2>2. CASE BeginOffset(s)
    BY <2>2, BeginOffsetStep
  <2>3. CASE SelectKeyset(s)
    BY <2>3, SelectKeysetStep
  <2>4. CASE SelectOffset(s)
    BY <2>4, SelectOffsetStep
  <2>5. ASSUME NEW i \in Rows, WriteRow(s, i) PROVE BatchInv'
    BY <2>5, WriteRowStep
  <2>6. ASSUME NEW i \in Rows, SkipRow(s, i) PROVE BatchInv'
    BY <2>6, SkipRowStep
  <2>7. ASSUME NEW i \in Rows, Conflict(s, i) PROVE BatchInv'
    BY <2>7, EndStep DEF Conflict, Ends
  <2>8. CASE EndBatch(s)
    BY <2>8, EndBatchStep
  <2>9. CASE Tell(s)
    BY <2>9, TellStep
  <2>10. CASE AbortDeadlock(s)
    BY <2>10, EndStep DEF AbortDeadlock, Ends
  <2>11. CASE Collect(s)
    BY <2>11, EndStep DEF Collect, Ends
  <2>12. QED
    BY <1>1, <2>1, <2>2, <2>3, <2>4, <2>5, <2>6, <2>7, <2>8, <2>9, <2>10, <2>11
       DEF RunStep
<1>2. ASSUME NEW s \in Runs, Timeout(s) PROVE BatchInv'
  BY <1>2, EndStep DEF Timeout, Ends
<1>3. ASSUME NEW s \in Runs, Fail(s) PROVE BatchInv'
  BY <1>3, EndStep DEF Fail, Ends
<1>4. ASSUME NEW s \in Runs, NEW o \in Orders, Launch(s, o) PROVE BatchInv'
  BY <1>4, LaunchStep
<1>5. ASSUME NEW i \in Rows, NEW row \in [active : BOOLEAN, field : {"todo", "hand"}],
             OtherWrite(i, row)
      PROVE  BatchInv'
  BY <1>5, OtherStep
<1>6. CASE UNCHANGED vars
  BY <1>6 DEF vars, BatchInv, Good, Held, Lockless, Ahead, Past, Keyset, Exclusive, Matching
<1>7. ASSUME NEW s \in Runs, Abandon(s) PROVE BatchInv'
  BY <1>7, AbandonStep
<1>8. QED
  BY <1>1, <1>2, <1>3, <1>4, <1>5, <1>6, <1>7 DEF Next

LEMMA BatchInvariant == Spec => []BatchInv
  BY BatchInit, BatchStep, PTL DEF Spec

------------------------------------------------------------------------------
(* The theorems *)

\* Every variable keeps its type, and a run that has ended holds no row lock,
\* unless it failed in the offset loop and its session is not collected yet.
THEOREM BatchTypeCorrect == Spec => []TypeOK
<1>1. BatchInv => TypeOK
  BY DEF BatchInv, TypeOK, Good, Lockless, Ends
<1>2. QED
  BY <1>1, BatchInvariant, PTL

\* A keyset run that ends by itself has dealt with every row that met its
\* condition from its start to its end, for any table and any batch size.
THEOREM NothingIsLeftBehind == Spec => []NothingLeftBehind
<1>1. BatchInv => NothingLeftBehind
  BY DEF BatchInv, NothingLeftBehind, Good, Keyset, Ahead
<1>2. QED
  BY <1>1, BatchInvariant, PTL

\* What a run on the session of the request has written and not committed is
\* still as its snapshot shows it.
THEOREM NothingIsOverwrittenBlindly == Spec => []NoBlindOverwrite
<1>1. BatchInv => NoBlindOverwrite
  BY DEF BatchInv, NoBlindOverwrite, Good, Held
<1>2. QED
  BY <1>1, BatchInvariant, PTL

\* A guarded script writes empty fields only.
THEOREM GuardedFillsEmpty == Spec => OnlyFillsEmpty
<1> DEFINE Fills ==
      \A s \in Runs, i \in Rows :
          run[s].how.guarded /\ table'[i].field = s /\ table[i].field # s
             => table[i].field = "todo"
<1>1. BatchInv /\ [Next]_vars => [Fills]_vars
  <2> SUFFICES ASSUME BatchInv, [Next]_vars,
                      NEW s \in Runs, NEW i \in Rows,
                      run[s].how.guarded, table'[i].field = s, table[i].field # s
               PROVE  table[i].field = "todo"
    OBVIOUS
  <2>1. table' # table
    OBVIOUS
  <2>2. CASE \E u \in Runs : table' = With(table, u)
    <3>1. PICK u \in Runs : table' = With(table, u)
      BY <2>2
    <3>2. i \in run[u].mine /\ table'[i].field = u
      BY <3>1 DEF With, BatchInv, Row
    <3>3. QED
      BY <3>2 DEF BatchInv, Good, Held
  <2>3. CASE \E j \in Rows, row \in [active : BOOLEAN, field : {"todo", "hand"}] :
                OtherWrite(j, row)
    BY <2>3, BatchAssumption DEF OtherWrite, BatchInv, Row
  <2>4. QED
    BY <2>1, <2>2, <2>3 DEF Next, vars, RunStep, Launch, BeginFrom, BeginOffset,
       SelectKeyset, SelectOffset, WriteRow, SkipRow, Conflict, EndBatch, Tell,
       AbortDeadlock, Timeout, Fail, Abandon, Collect, End, Continue
<1>2. QED
  BY <1>1, BatchInvariant, PTL DEF Spec, OnlyFillsEmpty

==============================================================================
