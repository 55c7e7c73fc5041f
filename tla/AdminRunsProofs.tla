--------------------------- MODULE AdminRunsProofs ----------------------------
(***************************************************************************)
(* Theorems about AdminRuns, for any number of runs, originals, batch      *)
(* sizes and plans.                                                        *)
(***************************************************************************)
EXTENDS AdminRuns, FiniteSetTheorems, TLAPS

Copies == Ids \ (1..N)

\* The sets of a task: what it writes are copies, and when it is over it
\* writes nothing.
Sound(t) ==
    /\ CopiesOf(t.batch) \subseteq Copies
    /\ t.left \subseteq Copies /\ t.pending \subseteq Copies /\ t.made \subseteq Copies
    /\ t.at \in {"idle", "over", "dead"} => ~t.open /\ t.pending = {}
\* What most steps leave alone.
Carries(t, u) == /\ t.plan = u.plan /\ t.asked = u.asked /\ t.made = u.made
                 /\ t.pending = u.pending /\ t.left = u.left /\ t.created = u.created

TablesInv == /\ entities \subseteq Ids /\ ledger \subseteq entities \intersect Copies
             /\ Foreign \subseteq entities
             /\ stopFile \in BOOLEAN /\ changes \in 0..MaxChanges
             /\ record \in [Runs -> Statuses]
RunsInv   == /\ run \in [Runs -> Run]
             /\ \A r \in Runs : Sound(run[r])
TypeInv   == TablesInv /\ RunsInv

------------------------------------------------------------------------------
(* Values *)

LEMMA IdsFinite == IsFiniteSet(Ids) /\ \A S \in SUBSET Ids : IsFiniteSet(S)
  <1>1. 1 \in Int /\ N * (1 + Depth) \in Int  BY RunsAssumption
  <1>2. IsFiniteSet(Ids)  BY <1>1, FS_Interval DEF Ids
  <1> QED  BY <1>2, FS_Subset

LEMMA Counts == \A S \in SUBSET Ids : Cardinality(S) \in Nat
  BY IdsFinite, FS_CardinalityType

LEMMA IdleRun == Idle \in Run /\ Sound(Idle)
  <1>1. Idle.plan \in Plan  BY DEF Idle, Plan
  <1>2. Idle \in Run  BY <1>1 DEF Idle, Run, Phases, Updating, Loop
  <1> QED  BY <1>2 DEF Idle, Sound, CopiesOf

\* A copy is behind every original.
LEMMA CopyIsNoOriginal == \A n \in Ids : CopyOf(n) \in Ids => CopyOf(n) \in Copies
  BY RunsAssumption DEF CopyOf, Copies, Ids

\* A task moves: the other tasks stay as they are.
LEMMA OneRun ==
    ASSUME RunsInv, NEW r \in Runs, NEW t \in Run, Sound(t),
           run' = [run EXCEPT ![r] = t]
    PROVE  RunsInv'
  BY DEF RunsInv

LEMMA OneTask ==
    ASSUME TypeInv, NEW r \in Runs, NEW t \in Run, Sound(t), Continue(r, t)
    PROVE  TypeInv'
  BY OneRun DEF TypeInv, TablesInv, Continue, tables

LEMMA TheRun == ASSUME RunsInv, NEW r \in Runs  PROVE run[r] \in Run /\ Sound(run[r])
  BY DEF RunsInv

LEMMA RecordWritten ==
    ASSUME record \in [Runs -> Statuses], NEW r \in Runs, NEW s \in Statuses,
           WriteRecord(r, s)
    PROVE  record' \in [Runs -> Statuses]
  BY DEF WriteRecord

LEMMA ClosedRun ==
    ASSUME NEW t \in Run, Sound(t)
    PROVE  /\ Closed(t) \in Run /\ Sound(Closed(t)) /\ ~Closed(t).open
           /\ Closed(t).at = t.at /\ Carries(Closed(t), t) /\ Closed(t).success = t.success
  <1>1. Idle.view \in [entities : SUBSET Ids, ledger : SUBSET Ids]  BY DEF Idle
  <1> QED  BY <1>1 DEF Closed, Run, Sound, Carries

LEMMA EndedRun ==
    ASSUME NEW t \in Run, Sound(t), NEW at \in {"over", "dead"}
    PROVE  /\ Ended(t, at) \in Run /\ Sound(Ended(t, at)) /\ Ended(t, at).at = at
           /\ Ended(t, at).plan = t.plan /\ Ended(t, at).made = t.made
           /\ Ended(t, at).left = {} /\ Ended(t, at).pending = {}
           /\ Ended(t, at).success = t.success /\ Ended(t, at).created = t.created
  <1>1. Idle.view \in [entities : SUBSET Ids, ledger : SUBSET Ids]  BY DEF Idle
  <1>2. Ended(t, at) \in Run /\ Ended(t, at).at = at /\ Ended(t, at).plan = t.plan
    BY <1>1 DEF Ended, Outside, Run, Phases
  <1>3. Ended(t, at).batch = {} /\ Ended(t, at).left = {} /\ Ended(t, at).pending = {}
        /\ Ended(t, at).made = t.made /\ Ended(t, at).open = FALSE
        /\ Ended(t, at).success = t.success /\ Ended(t, at).created = t.created
    BY DEF Ended, Outside, Run
  <1> QED  BY <1>2, <1>3 DEF Sound, CopiesOf

LEMMA ViewedRun ==
    ASSUME TypeInv, NEW r \in Runs
    PROVE  /\ InView(r) \in Run
           /\ run[r].at \notin {"idle", "over", "dead"} => Sound(InView(r))
           /\ View(r) \in [entities : SUBSET Ids, ledger : SUBSET Ids]
           /\ InView(r).view = View(r) /\ InView(r).at = run[r].at
  <1>1. run[r] \in Run /\ Sound(run[r])  BY TheRun DEF TypeInv
  <1>2. View(r) \in [entities : SUBSET Ids, ledger : SUBSET Ids]
    BY <1>1 DEF View, Snapshot, TypeInv, TablesInv, Run
  <1> QED  BY <1>1, <1>2 DEF InView, Run, Sound

\* A task that leaves the loop.
LEMMA LeftRun ==
    ASSUME TypeInv, NEW r \in Runs, NEW t \in Run, Sound(t), Leave(r, t)
    PROVE  RunsInv' /\ stopFile' \in BOOLEAN
  <1>1. PICK s \in BOOLEAN :
          run' = [run EXCEPT ![r] = [Outside(t) EXCEPT !.at = "report", !.success = s]]
    BY DEF Leave, Run
  <1>2. [Outside(t) EXCEPT !.at = "report", !.success = s] \in Run
        /\ Sound([Outside(t) EXCEPT !.at = "report", !.success = s])
    BY DEF Outside, Run, Sound, Phases, Updating, CopiesOf
  <1>3. RunsInv'  BY <1>1, <1>2, OneRun DEF TypeInv
  <1>4. stopFile' \in BOOLEAN  BY DEF Leave
  <1> QED  BY <1>3, <1>4

LEMMA Selected ==
    ASSUME NEW all, NEW S \in SUBSET Ids
    PROVE  /\ Matching(all, S) \in SUBSET Ids
           /\ CopiesOf(Matching(all, S)) \subseteq Copies
  BY CopyIsNoOriginal DEF Matching, CopiesOf

------------------------------------------------------------------------------
(* What the steps of a task make of it *)

LEMMA ViewCarries ==
    ASSUME TypeInv, NEW r \in Runs
    PROVE  Carries(InView(r), run[r]) /\ InView(r).success = run[r].success
  BY TheRun DEF TypeInv, InView, Run, Carries


LEMMA StartedDoes ==
    ASSUME TypeInv, NEW r \in Runs, Started(r)
    PROVE  \E t \in Run : /\ Sound(t) /\ Carries(t, run[r]) /\ t.success = run[r].success
                          /\ t.at = "setup" /\ run' = [run EXCEPT ![r] = t]
  <1> DEFINE t == [run[r] EXCEPT !.at = "setup"]
  <1>1. t \in Run /\ Sound(t) /\ Carries(t, run[r]) /\ t.at = "setup"
        /\ t.success = run[r].success
    BY TheRun DEF TypeInv, Run, Sound, Phases, Carries
  <1>2. run' = [run EXCEPT ![r] = t]
    BY DEF Started, TypeInv, RunsInv
  <1> HIDE DEF t
  <1> QED  BY <1>1, <1>2

LEMMA SetupDoes ==
    ASSUME TypeInv, NEW r \in Runs, Setup(r)
    PROVE  \E t \in Run : /\ Sound(t) /\ Carries(t, run[r]) /\ Continue(r, t)
                          /\ \/ t.at = "report"
                             \/ t.at = "check" /\ t.success = run[r].success
  <1> DEFINE t    == InView(r)
             rows == Matching(t.plan.all, t.view.entities)
             a    == [t EXCEPT !.at = "report", !.success = TRUE]
             f    == CopiesOf(rows) \intersect t.view.ledger = {}
             b    == [t EXCEPT !.at = "check", !.seen = t.view.ledger, !.fresh = f]
  <1>1. t \in Run /\ Sound(t) /\ Carries(t, run[r]) /\ t.success = run[r].success
    BY ViewedRun, ViewCarries DEF Setup
  <1> HIDE DEF t
  <1>2. a \in Run /\ Sound(a) /\ Carries(a, run[r]) /\ a.at = "report"
    BY <1>1 DEF Run, Sound, Phases, Updating, Carries
  <1>3. f \in BOOLEAN  OBVIOUS
  <1> HIDE DEF f
  <1>4. b \in Run /\ Sound(b) /\ Carries(b, run[r]) /\ b.at = "check"
        /\ b.success = run[r].success
    BY <1>1, <1>3 DEF Run, Sound, Phases, Loop, Carries
  <1>5. Continue(r, a) \/ Continue(r, b)  BY DEF Setup, t, f
  <1> HIDE DEF a, b
  <1> QED  BY <1>2, <1>4, <1>5

LEMMA CheckDoes ==
    ASSUME TypeInv, NEW r \in Runs, Check(r)
    PROVE  \E t \in Run : /\ Sound(t) /\ Carries(t, run[r])
                          /\ \/ Leave(r, t) /\ UNCHANGED <<tables, record, changes>>
                             \/ /\ Continue(r, t)
                                /\ t.at = "fetch" /\ t.success = run[r].success
  <1> DEFINE a == [run[r] EXCEPT !.success = TRUE, !.stopped = TRUE]
             b == [run[r] EXCEPT !.at = "fetch"]
  <1>1. a \in Run /\ Sound(a) /\ Carries(a, run[r])
    BY TheRun DEF TypeInv, Run, Sound, Carries
  <1>2. b \in Run /\ Sound(b) /\ Carries(b, run[r]) /\ b.at = "fetch"
        /\ b.success = run[r].success
    BY TheRun DEF TypeInv, Run, Sound, Phases, Loop, Carries
  <1>3. \/ Leave(r, a) /\ UNCHANGED <<tables, record, changes>>
        \/ Continue(r, b)
    BY DEF Check
  <1> HIDE DEF a, b
  <1> QED  BY <1>1, <1>2, <1>3

LEMMA FetchDoes ==
    ASSUME TypeInv, NEW r \in Runs, Fetch(r)
    PROVE  \E t \in Run : /\ Sound(t) /\ Carries(t, run[r])
                          /\ \/ Leave(r, t) /\ UNCHANGED <<tables, record, changes>>
                             \/ /\ Continue(r, t)
                                /\ t.at = "llm" /\ t.success = run[r].success
  <1> DEFINE t     == InView(r)
             rows  == Matching(t.plan.all, t.view.entities)
             page  == Page(rows, t.offset, Limit(t))
             batch == {n \in page : CopyOf(n) \notin t.seen}
             o     == t.offset + Cardinality(page \ batch)
             s     == t.seen \union CopiesOf(batch)
             next  == [t EXCEPT !.offset = o, !.seen = s, !.batch = batch, !.new = 0]
             a     == [next EXCEPT !.success = TRUE]
             b     == [next EXCEPT !.at = "llm"]
  <1>1. t \in Run /\ Sound(t) /\ Carries(t, run[r]) /\ t.success = run[r].success
    BY ViewedRun, ViewCarries DEF Fetch
  <1>2. rows \in SUBSET Ids /\ CopiesOf(rows) \subseteq Copies
    BY <1>1, Selected DEF Run
  <1>3. batch \in SUBSET Ids /\ CopiesOf(batch) \subseteq Copies /\ page \in SUBSET Ids
    BY <1>2 DEF Page, CopiesOf
  <1>4. Cardinality(page \ batch) \in Nat  BY <1>3, Counts
  <1>5. CopiesOf(batch) \subseteq Ids  BY <1>3 DEF Copies
  <1>6. o \in Nat /\ s \in SUBSET Ids  BY <1>1, <1>4, <1>5 DEF Run
  <1> HIDE DEF t, rows, page, batch, o, s
  <1>7. next \in Run /\ next.batch = batch /\ next.at = t.at /\ next.open = t.open
        /\ Carries(next, t) /\ next.success = t.success
    BY <1>1, <1>3, <1>6 DEF Run, Carries
  <1>8. Sound(next) /\ Carries(next, run[r]) /\ next.success = run[r].success
    BY <1>1, <1>3, <1>7 DEF Sound, Carries
  <1> HIDE DEF next
  <1>9. a \in Run /\ Sound(a) /\ Carries(a, run[r])
    BY <1>7, <1>8 DEF Run, Sound, Carries
  <1>10. b \in Run /\ Sound(b) /\ Carries(b, run[r]) /\ b.at = "llm"
         /\ b.success = run[r].success
    BY <1>7, <1>8 DEF Run, Sound, Phases, Loop, Carries
  <1>11. \/ Leave(r, a) /\ UNCHANGED <<tables, record, changes>>
         \/ Continue(r, b)
    BY DEF Fetch, next, batch, page, rows, o, s, t
  <1> HIDE DEF a, b
  <1> QED  BY <1>9, <1>10, <1>11

LEMMA CallDoes ==
    ASSUME TypeInv, NEW r \in Runs, CallLLM(r)
    PROVE  \E t \in Run : /\ Sound(t) /\ Continue(r, t)
                          /\ t.at = "write" /\ t.success = run[r].success
                          /\ t.plan = run[r].plan /\ t.asked = run[r].asked
                          /\ t.made = run[r].made /\ t.pending = run[r].pending
                          /\ \/ t.plan.dry /\ t.left = run[r].left
                             \/ ~t.plan.dry /\ t.created = run[r].created
  <1>1. run[r] \in Run /\ Sound(run[r])  BY TheRun DEF TypeInv
  <1>2. PICK ok \in SUBSET run[r].batch :
          LET t == [run[r] EXCEPT !.at = "write", !.refused = @ \/ ok # run[r].batch]
          IN Continue(r, IF t.plan.dry
                         THEN [t EXCEPT !.created = @ + Cardinality(ok),
                                        !.new = Cardinality(ok)]
                         ELSE [t EXCEPT !.left = CopiesOf(ok)])
    BY DEF CallLLM
  <1> DEFINE q == run[r].refused \/ ok # run[r].batch
             t == [run[r] EXCEPT !.at = "write", !.refused = q]
             k == t.created + Cardinality(ok)
             a == [t EXCEPT !.created = k, !.new = Cardinality(ok)]
             b == [t EXCEPT !.left = CopiesOf(ok)]
  <1>3. ok \in SUBSET Ids /\ Cardinality(ok) \in Nat  BY <1>1, Counts DEF Run
  <1>4. CopiesOf(ok) \subseteq Copies /\ CopiesOf(ok) \subseteq Ids
    BY <1>1 DEF Sound, CopiesOf, Copies
  <1>5. q \in BOOLEAN  OBVIOUS
  <1>6. \/ t.plan.dry /\ Continue(r, a)
        \/ ~t.plan.dry /\ Continue(r, b)
    BY <1>2
  <1> HIDE DEF q
  <1>7. t \in Run /\ Sound(t) /\ t.at = "write" /\ Carries(t, run[r])
        /\ t.success = run[r].success
    BY <1>1, <1>5 DEF Run, Sound, Phases, Loop, Carries
  <1> HIDE DEF t
  <1>8. k \in Nat  BY <1>3, <1>7 DEF Run
  <1> HIDE DEF k
  <1>9. a \in Run /\ Sound(a) /\ a.at = "write" /\ a.plan = t.plan /\ a.asked = t.asked
        /\ a.made = t.made /\ a.pending = t.pending /\ a.left = t.left
        /\ a.success = t.success
    BY <1>3, <1>7, <1>8 DEF Run, Sound
  <1>10. b \in Run /\ Sound(b) /\ b.at = "write" /\ b.plan = t.plan /\ b.asked = t.asked
         /\ b.made = t.made /\ b.pending = t.pending /\ b.created = t.created
         /\ b.success = t.success
    BY <1>4, <1>7 DEF Run, Sound
  <1> HIDE DEF a, b
  <1>11. CASE t.plan.dry /\ Continue(r, a)
    BY <1>7, <1>9, <1>11 DEF Carries
  <1>12. CASE ~t.plan.dry /\ Continue(r, b)
    BY <1>7, <1>10, <1>12 DEF Carries
  <1> QED  BY <1>6, <1>11, <1>12

LEMMA InsertDoes ==
    ASSUME TypeInv, NEW r \in Runs, NEW c \in Ids, Insert(r, c)
    PROVE  \E t \in Run : /\ Sound(t) /\ Continue(r, t)
                          /\ t.at = "write" /\ t.success = run[r].success
                          /\ t.plan = run[r].plan /\ t.asked = run[r].asked
                          /\ t.made = run[r].made /\ t.left = run[r].left \ {c}
                          /\ t.pending = run[r].pending \union {c}
                          /\ t.created = run[r].created + 1
  <1> DEFINE t == InView(r)
             d == t.left \ {c}
             p == t.pending \union {c}
             k == t.created + 1
             m == t.new + 1
             a == [t EXCEPT !.left = d, !.pending = p, !.created = k, !.new = m]
  <1>1. t \in Run /\ Sound(t) /\ t.at = "write" /\ Carries(t, run[r])
        /\ t.success = run[r].success
    BY ViewedRun, ViewCarries DEF Insert, Upcoming
  <1>2. c \in t.left  BY <1>1 DEF Insert, Upcoming, Carries
  <1> HIDE DEF t
  <1>3. d \subseteq Copies /\ p \subseteq Copies /\ Copies \subseteq Ids
    BY <1>1, <1>2 DEF Sound, Copies
  <1>4. k \in Nat /\ m \in Nat  BY <1>1 DEF Run
  <1>5. d = run[r].left \ {c} /\ p = run[r].pending \union {c} /\ k = run[r].created + 1
    BY <1>1 DEF Carries
  <1> HIDE DEF d, p, k, m
  <1>6. a \in Run /\ Sound(a) /\ a.at = "write" /\ a.success = t.success /\ a.plan = t.plan
        /\ a.asked = t.asked /\ a.made = t.made /\ a.left = d /\ a.pending = p
        /\ a.created = k
    BY <1>1, <1>3, <1>4 DEF Run, Sound
  <1>7. Continue(r, a)  BY DEF Insert, t, d, p, k, m
  <1> HIDE DEF a
  <1> QED  BY <1>1, <1>5, <1>6, <1>7 DEF Carries

LEMMA CollideDoes ==
    ASSUME TypeInv, NEW r \in Runs, NEW c \in Ids, Collide(r, c)
    PROVE  \E t \in Run : /\ Sound(t) /\ Continue(r, t)
                          /\ t.at = "write" /\ t.success = run[r].success
                          /\ t.plan = run[r].plan /\ t.asked = run[r].asked
                          /\ t.made = run[r].made /\ t.left \subseteq run[r].left
                          /\ t.pending = run[r].pending /\ t.created = run[r].created
  <1> DEFINE t == InView(r)
             a == [t EXCEPT !.left = @ \ {c}, !.refused = TRUE]
  <1>1. t \in Run /\ Sound(t) /\ t.at = "write" /\ Carries(t, run[r])
        /\ t.success = run[r].success
    BY ViewedRun, ViewCarries DEF Collide, Upcoming
  <1> HIDE DEF t
  <1>2. a \in Run /\ Sound(a) /\ a.at = "write" /\ a.success = t.success /\ a.plan = t.plan
        /\ a.asked = t.asked /\ a.made = t.made /\ a.left \subseteq t.left
        /\ a.pending = t.pending /\ a.created = t.created
    BY <1>1 DEF Run, Sound
  <1>3. Continue(r, a)  BY DEF Collide, t
  <1> HIDE DEF a
  <1> QED  BY <1>1, <1>2, <1>3 DEF Carries

\* A commit adds to the tables what was pending.
LEMMA CommitDoes ==
    ASSUME TypeInv, NEW r \in Runs, Commit(r)
    PROVE  \E t \in Run :
             /\ Sound(t) /\ t.at = "tell" /\ t.success = run[r].success
             /\ t.plan = run[r].plan /\ t.asked = run[r].asked
             /\ t.left = run[r].left /\ t.created = run[r].created
             /\ \/ run[r].plan.dry /\ Continue(r, t) /\ Carries(t, run[r])
                \/ /\ ~run[r].plan.dry
                   /\ t.pending = {} /\ t.made = run[r].made \union run[r].pending
                   /\ entities' = entities \union run[r].pending
                   /\ ledger' = ledger \union run[r].pending
                   /\ run' = [run EXCEPT ![r] = t]
                   /\ UNCHANGED <<stopFile, record, changes>>
  <1> DEFINE o == run[r].offset + Cardinality(run[r].batch)
             t == [run[r] EXCEPT !.at = "tell", !.offset = o, !.batch = {}]
             m == t.made \union t.pending
             u == [t EXCEPT !.made = m, !.pending = {}]
  <1>1. run[r] \in Run /\ Sound(run[r])  BY TheRun DEF TypeInv
  <1>2. Cardinality(run[r].batch) \in Nat  BY <1>1, Counts DEF Run
  <1>3. o \in Nat  BY <1>1, <1>2 DEF Run
  <1> HIDE DEF o
  <1>4. t \in Run /\ t.batch = {} /\ t.at = "tell" /\ Carries(t, run[r])
        /\ t.success = run[r].success
    BY <1>1, <1>3 DEF Run, Phases, Loop, Carries
  <1>5. \/ run[r].plan.dry /\ Continue(r, t)
        \/ /\ ~run[r].plan.dry
           /\ entities' = entities \union t.pending
           /\ ledger' = ledger \union t.pending
           /\ run' = [run EXCEPT ![r] = Closed(u)]
           /\ UNCHANGED <<stopFile, record, changes>>
    <2>1. t.plan = run[r].plan  BY <1>4 DEF Carries
    <2> QED  BY <2>1 DEF Commit, t, o
  <1> HIDE DEF t
  <1>6. Sound(t)  BY <1>1, <1>4 DEF Sound, CopiesOf, Carries
  <1>7. m \subseteq Copies /\ m \subseteq Ids /\ m = run[r].made \union run[r].pending
    BY <1>4, <1>6 DEF Sound, Copies, Carries
  <1> HIDE DEF m
  <1>8. u \in Run /\ Sound(u) /\ u.pending = {} /\ u.made = m /\ u.at = "tell"
        /\ u.plan = t.plan /\ u.asked = t.asked /\ u.left = t.left
        /\ u.created = t.created /\ u.success = t.success
    BY <1>4, <1>6, <1>7 DEF Run, Sound
  <1> HIDE DEF u
  <1> DEFINE w == Closed(u)
  <1>9. w \in Run /\ Sound(w) /\ w.at = u.at /\ Carries(w, u) /\ w.success = u.success
    BY <1>8, ClosedRun
  <1>10. CASE run[r].plan.dry /\ Continue(r, t)
    BY <1>4, <1>6, <1>10 DEF Carries
  <1>11. CASE /\ ~run[r].plan.dry
              /\ entities' = entities \union t.pending
              /\ ledger' = ledger \union t.pending
              /\ run' = [run EXCEPT ![r] = w]
              /\ UNCHANGED <<stopFile, record, changes>>
    <2>1. t.pending = run[r].pending  BY <1>4 DEF Carries
    <2> HIDE DEF w
    <2> QED  BY <1>4, <1>7, <1>8, <1>9, <1>11, <2>1 DEF Carries
  <1> QED  BY <1>5, <1>10, <1>11

LEMMA ToldDoes ==
    ASSUME TypeInv, NEW r \in Runs, Told(r)
    PROVE  \E t \in Run : /\ Sound(t) /\ Carries(t, run[r])
                          /\ UNCHANGED <<tables, record, changes>>
                          /\ \/ Leave(r, t)
                             \/ /\ Continue(r, t)
                                /\ t.at = "check" /\ t.success = run[r].success
  <1> DEFINE a == [run[r] EXCEPT !.success = TRUE]
             b == [run[r] EXCEPT !.at = "check"]
  <1>0. run[r] \in Run /\ Sound(run[r])  BY TheRun DEF TypeInv
  <1>1. a \in Run /\ Sound(a) /\ Carries(a, run[r])
    BY <1>0 DEF Run, Sound, Carries
  <1>2. b \in Run /\ Sound(b) /\ Carries(b, run[r]) /\ b.at = "check"
        /\ b.success = run[r].success
    BY <1>0 DEF Run, Sound, Phases, Loop, Carries
  <1>3. record' = record  BY DEF Told, WriteRecord, TypeInv, TablesInv
  <1>4. UNCHANGED <<tables, record, changes>>  BY <1>3 DEF Told
  <1>5. run' = [run EXCEPT ![r].at = "check"] => run' = [run EXCEPT ![r] = b]
    BY DEF TypeInv, RunsInv
  <1>6. \/ Leave(r, a)
        \/ run' = [run EXCEPT ![r] = b] /\ UNCHANGED stopFile
    BY <1>5 DEF Told
  <1> HIDE DEF a, b
  <1> QED  BY <1>1, <1>2, <1>4, <1>6 DEF Continue

LEMMA RaiseDoes ==
    ASSUME TypeInv, NEW r \in Runs, Raise(r)
    PROVE  \E t \in Run : /\ Sound(t) /\ Leave(r, t)
                          /\ t.success = run[r].success
                          /\ t.plan = run[r].plan /\ t.asked = run[r].asked
                          /\ t.made = run[r].made /\ t.left = {}
                          /\ t.created = run[r].created
                          /\ \/ t.pending = {}
                             \/ t.plan.dry /\ t.pending = run[r].pending
  <1> DEFINE t == [run[r] EXCEPT !.left = {}]
             u == [t EXCEPT !.pending = {}]
  <1>1. t \in Run /\ Sound(t) /\ t.left = {} /\ t.success = run[r].success
        /\ t.plan = run[r].plan /\ t.asked = run[r].asked /\ t.made = run[r].made
        /\ t.created = run[r].created /\ t.pending = run[r].pending
    BY TheRun DEF TypeInv, Run, Sound
  <1>2. \/ t.plan.dry /\ Leave(r, t)
        \/ ~t.plan.dry /\ Leave(r, Closed(u))
    BY DEF Raise
  <1> HIDE DEF t
  <1>3. u \in Run /\ Sound(u) /\ u.left = {} /\ u.success = t.success /\ u.plan = t.plan
        /\ u.asked = t.asked /\ u.made = t.made /\ u.created = t.created /\ u.pending = {}
    BY <1>1 DEF Run, Sound
  <1> HIDE DEF u
  <1> DEFINE w == Closed(u)
  <1>4. w \in Run /\ Sound(w) /\ Carries(w, u) /\ w.success = u.success
    BY <1>3, ClosedRun
  <1>5. CASE t.plan.dry /\ Leave(r, t)  BY <1>1, <1>5
  <1>6. CASE Leave(r, w)
    <2> HIDE DEF w
    <2> QED  BY <1>1, <1>3, <1>4, <1>6 DEF Carries
  <1> QED  BY <1>2, <1>5, <1>6

\* A task goes on to t, and its update of the record may or may not be executed.
Falters(r, t) == /\ run' = [run EXCEPT ![r] = t]
                 /\ Unanswered(r)
                 /\ UNCHANGED <<tables, stopFile, changes>>

LEMMA FailDoes ==
    ASSUME TypeInv, NEW r \in Runs, FailUpdate(r)
    PROVE  \E t \in Run : /\ Sound(t) /\ Carries(t, run[r]) /\ Falters(r, t)
                          /\ t.at = "fault" /\ t.success = run[r].success
  <1> DEFINE t == [run[r] EXCEPT !.at = "fault"]
  <1>1. t \in Run /\ Sound(t) /\ Carries(t, run[r]) /\ t.at = "fault"
        /\ t.success = run[r].success
    BY TheRun DEF TypeInv, Run, Sound, Phases, Updating, Carries
  <1>2. Falters(r, t)  BY DEF FailUpdate, Falters
  <1> HIDE DEF t
  <1> QED  BY <1>1, <1>2

LEMMA NoModelDoes ==
    ASSUME TypeInv, NEW r \in Runs, NoModel(r)
    PROVE  \E t \in Run : /\ Sound(t) /\ Carries(t, run[r]) /\ Continue(r, t)
                          /\ t.at = "report" /\ t.success = run[r].success
  <1> DEFINE t == [run[r] EXCEPT !.at = "report"]
  <1>1. t \in Run /\ Sound(t) /\ Carries(t, run[r]) /\ t.at = "report"
        /\ t.success = run[r].success
    BY TheRun DEF TypeInv, Run, Sound, Phases, Updating, Carries
  <1>2. Continue(r, t)  BY DEF NoModel
  <1> HIDE DEF t
  <1> QED  BY <1>1, <1>2

LEMMA DieDoes ==
    ASSUME TypeInv, NEW r \in Runs, Die(r)
    PROVE  \E t \in Run : /\ Sound(t) /\ Falters(r, t) /\ t.at = "dead"
                          /\ t.plan = run[r].plan /\ t.made = run[r].made
                          /\ t.left = {} /\ t.pending = {} /\ ~t.success
  <1> DEFINE t == [run[r] EXCEPT !.success = FALSE]
  <1>1. t \in Run /\ Sound(t) /\ t.plan = run[r].plan /\ t.made = run[r].made
        /\ t.success = FALSE
    BY TheRun DEF TypeInv, Run, Sound
  <1> DEFINE w == Ended(t, "dead")
  <1>2. Falters(r, w)  BY DEF Die, Falters
  <1> HIDE DEF t
  <1>3. /\ w \in Run /\ Sound(w) /\ w.at = "dead" /\ w.plan = t.plan /\ w.made = t.made
        /\ w.left = {} /\ w.pending = {} /\ w.success = t.success
    BY <1>1, EndedRun
  <1> HIDE DEF w
  <1> QED  BY <1>1, <1>2, <1>3

------------------------------------------------------------------------------
(* Types *)

LEMMA LaunchTypes ==
    ASSUME TypeInv, NEW r \in Runs, NEW plan \in Plans[r], Launch(r, plan)
    PROVE  TypeInv'
  <1> DEFINE t == [Idle EXCEPT !.at = "start", !.plan = plan, !.open = TRUE, !.view = Snapshot]
  <1>1. plan \in Plan  BY RunsAssumption
  <1>2. Snapshot \in [entities : SUBSET Ids, ledger : SUBSET Ids]
    BY DEF Snapshot, TypeInv, TablesInv
  <1>3. t \in Run  BY <1>1, <1>2, IdleRun DEF Run, Phases, Updating
  <1>4. /\ t.batch = Idle.batch /\ t.left = Idle.left /\ t.pending = Idle.pending
        /\ t.made = Idle.made /\ t.at = "start"
    BY IdleRun DEF Run
  <1>5. Sound(t)  BY <1>4, IdleRun DEF Sound
  <1>6. run' = [run EXCEPT ![r] = t]  BY DEF Launch
  <1> HIDE DEF t
  <1>7. RunsInv'  BY <1>3, <1>5, <1>6, OneRun DEF TypeInv
  <1>8. record' \in [Runs -> Statuses]  BY DEF Launch, TypeInv, TablesInv, Statuses
  <1> QED  BY <1>7, <1>8 DEF Launch, TypeInv, TablesInv, tables

LEMMA RespondTypes == ASSUME TypeInv, NEW r \in Runs, Respond(r)  PROVE TypeInv'
  BY TheRun, ClosedRun, OneTask DEF Respond, TypeInv

\* A step that writes the record and sends the task to another phase.
LEMMA RecordTypes ==
    ASSUME TypeInv, NEW r \in Runs, NEW s \in Statuses, WriteRecord(r, s),
           NEW t \in Run, Sound(t), run' = [run EXCEPT ![r] = t],
           UNCHANGED <<tables, stopFile, changes>>
    PROVE  TypeInv'
  BY OneRun, RecordWritten DEF TypeInv, TablesInv, tables

LEMMA StartedTypes == ASSUME TypeInv, NEW r \in Runs, Started(r)  PROVE TypeInv'
  BY StartedDoes, RecordTypes DEF Started, Statuses

LEMMA SetupTypes == ASSUME TypeInv, NEW r \in Runs, Setup(r)  PROVE TypeInv'
  BY SetupDoes, OneTask

LEMMA LeaveTypes ==
    ASSUME TypeInv, NEW r \in Runs, NEW t \in Run, Sound(t), Leave(r, t),
           UNCHANGED <<tables, record, changes>>
    PROVE  TypeInv'
  BY LeftRun DEF TypeInv, TablesInv, tables

LEMMA CheckTypes == ASSUME TypeInv, NEW r \in Runs, Check(r)  PROVE TypeInv'
  BY CheckDoes, OneTask, LeaveTypes

LEMMA FetchTypes == ASSUME TypeInv, NEW r \in Runs, Fetch(r)  PROVE TypeInv'
  BY FetchDoes, OneTask, LeaveTypes

LEMMA CallTypes == ASSUME TypeInv, NEW r \in Runs, CallLLM(r)  PROVE TypeInv'
  BY CallDoes, OneTask

LEMMA InsertTypes ==
    ASSUME TypeInv, NEW r \in Runs, NEW c \in Ids, Insert(r, c)  PROVE TypeInv'
  BY InsertDoes, OneTask

LEMMA CollideTypes ==
    ASSUME TypeInv, NEW r \in Runs, NEW c \in Ids, Collide(r, c)  PROVE TypeInv'
  BY CollideDoes, OneTask

LEMMA CommitTypes == ASSUME TypeInv, NEW r \in Runs, Commit(r)  PROVE TypeInv'
  <1>1. PICK t \in Run :
          /\ Sound(t)
          /\ \/ Continue(r, t)
             \/ /\ entities' = entities \union run[r].pending
                /\ ledger' = ledger \union run[r].pending
                /\ run' = [run EXCEPT ![r] = t]
                /\ UNCHANGED <<stopFile, record, changes>>
    BY CommitDoes
  <1>2. run[r].pending \subseteq Copies /\ run[r].pending \subseteq Ids
    BY TheRun DEF TypeInv, Sound, Copies
  <1>3. CASE Continue(r, t)  BY <1>1, <1>3, OneTask
  <1>4. CASE /\ entities' = entities \union run[r].pending
             /\ ledger' = ledger \union run[r].pending
             /\ run' = [run EXCEPT ![r] = t]
             /\ UNCHANGED <<stopFile, record, changes>>
    <2>1. RunsInv'  BY <1>1, <1>4, OneRun DEF TypeInv
    <2> QED  BY <1>2, <1>4, <2>1 DEF TypeInv, TablesInv
  <1> QED  BY <1>1, <1>3, <1>4

LEMMA ToldTypes == ASSUME TypeInv, NEW r \in Runs, Told(r)  PROVE TypeInv'
  BY ToldDoes, OneTask, LeaveTypes

LEMMA RaiseTypes == ASSUME TypeInv, NEW r \in Runs, Raise(r)  PROVE TypeInv'
  BY RaiseDoes, LeaveTypes DEF Raise

LEMMA ReportTypes == ASSUME TypeInv, NEW r \in Runs, Reported(r) \/ Faulted(r)  PROVE TypeInv'
  <1>1. Ended(run[r], "over") \in Run /\ Sound(Ended(run[r], "over"))
    BY TheRun, EndedRun DEF TypeInv
  <1> QED  BY <1>1, RecordTypes DEF Reported, Faulted, Statuses

LEMMA FalterTypes ==
    ASSUME TypeInv, NEW r \in Runs, NEW t \in Run, Sound(t), Falters(r, t)
    PROVE  TypeInv'
  <1>1. record' \in [Runs -> Statuses]
    BY RecordWritten DEF Falters, Unanswered, TypeInv, TablesInv, Statuses
  <1> QED  BY <1>1, OneRun DEF Falters, TypeInv, TablesInv, tables

LEMMA FailTypes == ASSUME TypeInv, NEW r \in Runs, FailUpdate(r)  PROVE TypeInv'
  BY FailDoes, FalterTypes

LEMMA NoModelTypes == ASSUME TypeInv, NEW r \in Runs, NoModel(r)  PROVE TypeInv'
  BY NoModelDoes, OneTask

LEMMA DieTypes == ASSUME TypeInv, NEW r \in Runs, Die(r)  PROVE TypeInv'
  BY DieDoes, FalterTypes

LEMMA StopTypes == ASSUME TypeInv, PressStop  PROVE TypeInv'
  <1>1. ASSUME NEW r \in Runs
        PROVE  /\ [run[r] EXCEPT !.asked = @ \/ run[r].at \in Loop] \in Run
               /\ Sound([run[r] EXCEPT !.asked = @ \/ run[r].at \in Loop])
    <2> DEFINE q == run[r].asked \/ run[r].at \in Loop
    <2>1. q \in BOOLEAN  OBVIOUS
    <2> HIDE DEF q
    <2>2. [run[r] EXCEPT !.asked = q] \in Run /\ Sound([run[r] EXCEPT !.asked = q])
      BY <2>1, TheRun DEF TypeInv, Run, Sound
    <2> QED  BY <2>2 DEF q
  <1>2. RunsInv'  BY <1>1 DEF PressStop, RunsInv
  <1> QED  BY <1>2 DEF PressStop, TypeInv, TablesInv, tables

LEMMA ForgetTypes == ASSUME TypeInv, NEW r \in Runs, Forget(r)  PROVE TypeInv'
  BY DEF Forget, TypeInv, TablesInv, RunsInv, tables, Statuses

LEMMA ChangeTypes == ASSUME TypeInv, NEW n \in Unsteady, Change(n)  PROVE TypeInv'
  <1>1. n \in 1..N /\ n \in Ids /\ n \notin Foreign /\ n \notin Copies
    BY RunsAssumption DEF Ids, Copies
  <1>2. ASSUME NEW r \in Runs
        PROVE  /\ [run[r] EXCEPT !.same = @ /\ run[r].at = "idle"] \in Run
               /\ Sound([run[r] EXCEPT !.same = @ /\ run[r].at = "idle"])
    <2> DEFINE q == run[r].same /\ run[r].at = "idle"
    <2>1. q \in BOOLEAN  OBVIOUS
    <2> HIDE DEF q
    <2>2. [run[r] EXCEPT !.same = q] \in Run /\ Sound([run[r] EXCEPT !.same = q])
      BY <2>1, TheRun DEF TypeInv, Run, Sound
    <2> QED  BY <2>2 DEF q
  <1>3. RunsInv'  BY <1>2 DEF Change, RunsInv
  <1>4. entities' \subseteq Ids /\ ledger \subseteq entities' \intersect Copies
        /\ Foreign \subseteq entities'
    BY <1>1 DEF Change, TypeInv, TablesInv
  <1>5. changes' \in 0..MaxChanges
    BY RunsAssumption DEF Change, TypeInv, TablesInv
  <1> QED  BY <1>3, <1>4, <1>5 DEF Change, TypeInv, TablesInv

LEMMA InitTypes == Init => TypeInv
  <1> SUFFICES ASSUME Init PROVE TypeInv
    OBVIOUS
  <1>1. 1..N \subseteq Ids  BY RunsAssumption DEF Ids
  <1>2. entities \subseteq Ids /\ ledger \subseteq entities \intersect Copies
        /\ Foreign \subseteq entities
    BY <1>1, RunsAssumption DEF Init, Copies
  <1>5. record \in [Runs -> Statuses]  BY DEF Init, Statuses
  <1>6. changes \in 0..MaxChanges
    <2>1. changes = 0  BY DEF Init
    <2> QED  BY <2>1, RunsAssumption
  <1>7. stopFile = FALSE  BY DEF Init
  <1>8. stopFile \in BOOLEAN  BY <1>7
  <1>3. TablesInv  BY <1>2, <1>5, <1>6, <1>8 DEF TablesInv
  <1>4. RunsInv  BY IdleRun DEF Init, RunsInv
  <1> QED  BY <1>3, <1>4 DEF TypeInv

LEMMA StepTypes == TypeInv /\ [Next]_vars => TypeInv'
  <1> SUFFICES ASSUME TypeInv, [Next]_vars PROVE TypeInv'
    OBVIOUS
  <1>1. ASSUME NEW r \in Runs, RunStep(r)  PROVE TypeInv'
    BY <1>1, StartedTypes, SetupTypes, CheckTypes, FetchTypes, CallTypes, InsertTypes,
       CollideTypes, CommitTypes, ToldTypes, ReportTypes DEF RunStep
  <1>2. ASSUME NEW r \in Runs,
               \/ \E plan \in Plans[r] : Launch(r, plan)
               \/ Respond(r) \/ NoModel(r) \/ Raise(r) \/ FailUpdate(r) \/ Die(r) \/ Forget(r)
        PROVE  TypeInv'
    BY <1>2, LaunchTypes, RespondTypes, NoModelTypes, RaiseTypes, FailTypes, DieTypes,
       ForgetTypes
  <1>3. CASE UNCHANGED vars
    BY <1>3 DEF vars, tables, TypeInv, TablesInv, RunsInv
  <1> QED  BY <1>1, <1>2, <1>3, StopTypes, ChangeTypes DEF Next

LEMMA TypeInvariant == Spec => []TypeInv
  <1> QED  BY InitTypes, StepTypes, PTL DEF Spec

\* The model's type invariant: in particular a task that is over holds no
\* transaction and no key.
THEOREM RunTypes == Spec => []TypeOK
  <1>1. TypeInv => TypeOK
    BY DEF TypeInv, TablesInv, RunsInv, TypeOK, Sound, Active
  <1> QED  BY <1>1, TypeInvariant, PTL

------------------------------------------------------------------------------
(* The record and the stop file *)

Early(at) == at \in Loop \union {"idle", "start", "setup"}
TaskStep(r) == RunStep(r) \/ Respond(r) \/ NoModel(r) \/ Raise(r) \/ FailUpdate(r) \/ Die(r)

\* Task r goes on towards its end, with the plan it has; the stop file goes
\* away with a live run that leaves the loop; the record is written on the way to
\* the end, and an exception that is to be reported ends the task.
Moves(r) ==
    /\ run[r].at \notin {"idle", "over", "dead"}
    /\ \A u \in Runs \ {r} : run'[u] = run[u]
    /\ run'[r].plan = run[r].plan
    /\ Early(run'[r].at) => Early(run[r].at) /\ run'[r].asked = run[r].asked
    /\ run'[r].at \in {"idle", "start", "setup"} => run[r].at \in {"start", "setup"}
    /\ \/ stopFile' = stopFile
       \/ run[r].plan.dry = FALSE /\ ~Early(run'[r].at)
    /\ \/ record' = record /\ run'[r].at # "over"
       \/ run'[r].at = "over" /\ WriteRecord(r, "done")
       \/ run'[r].at = "over" /\ WriteRecord(r, "error")
       \/ run'[r].at = "setup" /\ WriteRecord(r, "running")
       \/ run'[r].at \in {"fault", "dead"} /\ (WriteRecord(r, "running") \/ WriteRecord(r, "done"))
       \/ run'[r].at = "dead" /\ WriteRecord(r, "error")
    /\ run[r].at = "fault" => run'[r].at \in {"fault", "over", "dead"}

LEMMA ContinueMoves ==
    ASSUME TypeInv, NEW r \in Runs, NEW t \in Run, Continue(r, t),
           t.plan = run[r].plan, t.at # "over", run[r].at \notin {"idle", "over", "dead"},
           Early(t.at) => Early(run[r].at) /\ t.asked = run[r].asked,
           t.at \in {"idle", "start", "setup"} => run[r].at \in {"start", "setup"},
           run[r].at = "fault" => t.at = "fault"
    PROVE  Moves(r)
  BY DEF Moves, Continue, TypeInv, RunsInv

LEMMA LeaveMoves ==
    ASSUME TypeInv, NEW r \in Runs, NEW t \in Run, Leave(r, t), record' = record,
           t.plan = run[r].plan, run[r].at \notin {"idle", "over", "dead", "fault"}
    PROVE  Moves(r)
  <1>1. PICK s : run' = [run EXCEPT ![r] = [Outside(t) EXCEPT !.at = "report", !.success = s]]
    BY DEF Leave
  <1>2. run'[r].at = "report" /\ run'[r].plan = t.plan /\ ~Early(run'[r].at)
        /\ \A u \in Runs \ {r} : run'[u] = run[u]
    BY <1>1 DEF TypeInv, RunsInv, Run, Outside, Early, Loop
  <1>3. stopFile' = (stopFile /\ t.plan.dry)  BY DEF Leave
  <1>4. stopFile' = stopFile \/ t.plan.dry = FALSE
    <2>1. PICK p \in BOOLEAN : p = t.plan.dry  BY DEF Run, Plan
    <2>2. PICK f \in BOOLEAN : f = stopFile  BY DEF TypeInv, TablesInv
    <2>3. stopFile' = (f /\ p)  BY <1>3, <2>1, <2>2
    <2> QED  BY <2>1, <2>2, <2>3
  <1> QED  BY <1>2, <1>4 DEF Moves

LEMMA TaskMoves ==
    ASSUME TypeInv, NEW r \in Runs, TaskStep(r)
    PROVE  Moves(r)
  <1>0. run[r] \in Run /\ run \in [Runs -> Run]  BY DEF TypeInv, RunsInv
  <1>1. CASE Started(r)
    <2>1. PICK t \in Run : /\ Carries(t, run[r]) /\ t.at = "setup"
                           /\ run' = [run EXCEPT ![r] = t]
      BY <1>1, StartedDoes
    <2>2. /\ run'[r].plan = run[r].plan /\ run'[r].asked = run[r].asked
          /\ run'[r].at = "setup" /\ \A u \in Runs \ {r} : run'[u] = run[u]
      BY <1>0, <2>1 DEF Carries
    <2> QED  BY <1>1, <2>2 DEF Started, Moves, Early
  <1>2. CASE Setup(r)
    <2>1. run[r].at = "setup"  BY <1>2 DEF Setup
    <2> QED  BY <1>2, <2>1, SetupDoes, ContinueMoves DEF Carries, Early, Loop
  <1>3. CASE Check(r)
    <2>1. run[r].at = "check"  BY <1>3 DEF Check
    <2> QED  BY <1>3, <2>1, CheckDoes, ContinueMoves, LeaveMoves DEF Carries, Early, Loop
  <1>4. CASE Fetch(r)
    <2>1. run[r].at = "fetch"  BY <1>4 DEF Fetch
    <2> QED  BY <1>4, <2>1, FetchDoes, ContinueMoves, LeaveMoves DEF Carries, Early, Loop
  <1>5. CASE CallLLM(r)
    <2>1. run[r].at = "llm"  BY <1>5 DEF CallLLM
    <2> QED  BY <1>5, <2>1, CallDoes, ContinueMoves DEF Early, Loop
  <1>6. CASE \E c \in Ids : Insert(r, c) \/ Collide(r, c)
    <2>1. PICK c \in Ids : Insert(r, c) \/ Collide(r, c)  BY <1>6
    <2>2. run[r].at = "write"  BY <2>1 DEF Insert, Collide, Upcoming
    <2>3. PICK t \in Run : /\ Continue(r, t) /\ t.at = "write"
                           /\ t.plan = run[r].plan /\ t.asked = run[r].asked
      BY <2>1, InsertDoes, CollideDoes
    <2> QED  BY <2>2, <2>3, ContinueMoves DEF Early, Loop
  <1>7. CASE Commit(r)
    <2>1. run[r].at = "write"  BY <1>7 DEF Commit
    <2>2. PICK t \in Run : /\ t.at = "tell" /\ t.plan = run[r].plan /\ t.asked = run[r].asked
                           /\ \/ Continue(r, t)
                              \/ run' = [run EXCEPT ![r] = t] /\ UNCHANGED <<stopFile, record>>
      BY <1>7, CommitDoes
    <2>3. run' = [run EXCEPT ![r] = t] /\ UNCHANGED <<stopFile, record>>
      BY <2>2 DEF Continue
    <2> QED  BY <1>0, <2>1, <2>2, <2>3 DEF Moves, Early, Loop
  <1>8. CASE Told(r)
    <2>1. run[r].at = "tell"  BY <1>8 DEF Told
    <2> QED  BY <1>8, <2>1, ToldDoes, ContinueMoves, LeaveMoves DEF Carries, Early, Loop
  <1>9. CASE Reported(r) \/ Faulted(r)
    <2> DEFINE t == Ended(run[r], "over")
    <2>1. t \in Run /\ t.at = "over" /\ t.plan = run[r].plan
      BY TheRun, EndedRun DEF TypeInv
    <2>2. run' = [run EXCEPT ![r] = t] /\ UNCHANGED stopFile
      BY <1>9 DEF Reported, Faulted
    <2> HIDE DEF t
    <2>3. /\ run'[r].plan = run[r].plan /\ run'[r].at = "over"
          /\ \A u \in Runs \ {r} : run'[u] = run[u]
      BY <1>0, <2>1, <2>2
    <2> QED  BY <1>9, <2>2, <2>3 DEF Reported, Faulted, Moves, Early, Loop
  <1>10. CASE Respond(r)
    <2>1. /\ Closed(run[r]) \in Run /\ Closed(run[r]).at = run[r].at
          /\ Carries(Closed(run[r]), run[r]) /\ run[r].at \notin {"idle", "over", "dead"}
      BY <1>10, TheRun, ClosedRun DEF TypeInv, Respond, Active
    <2> QED  BY <1>10, <2>1, ContinueMoves DEF Respond, Carries
  <1>11. CASE Raise(r)
    <2>1. run[r].at \notin {"idle", "over", "dead", "fault"}  BY <1>11 DEF Raise, Loop
    <2> QED  BY <1>11, <2>1, RaiseDoes, LeaveMoves DEF Raise
  <1>12. CASE FailUpdate(r)
    <2>1. run[r].at \in {"start", "setup", "report"}  BY <1>12 DEF FailUpdate
    <2>2. PICK t \in Run : Carries(t, run[r]) /\ Falters(r, t) /\ t.at = "fault"
      BY <1>12, FailDoes
    <2>3. /\ run'[r].plan = run[r].plan /\ run'[r].at = "fault"
          /\ \A u \in Runs \ {r} : run'[u] = run[u]
      BY <1>0, <2>2 DEF Falters, Carries
    <2> QED  BY <2>1, <2>2, <2>3 DEF Falters, Unanswered, Moves, Early, Loop
  <1>14. CASE NoModel(r)
    <2>1. run[r].at = "setup"  BY <1>14 DEF NoModel
    <2> QED  BY <1>14, <2>1, NoModelDoes, ContinueMoves DEF Carries, Early, Loop
  <1>13. CASE Die(r)
    <2>1. run[r].at \notin {"idle", "over", "dead"}  BY <1>13 DEF Die, Active
    <2>2. PICK t \in Run : Falters(r, t) /\ t.at = "dead" /\ t.plan = run[r].plan
      BY <1>13, DieDoes
    <2>3. /\ run'[r].plan = run[r].plan /\ run'[r].at = "dead"
          /\ \A u \in Runs \ {r} : run'[u] = run[u]
      BY <1>0, <2>2 DEF Falters
    <2> QED  BY <2>1, <2>2, <2>3 DEF Falters, Unanswered, Moves, Early, Loop
  <1> QED  BY <1>1, <1>2, <1>3, <1>4, <1>5, <1>6, <1>7, <1>8, <1>9, <1>10, <1>11, <1>12,
              <1>13, <1>14 DEF TaskStep, RunStep

\* Every step is that of a task, or one of these.
LEMMA Steps ==
    ASSUME Next
    PROVE  \/ \E r \in Runs : TaskStep(r)
           \/ \E r \in Runs : \E plan \in Plans[r] : Launch(r, plan)
           \/ \E r \in Runs : Forget(r)
           \/ PressStop
           \/ \E n \in Unsteady : Change(n)
  BY DEF Next, TaskStep

\* The fields a launch, the button and the others touch.
LEMMA OtherSteps ==
    ASSUME TypeInv
    PROVE  /\ \A r \in Runs : \A plan \in Plans[r] : Launch(r, plan) =>
                /\ run[r].at = "idle" /\ run'[r].at = "start" /\ run'[r].asked = FALSE
                /\ run'[r].pending = {} /\ run'[r].made = {} /\ run'[r].left = {}
                /\ run'[r].created = 0 /\ run'[r].success = FALSE
                /\ \A u \in Runs \ {r} : run'[u] = run[u]
           /\ PressStop => \A r \in Runs :
                /\ run'[r].at = run[r].at /\ run'[r].plan = run[r].plan
                /\ run'[r].pending = run[r].pending /\ run'[r].made = run[r].made
                /\ run'[r].left = run[r].left /\ run'[r].created = run[r].created
                /\ run'[r].success = run[r].success
                /\ run[r].at \notin Loop => run'[r].asked = run[r].asked
           /\ \A n \in Unsteady : Change(n) => \A r \in Runs :
                /\ run'[r].at = run[r].at /\ run'[r].plan = run[r].plan
                /\ run'[r].pending = run[r].pending /\ run'[r].made = run[r].made
                /\ run'[r].left = run[r].left /\ run'[r].created = run[r].created
                /\ run'[r].success = run[r].success /\ run'[r].asked = run[r].asked
  <1>0. run \in [Runs -> Run]  BY DEF TypeInv, RunsInv
  <1>1. ASSUME NEW r \in Runs, NEW plan \in Plans[r], Launch(r, plan)
        PROVE  /\ run[r].at = "idle" /\ run'[r].at = "start" /\ run'[r].asked = FALSE
               /\ run'[r].pending = {} /\ run'[r].made = {} /\ run'[r].left = {}
               /\ run'[r].created = 0 /\ run'[r].success = FALSE
               /\ \A u \in Runs \ {r} : run'[u] = run[u]
    BY <1>0, <1>1 DEF Launch, Idle
  <1>2. ASSUME PressStop, NEW r \in Runs
        PROVE  /\ run'[r].at = run[r].at /\ run'[r].plan = run[r].plan
               /\ run'[r].pending = run[r].pending /\ run'[r].made = run[r].made
               /\ run'[r].left = run[r].left /\ run'[r].created = run[r].created
               /\ run'[r].success = run[r].success
               /\ run[r].at \notin Loop => run'[r].asked = run[r].asked
    <2> DEFINE q == run[r].asked \/ run[r].at \in Loop
    <2>1. run'[r] = [run[r] EXCEPT !.asked = q]  BY <1>2 DEF PressStop
    <2>2. run[r].at \notin Loop => q = run[r].asked
      <3>1. PICK k \in BOOLEAN : run[r].asked = k  BY <1>0 DEF Run
      <3> QED  BY <3>1
    <2> HIDE DEF q
    <2> QED  BY <1>0, <2>1, <2>2 DEF Run
  <1>3. ASSUME NEW n \in Unsteady, Change(n), NEW r \in Runs
        PROVE  /\ run'[r].at = run[r].at /\ run'[r].plan = run[r].plan
               /\ run'[r].pending = run[r].pending /\ run'[r].made = run[r].made
               /\ run'[r].left = run[r].left /\ run'[r].created = run[r].created
               /\ run'[r].success = run[r].success /\ run'[r].asked = run[r].asked
    <2> DEFINE q == run[r].same /\ run[r].at = "idle"
    <2>1. run'[r] = [run[r] EXCEPT !.same = q]  BY <1>3 DEF Change
    <2> HIDE DEF q
    <2> QED  BY <1>0, <2>1 DEF Run
  <1> QED  BY <1>1, <1>2, <1>3

\* The admin page is told of the end of a run when the script has ended, and not
\* before, also by an update that Redis executed without an answer.
THEOREM RecordsAreTrue == Spec => []RecordTruth
  <1>1. Init => RecordTruth  BY DEF Init, RecordTruth
  <1>2. TypeInv /\ RecordTruth /\ [Next]_vars => RecordTruth'
    <2> SUFFICES ASSUME TypeInv, RecordTruth, [Next]_vars PROVE RecordTruth'
      OBVIOUS
    <2>0. record \in [Runs -> Statuses]  BY DEF TypeInv, TablesInv
    <2>1. ASSUME NEW r \in Runs, TaskStep(r)  PROVE RecordTruth'
      <3>1. Moves(r)  BY <2>1, TaskMoves
      <3> QED  BY <2>0, <3>1 DEF Moves, RecordTruth, WriteRecord
    <2>2. ASSUME NEW r \in Runs, NEW plan \in Plans[r], Launch(r, plan)  PROVE RecordTruth'
      <3>1. run'[r].at = "start" /\ \A u \in Runs \ {r} : run'[u] = run[u]
        BY <2>2, OtherSteps
      <3> QED  BY <2>0, <2>2, <3>1 DEF Launch, RecordTruth
    <2>3. ASSUME NEW r \in Runs, Forget(r)  PROVE RecordTruth'
      BY <2>0, <2>3 DEF Forget, RecordTruth
    <2>4. CASE PressStop
      <3>1. \A r \in Runs : run'[r].at = run[r].at  BY <2>4, OtherSteps
      <3> QED  BY <2>4, <3>1 DEF PressStop, RecordTruth
    <2>5. ASSUME NEW n \in Unsteady, Change(n)  PROVE RecordTruth'
      <3>1. \A r \in Runs : run'[r].at = run[r].at  BY <2>5, OtherSteps
      <3> QED  BY <2>5, <3>1 DEF Change, RecordTruth
    <2>6. CASE UNCHANGED vars  BY <2>6 DEF vars, RecordTruth
    <2> QED  BY <2>1, <2>2, <2>3, <2>4, <2>5, <2>6, Steps
  <1> QED  BY <1>1, <1>2, TypeInvariant, PTL DEF Spec

\* Nobody has asked a run to stop that is not yet in its loop.
AskedInv == \A r \in Runs : run[r].at \in {"idle", "start", "setup"} => run[r].asked = FALSE
Taken(r) == \E u \in Runs \ {r} : run[u].plan.dry = FALSE /\ ~Early(run[u].at)
StopInv  == /\ AskedInv
            /\ \A r \in Runs : run[r].at \in Loop /\ run[r].asked = TRUE /\ stopFile = FALSE
                               => Taken(r)

\* The stop signal is taken from a run by another live run only, and only when
\* that one leaves its loop or never had one.
THEOREM StopGoesToOthers == Spec => []StopLostToOthers
  <1>1. Init => StopInv
    BY DEF Init, StopInv, AskedInv, Idle, Loop
  <1>2. TypeInv /\ StopInv /\ [Next]_vars => StopInv'
    <2> SUFFICES ASSUME TypeInv, StopInv, [Next]_vars PROVE StopInv'
      OBVIOUS
    <2>0. stopFile \in BOOLEAN /\ run \in [Runs -> Run]  BY DEF TypeInv, TablesInv, RunsInv
    <2>1. ASSUME NEW r \in Runs, TaskStep(r)  PROVE StopInv'
      <3>1. Moves(r)  BY <2>1, TaskMoves
      <3>2. AskedInv'
        BY <3>1 DEF Moves, StopInv, AskedInv, Early
      <3>3. ASSUME NEW q \in Runs, run'[q].at \in Loop, run'[q].asked = TRUE, stopFile' = FALSE
            PROVE  \E u \in Runs \ {q} : run'[u].plan.dry = FALSE /\ ~Early(run'[u].at)
        <4>1. run[q].at \in Loop /\ run[q].asked = TRUE
          <5>1. CASE q # r  BY <3>1, <3>3, <5>1 DEF Moves
          <5>2. CASE q = r
            <6>1. Early(run[r].at) /\ run[r].asked = TRUE
              BY <3>1, <3>3, <5>2 DEF Moves, Early
            <6>2. run[r].at \notin {"idle", "start", "setup"}
              BY <6>1 DEF StopInv, AskedInv
            <6> QED  BY <5>2, <6>1, <6>2 DEF Early
          <5> QED  BY <5>1, <5>2
        <4>2. CASE stopFile = FALSE
          <5>1. PICK u \in Runs \ {q} : run[u].plan.dry = FALSE /\ ~Early(run[u].at)
            BY <4>1, <4>2 DEF StopInv, Taken
          <5>2. run'[u].plan = run[u].plan /\ ~Early(run'[u].at)
            BY <3>1, <5>1 DEF Moves
          <5> QED  BY <5>1, <5>2
        <4>3. CASE stopFile = TRUE
          <5>1. run[r].plan.dry = FALSE /\ ~Early(run'[r].at) /\ run'[r].plan = run[r].plan
            BY <3>1, <3>3, <4>3 DEF Moves
          <5>2. r # q  BY <3>3, <5>1 DEF Early
          <5> QED  BY <5>1, <5>2
        <4> QED  BY <2>0, <4>2, <4>3
      <3> QED  BY <3>2, <3>3 DEF StopInv, Taken
    <2>2. ASSUME NEW r \in Runs, NEW plan \in Plans[r], Launch(r, plan)  PROVE StopInv'
      <3>1. /\ run[r].at = "idle" /\ run'[r].at = "start" /\ run'[r].asked = FALSE
            /\ \A u \in Runs \ {r} : run'[u] = run[u]
        BY <2>2, OtherSteps
      <3>2. stopFile' = stopFile  BY <2>2 DEF Launch
      <3>3. AskedInv'  BY <3>1 DEF StopInv, AskedInv
      <3>4. ASSUME NEW q \in Runs, run'[q].at \in Loop, run'[q].asked = TRUE, stopFile' = FALSE
            PROVE  \E u \in Runs \ {q} : run'[u].plan.dry = FALSE /\ ~Early(run'[u].at)
        <4>1. q # r  BY <3>1, <3>4 DEF Loop
        <4>2. PICK u \in Runs \ {q} : run[u].plan.dry = FALSE /\ ~Early(run[u].at)
          BY <3>1, <3>2, <3>4, <4>1 DEF StopInv, Taken
        <4>3. u # r  BY <3>1, <4>2 DEF Early
        <4> QED  BY <3>1, <4>2, <4>3
      <3> QED  BY <3>3, <3>4 DEF StopInv, Taken
    <2>3. ASSUME NEW r \in Runs, Forget(r)  PROVE StopInv'
      BY <2>3 DEF Forget, StopInv, AskedInv, Taken
    <2>4. CASE PressStop
      <3>1. \A r \in Runs : /\ run'[r].at = run[r].at
                            /\ run[r].at \notin Loop => run'[r].asked = run[r].asked
        BY <2>4, OtherSteps
      <3>2. AskedInv'  BY <3>1 DEF StopInv, AskedInv, Loop
      <3>3. stopFile' = TRUE  BY <2>4 DEF PressStop
      <3> QED  BY <3>2, <3>3 DEF StopInv
    <2>5. ASSUME NEW n \in Unsteady, Change(n)  PROVE StopInv'
      <3>1. \A r \in Runs : /\ run'[r].at = run[r].at /\ run'[r].asked = run[r].asked
                            /\ run'[r].plan = run[r].plan
        BY <2>5, OtherSteps
      <3>2. stopFile' = stopFile  BY <2>5 DEF Change
      <3> QED  BY <3>1, <3>2 DEF StopInv, AskedInv, Taken
    <2>6. CASE UNCHANGED vars  BY <2>6 DEF vars, StopInv, AskedInv, Taken
    <2> QED  BY <2>1, <2>2, <2>3, <2>4, <2>5, <2>6, Steps
  <1>3. TypeInv /\ StopInv => StopLostToOthers
    <2> SUFFICES ASSUME TypeInv, StopInv, NEW r \in Runs,
                        run[r].at \in Loop, run[r].asked, ~stopFile
                 PROVE  \E u \in Runs \ {r} :
                          ~run[u].plan.dry /\ run[u].at \notin Loop \union {"idle", "start", "setup"}
      BY DEF StopLostToOthers
    <2>1. run[r].asked = TRUE /\ stopFile = FALSE
      BY DEF TypeInv, TablesInv, RunsInv, Run
    <2>2. PICK u \in Runs \ {r} : run[u].plan.dry = FALSE /\ ~Early(run[u].at)
      BY <2>1 DEF StopInv, Taken
    <2> QED  BY <2>2 DEF Early
  <1> QED  BY <1>1, <1>2, <1>3, TypeInvariant, PTL DEF Spec

------------------------------------------------------------------------------
(* What a run has written *)

\* The copies of one task in tables E and L: its own, uncommitted only while
\* it writes, and as many as it has counted.
Counted(t, E, L) ==
    /\ t.made \subseteq L \ Foreign
    /\ t.pending \intersect E = {} /\ t.left \intersect t.pending = {}
    /\ t.at # "write" => t.pending = {}
    /\ t.plan.dry => t.left = {} /\ t.pending = {}
    /\ ~t.plan.dry =>
         /\ t.at \in Loop \union {"idle", "start", "setup"} =>
              /\ t.success = FALSE
              /\ t.created = Cardinality(t.made) + Cardinality(t.pending)
         /\ t.success = TRUE => t.created = Cardinality(t.made)
Apart == \A r \in Runs : \A u \in Runs \ {r} :
            /\ run[r].made \intersect run[u].made = {}
            /\ run[r].pending \intersect run[u].pending = {}
CountInv == Apart /\ \A r \in Runs : Counted(run[r], entities, ledger)

\* A step in which a task writes nothing.
LEMMA QuietStep ==
    ASSUME TypeInv, CountInv, NEW r \in Runs, NEW t, UNCHANGED tables,
           run' = [run EXCEPT ![r] = t], t.made = run[r].made,
           t.pending \subseteq run[r].pending, Counted(t, entities, ledger)
    PROVE  CountInv'
  <1>0. run \in [Runs -> Run] /\ entities' = entities /\ ledger' = ledger
    BY DEF TypeInv, RunsInv, tables
  <1>1. run'[r] = t /\ \A u \in Runs \ {r} : run'[u] = run[u]  BY <1>0
  <1>2. ASSUME NEW u \in Runs  PROVE Counted(run'[u], entities, ledger)
    BY <1>1 DEF CountInv
  <1>3. Apart'  BY <1>1 DEF CountInv, Apart
  <1> QED  BY <1>0, <1>2, <1>3 DEF CountInv

\* A task that leaves the loop, or ends, with nothing uncommitted.
LEMMA LeftCounted ==
    ASSUME TypeInv, NEW r \in Runs, Counted(run[r], entities, ledger), NEW t \in Run,
           Leave(r, t), t.plan = run[r].plan, t.made = run[r].made,
           t.created = run[r].created, t.pending = {}, t.left \subseteq run[r].left,
           run[r].pending = {} \/ t.success = FALSE, run[r].at \in Loop
    PROVE  \E u : /\ run' = [run EXCEPT ![r] = u] /\ u.made = run[r].made
                  /\ u.pending = {} /\ Counted(u, entities, ledger)
  <1>1. PICK s \in IF t.plan.dry THEN {t.success, FALSE} ELSE {t.success} :
          run' = [run EXCEPT ![r] = [Outside(t) EXCEPT !.at = "report", !.success = s]]
    BY DEF Leave
  <1> DEFINE u == [Outside(t) EXCEPT !.at = "report", !.success = s]
  <1>2. /\ u.at = "report" /\ u.plan = t.plan /\ u.made = t.made /\ u.pending = {}
        /\ u.left = {} /\ u.created = t.created /\ u.success = s
    BY DEF Run, Outside
  <1> HIDE DEF u
  <1>3. ~u.plan.dry => s = t.success  BY <1>1, <1>2
  <1>4. ASSUME ~u.plan.dry, u.success = TRUE
        PROVE  u.created = Cardinality(u.made)
    <2>1. run[r].pending = {}  BY <1>2, <1>3, <1>4
    <2>2. run[r].created = Cardinality(run[r].made) + Cardinality({})
      BY <1>2, <1>4, <2>1 DEF Counted
    <2>3. Cardinality(run[r].made) \in Nat  BY Counts DEF TypeInv, RunsInv, Run
    <2> QED  BY <1>2, <2>2, <2>3, FS_EmptySet
  <1>5. Counted(u, entities, ledger)
    BY <1>2, <1>4 DEF Counted, Loop
  <1>6. run' = [run EXCEPT ![r] = u]  BY <1>1 DEF u
  <1> QED  BY <1>2, <1>5, <1>6

LEMMA NothingPending ==
    ASSUME CountInv, NEW r \in Runs, run[r].at # "write"
    PROVE  run[r].pending = {} /\ Counted(run[r], entities, ledger)
  BY DEF CountInv, Counted

\* The phases in which a run has not reported yet.
LEMMA CarriedCounted ==
    ASSUME CountInv, NEW r \in Runs, NEW t, Carries(t, run[r]),
           t.success = run[r].success, t.at # "write", run[r].at # "write",
           t.at \in Loop \union {"idle", "start", "setup"} =>
             run[r].at \in Loop \union {"idle", "start", "setup"}
    PROVE  Counted(t, entities, ledger) /\ t.made = run[r].made /\ t.pending = {}
  BY NothingPending DEF Counted, Carries

LEMMA InsertCounts ==
    ASSUME TypeInv, CountInv, NEW r \in Runs, NEW c \in Ids, Insert(r, c)
    PROVE  CountInv'
  <1>1. PICK t \in Run : /\ Continue(r, t)
                         /\ t.at = "write" /\ t.success = run[r].success
                         /\ t.plan = run[r].plan
                         /\ t.made = run[r].made /\ t.left = run[r].left \ {c}
                         /\ t.pending = run[r].pending \union {c}
                         /\ t.created = run[r].created + 1
    BY InsertDoes
  <1>2. run' = [run EXCEPT ![r] = t] /\ entities' = entities /\ ledger' = ledger
    BY <1>1 DEF Continue, tables
  <1>3. run'[r] = t /\ \A u \in Runs \ {r} : run'[u] = run[u]
    BY <1>2 DEF TypeInv, RunsInv
  <1>4. /\ c \notin entities /\ \A u \in Runs \ {r} : c \notin run[u].pending
        /\ c \in run[r].left /\ run[r].at = "write"
    BY DEF Insert, Upcoming
  <1>5. Counted(run[r], entities, ledger)  BY DEF CountInv
  <1>6. c \notin run[r].pending /\ ~run[r].plan.dry
    BY <1>4, <1>5 DEF Counted
  <1>7. Cardinality(t.pending) = Cardinality(run[r].pending) + 1
        /\ Cardinality(run[r].pending) \in Nat /\ Cardinality(run[r].made) \in Nat
    <2>1. run[r].pending \in SUBSET Ids /\ run[r].made \in SUBSET Ids
      BY DEF TypeInv, RunsInv, Run
    <2>2. IsFiniteSet(run[r].pending)  BY <2>1, IdsFinite
    <2>3. Cardinality(run[r].pending \union {c}) = Cardinality(run[r].pending) + 1
      BY <1>6, <2>2, FS_AddElement
    <2>4. Cardinality(run[r].pending) \in Nat /\ Cardinality(run[r].made) \in Nat
      BY <2>1, Counts
    <2> QED  BY <1>1, <2>3, <2>4
  <1>8. run[r].success = FALSE
        /\ run[r].created = Cardinality(run[r].made) + Cardinality(run[r].pending)
    BY <1>4, <1>5, <1>6 DEF Counted, Loop
  <1>9. t.created = Cardinality(t.made) + Cardinality(t.pending)
    BY <1>1, <1>7, <1>8
  <1>10. Counted(t, entities, ledger)
    BY <1>1, <1>4, <1>5, <1>6, <1>8, <1>9 DEF Counted
  <1>11. Apart'
    <2>1. \A u \in Runs \ {r} : /\ t.made \intersect run[u].made = {}
                                /\ t.pending \intersect run[u].pending = {}
      BY <1>1, <1>4 DEF CountInv, Apart
    <2> QED  BY <1>3, <2>1 DEF CountInv, Apart
  <1>12. ASSUME NEW u \in Runs  PROVE Counted(run'[u], entities, ledger)
    BY <1>3, <1>10 DEF CountInv
  <1> QED  BY <1>2, <1>11, <1>12 DEF CountInv

LEMMA CommitCounts ==
    ASSUME TypeInv, CountInv, NEW r \in Runs, Commit(r)
    PROVE  CountInv'
  <1>0. run[r].at = "write" /\ run[r].left = {} /\ Counted(run[r], entities, ledger)
    BY DEF Commit, CountInv
  <1>1. PICK t \in Run :
          /\ t.at = "tell" /\ t.success = run[r].success
          /\ t.plan = run[r].plan /\ t.left = run[r].left /\ t.created = run[r].created
          /\ \/ run[r].plan.dry /\ Continue(r, t) /\ Carries(t, run[r])
             \/ /\ ~run[r].plan.dry
                /\ t.pending = {} /\ t.made = run[r].made \union run[r].pending
                /\ entities' = entities \union run[r].pending
                /\ ledger' = ledger \union run[r].pending
                /\ run' = [run EXCEPT ![r] = t]
                /\ UNCHANGED <<stopFile, record, changes>>
    BY CommitDoes
  <1>2. CASE run[r].plan.dry /\ Continue(r, t) /\ Carries(t, run[r])
    <2>1. Counted(t, entities, ledger) /\ t.made = run[r].made /\ t.pending = run[r].pending
      BY <1>0, <1>1, <1>2 DEF Counted, Carries
    <2> QED  BY <1>2, <2>1, QuietStep DEF Continue
  <1>3. CASE /\ ~run[r].plan.dry
             /\ t.pending = {} /\ t.made = run[r].made \union run[r].pending
             /\ entities' = entities \union run[r].pending
             /\ ledger' = ledger \union run[r].pending
             /\ run' = [run EXCEPT ![r] = t]
    <2>1. run'[r] = t /\ \A u \in Runs \ {r} : run'[u] = run[u]
      BY <1>3 DEF TypeInv, RunsInv
    <2>2. /\ ledger \subseteq entities /\ Foreign \subseteq entities
          /\ run[r].pending \in SUBSET Ids /\ run[r].made \in SUBSET Ids
      BY DEF TypeInv, TablesInv, RunsInv, Run
    <2>3. /\ run[r].pending \intersect entities = {}
          /\ run[r].made \subseteq ledger \ Foreign
      BY <1>0 DEF Counted
    <2>4. Cardinality(t.made) = Cardinality(run[r].made) + Cardinality(run[r].pending)
      <3>1. run[r].made \intersect run[r].pending = {}  BY <2>2, <2>3
      <3>2. IsFiniteSet(run[r].made) /\ IsFiniteSet(run[r].pending)
        BY <2>2, IdsFinite
      <3>3. Cardinality(run[r].made \union run[r].pending)
             = Cardinality(run[r].made) + Cardinality(run[r].pending) - Cardinality({})
        BY <3>1, <3>2, FS_Union
      <3>4. Cardinality({}) = 0  BY FS_EmptySet
      <3>5. Cardinality(run[r].made) \in Nat /\ Cardinality(run[r].pending) \in Nat
        BY <2>2, Counts
      <3> QED  BY <1>3, <3>3, <3>4, <3>5
    <2>5. run[r].success = FALSE
          /\ run[r].created = Cardinality(run[r].made) + Cardinality(run[r].pending)
      BY <1>0, <1>3 DEF Counted, Loop
    <2>6. t.created = Cardinality(t.made) + Cardinality(t.pending)
      <3>1. Cardinality(t.pending) = 0  BY <1>3, FS_EmptySet
      <3>2. Cardinality(t.made) \in Nat  BY Counts DEF Run
      <3> QED  BY <1>1, <2>4, <2>5, <3>1, <3>2
    <2>7. t.made \subseteq ledger' \ Foreign
      BY <1>3, <2>2, <2>3
    <2>8. Counted(t, entities', ledger')
      BY <1>0, <1>1, <1>3, <2>5, <2>6, <2>7 DEF Counted
    <2>9. ASSUME NEW u \in Runs \ {r}
          PROVE  /\ Counted(run[u], entities', ledger')
                 /\ t.made \intersect run[u].made = {}
      <3>1. Counted(run[u], entities, ledger) /\ run[u].made \subseteq entities
            /\ run[r].pending \intersect run[u].pending = {}
            /\ run[r].made \intersect run[u].made = {}
        BY <2>2 DEF CountInv, Counted, Apart
      <3>2. run[u].pending \intersect entities' = {} /\ run[u].made \subseteq ledger' \ Foreign
        BY <1>3, <3>1 DEF Counted
      <3>3. Counted(run[u], entities', ledger')  BY <3>1, <3>2 DEF Counted
      <3> QED  BY <1>3, <2>3, <3>1, <3>3
    <2>10. Apart'
      BY <1>3, <2>1, <2>9 DEF CountInv, Apart
    <2> QED  BY <2>1, <2>8, <2>9, <2>10 DEF CountInv
  <1> QED  BY <1>1, <1>2, <1>3

LEMMA TaskCounts ==
    ASSUME TypeInv, CountInv, NEW r \in Runs, TaskStep(r)
    PROVE  CountInv'
  <1>0. run[r] \in Run /\ Counted(run[r], entities, ledger)
        /\ run[r].pending \in SUBSET Ids /\ run[r].made \in SUBSET Ids
    BY DEF TypeInv, RunsInv, CountInv, Run
  <1>1. ASSUME NEW t, Continue(r, t), Carries(t, run[r]), t.success = run[r].success,
               t.at # "write", run[r].at # "write",
               t.at \in Loop \union {"idle", "start", "setup"} =>
                 run[r].at \in Loop \union {"idle", "start", "setup"}
        PROVE  CountInv'
    BY <1>1, CarriedCounted, QuietStep DEF Continue
  <1>2. ASSUME NEW t \in Run, Leave(r, t), Carries(t, run[r]), run[r].at \in Loop \ {"write"},
               UNCHANGED tables
        PROVE  CountInv'
    <2>1. run[r].pending = {} /\ t.pending = {}  BY <1>2, NothingPending DEF Carries
    <2>2. PICK u : /\ run' = [run EXCEPT ![r] = u] /\ u.made = run[r].made
                   /\ u.pending = {} /\ Counted(u, entities, ledger)
      BY <1>0, <1>2, <2>1, LeftCounted DEF Carries
    <2> QED  BY <1>2, <2>2, QuietStep
  <1>3. CASE Started(r)
    <2>1. PICK t \in Run : /\ Carries(t, run[r]) /\ t.success = run[r].success
                           /\ t.at = "setup" /\ run' = [run EXCEPT ![r] = t]
      BY <1>3, StartedDoes
    <2>2. run[r].at = "start" /\ UNCHANGED tables  BY <1>3 DEF Started
    <2> QED  BY <2>1, <2>2, CarriedCounted, QuietStep
  <1>4. CASE Setup(r)
    <2>1. PICK t \in Run : /\ Carries(t, run[r]) /\ Continue(r, t)
                           /\ \/ t.at = "report"
                              \/ t.at = "check" /\ t.success = run[r].success
      BY <1>4, SetupDoes
    <2>2. run[r].at = "setup"  BY <1>4 DEF Setup
    <2>3. CASE t.at = "check" /\ t.success = run[r].success
      BY <1>1, <2>1, <2>2, <2>3 DEF Loop
    <2>4. CASE t.at = "report"
      <3>1. run[r].pending = {}  BY <2>2, NothingPending
      <3>2. ~run[r].plan.dry => run[r].created = Cardinality(run[r].made)
        <4>1. Cardinality(run[r].made) \in Nat  BY <1>0, Counts
        <4>2. Cardinality(run[r].pending) = 0  BY <3>1, FS_EmptySet
        <4>3. ~run[r].plan.dry =>
                run[r].created = Cardinality(run[r].made) + Cardinality(run[r].pending)
          BY <1>0, <2>2 DEF Counted
        <4> QED  BY <4>1, <4>2, <4>3
      <3>3. Counted(t, entities, ledger)
        BY <1>0, <2>1, <2>4, <3>1, <3>2 DEF Counted, Carries, Loop
      <3> QED  BY <2>1, <3>3, QuietStep DEF Continue, Carries
    <2> QED  BY <2>1, <2>3, <2>4
  <1>5. CASE Check(r)
    <2>1. run[r].at = "check"  BY <1>5 DEF Check
    <2> QED  BY <1>1, <1>2, <1>5, <2>1, CheckDoes DEF Loop
  <1>6. CASE Fetch(r)
    <2>1. run[r].at = "fetch"  BY <1>6 DEF Fetch
    <2> QED  BY <1>1, <1>2, <1>6, <2>1, FetchDoes DEF Loop
  <1>7. CASE CallLLM(r)
    <2>1. run[r].at = "llm"  BY <1>7 DEF CallLLM
    <2>2. PICK t \in Run : /\ Continue(r, t) /\ t.at = "write" /\ t.success = run[r].success
                           /\ t.plan = run[r].plan
                           /\ t.made = run[r].made /\ t.pending = run[r].pending
                           /\ \/ t.plan.dry /\ t.left = run[r].left
                              \/ ~t.plan.dry /\ t.created = run[r].created
      BY <1>7, CallDoes
    <2>3. run[r].pending = {}  BY <2>1, NothingPending
    <2>4. Counted(t, entities, ledger)
      BY <1>0, <2>1, <2>2, <2>3 DEF Counted, Loop
    <2> QED  BY <2>2, <2>4, QuietStep DEF Continue
  <1>8. ASSUME NEW c \in Ids, Collide(r, c)  PROVE CountInv'
    <2>1. run[r].at = "write"  BY <1>8 DEF Collide, Upcoming
    <2>2. PICK t \in Run : /\ Continue(r, t) /\ t.at = "write" /\ t.success = run[r].success
                           /\ t.plan = run[r].plan /\ t.made = run[r].made
                           /\ t.left \subseteq run[r].left
                           /\ t.pending = run[r].pending /\ t.created = run[r].created
      BY <1>8, CollideDoes
    <2>3. Counted(t, entities, ledger)
      BY <1>0, <2>1, <2>2 DEF Counted
    <2> QED  BY <2>2, <2>3, QuietStep DEF Continue
  <1>9. CASE Told(r)
    <2>1. run[r].at = "tell"  BY <1>9 DEF Told
    <2> QED  BY <1>1, <1>2, <1>9, <2>1, ToldDoes DEF Loop
  <1>10. CASE Reported(r) \/ Faulted(r)
    <2> DEFINE t == Ended(run[r], "over")
    <2>1. /\ t \in Run /\ t.at = "over" /\ t.plan = run[r].plan /\ t.made = run[r].made
          /\ t.left = {} /\ t.pending = {} /\ t.success = run[r].success
          /\ t.created = run[r].created
      BY TheRun, EndedRun DEF TypeInv
    <2>2. run' = [run EXCEPT ![r] = t] /\ UNCHANGED tables
      BY <1>10 DEF Reported, Faulted
    <2> HIDE DEF t
    <2>3. Counted(t, entities, ledger)  BY <1>0, <2>1 DEF Counted, Loop
    <2> QED  BY <2>1, <2>2, <2>3, QuietStep
  <1>11. CASE Respond(r)
    <2> DEFINE t == Closed(run[r])
    <2>1. t.at = run[r].at /\ Carries(t, run[r]) /\ t.success = run[r].success
      BY TheRun, ClosedRun DEF TypeInv
    <2>2. Continue(r, t)  BY <1>11 DEF Respond
    <2> HIDE DEF t
    <2>3. Counted(t, entities, ledger)  BY <1>0, <2>1 DEF Counted, Carries
    <2> QED  BY <2>1, <2>2, <2>3, QuietStep DEF Continue, Carries
  <1>12. CASE Raise(r)
    <2>1. PICK t \in Run : /\ Leave(r, t) /\ t.success = run[r].success
                           /\ t.plan = run[r].plan /\ t.made = run[r].made /\ t.left = {}
                           /\ t.created = run[r].created
                           /\ \/ t.pending = {}
                              \/ t.plan.dry /\ t.pending = run[r].pending
      BY <1>12, RaiseDoes
    <2>2. run[r].at \in Loop /\ UNCHANGED tables  BY <1>12 DEF Raise, Loop
    <2>3. t.pending = {}  BY <1>0, <2>1 DEF Counted
    <2>4. CASE t.plan.dry
      <3>1. run[r].pending = {}  BY <1>0, <2>1, <2>4 DEF Counted
      <3> QED  BY <1>0, <2>1, <2>2, <2>3, <3>1, LeftCounted, QuietStep
    <2>5. CASE ~t.plan.dry
      <3>1. t.success = FALSE  BY <1>0, <2>1, <2>2, <2>5 DEF Counted
      <3> QED  BY <1>0, <2>1, <2>2, <2>3, <3>1, LeftCounted, QuietStep
    <2> QED  BY <2>4, <2>5
  <1>13. CASE FailUpdate(r)
    <2>1. run[r].at \in {"start", "setup", "report"}  BY <1>13 DEF FailUpdate
    <2>2. PICK t \in Run : /\ Carries(t, run[r]) /\ Falters(r, t)
                           /\ t.at = "fault" /\ t.success = run[r].success
      BY <1>13, FailDoes
    <2>3. Counted(t, entities, ledger) /\ t.made = run[r].made /\ t.pending = {}
      BY <2>1, <2>2, CarriedCounted DEF Loop
    <2> QED  BY <2>2, <2>3, QuietStep DEF Falters
  <1>15. CASE NoModel(r)
    <2>1. run[r].at = "setup"  BY <1>15 DEF NoModel
    <2> QED  BY <1>1, <1>15, <2>1, NoModelDoes DEF Loop
  <1>14. CASE Die(r)
    <2>1. PICK t \in Run : /\ Falters(r, t) /\ t.at = "dead" /\ t.plan = run[r].plan
                           /\ t.made = run[r].made
                           /\ t.left = {} /\ t.pending = {} /\ ~t.success
      BY <1>14, DieDoes
    <2>2. Counted(t, entities, ledger)  BY <1>0, <2>1 DEF Counted, Loop
    <2> QED  BY <2>1, <2>2, QuietStep DEF Falters
  <1> QED  BY <1>3, <1>4, <1>5, <1>6, <1>7, <1>8, <1>9, <1>10, <1>11, <1>12, <1>13, <1>14, <1>15,
              InsertCounts, CommitCounts DEF TaskStep, RunStep

LEMMA StepCounts == TypeInv /\ CountInv /\ [Next]_vars => CountInv'
  <1> SUFFICES ASSUME TypeInv, CountInv, [Next]_vars PROVE CountInv'
    OBVIOUS
  <1>2. ASSUME NEW r \in Runs, NEW plan \in Plans[r], Launch(r, plan)  PROVE CountInv'
    <2>1. /\ run'[r].at = "start"
          /\ run'[r].pending = {} /\ run'[r].made = {} /\ run'[r].left = {}
          /\ run'[r].created = 0 /\ run'[r].success = FALSE
          /\ \A u \in Runs \ {r} : run'[u] = run[u]
      BY <1>2, OtherSteps
    <2>2. entities' = entities /\ ledger' = ledger  BY <1>2 DEF Launch, tables
    <2>3. Counted(run'[r], entities, ledger)
      BY <2>1, FS_EmptySet DEF Counted
    <2>4. Apart'  BY <2>1 DEF CountInv, Apart
    <2> QED  BY <2>1, <2>2, <2>3, <2>4 DEF CountInv
  <1>3. ASSUME NEW r \in Runs, Forget(r)  PROVE CountInv'
    BY <1>3 DEF Forget, tables, CountInv, Apart
  <1>4. CASE PressStop
    <2>1. \A r \in Runs :
            /\ run'[r].at = run[r].at /\ run'[r].plan = run[r].plan
            /\ run'[r].pending = run[r].pending /\ run'[r].made = run[r].made
            /\ run'[r].left = run[r].left /\ run'[r].created = run[r].created
            /\ run'[r].success = run[r].success
      BY <1>4, OtherSteps
    <2>2. entities' = entities /\ ledger' = ledger  BY <1>4 DEF PressStop, tables
    <2>3. ASSUME NEW r \in Runs  PROVE Counted(run'[r], entities, ledger)
      BY <2>1 DEF CountInv, Counted
    <2> QED  BY <2>1, <2>2, <2>3 DEF CountInv, Apart
  <1>5. ASSUME NEW n \in Unsteady, Change(n)  PROVE CountInv'
    <2>1. \A r \in Runs :
            /\ run'[r].at = run[r].at /\ run'[r].plan = run[r].plan
            /\ run'[r].pending = run[r].pending /\ run'[r].made = run[r].made
            /\ run'[r].left = run[r].left /\ run'[r].created = run[r].created
            /\ run'[r].success = run[r].success
      BY <1>5, OtherSteps
    <2>2. ledger' = ledger /\ n \notin Copies /\ entities' \subseteq entities \union {n}
      BY <1>5, RunsAssumption DEF Change, Copies
    <2>3. ASSUME NEW r \in Runs  PROVE Counted(run'[r], entities', ledger')
      <3>1. run[r].pending \subseteq Copies  BY DEF TypeInv, RunsInv, Sound
      <3>2. Counted(run[r], entities, ledger)  BY DEF CountInv
      <3>3. run[r].pending \intersect entities' = {}  BY <2>2, <3>1, <3>2 DEF Counted
      <3> QED  BY <2>1, <2>2, <3>2, <3>3 DEF Counted
    <2> QED  BY <2>1, <2>3 DEF CountInv, Apart
  <1>6. CASE UNCHANGED vars  BY <1>6 DEF vars, tables, CountInv, Apart
  <1> QED  BY <1>2, <1>3, <1>4, <1>5, <1>6, TaskCounts, Steps

LEMMA InitCounts == Init => CountInv
  <1> SUFFICES ASSUME Init PROVE CountInv
    OBVIOUS
  <1>1. \A r \in Runs : run[r] = Idle  BY DEF Init
  <1>2. /\ Idle.made = {} /\ Idle.pending = {} /\ Idle.left = {} /\ Idle.created = 0
        /\ Idle.success = FALSE /\ Idle.at = "idle"
    BY DEF Idle
  <1>3. Counted(Idle, entities, ledger)  BY <1>2, FS_EmptySet DEF Counted
  <1> QED  BY <1>1, <1>2, <1>3 DEF CountInv, Apart

LEMMA CountInvariant == Spec => [](TypeInv /\ CountInv)
  BY InitCounts, StepCounts, TypeInvariant, PTL DEF Spec

\* The numbers a run reports are those of the rows it has committed, and no
\* other run has made one of them.
THEOREM CountsAreTrue == Spec => []CountsAreCommitted
  <1>1. TypeInv /\ CountInv => CountsAreCommitted
    <2> SUFFICES ASSUME TypeInv, CountInv, NEW r \in Runs,
                        run[r].at = "over", run[r].success, ~run[r].plan.dry
                 PROVE  /\ run[r].created = Cardinality(run[r].made)
                        /\ run[r].made \subseteq ledger \ Foreign
                        /\ \A u \in Runs \ {r} : run[u].made \intersect run[r].made = {}
      BY DEF CountsAreCommitted
    <2>1. run[r].success = TRUE  BY DEF TypeInv, RunsInv, Run
    <2>2. Counted(run[r], entities, ledger)  BY DEF CountInv
    <2>3. \A u \in Runs \ {r} : run[u].made \intersect run[r].made = {}
      BY DEF CountInv, Apart
    <2> QED  BY <2>1, <2>2, <2>3 DEF Counted
  <1> QED  BY <1>1, CountInvariant, PTL

------------------------------------------------------------------------------
(***************************************************************************)
(* The OFFSET of rephrase_from_source.py: that a run passes no row over,   *)
(* for any number of runs, originals, batch sizes and plans.               *)
(***************************************************************************)

\* The rows of a run of one source.
Originals == Matching(FALSE, entities)
Reading == {"start", "setup"} \union Loop

\* What lies before the offset, or before the end of the batch that is being
\* written, has been seen: n counts no further than the rows of the batch do.
Covered(t, rows) == \A n \in rows :
    Rank(rows, n) < t.offset + Cardinality(t.batch) => CopyOf(n) \in t.seen

\* A run of one source whose originals nobody has changed reads the originals
\* there are, in every transaction.
Undisturbed(t) == ~t.plan.all /\ t.same = TRUE /\ t.at \in Reading
Paged(t, rows) == Undisturbed(t) =>
    /\ t.at \in {"start", "setup"} => t.offset = 0 /\ t.batch = {}
    /\ Covered(t, rows)
    /\ t.open = TRUE => Matching(FALSE, t.view.entities) = rows
PagingInv == \A r \in Runs : Paged(run[r], Originals)

------------------------------------------------------------------------------
(* Pages *)

LEMMA IdsAreNumbers == \A n \in Ids : n \in Int /\ 1 <= n
  <1> DEFINE k == N * (1 + Depth)
  <1>1. Ids = 1..k  BY DEF Ids
  <1> HIDE DEF k
  <1> QED  BY <1>1

\* A row has a greater rank than those before it.
LEMMA RankGrows ==
    ASSUME NEW rows \in SUBSET Ids, NEW m \in rows, NEW n \in rows, m < n
    PROVE  Rank(rows, m) < Rank(rows, n)
  <1> DEFINE S == {x \in rows : x < m}
             T == {x \in rows : x < n}
  <1>0. m \in Int /\ n \in Int /\ \A x \in rows : x \in Int  BY IdsAreNumbers
  <1>1. S \in SUBSET T /\ m \in T /\ m \notin S
    <2>1. \A x \in S : x \in T  BY <1>0
    <2>2. m \in T /\ m \notin S  BY <1>0
    <2> HIDE DEF S, T
    <2> QED  BY <2>1, <2>2
  <1>2. IsFiniteSet(T) /\ S \in SUBSET Ids /\ T \in SUBSET Ids
    <2>1. S \in SUBSET Ids /\ T \in SUBSET Ids  OBVIOUS
    <2> HIDE DEF S, T
    <2> QED  BY <2>1, IdsFinite
  <1>3. Cardinality(S) \in Nat /\ Cardinality(T) \in Nat  BY <1>2, Counts
  <1>4. Cardinality(S) <= Cardinality(T) /\ (Cardinality(S) = Cardinality(T) => T = S)
    BY <1>1, <1>2, FS_Subset
  <1>5. Cardinality(S) < Cardinality(T)  BY <1>1, <1>3, <1>4
  <1> QED  BY <1>5 DEF Rank

LEMMA RankType == \A rows \in SUBSET Ids : \A n \in rows : Rank(rows, n) \in Nat
  <1> SUFFICES ASSUME NEW rows \in SUBSET Ids, NEW n \in rows  PROVE Rank(rows, n) \in Nat
    OBVIOUS
  <1>1. {m \in rows : m < n} \in SUBSET Ids  OBVIOUS
  <1> QED  BY <1>1, Counts DEF Rank

\* A page has no more rows than its limit, for two rows have different ranks.
LEMMA PageSize ==
    ASSUME NEW rows \in SUBSET Ids, NEW offset \in Nat, NEW limit \in Int
    PROVE  /\ Page(rows, offset, limit) \in SUBSET rows
           /\ Page(rows, offset, limit) # {} =>
                Cardinality(Page(rows, offset, limit)) <= limit
  <1> DEFINE page == Page(rows, offset, limit)
             T    == offset..(offset + limit - 1)
             f    == [n \in page |-> Rank(rows, n)]
  <1>1. page \in SUBSET rows  BY DEF Page
  <1>2. \A n \in page : Rank(rows, n) \in T
    BY RankType DEF Page
  <1>3. offset \in Int /\ offset + limit - 1 \in Int  OBVIOUS
  <1>4. IsFiniteSet(T) /\ Cardinality(T) = IF offset > offset + limit - 1 THEN 0
                                           ELSE offset + limit - 1 - offset + 1
    BY <1>3, FS_Interval
  <1>5. \A m, n \in page : Rank(rows, m) = Rank(rows, n) => m = n
    <2> SUFFICES ASSUME NEW m \in page, NEW n \in page, Rank(rows, m) = Rank(rows, n), m # n
                 PROVE  FALSE
      OBVIOUS
    <2>1. m < n \/ n < m
      <3>1. m \in Int /\ n \in Int  BY <1>1, IdsAreNumbers
      <3> QED  BY <3>1
    <2>2. Rank(rows, m) \in Nat /\ Rank(rows, n) \in Nat  BY <1>1, RankType
    <2> QED  BY <1>1, <2>1, <2>2, RankGrows
  <1> HIDE DEF page, T
  <1>6. f \in Injection(page, T)
    BY <1>2, <1>5 DEF Injection, IsInjective
  <1>7. Cardinality(page) <= Cardinality(T)
    <2> HIDE DEF f
    <2> QED  BY <1>4, <1>6, FS_Injection
  <1>8. page # {} => Cardinality(page) <= limit
    <2>1. page # {} => \E n \in page : Rank(rows, n) \in T  BY <1>2
    <2>2. page # {} => limit > 0  BY <2>1 DEF T
    <2> QED  BY <1>4, <1>7, <2>2
  <1> QED  BY <1>1, <1>8 DEF page

\* So the rows before the end of a page are those before it and its own.
LEMMA PageEnd ==
    ASSUME NEW rows \in SUBSET Ids, NEW offset \in Nat, NEW limit \in Int, NEW n \in rows,
           Rank(rows, n) < offset + Cardinality(Page(rows, offset, limit))
    PROVE  Rank(rows, n) < offset \/ n \in Page(rows, offset, limit)
  <1>1. Rank(rows, n) \in Nat  BY RankType
  <1>2. CASE Page(rows, offset, limit) = {}  BY <1>1, <1>2, FS_EmptySet
  <1>3. CASE Page(rows, offset, limit) # {}
    <2>1. Cardinality(Page(rows, offset, limit)) <= limit
          /\ Page(rows, offset, limit) \in SUBSET Ids
      BY <1>3, PageSize
    <2>2. Cardinality(Page(rows, offset, limit)) \in Nat  BY <2>1, Counts
    <2>3. Rank(rows, n) < offset + limit  BY <1>1, <2>1, <2>2
    <2> QED  BY <1>1, <2>3 DEF Page
  <1> QED  BY <1>2, <1>3

------------------------------------------------------------------------------
(* Steps *)

\* Copies are nobody's originals.
LEMMA CopiesAdded ==
    ASSUME NEW S \in SUBSET Copies, NEW E
    PROVE  Matching(FALSE, E \union S) = Matching(FALSE, E)
  <1>1. \A n \in S : ~(n <= N)  BY IdsAreNumbers, RunsAssumption DEF Copies
  <1> QED  BY <1>1 DEF Matching

SamePlace(t, u) == /\ t.plan = u.plan /\ t.same = u.same
                   /\ t.offset = u.offset /\ t.batch = u.batch /\ t.seen = u.seen

\* A step that goes on from the same place, in the same transaction or in one
\* that shows the same originals.
LEMMA PlaceKept ==
    ASSUME NEW rows, NEW t, NEW u, SamePlace(t, u), Paged(u, rows),
           t.at \in Reading => u.at \in Reading,
           t.at \in {"start", "setup"} => u.at \in {"start", "setup"},
           \/ t.open = u.open /\ t.view = u.view
           \/ t.open = FALSE
           \/ Undisturbed(u) => Matching(FALSE, t.view.entities) = rows
    PROVE  Paged(t, rows)
  BY DEF SamePlace, Paged, Covered, Undisturbed

LEMMA ViewsOriginals ==
    ASSUME TypeInv, PagingInv, NEW r \in Runs
    PROVE  /\ Undisturbed(run[r]) => Matching(FALSE, View(r).entities) = Originals
           /\ SamePlace(InView(r), run[r]) /\ InView(r).at = run[r].at
           /\ InView(r).view = View(r)
  <1>1. run[r] \in Run  BY TheRun DEF TypeInv
  <1>2. Undisturbed(run[r]) => Matching(FALSE, View(r).entities) = Originals
    BY <1>1 DEF View, Snapshot, Originals, PagingInv, Paged, Run
  <1>3. SamePlace(InView(r), run[r])
    BY <1>1 DEF InView, SamePlace, Run
  <1> QED  BY <1>2, <1>3, ViewedRun

\* A task moves to t.
LEMMA MovedTo ==
    ASSUME TypeInv, PagingInv, NEW r \in Runs, NEW t, run' = [run EXCEPT ![r] = t],
           Originals' = Originals, Paged(t, Originals)
    PROVE  PagingInv'
  <1>1. run'[r] = t /\ \A u \in Runs \ {r} : run'[u] = run[u]
    BY DEF TypeInv, RunsInv
  <1>2. \A u \in Runs : Paged(run'[u], Originals)  BY <1>1 DEF PagingInv
  <1> QED  BY <1>2 DEF PagingInv, Paged, Covered, Undisturbed

LEMMA ContinuedTo ==
    ASSUME TypeInv, PagingInv, NEW r \in Runs, NEW t, Continue(r, t), Paged(t, Originals)
    PROVE  PagingInv'
  <1>1. run' = [run EXCEPT ![r] = t] /\ Originals' = Originals
    BY DEF Continue, tables, Originals, Matching
  <1> QED  BY <1>1, MovedTo

\* A task that leaves the loop reads nothing more.
LEMMA LeftPaged ==
    ASSUME TypeInv, PagingInv, NEW r \in Runs, NEW t \in Run, Leave(r, t), UNCHANGED tables
    PROVE  PagingInv'
  <1>1. PICK s : run' = [run EXCEPT ![r] = [Outside(t) EXCEPT !.at = "report", !.success = s]]
    BY DEF Leave
  <1> DEFINE u == [Outside(t) EXCEPT !.at = "report", !.success = s]
  <1>2. u.at = "report"  BY DEF Run, Outside
  <1>3. run' = [run EXCEPT ![r] = u] /\ Originals' = Originals
    BY <1>1 DEF tables, Originals, Matching
  <1> HIDE DEF u
  <1>4. Paged(u, Originals)  BY <1>2 DEF Paged, Undisturbed, Reading, Loop
  <1> QED  BY <1>3, <1>4, MovedTo

\* The next page: every row of it is either new and in the batch, or seen
\* before and behind the offset from now on.
LEMMA FetchPaged ==
    ASSUME TypeInv, PagingInv, NEW r \in Runs, Fetch(r)
    PROVE  PagingInv'
  <1> DEFINE t     == InView(r)
             rows  == Matching(t.plan.all, t.view.entities)
             page  == Page(rows, t.offset, Limit(t))
             batch == {n \in page : CopyOf(n) \notin t.seen}
             o     == t.offset + Cardinality(page \ batch)
             s     == t.seen \union CopiesOf(batch)
             next  == [t EXCEPT !.offset = o, !.seen = s, !.batch = batch, !.new = 0]
             b     == [next EXCEPT !.at = "llm"]
  <1>1. CASE \E a \in Run : Leave(r, a) /\ UNCHANGED tables
    BY <1>1, LeftPaged
  <1>2. CASE Continue(r, b)
    <2>1. /\ t \in Run /\ SamePlace(t, run[r]) /\ t.view = View(r)
          /\ run[r].at = "fetch" /\ run[r] \in Run
          /\ Undisturbed(run[r]) => Matching(FALSE, t.view.entities) = Originals
      BY ViewedRun, ViewsOriginals, TheRun DEF Fetch, TypeInv
    <2> HIDE DEF t
    <2>2. /\ b.at = "llm" /\ b.plan = run[r].plan /\ b.same = run[r].same
          /\ b.offset = o /\ b.seen = s /\ b.batch = batch /\ b.view = t.view
      <3> HIDE DEF o, s, batch
      <3> QED  BY <2>1 DEF Run, SamePlace
    <2> HIDE DEF b
    <2>3. ASSUME Undisturbed(b)
          PROVE  Covered(b, Originals) /\ Matching(FALSE, b.view.entities) = Originals
      <3>1. Undisturbed(run[r])
        BY <2>1, <2>2, <2>3 DEF Undisturbed, Reading, Loop
      <3>2. t.plan.all = FALSE /\ rows = Originals
        BY <2>1, <2>2, <3>1 DEF Undisturbed, SamePlace, Run, Plan
      <3>3. Covered(run[r], Originals)
        BY <3>1 DEF PagingInv, Paged
      <3>4. Limit(t) \in Int /\ t.offset \in Nat
        BY <2>1, RunsAssumption DEF Limit, Run, Plan
      <3>5. rows \in SUBSET Ids  BY <2>1, Selected DEF Run
      <3>6. page \in SUBSET Ids /\ batch \in SUBSET page
        BY <3>5 DEF Page
      <3>7. Cardinality(page \ batch) + Cardinality(batch) = Cardinality(page)
        <4>1. IsFiniteSet(page) /\ page \intersect batch = batch  BY <3>6, IdsFinite
        <4>2. Cardinality(page \ batch) = Cardinality(page) - Cardinality(batch)
          BY <4>1, FS_Difference
        <4>3. Cardinality(page) \in Nat /\ Cardinality(batch) \in Nat
          BY <3>6, Counts
        <4> QED  BY <4>2, <4>3
      <3>8. ASSUME NEW n \in rows, Rank(rows, n) < o + Cardinality(batch)
            PROVE  CopyOf(n) \in s
        <4>1. /\ Cardinality(page \ batch) \in Nat /\ Cardinality(batch) \in Nat
              /\ Cardinality(run[r].batch) \in Nat /\ Rank(rows, n) \in Nat
          <5>1. page \ batch \in SUBSET Ids /\ batch \in SUBSET Ids
                /\ run[r].batch \in SUBSET Ids
            BY <2>1, <3>6 DEF Run
          <5>2. Rank(rows, n) \in Nat  BY <3>5, <3>8, RankType
          <5> HIDE DEF rows, page, batch
          <5> QED  BY <5>1, <5>2, Counts
        <4>2. Rank(rows, n) < t.offset + Cardinality(page)
          BY <3>4, <3>7, <3>8, <4>1
        <4>3. Rank(rows, n) < t.offset \/ n \in page
          <5> HIDE DEF rows
          <5> QED  BY <3>4, <3>5, <3>8, <4>2, PageEnd
        <4>4. CASE n \in page  BY <4>4 DEF CopiesOf
        <4>5. CASE Rank(rows, n) < t.offset
          <5>1. t.offset = run[r].offset /\ t.seen = run[r].seen  BY <2>1 DEF SamePlace
          <5>2. Rank(Originals, n) < run[r].offset + Cardinality(run[r].batch)
            BY <3>2, <3>4, <4>1, <4>5, <5>1
          <5>3. CopyOf(n) \in run[r].seen  BY <3>2, <3>3, <3>8, <5>2 DEF Covered
          <5> QED  BY <5>1, <5>3
        <4> QED  BY <4>3, <4>4, <4>5
      <3>9. Covered(b, Originals)
        <4> HIDE DEF rows, o, s, batch
        <4> QED  BY <2>2, <3>2, <3>8 DEF Covered
      <3> QED  BY <2>1, <2>2, <3>1, <3>9
    <2>4. Paged(b, Originals)  BY <2>2, <2>3 DEF Paged
    <2> QED  BY <1>2, <2>4, ContinuedTo
  <1>3. (\E a \in Run : Leave(r, a) /\ UNCHANGED tables) \/ Continue(r, b)
    <2>1. CASE batch = {}
      <3> DEFINE a == [next EXCEPT !.success = TRUE]
      <3>1. Leave(r, a) /\ UNCHANGED tables  BY <2>1 DEF Fetch
      <3>2. PICK c \in Run : \/ Leave(r, c) /\ UNCHANGED <<tables, record, changes>>
                             \/ Continue(r, c) /\ c.at = "llm"
        BY FetchDoes
      <3>3. a \in Run
        <4>1. t \in Run  BY ViewedRun
        <4> HIDE DEF t
        <4>2. rows \in SUBSET Ids  BY <4>1, Selected DEF Run
        <4>3. page \in SUBSET Ids /\ batch \in SUBSET Ids /\ page \ batch \in SUBSET Ids
          BY <4>2 DEF Page
        <4>4. Cardinality(page \ batch) \in Nat /\ CopiesOf(batch) = {}
          BY <2>1, <4>3, Counts DEF CopiesOf
        <4>5. o \in Nat /\ s \in SUBSET Ids  BY <4>1, <4>4 DEF Run
        <4> HIDE DEF o, s, batch
        <4> QED  BY <4>1, <4>3, <4>5 DEF Run
      <3> QED  BY <3>1, <3>3
    <2>2. CASE batch # {}  BY <2>2 DEF Fetch
    <2> QED  BY <2>1, <2>2
  <1> QED  BY <1>1, <1>2, <1>3

\* The batch is written: its rows count now, and so the offset is where the
\* end of the batch was.
LEMMA CommitPaged ==
    ASSUME TypeInv, PagingInv, NEW r \in Runs, Commit(r)
    PROVE  PagingInv'
  <1> DEFINE o == run[r].offset + Cardinality(run[r].batch)
             t == [run[r] EXCEPT !.at = "tell", !.offset = o, !.batch = {}]
             p == t.made \union t.pending
             v == [t EXCEPT !.made = p, !.pending = {}]
             w == Closed(v)
  <1>1. run[r] \in Run /\ Sound(run[r]) /\ run[r].at = "write"
    BY TheRun DEF TypeInv, Commit
  <1>2. o \in Nat
    <2>1. Cardinality(run[r].batch) \in Nat  BY <1>1, Counts DEF Run
    <2> QED  BY <1>1, <2>1 DEF Run
  <1> HIDE DEF o
  <1>3. /\ t.at = "tell" /\ t.plan = run[r].plan /\ t.same = run[r].same
        /\ t.offset = o /\ t.batch = {} /\ t.seen = run[r].seen
        /\ t.open = run[r].open /\ t.view = run[r].view
        /\ t.made = run[r].made /\ t.pending = run[r].pending
        /\ DOMAIN t = DOMAIN run[r]
    BY <1>1 DEF Run
  <1>4. \/ Continue(r, t)
        \/ run' = [run EXCEPT ![r] = w] /\ entities' = entities \union t.pending
    BY DEF Commit, o
  <1>5. t \in Run  BY <1>1, <1>2 DEF Run, Phases, Updating
  <1> HIDE DEF t
  <1>6. Paged(t, Originals)
    <2>1. Undisturbed(t) => Covered(t, Originals)
      <3> SUFFICES ASSUME Undisturbed(t), NEW n \in Originals,
                          Rank(Originals, n) < t.offset + Cardinality(t.batch)
                   PROVE  CopyOf(n) \in t.seen
        BY DEF Covered
      <3>1. Covered(run[r], Originals)
        BY <1>1, <1>3 DEF PagingInv, Paged, Undisturbed, Reading, Loop
      <3>2. Rank(Originals, n) < o  BY <1>2, <1>3, FS_EmptySet
      <3> QED  BY <1>3, <3>1, <3>2 DEF Covered, o
    <2>2. Undisturbed(t) => Undisturbed(run[r])
      BY <1>1, <1>3 DEF Undisturbed, Reading, Loop
    <2> QED  BY <1>3, <2>1, <2>2 DEF PagingInv, Paged
  <1>7. CASE Continue(r, t)  BY <1>6, <1>7, ContinuedTo
  <1>8. CASE run' = [run EXCEPT ![r] = w] /\ entities' = entities \union t.pending
    <2>1. Originals' = Originals
      BY <1>1, <1>3, <1>8, CopiesAdded DEF Originals, Sound, Matching, Copies
    <2>2. v.open = t.open /\ v.at = t.at /\ SamePlace(v, t) /\ v \in Run
      <3>1. p \in SUBSET Ids  BY <1>5 DEF Run
      <3> HIDE DEF p
      <3> QED  BY <1>5, <3>1 DEF Run, SamePlace
    <2> HIDE DEF v
    <2>3. w.open = FALSE /\ w.at = t.at /\ SamePlace(w, t)
      BY <2>2 DEF Closed, Run, SamePlace
    <2> HIDE DEF w
    <2>4. Paged(w, Originals)
      BY <1>6, <2>3 DEF SamePlace, Paged, Covered, Undisturbed
    <2> QED  BY <1>8, <2>1, <2>4, MovedTo
  <1> QED  BY <1>4, <1>7, <1>8

LEMMA TaskPaged ==
    ASSUME TypeInv, PagingInv, NEW r \in Runs, TaskStep(r)
    PROVE  PagingInv'
  <1> DEFINE u == run[r]
  <1>0. u \in Run /\ run \in [Runs -> Run] /\ Paged(u, Originals)
    BY DEF TypeInv, RunsInv, PagingInv
  <1>1. ASSUME NEW t, Continue(r, t), SamePlace(t, u), t.open = u.open, t.view = u.view,
               u.at \in Reading, t.at \in {"start", "setup"} => u.at \in {"start", "setup"}
        PROVE  PagingInv'
    BY <1>0, <1>1, PlaceKept, ContinuedTo
  <1>2. ASSUME NEW t, run' = [run EXCEPT ![r] = t], UNCHANGED tables, t.at \notin Reading
        PROVE  PagingInv'
    <2>1. Originals' = Originals  BY <1>2 DEF tables, Originals, Matching
    <2>2. Paged(t, Originals)  BY <1>2 DEF Paged, Undisturbed
    <2> QED  BY <1>2, <2>1, <2>2, MovedTo
  <1>3. CASE Started(r)
    <2> DEFINE t == [u EXCEPT !.at = "setup"]
    <2>1. run' = [run EXCEPT ![r] = t] /\ UNCHANGED tables /\ u.at = "start"
      BY <1>0, <1>3 DEF Started
    <2>2. t.at = "setup" /\ SamePlace(t, u) /\ t.open = u.open /\ t.view = u.view
      BY <1>0 DEF Run, SamePlace
    <2> HIDE DEF t
    <2>3. Originals' = Originals  BY <2>1 DEF tables, Originals, Matching
    <2>4. Paged(t, Originals)  BY <1>0, <2>1, <2>2, PlaceKept DEF Reading
    <2> QED  BY <2>1, <2>3, <2>4, MovedTo
  <1>4. CASE Setup(r)
    <2> DEFINE t    == InView(r)
               rows == Matching(t.plan.all, t.view.entities)
               a    == [t EXCEPT !.at = "report", !.success = TRUE]
               f    == CopiesOf(rows) \intersect t.view.ledger = {}
               b    == [t EXCEPT !.at = "check", !.seen = t.view.ledger, !.fresh = f]
    <2>1. /\ t \in Run /\ SamePlace(t, u) /\ u.at = "setup"
          /\ Undisturbed(u) => Matching(FALSE, t.view.entities) = Originals
      BY <1>4, ViewedRun, ViewsOriginals DEF Setup
    <2>2. Continue(r, a) \/ Continue(r, b)  BY <1>4 DEF Setup
    <2> HIDE DEF t, f
    <2>3. a.at = "report"  BY <2>1 DEF Run
    <2>4. /\ b.at = "check" /\ b.plan = u.plan /\ b.same = u.same /\ b.offset = u.offset
          /\ b.batch = u.batch /\ b.view = t.view
      BY <2>1 DEF Run, SamePlace
    <2> HIDE DEF a, b
    <2>5. CASE Continue(r, a)
      BY <1>2, <2>3, <2>5 DEF Continue, Reading, Loop
    <2>6. CASE Continue(r, b)
      <3>1. Undisturbed(b) => Undisturbed(u)
        BY <2>1, <2>4 DEF Undisturbed, Reading
      <3>2. Undisturbed(b) => b.offset = 0 /\ Cardinality(b.batch) = 0
        BY <1>0, <2>1, <2>4, <3>1, FS_EmptySet DEF Paged
      <3>3. \A n \in Originals : Rank(Originals, n) \in Nat
        BY RankType, Selected DEF Originals, TypeInv, TablesInv
      <3>4. Undisturbed(b) => Covered(b, Originals)
        BY <3>2, <3>3 DEF Covered
      <3>5. Paged(b, Originals)  BY <2>1, <2>4, <3>1, <3>4 DEF Paged
      <3> QED  BY <2>6, <3>5, ContinuedTo
    <2> QED  BY <2>2, <2>5, <2>6
  <1>5. CASE Check(r)
    <2> DEFINE a == [u EXCEPT !.success = TRUE, !.stopped = TRUE]
               b == [u EXCEPT !.at = "fetch"]
    <2>1. \/ Leave(r, a) /\ UNCHANGED tables
          \/ Continue(r, b)
      BY <1>5 DEF Check
    <2>2. a \in Run  BY <1>0 DEF Run
    <2>3. b.at = "fetch" /\ SamePlace(b, u) /\ b.open = u.open /\ b.view = u.view
      BY <1>0 DEF Run, SamePlace
    <2>4. u.at = "check"  BY <1>5 DEF Check
    <2> HIDE DEF a, b
    <2> QED  BY <1>1, <2>1, <2>2, <2>3, <2>4, LeftPaged DEF Reading, Loop
  <1>6. CASE CallLLM(r)
    <2>1. PICK ok \in SUBSET u.batch :
            LET t == [u EXCEPT !.at = "write", !.refused = @ \/ ok # u.batch]
            IN Continue(r, IF t.plan.dry
                           THEN [t EXCEPT !.created = @ + Cardinality(ok),
                                          !.new = Cardinality(ok)]
                           ELSE [t EXCEPT !.left = CopiesOf(ok)])
      BY <1>6 DEF CallLLM
    <2> DEFINE q == u.refused \/ ok # u.batch
               t == [u EXCEPT !.at = "write", !.refused = q]
               k == t.created + Cardinality(ok)
               a == [t EXCEPT !.created = k, !.new = Cardinality(ok)]
               b == [t EXCEPT !.left = CopiesOf(ok)]
    <2>2. Continue(r, a) \/ Continue(r, b)  BY <2>1
    <2>3. u.at = "llm"  BY <1>6 DEF CallLLM
    <2> HIDE DEF q
    <2>4. /\ t.at = "write" /\ SamePlace(t, u) /\ t.open = u.open /\ t.view = u.view
          /\ DOMAIN t = DOMAIN u
      BY <1>0 DEF Run, SamePlace
    <2>5. DOMAIN u = DOMAIN Idle  BY <1>0 DEF Run, Idle
    <2> HIDE DEF t, k
    <2>6. a.at = "write" /\ SamePlace(a, u) /\ a.open = u.open /\ a.view = u.view
      BY <2>4, <2>5 DEF Idle, SamePlace
    <2>7. b.at = "write" /\ SamePlace(b, u) /\ b.open = u.open /\ b.view = u.view
      BY <2>4, <2>5 DEF Idle, SamePlace
    <2> HIDE DEF a, b
    <2> QED  BY <1>1, <2>2, <2>3, <2>6, <2>7 DEF Reading, Loop
  <1>7. CASE \E c \in Ids : Insert(r, c) \/ Collide(r, c)
    <2>1. PICK c \in Ids : Insert(r, c) \/ Collide(r, c)  BY <1>7
    <2> DEFINE t == InView(r)
               d == t.left \ {c}
               p == t.pending \union {c}
               k == t.created + 1
               m == t.new + 1
               a == [t EXCEPT !.left = d, !.pending = p, !.created = k, !.new = m]
               b == [t EXCEPT !.left = d, !.refused = TRUE]
    <2>2. /\ t \in Run /\ SamePlace(t, u) /\ t.at = u.at /\ u.at = "write"
          /\ Undisturbed(u) => Matching(FALSE, t.view.entities) = Originals
      BY <2>1, ViewedRun, ViewsOriginals DEF Insert, Collide, Upcoming
    <2>3. Continue(r, a) \/ Continue(r, b)  BY <2>1 DEF Insert, Collide
    <2> HIDE DEF t, d, p, k, m
    <2>4. a.at = u.at /\ SamePlace(a, u) /\ a.view = t.view
      BY <2>2 DEF Run, SamePlace
    <2>5. b.at = u.at /\ SamePlace(b, u) /\ b.view = t.view
      BY <2>2 DEF Run, SamePlace
    <2> HIDE DEF a, b
    <2>6. Paged(a, Originals) /\ Paged(b, Originals)
      BY <1>0, <2>2, <2>4, <2>5, PlaceKept
    <2> QED  BY <2>3, <2>6, ContinuedTo
  <1>8. CASE Told(r)
    <2> DEFINE a == [u EXCEPT !.success = TRUE]
               b == [u EXCEPT !.at = "check"]
    <2>1. /\ u.at = "tell" /\ UNCHANGED tables
          /\ Leave(r, a) \/ run' = [run EXCEPT ![r] = b]
      BY <1>0, <1>8 DEF Told
    <2>2. a \in Run  BY <1>0 DEF Run
    <2>3. b.at = "check" /\ SamePlace(b, u) /\ b.open = u.open /\ b.view = u.view
      BY <1>0 DEF Run, SamePlace
    <2> HIDE DEF a, b
    <2>4. CASE Leave(r, a)  BY <2>1, <2>2, <2>4, LeftPaged
    <2>5. CASE run' = [run EXCEPT ![r] = b]
      <3>1. Originals' = Originals  BY <2>1 DEF tables, Originals, Matching
      <3>2. Paged(b, Originals)  BY <1>0, <2>1, <2>3, PlaceKept DEF Reading, Loop
      <3> QED  BY <2>5, <3>1, <3>2, MovedTo
    <2> QED  BY <2>1, <2>4, <2>5
  <1>9. CASE Reported(r) \/ Faulted(r)
    <2>1. Ended(u, "over").at = "over"  BY <1>0, TheRun, EndedRun DEF TypeInv
    <2>2. run' = [run EXCEPT ![r] = Ended(u, "over")] /\ UNCHANGED tables
      BY <1>9 DEF Reported, Faulted
    <2> QED  BY <1>2, <2>1, <2>2 DEF Reading, Loop
  <1>10. CASE Respond(r)
    <2>1. /\ Closed(u).open = FALSE /\ SamePlace(Closed(u), u) /\ Closed(u).at = u.at
      BY <1>0 DEF Closed, SamePlace, Run
    <2>2. Paged(Closed(u), Originals)  BY <1>0, <2>1, PlaceKept
    <2>3. Continue(r, Closed(u))  BY <1>10 DEF Respond
    <2> QED  BY <2>2, <2>3, ContinuedTo
  <1>11. CASE Raise(r)
    <2>1. PICK t \in Run : Leave(r, t)  BY <1>11, RaiseDoes
    <2> QED  BY <1>11, <2>1, LeftPaged DEF Raise, tables
  <1>12. CASE FailUpdate(r) \/ NoModel(r) \/ Die(r)
    <2>1. PICK t : /\ Continue(r, t) \/ Falters(r, t)
                   /\ t.at \in {"fault", "report", "dead"}
      BY <1>12, FailDoes, NoModelDoes, DieDoes
    <2> QED  BY <1>2, <2>1 DEF Continue, Falters, Reading, Loop
  <1> QED  BY <1>3, <1>4, <1>5, <1>6, <1>7, <1>8, <1>9, <1>10, <1>11, <1>12,
              FetchPaged, CommitPaged DEF TaskStep, RunStep

LEMMA PagingInvariant == Spec => [](TypeInv /\ PagingInv)
  <1>1. Init => PagingInv
    <2> SUFFICES ASSUME Init, NEW r \in Runs PROVE Paged(run[r], Originals)
      BY DEF PagingInv
    <2>1. run[r].at = "idle"  BY DEF Init, Idle
    <2> QED  BY <2>1 DEF Paged, Undisturbed, Reading, Loop
  <1>2. TypeInv /\ PagingInv /\ [Next]_vars => PagingInv'
    <2> SUFFICES ASSUME TypeInv, PagingInv, [Next]_vars PROVE PagingInv'
      OBVIOUS
    <2>0. run \in [Runs -> Run]  BY DEF TypeInv, RunsInv
    <2>1. ASSUME NEW r \in Runs, NEW plan \in Plans[r], Launch(r, plan)  PROVE PagingInv'
      <3> DEFINE t == [Idle EXCEPT !.at = "start", !.plan = plan,
                                   !.open = TRUE, !.view = Snapshot]
      <3>1. /\ t.at = "start" /\ t.offset = 0 /\ t.batch = {} /\ t.view = Snapshot
        BY DEF Idle
      <3>2. run' = [run EXCEPT ![r] = t] /\ UNCHANGED tables  BY <2>1 DEF Launch
      <3> HIDE DEF t
      <3>3. Originals' = Originals  BY <3>2 DEF tables, Originals, Matching
      <3>4. \A n \in Originals : Rank(Originals, n) \in Nat
        BY RankType, Selected DEF Originals, TypeInv, TablesInv
      <3>5. Covered(t, Originals)  BY <3>1, <3>4, FS_EmptySet DEF Covered
      <3>6. Matching(FALSE, t.view.entities) = Originals  BY <3>1 DEF Snapshot, Originals
      <3>7. Paged(t, Originals)  BY <3>1, <3>5, <3>6 DEF Paged
      <3> QED  BY <3>2, <3>3, <3>7, MovedTo
    <2>2. ASSUME NEW r \in Runs, Forget(r)  PROVE PagingInv'
      BY <2>2 DEF Forget, tables, PagingInv, Paged, Covered, Undisturbed, Originals, Matching
    <2>3. CASE PressStop
      <3>1. Originals' = Originals  BY <2>3 DEF PressStop, tables, Originals, Matching
      <3>2. ASSUME NEW r \in Runs  PROVE Paged(run'[r], Originals)
        <4> DEFINE q == run[r].asked \/ run[r].at \in Loop
                   t == [run[r] EXCEPT !.asked = q]
        <4>1. run'[r] = t  BY <2>3 DEF PressStop
        <4> HIDE DEF q
        <4>2. SamePlace(t, run[r]) /\ t.at = run[r].at /\ t.open = run[r].open
              /\ t.view = run[r].view
          BY <2>0 DEF Run, SamePlace
        <4> HIDE DEF t
        <4>3. Paged(t, Originals)  BY <4>2, PlaceKept DEF PagingInv
        <4> QED  BY <4>1, <4>3
      <3> QED  BY <3>1, <3>2 DEF PagingInv, Paged, Covered, Undisturbed
    <2>4. ASSUME NEW n \in Unsteady, Change(n)  PROVE PagingInv'
      <3>1. ASSUME NEW r \in Runs  PROVE ~Undisturbed(run'[r])
        <4> DEFINE q == run[r].same /\ run[r].at = "idle"
        <4>1. run'[r] = [run[r] EXCEPT !.same = q]  BY <2>4 DEF Change
        <4>2. run[r].at \in Reading => q = FALSE  BY DEF Reading, Loop
        <4> HIDE DEF q
        <4>3. run'[r].same = q /\ run'[r].at = run[r].at  BY <2>0, <4>1 DEF Run
        <4> QED  BY <4>2, <4>3 DEF Undisturbed
      <3> QED  BY <3>1 DEF PagingInv, Paged, Undisturbed
    <2>5. CASE UNCHANGED vars
      BY <2>5 DEF vars, tables, PagingInv, Paged, Covered, Undisturbed, Originals, Matching
    <2> QED  BY <2>1, <2>2, <2>3, <2>4, <2>5, TaskPaged, Steps
  <1> QED  BY <1>1, <1>2, TypeInvariant, PTL DEF Spec

\* As long as nobody else changes the originals, the OFFSET of a run, a resumed
\* one included, never passes over a row that the run has not seen.
THEOREM OffsetSkipsNothing == Spec => []NothingSkipped
  <1>1. TypeInv /\ PagingInv => NothingSkipped
    <2> SUFFICES ASSUME TypeInv, PagingInv, NEW r \in Runs, run[r].same, ~run[r].plan.all,
                        run[r].at \in {"check", "fetch"}, NEW n \in Originals,
                        Rank(Originals, n) < run[r].offset
                 PROVE  CopyOf(n) \in run[r].seen
      BY DEF NothingSkipped, Originals
    <2>1. run[r] \in Run /\ Originals \in SUBSET Ids
      BY Selected DEF TypeInv, TablesInv, RunsInv, Originals
    <2>2. Cardinality(run[r].batch) \in Nat /\ Rank(Originals, n) \in Nat
      BY <2>1, Counts, RankType DEF Run
    <2>3. Rank(Originals, n) < run[r].offset + Cardinality(run[r].batch)
      BY <2>1, <2>2 DEF Run
    <2>4. run[r].same = TRUE  BY <2>1 DEF Run
    <2>5. Covered(run[r], Originals)
      BY <2>4 DEF PagingInv, Paged, Undisturbed, Reading, Loop
    <2> QED  BY <2>3, <2>5 DEF Covered
  <1> QED  BY <1>1, PagingInvariant, PTL

------------------------------------------------------------------------------
(* Every rank is taken *)

\* Ranks have no gaps: there are as many as rows, and no two are the same.
LEMMA RanksAreDense ==
    ASSUME NEW rows \in SUBSET Ids, NEW offset \in Nat, NEW n \in rows,
           offset <= Rank(rows, n)
    PROVE  \E m \in rows : Rank(rows, m) = offset
  <1> DEFINE size == Cardinality(rows)
             T    == 0..(size - 1)
             f    == [x \in rows |-> Rank(rows, x)]
  <1>1. IsFiniteSet(rows) /\ size \in Nat  BY IdsFinite, Counts
  <1>2. ASSUME NEW x \in rows  PROVE Rank(rows, x) \in Nat /\ Rank(rows, x) < size
    <2> DEFINE S == {y \in rows : y < x}
    <2>1. x \in Int /\ x \notin S /\ S \in SUBSET rows  BY IdsAreNumbers
    <2> HIDE DEF S
    <2>2. Cardinality(S) <= size /\ (Cardinality(S) = size => rows = S)
      BY <1>1, <2>1, FS_Subset
    <2>3. Cardinality(S) \in Nat  BY <2>1, Counts
    <2>4. Cardinality(S) < size  BY <1>1, <2>1, <2>2, <2>3
    <2> QED  BY <2>3, <2>4 DEF Rank, S
  <1>3. \A x, y \in rows : Rank(rows, x) = Rank(rows, y) => x = y
    <2> SUFFICES ASSUME NEW x \in rows, NEW y \in rows, Rank(rows, x) = Rank(rows, y), x # y
                 PROVE  FALSE
      OBVIOUS
    <2>1. x < y \/ y < x
      <3>1. x \in Int /\ y \in Int  BY IdsAreNumbers
      <3> QED  BY <3>1
    <2>2. Rank(rows, x) \in Nat /\ Rank(rows, y) \in Nat  BY <1>2
    <2> QED  BY <2>1, <2>2, RankGrows
  <1>4. 0 \in Int /\ size - 1 \in Int /\ size > 0  BY <1>1, <1>2
  <1> HIDE DEF size
  <1>5. IsFiniteSet(T) /\ Cardinality(T) = size
    <2>1. IsFiniteSet(T) /\ Cardinality(T) = IF 0 > size - 1 THEN 0 ELSE size - 1 - 0 + 1
      BY <1>4, FS_Interval
    <2> QED  BY <1>1, <1>4, <2>1
  <1>6. \A x \in rows : Rank(rows, x) \in T  BY <1>1, <1>2
  <1>7. offset \in T  BY <1>1, <1>2
  <1> HIDE DEF T
  <1>8. f \in Injection(rows, T)  BY <1>3, <1>6 DEF Injection, IsInjective
  <1>9. \A k \in T : \E x \in rows : f[x] = k
    <2> HIDE DEF f
    <2>1. f \in Surjection(rows, T)  BY <1>5, <1>8, FS_Injection DEF size
    <2> QED  BY <2>1 DEF Surjection
  <1> QED  BY <1>7, <1>9

\* The rows of a page are the next ones: before each there are those before the
\* page and the others of the page.
LEMMA PageIsNext ==
    ASSUME NEW rows \in SUBSET Ids, NEW offset \in Nat, NEW limit \in Int,
           NEW n \in Page(rows, offset, limit)
    PROVE  Rank(rows, n) < offset + Cardinality(Page(rows, offset, limit))
  <1> DEFINE page == Page(rows, offset, limit)
             S    == {m \in rows : m < n}
             A    == Page(rows, 0, offset)
             B    == page \ {n}
  <1>1. page \in SUBSET Ids /\ A \in SUBSET Ids /\ B \in SUBSET Ids /\ S \in SUBSET Ids
        /\ n \in rows
    BY DEF Page
  <1>2. S \subseteq A \union B
    <2> SUFFICES ASSUME NEW m \in rows, m < n, m \notin A  PROVE m \in B
      BY DEF S
    <2>1. Rank(rows, m) < Rank(rows, n)  BY <1>1, RankGrows
    <2>2. Rank(rows, m) \in Nat /\ Rank(rows, n) \in Nat  BY <1>1, RankType
    <2>3. ~(Rank(rows, m) < offset)  BY <2>2 DEF Page
    <2>4. Rank(rows, n) < offset + limit  BY DEF Page
    <2>5. m \in page  BY <2>1, <2>2, <2>3, <2>4 DEF Page
    <2>6. m # n
      <3>1. n \in Int  BY <1>1, IdsAreNumbers
      <3> QED  BY <3>1
    <2> QED  BY <2>5, <2>6
  <1>3. Cardinality(A) <= offset
    <2>1. CASE A = {}  BY <2>1, FS_EmptySet
    <2>2. CASE A # {}  BY <2>2, PageSize
    <2> QED  BY <2>1, <2>2
  <1> HIDE DEF A, S, page
  <1>4. /\ IsFiniteSet(A) /\ IsFiniteSet(B) /\ IsFiniteSet(page) /\ IsFiniteSet(A \union B)
        /\ Cardinality(A) \in Nat /\ Cardinality(B) \in Nat /\ Cardinality(page) \in Nat
        /\ Cardinality(S) \in Nat /\ Cardinality(A \intersect B) \in Nat
    <2> HIDE DEF B
    <2>1. A \union B \in SUBSET Ids /\ A \intersect B \in SUBSET Ids  BY <1>1
    <2> QED  BY <1>1, <2>1, IdsFinite, Counts
  <1>5. Cardinality(B) = Cardinality(page) - 1
    <2>1. n \in page  BY DEF page
    <2> QED  BY <1>4, <2>1, FS_RemoveElement
  <1>6. Cardinality(S) <= Cardinality(A \union B)
    <2> HIDE DEF B
    <2> QED  BY <1>2, <1>4, FS_Subset
  <1>7. Cardinality(A \union B) = Cardinality(A) + Cardinality(B) - Cardinality(A \intersect B)
    <2> HIDE DEF B
    <2> QED  BY <1>4, FS_Union
  <1>8. Cardinality(S) < offset + Cardinality(page)
    <2> HIDE DEF B
    <2>1. Cardinality(A \union B) \in Nat  BY <1>4, FS_CardinalityType
    <2> QED  BY <1>3, <1>4, <1>5, <1>6, <1>7, <2>1
  <1> QED  BY <1>8 DEF Rank, S, page

------------------------------------------------------------------------------
(* A fresh run that reaches the end *)

\* A live, unlimited run of one source that has met no refusal, no stop and no
\* change by others.
Clean(t) == /\ t.plan.dry = FALSE /\ t.plan.all = FALSE /\ t.plan.max = 0
            /\ t.same = TRUE /\ t.refused = FALSE /\ t.stopped = FALSE

\* While it goes on: what it has seen is copied or in its batch, and if it is
\* fresh, not behind the batch; the batch is written as a whole; a batch that
\* was written has made copies.
Rephrasing(t, E, rows) ==
    /\ \A n \in rows : CopyOf(n) \in t.seen => CopyOf(n) \in E \/ n \in t.batch
    /\ t.fresh = TRUE => \A n \in rows :
          CopyOf(n) \in t.seen => Rank(rows, n) < t.offset + Cardinality(t.batch)
    /\ t.at \in {"check", "fetch", "tell"} => t.batch = {}
    /\ t.at = "llm" => t.batch # {}
    /\ t.at = "write" => /\ CopiesOf(t.batch) \subseteq t.left \union t.pending
                         /\ t.new > 0 \/ t.left # {}
    /\ t.at = "tell" => t.new > 0

Complete(t, E, rows) == Clean(t) =>
    /\ t.at \in {"start", "setup"} => t.fresh = FALSE
    /\ t.at \in Loop => Rephrasing(t, E, rows)
    /\ t.at \notin Reading => (t.success = TRUE /\ t.fresh = TRUE => CopiesOf(rows) \subseteq E)

\* A transaction shows a ledger from before.
ViewOld(t, L) == t.open = TRUE => t.view.ledger \subseteq L

FreshInv == \A r \in Runs :
    Complete(run[r], entities, Originals) /\ ViewOld(run[r], ledger)

\* Copies that others commit meanwhile do no harm.
LEMMA CompleteGrows ==
    ASSUME NEW t, NEW E, NEW E2, NEW L, NEW L2, NEW rows, E \subseteq E2, L \subseteq L2,
           Complete(t, E, rows), ViewOld(t, L)
    PROVE  Complete(t, E2, rows) /\ ViewOld(t, L2)
  <1>1. Rephrasing(t, E, rows) => Rephrasing(t, E2, rows)
    BY DEF Rephrasing
  <1>2. Complete(t, E2, rows)  BY <1>1 DEF Complete
  <1> QED  BY <1>2 DEF ViewOld

\* A task adds copies to the tables, if anything.
LEMMA TaskTables ==
    ASSUME TypeInv, NEW r \in Runs, TaskStep(r)
    PROVE  /\ entities \subseteq entities' /\ ledger \subseteq ledger'
           /\ Originals' = Originals
           /\ ~Commit(r) => UNCHANGED tables
           /\ \A u \in Runs \ {r} : run'[u] = run[u]
  <1>1. \A u \in Runs \ {r} : run'[u] = run[u]  BY TaskMoves DEF Moves
  <1>2. CASE Commit(r)
    <2>1. entities' = entities \/ entities' = entities \union run[r].pending
      BY <1>2, CommitDoes DEF Continue, tables
    <2>2. ledger' = ledger \/ ledger' = ledger \union run[r].pending
      BY <1>2, CommitDoes DEF Continue, tables
    <2>3. run[r].pending \in SUBSET Copies  BY TheRun DEF TypeInv, Sound
    <2>4. Originals' = Originals
      BY <2>1, <2>3, CopiesAdded DEF Originals, Matching
    <2> QED  BY <1>1, <1>2, <2>1, <2>2, <2>4
  <1>3. CASE ~Commit(r)
    <2>1. UNCHANGED tables
      BY <1>3 DEF TaskStep, RunStep, Started, Setup, Check, Fetch, CallLLM, Insert, Collide,
         Told, Reported, Faulted, Respond, NoModel, Raise, FailUpdate, Die, Continue, tables
    <2> QED  BY <1>1, <1>3, <2>1 DEF tables, Originals, Matching
  <1> QED  BY <1>2, <1>3

SameRun(t, u) ==
    /\ SamePlace(t, u) /\ t.refused = u.refused /\ t.stopped = u.stopped
    /\ t.success = u.success /\ t.fresh = u.fresh
    /\ t.left = u.left /\ t.pending = u.pending /\ t.new = u.new

\* What the view of a task may become, except in a commit.
ViewFrom(t, r) == \/ t.open = FALSE
                  \/ t.open = run[r].open /\ t.view = run[r].view
                  \/ t.view = View(r)

LEMMA OldView ==
    ASSUME TypeInv, FreshInv, NEW r \in Runs, NEW t, ViewFrom(t, r)
    PROVE  ViewOld(t, ledger) /\ View(r).ledger \subseteq ledger
  <1>1. run[r].open \in BOOLEAN  BY TheRun DEF TypeInv, Run
  <1>2. View(r).ledger \subseteq ledger
    BY <1>1 DEF View, Snapshot, FreshInv, ViewOld
  <1> QED  BY <1>2 DEF ViewFrom, FreshInv, ViewOld

\* A run that still reads has reported nothing.
LEMMA NoSuccessYet ==
    ASSUME CountInv, NEW r \in Runs, Clean(run[r]), run[r].at \in Reading
    PROVE  run[r].success = FALSE
  BY DEF CountInv, Counted, Clean, Reading

\* A step that changes the phase and the transaction only.
LEMMA PhaseKept ==
    ASSUME CountInv, FreshInv, NEW r \in Runs, NEW t, SameRun(t, run[r]),
           t.at \in {"start", "setup"} => run[r].at \in {"start", "setup"},
           t.at \in Loop => \/ t.at = run[r].at
                            \/ t.at = "fetch" /\ run[r].at = "check"
                            \/ t.at = "check" /\ run[r].at = "tell"
    PROVE  Complete(t, entities, Originals)
  <1> SUFFICES ASSUME Clean(t) PROVE
        /\ t.at \in {"start", "setup"} => t.fresh = FALSE
        /\ t.at \in Loop => Rephrasing(t, entities, Originals)
        /\ t.at \notin Reading => (t.success = TRUE /\ t.fresh = TRUE =>
                                     CopiesOf(Originals) \subseteq entities)
    BY DEF Complete
  <1>1. Clean(run[r]) /\ Complete(run[r], entities, Originals)
    BY DEF Clean, SameRun, SamePlace, FreshInv
  <1>2. t.at \in {"start", "setup"} => t.fresh = FALSE
    BY <1>1 DEF Complete, SameRun
  <1>3. ASSUME t.at \in Loop  PROVE Rephrasing(t, entities, Originals)
    <2>1. Rephrasing(run[r], entities, Originals)
      BY <1>1, <1>3 DEF Complete, Loop
    <2> QED  BY <1>3, <2>1 DEF Rephrasing, SameRun, SamePlace
  <1>4. ASSUME t.at \notin Reading, t.success = TRUE, t.fresh = TRUE
        PROVE  CopiesOf(Originals) \subseteq entities
    <2>1. run[r].at \notin Reading
      BY <1>1, <1>4, NoSuccessYet DEF SameRun
    <2> QED  BY <1>1, <1>4, <2>1 DEF Complete, SameRun
  <1> QED  BY <1>2, <1>3, <1>4

\* The loop is left.
LEMMA LeftComplete ==
    ASSUME TypeInv, NEW r \in Runs, NEW t \in Run, Leave(r, t), ViewFrom(t, r),
           Clean(t) /\ t.success = TRUE /\ t.fresh = TRUE =>
             CopiesOf(Originals) \subseteq entities
    PROVE  Complete(run'[r], entities, Originals) /\ ViewFrom(run'[r], r)
  <1>1. PICK s \in IF t.plan.dry THEN {t.success, FALSE} ELSE {t.success} :
          run' = [run EXCEPT ![r] = [Outside(t) EXCEPT !.at = "report", !.success = s]]
    BY DEF Leave
  <1> DEFINE u == [Outside(t) EXCEPT !.at = "report", !.success = s]
  <1>2. run'[r] = u  BY <1>1 DEF TypeInv, RunsInv
  <1>3. /\ u.at = "report" /\ u.plan = t.plan /\ u.same = t.same /\ u.refused = t.refused
        /\ u.stopped = t.stopped /\ u.fresh = t.fresh /\ u.success = s
        /\ u.open = t.open /\ u.view = t.view
    BY DEF Run, Outside
  <1> HIDE DEF u
  <1>4. Clean(u) => Clean(t) /\ s = t.success
    BY <1>1, <1>3 DEF Clean
  <1>5. Complete(u, entities, Originals)
    BY <1>3, <1>4 DEF Complete, Reading, Loop
  <1> QED  BY <1>2, <1>3, <1>5 DEF ViewFrom

FreshGoal(r) == Complete(run'[r], entities, Originals) /\ ViewFrom(run'[r], r)
AllInv == TypeInv /\ PagingInv /\ CountInv /\ FreshInv

LEMMA SetupComplete ==
    ASSUME AllInv, NEW r \in Runs, Setup(r)
    PROVE  FreshGoal(r)
  <1> DEFINE u    == run[r]
             t    == InView(r)
             rows == Matching(t.plan.all, t.view.entities)
             a    == [t EXCEPT !.at = "report", !.success = TRUE]
             f    == CopiesOf(rows) \intersect t.view.ledger = {}
             b    == [t EXCEPT !.at = "check", !.seen = t.view.ledger, !.fresh = f]
  <1>1. /\ t \in Run /\ SamePlace(t, u) /\ u.at = "setup" /\ u \in Run
        /\ t.view = View(r) /\ t.view.ledger \subseteq ledger /\ ledger \subseteq entities
        /\ Undisturbed(u) => Matching(FALSE, t.view.entities) = Originals
        /\ Paged(u, Originals) /\ Complete(u, entities, Originals)
    <2>1. u.at = "setup"  BY DEF Setup
    <2>2. ViewFrom(t, r) /\ t.view = View(r)
      BY ViewsOriginals DEF AllInv, ViewFrom
    <2>3. ledger \subseteq entities  BY DEF AllInv, TypeInv, TablesInv
    <2> QED  BY <2>1, <2>2, <2>3, ViewedRun, ViewsOriginals, OldView, TheRun
             DEF AllInv, TypeInv, PagingInv, FreshInv
  <1>2. t.refused = u.refused /\ t.stopped = u.stopped /\ t.fresh = u.fresh
    BY <1>1 DEF InView, Run
  <1>3. run'[r] = a \/ run'[r] = b
    BY DEF Setup, Continue, AllInv, TypeInv, RunsInv
  <1> HIDE DEF t, f
  <1>4. /\ a.at = "report" /\ a.plan = u.plan /\ a.same = u.same /\ a.refused = u.refused
        /\ a.stopped = u.stopped /\ a.fresh = u.fresh /\ a.view = View(r)
    BY <1>1, <1>2 DEF Run, SamePlace
  <1>5. /\ b.at = "check" /\ b.plan = u.plan /\ b.same = u.same /\ b.refused = u.refused
        /\ b.stopped = u.stopped /\ b.batch = u.batch /\ b.seen = t.view.ledger
        /\ b.fresh = f /\ b.view = View(r)
    BY <1>1, <1>2 DEF Run, SamePlace
  <1> HIDE DEF a, b
  <1>6. Complete(a, entities, Originals)
    <2>1. Clean(a) => Clean(u)  BY <1>4 DEF Clean
    <2>2. Clean(a) => a.fresh = FALSE
      BY <1>1, <1>4, <2>1 DEF Complete
    <2> QED  BY <1>4, <2>2 DEF Complete, Loop
  <1>7. Complete(b, entities, Originals)
    <2> SUFFICES ASSUME Clean(b)  PROVE Rephrasing(b, entities, Originals)
      BY <1>5 DEF Complete, Reading, Loop
    <2>1. Undisturbed(u)
      BY <1>1, <1>5 DEF Clean, Undisturbed, Reading
    <2>2. b.batch = {}  BY <1>1, <1>5, <2>1 DEF Paged
    <2>3. rows = Originals
      <3>1. t.plan.all = FALSE  BY <1>1, <1>5 DEF Clean, SamePlace
      <3> QED  BY <1>1, <2>1, <3>1
    <2>4. b.fresh = TRUE => \A n \in Originals : CopyOf(n) \notin b.seen
      BY <1>5, <2>3 DEF f, CopiesOf
    <2> QED  BY <1>1, <1>5, <2>2, <2>4 DEF Rephrasing
  <1> QED  BY <1>3, <1>4, <1>5, <1>6, <1>7 DEF FreshGoal, ViewFrom

LEMMA FetchComplete ==
    ASSUME AllInv, NEW r \in Runs, Fetch(r)
    PROVE  FreshGoal(r)
  <1> DEFINE u     == run[r]
             t     == InView(r)
             rows  == Matching(t.plan.all, t.view.entities)
             page  == Page(rows, t.offset, Limit(t))
             batch == {n \in page : CopyOf(n) \notin t.seen}
             o     == t.offset + Cardinality(page \ batch)
             s     == t.seen \union CopiesOf(batch)
             next  == [t EXCEPT !.offset = o, !.seen = s, !.batch = batch, !.new = 0]
             a     == [next EXCEPT !.success = TRUE]
             b     == [next EXCEPT !.at = "llm"]
  <1>1. /\ t \in Run /\ SamePlace(t, u) /\ u.at = "fetch" /\ u \in Run /\ t.view = View(r)
        /\ Undisturbed(u) => Matching(FALSE, t.view.entities) = Originals
        /\ Paged(u, Originals) /\ Complete(u, entities, Originals)
    <2>1. u.at = "fetch"  BY DEF Fetch
    <2> QED  BY <2>1, ViewedRun, ViewsOriginals, TheRun
             DEF AllInv, TypeInv, PagingInv, FreshInv
  <1>2. t.refused = u.refused /\ t.stopped = u.stopped /\ t.fresh = u.fresh
    BY <1>1 DEF InView, Run
  <1>3. \/ batch = {} /\ Leave(r, a)
        \/ batch # {} /\ run'[r] = b
    BY DEF Fetch, Continue, AllInv, TypeInv, RunsInv
  <1>4. rows \in SUBSET Ids
    <2> HIDE DEF t
    <2> QED  BY <1>1, Selected DEF Run
  <1>5. page \in SUBSET rows /\ batch \in SUBSET page  BY DEF Page
  <1>6. o \in Nat /\ s \in SUBSET Ids
    <2>1. page \ batch \in SUBSET Ids /\ batch \in SUBSET Ids  BY <1>4, <1>5
    <2>2. CopiesOf(batch) \subseteq Ids
      <3> HIDE DEF t
      <3> QED  BY <1>1 DEF CopiesOf, Page, Matching
    <2>3. Cardinality(page \ batch) \in Nat
      <3> HIDE DEF page, batch
      <3> QED  BY <2>1, Counts
    <2> HIDE DEF t, page, batch
    <2> QED  BY <1>1, <2>2, <2>3 DEF Run
  <1>7. batch \in SUBSET Ids  BY <1>4, <1>5
  <1> HIDE DEF t, rows, page, batch, o, s
  <1>8. /\ a \in Run /\ a.plan = u.plan /\ a.same = u.same /\ a.refused = u.refused
        /\ a.stopped = u.stopped /\ a.fresh = u.fresh /\ a.view = View(r)
    BY <1>1, <1>2, <1>6, <1>7 DEF Run, SamePlace
  <1>9. /\ b.at = "llm" /\ b.plan = u.plan /\ b.same = u.same /\ b.refused = u.refused
        /\ b.stopped = u.stopped /\ b.fresh = u.fresh /\ b.view = View(r)
        /\ b.offset = o /\ b.seen = s /\ b.batch = batch
    BY <1>1, <1>2, <1>6, <1>7 DEF Run, SamePlace
  <1> HIDE DEF a, b
  <1>10. ASSUME Clean(u)
         PROVE  /\ rows = Originals /\ u.batch = {} /\ Rephrasing(u, entities, Originals)
                /\ Covered(u, Originals) /\ Limit(t) = BatchSize
                /\ t.offset = u.offset /\ t.seen = u.seen /\ u.offset \in Nat
    <2>1. Undisturbed(u)  BY <1>1, <1>10 DEF Clean, Undisturbed, Reading, Loop
    <2>2. t.plan.all = FALSE /\ t.plan.max = 0 /\ t.offset = u.offset /\ t.seen = u.seen
      BY <1>1, <1>10 DEF Clean, SamePlace
    <2>3. rows = Originals  BY <1>1, <2>1, <2>2 DEF rows
    <2>4. Rephrasing(u, entities, Originals) /\ u.batch = {}
      BY <1>1, <1>10 DEF Complete, Rephrasing, Loop
    <2>5. Limit(t) = BatchSize  BY <2>2 DEF Limit
    <2>6. u.offset \in Nat  BY <1>1 DEF Run
    <2> QED  BY <1>1, <2>1, <2>2, <2>3, <2>4, <2>5, <2>6 DEF Paged
  \* A fresh run has seen nothing of its next page.
  <1>11. ASSUME Clean(u), u.fresh = TRUE  PROVE batch = page
    <2> SUFFICES ASSUME NEW n \in page  PROVE CopyOf(n) \notin u.seen
      BY <1>10, <1>11 DEF batch
    <2>1. n \in Originals /\ u.offset <= Rank(Originals, n) /\ Rank(Originals, n) \in Nat
      <3>1. n \in rows /\ Rank(rows, n) >= t.offset  BY DEF page, Page
      <3> QED  BY <1>4, <1>10, <1>11, <3>1, RankType
    <2>2. Cardinality(u.batch) = 0  BY <1>10, <1>11, FS_EmptySet
    <2>3. ASSUME CopyOf(n) \in u.seen  PROVE FALSE
      <3>1. Rephrasing(u, entities, Originals)  BY <1>10, <1>11
      <3>2. Rank(Originals, n) < u.offset + Cardinality(u.batch)
        BY <1>11, <2>1, <2>3, <3>1 DEF Rephrasing
      <3>3. u.offset \in Nat  BY <1>10, <1>11
      <3> QED  BY <2>1, <2>2, <3>2, <3>3
    <2> QED  BY <2>3
  <1>12. CASE batch # {} /\ run'[r] = b
    <2>1. Complete(b, entities, Originals)
      <3> SUFFICES ASSUME Clean(b)  PROVE Rephrasing(b, entities, Originals)
        BY <1>9 DEF Complete, Reading, Loop
      <3>1. Clean(u)  BY <1>9 DEF Clean
      <3>2. ASSUME NEW n \in Originals, CopyOf(n) \in b.seen
            PROVE  CopyOf(n) \in entities \/ n \in b.batch
        <4>1. CASE CopyOf(n) \in u.seen
          BY <1>10, <3>1, <4>1 DEF Rephrasing
        <4>2. CASE CopyOf(n) \in CopiesOf(batch)
          <5>1. PICK m \in batch : CopyOf(n) = CopyOf(m)  BY <4>2 DEF CopiesOf
          <5>2. m \in Int /\ n \in Int
            <6>1. Originals \in SUBSET Ids  BY <1>4, <1>10, <3>1
            <6> QED  BY <1>7, <6>1, IdsAreNumbers
          <5>3. m = n  BY <5>1, <5>2, RunsAssumption DEF CopyOf
          <5> QED  BY <1>9, <5>3
        <4> QED  BY <1>9, <1>10, <3>1, <3>2, <4>1, <4>2 DEF s
      <3>3. ASSUME b.fresh = TRUE, NEW n \in Originals, CopyOf(n) \in b.seen
            PROVE  Rank(Originals, n) < b.offset + Cardinality(b.batch)
        <4>1. batch = page  BY <1>9, <1>11, <3>1, <3>3
        <4>2. o = u.offset
          <5>1. page \ batch = {}  BY <4>1
          <5> QED  BY <1>10, <3>1, <5>1, FS_EmptySet DEF o
        <4>3. Cardinality(page) \in Nat /\ Rank(Originals, n) \in Nat
          BY <1>4, <1>7, <1>10, <3>1, <4>1, Counts, RankType
        <4>4. CASE CopyOf(n) \in u.seen
          <5>1. Cardinality(u.batch) = 0  BY <1>10, <3>1, FS_EmptySet
          <5>2. Rank(Originals, n) < u.offset + 0
            BY <1>9, <1>10, <3>1, <3>3, <4>4, <5>1 DEF Rephrasing
          <5> QED  BY <1>9, <1>10, <3>1, <4>1, <4>2, <4>3, <5>2
        <4>5. CASE CopyOf(n) \in CopiesOf(batch)
          <5>1. PICK m \in batch : CopyOf(n) = CopyOf(m)  BY <4>5 DEF CopiesOf
          <5>2. m \in Int /\ n \in Int
            <6>1. Originals \in SUBSET Ids  BY <1>4, <1>10, <3>1
            <6> QED  BY <1>7, <6>1, IdsAreNumbers
          <5>3. m = n  BY <5>1, <5>2, RunsAssumption DEF CopyOf
          <5>4. n \in Page(rows, t.offset, Limit(t))  BY <4>1, <5>3 DEF page
          <5>5. t.offset \in Nat /\ Limit(t) \in Int
            BY <1>10, <3>1, RunsAssumption
          <5>6. Rank(rows, n) < t.offset + Cardinality(page)
            BY <1>4, <5>4, <5>5, PageIsNext DEF page
          <5> QED  BY <1>9, <1>10, <3>1, <4>1, <4>2, <5>6
        <4> QED  BY <1>9, <1>10, <3>1, <3>3, <4>4, <4>5 DEF s
      <3> QED  BY <1>9, <1>12, <3>2, <3>3 DEF Rephrasing
    <2> QED  BY <1>9, <1>12, <2>1 DEF FreshGoal, ViewFrom
  <1>13. CASE batch = {} /\ Leave(r, a)
    <2>1. ASSUME Clean(a), a.fresh = TRUE
          PROVE  CopiesOf(Originals) \subseteq entities
      <3>1. Clean(u) /\ u.fresh = TRUE  BY <1>8, <2>1 DEF Clean
      <3>2. page = {}  BY <1>11, <1>13, <3>1
      <3>3. ASSUME NEW n \in Originals  PROVE CopyOf(n) \in entities
        <4>1. Originals \in SUBSET Ids /\ Rank(Originals, n) \in Nat
          BY <1>4, <1>10, <3>1, RankType
        <4>2. Rank(Originals, n) < u.offset
          <5> SUFFICES ASSUME u.offset <= Rank(Originals, n)  PROVE FALSE
            BY <1>10, <3>1, <4>1
          <5>1. PICK m \in Originals : Rank(Originals, m) = u.offset
            BY <1>10, <3>1, <4>1, RanksAreDense
          <5>2. m \in page
            BY <1>10, <3>1, <5>1, RunsAssumption DEF page, Page
          <5> QED  BY <3>2, <5>2
        <4>3. CopyOf(n) \in u.seen
          <5>1. Cardinality(u.batch) = 0  BY <1>10, <3>1, FS_EmptySet
          <5> QED  BY <1>10, <3>1, <4>1, <4>2, <5>1 DEF Covered
        <4> QED  BY <1>10, <3>1, <4>3 DEF Rephrasing
      <3> QED  BY <3>3 DEF CopiesOf
    <2>2. ViewFrom(a, r)  BY <1>8 DEF ViewFrom
    <2> QED  BY <1>8, <1>13, <2>1, <2>2, LeftComplete DEF AllInv, FreshGoal
  <1> QED  BY <1>3, <1>12, <1>13

\* All answers of a clean batch are there, and there is at least one.
LEMMA CallComplete ==
    ASSUME AllInv, NEW r \in Runs, CallLLM(r)
    PROVE  FreshGoal(r)
  <1> DEFINE u == run[r]
  <1>0. /\ u \in Run /\ u.at = "llm" /\ Complete(u, entities, Originals)
        /\ run \in [Runs -> Run]
    BY DEF AllInv, TypeInv, RunsInv, FreshInv, CallLLM
  <1>1. PICK ok \in SUBSET u.batch :
          LET t == [u EXCEPT !.at = "write", !.refused = @ \/ ok # u.batch]
          IN Continue(r, IF t.plan.dry
                         THEN [t EXCEPT !.created = @ + Cardinality(ok),
                                        !.new = Cardinality(ok)]
                         ELSE [t EXCEPT !.left = CopiesOf(ok)])
    BY DEF CallLLM
  <1> DEFINE q == u.refused \/ ok # u.batch
             t == [u EXCEPT !.at = "write", !.refused = q]
             k == t.created + Cardinality(ok)
             a == [t EXCEPT !.created = k, !.new = Cardinality(ok)]
             b == [t EXCEPT !.left = CopiesOf(ok)]
  <1>2. run'[r] = IF t.plan.dry THEN a ELSE b
    <2>1. Continue(r, IF t.plan.dry THEN a ELSE b)  BY <1>1
    <2> HIDE DEF t, a, b
    <2> QED  BY <1>0, <2>1 DEF Continue
  <1>3. q = FALSE => u.refused = FALSE /\ ok = u.batch  BY <1>0 DEF Run
  <1> HIDE DEF q
  <1>4. /\ t.at = "write" /\ SamePlace(t, u) /\ t.open = u.open /\ t.view = u.view
        /\ t.refused = q /\ t.stopped = u.stopped /\ t.fresh = u.fresh
        /\ t.pending = u.pending /\ DOMAIN t = DOMAIN u
    BY <1>0 DEF Run, SamePlace
  <1>5. DOMAIN u = DOMAIN Idle  BY <1>0 DEF Run, Idle
  <1> HIDE DEF t, k
  <1>6. a.plan = t.plan /\ a.open = u.open /\ a.view = u.view
    BY <1>4, <1>5 DEF Idle
  <1>7. /\ b.at = "write" /\ SamePlace(b, u) /\ b.open = u.open /\ b.view = u.view
        /\ b.refused = q /\ b.stopped = u.stopped /\ b.fresh = u.fresh
        /\ b.pending = u.pending /\ b.left = CopiesOf(ok)
    BY <1>4, <1>5 DEF Idle, SamePlace
  <1> HIDE DEF a, b
  <1>8. CASE t.plan.dry /\ run'[r] = a
    <2>1. ~Clean(a)  BY <1>6, <1>8 DEF Clean
    <2> QED  BY <1>6, <1>8, <2>1 DEF FreshGoal, ViewFrom, Complete
  <1>9. CASE run'[r] = b
    <2>1. ASSUME Clean(b)  PROVE Rephrasing(b, entities, Originals)
      <3>1. Clean(u) /\ ok = u.batch
        BY <1>3, <1>7, <2>1 DEF Clean, SamePlace
      <3>2. Rephrasing(u, entities, Originals)  BY <1>0, <3>1 DEF Complete, Loop
      <3>3. b.left # {}  BY <1>0, <1>7, <3>1, <3>2 DEF Rephrasing, CopiesOf
      <3>4. CopiesOf(b.batch) \subseteq b.left \union b.pending
        BY <1>7, <3>1 DEF SamePlace
      <3> QED  BY <1>7, <3>2, <3>3, <3>4 DEF Rephrasing, SamePlace
    <2>2. Complete(b, entities, Originals)
      BY <1>7, <2>1 DEF Complete, Reading, Loop
    <2> QED  BY <1>7, <1>9, <2>2 DEF FreshGoal, ViewFrom
  <1> QED  BY <1>2, <1>8, <1>9

LEMMA WriteComplete ==
    ASSUME AllInv, NEW r \in Runs, NEW c \in Ids, Insert(r, c) \/ Collide(r, c)
    PROVE  FreshGoal(r)
  <1> DEFINE u == run[r]
             t == InView(r)
             d == t.left \ {c}
             p == t.pending \union {c}
             k == t.created + 1
             m == t.new + 1
             a == [t EXCEPT !.left = d, !.pending = p, !.created = k, !.new = m]
             b == [t EXCEPT !.left = d, !.refused = TRUE]
  <1>1. /\ u \in Run /\ t \in Run /\ SamePlace(t, u) /\ t.at = "write" /\ u.at = "write"
        /\ t.view = View(r) /\ Complete(u, entities, Originals)
    <2>1. u.at = "write"  BY DEF Insert, Collide, Upcoming
    <2> QED  BY <2>1, ViewedRun, ViewsOriginals, TheRun DEF AllInv, TypeInv, FreshInv
  <1>2. /\ t.refused = u.refused /\ t.stopped = u.stopped /\ t.fresh = u.fresh
        /\ t.left = u.left /\ t.pending = u.pending /\ t.new = u.new /\ u.new \in Nat
    BY <1>1 DEF InView, Run
  <1>3. run'[r] = a \/ run'[r] = b
    <2>1. Continue(r, a) \/ Continue(r, b)  BY DEF Insert, Collide
    <2> HIDE DEF a, b
    <2> QED  BY <2>1 DEF Continue, AllInv, TypeInv, RunsInv
  <1> HIDE DEF t, d, p, k, m
  <1>4. /\ a.at = "write" /\ SamePlace(a, u) /\ a.view = View(r) /\ a.refused = u.refused
        /\ a.stopped = u.stopped /\ a.fresh = u.fresh
        /\ a.left = d /\ a.pending = p /\ a.new = m
    BY <1>1, <1>2 DEF Run, SamePlace
  <1>5. b.refused = TRUE /\ b.view = View(r)  BY <1>1 DEF Run
  <1> HIDE DEF a, b
  <1>6. Complete(a, entities, Originals)
    <2> SUFFICES ASSUME Clean(a)  PROVE Rephrasing(a, entities, Originals)
      BY <1>4 DEF Complete, Reading, Loop
    <2>1. Clean(u)  BY <1>4 DEF Clean, SamePlace
    <2>2. Rephrasing(u, entities, Originals)  BY <1>1, <2>1 DEF Complete, Loop
    <2>3. a.new > 0  BY <1>2, <1>4 DEF m
    <2>4. CopiesOf(a.batch) \subseteq a.left \union a.pending
      BY <1>1, <1>2, <1>4, <2>2 DEF Rephrasing, SamePlace, d, p
    <2> QED  BY <1>4, <2>2, <2>3, <2>4 DEF Rephrasing, SamePlace
  <1>7. Complete(b, entities, Originals)  BY <1>5 DEF Complete, Clean
  <1> QED  BY <1>3, <1>4, <1>5, <1>6, <1>7 DEF FreshGoal, ViewFrom

LEMMA CommitComplete ==
    ASSUME AllInv, NEW r \in Runs, Commit(r)
    PROVE  Complete(run'[r], entities', Originals) /\ ViewFrom(run'[r], r)
  <1> DEFINE u == run[r]
             o == u.offset + Cardinality(u.batch)
             t == [u EXCEPT !.at = "tell", !.offset = o, !.batch = {}]
             p == t.made \union t.pending
             v == [t EXCEPT !.made = p, !.pending = {}]
             w == Closed(v)
  <1>1. /\ u \in Run /\ run \in [Runs -> Run] /\ u.at = "write" /\ u.left = {}
        /\ Complete(u, entities, Originals)
    BY DEF AllInv, TypeInv, RunsInv, FreshInv, Commit
  <1>2. o \in Nat
    <2>1. u.batch \in SUBSET Ids /\ u.offset \in Nat  BY <1>1 DEF Run
    <2>2. Cardinality(u.batch) \in Nat  BY <2>1, Counts
    <2> QED  BY <2>1, <2>2
  <1>3. \/ t.plan.dry /\ run'[r] = t
        \/ run'[r] = w /\ entities' = entities \union t.pending
    <2>1. \/ t.plan.dry /\ Continue(r, t)
          \/ run' = [run EXCEPT ![r] = w] /\ entities' = entities \union t.pending
      BY DEF Commit
    <2> HIDE DEF t, w
    <2> QED  BY <1>1, <2>1 DEF Continue
  <1> HIDE DEF o
  <1>4. /\ t \in Run /\ t.at = "tell" /\ t.plan = u.plan /\ t.same = u.same /\ t.seen = u.seen
        /\ t.offset = o /\ t.batch = {} /\ t.refused = u.refused /\ t.stopped = u.stopped
        /\ t.fresh = u.fresh /\ t.new = u.new /\ t.pending = u.pending
        /\ t.open = u.open /\ t.view = u.view
    BY <1>1, <1>2 DEF Run, Phases, Updating
  <1> HIDE DEF t
  <1>5. /\ v \in Run /\ v.at = "tell" /\ SamePlace(v, t) /\ v.refused = t.refused
        /\ v.stopped = t.stopped /\ v.fresh = t.fresh /\ v.new = t.new
    <2>1. p \in SUBSET Ids  BY <1>4 DEF Run
    <2> HIDE DEF p
    <2> QED  BY <1>4, <2>1 DEF Run, SamePlace
  <1> HIDE DEF v
  <1>6. /\ w.at = "tell" /\ SamePlace(w, t) /\ w.refused = t.refused
        /\ w.stopped = t.stopped /\ w.fresh = t.fresh /\ w.new = t.new /\ w.open = FALSE
    BY <1>5 DEF Closed, Run, SamePlace
  <1> HIDE DEF w
  <1>7. CASE t.plan.dry /\ run'[r] = t
    <2>1. ~Clean(t)  BY <1>7 DEF Clean
    <2> QED  BY <1>4, <1>7, <2>1 DEF ViewFrom, Complete
  <1>8. CASE run'[r] = w /\ entities' = entities \union t.pending
    <2>1. ASSUME Clean(w)  PROVE Rephrasing(w, entities', Originals)
      <3>1. Clean(u)  BY <1>4, <1>6, <2>1 DEF Clean, SamePlace
      <3>2. Rephrasing(u, entities, Originals)  BY <1>1, <3>1 DEF Complete, Loop
      <3>3. \A n \in Originals : CopyOf(n) \in u.seen => CopyOf(n) \in entities'
        <4>1. CopiesOf(u.batch) \subseteq u.pending  BY <1>1, <3>2 DEF Rephrasing
        <4>2. \A n \in u.batch : CopyOf(n) \in entities'
          BY <1>4, <1>8, <4>1 DEF CopiesOf
        <4> QED  BY <1>8, <3>2, <4>2 DEF Rephrasing
      <3>4. u.fresh = TRUE => \A n \in Originals : CopyOf(n) \in u.seen => Rank(Originals, n) < o
        BY <3>2 DEF Rephrasing, o
      <3>5. u.new > 0  BY <1>1, <3>2 DEF Rephrasing
      <3>6. w.offset + Cardinality(w.batch) = o
        BY <1>2, <1>4, <1>6, FS_EmptySet DEF SamePlace
      <3>7. w.seen = u.seen /\ w.batch = {} /\ w.fresh = u.fresh /\ w.new = u.new
        BY <1>4, <1>6 DEF SamePlace
      <3> QED  BY <1>6, <3>3, <3>4, <3>5, <3>6, <3>7 DEF Rephrasing
    <2> QED  BY <1>6, <1>8, <2>1 DEF Complete, Reading, Loop, ViewFrom
  <1> QED  BY <1>3, <1>7, <1>8

\* A step that changes the phase and the transaction only.
LEMMA MovedOn ==
    ASSUME AllInv, NEW r \in Runs, NEW t, run'[r] = t, SameRun(t, run[r]),
           t.open = FALSE \/ (t.open = run[r].open /\ t.view = run[r].view),
           t.at \in {"start", "setup"} => run[r].at \in {"start", "setup"},
           t.at \in Loop => \/ t.at = run[r].at
                            \/ t.at = "fetch" /\ run[r].at = "check"
                            \/ t.at = "check" /\ run[r].at = "tell"
    PROVE  FreshGoal(r)
  BY PhaseKept DEF AllInv, FreshGoal, ViewFrom

\* A step to an end that is reported as before, or not as a success.
LEMMA EndComplete ==
    ASSUME AllInv, NEW r \in Runs, Reported(r) \/ Faulted(r) \/ Die(r)
    PROVE  FreshGoal(r)
  <1> DEFINE u == run[r]
  <1>1. u \in Run /\ Sound(u) /\ run \in [Runs -> Run] /\ Complete(u, entities, Originals)
    BY TheRun DEF AllInv, TypeInv, RunsInv, FreshInv
  <1>2. CASE Reported(r) \/ Faulted(r)
    <2> DEFINE t == Ended(u, "over")
    <2>1. run'[r] = t /\ u.at \in {"report", "fault"}
      BY <1>1, <1>2 DEF Reported, Faulted
    <2>2. /\ t.at = "over" /\ t.plan = u.plan /\ t.same = u.same /\ t.refused = u.refused
          /\ t.stopped = u.stopped /\ t.fresh = u.fresh /\ t.success = u.success
          /\ t.open = FALSE
      BY <1>1 DEF Ended, Outside, Run
    <2> HIDE DEF t
    <2>3. Clean(t) => Clean(u)  BY <2>2 DEF Clean
    <2>4. Complete(t, entities, Originals)
      BY <1>1, <2>1, <2>2, <2>3 DEF Complete, Reading, Loop
    <2> QED  BY <2>1, <2>2, <2>4 DEF FreshGoal, ViewFrom
  <1>3. CASE Die(r)
    <2>1. PICK t \in Run : Sound(t) /\ Falters(r, t) /\ t.at = "dead" /\ ~t.success
      BY <1>3, DieDoes DEF AllInv
    <2>2. run'[r] = t  BY <1>1, <2>1 DEF Falters
    <2>3. t.open = FALSE  BY <2>1 DEF Sound
    <2>4. Complete(t, entities, Originals)
      BY <2>1 DEF Complete, Reading, Loop
    <2> QED  BY <2>2, <2>3, <2>4 DEF FreshGoal, ViewFrom
  <1> QED  BY <1>2, <1>3

\* A step out of the loop, or on in it, that reads and writes no entity.
LEMMA TurnComplete ==
    ASSUME AllInv, NEW r \in Runs, Check(r) \/ Told(r) \/ Raise(r)
    PROVE  FreshGoal(r)
  <1> DEFINE u == run[r]
  <1>1. /\ u \in Run /\ run \in [Runs -> Run] /\ Complete(u, entities, Originals)
        /\ Counted(u, entities, ledger)
    BY DEF AllInv, TypeInv, RunsInv, FreshInv, CountInv
  <1>2. CASE Check(r)
    <2> DEFINE a == [u EXCEPT !.success = TRUE, !.stopped = TRUE]
               b == [u EXCEPT !.at = "fetch"]
    <2>1. u.at = "check" /\ (Leave(r, a) \/ run'[r] = b)
      BY <1>1, <1>2 DEF Check, Continue
    <2>2. a \in Run /\ a.stopped = TRUE /\ a.open = u.open /\ a.view = u.view
      BY <1>1 DEF Run
    <2>3. b.at = "fetch" /\ SameRun(b, u) /\ b.open = u.open /\ b.view = u.view
      BY <1>1 DEF Run, SameRun, SamePlace
    <2> HIDE DEF a, b
    <2>4. CASE Leave(r, a)
      BY <2>2, <2>4, LeftComplete DEF AllInv, Clean, FreshGoal, ViewFrom
    <2>5. CASE run'[r] = b  BY <2>1, <2>3, <2>5, MovedOn
    <2> QED  BY <2>1, <2>4, <2>5
  <1>3. CASE Told(r)
    <2> DEFINE a == [u EXCEPT !.success = TRUE]
               b == [u EXCEPT !.at = "check"]
    <2>1. u.at = "tell" /\ ((u.new = 0 /\ Leave(r, a)) \/ run'[r] = b)
      BY <1>1, <1>3 DEF Told
    <2>2. /\ a \in Run /\ a.plan = u.plan /\ a.same = u.same /\ a.refused = u.refused
          /\ a.stopped = u.stopped /\ a.open = u.open /\ a.view = u.view
      BY <1>1 DEF Run
    <2>3. b.at = "check" /\ SameRun(b, u) /\ b.open = u.open /\ b.view = u.view
      BY <1>1 DEF Run, SameRun, SamePlace
    <2> HIDE DEF a, b
    <2>4. CASE u.new = 0 /\ Leave(r, a)
      <3>1. ~Clean(a)
        <4> SUFFICES ASSUME Clean(a)  PROVE FALSE
          OBVIOUS
        <4>1. Clean(u)  BY <2>2 DEF Clean
        <4>2. Rephrasing(u, entities, Originals)  BY <1>1, <2>1, <4>1 DEF Complete, Loop
        <4>3. u.new > 0  BY <2>1, <4>2 DEF Rephrasing
        <4> QED  BY <2>4, <4>3
      <3> QED  BY <2>2, <2>4, <3>1, LeftComplete DEF AllInv, FreshGoal, ViewFrom
    <2>5. CASE run'[r] = b  BY <2>1, <2>3, <2>5, MovedOn
    <2> QED  BY <2>1, <2>4, <2>5
  <1>4. CASE Raise(r)
    <2> DEFINE a == [u EXCEPT !.left = {}]
               c == [a EXCEPT !.pending = {}]
               b == Closed(c)
    <2>1. u.at \in Loop /\ (Leave(r, a) \/ Leave(r, b))
      BY <1>4 DEF Raise
    <2>2. /\ a \in Run /\ a.plan = u.plan /\ a.success = u.success
          /\ a.open = u.open /\ a.view = u.view
      BY <1>1 DEF Run
    <2> HIDE DEF a
    <2>3. c \in Run /\ c.plan = u.plan /\ c.success = u.success
      BY <2>2 DEF Run
    <2> HIDE DEF c
    <2>4. b \in Run /\ b.plan = u.plan /\ b.success = u.success /\ b.open = FALSE
      <3>1. Idle.view \in [entities : SUBSET Ids, ledger : SUBSET Ids]  BY DEF Idle
      <3> QED  BY <2>3, <3>1 DEF Closed, Run
    <2> HIDE DEF b
    <2>5. u.plan.dry = FALSE => u.success = FALSE
      BY <1>1, <2>1 DEF Counted
    <2>6. CASE Leave(r, a)
      BY <2>2, <2>5, <2>6, LeftComplete DEF AllInv, Clean, FreshGoal, ViewFrom
    <2>7. CASE Leave(r, b)
      BY <2>4, <2>5, <2>7, LeftComplete DEF AllInv, Clean, FreshGoal, ViewFrom
    <2> QED  BY <2>1, <2>6, <2>7
  <1> QED  BY <1>2, <1>3, <1>4

LEMMA TaskComplete ==
    ASSUME AllInv, NEW r \in Runs, TaskStep(r)
    PROVE  FreshInv'
  <1> DEFINE u == run[r]
  <1>0. u \in Run /\ run \in [Runs -> Run] /\ TypeInv
    BY DEF AllInv, TypeInv, RunsInv
  <1>1. Commit(r) \/ FreshGoal(r)
    <2>1. CASE Started(r)
      <3> DEFINE t == [u EXCEPT !.at = "setup"]
      <3>1. run'[r] = t /\ u.at = "start"  BY <1>0, <2>1 DEF Started
      <3>2. t.at = "setup" /\ SameRun(t, u) /\ t.open = u.open /\ t.view = u.view
        BY <1>0 DEF Run, SameRun, SamePlace
      <3> HIDE DEF t
      <3> QED  BY <3>1, <3>2, MovedOn DEF Loop
    <2>2. CASE FailUpdate(r)
      <3> DEFINE t == [u EXCEPT !.at = "fault"]
      <3>1. run'[r] = t  BY <1>0, <2>2 DEF FailUpdate
      <3>2. t.at = "fault" /\ SameRun(t, u) /\ t.open = u.open /\ t.view = u.view
        BY <1>0 DEF Run, SameRun, SamePlace
      <3> HIDE DEF t
      <3> QED  BY <3>1, <3>2, MovedOn DEF Loop
    <2>3. CASE NoModel(r)
      <3> DEFINE t == [u EXCEPT !.at = "report"]
      <3>1. run'[r] = t  BY <1>0, <2>3 DEF NoModel, Continue
      <3>2. t.at = "report" /\ SameRun(t, u) /\ t.open = u.open /\ t.view = u.view
        BY <1>0 DEF Run, SameRun, SamePlace
      <3> HIDE DEF t
      <3> QED  BY <3>1, <3>2, MovedOn DEF Loop
    <2>4. CASE Respond(r)
      <3> DEFINE t == Closed(u)
      <3>1. run'[r] = t  BY <1>0, <2>4 DEF Respond, Continue
      <3>2. t.at = u.at /\ SameRun(t, u) /\ t.open = FALSE
        BY <1>0 DEF Closed, Run, SameRun, SamePlace
      <3> HIDE DEF t
      <3> QED  BY <3>1, <3>2, MovedOn
    <2>5. CASE Setup(r) \/ Fetch(r) \/ CallLLM(r)
      BY <2>5, SetupComplete, FetchComplete, CallComplete
    <2>6. CASE \E c \in Ids : Insert(r, c) \/ Collide(r, c)
      BY <2>6, WriteComplete
    <2>7. CASE Check(r) \/ Told(r) \/ Raise(r)  BY <2>7, TurnComplete
    <2>8. CASE Reported(r) \/ Faulted(r) \/ Die(r)  BY <2>8, EndComplete
    <2> QED  BY <2>1, <2>2, <2>3, <2>4, <2>5, <2>6, <2>7, <2>8 DEF TaskStep, RunStep
  <1>2. Complete(run'[r], entities', Originals) /\ ViewFrom(run'[r], r)
    <2>1. CASE Commit(r)  BY <2>1, CommitComplete
    <2>2. CASE ~Commit(r)
      BY <1>0, <1>1, <2>2, TaskTables DEF FreshGoal, tables
    <2> QED  BY <2>1, <2>2
  <1>3. /\ entities \subseteq entities' /\ ledger \subseteq ledger' /\ Originals' = Originals
        /\ \A v \in Runs \ {r} : run'[v] = run[v]
    BY <1>0, TaskTables
  <1>4. ViewOld(run'[r], ledger')
    <2>1. ViewOld(run'[r], ledger)  BY <1>2, OldView DEF AllInv
    <2> QED  BY <1>3, <2>1 DEF ViewOld
  <1>5. ASSUME NEW v \in Runs \ {r}
        PROVE  Complete(run[v], entities', Originals) /\ ViewOld(run[v], ledger')
    BY <1>3, CompleteGrows DEF AllInv, FreshInv
  <1>6. \A v \in Runs : Complete(run'[v], entities', Originals) /\ ViewOld(run'[v], ledger')
    BY <1>2, <1>3, <1>4, <1>5
  <1> QED  BY <1>3, <1>6 DEF FreshInv, Complete, Clean, Rephrasing, ViewOld

LEMMA StepComplete == AllInv /\ [Next]_vars => FreshInv'
  <1> SUFFICES ASSUME AllInv, [Next]_vars PROVE FreshInv'
    OBVIOUS
  <1>0. run \in [Runs -> Run] /\ FreshInv /\ TypeInv  BY DEF AllInv, TypeInv, RunsInv
  <1>1. ASSUME NEW r \in Runs, NEW plan \in Plans[r], Launch(r, plan)  PROVE FreshInv'
    <2> DEFINE t == [Idle EXCEPT !.at = "start", !.plan = plan, !.open = TRUE, !.view = Snapshot]
    <2>1. run' = [run EXCEPT ![r] = t] /\ UNCHANGED tables  BY <1>1 DEF Launch
    <2>2. t.at = "start" /\ t.fresh = FALSE /\ t.view = Snapshot  BY DEF Idle
    <2> HIDE DEF t
    <2>3. Complete(t, entities, Originals)  BY <2>2 DEF Complete, Reading, Loop
    <2>4. ViewOld(t, ledger)  BY <2>2 DEF ViewOld, Snapshot
    <2>5. run'[r] = t /\ \A v \in Runs \ {r} : run'[v] = run[v]  BY <1>0, <2>1
    <2>6. \A v \in Runs : Complete(run'[v], entities, Originals) /\ ViewOld(run'[v], ledger)
      BY <1>0, <2>3, <2>4, <2>5 DEF FreshInv
    <2>7. entities' = entities /\ ledger' = ledger /\ Originals' = Originals
      BY <2>1 DEF tables, Originals, Matching
    <2> QED  BY <2>6, <2>7 DEF FreshInv, Complete, Clean, Rephrasing, ViewOld
  <1>2. ASSUME NEW r \in Runs, Forget(r)  PROVE FreshInv'
    BY <1>0, <1>2 DEF Forget, tables, FreshInv, Complete, Clean, Rephrasing, ViewOld,
                      Originals, Matching
  <1>3. CASE PressStop
    <2>1. entities' = entities /\ ledger' = ledger /\ Originals' = Originals
      BY <1>3 DEF PressStop, tables, Originals, Matching
    <2>2. ASSUME NEW r \in Runs
          PROVE  Complete(run'[r], entities, Originals) /\ ViewOld(run'[r], ledger)
      <3> DEFINE q == run[r].asked \/ run[r].at \in Loop
                 t == [run[r] EXCEPT !.asked = q]
      <3>1. run'[r] = t  BY <1>3 DEF PressStop
      <3> HIDE DEF q
      <3>2. SameRun(t, run[r]) /\ t.at = run[r].at /\ t.open = run[r].open
            /\ t.view = run[r].view
        BY <1>0 DEF Run, SameRun, SamePlace
      <3> HIDE DEF t
      <3>3. FreshGoal(r)  BY <3>1, <3>2, MovedOn
      <3> QED  BY <1>0, <3>3, OldView DEF FreshGoal
    <2> QED  BY <2>1, <2>2 DEF FreshInv, Complete, Clean, Rephrasing, ViewOld
  <1>4. ASSUME NEW n \in Unsteady, Change(n)  PROVE FreshInv'
    <2>1. ledger' = ledger  BY <1>4 DEF Change
    <2>2. ASSUME NEW r \in Runs
          PROVE  Complete(run'[r], entities', Originals') /\ ViewOld(run'[r], ledger)
      <3> DEFINE q == run[r].same /\ run[r].at = "idle"
                 t == [run[r] EXCEPT !.same = q]
      <3>1. run'[r] = t  BY <1>4 DEF Change
      <3>2. run[r].at # "idle" => q = FALSE  OBVIOUS
      <3> HIDE DEF q
      <3>3. /\ t.same = q /\ t.at = run[r].at /\ t.plan = run[r].plan
            /\ t.success = run[r].success /\ t.open = run[r].open /\ t.view = run[r].view
        BY <1>0 DEF Run
      <3> HIDE DEF t
      <3>4. run[r].at = "idle" /\ run[r].plan.dry = FALSE => run[r].success = FALSE
        BY DEF AllInv, CountInv, Counted
      <3>5. Complete(t, entities', Originals')
        BY <3>2, <3>3, <3>4 DEF Complete, Clean, Reading, Loop
      <3>6. ViewOld(t, ledger)  BY <1>0, <3>3 DEF FreshInv, ViewOld
      <3> QED  BY <3>1, <3>5, <3>6
    <2> QED  BY <2>1, <2>2 DEF FreshInv, Complete, Clean, Rephrasing, ViewOld
  <1>5. CASE UNCHANGED vars
    BY <1>0, <1>5 DEF vars, tables, FreshInv, Complete, Clean, Rephrasing, ViewOld,
                      Originals, Matching
  <1> QED  BY <1>1, <1>2, <1>3, <1>4, <1>5, TaskComplete, Steps

\* A run that finds nothing to resume and runs to the end leaves no original
\* without its copy, whatever other runs commit meanwhile.
THEOREM FreshRunsComplete == Spec => []FreshRunCompletes
  <1>1. Init => FreshInv
    <2> SUFFICES ASSUME Init, NEW r \in Runs
                 PROVE  Complete(run[r], entities, Originals) /\ ViewOld(run[r], ledger)
      BY DEF FreshInv
    <2>1. run[r].plan.dry = TRUE /\ run[r].open = FALSE  BY DEF Init, Idle
    <2> QED  BY <2>1 DEF Complete, Clean, ViewOld
  <1>2. AllInv => FreshRunCompletes
    <2> SUFFICES ASSUME AllInv, NEW r \in Runs, RanToTheEnd(r), run[r].fresh
                 PROVE  AllCopied
      BY DEF FreshRunCompletes
    <2>1. run[r] \in Run  BY DEF AllInv, TypeInv, RunsInv
    <2>2. Clean(run[r]) /\ run[r].success = TRUE /\ run[r].fresh = TRUE
      BY <2>1 DEF RanToTheEnd, Clean, Run, Plan
    <2>3. run[r].at \notin Reading  BY DEF RanToTheEnd, Reading, Loop
    <2>4. CopiesOf(Originals) \subseteq entities
      BY <2>2, <2>3 DEF AllInv, FreshInv, Complete
    <2> QED  BY <2>4 DEF AllCopied, Originals
  <1>3. TypeInv /\ CountInv /\ PagingInv /\ FreshInv /\ [Next]_vars => FreshInv'
    BY StepComplete DEF AllInv
  <1>4. TypeInv /\ CountInv /\ PagingInv /\ FreshInv => FreshRunCompletes
    BY <1>2 DEF AllInv
  <1> QED  BY <1>1, <1>3, <1>4, CountInvariant, PagingInvariant, PTL DEF Spec
==============================================================================
