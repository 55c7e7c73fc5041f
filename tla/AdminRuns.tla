------------------------------ MODULE AdminRuns -------------------------------
(***************************************************************************)
(* A script started from the admin pages: the background task that runs it *)
(* after the request has been answered (router.py), its record in Redis    *)
(* (script_runner.py), the one stop file of all scripts, and the longest   *)
(* of the scripts, rephrase_from_source.py.  That script pages with OFFSET *)
(* through the entities of a source, has every one rewritten by a language *)
(* model, inserts the result as an entity of another source together with  *)
(* a row of my3pai_rephrased, and resumes from these rows when it is run   *)
(* again.                                                                  *)
(*                                                                         *)
(* Entities are numbers, ordered as their source_id: 1..N are originals,   *)
(* CopyOf(n) is the entity "rx:" + source_id of the target source, and so  *)
(* its own copy, "rx:rx:" + source_id, comes behind all of them.           *)
(***************************************************************************)
EXTENDS Naturals, FiniteSets

CONSTANTS
    Runs,         \* run ids; each is started once
    N,            \* originals
    Depth,        \* bound: copies of copies; the rows of the last level are not copied
    Foreign,      \* entities of the target source that no run has made
    Earlier,      \* copies that earlier runs may have made
    BatchSize,    \* db_batch_size
    Plans,        \* Plans[r]: parameters the run may be started with
    Unsteady,     \* originals that others may deactivate and activate
    MaxChanges    \* bound: how often they do

Ids == 1..(N * (1 + Depth))
Plan == [all : BOOLEAN,    \* source = "*"
         dry : BOOLEAN,    \* dry_run
         max : Nat]        \* max_entities; 0 is unlimited

ASSUME RunsAssumption ==
    /\ N \in Nat \ {0} /\ Depth \in Nat \ {0}
    /\ BatchSize \in Nat \ {0} /\ MaxChanges \in Nat
    /\ Foreign \subseteq Ids \ (1..N)
    /\ Earlier \subseteq Ids \ (1..N) /\ Earlier \intersect Foreign = {}
    /\ Unsteady \subseteq 1..N
    /\ Plans \in [Runs -> SUBSET Plan]

VARIABLES
    entities,   \* committed active entities
    ledger,     \* committed rows of my3pai_rephrased, as the copies they name
    stopFile,   \* .stop exists
    record,     \* record[r]: the status under dmo:script_run:<r>
    run,        \* run[r]: the task
    changes     \* changes by others so far

vars == <<entities, ledger, stopFile, record, run, changes>>
tables == <<entities, ledger>>

CopyOf(n) == n + N
CopiesOf(S) == {CopyOf(n) : n \in S}
Snapshot == [entities |-> entities, ledger |-> ledger]

Statuses == {"absent", "queued", "running", "done", "error"}
Loop == {"check", "fetch", "llm", "write", "tell"}
Updating == {"start", "tell", "report", "fault"}    \* in update_run
Phases == {"idle", "setup", "over", "dead"} \union Updating \union Loop

\* open, view: the transaction of the session; left: copies of this batch still
\* to write; pending: written, uncommitted.  Ghosts: made, committed copies;
\* refused, a row was left without a copy; fresh, nothing was there to resume;
\* same, nobody else has changed the originals since the launch; asked, the stop
\* button was pressed in the loop.
Run == [at : Phases, plan : Plan,
        open : BOOLEAN, view : [entities : SUBSET Ids, ledger : SUBSET Ids],
        offset : Nat, seen : SUBSET Ids, batch : SUBSET Ids, left : SUBSET Ids,
        pending : SUBSET Ids, created : Nat, new : Nat,
        success : BOOLEAN, stopped : BOOLEAN,
        made : SUBSET Ids, refused : BOOLEAN,
        fresh : BOOLEAN, same : BOOLEAN, asked : BOOLEAN]

Idle == [at |-> "idle", plan |-> [all |-> FALSE, dry |-> TRUE, max |-> 0],
         open |-> FALSE, view |-> [entities |-> {}, ledger |-> {}],
         offset |-> 0, seen |-> {}, batch |-> {}, left |-> {},
         pending |-> {}, created |-> 0, new |-> 0,
         success |-> FALSE, stopped |-> FALSE,
         made |-> {}, refused |-> FALSE,
         fresh |-> FALSE, same |-> TRUE, asked |-> FALSE]

Active(r) == run[r].at \notin {"idle", "over", "dead"}

Init ==
    /\ ledger \in SUBSET Earlier
    /\ entities = (1..N) \union Foreign \union ledger
    /\ stopFile = FALSE
    /\ record = [r \in Runs |-> "absent"]
    /\ run = [r \in Runs |-> Idle]
    /\ changes = 0

------------------------------------------------------------------------------
(* Steps of a task *)

Continue(r, new) ==
    /\ run' = [run EXCEPT ![r] = new]
    /\ UNCHANGED <<tables, stopFile, record, changes>>

Closed(t) == [t EXCEPT !.open = FALSE, !.view = Idle.view]

\* The variables of the loop, which nobody looks at behind it.
Outside(t) == [t EXCEPT !.offset = 0, !.seen = {}, !.batch = {}, !.left = {}, !.new = 0,
                        !.asked = FALSE]

\* Mutant of Ended: the session outlives the task.
EndedOpen(t, at) == [t EXCEPT !.at = at]

\* The task ends, and with it its transaction.  What it reports and the ghosts
\* are kept.
Ended(t, at) == [Outside(t) EXCEPT !.at = at, !.open = FALSE, !.view = Idle.view,
                                   !.pending = {}]

\* The loop is left: a live run removes the stop file, a dry run does not and
\* fails if the answers were poor.
Leave(r, t) ==
    /\ \E success \in IF t.plan.dry THEN {t.success, FALSE} ELSE {t.success} :
          run' = [run EXCEPT ![r] = [Outside(t) EXCEPT !.at = "report",
                                                       !.success = success]]
    /\ stopFile' = (stopFile /\ t.plan.dry)

\* The transaction of the next statement.
View(r) == IF run[r].open THEN run[r].view ELSE Snapshot
InView(r) == [run[r] EXCEPT !.open = TRUE, !.view = View(r)]

\* admin_script_run: get_session has pinned the snapshot, create_run has
\* written the record, create_task has made the task.
Launch(r, plan) ==
    /\ run[r].at = "idle"
    /\ record' = [record EXCEPT ![r] = "queued"]
    /\ run' = [run EXCEPT ![r] = [Idle EXCEPT !.at = "start", !.plan = plan,
                                              !.open = TRUE, !.view = Snapshot]]
    /\ UNCHANGED <<tables, stopFile, changes>>

\* The request is over and FastAPI closes its session, which the task goes on
\* using: its next statement begins a new transaction.  An assumption about time:
\* the first batch of calls takes longer than that, so nothing is written yet.
Respond(r) ==
    /\ Active(r)
    /\ run[r].open
    /\ run[r].offset = 0 /\ run[r].batch = {}
    /\ Continue(r, Closed(run[r]))

\* update_run reads the record, changes it and writes it back if it was there.
\* The task is its only writer; a purge between the two is undone and the same
\* as none.
WriteRecord(r, status) ==
    record' = [record EXCEPT ![r] = IF @ = "absent" THEN @ ELSE status]

\* A call of update_run that does not return: Redis may have executed its SET.
Unanswered(r) ==
    \/ UNCHANGED record
    \/ run[r].at = "start" /\ WriteRecord(r, "running")
    \/ run[r].at = "report" /\ WriteRecord(r, "done")
    \/ run[r].at = "fault" /\ WriteRecord(r, "error")

\* status="running".
Started(r) ==
    /\ run[r].at = "start"
    /\ WriteRecord(r, "running")
    /\ run' = [run EXCEPT ![r].at = "setup"]
    /\ UNCHANGED <<tables, stopFile, changes>>

\* The entities the script selects.
Matching(all, S) == {n \in S : CopyOf(n) \in Ids /\ (all \/ n <= N)}

\* Mutant of Setup: a resumed run starts behind as many rows as are done.
SetupAtCount(r) ==
    LET t    == InView(r)
        rows == Matching(t.plan.all, t.view.entities)
    IN
    /\ run[r].at = "setup"
    /\ IF rows = {}
       THEN Continue(r, [t EXCEPT !.at = "report", !.success = TRUE])
       ELSE Continue(r, [t EXCEPT !.at = "check", !.seen = t.view.ledger,
                                  !.offset = Cardinality(t.view.ledger),
                                  !.fresh = CopiesOf(rows) \intersect t.view.ledger = {}])

\* Mutant of Setup: a stop file from before is taken away first.
SetupClearingStop(r) ==
    LET t    == InView(r)
        rows == Matching(t.plan.all, t.view.entities)
    IN
    /\ run[r].at = "setup"
    /\ stopFile' = FALSE
    /\ run' = [run EXCEPT ![r] =
         IF rows = {}
         THEN [t EXCEPT !.at = "report", !.success = TRUE]
         ELSE [t EXCEPT !.at = "check", !.seen = t.view.ledger,
                        !.fresh = CopiesOf(rows) \intersect t.view.ledger = {}]]
    /\ UNCHANGED <<tables, record, changes>>

\* The count, and what was processed before.
Setup(r) ==
    LET t    == InView(r)
        rows == Matching(t.plan.all, t.view.entities)
    IN
    /\ run[r].at = "setup"
    /\ IF rows = {}
       THEN Continue(r, [t EXCEPT !.at = "report", !.success = TRUE])
       ELSE Continue(r, [t EXCEPT !.at = "check", !.seen = t.view.ledger,
                                  !.fresh = CopiesOf(rows) \intersect t.view.ledger = {}])

\* No language model is configured: a result without success.
NoModel(r) ==
    /\ run[r].at = "setup"
    /\ Continue(r, [run[r] EXCEPT !.at = "report"])

\* _check_stop.
Check(r) ==
    /\ run[r].at = "check"
    /\ IF stopFile
       THEN /\ Leave(r, [run[r] EXCEPT !.success = TRUE, !.stopped = TRUE])
            /\ UNCHANGED <<tables, record, changes>>
       ELSE Continue(r, [run[r] EXCEPT !.at = "fetch"])

Rank(rows, n) == Cardinality({m \in rows : m < n})
Limit(t) == IF t.plan.max > 0 /\ t.plan.max - t.offset < BatchSize
            THEN t.plan.max - t.offset ELSE BatchSize

\* ORDER BY source_id LIMIT OFFSET.
Page(rows, offset, limit) ==
    {n \in rows : /\ Rank(rows, n) >= offset
                  /\ Rank(rows, n) < offset + limit}

\* Mutant of Fetch: every row counts at once, and those of the batch again.
FetchCountingAll(r) ==
    LET t     == InView(r)
        page  == Page(Matching(t.plan.all, t.view.entities), t.offset, Limit(t))
        batch == {n \in page : CopyOf(n) \notin t.seen}
        next  == [t EXCEPT !.offset = @ + Cardinality(page),
                           !.seen = @ \union CopiesOf(batch), !.batch = batch,
                           !.new = 0]
    IN
    /\ run[r].at = "fetch"
    /\ IF batch = {}
       THEN /\ Leave(r, [next EXCEPT !.success = TRUE])
            /\ UNCHANGED <<tables, record, changes>>
       ELSE Continue(r, [next EXCEPT !.at = "llm"])

\* Mutant of Fetch: a page without new rows does not end the loop, and neither
\* does an empty one.
FetchContinue(r) ==
    LET t     == InView(r)
        page  == Page(Matching(t.plan.all, t.view.entities), t.offset, Limit(t))
        batch == {n \in page : CopyOf(n) \notin t.seen}
        next  == [t EXCEPT !.offset = @ + Cardinality(page \ batch),
                           !.seen = @ \union CopiesOf(batch), !.batch = batch,
                           !.new = 0]
    IN
    /\ run[r].at = "fetch"
    /\ Continue(r, [next EXCEPT !.at = IF batch = {} THEN "check" ELSE "llm"])

\* The rows seen before count at once; a page without others ends the loop.
Fetch(r) ==
    LET t     == InView(r)
        page  == Page(Matching(t.plan.all, t.view.entities), t.offset, Limit(t))
        batch == {n \in page : CopyOf(n) \notin t.seen}
        next  == [t EXCEPT !.offset = @ + Cardinality(page \ batch),
                           !.seen = @ \union CopiesOf(batch), !.batch = batch,
                           !.new = 0]
    IN
    /\ run[r].at = "fetch"
    /\ IF batch = {}
       THEN /\ Leave(r, [next EXCEPT !.success = TRUE])
            /\ UNCHANGED <<tables, record, changes>>
       ELSE Continue(r, [next EXCEPT !.at = "llm"])

\* The calls of a batch run in parallel; any of them may fail for good.
CallLLM(r) ==
    /\ run[r].at = "llm"
    /\ \E ok \in SUBSET run[r].batch :
         LET t == [run[r] EXCEPT !.at = "write", !.refused = @ \/ ok # run[r].batch]
         IN Continue(r, IF t.plan.dry
                        THEN [t EXCEPT !.created = @ + Cardinality(ok),
                                       !.new = Cardinality(ok)]
                        ELSE [t EXCEPT !.left = CopiesOf(ok)])

Upcoming(r, c) == /\ run[r].at = "write"
                  /\ c \in run[r].left
                  /\ \A d \in run[r].left : c <= d

\* _insert_entity: another transaction that has inserted the key and not
\* committed makes it wait.
Insert(r, c) ==
    /\ Upcoming(r, c)
    /\ c \notin View(r).entities
    /\ c \notin entities
    /\ \A u \in Runs \ {r} : c \notin run[u].pending
    /\ Continue(r, [InView(r) EXCEPT !.left = @ \ {c}, !.pending = @ \union {c},
                                  !.created = @ + 1, !.new = @ + 1])

\* Mutant of Collide: the row counts as created.
CollideCounted(r, c) ==
    /\ Upcoming(r, c)
    /\ c \in View(r).entities
    /\ Continue(r, [InView(r) EXCEPT !.left = @ \ {c}, !.refused = TRUE,
                                     !.created = @ + 1, !.new = @ + 1])

\* The collision check finds the copy.
Collide(r, c) ==
    /\ Upcoming(r, c)
    /\ c \in View(r).entities
    /\ Continue(r, [InView(r) EXCEPT !.left = @ \ {c}, !.refused = TRUE])

\* The batch is written.
Commit(r) ==
    LET t == [run[r] EXCEPT !.at = "tell", !.offset = @ + Cardinality(run[r].batch),
                            !.batch = {}] IN
    /\ run[r].at = "write"
    /\ run[r].left = {}
    /\ IF t.plan.dry
       THEN Continue(r, t)
       ELSE /\ entities' = entities \union t.pending
            /\ ledger' = ledger \union t.pending
            /\ run' = [run EXCEPT ![r] = Closed([t EXCEPT !.made = @ \union t.pending,
                                                          !.pending = {}])]
            /\ UNCHANGED <<stopFile, record, changes>>

\* Mutant of Told: at a hundred percent the record says "done".
ToldDone(r) ==
    /\ run[r].at = "tell"
    /\ WriteRecord(r, IF run[r].offset >= N THEN "done" ELSE record[r])
    /\ IF run[r].new = 0
       THEN Leave(r, [run[r] EXCEPT !.success = TRUE])
       ELSE /\ run' = [run EXCEPT ![r].at = "check"]
            /\ UNCHANGED stopFile
    /\ UNCHANGED <<tables, changes>>

\* The progress callback returns; a batch that has created nothing is the last.
Told(r) ==
    /\ run[r].at = "tell"
    /\ WriteRecord(r, record[r])
    /\ IF run[r].new = 0
       THEN Leave(r, [run[r] EXCEPT !.success = TRUE])
       ELSE /\ run' = [run EXCEPT ![r].at = "check"]
            /\ UNCHANGED stopFile
    /\ UNCHANGED <<tables, changes>>

\* An exception inside of the loop: a timeout, a key that was committed since
\* the snapshot, Redis in the callback.  A live run rolls back.
Raise(r) ==
    LET t == [run[r] EXCEPT !.left = {}] IN
    /\ run[r].at \in Loop \ {"check", "llm"}
    /\ Leave(r, IF t.plan.dry THEN t ELSE Closed([t EXCEPT !.pending = {}]))
    /\ UNCHANGED <<tables, record, changes>>

\* status="done", with the result.
Reported(r) ==
    /\ run[r].at = "report"
    /\ WriteRecord(r, "done")
    /\ run' = [run EXCEPT ![r] = Ended(run[r], "over")]
    /\ UNCHANGED <<tables, stopFile, changes>>

\* An exception outside of the loop ...
FailUpdate(r) ==
    /\ run[r].at \in {"start", "setup", "report"}
    /\ Unanswered(r)
    /\ run' = [run EXCEPT ![r].at = "fault"]
    /\ UNCHANGED <<tables, stopFile, changes>>

\* ... is reported as status="error" ...
Faulted(r) ==
    /\ run[r].at = "fault"
    /\ WriteRecord(r, "error")
    /\ run' = [run EXCEPT ![r] = Ended(run[r], "over")]
    /\ UNCHANGED <<tables, stopFile, changes>>

\* ... unless that fails too, or the worker dies before: the database drops the
\* transaction, and nobody corrects the record.
Die(r) ==
    /\ Active(r)
    /\ Unanswered(r)
    /\ run' = [run EXCEPT ![r] = Ended([@ EXCEPT !.success = FALSE], "dead")]
    /\ UNCHANGED <<tables, stopFile, changes>>

------------------------------------------------------------------------------
(* Everybody else *)

\* admin_script_stop, whatever the name of the script.
PressStop ==
    /\ stopFile' = TRUE
    /\ run' = [r \in Runs |-> [run[r] EXCEPT !.asked = @ \/ run[r].at \in Loop]]
    /\ UNCHANGED <<tables, record, changes>>

\* Mutant of Forget: the record gets its TTL when the run has ended.
ForgetEnded(r) ==
    /\ record[r] \in {"done", "error"}
    /\ record' = [record EXCEPT ![r] = "absent"]
    /\ UNCHANGED <<tables, stopFile, run, changes>>

\* The TTL of the record, or cache_delete_pattern("dmo:*").
Forget(r) ==
    /\ record[r] # "absent"
    /\ record' = [record EXCEPT ![r] = "absent"]
    /\ UNCHANGED <<tables, stopFile, run, changes>>

\* An original is deactivated, or activated.
Change(n) ==
    /\ changes < MaxChanges
    /\ changes' = changes + 1
    /\ entities' = IF n \in entities THEN entities \ {n} ELSE entities \union {n}
    /\ run' = [r \in Runs |-> [run[r] EXCEPT !.same = @ /\ run[r].at = "idle"]]
    /\ UNCHANGED <<ledger, stopFile, record>>

------------------------------------------------------------------------------
RunStep(r) ==
    \/ Started(r) \/ Setup(r) \/ Check(r) \/ Fetch(r) \/ CallLLM(r)
    \/ \E c \in Ids : Insert(r, c) \/ Collide(r, c)
    \/ Commit(r) \/ Told(r) \/ Reported(r) \/ Faulted(r)

\* A key that was committed since the snapshot ends a run in any case.
Conflict(r) == /\ \E c \in entities \ View(r).entities : Upcoming(r, c)
               /\ Raise(r)

Next ==
    \/ \E r \in Runs : \/ \E plan \in Plans[r] : Launch(r, plan)
                       \/ Respond(r) \/ NoModel(r) \/ RunStep(r) \/ Raise(r)
                       \/ FailUpdate(r) \/ Die(r) \/ Forget(r)
    \/ PressStop
    \/ \E n \in Unsteady : Change(n)

Spec == Init /\ [][Next]_vars

\* The event loop goes on, calls of the language model return (llm_client.py has
\* a timeout), and records have a TTL.  Nobody has to press a button.
FairSpec == /\ Spec
            /\ \A r \in Runs : /\ WF_vars(RunStep(r) \/ Conflict(r))
                               /\ WF_vars(Forget(r))

------------------------------------------------------------------------------
(* Properties *)

\* Every variable stays in its type, and a task that is over holds no
\* transaction and no key.
TypeOK ==
    /\ entities \subseteq Ids /\ ledger \subseteq entities
    /\ stopFile \in BOOLEAN
    /\ record \in [Runs -> Statuses]
    /\ run \in [Runs -> Run]
    /\ changes \in 0..MaxChanges
    /\ \A r \in Runs : ~Active(r) => ~run[r].open /\ run[r].pending = {}

\* The record that the admin page polls says "done" or "error" only when the
\* script has ended, whatever was purged, failed or executed without an answer
\* before; and once the task is over it does not say "queued" or "running".  While
\* an exception waits to be reported the record may say "done", but not "error".
RecordTruth == \A r \in Runs :
    /\ record[r] \in {"done", "error"} => run[r].at \in {"fault", "over", "dead"}
    /\ record[r] = "error" => run[r].at # "fault"
    /\ run[r].at = "over" => record[r] \in {"absent", "done", "error"}

\* A live run that reports success has committed as many copies as it says, and
\* nobody else has made one of them.
CountsAreCommitted == \A r \in Runs :
    run[r].at = "over" /\ run[r].success /\ ~run[r].plan.dry =>
      /\ run[r].created = Cardinality(run[r].made)
      /\ run[r].made \subseteq ledger \ Foreign
      /\ \A u \in Runs \ {r} : run[u].made \intersect run[r].made = {}

\* OFFSET counts rows the run has seen: as long as nobody else changes the
\* originals no row before it is passed over, in a resumed run neither.
NothingSkipped == \A r \in Runs :
    LET rows == Matching(FALSE, entities) IN
    run[r].same /\ ~run[r].plan.all /\ run[r].at \in {"check", "fetch"} =>
      \A n \in rows : Rank(rows, n) < run[r].offset => CopyOf(n) \in run[r].seen

\* What a run to the end means: neither stopped nor limited, success reported,
\* and the model and the keys have refused nothing.
RanToTheEnd(r) == LET t == run[r] IN
    /\ t.at = "over" /\ t.success /\ ~t.stopped /\ ~t.refused /\ t.same
    /\ ~t.plan.dry /\ ~t.plan.all /\ t.plan.max = 0
AllCopied == CopiesOf(Matching(FALSE, entities)) \subseteq entities

\* A run that finds nothing to resume and runs to the end leaves no original
\* without its copy, also when others make copies meanwhile.
FreshRunCompletes == \A r \in Runs : RanToTheEnd(r) /\ run[r].fresh => AllCopied

\* The stop signal of a run is lost only to a live run that ended.
StopLostToOthers == \A r \in Runs :
    run[r].at \in Loop /\ run[r].asked /\ ~stopFile =>
      \E u \in Runs \ {r} : ~run[u].plan.dry /\ run[u].at \notin Loop \union {"idle", "start", "setup"}

\* A run of one source ends, whoever else holds its keys.
EveryRunEnds == \A r \in Runs :
    (Active(r) /\ ~run[r].plan.all) ~> (run[r].at \in {"over", "dead"})

\* No record says "queued" or "running" for good, not after a crash either.
EveryRecordSettles == \A r \in Runs :
    (record[r] \in {"queued", "running"}) ~> (record[r] \in {"done", "error", "absent"})

\* scripts/rephrase.py: running it again resumes.  A run to the end leaves no
\* original without its copy, whatever was there before.
ResumedRunFinishes == \A r \in Runs : RanToTheEnd(r) => AllCopied
==============================================================================
