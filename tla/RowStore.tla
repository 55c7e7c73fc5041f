------------------------------ MODULE RowStore -------------------------------
(***************************************************************************)
(* What the write endpoints of services/write.py promise, without locks,   *)
(* flushes, retries and deadlocks: a request reads all rows at one moment, *)
(* decides what to make of them, and at one later moment either replaces   *)
(* the rows it changes, none of which changed in between, or changes       *)
(* nothing.  What it makes of the rows it read is all that is left of      *)
(* create_entity, update_entity, delete_entity and bulk_upsert.            *)
(***************************************************************************)
EXTENDS Naturals

CONSTANTS Keys, Txns, Op, Target, Located,   \* as in EntityWrites
          NoRow, Seed                        \* no row; a row there at the start

VARIABLES
    rows,    \* the table
    read,    \* read[t]: the rows request t has read
    state    \* state[t]: "waiting", "reading" or the answer of the request

vars == <<rows, read, state>>

Nothing == [k \in Keys |-> NoRow]
Init == /\ rows \in [Keys -> {NoRow, Seed}]
        /\ read = [t \in Txns |-> Nothing]
        /\ state = [t \in Txns |-> "waiting"]

\* The snapshot of the transaction, taken again when a bulk starts over.
Read(t) == /\ state[t] \in {"waiting", "reading"}
           /\ read' = [read EXCEPT ![t] = rows]
           /\ state' = [state EXCEPT ![t] = "reading"]
           /\ UNCHANGED rows

Answer(t, answer) == /\ state' = [state EXCEPT ![t] = answer]
                     /\ read' = [read EXCEPT ![t] = Nothing]

\* The request makes new[k] of the row it read for each key k of its batch: all
\* the rows it changes are as it read them, and it changes them at once.
Put(t, new) ==
    LET changed == {k \in Target[t] : new[k] # read[t][k]}
    IN /\ state[t] = "reading"
       /\ \A k \in changed : rows[k] = read[t][k]
       /\ rows' = [k \in Keys |-> IF k \in changed THEN new[k] ELSE rows[k]]
       /\ Answer(t, "ok")

Old(t) == {k \in Target[t] : read[t][k] # NoRow}
Coord(t) == IF t \in Located THEN t ELSE "null"
Moved(t, row) == IF t \in Located THEN [row EXCEPT !.loc = t] ELSE row

Created(t) == [id |-> t, data |-> t, active |-> TRUE, coord |-> Coord(t), loc |-> Coord(t)]
Updated(t, row) ==
    Moved(t, [row EXCEPT !.data = t, !.coord = IF t \in Located THEN t ELSE @])
Deleted(row) == [row EXCEPT !.active = FALSE]
Overwritten(t, row) ==
    Moved(t, [row EXCEPT !.data = t, !.active = TRUE,
                         !.coord = IF t \in Located THEN @ ELSE "null"])
\* An entity copied onto the row that its INSERT ran into.  When none is left to
\* insert, the copy comes after the move, and a location that was there is lost.
Copied(t, row) ==
    [row EXCEPT !.data = t, !.active = TRUE, !.coord = Coord(t), !.loc = Coord(t)]
CopiedLate(t, row) ==
    [Copied(t, row) EXCEPT !.loc = IF row.loc = "null" THEN @ ELSE "null"]

Create(t) == /\ Op[t] = "create" /\ Old(t) = {}
             /\ Put(t, [k \in Target[t] |-> Created(t)])

Update(t) == /\ Op[t] = "update" /\ Old(t) = Target[t]
             /\ Put(t, [k \in Target[t] |-> Updated(t, read[t][k])])

Delete(t) == /\ Op[t] = "delete" /\ Old(t) = Target[t]
             /\ Put(t, [k \in Target[t] |-> Deleted(read[t][k])])

\* A bulk that met no IntegrityError.
Bulk(t) ==
    /\ Op[t] = "bulk"
    /\ Put(t, [k \in Target[t] |->
                  IF k \in Old(t) THEN Overwritten(t, read[t][k]) ELSE Created(t)])

\* A bulk that did: the rows it ran into take its entities column by column, and
\* the rows that were there before keep their data and move.
RetriedBulk(t) ==
    /\ Op[t] = "bulk"
    /\ \E copied \in (SUBSET Old(t)) \ {{}} :
          Put(t, [k \in Target[t] |->
                     IF k \in copied THEN IF Old(t) = Target[t]
                                          THEN CopiedLate(t, read[t][k])
                                          ELSE Copied(t, read[t][k])
                     ELSE IF k \in Old(t) THEN Moved(t, read[t][k])
                     ELSE Created(t)])

\* "missing" is what the request read; "exists" is true when it is answered.
Refuse(t) ==
    /\ state[t] \in {"waiting", "reading"}
    /\ \/ Op[t] = "create" /\ (\E k \in Target[t] : rows[k] # NoRow) /\ Answer(t, "exists")
       \/ /\ Op[t] \in {"update", "delete"} /\ state[t] = "reading"
          /\ Old(t) # Target[t] /\ Answer(t, "missing")
       \/ Answer(t, "failed") \/ Answer(t, "died")
    /\ UNCHANGED rows

Next == \E t \in Txns : \/ Read(t) \/ Refuse(t)
                        \/ Create(t) \/ Update(t) \/ Delete(t) \/ Bulk(t) \/ RetriedBulk(t)

Spec == Init /\ [][Next]_vars
==============================================================================
