--------------------------- MODULE MCBatchScripts ----------------------------
(* The scripts that may be started in each run of the model checker. *)
EXTENDS BatchScripts

\* All rows to be done, with or without a gap for a new row in the middle.
MCStart ==
    LET todo == [active |-> TRUE, field |-> "todo"]
    IN {[i \in Rows |-> todo], [i \in Rows |-> IF i = 2 THEN NoRow ELSE todo]}

\* One script for each way to select, guard, commit and report.
MCOrders ==
    {BackfillSourceUrl, ScoreEntities, CleanDzt, ScoreOsm(FALSE), FixWrapped(FALSE)}

MCWebsites == {FixWrapped(FALSE)}
==============================================================================
