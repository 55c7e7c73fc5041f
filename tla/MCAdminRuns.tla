----------------------------- MODULE MCAdminRuns ------------------------------
(* A live run of one source beside a dry run of one entity, or beside a live   *)
(* run of all sources, which rephrases copies too.                             *)
EXTENDS AdminRuns

CONSTANTS r1, r2

One     == [all |-> FALSE, dry |-> FALSE, max |-> 0]
Taste   == [One EXCEPT !.dry = TRUE, !.max = 1]
All     == [One EXCEPT !.all = TRUE]

LivePlans == [r \in Runs |-> {One}]
SomePlans == [r \in Runs |-> IF r = r1 THEN {One} ELSE {Taste, All}]
FirstDone == {N + 1}
==============================================================================
