--------------------------- MODULE MCEntityWrites ----------------------------
(* EntityWrites on small instances: which requests run, on which keys. *)
EXTENDS EntityWrites

CONSTANTS k1, k2, k3, b1, b2, b3, c1, u1, d1, w1, w2

AllOps == [t \in Txns |-> CASE t \in {b1, b2, b3} -> "bulk"
                            [] t = c1 -> "create"
                            [] t = u1 -> "update"
                            [] OTHER -> "delete"]

\* b1 and b2 overlap on two keys; every other request goes to one of them.
Targets == [t \in Txns |-> CASE t = b1 -> Keys
                             [] t = b2 -> Keys \ {k3}
                             [] t = b3 -> {k2}
                             [] t = c1 -> {k1}
                             [] OTHER -> {k2}]

TwoWorkers == [t \in Txns |-> IF t = b2 THEN w2 ELSE w1]
OneWorker == [t \in Txns |-> w1]
==============================================================================
