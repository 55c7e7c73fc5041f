---------------------------- MODULE MCListFilters -----------------------------
(* ListFilters on small instances: one request slot on each of two workers. *)
EXTENDS ListFilters, TLC

CONSTANTS r1, r2, w1, w2

Homes == (r1 :> w1) @@ (r2 :> w2)

\* The two workers may be swapped together with their slots.
Symmetry == {(r1 :> r2) @@ (r2 :> r1) @@ (w1 :> w2) @@ (w2 :> w1)}
==============================================================================
