----------------------------- MODULE MCPagination -----------------------------
(* The bounds are in Pagination.cfg. *)
EXTENDS Pagination
==============================================================================
