----------------------------- MODULE MCReadCache -----------------------------
(* ReadCache on small instances. *)
EXTENDS ReadCache
==============================================================================
