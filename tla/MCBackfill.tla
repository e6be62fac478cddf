----------------------------- MODULE MCBackfill -----------------------------
(* Backfill with one or two nodes; the bounds are in the configurations.   *)
EXTENDS Backfill
=============================================================================
