----------------------------- MODULE MCMetrics -----------------------------
(***************************************************************************)
(* Metrics for TLC: three requests, each of which may be a call of either  *)
(* path, one of them unknown to the router, or a scrape.                   *)
(***************************************************************************)
EXTENDS Metrics, TLC

CONSTANTS r1, r2, r3

RequestSymmetry == Permutations(Requests)
=============================================================================
