----------------------------- MODULE MCHarness -----------------------------
(***************************************************************************)
(* A test, and a process started by hand beside it, with a good key, one   *)
(* that is not pinned, one that nothing derives from, and none; to serve   *)
(* and to print.                                                           *)
(***************************************************************************)
EXTENDS Harness

CONSTANTS k1, k2, bad, t1, p1, port1, port2

AllInvocations ==
  [quorum : QuorumKeys \cup {None}, port : Ports, print : BOOLEAN]
=============================================================================
