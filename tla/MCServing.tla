----------------------------- MODULE MCServing -----------------------------
(***************************************************************************)
(* Small instances of the pool with a request in detail.                   *)
(***************************************************************************)
EXTENDS Serving

CONSTANTS p1, p2, TERM, INT
=============================================================================
