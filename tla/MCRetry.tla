------------------------------ MODULE MCRetry ------------------------------
(* Three calls for one slot, a write among them that can be cancelled.     *)
EXTENDS Retry
CONSTANTS c1, c2, c3
=============================================================================
