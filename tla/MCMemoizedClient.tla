-------------------------- MODULE MCMemoizedClient --------------------------
(* c1 of r1 and c2 of r2 share a flight; c4 of r1 reads what c1 reads, but *)
(* without an inflightKey, so that it can be cancelled; c3 of r1 is a      *)
(* write, not memoized and kept out of the recorder.                       *)
EXTENDS MemoizedClient

CONSTANTS r1, r2, k1, m1, m2, c1, c2, c3, c4

MCRequestOf == [c \in Calls |-> IF c = c2 THEN r2 ELSE r1]
MCKeyOf == [c \in Calls |-> IF c \in {c1, c2} THEN k1 ELSE NoKey]
MCMemoKeyOf == [c \in Calls |-> IF c = c3 THEN m2 ELSE m1]
=============================================================================
