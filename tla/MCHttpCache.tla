----------------------------- MODULE MCHttpCache -----------------------------
(* Calls of two segments.  A cfg chooses the layers each goes through, the *)
(* policies of the origin and the configuration of the calls.              *)
EXTENDS HttpCache, TLC

CONSTANTS s1, s2, c1, c2, c3, memory, disk

MCSegmentOf == [c \in Calls |-> IF c = c2 THEN s2 ELSE s1]
MCMemoryOrStack == {<<memory>>, <<memory, disk>>}
MCStack == {<<memory, disk>>}
MCNoForce == [c \in Calls |-> 0]
MCForce == [c \in Calls |-> IF c = c2 THEN 2 ELSE 0]

(* The policies: aged by a router, different by segment, different by      *)
(* session and not to be stored, and not found; the last three can be      *)
(* revalidated.                                                            *)
Plain == [status |-> 200, maxAge |-> 1, age |-> 0, etag |-> TRUE,
          noStore |-> FALSE, noCache |-> FALSE, vary |-> "none"]
Aged == [Plain EXCEPT !.maxAge = 2, !.age = 1, !.etag = FALSE]
BySegment == [Plain EXCEPT !.vary = "segment"]
Uncacheable == [Plain EXCEPT !.noStore = TRUE, !.vary = "session"]
Missing == [Plain EXCEPT !.status = 404, !.age = 1]

MCPolicies == {Aged, BySegment, Uncacheable, Missing}
MCSimple == {Plain}
=============================================================================
