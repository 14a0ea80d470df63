-------------------------- MODULE MCRequestPipeline --------------------------
(* Route rA is public and has limits of its own, below the replica's       *)
(* bucket; the private route rB and the event rE have none, and pay at the *)
(* replica's; rO is built in.                                              *)
EXTENDS RequestPipeline, TLC
CONSTANTS rA, rB, rE, rO, qA1, qA2, qB, qE, qO

MCRouteOf == qA1 :> rA @@ qA2 :> rA @@ qB :> rB @@ qE :> rE @@ qO :> rO
MCRouteConcurrent == rA :> 1 @@ rB :> 0 @@ rE :> 0 @@ rO :> 0
MCRoutePerMinute == rA :> 1 @@ rB :> 0 @@ rE :> 0 @@ rO :> 0
MCKindOf == rA :> "public" @@ rB :> "private" @@ rE :> "event" @@ rO :> "builtin"
Tokens(of) == [r \in Routes |-> IF r = rA THEN of ELSE {}]
MCForbidden == Tokens({"session"})
MCAlways == Tokens({"segment"})
MCCarries == [q \in Requests |-> IF q = qB THEN {"session"} ELSE {"segment", "session"}]
MCStyles == {[cache |-> "public", etag |-> TRUE, meta |-> FALSE, cookie |-> TRUE]}
MCSymmetry == Permutations({qA1, qA2})
=============================================================================
