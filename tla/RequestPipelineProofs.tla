------------------------ MODULE RequestPipelineProofs ------------------------
(***************************************************************************)
(* RateLimiter.tla for any set of routes, any limits and any finite number *)
(* of requests, and RequestPipeline.tla for any handlers: a worker         *)
(* implements the limiters it is built around, so that their guarantees    *)
(* are its own; its metrics are exact, and its answers agree with how the  *)
(* requests ended.                                                         *)
(***************************************************************************)
EXTENDS RequestPipeline, FiniteSetTheorems, TLAPS

(* A limiter's counter is the number of requests between its increment and *)
(* its finally, and has not passed the limit.                              *)
ReplicaInv == Concurrent > 0 =>
    inReplica = Cardinality(Inside) /\ inReplica <= Concurrent
RouteInv == \A r \in Routes : RouteConcurrent[r] > 0 =>
    inRoute[r] = Cardinality(Handling(r)) /\ inRoute[r] <= RouteConcurrent[r]

(* Tokens are those of admitted requests, which are past their limiters.   *)
PaidInv ==
    /\ \A q \in admitted : pc[q] \notin {"new", "routing"}
    /\ TokensForAdmitted

(* What was taken since the mark and what is left came from what can have  *)
(* been there at the mark, a full bucket, and from the refill since.       *)
WindowInv ==
    /\ mark.time <= now
    /\ \A b \in Buckets :
          /\ mark.spent[b] <= spent[b]
          /\ Minute * SpentSinceMark(b) + credit[b]
               <= Minute * Size(b) + Rate(b) * (now - mark.time)

IInv == TypeOK /\ ReplicaInv /\ RouteInv /\ PaidInv /\ WindowInv

-----------------------------------------------------------------------------
LEMMA BucketTypes == \A b \in Buckets : Rate(b) \in Nat /\ Size(b) \in Nat
BY LimitsAssumption DEF Buckets, Rate, Size

LEMMA SetsFinite ==
    /\ IsFiniteSet(Inside) /\ Cardinality(Inside) \in Nat
    /\ \A r \in Routes : IsFiniteSet(Handling(r)) /\ Cardinality(Handling(r)) \in Nat
<1>1. Inside \in SUBSET Requests /\ \A r \in Routes : Handling(r) \in SUBSET Requests
  BY DEF Inside, Handling
<1> QED
  BY <1>1, LimitsAssumption, FS_Subset, FS_CardinalityType

LEMMA CountingUp ==
    ASSUME NEW S, IsFiniteSet(S), NEW x, x \notin S, NEW T, T = S \cup {x}
    PROVE  Cardinality(T) = Cardinality(S) + 1
BY FS_AddElement

LEMMA CountingDown ==
    ASSUME NEW S, IsFiniteSet(S), NEW x, x \in S, NEW T, T = S \ {x}
    PROVE  Cardinality(T) = Cardinality(S) - 1
BY FS_RemoveElement

LEMMA InitIInv == Init => IInv
<1> SUFFICES ASSUME Init PROVE IInv
  OBVIOUS
<1> USE LimitsAssumption, BucketTypes
<1>1. TypeOK
  BY DEF Init, TypeOK
<1>2. Inside = {} /\ \A r \in Routes : Handling(r) = {}
  BY DEF Init, Inside, Handling, Within, InHandler
<1>3. Cardinality({}) = 0
  BY FS_EmptySet
<1>4a. ReplicaInv
  BY <1>2, <1>3 DEF Init, ReplicaInv
<1>4b. RouteInv
  <2> SUFFICES ASSUME NEW r \in Routes, RouteConcurrent[r] > 0
               PROVE  inRoute[r] = Cardinality(Handling(r)) /\ inRoute[r] <= RouteConcurrent[r]
    BY DEF RouteInv
  <2>1. inRoute[r] = 0
    BY DEF Init
  <2>2. Cardinality(Handling(r)) = 0
    BY <1>2, <1>3
  <2> QED
    BY <2>1, <2>2
<1>4. PaidInv
  BY FS_EmptySet DEF Init, PaidInv, TokensForAdmitted
<1>5. WindowInv
  <2>1. \A b \in Buckets : SpentSinceMark(b) = 0 /\ credit[b] = Size(b) * Minute
    BY DEF Init, SpentSinceMark
  <2>2. \A b \in Buckets : Rate(b) * (now - mark.time) = 0 /\ Size(b) * Minute = Minute * Size(b)
    BY DEF Init
  <2>3. \A b \in Buckets : Minute * Size(b) \in Nat /\ Minute * 0 = 0
    OBVIOUS
  <2> QED
    BY <2>1, <2>2, <2>3 DEF Init, WindowInv
<1> QED
  BY <1>1, <1>4a, <1>4b, <1>4, <1>5 DEF IInv

-----------------------------------------------------------------------------
(* The concurrent limiters.                                                *)
LEMMA ReplicaStep == IInv /\ [Next]_vars => ReplicaInv'
<1> SUFFICES ASSUME IInv, [Next]_vars, Concurrent > 0
             PROVE  inReplica' = Cardinality(Inside') /\ inReplica' <= Concurrent
  BY DEF ReplicaInv
<1> USE LimitsAssumption DEF IInv, TypeOK
<1>0. inReplica = Cardinality(Inside) /\ inReplica <= Concurrent
  BY DEF ReplicaInv
<1>1. ASSUME NEW q \in Requests, Enter(q)
      PROVE  inReplica' = Cardinality(Inside') /\ inReplica' <= Concurrent
  <2>1. CASE Full(inReplica, Concurrent)
    <3>1. Inside' = Inside
      BY <1>1, <2>1 DEF Enter, Inside, Within
    <3> QED
      BY <1>0, <1>1, <2>1, <3>1 DEF Enter
  <2>2. CASE ~Full(inReplica, Concurrent)
    <3>1. Inside' = Inside \cup {q} /\ q \notin Inside
      BY <1>1, <2>2 DEF Enter, Inside, Within
    <3>2. inReplica' = inReplica + 1 /\ inReplica < Concurrent
      BY <1>1, <2>2 DEF Enter, Up, Full
    <3>3. Cardinality(Inside') = Cardinality(Inside) + 1
      BY <3>1, SetsFinite, CountingUp
    <3> QED
      BY <1>0, <3>2, <3>3
  <2> QED
    BY <2>1, <2>2
<1>2. ASSUME NEW q \in Requests, Leave(q)
      PROVE  inReplica' = Cardinality(Inside') /\ inReplica' <= Concurrent
  <2>1. Inside' = Inside \ {q} /\ q \in Inside
    BY <1>2 DEF Leave, Inside, Within
  <2>2. inReplica' = inReplica - 1
    BY <1>2 DEF Leave, Down
  <2>3. Cardinality(Inside') = Cardinality(Inside) - 1
    BY <2>1, SetsFinite, CountingDown
  <2> QED
    BY <1>0, <2>2, <2>3
<1>3. ASSUME NEW q \in Requests,
             \/ Abandon(q) \/ RejectConcurrent(q) \/ RejectPerMinute(q)
             \/ Admit(q) \/ Finish(q) \/ LeaveRoute(q)
      PROVE  inReplica' = Cardinality(Inside') /\ inReplica' <= Concurrent
  <2>1. inReplica' = inReplica /\ Within(q) /\ Within(q)' /\ \A p \in Requests : p # q => pc'[p] = pc[p]
    BY <1>3 DEF Abandon, RejectConcurrent, RejectPerMinute, Admit, Finish, LeaveRoute, Within
  <2>2. Inside' = Inside
    BY <2>1 DEF Inside, Within
  <2> QED
    BY <1>0, <2>1, <2>2
<1>4. ASSUME Tick \/ Mark \/ UNCHANGED vars
      PROVE  inReplica' = Cardinality(Inside') /\ inReplica' <= Concurrent
  <2>1. inReplica' = inReplica /\ Inside' = Inside
    BY <1>4 DEF Tick, Mark, vars, Inside, Within
  <2> QED
    BY <1>0, <2>1
<1> QED
  BY <1>1, <1>2, <1>3, <1>4 DEF Next, Pipeline

LEMMA RouteStep == IInv /\ [Next]_vars => RouteInv'
<1> SUFFICES ASSUME IInv, [Next]_vars, NEW r \in Routes, RouteConcurrent[r] > 0
             PROVE  inRoute'[r] = Cardinality(Handling(r)') /\ inRoute'[r] <= RouteConcurrent[r]
  BY DEF RouteInv
<1> USE LimitsAssumption DEF IInv, TypeOK
<1> DEFINE Goal == inRoute'[r] = Cardinality(Handling(r)') /\ inRoute'[r] <= RouteConcurrent[r]
<1>0. inRoute[r] = Cardinality(Handling(r)) /\ inRoute[r] <= RouteConcurrent[r]
  BY DEF RouteInv
<1>1. ASSUME NEW q \in Requests, Admit(q) \/ RejectPerMinute(q) PROVE Goal
  <2>1. CASE RouteOf[q] = r
    <3>1. Handling(r)' = Handling(r) \cup {q} /\ q \notin Handling(r)
      BY <1>1, <2>1 DEF Admit, RejectPerMinute, Handling, InHandler
    <3>2. inRoute'[r] = inRoute[r] + 1 /\ inRoute[r] < RouteConcurrent[r]
      BY <1>1, <2>1 DEF Admit, RejectPerMinute, Up, Full
    <3>3. Cardinality(Handling(r)') = Cardinality(Handling(r)) + 1
      BY <3>1, SetsFinite, CountingUp
    <3> QED
      BY <1>0, <3>2, <3>3
  <2>2. CASE RouteOf[q] # r
    <3>1. Handling(r)' = Handling(r) /\ inRoute'[r] = inRoute[r]
      BY <1>1, <2>2 DEF Admit, RejectPerMinute, Handling, InHandler
    <3> QED
      BY <1>0, <3>1
  <2> QED
    BY <2>1, <2>2
<1>2. ASSUME NEW q \in Requests, LeaveRoute(q) PROVE Goal
  <2>1. CASE RouteOf[q] = r
    <3>1. Handling(r)' = Handling(r) \ {q} /\ q \in Handling(r)
      BY <1>2, <2>1 DEF LeaveRoute, Handling, InHandler
    <3>2. inRoute'[r] = inRoute[r] - 1
      BY <1>2, <2>1 DEF LeaveRoute, Down
    <3>3. Cardinality(Handling(r)') = Cardinality(Handling(r)) - 1
      BY <3>1, SetsFinite, CountingDown
    <3> QED
      BY <1>0, <3>2, <3>3
  <2>2. CASE RouteOf[q] # r
    <3>1. Handling(r)' = Handling(r) /\ inRoute'[r] = inRoute[r]
      BY <1>2, <2>2 DEF LeaveRoute, Handling, InHandler
    <3> QED
      BY <1>0, <3>1
  <2> QED
    BY <2>1, <2>2
<1>3. ASSUME NEW q \in Requests,
             Enter(q) \/ Abandon(q) \/ RejectConcurrent(q) \/ Finish(q) \/ Leave(q)
      PROVE  Goal
  <2>1. inRoute' = inRoute /\ (InHandler(q) <=> InHandler(q)')
        /\ \A p \in Requests : p # q => pc'[p] = pc[p]
    BY <1>3 DEF Enter, Abandon, RejectConcurrent, Finish, Leave, InHandler
  <2>2. Handling(r)' = Handling(r)
    BY <2>1 DEF Handling, InHandler
  <2> QED
    BY <1>0, <2>1, <2>2
<1>4. ASSUME Tick \/ Mark \/ UNCHANGED vars PROVE Goal
  <2>1. inRoute' = inRoute /\ Handling(r)' = Handling(r)
    BY <1>4 DEF Tick, Mark, vars, Handling, InHandler
  <2> QED
    BY <1>0, <2>1
<1> QED
  BY <1>1, <1>2, <1>3, <1>4 DEF Next, Pipeline

-----------------------------------------------------------------------------
(* The token buckets.                                                      *)
LEMMA TypeStep == IInv /\ [Next]_vars => TypeOK'
<1> SUFFICES ASSUME IInv, [Next]_vars PROVE TypeOK'
  OBVIOUS
<1> USE LimitsAssumption, BucketTypes DEF IInv, TypeOK
<1>1. ASSUME NEW q \in Requests, Admit(q) PROVE TypeOK'
  <2> DEFINE r == RouteOf[q]
  <2>1. inRoute' \in [Routes -> Nat]
    BY <1>1 DEF Admit, Up
  <2>2. /\ credit' \in [Buckets -> Nat] /\ spent' \in [Buckets -> Nat]
        /\ \A b \in Buckets : credit'[b] <= credit[b]
    BY <1>1 DEF Admit, Take, Granted, Charged
  <2>3. \A b \in Buckets : credit'[b] <= Size(b) * Minute
    BY <2>2
  <2>4. pc' \in [Requests -> {"new", "routing", "executing", "leaving", "unwinding", "done"}]
    BY <1>1 DEF Admit
  <2> QED
    BY <1>1, <2>1, <2>2, <2>3, <2>4 DEF Admit
<1>2. ASSUME Tick PROVE TypeOK'
  <2>1. \A b \in Buckets : credit'[b] \in Nat /\ credit'[b] <= Size(b) * Minute
    BY <1>2 DEF Tick, Refill
  <2> QED
    BY <1>2, <2>1 DEF Tick, history
<1>3. ASSUME NEW q \in Requests, LeaveRoute(q) PROVE TypeOK'
  <2> DEFINE r == RouteOf[q]
  <2>1. q \in Handling(r)
    BY <1>3 DEF LeaveRoute, Handling, InHandler
  <2>2. RouteConcurrent[r] > 0 => inRoute[r] # 0
    BY <2>1, SetsFinite, FS_EmptySet DEF RouteInv
  <2>3. inRoute' \in [Routes -> Nat]
    BY <1>3, <2>2 DEF LeaveRoute, Down
  <2> QED
    BY <1>3, <2>3 DEF LeaveRoute, history
<1>4. ASSUME NEW q \in Requests, Leave(q) PROVE TypeOK'
  <2>1. q \in Inside
    BY <1>4 DEF Leave, Inside, Within
  <2>2. Concurrent > 0 => inReplica # 0
    BY <2>1, SetsFinite, FS_EmptySet DEF ReplicaInv
  <2> QED
    BY <1>4, <2>2 DEF Leave, Down, history
<1>5. ASSUME NEW q \in Requests,
             Enter(q) \/ Abandon(q) \/ RejectConcurrent(q) \/ RejectPerMinute(q) \/ Finish(q)
      PROVE  TypeOK'
  BY <1>5 DEF Enter, Abandon, RejectConcurrent, RejectPerMinute, Finish, Up, history
<1>6. ASSUME Mark \/ UNCHANGED vars PROVE TypeOK'
  BY <1>6 DEF Mark, vars
<1> QED
  BY <1>1, <1>2, <1>3, <1>4, <1>5, <1>6 DEF Next, Pipeline

LEMMA PaidStep == IInv /\ [Next]_vars => PaidInv'
<1> SUFFICES ASSUME IInv, [Next]_vars PROVE PaidInv'
  OBVIOUS
<1> USE LimitsAssumption DEF IInv, TypeOK
<1> DEFINE Payers(b) == {q \in admitted : b \in Charged(RouteOf[q])}
<1>0. \A b \in Buckets : IsFiniteSet(Payers(b)) /\ spent[b] = Cardinality(Payers(b))
  <2>1. \A b \in Buckets : Payers(b) \in SUBSET Requests
    OBVIOUS
  <2> QED
    BY <2>1, FS_Subset DEF PaidInv, TokensForAdmitted
<1>1. ASSUME NEW q \in Requests, Admit(q) PROVE PaidInv'
  <2>1. q \notin admitted
    BY <1>1 DEF Admit, PaidInv
  <2>2. ASSUME NEW b \in Buckets PROVE spent'[b] = Cardinality(Payers(b)')
    <3>1. CASE b \in Charged(RouteOf[q])
      <4>1. Payers(b)' = Payers(b) \cup {q} /\ q \notin Payers(b)
        BY <1>1, <2>1, <3>1 DEF Admit, Charged
      <4>2. Cardinality(Payers(b)') = Cardinality(Payers(b)) + 1
        BY <1>0, <4>1, CountingUp
      <4> QED
        BY <1>0, <1>1, <3>1, <4>2 DEF Admit, Take
    <3>2. CASE b \notin Charged(RouteOf[q])
      <4>1. Payers(b)' = Payers(b)
        BY <1>1, <3>2 DEF Admit, Charged
      <4> QED
        BY <1>0, <1>1, <3>2, <4>1 DEF Admit, Take
    <3> QED
      BY <3>1, <3>2
  <2>3. \A p \in admitted' : pc'[p] \notin {"new", "routing"}
    BY <1>1 DEF Admit, PaidInv
  <2> QED
    BY <2>2, <2>3 DEF PaidInv, TokensForAdmitted
<1>2. ASSUME UNCHANGED <<admitted, spent>>,
             \A p \in Requests : pc'[p] = pc[p] \/ pc'[p] \notin {"new", "routing"} \/ pc[p] = "new"
      PROVE  PaidInv'
  <2>1. \A b \in Buckets : Payers(b)' = Payers(b)
    BY <1>2 DEF Charged
  <2> QED
    BY <1>0, <1>2, <2>1 DEF PaidInv, TokensForAdmitted
<1>3. ASSUME NEW q \in Requests,
             \/ Enter(q) \/ Abandon(q) \/ RejectConcurrent(q) \/ RejectPerMinute(q)
             \/ Finish(q) \/ LeaveRoute(q) \/ Leave(q)
      PROVE  PaidInv'
  BY <1>2, <1>3 DEF Enter, Abandon, RejectConcurrent, RejectPerMinute, Finish, LeaveRoute,
     Leave, history
<1>4. ASSUME Tick \/ Mark \/ UNCHANGED vars PROVE PaidInv'
  BY <1>2, <1>4 DEF Tick, Mark, vars, history
<1> QED
  BY <1>1, <1>3, <1>4 DEF Next, Pipeline

LEMMA WindowStep == IInv /\ [Next]_vars => WindowInv'
<1> SUFFICES ASSUME IInv, [Next]_vars PROVE WindowInv'
  OBVIOUS
<1> USE LimitsAssumption, BucketTypes DEF IInv, TypeOK
<1>1. ASSUME NEW q \in Requests, Admit(q) PROVE WindowInv'
  <2> SUFFICES ASSUME NEW b \in Buckets
               PROVE  /\ mark.spent[b] <= spent'[b]
                      /\ Minute * (spent'[b] - mark.spent[b]) + credit'[b]
                           = Minute * (spent[b] - mark.spent[b]) + credit[b]
    BY <1>1 DEF Admit, WindowInv, SpentSinceMark
  <2>1. CASE b \in Charged(RouteOf[q])
    <3> DEFINE n == spent[b] - mark.spent[b]
    <3>1. spent'[b] = spent[b] + 1 /\ credit'[b] = credit[b] - Minute
      BY <1>1, <2>1 DEF Admit, Take
    <3>2. n \in Int /\ spent'[b] - mark.spent[b] = n + 1
      BY <3>1
    <3>3. Minute * (n + 1) = Minute * n + Minute
      BY <3>2
    <3> QED
      BY <3>1, <3>2, <3>3 DEF WindowInv
  <2>2. CASE b \notin Charged(RouteOf[q])
    BY <1>1, <2>2 DEF Admit, Take, WindowInv
  <2> QED
    BY <2>1, <2>2
<1>2. ASSUME Tick PROVE WindowInv'
  <2> SUFFICES ASSUME NEW b \in Buckets
               PROVE  Minute * SpentSinceMark(b) + credit'[b]
                           <= Minute * Size(b) + Rate(b) * (now + 1 - mark.time)
    BY <1>2 DEF Tick, history, WindowInv, SpentSinceMark
  <2>1. credit'[b] <= credit[b] + Rate(b)
    BY <1>2 DEF Tick, Refill
  <2>2. Rate(b) * (now + 1 - mark.time) = Rate(b) * (now - mark.time) + Rate(b)
    OBVIOUS
  <2>3. /\ Minute * SpentSinceMark(b) + credit[b] <= Minute * Size(b) + Rate(b) * (now - mark.time)
        /\ Minute * SpentSinceMark(b) \in Int /\ Minute * Size(b) \in Int
        /\ Rate(b) * (now - mark.time) \in Int
        /\ credit'[b] \in Int
    BY <1>2 DEF WindowInv, SpentSinceMark, Tick, Refill
  <2> QED
    BY <2>1, <2>2, <2>3
<1>3. ASSUME Mark PROVE WindowInv'
  <2>1. \A b \in Buckets : Minute * 0 = 0 /\ Rate(b) * 0 = 0 /\ Size(b) * Minute = Minute * Size(b)
    OBVIOUS
  <2>2. /\ mark' = [time |-> now, spent |-> spent] /\ spent' = spent /\ now' = now
        /\ credit' = credit
    BY <1>3 DEF Mark
  <2>3. \A b \in Buckets : spent'[b] - mark'.spent[b] = 0 /\ now' - mark'.time = 0
    BY <2>2
  <2> QED
    BY <2>1, <2>2, <2>3 DEF WindowInv, SpentSinceMark
<1>4. ASSUME UNCHANGED <<credit, spent, now, mark>> PROVE WindowInv'
  BY <1>4 DEF WindowInv, SpentSinceMark
<1> QED
  BY <1>1, <1>2, <1>3, <1>4 DEF Next, Pipeline, Enter, Abandon, RejectConcurrent,
     RejectPerMinute, Finish, LeaveRoute, Leave, vars, history

THEOREM Invariance == Spec => []IInv
<1>1. IInv /\ [Next]_vars => IInv'
  BY TypeStep, ReplicaStep, RouteStep, PaidStep, WindowStep DEF IInv
<1> QED
  BY InitIInv, <1>1, PTL DEF Spec

-----------------------------------------------------------------------------
(* Counters and buckets stay natural numbers, buckets never overflow.      *)
THEOREM TypeCorrect == Spec => []TypeOK
<1>1. IInv => TypeOK
  BY DEF IInv
<1> QED
  BY Invariance, <1>1, PTL

(* Every slot taken is given back once, however the request ends.          *)
THEOREM CountersCorrect == Spec => []CountersExact
<1>1. IInv => CountersExact
  BY DEF IInv, ReplicaInv, RouteInv, CountersExact
<1> QED
  BY Invariance, <1>1, PTL

(* The limits on requests in execution hold.                               *)
THEOREM LimitsCorrect == Spec => []LimitsHold
<1>1. IInv => LimitsHold
  BY DEF IInv, ReplicaInv, RouteInv, LimitsHold
<1> QED
  BY Invariance, <1>1, PTL

(* Tokens are spent on admitted requests only, one at each bucket charged. *)
THEOREM TokensCorrect == Spec => []TokensForAdmitted
<1>1. IInv => TokensForAdmitted
  BY DEF IInv, PaidInv
<1> QED
  BY Invariance, <1>1, PTL

LEMMA CancelFactor ==
    ASSUME NEW m \in Nat \ {0}, NEW x \in Int, NEW y \in Int, m * x <= m * y
    PROVE  x <= y
<1> SUFFICES ASSUME x >= y + 1 PROVE FALSE
  OBVIOUS
<1>1. m * (x - y) >= 1
  OBVIOUS
<1>2. m * (x - y) = m * x - m * y
  OBVIOUS
<1> QED
  BY <1>1, <1>2

(* Any minute lets through at most the rate and the bucket that was full.  *)
THEOREM MinuteCorrect == Spec => []MinuteBounded
<1>1. IInv => MinuteBounded
  <2> SUFFICES ASSUME IInv, WithinMinute, NEW b \in Buckets
               PROVE  SpentSinceMark(b) <= Rate(b) + (Rate(b) + 1) \div 2
    BY DEF MinuteBounded
  <2> USE LimitsAssumption, BucketTypes DEF IInv, TypeOK
  <2> DEFINE d == now - mark.time
  <2>1. d \in Nat /\ d <= Minute /\ SpentSinceMark(b) \in Int /\ Rate(b) \in Nat
    BY DEF WithinMinute, WindowInv, SpentSinceMark
  <2>2. Rate(b) * d <= Rate(b) * Minute
    <3> HIDE DEF d
    <3>1. Rate(b) * (Minute - d) >= 0
      BY <2>1
    <3>2. Rate(b) * (Minute - d) = Rate(b) * Minute - Rate(b) * d
      BY <2>1
    <3> QED
      BY <2>1, <3>1, <3>2
  <2>3. Minute * SpentSinceMark(b) <= Minute * Size(b) + Rate(b) * d
    BY <2>1 DEF WindowInv
  <2>4. Minute * (Size(b) + Rate(b)) = Minute * Size(b) + Rate(b) * Minute
    OBVIOUS
  <2>5. Minute * SpentSinceMark(b) <= Minute * (Size(b) + Rate(b))
    <3> HIDE DEF d
    <3> QED
      BY <2>1, <2>2, <2>3, <2>4
  <2>6. SpentSinceMark(b) <= Size(b) + Rate(b)
    BY <2>1, <2>5, CancelFactor
  <2> QED
    BY <2>1, <2>6 DEF Size
<1> QED
  BY Invariance, <1>1, PTL

-----------------------------------------------------------------------------
(* The worker.                                                             *)

Phases == {"new", "routing", "executing", "leaving", "unwinding", "done"}
Ctx == [conn : {"none", "open", "closed"}, tracked : BOOLEAN,
        cancellation : {"none", "cancelable", "cancelled", "spent"}, recorded : BOOLEAN,
        thrown : {"none", "error", "limit", "cancelled"}, vary : SUBSET VaryTokens,
        cache : CacheControls, etag : BOOLEAN, meta : BOOLEAN, cookie : BOOLEAN]

(* What holds of the context c of request q in phase p: it has a           *)
(* connection once it has arrived, is cancelled only by the end of that,   *)
(* and carries a cookie only from its handler.                             *)
Varies(q, c) == c.tracked /\ q \in Reading => Carries[q] \subseteq c.vary \cup Forbidden[RouteOf[q]]
Harmless(q, c) == Kind(q) = "public" /\ c.cookie => c.cache # "public"
Sound(q, p, c) ==
    /\ c \in Ctx
    /\ p = "new" <=> c.conn = "none"
    /\ c.tracked => Tracked(q)
    /\ c.cancellation = "cancelled" => c.conn = "closed"
    /\ p # "done" => Varies(q, c)
    /\ p \in {"routing", "executing"} => ~c.cookie /\ c.thrown = "none"
    /\ p = "leaving" => (c.thrown = "limit" => ~c.cookie) /\ (c.thrown = "cancelled" => c.conn = "closed")
    /\ p = "unwinding" /\ c.conn # "closed" => MetadataAgrees(c) /\ Harmless(q, c)
Counted(q) == ctx[q].tracked /\ ~Gone(q)
WorkerInv ==
    /\ pc \in [Requests -> Phases] /\ ctx \in [Requests -> Ctx]
    /\ \A q \in Requests : Sound(q, pc[q], ctx[q])
    /\ gauge \in Int /\ stats \in [total : Int, closed : Int]
    /\ GaugesExact

-----------------------------------------------------------------------------
(* Every step of a worker is one of its limiters or leaves them alone.     *)
THEOREM WorkerImplementsLimiters == WorkerSpec => Spec
<1>1. WorkerInit => Init
  BY DEF WorkerInit
<1>2. [WorkerNext]_workerVars => [Next]_vars
  <2> SUFFICES ASSUME [WorkerNext]_workerVars PROVE [Next]_vars
    OBVIOUS
  <2>1. ASSUME NEW q \in Requests, Worker(q) PROVE Pipeline(q) \/ UNCHANGED vars
    BY <2>1 DEF Worker, Pipeline, Arrive, Unrouted, BuiltIn, AwaitFails, Skip, TurnAway, Start,
       Read, Write, TakeBody, HandlerEnds, Unwind, Respond, Sent, ClientAborts
  <2> QED
    BY <2>1 DEF WorkerNext, Next, workerVars
<1> QED
  BY <1>1, <1>2, PTL DEF WorkerSpec, Spec

(* So its counters are exact, whatever ends its requests.                  *)
THEOREM WorkerCountersCorrect == WorkerSpec => []CountersExact
BY WorkerImplementsLimiters, CountersCorrect, PTL

-----------------------------------------------------------------------------
LEMMA BlankType ==
    ASSUME NEW conn \in {"none", "open", "closed"}
    PROVE  /\ Blank(conn) \in Ctx
           /\ Blank(conn).conn = conn /\ ~Blank(conn).tracked /\ ~Blank(conn).cookie
           /\ Blank(conn).thrown = "none" /\ Blank(conn).cancellation = "none"
BY DEF Blank, Ctx, CacheControls

(* The way back keeps the connection and makes the headers agree.          *)
LEMMA AnswerSound ==
    ASSUME NEW q \in Requests, NEW c \in Ctx,
           c.tracked => Tracked(q), c.conn # "none",
           c.cancellation = "cancelled" => c.conn = "closed", Varies(q, c),
           c.thrown = "limit" => ~c.cookie, c.thrown = "cancelled" => c.conn = "closed"
    PROVE  /\ Answer(q, c).conn = c.conn /\ Answer(q, c).tracked = c.tracked
           /\ Sound(q, "unwinding", Answer(q, c))
<1>1. CASE c.thrown = "none"
  <2>1. Answer(q, c) = [c EXCEPT !.cookie = RemoveSetCookie(q, c), !.meta = Flush(c)]
    BY <1>1 DEF Answer, Returned
  <2>2. RemoveSetCookie(q, c) \in BOOLEAN /\ Flush(c) \in BOOLEAN
    BY DEF RemoveSetCookie, Flush, Ctx
  <2> QED
    BY <1>1, <2>1, <2>2 DEF Ctx, CacheControls, Sound, Varies, Harmless, MetadataAgrees, RemoveSetCookie, Flush
<1>2. CASE c.thrown = "error" /\ Kind(q) = "builtin"
  <2>1. Answer(q, c) = [Blank(c.conn) EXCEPT !.thrown = "error"]
    BY <1>2 DEF Answer, Failed
  <2>2. ~c.tracked
    BY <1>2 DEF Tracked
  <2> QED
    BY <1>2, <2>1, <2>2 DEF Blank, Ctx, CacheControls, Sound, Varies, Harmless, MetadataAgrees
<1>3. CASE c.thrown = "error" /\ Kind(q) # "builtin"
  <2>1. Answer(q, c) =
          [c EXCEPT !.etag = FALSE, !.meta = FALSE, !.recorded = FALSE, !.cache = "short"]
    BY <1>3 DEF Answer, Failed
  <2> QED
    BY <1>3, <2>1 DEF Ctx, CacheControls, Sound, Varies, Harmless, MetadataAgrees
<1>4. CASE c.thrown \in {"limit", "cancelled"}
  <2>1. Answer(q, c) = c
    BY <1>4 DEF Answer
  <2> QED
    BY <1>4, <2>1 DEF Ctx, CacheControls, Sound, Varies, Harmless, MetadataAgrees
<1> QED
  BY <1>1, <1>2, <1>3, <1>4 DEF Ctx

-----------------------------------------------------------------------------
LEMMA UnderWayFinite ==
    /\ IsFiniteSet(UnderWay) /\ Cardinality(UnderWay) \in Nat
    /\ LET S == {q \in UnderWay : Counted(q)} IN IsFiniteSet(S) /\ Cardinality(S) \in Nat
<1>1. UnderWay \in SUBSET Requests /\ {q \in UnderWay : Counted(q)} \in SUBSET Requests
  BY DEF UnderWay
<1> QED
  BY <1>1, LimitsAssumption, FS_Subset, FS_CardinalityType

LEMMA WorkerInitInv == WorkerInit => WorkerInv
<1> SUFFICES ASSUME WorkerInit PROVE WorkerInv
  OBVIOUS
<1>1. \A q \in Requests : pc[q] = "new" /\ ctx[q] = Blank("none") /\ ctx[q] \in Ctx
  BY BlankType DEF WorkerInit, Init
<1>2. \A q \in Requests : Sound(q, pc[q], ctx[q])
  BY <1>1, BlankType DEF Sound, Varies
<1>3. pc \in [Requests -> Phases] /\ ctx \in [Requests -> Ctx]
  BY <1>1 DEF WorkerInit, Init, Phases
<1>4. UnderWay = {}
  BY <1>1 DEF UnderWay
<1>5. GaugesExact
  <2>1. {q \in UnderWay : ctx[q].tracked /\ ~Gone(q)} = {}
    BY <1>4
  <2> QED
    BY <1>4, <2>1, FS_EmptySet DEF WorkerInit, GaugesExact
<1> QED
  BY <1>2, <1>3, <1>5 DEF WorkerInit, WorkerInv

(* Of one request alone: its phase and context become p and c.             *)
Becomes(q, p, c) == pc' = [pc EXCEPT ![q] = p] /\ ctx' = [ctx EXCEPT ![q] = c]

LEMMA OthersKept ==
    ASSUME WorkerInv, NEW q \in Requests, NEW p \in Phases, NEW c \in Ctx,
           Becomes(q, p, c), Sound(q, p, c)
    PROVE  /\ pc' \in [Requests -> Phases] /\ ctx' \in [Requests -> Ctx]
           /\ pc'[q] = p /\ ctx'[q] = c
           /\ \A o \in Requests \ {q} : pc'[o] = pc[o] /\ ctx'[o] = ctx[o]
           /\ \A o \in Requests : Sound(o, pc'[o], ctx'[o])
<1>1. pc' \in [Requests -> Phases] /\ ctx' \in [Requests -> Ctx]
  BY DEF WorkerInv, Becomes
<1>2. /\ pc'[q] = p /\ ctx'[q] = c
      /\ \A o \in Requests \ {q} : pc'[o] = pc[o] /\ ctx'[o] = ctx[o]
  BY DEF WorkerInv, Becomes
<1>3. \A o \in Requests : Sound(o, pc'[o], ctx'[o])
  BY <1>2 DEF WorkerInv
<1> QED
  BY <1>1, <1>2, <1>3

(* A request on its way, whose connection and tracking stay: nothing is    *)
(* counted.                                                                *)
LEMMA OnItsWay ==
    ASSUME WorkerInv, NEW q \in Requests, NEW p \in Phases, NEW c \in Ctx,
           Becomes(q, p, c), Sound(q, p, c), UNCHANGED <<gauge, stats>>,
           pc[q] \notin {"new", "done"}, p \notin {"new", "done"},
           c.conn = ctx[q].conn, c.tracked = ctx[q].tracked
    PROVE  WorkerInv'
<1>1. UnderWay' = UnderWay
  BY OthersKept DEF UnderWay, Gone
<1>2. {o \in UnderWay' : ctx'[o].tracked /\ ~Gone(o)'} = {o \in UnderWay : ctx[o].tracked /\ ~Gone(o)}
  BY <1>1, OthersKept DEF UnderWay, Gone
<1>3. GaugesExact'
  BY <1>1, <1>2 DEF WorkerInv, GaugesExact
<1> QED
  BY OthersKept, <1>3 DEF WorkerInv

(* Answers, from a context that is as it should be.                        *)
LEMMA AnswersStep ==
    ASSUME WorkerInv, NEW q \in Requests, NEW c \in Ctx, Answers(q, c),
           pc[q] \notin {"new", "done"}, pc' = [pc EXCEPT ![q] = "unwinding"],
           c.conn = ctx[q].conn, c.tracked = ctx[q].tracked, c.vary = ctx[q].vary,
           c.cancellation = ctx[q].cancellation,
           c.thrown = "limit" => ~c.cookie, c.thrown = "cancelled" => c.conn = "closed"
    PROVE  WorkerInv'
<1>1. Sound(q, pc[q], ctx[q])
  BY DEF WorkerInv
<1>2. /\ c.tracked => Tracked(q)
      /\ c.conn # "none"
      /\ c.cancellation = "cancelled" => c.conn = "closed"
      /\ Varies(q, c)
  BY <1>1 DEF Sound, Varies
<1>3. /\ Answer(q, c).conn = c.conn /\ Answer(q, c).tracked = c.tracked
      /\ Sound(q, "unwinding", Answer(q, c))
  BY <1>2, AnswerSound
<1>4. Answer(q, c) \in Ctx /\ "unwinding" \in Phases
  BY <1>3 DEF Sound, Phases
<1>5. Becomes(q, "unwinding", Answer(q, c)) /\ UNCHANGED <<gauge, stats>>
  BY DEF Answers, Becomes
<1> QED
  BY <1>3, <1>4, <1>5, OnItsWay

-----------------------------------------------------------------------------
(* One step per action.                                                    *)
LEMMA ArriveStep == ASSUME WorkerInv, NEW q \in Requests, Arrive(q) PROVE WorkerInv'
<1> DEFINE turned == pc'[q] = "done"
           token == IF Tracked(q) /\ q \in Reading THEN "cancelable" ELSE "none"
           c == IF turned THEN Blank("open")
                ELSE [Blank("open") EXCEPT !.tracked = Tracked(q), !.vary = Vary(q), !.cancellation = token]
           p == IF turned THEN "done" ELSE "routing"
<1>1. Becomes(q, p, c)
  <2>1. pc' = [pc EXCEPT ![q] = p]
    BY DEF Arrive, Enter, WorkerInv
  <2>2. ctx' = [ctx EXCEPT ![q] = c]
    BY DEF Arrive
  <2> QED
    BY <2>1, <2>2 DEF Becomes
<1>2. Vary(q) \in SUBSET VaryTokens
  BY LimitsAssumption, PipelineAssumption DEF Vary
<1>3. /\ c \in Ctx /\ c.conn = "open" /\ ~c.cookie /\ c.thrown = "none"
      /\ c.cancellation # "cancelled"
      /\ c.tracked = (~turned /\ Tracked(q)) /\ (~turned => c.vary = Vary(q))
  <2>1. Tracked(q) \in BOOLEAN /\ token \in {"none", "cancelable"}
    BY DEF Tracked
  <2> QED
    BY <1>2, <2>1, BlankType DEF Blank, Ctx
<1>4. Sound(q, p, c)
  <2>1. ~turned => Varies(q, c)
    BY <1>3 DEF Varies, Vary
  <2> QED
    BY <1>3, <2>1 DEF Sound
<1>5. pc[q] = "new" /\ p \in Phases
  BY DEF Arrive, Enter, Phases
<1>6. UnderWay' = UnderWay \cup {q} /\ q \notin UnderWay
  BY <1>1, <1>3, <1>4, <1>5, OthersKept DEF UnderWay, Gone
<1>7. gauge' = gauge + 1 /\ gauge' = Cardinality(UnderWay')
  <2>1. Cardinality(UnderWay') = Cardinality(UnderWay) + 1
    BY <1>6, UnderWayFinite, CountingUp
  <2> QED
    BY <2>1 DEF Arrive, WorkerInv, GaugesExact
<1>7a. ctx'[q] = c /\ (\A o \in Requests \ {q} : ctx'[o] = ctx[o]) /\ UnderWay \subseteq Requests
  BY <1>1, <1>3, <1>4, <1>5, OthersKept DEF UnderWay
<1>7b. stats' = IF c.tracked THEN [stats EXCEPT !.total = @ + 1] ELSE stats
  BY <1>3 DEF Arrive
<1> DEFINE Open == {o \in UnderWay : ctx[o].tracked /\ ~Gone(o)}
<1> HIDE DEF c, p, token
<1>8. stats' \in [total : Int, closed : Int] /\ stats'.total - stats'.closed = Cardinality(Open')
  <2>1. CASE c.tracked
    <3>1. Open' = Open \cup {q} /\ q \notin Open
      BY <1>3, <1>6, <1>7a, <2>1 DEF Gone
    <3>2. Cardinality(Open') = Cardinality(Open) + 1
      BY <3>1, UnderWayFinite, CountingUp DEF Counted
    <3>3. stats' = [stats EXCEPT !.total = @ + 1]
      BY <1>7b, <2>1
    <3> QED
      BY <3>2, <3>3, UnderWayFinite DEF WorkerInv, GaugesExact, Counted
  <2>2. CASE ~c.tracked
    <3>1. Open' = Open
      BY <1>3, <1>6, <1>7a, <2>2 DEF Gone
    <3>2. stats' = stats
      BY <1>7b, <2>2
    <3> QED
      BY <3>1, <3>2 DEF WorkerInv, GaugesExact
  <2> QED
    BY <2>1, <2>2
<1>9. GaugesExact'
  BY <1>7, <1>8 DEF GaugesExact
<1> QED
  BY <1>1, <1>3, <1>4, <1>5, <1>7, <1>8, <1>9, OthersKept DEF WorkerInv

LEMMA ThrownTypes ==
    ASSUME WorkerInv, NEW q \in Requests, NEW O \in SUBSET {"none", "error"}, NEW c \in Thrown(q, O)
    PROVE  /\ c \in Ctx /\ c.thrown \in O \cup {"cancelled"}
           /\ c.thrown = "cancelled" => c.conn = "closed"
           /\ c = [ctx[q] EXCEPT !.thrown = c.thrown] /\ c.conn = ctx[q].conn
<1>1. PICK o \in O \cup (IF Cancelled(q) THEN {"cancelled"} ELSE {}) : c = [ctx[q] EXCEPT !.thrown = o]
  BY DEF Thrown
<1>2. ctx[q] \in Ctx /\ Sound(q, pc[q], ctx[q])
  BY DEF WorkerInv
<1>3. c.thrown = o
  BY <1>1, <1>2 DEF Ctx
<1>4. o = "cancelled" => c.conn = "closed"
  BY <1>1, <1>2 DEF Sound, Ctx, Cancelled
<1> QED
  BY <1>1, <1>2, <1>3, <1>4 DEF Ctx

(* The routes to the way back that a request takes before its limiters.    *)
LEMMA AbandonedStep ==
    ASSUME WorkerInv, NEW q \in Requests, Unrouted(q) \/ BuiltIn(q) \/ AwaitFails(q) \/ Skip(q)
    PROVE  WorkerInv'
<1>1. pc[q] = "routing" /\ pc' = [pc EXCEPT ![q] = "unwinding"]
  BY DEF Unrouted, BuiltIn, AwaitFails, Skip, Abandon
<1>2. ctx[q] \in Ctx /\ Sound(q, "routing", ctx[q])
  BY <1>1 DEF WorkerInv
<1>3. ~ctx[q].cookie /\ ctx[q].thrown = "none"
  BY <1>2 DEF Sound
<1>4. CASE Unrouted(q) \/ Skip(q)
  BY <1>1, <1>2, <1>3, <1>4, AnswersStep DEF Unrouted, Skip
<1>5. CASE BuiltIn(q)
  <2>1. PICK d \in Thrown(q, {"none", "error"}) : Answers(q, [d EXCEPT !.cache = "public"])
    BY <1>5 DEF BuiltIn
  <2> DEFINE c == [d EXCEPT !.cache = "public"]
  <2>2. /\ d \in Ctx /\ d.thrown \in {"none", "error", "cancelled"}
        /\ d.thrown = "cancelled" => d.conn = "closed"
        /\ d = [ctx[q] EXCEPT !.thrown = d.thrown] /\ d.conn = ctx[q].conn
    BY ThrownTypes
  <2>3. /\ c \in Ctx /\ c.conn = ctx[q].conn /\ c.tracked = ctx[q].tracked /\ c.vary = ctx[q].vary
        /\ c.cancellation = ctx[q].cancellation /\ c.thrown = d.thrown
    BY <1>2, <2>2 DEF Ctx, CacheControls
  <2>4. Answers(q, c)
    BY <2>1
  <2> HIDE DEF c
  <2> QED
    BY <1>1, <2>2, <2>3, <2>4, AnswersStep
<1>6. CASE AwaitFails(q)
  <2> DEFINE O == {"error"} \cup Unreadable(q)
  <2>0. O \in SUBSET {"none", "error"}
    BY DEF Unreadable
  <2>1. PICK c \in Thrown(q, O) : Answers(q, c)
    BY <1>6 DEF AwaitFails
  <2>2. /\ c \in Ctx /\ c.thrown \in O \cup {"cancelled"}
        /\ c.thrown = "cancelled" => c.conn = "closed"
        /\ c = [ctx[q] EXCEPT !.thrown = c.thrown]
    BY <2>0, ThrownTypes
  <2>3. /\ c.conn = ctx[q].conn /\ c.tracked = ctx[q].tracked /\ c.vary = ctx[q].vary
        /\ c.cancellation = ctx[q].cancellation /\ c.thrown # "limit"
    BY <1>2, <2>0, <2>2 DEF Ctx
  <2> QED
    BY <1>1, <2>1, <2>2, <2>3, AnswersStep
<1> QED
  BY <1>4, <1>5, <1>6

LEMMA LimitedStep ==
    ASSUME WorkerInv, NEW q \in Requests, TurnAway(q) \/ Start(q)
    PROVE  WorkerInv'
<1> DEFINE c == [ctx[q] EXCEPT !.thrown = "limit"]
<1>1. pc[q] = "routing"
  BY DEF TurnAway, RejectConcurrent, RejectPerMinute, Start, Admit
<1>2. ctx[q] \in Ctx /\ Sound(q, "routing", ctx[q])
  BY <1>1 DEF WorkerInv
<1>3. /\ c \in Ctx /\ c.conn = ctx[q].conn /\ c.tracked = ctx[q].tracked /\ c.vary = ctx[q].vary
      /\ c.cancellation = ctx[q].cancellation /\ c.thrown = "limit" /\ ~c.cookie
  BY <1>2 DEF Ctx, Sound
<1>4. CASE RejectConcurrent(q) /\ Answers(q, c)
  BY <1>1, <1>3, <1>4, AnswersStep DEF RejectConcurrent
<1>5. CASE RejectPerMinute(q) /\ ctx' = [ctx EXCEPT ![q].thrown = "limit"] /\ UNCHANGED <<gauge, stats>>
  <2>1. Becomes(q, "leaving", c) /\ "leaving" \in Phases
    BY <1>5 DEF RejectPerMinute, Becomes, Phases
  <2>2. Sound(q, "leaving", c)
    BY <1>2, <1>3 DEF Sound, Varies
  <2> QED
    BY <1>1, <1>3, <1>5, <2>1, <2>2, OnItsWay
<1>6. CASE Start(q)
  <2>1. Becomes(q, "executing", ctx[q]) /\ "executing" \in Phases /\ UNCHANGED <<gauge, stats>>
    BY <1>6 DEF Start, Admit, Becomes, Phases, pipeline, WorkerInv
  <2>2. Sound(q, "executing", ctx[q])
    BY <1>2 DEF Sound
  <2> QED
    BY <1>1, <1>2, <2>1, <2>2, OnItsWay
<1> QED
  BY <1>4, <1>5, <1>6 DEF TurnAway

LEMMA HandlerStep ==
    ASSUME WorkerInv, NEW q \in Requests, Read(q) \/ Write(q) \/ HandlerEnds(q)
    PROVE  WorkerInv'
<1>1. pc[q] = "executing"
  BY DEF Read, Write, HandlerEnds, Finish
<1>2. ctx[q] \in Ctx /\ Sound(q, "executing", ctx[q])
  BY <1>1 DEF WorkerInv
<1>3. CASE Read(q)
  <2> DEFINE c == [ctx[q] EXCEPT !.recorded = TRUE]
  <2>1. Becomes(q, "executing", c) /\ "executing" \in Phases /\ UNCHANGED <<gauge, stats>>
    BY <1>1, <1>3 DEF Read, Becomes, Phases, vars, WorkerInv
  <2>2. c \in Ctx /\ Sound(q, "executing", c) /\ c.conn = ctx[q].conn /\ c.tracked = ctx[q].tracked
    BY <1>2 DEF Ctx, Sound, Varies
  <2> QED
    BY <1>1, <2>1, <2>2, OnItsWay
<1>4. CASE Write(q)
  <2> DEFINE c == [ctx[q] EXCEPT !.cancellation = "spent"]
  <2>1. Becomes(q, "executing", c) /\ "executing" \in Phases /\ UNCHANGED <<gauge, stats>>
    BY <1>1, <1>4 DEF Write, Becomes, Phases, vars, WorkerInv
  <2>2. c \in Ctx /\ Sound(q, "executing", c) /\ c.conn = ctx[q].conn /\ c.tracked = ctx[q].tracked
    BY <1>2 DEF Ctx, Sound, Varies
  <2> QED
    BY <1>1, <2>1, <2>2, OnItsWay
<1>5. CASE HandlerEnds(q)
  <2>1. PICK d \in Thrown(q, {"none", "error"}), style \in Styles :
          ctx' = [ctx EXCEPT ![q] = [d EXCEPT !.cache = style.cache, !.etag = style.etag,
                                              !.meta = style.meta, !.cookie = style.cookie]]
    BY <1>5 DEF HandlerEnds
  <2> DEFINE c == [d EXCEPT !.cache = style.cache, !.etag = style.etag,
                            !.meta = style.meta, !.cookie = style.cookie]
  <2>2. /\ d \in Ctx /\ d.thrown \in {"none", "error", "cancelled"}
        /\ d.thrown = "cancelled" => d.conn = "closed"
        /\ d = [ctx[q] EXCEPT !.thrown = d.thrown] /\ d.conn = ctx[q].conn
    BY ThrownTypes
  <2>3. /\ c \in Ctx /\ c.conn = ctx[q].conn /\ c.tracked = ctx[q].tracked /\ c.vary = ctx[q].vary
        /\ c.cancellation = ctx[q].cancellation /\ c.thrown = d.thrown
    BY <1>2, <2>2, PipelineAssumption DEF Ctx
  <2>4. Becomes(q, "leaving", c) /\ "leaving" \in Phases /\ UNCHANGED <<gauge, stats>>
    BY <1>5, <2>1 DEF HandlerEnds, Finish, Becomes, Phases
  <2> HIDE DEF c
  <2>5. Sound(q, "leaving", c)
    BY <1>2, <2>2, <2>3 DEF Sound, Varies
  <2> QED
    BY <1>1, <2>3, <2>4, <2>5, OnItsWay
<1> QED
  BY <1>3, <1>4, <1>5

LEMMA UnwindStep == ASSUME WorkerInv, NEW q \in Requests, Unwind(q) PROVE WorkerInv'
<1>1. pc[q] = "leaving" /\ pc' = [pc EXCEPT ![q] = "unwinding"] /\ Answers(q, ctx[q])
  BY DEF Unwind, LeaveRoute
<1>2. ctx[q] \in Ctx /\ Sound(q, "leaving", ctx[q])
  BY <1>1 DEF WorkerInv
<1>3. (ctx[q].thrown = "limit" => ~ctx[q].cookie) /\ (ctx[q].thrown = "cancelled" => ctx[q].conn = "closed")
  BY <1>2 DEF Sound
<1> QED
  BY <1>1, <1>2, <1>3, AnswersStep

(* The end of the pipeline and the end of the connection: whichever comes  *)
(* last takes the request off the gauge.                                   *)
LEMMA RespondStep == ASSUME WorkerInv, NEW q \in Requests, Respond(q) PROVE WorkerInv'
<1> DEFINE c == [Blank(ctx[q].conn) EXCEPT !.tracked = ctx[q].tracked /\ ~Gone(q)]
           Open == {o \in UnderWay : ctx[o].tracked /\ ~Gone(o)}
<1>1. pc[q] = "unwinding" /\ Becomes(q, "done", c) /\ "done" \in Phases /\ stats' = stats
  BY DEF Respond, Leave, Becomes, Phases
<1>2. ctx[q] \in Ctx /\ Sound(q, "unwinding", ctx[q])
  BY <1>1 DEF WorkerInv
<1>3. /\ c \in Ctx /\ c.conn = ctx[q].conn /\ ~c.cookie /\ c.cancellation = "none"
      /\ c.tracked <=> Counted(q)
  BY <1>2, BlankType DEF Blank, Ctx, Counted
<1> HIDE DEF c
<1>4. Sound(q, "done", c)
  BY <1>2, <1>3 DEF Sound, Counted
<1>5. /\ pc'[q] = "done" /\ ctx'[q] = c /\ q \in UnderWay /\ UnderWay \subseteq Requests
      /\ \A o \in Requests \ {q} : pc'[o] = pc[o] /\ ctx'[o] = ctx[o]
  BY <1>1, <1>3, <1>4, OthersKept DEF UnderWay
<1>6. Open' = Open
  BY <1>3, <1>5 DEF UnderWay, Gone, Counted
<1>7. gauge' = Cardinality(UnderWay')
  <2>1. CASE Gone(q)
    <3>1. UnderWay' = UnderWay \ {q}
      BY <1>3, <1>5, <2>1 DEF UnderWay, Gone
    <3>2. Cardinality(UnderWay') = Cardinality(UnderWay) - 1
      BY <1>5, <3>1, UnderWayFinite, CountingDown
    <3> QED
      BY <2>1, <3>2 DEF Respond, Finished, WorkerInv, GaugesExact
  <2>2. CASE ~Gone(q)
    <3>1. UnderWay' = UnderWay
      BY <1>3, <1>5, <2>2 DEF UnderWay, Gone
    <3> QED
      BY <2>2, <3>1 DEF Respond, Finished, WorkerInv, GaugesExact
  <2> QED
    BY <2>1, <2>2
<1>8. gauge' \in Int
  BY DEF Respond, Finished, WorkerInv
<1>9. GaugesExact'
  BY <1>1, <1>6, <1>7 DEF WorkerInv, GaugesExact
<1> QED
  BY <1>1, <1>3, <1>4, <1>8, <1>9, OthersKept DEF WorkerInv

(* Whatever closes a request, the statistics count it once.                *)
LEMMA Closed ==
    ASSUME WorkerInv, NEW q \in Requests, q \in UnderWay, ctx[q].conn = "open", Closes(q),
           \A o \in Requests \ {q} : pc'[o] = pc[o] /\ ctx'[o] = ctx[o],
           ~ctx'[q].tracked \/ ctx'[q].conn = "closed"
    PROVE  /\ stats' \in [total : Int, closed : Int]
           /\ stats'.total - stats'.closed
                = Cardinality({o \in UnderWay' : ctx'[o].tracked /\ ~Gone(o)'})
<1> DEFINE Open == {o \in UnderWay : ctx[o].tracked /\ ~Gone(o)}
<1>0. stats.total - stats.closed = Cardinality(Open) /\ stats \in [total : Int, closed : Int]
  BY DEF WorkerInv, GaugesExact
<1>1. CASE ctx[q].tracked
  <2>1. Open' = Open \ {q} /\ q \in Open
    BY <1>1 DEF UnderWay, Gone
  <2>2. Cardinality(Open') = Cardinality(Open) - 1
    BY <2>1, UnderWayFinite, CountingDown DEF Counted
  <2>3. stats' = [stats EXCEPT !.closed = @ + 1]
    BY <1>0, <1>1 DEF Closes
  <2> HIDE DEF Open
  <2>4. Cardinality(Open) \in Nat
    BY UnderWayFinite DEF Counted, Open
  <2>5. stats' \in [total : Int, closed : Int] /\ stats'.total - stats'.closed = Cardinality(Open')
    BY <1>0, <2>2, <2>3, <2>4
  <2> QED
    BY <2>5 DEF Open
<1>2. CASE ~ctx[q].tracked
  <2>1. Open' = Open
    BY <1>2 DEF UnderWay, Gone
  <2>2. stats' = stats
    BY <1>0, <1>2 DEF Closes
  <2> QED
    BY <1>0, <2>1, <2>2
<1> QED
  BY <1>1, <1>2

LEMMA BodyStep == ASSUME WorkerInv, NEW q \in Requests, TakeBody(q) PROVE WorkerInv'
<1> DEFINE c == [ctx[q] EXCEPT !.tracked = FALSE]
<1>1. /\ pc[q] = "executing" /\ pc' = pc /\ gauge' = gauge /\ Closes(q) /\ ~Gone(q)
      /\ Becomes(q, "executing", c) /\ "executing" \in Phases
  BY DEF TakeBody, vars, Becomes, Phases, WorkerInv
<1>2. ctx[q] \in Ctx /\ Sound(q, "executing", ctx[q])
  BY <1>1 DEF WorkerInv
<1>3. c \in Ctx /\ c.conn = ctx[q].conn /\ ~c.tracked /\ Sound(q, "executing", c) /\ ctx[q].conn = "open"
  BY <1>1, <1>2 DEF Ctx, Sound, Varies, Gone
<1> HIDE DEF c
<1>4. /\ pc'[q] = pc[q] /\ ctx'[q] = c /\ q \in UnderWay /\ UnderWay \subseteq Requests
      /\ \A o \in Requests \ {q} : pc'[o] = pc[o] /\ ctx'[o] = ctx[o]
  BY <1>1, <1>3, OthersKept DEF UnderWay, Gone
<1>5. UnderWay' = UnderWay
  BY <1>3, <1>4 DEF UnderWay, Gone
<1>6. stats' \in [total : Int, closed : Int] /\ GaugesExact'
  BY <1>1, <1>3, <1>4, <1>5, Closed DEF GaugesExact, WorkerInv
<1> QED
  BY <1>1, <1>3, <1>6, OthersKept DEF WorkerInv

LEMMA SentStep == ASSUME WorkerInv, NEW q \in Requests, Sent(q) PROVE WorkerInv'
<1> DEFINE c == Blank("closed")
<1>1. pc[q] = "done" /\ pc' = pc /\ ctx[q].conn = "open" /\ Becomes(q, "done", c) /\ "done" \in Phases
  BY DEF Sent, Ends, vars, Becomes, Phases, WorkerInv
<1>2. c \in Ctx /\ c.conn = "closed" /\ ~c.tracked /\ ~c.cookie /\ c.cancellation = "none"
  BY BlankType
<1> HIDE DEF c
<1>3. Sound(q, "done", c)
  BY <1>2 DEF Sound
<1>4. /\ pc'[q] = "done" /\ ctx'[q] = c /\ q \in UnderWay /\ UnderWay \subseteq Requests
      /\ \A o \in Requests \ {q} : pc'[o] = pc[o] /\ ctx'[o] = ctx[o]
  BY <1>1, <1>2, <1>3, OthersKept DEF UnderWay, Gone
<1>5. gauge' = Cardinality(UnderWay') /\ gauge' \in Int
  <2>1. UnderWay' = UnderWay \ {q}
    BY <1>2, <1>4 DEF UnderWay, Gone
  <2>2. Cardinality(UnderWay') = Cardinality(UnderWay) - 1
    BY <1>4, <2>1, UnderWayFinite, CountingDown
  <2> QED
    BY <2>2 DEF Sent, Ends, WorkerInv, GaugesExact
<1>6. Closes(q)
  BY DEF Sent
<1>7. stats' \in [total : Int, closed : Int] /\ GaugesExact'
  BY <1>1, <1>2, <1>4, <1>5, <1>6, Closed DEF GaugesExact
<1> QED
  BY <1>1, <1>2, <1>3, <1>5, <1>7, OthersKept DEF WorkerInv

LEMMA AbortStep == ASSUME WorkerInv, NEW q \in Requests, ClientAborts(q) PROVE WorkerInv'
<1> DEFINE token == IF ctx[q].cancellation = "cancelable" THEN "cancelled" ELSE ctx[q].cancellation
           c == [ctx[q] EXCEPT !.conn = "closed", !.cancellation = token]
<1>1. pc[q] \in {"routing", "executing"} /\ pc' = pc /\ ctx[q].conn = "open" /\ gauge' = gauge /\ Closes(q)
  BY DEF ClientAborts, vars
<1>2. ctx[q] \in Ctx /\ Sound(q, pc[q], ctx[q]) /\ pc[q] \in Phases
  BY DEF WorkerInv
<1>3. Becomes(q, pc[q], c)
  <2>1. ctx' = [ctx EXCEPT ![q] = c]
    BY <1>2 DEF ClientAborts, WorkerInv, Ctx
  <2> QED
    BY <1>1, <2>1 DEF Becomes, WorkerInv
<1>4. c \in Ctx /\ c.conn = "closed" /\ Sound(q, pc[q], c)
  BY <1>1, <1>2 DEF Ctx, Sound, Varies
<1> HIDE DEF c
<1>5. /\ pc'[q] = pc[q] /\ ctx'[q] = c /\ q \in UnderWay /\ UnderWay \subseteq Requests
      /\ \A o \in Requests \ {q} : pc'[o] = pc[o] /\ ctx'[o] = ctx[o]
  BY <1>1, <1>2, <1>3, <1>4, OthersKept DEF UnderWay, Gone
<1>6. UnderWay' = UnderWay
  BY <1>1, <1>5 DEF UnderWay, Gone
<1>7. stats' \in [total : Int, closed : Int] /\ GaugesExact'
  BY <1>1, <1>4, <1>5, <1>6, Closed DEF GaugesExact, WorkerInv
<1> QED
  BY <1>1, <1>2, <1>3, <1>4, <1>7, OthersKept DEF WorkerInv

THEOREM WorkerInvariance == WorkerSpec => []WorkerInv
<1>1. ASSUME WorkerInv, [WorkerNext]_workerVars PROVE WorkerInv'
  <2>1. ASSUME NEW q \in Requests, Worker(q) PROVE WorkerInv'
    BY <1>1, <2>1, ArriveStep, AbandonedStep, LimitedStep, HandlerStep, BodyStep, UnwindStep,
       RespondStep, SentStep, AbortStep DEF Worker
  <2>2. CASE UNCHANGED <<pc, pipeline>>
    <3>1. UnderWay' = UnderWay /\ \A q \in Requests : ctx'[q] = ctx[q]
      BY <2>2 DEF UnderWay, Gone, pipeline
    <3> QED
      BY <1>1, <2>2, <3>1 DEF WorkerInv, GaugesExact, Gone, pipeline
  <2> QED
    BY <1>1, <2>1, <2>2 DEF WorkerNext, workerVars, Tick, vars
<1> QED
  BY <1>1, WorkerInitInv, PTL DEF WorkerSpec

-----------------------------------------------------------------------------
(* Whatever the order in which requests end and connections close, the     *)
(* gauge and the statistics count what is under way.                       *)
THEOREM GaugesCorrect == WorkerSpec => []GaugesExact
<1>1. WorkerInv => GaugesExact
  BY DEF WorkerInv
<1> QED
  BY <1>1, WorkerInvariance, PTL

(* An answer agrees with how its request ended, whatever handlers set.     *)
THEOREM AnswersCorrect == WorkerSpec => []AnswersAgree
<1>1. WorkerInv => AnswersAgree
  BY DEF WorkerInv, AnswersAgree, Sound, Varies, Harmless, Gone, VariesByTokens
<1> QED
  BY <1>1, WorkerInvariance, PTL
=============================================================================
