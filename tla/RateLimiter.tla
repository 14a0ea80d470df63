----------------------------- MODULE RateLimiter -----------------------------
(***************************************************************************)
(* The limits of one worker process on incoming requests                   *)
(* (src/src/service/worker/runtime/http/middlewares/rateLimit.ts): a       *)
(* process-wide limit on requests in execution, and per route a limit on   *)
(* requests in execution and a token bucket per minute, whose parent is    *)
(* the bucket shared by the routes and events of the process               *)
(* (runtime/utils/tokenBucket.ts).  The limits are configured per replica, *)
(* but counted by each of its workers, as this module counts them.         *)
(*                                                                         *)
(* Time runs in ticks, Minute of them to a minute.  A bucket's content is  *)
(* kept in credits, Minute to a token, so that one tick earns the rate in  *)
(* credits and the continuous refill of the code (spread: true) is exact.  *)
(***************************************************************************)
EXTENDS Integers, FiniteSets

CONSTANTS
    Requests,           \* incoming requests, each handled once
    Routes,             \* routes and event handlers
    Replica,            \* names the replica-wide bucket
    RouteOf,            \* RouteOf[q]: the route of q
    RouteConcurrent,    \* rateLimitPerReplica.concurrent of a route, 0 for none
    RoutePerMinute,     \* rateLimitPerReplica.perMinute of a route, 0 for none
    Concurrent,         \* rateLimitPerReplica.concurrent of the service, 0 for none
    PerMinute,          \* rateLimitPerReplica.perMinute of the service, 0 for none
    Minute,             \* ticks in a minute
    MaxTime             \* bound on time

ASSUME LimitsAssumption ==
    /\ IsFiniteSet(Requests)
    /\ RouteOf \in [Requests -> Routes]
    /\ Replica \notin Routes
    /\ RouteConcurrent \in [Routes -> Nat]
    /\ RoutePerMinute \in [Routes -> Nat]
    /\ Concurrent \in Nat
    /\ PerMinute \in Nat
    /\ Minute \in Nat \ {0}
    /\ MaxTime \in Nat

VARIABLES
    pc,             \* pc[q]: where the pipeline of q is
    inReplica,      \* reqsInExecution of the replica-wide limiter
    inRoute,        \* reqsInExecution of each route's limiter
    credit,         \* content of the buckets
    now,            \* the clock
    admitted,       \* requests whose handler was started (history)
    spent,          \* tokens taken from each bucket (history)
    mark            \* a moment, and what had been spent by then (history)

vars == <<pc, inReplica, inRoute, credit, now, admitted, spent, mark>>
history == <<admitted, spent, mark>>

-----------------------------------------------------------------------------
Buckets == Routes \cup {Replica}
Rate(b) == IF b = Replica THEN PerMinute ELSE RoutePerMinute[b]

(* Faulty variant: a bucket that holds the whole rate.                     *)
Size_WholeRate(b) == Rate(b)

Size(b) == (Rate(b) + 1) \div 2         \* Math.ceil(rateLimit / 2.0)

(* createTokenBucket: the bucket of a route without a rate is the shared   *)
(* one; a bucket that has a parent takes from it too.  Without any rate    *)
(* the middleware is a no-op.                                              *)
Charged(r) == {b \in {r, Replica} : Rate(b) > 0}

Within(q) == pc[q] \in {"routing", "executing", "leaving", "unwinding"}
InHandler(q) == pc[q] \in {"executing", "leaving"}

TypeOK ==
    /\ pc \in [Requests -> {"new", "routing", "executing", "leaving", "unwinding", "done"}]
    /\ inReplica \in Nat
    /\ inRoute \in [Routes -> Nat]
    /\ credit \in [Buckets -> Nat]
    /\ \A b \in Buckets : credit[b] <= Size(b) * Minute
    /\ now \in 0 .. MaxTime
    /\ admitted \subseteq Requests
    /\ spent \in [Buckets -> Nat]
    /\ mark \in [time : 0 .. MaxTime, spent : [Buckets -> Nat]]

(* A bucket is created full.                                               *)
Init ==
    /\ pc = [q \in Requests |-> "new"]
    /\ inReplica = 0
    /\ inRoute = [r \in Routes |-> 0]
    /\ credit = [b \in Buckets |-> Size(b) * Minute]
    /\ now = 0
    /\ admitted = {}
    /\ spent = [b \in Buckets |-> 0]
    /\ mark = [time |-> 0, spent |-> [b \in Buckets |-> 0]]

-----------------------------------------------------------------------------
(* Faulty variant: one request too many is let in.                         *)
Full_OffByOne(count, limit) == limit > 0 /\ count > limit

(* concurrentRateLimiter: a limit of 0 is the no-op middleware; otherwise  *)
(* the test and the increment run without an await between them.           *)
Full(count, limit) == limit > 0 /\ count >= limit
Up(count, limit) == IF limit > 0 THEN count + 1 ELSE count
Down(count, limit) == IF limit > 0 THEN count - 1 ELSE count

(* A request reaches the replica-wide limiter; when it is full the request *)
(* ends with TooManyRequestsError.                                         *)
Enter(q) ==
    /\ pc[q] = "new"
    /\ IF Full(inReplica, Concurrent)
       THEN /\ pc' = [pc EXCEPT ![q] = "done"]
            /\ UNCHANGED inReplica
       ELSE /\ pc' = [pc EXCEPT ![q] = "routing"]
            /\ inReplica' = Up(inReplica, Concurrent)
    /\ UNCHANGED <<inRoute, credit, now, history>>

(* A middleware before the route's limiters throws, or the request was     *)
(* cancelled and the rest of its pipeline is skipped (utils/cancel.ts).    *)
Abandon(q) ==
    /\ pc[q] = "routing"
    /\ pc' = [pc EXCEPT ![q] = "unwinding"]
    /\ UNCHANGED <<inReplica, inRoute, credit, now, history>>

(* removeTokensSync(1).                                                    *)
Granted(r) == \A b \in Charged(r) : credit[b] >= Minute
Take(r) ==
    /\ credit' = [b \in Buckets |-> IF b \in Charged(r) THEN credit[b] - Minute ELSE credit[b]]
    /\ spent' = [b \in Buckets |-> IF b \in Charged(r) THEN spent[b] + 1 ELSE spent[b]]

(* Faulty variants: the token is taken before the concurrent limiter is    *)
(* asked; the per minute rejection skips the finally of the other limiter. *)
RejectConcurrent_AfterToken(q) ==
    /\ pc[q] = "routing"
    /\ Full(inRoute[RouteOf[q]], RouteConcurrent[RouteOf[q]])
    /\ Granted(RouteOf[q])
    /\ Take(RouteOf[q])
    /\ pc' = [pc EXCEPT ![q] = "unwinding"]
    /\ UNCHANGED <<inReplica, inRoute, now, admitted, mark>>

RejectPerMinute_NoFinally(q) ==
    LET r == RouteOf[q] IN
    /\ pc[q] = "routing"
    /\ ~Full(inRoute[r], RouteConcurrent[r])
    /\ inRoute' = [inRoute EXCEPT ![r] = Up(@, RouteConcurrent[r])]
    /\ ~Granted(r)
    /\ pc' = [pc EXCEPT ![q] = "unwinding"]
    /\ UNCHANGED <<inReplica, credit, now, history>>

(* The route's two limiters, the concurrent one around the other.          *)
RejectConcurrent(q) ==
    /\ pc[q] = "routing"
    /\ Full(inRoute[RouteOf[q]], RouteConcurrent[RouteOf[q]])
    /\ pc' = [pc EXCEPT ![q] = "unwinding"]
    /\ UNCHANGED <<inReplica, inRoute, credit, now, history>>

RejectPerMinute(q) ==
    LET r == RouteOf[q] IN
    /\ pc[q] = "routing"
    /\ ~Full(inRoute[r], RouteConcurrent[r])
    /\ inRoute' = [inRoute EXCEPT ![r] = Up(@, RouteConcurrent[r])]
    /\ ~Granted(r)
    /\ pc' = [pc EXCEPT ![q] = "leaving"]
    /\ UNCHANGED <<inReplica, credit, now, history>>

Admit(q) ==
    LET r == RouteOf[q] IN
    /\ pc[q] = "routing"
    /\ ~Full(inRoute[r], RouteConcurrent[r])
    /\ inRoute' = [inRoute EXCEPT ![r] = Up(@, RouteConcurrent[r])]
    /\ Granted(r)
    /\ Take(r)
    /\ pc' = [pc EXCEPT ![q] = "executing"]
    /\ admitted' = admitted \cup {q}
    /\ UNCHANGED <<inReplica, now, mark>>

(* The handler returns or throws.                                          *)
Finish(q) ==
    /\ pc[q] = "executing"
    /\ pc' = [pc EXCEPT ![q] = "leaving"]
    /\ UNCHANGED <<inReplica, inRoute, credit, now, history>>

(* The finally blocks of the two concurrent limiters.                      *)
LeaveRoute(q) ==
    LET r == RouteOf[q] IN
    /\ pc[q] = "leaving"
    /\ inRoute' = [inRoute EXCEPT ![r] = Down(@, RouteConcurrent[r])]
    /\ pc' = [pc EXCEPT ![q] = "unwinding"]
    /\ UNCHANGED <<inReplica, credit, now, history>>

Leave(q) ==
    /\ pc[q] = "unwinding"
    /\ inReplica' = Down(inReplica, Concurrent)
    /\ pc' = [pc EXCEPT ![q] = "done"]
    /\ UNCHANGED <<inRoute, credit, now, history>>

(* The buckets refill with time, up to their size.                         *)
Refill(b) == IF credit[b] + Rate(b) > Size(b) * Minute THEN Size(b) * Minute
             ELSE credit[b] + Rate(b)
Tick ==
    /\ now < MaxTime
    /\ now' = now + 1
    /\ credit' = [b \in Buckets |-> Refill(b)]
    /\ UNCHANGED <<pc, inReplica, inRoute, history>>

(* An observer starts counting (history only).                             *)
Mark ==
    /\ mark' = [time |-> now, spent |-> spent]
    /\ UNCHANGED <<pc, inReplica, inRoute, credit, now, admitted, spent>>

Pipeline(q) ==
    \/ Enter(q) \/ Abandon(q)
    \/ RejectConcurrent(q) \/ RejectPerMinute(q) \/ Admit(q)
    \/ Finish(q) \/ LeaveRoute(q) \/ Leave(q)

Next == (\E q \in Requests : Pipeline(q)) \/ Tick \/ Mark

Spec == Init /\ [][Next]_vars

-----------------------------------------------------------------------------
Inside == {q \in Requests : Within(q)}
Handling(r) == {q \in Requests : RouteOf[q] = r /\ InHandler(q)}

(* The counters count: whichever way a request ends (rejected at either    *)
(* limiter, failed, abandoned), its slots are given back exactly once.     *)
CountersExact ==
    /\ Concurrent > 0 => inReplica = Cardinality(Inside)
    /\ \A r \in Routes : RouteConcurrent[r] > 0 => inRoute[r] = Cardinality(Handling(r))

(* Never more requests in execution than the limits say.                   *)
LimitsHold ==
    /\ Concurrent > 0 => Cardinality(Inside) <= Concurrent
    /\ \A r \in Routes : RouteConcurrent[r] > 0 => Cardinality(Handling(r)) <= RouteConcurrent[r]

(* A token is paid for each handler that starts, at the route's bucket and *)
(* at its parent, and for nothing else: requests turned away by a          *)
(* concurrent limit or by one of the two buckets cost no token.            *)
TokensForAdmitted ==
    \A b \in Buckets :
        spent[b] = Cardinality({q \in admitted : b \in Charged(RouteOf[q])})

(* Whenever one starts to count, a bucket lets at most its rate and half   *)
(* of it again, what it can hold, through within the next minute.          *)
SpentSinceMark(b) == spent[b] - mark.spent[b]
WithinMinute == now - mark.time <= Minute
MinuteBounded ==
    WithinMinute => \A b \in Buckets : SpentSinceMark(b) <= Rate(b) + (Rate(b) + 1) \div 2
=============================================================================
