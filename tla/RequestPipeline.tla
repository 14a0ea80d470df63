---------------------------- MODULE RequestPipeline ----------------------------
(***************************************************************************)
(* An incoming request through the middlewares of a worker, around and     *)
(* below the limiters of RateLimiter: metrics, recorder, routers, context, *)
(* cancellation, statistics, vary, settings, the handlers of the app, and  *)
(* back through cookies, recorder and errors to the answer                 *)
(* (src/src/service/worker/index.ts, runtime/http, runtime/events and      *)
(* runtime/builtIn).  GraphqlService is the pipeline of the GraphQL route. *)
(*                                                                         *)
(* Between two awaits of I/O nothing else runs.  Those of a request are    *)
(* its settings or its body, and what its handler awaits; only there can   *)
(* the abort of its client come in between.                                *)
(***************************************************************************)
EXTENDS RateLimiter
CONSTANTS
    KindOf,             \* of a route: public, private, event, builtin (or there is none)
    Awaits,             \* routes with settings, and events, which await their body
    Smartcache,         \* routes whose clients record metadata
    Forbidden, Always,  \* tokens that the path of a route forbids, and those it varies by
    Reading,            \* requests with method GET; the others have a body, and are not cancelable
    Carries,            \* tokens in the headers of a request
    Styles              \* what a handler may set on its answer
VaryTokens == {"segment", "session"}
CacheControls == {"none", "short", "public", "private"}  \* none set, that of errors, by scope
ASSUME PipelineAssumption ==
    /\ KindOf \in [Routes -> {"public", "private", "event", "builtin"}]
    /\ Awaits \subseteq Routes /\ Smartcache \subseteq Routes /\ Reading \subseteq Requests
    /\ \A r \in Routes : KindOf[r] = "event" => r \in Awaits
    /\ \A r \in Routes : KindOf[r] = "builtin" => r \notin Awaits \cup Smartcache
    /\ Forbidden \in [Routes -> SUBSET VaryTokens] /\ Always \in [Routes -> SUBSET VaryTokens]
    /\ Carries \in [Requests -> SUBSET VaryTokens]
    /\ Styles \subseteq [cache : CacheControls, etag : BOOLEAN, meta : BOOLEAN, cookie : BOOLEAN]

VARIABLES
    ctx,                \* what a request's ctx holds, while it or its answer is under way
    gauge,              \* io_http_requests_current
    stats               \* incomingRequestStats
pipeline == <<ctx, gauge, stats>>
workerVars == <<vars, pipeline>>

Kind(q) == KindOf[RouteOf[q]]
Tracked(q) == Kind(q) \in {"public", "private"}
Blank(conn) ==
    [conn |-> conn, tracked |-> FALSE, cancellation |-> "none", recorded |-> FALSE, thrown |-> "none",
     vary |-> {}, cache |-> "none", etag |-> FALSE, meta |-> FALSE, cookie |-> FALSE]
Cancelled(q) == ctx[q].cancellation = "cancelled"
Gone(q) == ctx[q].conn = "closed"

WorkerInit ==
    /\ Init
    /\ ctx = [q \in Requests |-> Blank("none")]
    /\ gauge = 0
    /\ stats = [total |-> 0, closed |-> 0]

-----------------------------------------------------------------------------
(* vary, for reads: by the tokens still in the headers and those its path  *)
(* is known for.                                                           *)
Vary(q) ==
    IF Tracked(q) /\ q \in Reading THEN Always[RouteOf[q]] \cup (Carries[q] \ Forbidden[RouteOf[q]]) ELSE {}

(* The middlewares before the first await: the request is counted, enters  *)
(* the process's limiter or is rejected, gets its recorder and its route,  *)
(* and there its context, its token, its statistics and its vary.          *)
Arrive(q) ==
    /\ Enter(q)
    /\ gauge' = gauge + 1
    /\ IF pc'[q] = "done"
       THEN ctx' = [ctx EXCEPT ![q] = Blank("open")] /\ UNCHANGED stats
       ELSE /\ ctx' = [ctx EXCEPT ![q] = [Blank("open") EXCEPT
                 !.tracked = Tracked(q), !.vary = Vary(q),
                 !.cancellation = IF Tracked(q) /\ q \in Reading THEN "cancelable" ELSE "none"]]
            /\ stats' = IF Tracked(q) THEN [stats EXCEPT !.total = @ + 1] ELSE stats

-----------------------------------------------------------------------------
(* The way back of the headers, which nothing interrupts.  removeSetCookie *)
(* and the recorder's flush come after an await, which an error skips.     *)
RemoveSetCookie(q, c) == c.cookie /\ ~(Kind(q) = "public" /\ c.cache = "public")
Flush(c) == c.meta \/ c.recorded
Returned(q, c) == [c EXCEPT !.cookie = RemoveSetCookie(q, c), !.meta = Flush(c)]
(* error: a request limited or cancelled only gets its status.  The error  *)
(* of a handler without context makes this one fail, and koa answers.      *)
(* Faulty variant: what the handler said of its answer stays.              *)
Failed_Kept(q, c) == [c EXCEPT !.cache = "short"]
Failed(q, c) ==
    IF Kind(q) = "builtin" THEN [Blank(c.conn) EXCEPT !.thrown = "error"]
    ELSE [c EXCEPT !.etag = FALSE, !.meta = FALSE, !.recorded = FALSE, !.cache = "short"]
Answer(q, c) ==
    CASE c.thrown = "none" -> Returned(q, c)
      [] c.thrown = "error" -> Failed(q, c)
      [] OTHER -> c
Answers(q, c) == ctx' = [ctx EXCEPT ![q] = Answer(q, c)] /\ UNCHANGED <<gauge, stats>>
Thrown(q, outcomes) ==
    {[ctx[q] EXCEPT !.thrown = o] : o \in outcomes \cup (IF Cancelled(q) THEN {"cancelled"} ELSE {})}

(* No route takes the request, or none for its handler id.                 *)
Unrouted(q) == Kind(q) = "builtin" /\ Abandon(q) /\ Answers(q, ctx[q])
(* A built-in handler answers, or fails.                                   *)
BuiltIn(q) ==
    /\ Kind(q) = "builtin" /\ Abandon(q)
    /\ \E c \in Thrown(q, {"none", "error"}) : Answers(q, [c EXCEPT !.cache = "public"])
(* The await of settings fails, with the error of a cancelled call if the  *)
(* client has left; a body that cannot be read is answered on the spot.    *)
Unreadable(q) == IF Kind(q) = "event" THEN {"none"} ELSE {}
AwaitFails(q) ==
    /\ RouteOf[q] \in Awaits /\ Abandon(q)
    /\ \E c \in Thrown(q, {"error"} \cup Unreadable(q)) : Answers(q, c)

(* compose wraps each middleware in cancel: those after the one under way  *)
(* when the request was cancelled do nothing.                              *)
Skip(q) == Cancelled(q) /\ Abandon(q) /\ Answers(q, ctx[q])
TurnAway(q) ==
    /\ Kind(q) # "builtin" /\ ~Cancelled(q)
    /\ \/ RejectConcurrent(q) /\ Answers(q, [ctx[q] EXCEPT !.thrown = "limit"])
       \/ /\ RejectPerMinute(q)
          /\ ctx' = [ctx EXCEPT ![q].thrown = "limit"] /\ UNCHANGED <<gauge, stats>>
Start(q) ==
    /\ Kind(q) # "builtin" /\ ~Cancelled(q)
    /\ Admit(q)
    /\ UNCHANGED pipeline

(* The handler reads something with a client, whose metadata the recorder  *)
(* gets, or writes, which ends the request's being cancelable.             *)
Read(q) ==
    /\ pc[q] = "executing" /\ ~Cancelled(q) /\ RouteOf[q] \in Smartcache
    /\ ctx' = [ctx EXCEPT ![q].recorded = TRUE]
    /\ UNCHANGED <<vars, gauge, stats>>
Write(q) ==
    /\ pc[q] = "executing" /\ ctx[q].cancellation = "cancelable"
    /\ ctx' = [ctx EXCEPT ![q].cancellation = "spent"]
    /\ UNCHANGED <<vars, gauge, stats>>
(* It takes the body of a request, which Node then closes.                 *)
Closes(q) == stats' = [stats EXCEPT !.closed = IF ctx[q].tracked THEN @ + 1 ELSE @]
TakeBody(q) ==
    /\ pc[q] = "executing" /\ q \notin Reading
    /\ ctx[q].tracked /\ ~Gone(q)
    /\ Closes(q)
    /\ ctx' = [ctx EXCEPT ![q].tracked = FALSE]
    /\ UNCHANGED <<vars, gauge>>
(* It ends, having set some headers.                                       *)
HandlerEnds(q) ==
    /\ Finish(q)
    /\ \E c \in Thrown(q, {"none", "error"}), style \in Styles :
         ctx' = [ctx EXCEPT ![q] = [c EXCEPT !.cache = style.cache, !.etag = style.etag,
                                             !.meta = style.meta, !.cookie = style.cookie]]
    /\ UNCHANGED <<gauge, stats>>
Unwind(q) == LeaveRoute(q) /\ Answers(q, ctx[q])

(* The gauge goes down when the response is closed: at once if it is.      *)
(* Faulty variant: it goes down when the pipeline ends, too.               *)
Finished_AtOnce(q) == gauge - 1
Finished(q) == IF Gone(q) THEN gauge - 1 ELSE gauge
Respond(q) ==
    /\ Leave(q)
    /\ gauge' = Finished(q)
    /\ ctx' = [ctx EXCEPT ![q] = [Blank(ctx[q].conn) EXCEPT !.tracked = ctx[q].tracked /\ ~Gone(q)]]
    /\ UNCHANGED stats

-----------------------------------------------------------------------------
(* The connection of a request ends: its answer was sent, or its client    *)
(* left, which cancels its calls if it still may.                          *)
Ends(q) == ctx' = [ctx EXCEPT ![q] = Blank("closed")] /\ gauge' = gauge - 1
Sent(q) ==
    /\ pc[q] = "done" /\ ctx[q].conn = "open"
    /\ Ends(q) /\ Closes(q)
    /\ UNCHANGED vars
ClientAborts(q) ==
    /\ \/ pc[q] = "routing" /\ RouteOf[q] \in Awaits
       \/ pc[q] = "executing"
    /\ ctx[q].conn = "open"
    /\ ctx' = [ctx EXCEPT ![q].conn = "closed",
                          ![q].cancellation = IF @ = "cancelable" THEN "cancelled" ELSE @]
    /\ Closes(q)
    /\ UNCHANGED <<vars, gauge>>

Worker(q) ==
    \/ Arrive(q) \/ Unrouted(q) \/ BuiltIn(q) \/ AwaitFails(q) \/ Skip(q) \/ TurnAway(q) \/ Start(q)
    \/ Read(q) \/ Write(q) \/ TakeBody(q) \/ HandlerEnds(q) \/ Unwind(q) \/ Respond(q)
    \/ Sent(q) \/ ClientAborts(q)
(* A request that awaits nothing runs on.  Who counts tokens here counts   *)
(* from the start (no Mark).                                               *)
Waits(q) == pc[q] \in {"new", "executing", "done"} \/ (pc[q] = "routing" /\ RouteOf[q] \in Awaits)
Running == {q \in Requests : ~Waits(q)}
WorkerNext ==
    \/ \E q \in Requests : Running \subseteq {q} /\ Worker(q)
    \/ Running = {} /\ Tick /\ UNCHANGED pipeline
WorkerSpec == WorkerInit /\ [][WorkerNext]_workerVars

-----------------------------------------------------------------------------
(* Metrics of what is under way come back to nothing, in whatever order a  *)
(* request ends and its connection closes: the gauge counts the requests   *)
(* whose handling or answer is not over, the difference of the statistics  *)
(* those that got to a route and are not closed.                           *)
UnderWay == {q \in Requests : pc[q] # "new" /\ (pc[q] # "done" \/ ~Gone(q))}
GaugesExact ==
    /\ gauge = Cardinality(UnderWay)
    /\ stats.total - stats.closed = Cardinality({q \in UnderWay : ctx[q].tracked /\ ~Gone(q)})

(* An answer agrees with how its request ended.  It names the metadata of  *)
(* all it was made of; an error has neither metadata nor etag of an answer *)
(* and is kept for a moment only; a read of a route varies by every token  *)
(* it carried that its path does not forbid (and no handler gets from the  *)
(* headers); a public answer sets no cookie that tells customers apart,    *)
(* unless it is an error.                                                  *)
MetadataAgrees(c) ==
    /\ c.thrown = "none" /\ c.recorded => c.meta
    /\ c.thrown = "error" => ~c.meta /\ ~c.etag /\ c.cache \in {"short", "none"}
VariesByTokens(q) == ctx[q].tracked /\ q \in Reading => Carries[q] \subseteq ctx[q].vary \cup Forbidden[RouteOf[q]]
AnswersAgree ==
    \A q \in Requests : pc[q] = "unwinding" /\ ~Gone(q) =>
        /\ MetadataAgrees(ctx[q]) /\ VariesByTokens(q)
        /\ Kind(q) = "public" /\ ctx[q].cookie => ctx[q].cache # "public"
=============================================================================
