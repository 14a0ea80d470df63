------------------------------- MODULE Retry -------------------------------
(***************************************************************************)
(* The bottom of the chain of an HttpClient: requestMiddleware takes one   *)
(* of the client's `concurrency' slots (p-limit) and axios sends the       *)
(* request, again after a backoff while its failures may be retried        *)
(* (exponentialBackoff.ts, src/src/utils/retry.ts).                        *)
(*                                                                         *)
(* A slot is held from the first attempt to the end of the last.  What the *)
(* client gives up on may still be on its way: an attempt the origin has   *)
(* not executed yet when it times out is executed later, or never.         *)
(***************************************************************************)
EXTENDS Integers, Sequences, FiniteSets, SequencesExt

CONSTANTS
    Calls,
    concurrency,    \* of the client; 0 for no limit
    retries,        \* config.retries
    Idempotent,     \* calls whose method is GET, HEAD, OPTIONS, PUT or DELETE
    Cancellable     \* calls with a cancelToken

ASSUME RetryAssumption ==
    /\ IsFiniteSet(Calls)
    /\ {concurrency, retries} \subseteq Nat
    /\ Idempotent \cup Cancellable \subseteq Calls

VARIABLES
    pc,             \* pc[c]: "idle", "queued", "sending", "backoff", "ok", "failed"
    queue,          \* p-limit's queue
    retryCount,     \* config.retryCount
    attempt,        \* attempt[c]: "none", "sent", "executed" by the origin, or
                    \* "stillborn", of a call cancelled before it was sent
    late,           \* late[c]: attempts given up on and not yet executed
    cancelled,      \* calls whose token was cancelled
    executed,       \* executed[c]: how often the origin did what c asks (history)
    lost            \* calls some attempt of which got no answer (history)

vars == <<pc, queue, retryCount, attempt, late, cancelled, executed, lost>>
origin == <<late, executed>>

-----------------------------------------------------------------------------
Active == {c \in Calls : pc[c] \in {"sending", "backoff"}}
Full == concurrency > 0 /\ Cardinality(Active) >= concurrency

TypeOK ==
    /\ pc \in [Calls -> {"idle", "queued", "sending", "backoff", "ok", "failed"}]
    /\ queue \in Seq(Calls) /\ IsInjective(queue)
    /\ ToSet(queue) = {c \in Calls : pc[c] = "queued"}
    /\ retryCount \in [Calls -> 0 .. retries]
    /\ attempt \in [Calls -> {"none", "sent", "executed", "stillborn"}]
    /\ \A c \in Calls : attempt[c] # "none" <=> pc[c] = "sending"
    /\ late \in [Calls -> 0 .. retries + 1]
    /\ cancelled \subseteq Cancellable
    /\ executed \in [Calls -> 0 .. retries + 1]
    /\ lost \subseteq Calls

Init ==
    /\ pc = [c \in Calls |-> "idle"]
    /\ queue = <<>>
    /\ retryCount = [c \in Calls |-> 0]
    /\ attempt = [c \in Calls |-> "none"]
    /\ late = [c \in Calls |-> 0]
    /\ cancelled = {}
    /\ executed = [c \in Calls |-> 0]
    /\ lost = {}

-----------------------------------------------------------------------------
(* http.request, which throws at once when the token was cancelled.        *)
Attempt(c) == IF c \in cancelled THEN "stillborn" ELSE "sent"

(* limit(makeRequest).                                                     *)
Ask(c) ==
    /\ pc[c] = "idle"
    /\ IF Full
       THEN /\ pc' = [pc EXCEPT ![c] = "queued"]
            /\ queue' = Append(queue, c)
            /\ UNCHANGED attempt
       ELSE /\ pc' = [pc EXCEPT ![c] = "sending"]
            /\ attempt' = [attempt EXCEPT ![c] = Attempt(c)]
            /\ UNCHANGED queue
    /\ UNCHANGED <<retryCount, origin, cancelled, lost>>

(* Faulty variant: the slot is not passed on.                              *)
Finish_SlotLost(c, outcome) ==
    /\ pc' = [pc EXCEPT ![c] = outcome]
    /\ attempt' = [attempt EXCEPT ![c] = "none"]
    /\ UNCHANGED queue

(* The promise of c settles; its slot goes to the first in the queue.      *)
Finish(c, outcome) ==
    IF queue = <<>>
    THEN /\ pc' = [pc EXCEPT ![c] = outcome]
         /\ attempt' = [attempt EXCEPT ![c] = "none"]
         /\ UNCHANGED queue
    ELSE LET d == Head(queue) IN
         /\ pc' = [pc EXCEPT ![c] = outcome, ![d] = "sending"]
         /\ attempt' = [attempt EXCEPT ![c] = "none", ![d] = Attempt(d)]
         /\ queue' = Tail(queue)

(* A retry waits for its backoff without giving its slot back.             *)
BackOff(c) ==
    /\ pc' = [pc EXCEPT ![c] = "backoff"]
    /\ retryCount' = [retryCount EXCEPT ![c] = @ + 1]
    /\ attempt' = [attempt EXCEPT ![c] = "none"]
    /\ UNCHANGED queue

(* onResponseError, for an error that isAbortedOrNetworkErrorOrRouterTimeout *)
(* accepts or not.                                                         *)
OnResponseError(c, retryable) ==
    IF retryable /\ retryCount[c] < retries
    THEN BackOff(c)
    ELSE Finish(c, "failed") /\ UNCHANGED retryCount

(* The backoff is over.                                                    *)
SendAgain(c) ==
    /\ pc[c] = "backoff"
    /\ pc' = [pc EXCEPT ![c] = "sending"]
    /\ attempt' = [attempt EXCEPT ![c] = Attempt(c)]
    /\ UNCHANGED <<queue, retryCount, origin, cancelled, lost>>

-----------------------------------------------------------------------------
(* What becomes of an attempt.                                             *)
UnderWay(c) == attempt[c] \in {"sent", "executed"}

(* What the client gives up on unexecuted is out of its hands.             *)
GivenUp(c) == late' = IF attempt[c] = "sent" THEN [late EXCEPT ![c] = @ + 1] ELSE late

Succeeds(c) ==
    /\ attempt[c] = "executed"
    /\ Finish(c, "ok")
    /\ UNCHANGED <<retryCount, origin, cancelled, lost>>

(* Faulty variant: a 5xx is retried whatever the method.                   *)
Refused_AnyMethod(c) ==
    /\ UnderWay(c)
    /\ \E serverError \in BOOLEAN : OnResponseError(c, serverError)
    /\ UNCHANGED <<origin, cancelled, lost>>

(* An answer of another status than 2xx, to a request the origin may have  *)
(* acted on.  A 5xx, a ProxyTimeout among them, is retried if idempotent.  *)
Refused(c) ==
    /\ UnderWay(c)
    /\ \E serverError \in BOOLEAN : OnResponseError(c, serverError /\ c \in Idempotent)
    /\ UNCHANGED <<origin, cancelled, lost>>

(* A timeout (ECONNABORTED) or a network error: no answer, any request is  *)
(* retried, but for the errors of is-retry-allowed if not idempotent.      *)
Unanswered(c) ==
    /\ UnderWay(c)
    /\ \E allowed \in BOOLEAN : OnResponseError(c, allowed \/ c \in Idempotent)
    /\ GivenUp(c)
    /\ lost' = lost \cup {c}
    /\ UNCHANGED <<cancelled, executed>>

(* An axios Cancel has no config: it is not retried.                       *)
Cancelled(c) ==
    /\ c \in cancelled
    /\ attempt[c] # "none"
    /\ Finish(c, "failed")
    /\ GivenUp(c)
    /\ UNCHANGED <<retryCount, cancelled, executed, lost>>

Cancel(c) ==
    /\ c \in Cancellable \ cancelled
    /\ cancelled' = cancelled \cup {c}
    /\ UNCHANGED <<pc, queue, retryCount, attempt, origin, lost>>

(* The origin executes the attempt under way, or one given up on.          *)
Execute(c) ==
    /\ executed' = [executed EXCEPT ![c] = @ + 1]
    /\ UNCHANGED <<pc, queue, retryCount, cancelled, lost>>

OriginExecutes(c) ==
    /\ attempt[c] = "sent"
    /\ attempt' = [attempt EXCEPT ![c] = "executed"]
    /\ Execute(c)
    /\ UNCHANGED late

OriginExecutesLate(c) ==
    /\ late[c] > 0
    /\ late' = [late EXCEPT ![c] = @ - 1]
    /\ Execute(c)
    /\ UNCHANGED attempt

Next == \E c \in Calls :
    \/ Ask(c) \/ SendAgain(c) \/ Cancel(c)
    \/ Succeeds(c) \/ Refused(c) \/ Unanswered(c) \/ Cancelled(c)
    \/ OriginExecutes(c) \/ OriginExecutesLate(c)

(* Every request has a timeout, and the timers of node fire.               *)
Fairness == \A c \in Calls :
    WF_vars(Unanswered(c)) /\ WF_vars(Cancelled(c)) /\ WF_vars(SendAgain(c))

Spec == Init /\ [][Next]_vars
FairSpec == Spec /\ Fairness

-----------------------------------------------------------------------------
(* The slots are never exceeded, by attempts or backoffs, and none is idle *)
(* while a call queues.                                                    *)
SlotsInUse ==
    concurrency > 0 =>
        /\ Cardinality(Active) <= concurrency
        /\ queue # <<>> => Cardinality(Active) = concurrency

(* The origin does what a call asks at most once per attempt, and what a   *)
(* call that is not idempotent asks more than once only when an answer was *)
(* lost: no answer, whatever its status, makes the client repeat a write.  *)
WritesRepeatOnlyUnanswered ==
    \A c \in Calls :
        /\ executed[c] + late[c] <= retryCount[c] + 1
        /\ executed[c] > 1 => c \in Idempotent \cup lost

(* Every call ends, queued behind whatever number of retries.              *)
EveryCallEnds == \A c \in Calls : pc[c] # "idle" ~> pc[c] \in {"ok", "failed"}
=============================================================================
