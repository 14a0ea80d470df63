----------------------------- MODULE SingleFlight -----------------------------
(***************************************************************************)
(* The outgoing calls of an HttpClient between the cancellationToken and   *)
(* singleFlight middlewares: src/src/HttpClient/middlewares/inflight.ts    *)
(* and cancellationToken.ts, with the incoming request that owns a call    *)
(* and may be aborted by its client (requestStats.ts).                     *)
(*                                                                         *)
(* `inflight' is the map of inflight.ts; it lives in the module, so calls  *)
(* of different incoming requests meet in it.  Its values are promises; a  *)
(* promise is named here by the call that created it, its leader, and      *)
(* promise[c] is its state.  Everything below singleFlight in the chain    *)
(* (caches, retries, the network) is one fetch that reads the origin at    *)
(* some moment and succeeds, fails or is aborted through its cancel token. *)
(***************************************************************************)
EXTENDS Integers

CONSTANTS
    Calls,          \* calls the service's handlers make, each made at most once
    Requests,       \* incoming requests
    Keys,           \* values of inflightKey(config)
    NoKey,          \* the call has no inflightKey
    NoCall,         \* no promise under this key
    RequestOf,      \* RequestOf[c]: the incoming request that makes c
    KeyOf,          \* KeyOf[c]: its inflight key, or NoKey
    Safe,           \* calls whose method is in cancellableMethods
    Cancellable,    \* requests given a cancellation by the runtime's middleware
    MaxVersion      \* bound on the origin's updates

ASSUME CallsAssumption ==
    /\ RequestOf \in [Calls -> Requests]
    /\ KeyOf \in [Calls -> Keys \cup {NoKey}]
    /\ NoKey \notin Keys
    /\ NoCall \notin Calls
    /\ Safe \subseteq Calls
    /\ Cancellable \subseteq Requests
    /\ MaxVersion \in Nat

VARIABLES
    pc,             \* pc[c]: "idle", "fetching", "waiting" on a promise, "done"
    flight,         \* flight[c]: the leader whose promise c awaits, or NoCall
    token,          \* calls whose config carries a cancelToken
    inflight,       \* the map: key -> leader of the promise stored under it
    promise,        \* promise[c]: state of the promise that leader c created
    answer,         \* answer[c]: what c returned or threw
    fetched,        \* fetched[c]: what the origin gave the fetch of c so far
    cancelable,     \* requests whose cancellation.cancelable is true
    cancelled,      \* requests whose cancellation source was cancelled
    version         \* version of the data at the origin

flightVars == <<pc, flight, token, inflight, promise, answer, fetched>>
cancelVars == <<cancelable, cancelled>>
vars == <<flightVars, cancelVars, version>>

-----------------------------------------------------------------------------
Pending   == [kind |-> "pending", version |-> 0]
Failed    == [kind |-> "error", version |-> 0]
Aborted   == [kind |-> "cancelled", version |-> 0]
Value(v)  == [kind |-> "ok", version |-> v]

Versions  == 0 .. MaxVersion
Outcomes  == {Value(v) : v \in Versions} \cup {Failed, Aborted}

TypeOK ==
    /\ pc \in [Calls -> {"idle", "fetching", "waiting", "done"}]
    /\ flight \in [Calls -> Calls \cup {NoCall}]
    /\ token \subseteq Calls
    /\ inflight \in [Keys -> Calls \cup {NoCall}]
    /\ promise \in [Calls -> Outcomes \cup {Pending}]
    /\ answer \in [Calls -> Outcomes \cup {Pending}]
    /\ fetched \in [Calls -> Outcomes \cup {Pending}]
    /\ cancelable \subseteq Requests
    /\ cancelled \subseteq Requests
    /\ version \in Versions
    /\ \A c \in Calls : answer[c] # Pending <=> pc[c] = "done"

Init ==
    /\ pc = [c \in Calls |-> "idle"]
    /\ flight = [c \in Calls |-> NoCall]
    /\ token = {}
    /\ inflight = [k \in Keys |-> NoCall]
    /\ promise = [c \in Calls |-> Pending]
    /\ answer = [c \in Calls |-> Pending]
    /\ fetched = [c \in Calls |-> Pending]
    /\ cancelable = Cancellable
    /\ cancelled = {}
    /\ version = 0

-----------------------------------------------------------------------------
(* Faulty variant: an unsafe call only goes without a token itself.        *)
AskCancellation_OwnTokenOnly(c) == UNCHANGED cancelable

(* cancellationToken, up to next(): an unsafe method makes the whole       *)
(* incoming request uncancellable; only a call of a still cancellable      *)
(* request is given a token.                                               *)
AskCancellation(c) ==
    cancelable' = IF c \in Safe THEN cancelable ELSE cancelable \ {RequestOf[c]}

GivenToken(c) == RequestOf[c] \in cancelable'

(* No inflightKey: the call keeps its token and goes straight to next().   *)
Solo(c) ==
    /\ KeyOf[c] = NoKey
    /\ pc' = [pc EXCEPT ![c] = "fetching"]
    /\ token' = IF GivenToken(c) THEN token \cup {c} ELSE token
    /\ UNCHANGED <<flight, inflight>>

(* Faulty variant: calls on a flight keep the token they were given.       *)
DropToken_Kept(c) == token' = IF GivenToken(c) THEN token \cup {c} ELSE token

(* The token is dropped whatever role the call takes in the flight.        *)
DropToken(c) == token' = token \ {c}

(* Faulty variant: the map is not consulted before a promise is stored.    *)
Lead_Unchecked(c) ==
    /\ KeyOf[c] # NoKey
    /\ inflight' = [inflight EXCEPT ![KeyOf[c]] = c]
    /\ flight' = [flight EXCEPT ![c] = c]
    /\ pc' = [pc EXCEPT ![c] = "fetching"]
    /\ DropToken(c)

Lead(c) ==
    /\ KeyOf[c] # NoKey
    /\ inflight[KeyOf[c]] = NoCall
    /\ inflight' = [inflight EXCEPT ![KeyOf[c]] = c]
    /\ flight' = [flight EXCEPT ![c] = c]
    /\ pc' = [pc EXCEPT ![c] = "fetching"]
    /\ DropToken(c)

Follow(c) ==
    /\ KeyOf[c] # NoKey
    /\ inflight[KeyOf[c]] # NoCall
    /\ flight' = [flight EXCEPT ![c] = inflight[KeyOf[c]]]
    /\ pc' = [pc EXCEPT ![c] = "waiting"]
    /\ DropToken(c)
    /\ UNCHANGED inflight

(* A handler makes the call.  Up to its first await it runs to completion. *)
Call(c) ==
    /\ pc[c] = "idle"
    /\ AskCancellation(c)
    /\ Solo(c) \/ Lead(c) \/ Follow(c)
    /\ UNCHANGED <<promise, answer, fetched, cancelled, version>>

-----------------------------------------------------------------------------
(* The fetch below singleFlight.                                           *)
OriginAnswers(c) ==
    /\ pc[c] = "fetching"
    /\ fetched[c] = Pending
    /\ fetched' = [fetched EXCEPT ![c] = Value(version)]
    /\ UNCHANGED <<pc, flight, token, inflight, promise, answer, cancelVars, version>>

FetchFails(c) ==
    /\ pc[c] = "fetching"
    /\ fetched[c].kind \in {"pending", "ok"}
    /\ fetched' = [fetched EXCEPT ![c] = Failed]
    /\ UNCHANGED <<pc, flight, token, inflight, promise, answer, cancelVars, version>>

FetchAborted(c) ==
    /\ pc[c] = "fetching"
    /\ c \in token
    /\ RequestOf[c] \in cancelled
    /\ fetched[c].kind \in {"pending", "ok"}
    /\ fetched' = [fetched EXCEPT ![c] = Aborted]
    /\ UNCHANGED <<pc, flight, token, inflight, promise, answer, cancelVars, version>>

OriginUpdates ==
    /\ version < MaxVersion
    /\ version' = version + 1
    /\ UNCHANGED <<flightVars, cancelVars>>

-----------------------------------------------------------------------------
(* Faulty variants: a key deleted only when the fetch succeeds; a failure  *)
(* that does not reject the promise.                                       *)
Settle_DeleteOnSuccess(c) ==
    /\ pc[c] = "fetching"
    /\ flight[c] = c
    /\ fetched[c] # Pending
    /\ promise' = [promise EXCEPT ![c] = fetched[c]]
    /\ inflight' = IF fetched[c] = Failed THEN inflight
                    ELSE [inflight EXCEPT ![KeyOf[c]] = NoCall]
    /\ pc' = [pc EXCEPT ![c] = "waiting"]
    /\ UNCHANGED <<flight, token, answer, fetched, cancelVars, version>>

Settle_NoReject(c) ==
    /\ pc[c] = "fetching"
    /\ flight[c] = c
    /\ fetched[c] # Pending
    /\ promise' = IF fetched[c] = Failed THEN promise
                   ELSE [promise EXCEPT ![c] = fetched[c]]
    /\ inflight' = [inflight EXCEPT ![KeyOf[c]] = NoCall]
    /\ pc' = [pc EXCEPT ![c] = "waiting"]
    /\ UNCHANGED <<flight, token, answer, fetched, cancelVars, version>>

(* next() is over: a solo call returns, a leader resolves or rejects its   *)
(* promise and, in the same run, deletes the key from the map.             *)
SoloReturns(c) ==
    /\ pc[c] = "fetching"
    /\ flight[c] = NoCall
    /\ fetched[c] # Pending
    /\ pc' = [pc EXCEPT ![c] = "done"]
    /\ answer' = [answer EXCEPT ![c] = fetched[c]]
    /\ UNCHANGED <<flight, token, inflight, promise, fetched, cancelVars, version>>

Settle(c) ==
    /\ pc[c] = "fetching"
    /\ flight[c] = c
    /\ fetched[c] # Pending
    /\ promise' = [promise EXCEPT ![c] = fetched[c]]
    /\ inflight' = [inflight EXCEPT ![KeyOf[c]] = NoCall]
    /\ pc' = [pc EXCEPT ![c] = "waiting"]
    /\ UNCHANGED <<flight, token, answer, fetched, cancelVars, version>>

(* A call awaiting a promise, its own or its leader's, runs on.            *)
Return(c) ==
    /\ pc[c] = "waiting"
    /\ promise[flight[c]] # Pending
    /\ pc' = [pc EXCEPT ![c] = "done"]
    /\ answer' = [answer EXCEPT ![c] = promise[flight[c]]]
    /\ UNCHANGED <<flight, token, inflight, promise, fetched, cancelVars, version>>

(* The client of r goes away: requestAborted.                              *)
ClientAborts(r) ==
    /\ r \in cancelable
    /\ r \notin cancelled
    /\ cancelled' = cancelled \cup {r}
    /\ UNCHANGED <<flightVars, cancelable, version>>

-----------------------------------------------------------------------------
Progress(c) ==
    \/ OriginAnswers(c) \/ FetchFails(c) \/ FetchAborted(c)
    \/ SoloReturns(c) \/ Settle(c) \/ Return(c)

Next ==
    \/ \E c \in Calls : Call(c) \/ Progress(c)
    \/ \E r \in Requests : ClientAborts(r)
    \/ OriginUpdates

(* A fetch ends, at the latest by its timeout, and the event loop runs     *)
(* every settled continuation.  Nobody is obliged to make a call, to go    *)
(* away or to update the origin.                                           *)
Fairness ==
    \A c \in Calls :
        /\ WF_vars(OriginAnswers(c) \/ FetchFails(c))
        /\ WF_vars(SoloReturns(c))
        /\ WF_vars(Settle(c))
        /\ WF_vars(Return(c))

Spec == Init /\ [][Next]_vars

-----------------------------------------------------------------------------
(* A key is fetched by one call at a time, whatever incoming requests the  *)
(* calls belong to (inflight.ts: the has/set pair around the promise).     *)
OneFlightPerKey ==
    \A c, d \in Calls :
        /\ flight[c] = c /\ pc[c] = "fetching"
        /\ flight[d] = d /\ pc[d] = "fetching"
        /\ KeyOf[c] = KeyOf[d]
        => c = d

(* "We cannot allow single flight requests to cancel any request": a call  *)
(* sees a cancellation only if its own incoming request was aborted and    *)
(* the call shares its fetch with nobody.                                  *)
CancellationStaysHome ==
    \A c \in Calls :
        answer[c] = Aborted =>
            /\ RequestOf[c] \in cancelled
            /\ KeyOf[c] = NoKey
            /\ c \in Safe

(* Once a handler has issued a call with an unsafe method, the abort of    *)
(* its incoming request cancels nothing any more: the calls after a write  *)
(* run to their end (cancellation.cancelable = false).                     *)
NoCancelAfterWrite ==
    [][\A r \in cancelled' \ cancelled :
         \A c \in Calls \ Safe : RequestOf[c] = r => pc[c] = "idle"]_vars

(* Flights of the code are flights of FlightTable: a call boards a flight  *)
(* in the air or opens one, and a settling promise lands the flight: all   *)
(* on board get its outcome and nobody boards it afterwards, also when the *)
(* fetch failed.                                                           *)
Aboard == [k \in Keys |-> {c \in Calls : inflight[k] # NoCall /\ flight[c] = inflight[k]}]
Verdict == [c \in Calls |-> IF flight[c] = NoCall THEN Pending ELSE promise[flight[c]]]

Table == INSTANCE FlightTable WITH
    aboard <- Aboard, verdict <- Verdict, Undecided <- Pending

Coalesces == Table!Spec
=============================================================================
