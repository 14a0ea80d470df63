--------------------------- MODULE MemoizedClient ---------------------------
(***************************************************************************)
(* What lies between a handler and SingleFlight in the chain of an         *)
(* HttpClient: src/src/HttpClient/middlewares/memoization.ts, whose map    *)
(* lives as long as the client, that is one incoming request, and          *)
(* recorder.ts, which collects the metadata of the answers for the         *)
(* response to that request.                                               *)
(*                                                                         *)
(* Every call of SingleFlight is made through here.  A memoized promise is *)
(* named by the call that stored it; the metadata of an answer is its      *)
(* version, and that of a 404 is NotFound.                                 *)
(***************************************************************************)
EXTENDS SingleFlight

CONSTANTS
    Memoizable,     \* locally cacheable calls with config.memoizable
    MemoKeys,
    MemoKeyOf,      \* MemoKeyOf[c]: cacheKey(config)
    IgnoreRecorder  \* calls with config.ignoreRecorder

ASSUME MemoAssumption ==
    /\ Memoizable \subseteq Calls
    /\ MemoKeyOf \in [Calls -> MemoKeys]
    /\ IgnoreRecorder \subseteq Calls

VARIABLES
    stage,          \* stage[c]: "idle", "next", "waiting", "returned"
    memoizedCache,  \* memoizedCache[r][k]: who stored the promise, or NoCall
    memoized,       \* memoized[c]: state of the promise c stored
    result,         \* result[c]: what the handler got
    record          \* record[r]: the recorder of r

memoVars == <<stage, memoizedCache, memoized, result, record>>
allVars == <<vars, memoVars>>

NotFound == -1

-----------------------------------------------------------------------------
Memo(c) == memoizedCache[RequestOf[c]][MemoKeyOf[c]]

MemoTypeOK ==
    /\ TypeOK
    /\ stage \in [Calls -> {"idle", "next", "waiting", "returned"}]
    /\ memoizedCache \in [Requests -> [MemoKeys -> Calls \cup {NoCall}]]
    /\ memoized \in [Calls -> Outcomes \cup {Pending}]
    /\ result \in [Calls -> Outcomes \cup {Pending}]
    /\ record \in [Requests -> SUBSET (Versions \cup {NotFound})]
    /\ \A c \in Calls :
          /\ pc[c] \in {"fetching", "waiting"} => stage[c] = "next"
          /\ stage[c] = "waiting" => Memo(c) # NoCall

MemoInit ==
    /\ Init
    /\ stage = [c \in Calls |-> "idle"]
    /\ memoizedCache = [r \in Requests |-> [k \in MemoKeys |-> NoCall]]
    /\ memoized = [c \in Calls |-> Pending]
    /\ result = [c \in Calls |-> Pending]
    /\ record = [r \in Requests |-> {}]

-----------------------------------------------------------------------------
(* The call goes down the chain, at once up to the fetch or the flight; a  *)
(* memoizable one leaves its promise in the map in the same run.           *)
Descend(c) ==
    /\ stage[c] = "idle"
    /\ c \in Memoizable => Memo(c) = NoCall
    /\ Call(c)
    /\ stage' = [stage EXCEPT ![c] = "next"]
    /\ memoizedCache' = IF c \in Memoizable
                         THEN [memoizedCache EXCEPT ![RequestOf[c]][MemoKeyOf[c]] = c]
                         ELSE memoizedCache
    /\ UNCHANGED <<memoized, result, record>>

Hit(c) ==
    /\ stage[c] = "idle"
    /\ c \in Memoizable
    /\ Memo(c) # NoCall
    /\ stage' = [stage EXCEPT ![c] = "waiting"]
    /\ UNCHANGED <<vars, memoizedCache, memoized, result, record>>

(* Faulty variant: headers are recorded for the call that fetched them.    *)
Record_Leader(c) ==
    IF answer[c].kind = "ok" /\ flight[c] \in {c, NoCall}
    THEN record' = [record EXCEPT ![RequestOf[c]] = @ \cup {answer[c].version}]
    ELSE UNCHANGED record

(* recorderMiddleware: the headers of any response, those of a failure if  *)
(* it is a 404.                                                            *)
Recorded(c, metadata) == record' = [record EXCEPT ![RequestOf[c]] = @ \cup {metadata}]

Record(c) ==
    \/ c \notin IgnoreRecorder /\ answer[c].kind = "ok" /\ Recorded(c, answer[c].version)
    \/ c \notin IgnoreRecorder /\ answer[c] = Failed /\ Recorded(c, NotFound)
    \/ (c \in IgnoreRecorder \/ answer[c].kind # "ok") /\ UNCHANGED record

(* Faulty variant: a failure is forgotten once nobody waits for it.        *)
Ascend_Forgets(c) ==
    /\ stage[c] = "next"
    /\ pc[c] = "done"
    /\ Record(c)
    /\ memoizedCache' = IF answer[c] = Failed /\ \A d \in Calls : stage[d] # "waiting"
                         THEN [memoizedCache EXCEPT ![RequestOf[c]][MemoKeyOf[c]] = NoCall]
                         ELSE memoizedCache
    /\ result' = [result EXCEPT ![c] = answer[c]]
    /\ memoized' = [memoized EXCEPT ![c] = answer[c]]
    /\ stage' = [stage EXCEPT ![c] = "returned"]
    /\ UNCHANGED vars

(* The chain below has returned or thrown.                                 *)
Ascend(c) ==
    /\ stage[c] = "next"
    /\ pc[c] = "done"
    /\ Record(c)
    /\ IF c \in Memoizable
       THEN /\ memoized' = [memoized EXCEPT ![c] = answer[c]]
            /\ stage' = [stage EXCEPT ![c] = "waiting"]
            /\ UNCHANGED result
       ELSE /\ result' = [result EXCEPT ![c] = answer[c]]
            /\ stage' = [stage EXCEPT ![c] = "returned"]
            /\ UNCHANGED memoized
    /\ UNCHANGED <<vars, memoizedCache>>

(* A promise in the map is settled: those that await it run on.            *)
Resume(c) ==
    /\ stage[c] = "waiting"
    /\ memoized[Memo(c)] # Pending
    /\ result' = [result EXCEPT ![c] = memoized[Memo(c)]]
    /\ stage' = [stage EXCEPT ![c] = "returned"]
    /\ UNCHANGED <<vars, memoizedCache, memoized, record>>

Below ==
    /\ \/ \E c \in Calls : Progress(c)
       \/ \E r \in Requests : ClientAborts(r)
       \/ OriginUpdates
    /\ UNCHANGED memoVars

MemoNext ==
    \/ \E c \in Calls : Descend(c) \/ Hit(c) \/ Ascend(c) \/ Resume(c)
    \/ Below

MemoSpec == MemoInit /\ [][MemoNext]_allVars
MemoFairSpec ==
    /\ MemoSpec
    /\ Fairness
    /\ \A c \in Calls : WF_allVars(Ascend(c)) /\ WF_allVars(Resume(c))

-----------------------------------------------------------------------------
(* While it serves one request a handler reads a resource as of one moment *)
(* however many calls it makes, when they overlap or not: the same version *)
(* or the same failure (memoization.ts).                                   *)
RepeatableReads ==
    \A c, d \in Memoizable :
        /\ RequestOf[c] = RequestOf[d] /\ MemoKeyOf[c] = MemoKeyOf[d]
        /\ stage[c] = "returned" /\ stage[d] = "returned"
        => result[c] = result[d]

(* No answer a handler has seen is missing from the metadata of the        *)
(* response, whether the call fetched it, joined a flight of another       *)
(* request or found it memoized, as long as none of the calls that share   *)
(* it asked the recorder to look away.                                     *)
Recordable(c) ==
    \A d \in IgnoreRecorder : RequestOf[d] = RequestOf[c] => MemoKeyOf[d] # MemoKeyOf[c]

EveryAnswerRecorded ==
    \A c \in Calls :
        Recordable(c) /\ stage[c] = "returned" /\ result[c].kind = "ok" =>
            result[c].version \in record[RequestOf[c]]

(* Memoized calls return when the one they wait for does, also by throwing.*)
EveryCallReturns == \A c \in Calls : stage[c] # "idle" ~> stage[c] = "returned"
=============================================================================
