------------------------- MODULE MemoizedClientProofs -------------------------
(***************************************************************************)
(* What SingleFlight.tla and MemoizedClient.tla guarantee for any number   *)
(* of calls, incoming requests and keys.  For the flights, everything      *)
(* follows from one inductive invariant, IInv, that ties the map of        *)
(* promises to the calls that lead and follow.  The memoization and the    *)
(* recorder only watch the calls below, so all of it holds of a memoized   *)
(* client too.                                                             *)
(***************************************************************************)
EXTENDS MemoizedClient, TLAPS

(* The map holds exactly the promises of the calls that lead a fetch.      *)
MapInv ==
    /\ \A k \in Keys : inflight[k] # NoCall =>
          /\ pc[inflight[k]] = "fetching"
          /\ flight[inflight[k]] = inflight[k]
          /\ KeyOf[inflight[k]] = k
    /\ \A c \in Calls : pc[c] = "fetching" /\ flight[c] = c =>
          KeyOf[c] \in Keys /\ inflight[KeyOf[c]] = c

(* Whoever is on a flight has a key, its leader leads itself, and an       *)
(* unsettled promise is one whose leader is still fetching.                *)
FlightInv ==
    \A c \in Calls : flight[c] # NoCall =>
        /\ KeyOf[c] # NoKey
        /\ flight[flight[c]] = flight[c]
        /\ promise[flight[c]] = Pending => pc[flight[c]] = "fetching"

CallInv ==
    \A c \in Calls :
        /\ pc[c] = "idle" => flight[c] = NoCall
        /\ pc[c] \in {"idle", "fetching"} => promise[c] = Pending
        /\ pc[c] = "fetching" => flight[c] \in {c, NoCall}
        /\ pc[c] = "waiting" => flight[c] # NoCall

(* Tokens, and so aborts, are for safe calls without a key.                *)
AbortInv ==
    \A c \in Calls :
        /\ c \in token => KeyOf[c] = NoKey /\ c \in Safe /\ pc[c] # "idle"
        /\ fetched[c] = Aborted => c \in token /\ RequestOf[c] \in cancelled
        /\ promise[c] # Aborted
        /\ answer[c] = Aborted => c \in token /\ RequestOf[c] \in cancelled

(* A request that has issued an unsafe call is not cancellable.            *)
WriteInv ==
    \A c \in Calls \ Safe : pc[c] # "idle" => RequestOf[c] \notin cancelable

IInv == TypeOK /\ MapInv /\ FlightInv /\ CallInv /\ AbortInv /\ WriteInv

-----------------------------------------------------------------------------
(* The outcomes of a fetch are told apart by their kind.                   *)
LEMMA OutcomeKinds ==
    /\ Pending \notin Outcomes
    /\ Failed # Aborted /\ Pending # Aborted /\ Pending # Failed
    /\ \A v \in Versions : Value(v) \in Outcomes /\ Value(v) # Aborted
    /\ Failed \in Outcomes /\ Aborted \in Outcomes
    /\ \A o \in Outcomes \cup {Pending} : o.kind \in {"pending", "ok"} => o # Aborted /\ o # Failed
<1>1. Failed # Aborted /\ Pending # Aborted /\ Pending # Failed
  BY Failed.kind = "error", Aborted.kind = "cancelled", Pending.kind = "pending"
     DEF Pending, Failed, Aborted
<1>2. \A v : Value(v) # Aborted /\ Value(v) # Failed /\ Value(v) # Pending
  <2> TAKE v
  <2>1. Value(v).kind = "ok" /\ Aborted.kind = "cancelled" /\ Failed.kind = "error" /\ Pending.kind = "pending"
    BY DEF Value, Aborted, Failed, Pending
  <2> QED
    BY <2>1
<1>3. Aborted.kind = "cancelled" /\ Failed.kind = "error"
  BY DEF Aborted, Failed
<1> QED
  BY <1>1, <1>2, <1>3 DEF Outcomes

LEMMA InitIInv == Init => IInv
<1> SUFFICES ASSUME Init PROVE IInv
  OBVIOUS
<1>1. TypeOK
  BY CallsAssumption DEF Init, TypeOK, Versions
<1>2. MapInv /\ FlightInv /\ CallInv
  BY CallsAssumption DEF Init, MapInv, FlightInv, CallInv
<1>3. AbortInv /\ WriteInv
  BY OutcomeKinds DEF Init, AbortInv, WriteInv
<1> QED
  BY <1>1, <1>2, <1>3 DEF IInv

LEMMA CallPreserves ==
    ASSUME IInv, NEW c \in Calls, Call(c)
    PROVE  IInv'
<1> USE CallsAssumption DEF IInv
<1>0. /\ pc[c] = "idle" /\ pc' = [pc EXCEPT ![c] = pc'[c]]
      /\ pc'[c] \in {"fetching", "waiting"}
      /\ flight[c] = NoCall /\ promise[c] = Pending
      /\ promise' = promise /\ answer' = answer /\ fetched' = fetched
      /\ cancelled' = cancelled /\ version' = version
  BY DEF Call, Solo, Lead, Follow, CallInv, TypeOK
<1>t. /\ token' \subseteq token \cup {c} /\ token \ {c} \subseteq token'
      /\ c \in token' => KeyOf[c] = NoKey /\ c \in Safe
  BY DEF Call, Solo, Lead, Follow, DropToken, GivenToken, AskCancellation, AbortInv, TypeOK
<1>1. TypeOK'
  <2>1. flight' \in [Calls -> Calls \cup {NoCall}] /\ inflight' \in [Keys -> Calls \cup {NoCall}]
    BY DEF Call, Solo, Lead, Follow, TypeOK
  <2>2. cancelable' \subseteq Requests
    BY DEF Call, AskCancellation, TypeOK
  <2>3. pc' \in [Calls -> {"idle", "fetching", "waiting", "done"}]
    BY <1>0 DEF TypeOK
  <2>4. \A d \in Calls : answer'[d] # Pending <=> pc'[d] = "done"
    BY <1>0 DEF TypeOK
  <2> QED
    BY <1>0, <1>t, <2>1, <2>2, <2>3, <2>4 DEF TypeOK
<1>2. MapInv' /\ FlightInv' /\ CallInv'
  <2>1. CASE Solo(c)
    BY <1>0, <2>1 DEF Solo, MapInv, FlightInv, CallInv, TypeOK
  <2>2. CASE Lead(c)
    BY <1>0, <2>2 DEF Lead, MapInv, FlightInv, CallInv, TypeOK
  <2>3. CASE Follow(c)
    BY <1>0, <2>3 DEF Follow, MapInv, FlightInv, CallInv, TypeOK
  <2> QED
    BY <2>1, <2>2, <2>3 DEF Call
<1>3. AbortInv'
  <2>1. \A d \in Calls : pc'[d] # "idle" <=> d = c \/ pc[d] # "idle"
    BY <1>0 DEF TypeOK
  <2>2. c \notin token
    BY <1>0 DEF AbortInv
  <2>3. \A d \in Calls : d \in token' => KeyOf[d] = NoKey /\ d \in Safe /\ pc'[d] # "idle"
    BY <1>t, <2>1 DEF AbortInv
  <2>4. \A d \in Calls : d \in token => d \in token'
    BY <1>t, <2>2
  <2> QED
    BY <1>0, <2>3, <2>4 DEF AbortInv
<1>4. WriteInv'
  BY <1>0 DEF Call, AskCancellation, WriteInv, TypeOK
<1> QED
  BY <1>1, <1>2, <1>3, <1>4

(* The three ways in which a fetch comes to its result.                    *)
LEMMA FetchPreserves ==
    ASSUME IInv, NEW c \in Calls, OriginAnswers(c) \/ FetchFails(c) \/ FetchAborted(c)
    PROVE  IInv'
<1> USE CallsAssumption DEF IInv
<1>0. /\ UNCHANGED <<pc, flight, token, inflight, promise, answer, cancelVars, version>>
      /\ \E o \in Outcomes :
            /\ fetched' = [fetched EXCEPT ![c] = o]
            /\ o = Aborted => c \in token /\ RequestOf[c] \in cancelled
  BY OutcomeKinds DEF OriginAnswers, FetchFails, FetchAborted, TypeOK
<1>1. TypeOK'
  BY <1>0 DEF TypeOK, cancelVars
<1>2. MapInv' /\ FlightInv' /\ CallInv' /\ WriteInv'
  BY <1>0 DEF MapInv, FlightInv, CallInv, WriteInv, cancelVars
<1>3. AbortInv'
  BY <1>0 DEF AbortInv, cancelVars, TypeOK
<1> QED
  BY <1>1, <1>2, <1>3

LEMMA SoloReturnsPreserves ==
    ASSUME IInv, NEW c \in Calls, SoloReturns(c)
    PROVE  IInv'
<1> USE CallsAssumption DEF IInv, SoloReturns, cancelVars
<1>1. TypeOK'
  BY DEF TypeOK
<1>2. MapInv' /\ FlightInv' /\ CallInv'
  BY DEF MapInv, FlightInv, CallInv, TypeOK
<1>3. AbortInv' /\ WriteInv'
  BY DEF AbortInv, WriteInv, TypeOK
<1> QED
  BY <1>1, <1>2, <1>3

LEMMA SettlePreserves ==
    ASSUME IInv, NEW c \in Calls, Settle(c)
    PROVE  IInv'
<1> USE CallsAssumption DEF IInv, Settle, cancelVars
<1>0. KeyOf[c] \in Keys /\ inflight[KeyOf[c]] = c
  BY DEF MapInv
<1>1. TypeOK'
  BY <1>0 DEF TypeOK
<1>2. MapInv'
  BY <1>0 DEF MapInv, CallInv, TypeOK
<1>3. FlightInv' /\ CallInv'
  BY <1>0 DEF FlightInv, CallInv, TypeOK
<1>4. AbortInv' /\ WriteInv'
  BY <1>0 DEF AbortInv, WriteInv, TypeOK
<1> QED
  BY <1>1, <1>2, <1>3, <1>4

LEMMA ReturnPreserves ==
    ASSUME IInv, NEW c \in Calls, Return(c)
    PROVE  IInv'
<1> USE CallsAssumption DEF IInv, Return, cancelVars
<1>0. flight[c] \in Calls
  BY DEF CallInv, TypeOK
<1>1. TypeOK'
  BY <1>0 DEF TypeOK
<1>2. MapInv' /\ FlightInv' /\ CallInv'
  BY DEF MapInv, FlightInv, CallInv, TypeOK
<1>3. AbortInv' /\ WriteInv'
  BY <1>0 DEF AbortInv, WriteInv, TypeOK
<1> QED
  BY <1>1, <1>2, <1>3

LEMMA EnvironmentPreserves ==
    ASSUME IInv, (\E r \in Requests : ClientAborts(r)) \/ OriginUpdates \/ UNCHANGED vars
    PROVE  IInv'
<1> USE CallsAssumption DEF IInv, ClientAborts, OriginUpdates, vars, flightVars, cancelVars
<1>1. TypeOK'
  BY DEF TypeOK, Versions, Outcomes, Pending
<1>2. MapInv' /\ FlightInv' /\ CallInv'
  BY DEF MapInv, FlightInv, CallInv
<1>3. AbortInv' /\ WriteInv'
  BY DEF AbortInv, WriteInv
<1> QED
  BY <1>1, <1>2, <1>3

LEMMA StepPreserves == IInv /\ [Next]_vars => IInv'
  BY CallPreserves, FetchPreserves, SoloReturnsPreserves, SettlePreserves,
     ReturnPreserves, EnvironmentPreserves DEF Next, Progress

(* The invariant of the code's state, for all calls, requests and keys.    *)
THEOREM Invariance == Spec => []IInv
  BY InitIInv, StepPreserves, PTL DEF Spec

-----------------------------------------------------------------------------
(* Variables stay in their types; a call has an answer when it is done.    *)
THEOREM TypeCorrect == Spec => []TypeOK
<1>1. IInv => TypeOK
  BY DEF IInv
<1> QED
  BY Invariance, <1>1, PTL

(* Never two fetches of one key: the map names the only leader.            *)
THEOREM OneFlight == Spec => []OneFlightPerKey
<1>1. IInv => OneFlightPerKey
  BY DEF IInv, MapInv, OneFlightPerKey
<1> QED
  BY Invariance, <1>1, PTL

(* A cancellation reaches only token holders of the aborted request, and a *)
(* call on a flight holds no token.                                        *)
THEOREM CancellationConfined == Spec => []CancellationStaysHome
<1>1. IInv => CancellationStaysHome
  BY DEF IInv, AbortInv, CancellationStaysHome
<1> QED
  BY Invariance, <1>1, PTL

(* The abort of a request that has issued a write cancels nothing.         *)
THEOREM WritesEndCancellation == Spec => NoCancelAfterWrite
<1> DEFINE A == \A r \in cancelled' \ cancelled :
                  \A c \in Calls \ Safe : RequestOf[c] = r => pc[c] = "idle"
<1>1. IInv /\ [Next]_vars => [A]_vars
  <2> SUFFICES ASSUME IInv, Next PROVE A
    BY DEF vars
  <2>1. ASSUME NEW r \in Requests, ClientAborts(r) PROVE A
    BY <2>1 DEF ClientAborts, IInv, WriteInv
  <2>2. ASSUME cancelled' = cancelled PROVE A
    BY <2>2
  <2> QED
    BY <2>1, <2>2 DEF Next, Progress, Call, OriginAnswers, FetchFails, FetchAborted,
        SoloReturns, Settle, Return, OriginUpdates, cancelVars
<1> QED
  BY Invariance, <1>1, PTL DEF Spec, NoCancelAfterWrite

-----------------------------------------------------------------------------
(* The map of promises implements the flights of FlightTable.              *)
LEMMA InitTable == Init => Table!Init
  BY CallsAssumption DEF Init, Table!Init, Aboard, Verdict

LEMMA CallBoards ==
    ASSUME IInv, NEW c \in Calls, Call(c)
    PROVE  Table!Next \/ UNCHANGED Table!vars
<1> USE CallsAssumption DEF IInv
<1>0. /\ pc[c] = "idle" /\ flight[c] = NoCall /\ promise[c] = Pending /\ promise' = promise
      /\ \A d \in Calls : flight[d] # c
  BY DEF Call, CallInv, FlightInv
<1>1. CASE Solo(c)
  <2>1. Aboard' = Aboard /\ Verdict' = Verdict
    BY <1>0, <1>1 DEF Solo, Aboard, Verdict
  <2> QED
    BY <2>1 DEF Table!vars
<1>2. CASE Lead(c)
  <2> DEFINE k == KeyOf[c]
  <2>1. k \in Keys
    BY <1>2 DEF Lead
  <2>2. Aboard' = [Aboard EXCEPT ![k] = @ \cup {c}]
    <3>1. Aboard[k] = {}
      BY <1>2, <2>1 DEF Lead, Aboard
    <3>2. inflight' = [inflight EXCEPT ![k] = c] /\ flight' = [flight EXCEPT ![c] = c]
      BY <1>2 DEF Lead
    <3>3. Aboard'[k] = {c}
      BY <1>0, <2>1, <3>2, NoCall \notin Calls DEF Aboard, TypeOK
    <3>4. ASSUME NEW j \in Keys, j # k PROVE Aboard'[j] = Aboard[j]
      <4>1. inflight'[j] = inflight[j] /\ inflight[j] # c
        BY <1>0, <2>1, <3>2, <3>4 DEF TypeOK, MapInv
      <4> QED
        BY <1>0, <3>2, <4>1 DEF Aboard, TypeOK
    <3>5. Aboard' = [j \in Keys |-> Aboard'[j]] /\ Aboard = [j \in Keys |-> Aboard[j]]
      BY DEF Aboard
    <3> QED
      BY <2>1, <3>1, <3>3, <3>4, <3>5
  <2>3. Verdict' = Verdict
    BY <1>0, <1>2 DEF Lead, Verdict, TypeOK
  <2>4. Verdict[c] = Pending /\ \A other \in Keys : c \notin Aboard[other]
    BY <1>0 DEF Verdict, Aboard
  <2> QED
    BY <2>1, <2>2, <2>3, <2>4 DEF Table!Next, Table!Board
<1>3. CASE Follow(c)
  <2> DEFINE k == KeyOf[c]
  <2>1. k \in Keys
    BY <1>3 DEF Follow
  <2>2. Aboard' = [Aboard EXCEPT ![k] = @ \cup {c}]
    <3>1. inflight' = inflight /\ flight' = [flight EXCEPT ![c] = inflight[k]]
      BY <1>3 DEF Follow
    <3>2. Aboard'[k] = Aboard[k] \cup {c}
      BY <1>0, <1>3, <2>1, <3>1 DEF Follow, Aboard, TypeOK
    <3>3. ASSUME NEW j \in Keys, j # k PROVE Aboard'[j] = Aboard[j]
      <4>1. inflight[j] # NoCall => inflight[j] # inflight[k]
        BY <1>3, <2>1, <3>3 DEF Follow, MapInv
      <4> QED
        BY <1>0, <3>1, <4>1 DEF Aboard, TypeOK
    <3>4. Aboard' = [j \in Keys |-> Aboard'[j]] /\ Aboard = [j \in Keys |-> Aboard[j]]
      BY DEF Aboard
    <3> QED
      BY <2>1, <3>2, <3>3, <3>4
  <2>3. Verdict' = Verdict
    BY <1>0, <1>3, <2>1 DEF Follow, Verdict, TypeOK, MapInv, CallInv
  <2>4. Verdict[c] = Pending /\ \A other \in Keys : c \notin Aboard[other]
    BY <1>0 DEF Verdict, Aboard
  <2> QED
    BY <2>1, <2>2, <2>3, <2>4 DEF Table!Next, Table!Board
<1> QED
  BY <1>1, <1>2, <1>3 DEF Call

LEMMA SettleLands ==
    ASSUME IInv, NEW c \in Calls, Settle(c)
    PROVE  Table!Next
<1> USE CallsAssumption DEF IInv, Settle
<1> DEFINE k == KeyOf[c]
<1>1. k \in Keys /\ inflight[k] = c /\ fetched[c] \in Outcomes
  BY DEF MapInv, TypeOK
<1>2. c \in Aboard[k]
  BY <1>1 DEF Aboard
<1>3. Aboard' = [Aboard EXCEPT ![k] = {}]
  BY <1>1 DEF Aboard, TypeOK
<1>4. Verdict' = [d \in Calls |-> IF d \in Aboard[k] THEN fetched[c] ELSE Verdict[d]]
  BY <1>1 DEF Verdict, Aboard, TypeOK
<1> QED
  BY <1>1, <1>2, <1>3, <1>4 DEF Table!Next, Table!Land

LEMMA StepMapped == IInv /\ [Next]_vars => [Table!Next]_(Table!vars)
<1>1. ASSUME UNCHANGED <<flight, inflight, promise>> PROVE UNCHANGED Table!vars
  BY <1>1 DEF Table!vars, Aboard, Verdict
<1> QED
  BY <1>1, CallBoards, SettleLands
     DEF Next, Progress, OriginAnswers, FetchFails, FetchAborted, SoloReturns, Return,
         ClientAborts, OriginUpdates, vars, flightVars

(* Every behaviour of the code is one of FlightTable: who is on a flight   *)
(* lands with its outcome, whatever it is, and nobody boards it later.     *)
THEOREM Coalescing == Spec => Coalesces
  BY Invariance, InitTable, StepMapped, PTL DEF Spec, Coalesces, Table!Spec

-----------------------------------------------------------------------------
(* The memoized client.                                                    *)

(* A memoized promise stays where it was stored, under the key of the call *)
(* that stored it, and is settled once, when that call is through.         *)
StoreInv ==
    /\ \A r \in Requests, k \in MemoKeys : memoizedCache[r][k] # NoCall =>
          RequestOf[memoizedCache[r][k]] = r /\ MemoKeyOf[memoizedCache[r][k]] = k
    /\ \A c \in Calls : stage[c] \in {"idle", "next"} => memoized[c] = Pending
    /\ \A c \in Memoizable : stage[c] # "idle" => Memo(c) # NoCall
    /\ \A c \in Memoizable : stage[c] = "returned" =>
          memoized[Memo(c)] # Pending /\ result[c] = memoized[Memo(c)]

(* What was recorded before a promise was settled stays recorded.          *)
RecordInv ==
    \A c \in Calls : Recordable(c) =>
        /\ memoized[c].kind = "ok" => memoized[c].version \in record[RequestOf[c]]
        /\ result[c].kind = "ok" => result[c].version \in record[RequestOf[c]]

(* The part of MemoTypeOK the proof needs.                                 *)
MemoTyped ==
    /\ stage \in [Calls -> {"idle", "next", "waiting", "returned"}]
    /\ memoizedCache \in [Requests -> [MemoKeys -> Calls \cup {NoCall}]]
    /\ memoized \in [Calls -> Outcomes \cup {Pending}]
    /\ result \in [Calls -> Outcomes \cup {Pending}]
    /\ record \in [Requests -> SUBSET (Versions \cup {NotFound})]

(* A call is below only while its stage says so, and a call waits for a    *)
(* promise that is there.                                                  *)
StageInv ==
    \A c \in Calls :
        /\ pc[c] \in {"fetching", "waiting"} => stage[c] = "next"
        /\ stage[c] = "idle" => pc[c] = "idle"
        /\ stage[c] = "waiting" => Memo(c) # NoCall

MemoIInv == IInv /\ MemoTyped /\ StageInv /\ StoreInv /\ RecordInv

-----------------------------------------------------------------------------
LEMMA InitMemoIInv == MemoInit => MemoIInv
<1> SUFFICES ASSUME MemoInit PROVE MemoIInv
  OBVIOUS
<1>1. IInv
  BY InitIInv DEF MemoInit
<1>2. MemoTyped /\ StageInv
  BY CallsAssumption, MemoAssumption DEF MemoInit, Init, MemoTyped, StageInv
<1>3. StoreInv
  BY CallsAssumption, MemoAssumption DEF MemoInit, StoreInv
<1>4. RecordInv
  <2>1. Pending.kind # "ok"
    BY DEF Pending
  <2> QED
    BY <2>1 DEF MemoInit, RecordInv
<1> QED
  BY <1>1, <1>2, <1>3, <1>4 DEF MemoIInv

(* Every step of a memoized client is a step of SingleFlight or none.      *)
LEMMA StepBelow == [MemoNext]_allVars => [Next]_vars
  BY DEF MemoNext, allVars, Descend, Hit, Ascend, Resume, Below, Next

LEMMA DescendPreserves ==
    ASSUME MemoIInv, IInv', NEW c \in Calls, Descend(c)
    PROVE  MemoIInv'
<1> USE CallsAssumption, MemoAssumption
<1>0. pc' = [pc EXCEPT ![c] = pc'[c]] /\ pc[c] = "idle" /\ UNCHANGED <<answer>>
  BY DEF Descend, Call, Solo, Lead, Follow, MemoIInv, IInv, TypeOK
<1>1. MemoTyped'
  BY DEF Descend, MemoIInv, MemoTyped
<1> DEFINE stored == c \in Memoizable
<1>2. /\ \A r \in Requests, k \in MemoKeys :
            memoizedCache'[r][k] = IF stored /\ r = RequestOf[c] /\ k = MemoKeyOf[c]
                                     THEN c ELSE memoizedCache[r][k]
      /\ \A d \in Calls : Memo(d)' = IF stored /\ RequestOf[d] = RequestOf[c]
                                             /\ MemoKeyOf[d] = MemoKeyOf[c]
                                        THEN c ELSE Memo(d)
      /\ stored => Memo(c) = NoCall
      /\ \A d \in Calls : stage'[d] = IF d = c THEN "next" ELSE stage[d]
      /\ stage[c] = "idle" /\ UNCHANGED <<memoized, result, record>>
  BY DEF Descend, MemoIInv, MemoTyped, Memo
<1>3. StoreInv'
  <2>1. \A r \in Requests, k \in MemoKeys : memoizedCache'[r][k] # NoCall =>
           RequestOf[memoizedCache'[r][k]] = r /\ MemoKeyOf[memoizedCache'[r][k]] = k
    BY <1>2 DEF MemoIInv, StoreInv
  <2>2. \A d \in Calls : stage'[d] \in {"idle", "next"} => memoized'[d] = Pending
    BY <1>2 DEF MemoIInv, StoreInv
  <2>3. \A d \in Memoizable : stage'[d] # "idle" => Memo(d)' # NoCall
    BY <1>2 DEF MemoIInv, StoreInv
  <2>4. \A d \in Memoizable : stage'[d] = "returned" => Memo(d)' = Memo(d)
    BY <1>2 DEF MemoIInv, StoreInv, Memo
  <2>5. \A d \in Memoizable : stage'[d] = "returned" =>
           memoized'[Memo(d)'] # Pending /\ result'[d] = memoized'[Memo(d)']
    BY <1>2, <2>4 DEF MemoIInv, StoreInv
  <2> QED
    BY <2>1, <2>2, <2>3, <2>5 DEF StoreInv
<1>5. StageInv'
  BY <1>0, <1>2 DEF MemoIInv, IInv, TypeOK, StageInv
<1>4. RecordInv'
  BY DEF Descend, MemoIInv, RecordInv, Recordable
<1> QED
  BY <1>1, <1>3, <1>4, <1>5 DEF MemoIInv

LEMMA HitPreserves ==
    ASSUME MemoIInv, IInv', NEW c \in Calls, Hit(c)
    PROVE  MemoIInv'
<1> USE CallsAssumption, MemoAssumption DEF Hit, vars, flightVars
<1>1. MemoTyped' /\ StageInv'
  BY DEF MemoIInv, MemoTyped, StageInv, Memo
<1>2. StoreInv'
  BY DEF MemoIInv, MemoTyped, StoreInv, Memo
<1>3. RecordInv'
  BY DEF MemoIInv, RecordInv, Recordable
<1> QED
  BY <1>1, <1>2, <1>3 DEF MemoIInv

(* The recorder only adds, and adds what a call that it watches returns.   *)
LEMMA RecordAdds ==
    ASSUME MemoIInv, NEW c \in Calls, pc[c] = "done", Record(c)
    PROVE  /\ record' \in [Requests -> SUBSET (Versions \cup {NotFound})]
           /\ \A r \in Requests : record[r] \subseteq record'[r]
           /\ c \notin IgnoreRecorder /\ answer[c].kind = "ok" =>
                 answer[c].version \in record'[RequestOf[c]]
           /\ answer[c] \in Outcomes
<1> USE CallsAssumption DEF MemoIInv, IInv, MemoTyped
<1>1. answer[c] \in Outcomes
  BY DEF TypeOK
<1>2. answer[c].kind = "ok" => answer[c].version \in Versions
  BY <1>1, OutcomeKinds DEF Outcomes, Value, Failed, Aborted
<1>3. Failed.kind = "error"
  BY DEF Failed
<1>4. RequestOf[c] \in Requests
  OBVIOUS
<1>5. ASSUME NEW m \in Versions \cup {NotFound}, Recorded(c, m)
      PROVE  /\ record' \in [Requests -> SUBSET (Versions \cup {NotFound})]
             /\ \A r \in Requests : record[r] \subseteq record'[r]
             /\ m \in record'[RequestOf[c]]
  BY <1>4, <1>5 DEF Recorded
<1>6. CASE c \notin IgnoreRecorder /\ answer[c].kind = "ok" /\ Recorded(c, answer[c].version)
  BY <1>1, <1>2, <1>5, <1>6
<1>7. CASE c \notin IgnoreRecorder /\ answer[c] = Failed /\ Recorded(c, NotFound)
  BY <1>1, <1>3, <1>5, <1>7
<1>8. CASE (c \in IgnoreRecorder \/ answer[c].kind # "ok") /\ UNCHANGED record
  BY <1>1, <1>8
<1> QED
  BY <1>6, <1>7, <1>8 DEF Record

LEMMA AscendPreserves ==
    ASSUME MemoIInv, IInv', NEW c \in Calls, Ascend(c)
    PROVE  MemoIInv'
<1> USE CallsAssumption, MemoAssumption
<1>0. /\ record' \in [Requests -> SUBSET (Versions \cup {NotFound})]
      /\ \A r \in Requests : record[r] \subseteq record'[r]
      /\ c \notin IgnoreRecorder /\ answer[c].kind = "ok" =>
            answer[c].version \in record'[RequestOf[c]]
      /\ answer[c] \in Outcomes
  BY RecordAdds DEF Ascend
<1>1. Pending \notin Outcomes
  BY OutcomeKinds
<1>2. MemoTyped'
  BY <1>0 DEF Ascend, MemoIInv, MemoTyped
<1>3. StageInv'
  BY DEF Ascend, MemoIInv, IInv, TypeOK, MemoTyped, StageInv, StoreInv, Memo, vars, flightVars
<1>4. StoreInv'
  <2>1. stage[c] = "next" /\ memoized[c] = Pending /\ UNCHANGED memoizedCache
    BY DEF Ascend, MemoIInv, StoreInv
  <2>2. \A d \in Calls : d # c =>
           stage'[d] = stage[d] /\ memoized'[d] = memoized[d] /\ result'[d] = result[d]
    BY DEF Ascend, MemoIInv, MemoTyped
  <2>3. stage'[c] \in {"waiting", "returned"} /\ (c \in Memoizable => stage'[c] = "waiting")
    BY DEF Ascend, MemoIInv, MemoTyped
  <2>4. \A d \in Memoizable : Memo(d)' = Memo(d) /\ Memo(d) \in Calls \cup {NoCall}
    BY <2>1 DEF Memo, MemoIInv, MemoTyped
  <2>5. \A d \in Memoizable : stage'[d] = "returned" =>
           memoized'[Memo(d)] # Pending /\ result'[d] = memoized'[Memo(d)]
    BY <2>1, <2>2, <2>3, <2>4 DEF MemoIInv, StoreInv
  <2>6. \A d \in Calls : stage'[d] \in {"idle", "next"} => memoized'[d] = Pending
    BY <2>2, <2>3 DEF MemoIInv, StoreInv
  <2>7. \A d \in Memoizable : stage'[d] # "idle" => Memo(d)' # NoCall
    BY <2>1, <2>2, <2>4 DEF MemoIInv, StoreInv
  <2> QED
    BY <2>1, <2>4, <2>5, <2>6, <2>7 DEF MemoIInv, StoreInv
<1>5. RecordInv'
  <2> SUFFICES ASSUME NEW d \in Calls, Recordable(d)
               PROVE  /\ memoized'[d].kind = "ok" => memoized'[d].version \in record'[RequestOf[d]]
                      /\ result'[d].kind = "ok" => result'[d].version \in record'[RequestOf[d]]
    BY DEF RecordInv, Recordable
  <2>1. d = c => d \notin IgnoreRecorder
    BY DEF Recordable
  <2> QED
    BY <1>0, <2>1 DEF Ascend, MemoIInv, MemoTyped, RecordInv
<1> QED
  BY <1>2, <1>3, <1>4, <1>5 DEF MemoIInv

LEMMA ResumePreserves ==
    ASSUME MemoIInv, IInv', NEW c \in Calls, Resume(c)
    PROVE  MemoIInv'
<1> USE CallsAssumption, MemoAssumption DEF Resume, vars, flightVars
<1>0. Memo(c) \in Calls /\ RequestOf[Memo(c)] = RequestOf[c] /\ MemoKeyOf[Memo(c)] = MemoKeyOf[c]
  <2>1. Memo(c) # NoCall
    BY DEF MemoIInv, StageInv
  <2>2. RequestOf[c] \in Requests /\ MemoKeyOf[c] \in MemoKeys
    OBVIOUS
  <2>3. Memo(c) \in Calls
    BY <2>1, <2>2 DEF MemoIInv, MemoTyped, Memo
  <2> QED
    BY <2>1, <2>2, <2>3 DEF MemoIInv, StoreInv, Memo
<1>1. MemoTyped' /\ StageInv'
  BY <1>0 DEF MemoIInv, IInv, TypeOK, MemoTyped, StageInv, Memo
<1>2. StoreInv'
  BY <1>0 DEF MemoIInv, MemoTyped, StoreInv, Memo
<1>3. RecordInv'
  <2>1. Recordable(c) => Recordable(Memo(c))
    BY <1>0 DEF Recordable
  <2> QED
    BY <1>0, <2>1 DEF MemoIInv, MemoTyped, RecordInv, Recordable
<1> QED
  BY <1>1, <1>2, <1>3 DEF MemoIInv

(* The steps below leave the memoized promises alone and take no call up   *)
(* or down.                                                                *)
LEMMA BelowPreserves ==
    ASSUME MemoIInv, IInv', Below
    PROVE  MemoIInv'
<1>1. \A c \in Calls : pc'[c] \in {"fetching", "waiting"} => pc[c] \in {"fetching", "waiting"}
  BY DEF Below, Progress, OriginAnswers, FetchFails, FetchAborted, SoloReturns, Settle, Return,
         ClientAborts, OriginUpdates, flightVars, cancelVars, MemoIInv, IInv, TypeOK
<1>2. \A c \in Calls : pc[c] = "idle" => pc'[c] = "idle"
  BY DEF Below, Progress, OriginAnswers, FetchFails, FetchAborted, SoloReturns, Settle, Return,
         ClientAborts, OriginUpdates, flightVars, cancelVars, MemoIInv, IInv, TypeOK
<1>3. StageInv'
  BY <1>1, <1>2 DEF Below, memoVars, MemoIInv, StageInv, Memo
<1> QED
  BY <1>3 DEF Below, memoVars, MemoIInv, MemoTyped, StoreInv, RecordInv, Recordable, Memo

LEMMA StepMemoIInv == MemoIInv /\ [MemoNext]_allVars => MemoIInv'
<1> SUFFICES ASSUME MemoIInv, [MemoNext]_allVars PROVE MemoIInv'
  OBVIOUS
<1>1. IInv'
  BY StepBelow, StepPreserves DEF MemoIInv
<1>2. CASE UNCHANGED allVars
  BY <1>1, <1>2 DEF allVars, memoVars, vars, flightVars, MemoIInv, MemoTyped, StageInv, StoreInv,
                    RecordInv, Recordable, Memo
<1>3. CASE MemoNext
  BY <1>1, <1>3, DescendPreserves, HitPreserves, AscendPreserves, ResumePreserves, BelowPreserves
     DEF MemoNext
<1> QED
  BY <1>2, <1>3

-----------------------------------------------------------------------------
(* The invariant holds of every behaviour of a memoized client.            *)
THEOREM MemoInvariance == MemoSpec => []MemoIInv
  BY InitMemoIInv, StepMemoIInv, PTL DEF MemoSpec

(* A memoized client is a client: whatever its calls do, SingleFlight      *)
(* allows, so what is proved of SingleFlight.tla is true below it.         *)
THEOREM MemoImplementsSingleFlight == MemoSpec => Spec
<1>1. MemoInit => Init
  BY DEF MemoInit
<1> QED
  BY <1>1, StepBelow, PTL DEF MemoSpec, Spec

(* Types, and the stage of every call.                                     *)
THEOREM MemoTypeCorrect == MemoSpec => []MemoTypeOK
<1>1. MemoIInv => MemoTypeOK
  BY DEF MemoIInv, IInv, MemoTyped, StageInv, MemoTypeOK
<1> QED
  BY <1>1, MemoInvariance, PTL

(* All the memoized reads of a key within a request have one outcome.      *)
THEOREM ReadsRepeat == MemoSpec => []RepeatableReads
<1>1. MemoIInv => RepeatableReads
  BY DEF MemoIInv, StoreInv, RepeatableReads, Memo
<1> QED
  BY <1>1, MemoInvariance, PTL

(* The metadata of every answer a handler got is in the recorder.          *)
THEOREM AnswersRecorded == MemoSpec => []EveryAnswerRecorded
<1>1. MemoIInv => EveryAnswerRecorded
  BY DEF MemoIInv, RecordInv, EveryAnswerRecorded
<1> QED
  BY <1>1, MemoInvariance, PTL
=============================================================================
