---------------------------- MODULE ClientsProofs ----------------------------
(***************************************************************************)
(* What the clients share and keep, for every set of requests, calls and   *)
(* versions.  SharedAnswers: the properties of what calls get follow from  *)
(* what the keys of the requests have in common.  AppsStale: the copies of *)
(* the list of the apps and the versions saved.  VBaseConflicts: reads     *)
(* that meet a conflict, and what a merge of any three contents is.        *)
(***************************************************************************)
EXTENDS SharedAnswers, AppsStale, VBaseConflicts, FiniteSetTheorems, SequenceTheorems, TLAPS

-----------------------------------------------------------------------------
(* Who gets whose answer (SharedAnswers).  What a call may get.            *)
Gots == [kind : {"value", "null", "error"}, by : Requests]
CallType == [of : IncomingRequests, req : Requests, behind : Nat, done : BOOLEAN, got : Gots]

(* The type of the state; a call is behind a call made before it; what is  *)
(* kept under a key was fetched by a request of that key.                  *)
Kept(store) ==
    \A k \in DOMAIN store :
        store[k] \in Gots /\ CacheKey(store[k].by) = k /\ store[k].by.cacheable # "none"
TypeInv ==
    /\ calls \in Seq(CallType)
    /\ \A i \in DOMAIN calls : calls[i].behind # 0 => calls[i].behind \in DOMAIN calls
    /\ Kept(memory) /\ Kept(disk)

LEMMA CallIn ==
    ASSUME TypeInv, NEW i \in DOMAIN calls
    PROVE  calls[i] \in CallType
  BY DEF TypeInv

(* A step either adds a call, or ends one with an answer it may have.      *)
LEMMA PutKept ==
    ASSUME NEW store, Kept(store), NEW r, NEW got \in Gots, CacheKey(got.by) = CacheKey(r),
           got.by.cacheable # "none"
    PROVE  Kept(Put(store, r, got))
  BY DEF Kept, Put

LEMMA BeginStep ==
    ASSUME NEW q \in IncomingRequests, NEW r \in Requests, TypeInv, Begin(q, r)
    PROVE  /\ UNCHANGED <<memory, disk>>
           /\ \E b \in {0} \cup Memoized(q, r) \cup InFlight(r) :
                /\ b = 0 \/ b \in DOMAIN calls
                /\ Call(q, r, b) \in CallType
                /\ calls' = Append(calls, Call(q, r, b))
  <1>1. PICK b \in {0} \cup Memoized(q, r) \cup InFlight(r) : calls' = Append(calls, Call(q, r, b))
    BY DEF Begin
  <1>2. b = 0 \/ b \in DOMAIN calls
    BY DEF Memoized, InFlight
  <1>3. DOMAIN calls \subseteq Nat
    BY DEF TypeInv
  <1>4. Call(q, r, b) \in CallType
    BY <1>2, <1>3 DEF Call, CallType, Got, Gots
  <1> QED BY <1>1, <1>2, <1>4 DEF Begin

(* How a call may end: alone, with what is kept under its key or what it   *)
(* fetched; or as the call it is behind.                                   *)
Ends(i, got) ==
    /\ i \in DOMAIN calls /\ got \in Gots
    /\ calls' = [calls EXCEPT ![i].done = TRUE, ![i].got = got]
    /\ \/ /\ calls[i].behind = 0 /\ CacheKey(got.by) = CacheKey(calls[i].req)
          /\ FormsAgree => ReadAlike(got.by, calls[i].req)
       \/ calls[i].behind # 0 /\ calls[calls[i].behind].done /\ got = calls[calls[i].behind].got
OwnAnswer(i, got) == OwnExchange(calls[i].req) /\ NothingKept => got.by = calls[i].req

(* Two requests that may share an answer read it alike, if forms agree.    *)
LEMMA SharedAlike ==
    ASSUME FormsAgree, NEW r \in Requests, NEW s \in Requests,
           \/ r.cacheable # "none" /\ s.cacheable # "none" /\ CacheKey(r) = CacheKey(s)
           \/ r.inflight # "none" /\ s.inflight # "none" /\ FlightKey(r) = FlightKey(s)
    PROVE  ReadAlike(r, s)
  BY DEF FormsAgree

LEMMA EndStep ==
    ASSUME NEW i \in DOMAIN calls, TypeInv,
           FromMemory(i) \/ FromDisk(i) \/ FromOrigin(i) \/ Follow(i)
    PROVE  /\ Kept(memory') /\ Kept(disk')
           /\ \E got \in Gots : Ends(i, got) /\ (calls[i].behind = 0 => OwnAnswer(i, got))
  <1> DEFINE r == calls[i].req
  <1>0. calls[i] \in CallType /\ r \in Requests /\ Kept(memory) /\ Kept(disk)
    BY CallIn DEF TypeInv, CallType
  <1>1. CASE FromMemory(i)
    <2>1. /\ memory[CacheKey(r)] \in Gots /\ CacheKey(memory[CacheKey(r)].by) = CacheKey(r)
          /\ memory[CacheKey(r)].by.cacheable # "none" /\ r.cacheable # "none"
      BY <1>0, <1>1 DEF FromMemory, Kept, InMemory
    <2>2. FormsAgree => ReadAlike(memory[CacheKey(r)].by, r)
      BY <1>0, <2>1, SharedAlike DEF Gots
    <2>3. Ends(i, memory[CacheKey(r)])
      BY <1>1, <2>1, <2>2 DEF FromMemory, Ends, End, Fetching
    <2>4. OwnAnswer(i, memory[CacheKey(r)])
      BY <1>0, <1>1 DEF FromMemory, InMemory, OwnAnswer, NothingKept
    <2> QED BY <1>0, <1>1, <2>1, <2>3, <2>4 DEF FromMemory
  <1>2. CASE FromDisk(i)
    <2>1. /\ disk[CacheKey(r)] \in Gots /\ CacheKey(disk[CacheKey(r)].by) = CacheKey(r)
          /\ disk[CacheKey(r)].by.cacheable # "none" /\ r.cacheable # "none"
      BY <1>0, <1>2 DEF FromDisk, Kept, OnDisk
    <2>2. FormsAgree => ReadAlike(disk[CacheKey(r)].by, r)
      BY <1>0, <2>1, SharedAlike DEF Gots
    <2>3. Ends(i, disk[CacheKey(r)])
      BY <1>2, <2>1, <2>2 DEF FromDisk, Ends, End, Fetching
    <2>4. OwnAnswer(i, disk[CacheKey(r)])
      BY <1>0, <1>2 DEF FromDisk, OnDisk, OwnAnswer, NothingKept
    <2>5. Kept(Put(memory, r, disk[CacheKey(r)]))
      BY <1>0, <2>1, PutKept
    <2>6. Kept(memory') /\ Kept(disk')
      BY <1>0, <1>2, <2>5 DEF FromDisk
    <2> QED BY <2>1, <2>3, <2>4, <2>6
  <1>3. CASE FromOrigin(i)
    <2>1. PICK kind \in {"value", IF r.lenient THEN "null" ELSE "error"}, kept \in BOOLEAN :
            /\ End(i, Got(kind, r))
            /\ memory' = IF kept /\ InMemory(r) THEN Put(memory, r, Got(kind, r)) ELSE memory
            /\ disk' = IF kept /\ OnDisk(r) THEN Put(disk, r, Got(kind, r)) ELSE disk
      BY <1>3 DEF FromOrigin
    <2>2. Got(kind, r) \in Gots /\ Got(kind, r).by = r
      BY <1>0 DEF Got, Gots
    <2>3. Ends(i, Got(kind, r)) /\ OwnAnswer(i, Got(kind, r))
      BY <1>3, <2>1, <2>2 DEF FromOrigin, Ends, End, Fetching, OwnAnswer, ReadAlike
    <2>4. r.cacheable # "none" =>
            Kept(Put(memory, r, Got(kind, r))) /\ Kept(Put(disk, r, Got(kind, r)))
      BY <1>0, <2>2, PutKept
    <2>5. (InMemory(r) \/ OnDisk(r)) => r.cacheable # "none"
      BY DEF InMemory, OnDisk
    <2> QED BY <1>0, <2>1, <2>2, <2>3, <2>4, <2>5
  <1>4. CASE Follow(i)
    <2> DEFINE got == calls[calls[i].behind].got
    <2>1. calls[i].behind \in DOMAIN calls
      BY <1>4 DEF Follow, TypeInv
    <2>3. got \in Gots
      BY <2>1, CallIn DEF CallType
    <2>2. Ends(i, got)
      BY <1>4, <2>3 DEF Follow, Ends, End
    <2> QED BY <1>0, <1>4, <2>2, <2>3 DEF Follow
  <1> QED BY <1>1, <1>2, <1>3, <1>4

LEMMA EndsType ==
    ASSUME NEW i, NEW got, TypeInv, Ends(i, got)
    PROVE  /\ calls' \in Seq(CallType) /\ DOMAIN calls' = DOMAIN calls
           /\ \A j \in DOMAIN calls : /\ calls'[j].req = calls[j].req /\ calls'[j].behind = calls[j].behind
                                      /\ j # i => calls'[j] = calls[j]
           /\ calls'[i].got = got /\ calls'[i].done
  <1>1. i \in DOMAIN calls /\ calls \in Seq(CallType) /\ calls[i] \in CallType /\ got \in Gots
    BY CallIn DEF TypeInv, Ends
  <1> DEFINE ended == [calls[i] EXCEPT !.done = TRUE, !.got = got]
  <1>2. ended \in CallType /\ ended.req = calls[i].req /\ ended.behind = calls[i].behind
        /\ ended.got = got /\ ended.done
    BY <1>1 DEF CallType
  <1>3. calls' = [calls EXCEPT ![i] = ended]
    BY <1>1 DEF Ends
  <1> HIDE DEF ended
  <1> QED BY <1>1, <1>2, <1>3

(* The type of the state is an invariant.                                  *)
THEOREM TypeCorrect == Spec => []TypeInv
  <1>1. Init => TypeInv
    BY DEF Init, TypeInv, Kept, Empty
  <1>2. TypeInv /\ [Next]_vars => TypeInv'
    <2> SUFFICES ASSUME TypeInv, [Next]_vars PROVE TypeInv'
      OBVIOUS
    <2>1. ASSUME NEW q \in IncomingRequests, NEW r \in Requests, Begin(q, r) PROVE TypeInv'
      <3>1. PICK b : /\ b = 0 \/ b \in DOMAIN calls
                     /\ Call(q, r, b) \in CallType
                     /\ calls' = Append(calls, Call(q, r, b))
        BY <2>1, BeginStep
      <3>2. Call(q, r, b) \in CallType /\ Call(q, r, b).behind = b /\ UNCHANGED <<memory, disk>>
        BY <2>1, <3>1, BeginStep DEF Call, CallType
      <3> QED BY <3>1, <3>2 DEF TypeInv, Kept
    <2>2. ASSUME NEW i \in DOMAIN calls, FromMemory(i) \/ FromDisk(i) \/ FromOrigin(i) \/ Follow(i)
          PROVE  TypeInv'
      <3>1. PICK got \in Gots : Ends(i, got)
        BY <2>2, EndStep
      <3> QED BY <2>2, <3>1, EndStep, EndsType DEF TypeInv, Kept
    <2>3. CASE UNCHANGED vars
      BY <2>3 DEF vars, TypeInv, Kept
    <2> QED BY <2>1, <2>2, <2>3 DEF Next
  <1> QED BY <1>1, <1>2, PTL DEF Spec

-----------------------------------------------------------------------------
(* A promise awaited is one of the same client and key, or of the same key *)
(* in flight: if keys agree, it is of the same resource; if forms agree,   *)
(* it is read alike; one that is a write or a stream waits for none.       *)
Behind ==
    \A i \in DOMAIN calls :
        calls[i].behind # 0 =>
            /\ KeysAgree => Resource(calls[calls[i].behind].req) = Resource(calls[i].req)
            /\ FormsAgree => ReadAlike(calls[calls[i].behind].req, calls[i].req)
            /\ NothingKept => ~OwnExchange(calls[i].req)
Settled ==
    \A i \in DOMAIN calls :
        calls[i].done =>
            /\ KeysAgree => Resource(calls[i].got.by) = Resource(calls[i].req)
            /\ FormsAgree => ReadAlike(calls[i].got.by, calls[i].req)
            /\ calls[i].behind = 0 => CacheKey(calls[i].got.by) = CacheKey(calls[i].req)
            /\ NothingKept /\ OwnExchange(calls[i].req) => calls[i].got.by = calls[i].req
Inv == TypeInv /\ Behind /\ Settled

LEMMA KeyHasResource ==
    ASSUME NEW r, NEW s, CacheKey(r) = CacheKey(s)
    PROVE  Resource(r) = Resource(s) /\ r.ctx.locale = s.ctx.locale
  BY DEF CacheKey, Resource, FullUrl

LEMMA AlikeChains ==
    ASSUME NEW r, NEW s, NEW t, ReadAlike(r, s), ReadAlike(s, t)
    PROVE  ReadAlike(r, t)
  BY DEF ReadAlike

LEMMA AwaitsItsLike ==
    ASSUME TypeInv, NEW q, NEW r \in Requests, NEW i \in Memoized(q, r) \cup InFlight(r)
    PROVE  /\ i \in DOMAIN calls
           /\ KeysAgree => Resource(calls[i].req) = Resource(r)
           /\ FormsAgree => ReadAlike(calls[i].req, r)
           /\ NothingKept => ~OwnExchange(r)
  <1>1. i \in DOMAIN calls /\ calls[i].req \in Requests
    BY CallIn DEF Memoized, InFlight, CallType
  <1>2. CASE i \in Memoized(q, r)
    BY <1>1, <1>2, KeyHasResource, SharedAlike DEF Memoized, NothingKept
  <1>3. CASE i \in InFlight(r)
    BY <1>1, <1>3, SharedAlike DEF InFlight, KeysAgree, NothingKept
  <1> QED BY <1>1, <1>2, <1>3

LEMMA InvBegin ==
    ASSUME NEW q \in IncomingRequests, NEW r \in Requests, Inv, TypeInv', Begin(q, r)
    PROVE  Inv'
  <1>1. PICK b \in {0} \cup Memoized(q, r) \cup InFlight(r) :
          /\ b = 0 \/ b \in DOMAIN calls
          /\ Call(q, r, b) \in CallType
          /\ calls' = Append(calls, Call(q, r, b))
    BY BeginStep DEF Inv
  <1>2. /\ Call(q, r, b).req = r /\ Call(q, r, b).behind = b /\ Call(q, r, b).done = FALSE
        /\ Call(q, r, b) \in CallType
    BY <1>1 DEF Call
  <1>3. /\ DOMAIN calls' = 1..(Len(calls) + 1) /\ DOMAIN calls = 1..Len(calls) /\ Len(calls) \in Nat
        /\ \A i \in DOMAIN calls : calls'[i] = calls[i]
        /\ calls'[Len(calls) + 1] = Call(q, r, b)
    BY <1>1, <1>2 DEF Inv, TypeInv
  <1>4. b # 0 => /\ KeysAgree => Resource(calls[b].req) = Resource(r)
                 /\ FormsAgree => ReadAlike(calls[b].req, r)
                 /\ NothingKept => ~OwnExchange(r)
    BY <1>1, AwaitsItsLike DEF Inv
  <1>5. Behind'
    <2> SUFFICES ASSUME NEW i \in DOMAIN calls', calls'[i].behind # 0
                 PROVE  /\ KeysAgree => Resource(calls'[calls'[i].behind].req) = Resource(calls'[i].req)
                        /\ FormsAgree => ReadAlike(calls'[calls'[i].behind].req, calls'[i].req)
                        /\ NothingKept => ~OwnExchange(calls'[i].req)
      BY DEF Behind
    <2>1. CASE i \in DOMAIN calls
      <3>1. calls[i].behind \in DOMAIN calls
        BY <1>3, <2>1 DEF Inv, TypeInv
      <3> QED BY <1>3, <2>1, <3>1 DEF Inv, Behind
    <2>2. CASE i = Len(calls) + 1
      <3>1. b \in DOMAIN calls
        BY <1>1, <1>2, <1>3, <2>2
      <3> QED BY <1>2, <1>3, <1>4, <2>2, <3>1
    <2> QED BY <1>3, <2>1, <2>2
  <1>6. Settled'
    <2> SUFFICES ASSUME NEW i \in DOMAIN calls', calls'[i].done PROVE i \in DOMAIN calls
      BY <1>3 DEF Inv, Settled
    <2> QED BY <1>2, <1>3
  <1> QED BY <1>5, <1>6 DEF Inv

LEMMA InvEnd ==
    ASSUME NEW i \in DOMAIN calls, Inv, TypeInv',
           FromMemory(i) \/ FromDisk(i) \/ FromOrigin(i) \/ Follow(i)
    PROVE  Inv'
  <1>1. PICK got \in Gots : Ends(i, got) /\ (calls[i].behind = 0 => OwnAnswer(i, got))
    BY EndStep DEF Inv
  <1>2. /\ DOMAIN calls' = DOMAIN calls
        /\ \A j \in DOMAIN calls : /\ calls'[j].req = calls[j].req /\ calls'[j].behind = calls[j].behind
                                   /\ j # i => calls'[j] = calls[j]
        /\ calls'[i].got = got
    BY <1>1, EndsType DEF Inv
  <1>3. Behind'
    BY <1>2 DEF Inv, TypeInv, Behind
  <1>4. /\ KeysAgree => Resource(got.by) = Resource(calls[i].req)
        /\ FormsAgree => ReadAlike(got.by, calls[i].req)
        /\ calls[i].behind = 0 => CacheKey(got.by) = CacheKey(calls[i].req)
        /\ NothingKept /\ OwnExchange(calls[i].req) => got.by = calls[i].req
    <2>1. CASE calls[i].behind = 0
      BY <1>1, <2>1, KeyHasResource DEF Ends, OwnAnswer
    <2>2. CASE calls[i].behind # 0
      BY <1>1, <2>2, AlikeChains DEF Inv, TypeInv, Behind, Settled, Ends
    <2> QED BY <2>1, <2>2
  <1>5. Settled'
    BY <1>2, <1>4 DEF Inv, Settled
  <1> QED BY <1>3, <1>5 DEF Inv

LEMMA Invariant == Spec => []Inv
  <1>1. Init => Inv
    BY DEF Init, Inv, TypeInv, Behind, Settled, Kept, Empty
  <1>2. TypeInv' /\ Inv /\ [Next]_vars => Inv'
    <2> SUFFICES ASSUME Inv, TypeInv', [Next]_vars PROVE Inv'
      OBVIOUS
    <2>1. CASE UNCHANGED vars
      BY <2>1 DEF vars, Inv, TypeInv, Behind, Settled, Kept
    <2> QED BY <2>1, InvBegin, InvEnd DEF Next
  <1> QED BY <1>1, <1>2, TypeCorrect, PTL DEF Spec

(* Every call is answered for the url and query it asked for, whoever of   *)
(* the clients fetched it, if calls with one key in flight ask for one     *)
(* thing.                                                                  *)
THEOREM ResourcesCorrect == KeysAgree => (Spec => []AnswersItsResource)
  <1> SUFFICES ASSUME KeysAgree PROVE Spec => []AnswersItsResource
    OBVIOUS
  <1>1. Inv => AnswersItsResource
    BY DEF Inv, Settled, AnswersItsResource, Answered
  <1> QED BY <1>1, Invariant, PTL

(* Nobody but the readers of files gets an answer that another wanted in   *)
(* another form, or with another meaning of a 404 or a conflict, if calls  *)
(* that may share an answer read it alike.                                 *)
THEOREM FormsKept == FormsAgree => (Spec => []MixedOnlyAmongFiles)
  <1> SUFFICES ASSUME FormsAgree PROVE Spec => []MixedOnlyAmongFiles
    OBVIOUS
  <1>1. Inv => MixedOnlyAmongFiles
    BY DEF Inv, Settled, MixedOnlyAmongFiles, Answered, ReadAlike
  <1> QED BY <1>1, Invariant, PTL

(* Writes and streams are answered by their own exchange, if they name no  *)
(* key in flight and are kept nowhere.                                     *)
THEOREM ExchangesOwn == NothingKept => (Spec => []NeverShared)
  <1> SUFFICES ASSUME NothingKept PROVE Spec => []NeverShared
    OBVIOUS
  <1>1. Inv => NeverShared
    BY DEF Inv, Behind, Settled, NeverShared, Answered
  <1> QED BY <1>1, Invariant, PTL

(* Whatever the requests are, an answer of another locale comes only from  *)
(* a call that was awaited.                                                *)
THEOREM LocalesKeptApart == Spec => []KeptApart
  <1>1. Inv => KeptApart
    BY KeyHasResource DEF Inv, Settled, KeptApart, Answered
  <1> QED BY <1>1, Invariant, PTL

-----------------------------------------------------------------------------
(* What the Apps client keeps (AppsStale).  A version is that of a list,   *)
(* None, or Failed for a fetch that failed.                                *)
Outcomes == Nat \cup {Failed}
Memos == [state : {"none", "pending", "settled"}, version : Outcomes, records : BOOLEAN]
Flights == [state : {"none", "sent", "served", "hit"}, version : Nat]
AppsTypeInv ==
    /\ origin \in Nat /\ stored \in Nat
    /\ pc \in [Calls -> {"idle", "waiting", "done"}]
    /\ copy \in [Calls -> Nat] /\ answer \in [Calls -> Outcomes]
    /\ memo \in [Incoming -> Memos]
    /\ flight \in [Incoming -> Flights]
    /\ ride \in [Incoming -> Incoming]
    /\ inMemory \in [Locales -> Nat] /\ fetched \in [Locales -> Nat]
    /\ recorded \in [Incoming -> SUBSET Nat]
    /\ saved \in 0 .. AnyMinor /\ seen \in [Saves -> 0 .. AnyMinor]

(* A call that found a copy was answered with it, and it is recorded; any  *)
(* other answer is that of the memo.  What a memo holds is recorded, or    *)
(* was asked for by a call that had a copy.                                *)
CallInv(c) ==
    /\ copy[c] # None => pc[c] = "done" /\ answer[c] = copy[c] /\ copy[c] \in recorded[Of[c]]
    /\ copy[c] = None /\ answer[c] > None =>
         memo[Of[c]].state = "settled" /\ memo[Of[c]].version = answer[c]
MemoInv(q) ==
    /\ memo[q].state = "settled" /\ memo[q].records /\ memo[q].version # Failed =>
         memo[q].version \in recorded[q]
    /\ memo[q].state # "none" /\ ~memo[q].records => \E d \in Calls : Of[d] = q /\ copy[d] # None
RecordInv == (\A c \in Calls : CallInv(c)) /\ (\A q \in Incoming : MemoInv(q))

(* One fetch is under way at a time.  Memory keeps for a locale what was   *)
(* last fetched for it, and what is on disk or in memo is not newer than   *)
(* all that was fetched; a fetch goes to the origin when memory has        *)
(* nothing, and what it brings is not older; what it brings from memory is *)
(* the last fetched for its locale.                                        *)
OneFlightInv == \A q, r \in Incoming : flight[q].state # "none" /\ flight[r].state # "none" => q = r
Known(version) == version <= None \/ \E l \in Locales : version <= fetched[l]
FetchedInv == \A l \in Locales : fetched[l] <= origin /\ inMemory[l] \in {None, fetched[l]}
FlightOrder(q) ==
    /\ flight[q].state = "served" => /\ flight[q].version <= origin
                                     /\ \A l \in Locales : fetched[l] <= flight[q].version
    /\ flight[q].state \in {"sent", "served"} => inMemory[LocaleOf[q]] = None
    /\ flight[q].state = "hit" => flight[q].version = fetched[LocaleOf[q]]
OrderInv ==
    /\ OneFlightInv /\ FetchedInv
    /\ Known(stored) /\ \A q \in Incoming : memo[q].state = "settled" => Known(memo[q].version)
    /\ \A q \in Incoming : FlightOrder(q)

(* A step of a call, with the copy it found.                               *)
LEMMA ReadStep ==
    ASSUME NEW c \in Calls, AppsTypeInv, Read(c)
    PROVE  LET q == Of[c] IN
           \E found \in Nat :
             /\ q \in Incoming /\ pc[c] = "idle"
             /\ copy' = [copy EXCEPT ![c] = found]
             /\ recorded' = [recorded EXCEPT ![q] = RecordedOf(q, found)]
             /\ \/ /\ memo[q].state = "none"
                   /\ memo' = [memo EXCEPT ![q] = Memo("pending", None, found = None)]
                   /\ \E r \in Rides(q) :
                        /\ ride' = [ride EXCEPT ![q] = r]
                        /\ flight' = IF r = q THEN [flight EXCEPT ![q] = Started(q)] ELSE flight
                   /\ UNCHANGED stored
                \/ memo[q].state = "pending" /\ UNCHANGED <<memo, ride, flight, stored>>
                \/ /\ memo[q].state = "settled" /\ UNCHANGED <<memo, ride, flight>>
                   /\ stored' = IF memo[q].version = Failed THEN stored ELSE memo[q].version
             /\ \/ found = None /\ memo[q].state # "settled"
                   /\ pc' = [pc EXCEPT ![c] = "waiting"] /\ UNCHANGED answer
                \/ /\ found # None \/ memo[q].state = "settled"
                   /\ pc' = [pc EXCEPT ![c] = "done"]
                   /\ answer' = [answer EXCEPT ![c] = IF found # None THEN found ELSE memo[q].version]
             /\ UNCHANGED <<origin, inMemory, fetched, versions>>
  <1> DEFINE q == Of[c]
             found == IF c \in Fresh THEN None ELSE stored
  <1>1. q \in Incoming
    BY InfraCallsAssumption
  <1>2. found \in Nat
    BY DEF AppsTypeInv, None
  <1> QED BY <1>1, <1>2, Zenon DEF Read

LEMMA StartedType ==
    ASSUME AppsTypeInv, NEW q \in Incoming
    PROVE  /\ Started(q) \in Flights /\ Started(q).state \in {"sent", "hit"}
           /\ Started(q).state = "sent" => inMemory[LocaleOf[q]] = None
           /\ Started(q).state = "hit" => /\ inMemory[LocaleOf[q]] # None
                                          /\ Started(q).version = inMemory[LocaleOf[q]]
  <1>1. inMemory[LocaleOf[q]] \in Nat
    BY InfraCallsAssumption DEF AppsTypeInv
  <1> QED BY <1>1 DEF Started, Flight, Flights, None

LEMMA AppsTypeInit == AppsInit => AppsTypeInv
  BY StaleAssumption, InfraCallsAssumption
     DEF AppsInit, AppsTypeInv, Memos, Flights, Outcomes, None, AnyMinor, Memo, Flight

LEMMA LandType ==
    ASSUME AppsTypeInv, NEW q \in Incoming, NEW version \in Outcomes, Land(q, version),
           inMemory' \in [Locales -> Nat], fetched' \in [Locales -> Nat]
    PROVE  AppsTypeInv'
  <1> DEFINE riders == {r \in Incoming : memo[r].state = "pending" /\ ride[r] = q}
  <1>1. memo' \in [Incoming -> Memos]
    <2>1. memo' = [r \in Incoming |-> IF r \in riders THEN [memo[r] EXCEPT !.state = "settled", !.version = version]
                                      ELSE memo[r]]
      BY DEF Land
    <2>2. \A r \in Incoming : [memo[r] EXCEPT !.state = "settled", !.version = version] \in Memos
      BY DEF AppsTypeInv, Memos
    <2> HIDE DEF riders
    <2> QED BY <2>1, <2>2 DEF AppsTypeInv
  <1>2. recorded' \in [Incoming -> SUBSET Nat]
    <2>1. version \in Nat \cup {Failed} /\ {version} \ {Failed} \subseteq Nat
      BY DEF Outcomes
    <2>2. recorded' = [r \in Incoming |-> IF r \in riders /\ memo[r].records
                                          THEN recorded[r] \cup ({version} \ {Failed}) ELSE recorded[r]]
      BY DEF Land
    <2> HIDE DEF riders
    <2> QED BY <2>1, <2>2 DEF AppsTypeInv
  <1>3. stored' \in Nat
    BY DEF Land, AppsTypeInv, Outcomes, Failed
  <1>4. flight' \in [Incoming -> Flights]
    BY DEF Land, AppsTypeInv, Flight, Flights, None
  <1>5. /\ pc' \in [Calls -> {"idle", "waiting", "done"}]
        /\ answer' \in [Calls -> Outcomes]
    BY DEF Land, AppsTypeInv
  <1> QED BY <1>1, <1>2, <1>3, <1>4, <1>5 DEF Land, AppsTypeInv, versions

LEMMA AppsTypeNext == AppsTypeInv /\ [AppsNext]_appsVars => AppsTypeInv'
  <1> SUFFICES ASSUME AppsTypeInv, [AppsNext]_appsVars PROVE AppsTypeInv'
    OBVIOUS
  <1> USE InfraCallsAssumption, StaleAssumption
  <1>1. ASSUME NEW c \in Calls, Read(c) PROVE AppsTypeInv'
    <2> DEFINE q == Of[c]
    <2>1. PICK found \in Nat :
            /\ q \in Incoming
            /\ copy' = [copy EXCEPT ![c] = found]
            /\ recorded' = [recorded EXCEPT ![q] = RecordedOf(q, found)]
            /\ \/ /\ memo' = [memo EXCEPT ![q] = Memo("pending", None, found = None)]
                  /\ \E r \in Rides(q) :
                       /\ ride' = [ride EXCEPT ![q] = r]
                       /\ flight' = IF r = q THEN [flight EXCEPT ![q] = Started(q)] ELSE flight
                  /\ UNCHANGED stored
               \/ UNCHANGED <<memo, ride, flight, stored>>
               \/ /\ UNCHANGED <<memo, ride, flight>>
                  /\ stored' = IF memo[q].version = Failed THEN stored ELSE memo[q].version
            /\ \/ pc' = [pc EXCEPT ![c] = "waiting"] /\ UNCHANGED answer
               \/ /\ pc' = [pc EXCEPT ![c] = "done"]
                  /\ answer' = [answer EXCEPT ![c] = IF found # None THEN found ELSE memo[q].version]
            /\ UNCHANGED <<origin, inMemory, fetched, versions>>
      BY <1>1, ReadStep
    <2>2. /\ memo[q].version \in Outcomes
          /\ memo[q].version # Failed => memo[q].version \in Nat
          /\ found \in Outcomes
      BY <2>1 DEF AppsTypeInv, Memos, Outcomes
    <2>3. stored' \in Nat
      BY <2>1, <2>2 DEF AppsTypeInv
    <2>4. memo' \in [Incoming -> Memos]
      <3>1. memo' = memo \/ memo' = [memo EXCEPT ![q] = Memo("pending", None, found = None)]
        BY <2>1
      <3>2. \A b \in BOOLEAN : Memo("pending", None, b) \in Memos
        BY DEF Memo, Memos, Outcomes, None
      <3>3. Memo("pending", None, found = None) \in Memos
        BY <3>2
      <3> HIDE DEF q
      <3> QED BY <3>1, <3>3 DEF AppsTypeInv
    <2>5. /\ ride' \in [Incoming -> Incoming]
          /\ flight' \in [Incoming -> Flights]
      <3>1. \/ UNCHANGED <<ride, flight>>
            \/ \E r \in Rides(q) :
                 /\ ride' = [ride EXCEPT ![q] = r]
                 /\ flight' = IF r = q THEN [flight EXCEPT ![q] = Started(q)] ELSE flight
        BY <2>1
      <3>2. q \in Incoming /\ Rides(q) \subseteq Incoming
        BY <2>1 DEF Rides, Flying
      <3>3. Started(q) \in Flights
        BY <2>1, StartedType
      <3> HIDE DEF q
      <3>4. ride' \in [Incoming -> Incoming]
        BY <3>1, <3>2 DEF AppsTypeInv
      <3>5. flight' = flight \/ flight' = [flight EXCEPT ![q] = Started(q)]
        BY <3>1
      <3> QED BY <3>2, <3>3, <3>4, <3>5 DEF AppsTypeInv
    <2>6. recorded' \in [Incoming -> SUBSET Nat]
      <3> HIDE DEF q
      <3> QED BY <2>1 DEF AppsTypeInv, RecordedOf
    <2>7. /\ copy' \in [Calls -> Nat]
          /\ pc' \in [Calls -> {"idle", "waiting", "done"}]
          /\ answer' \in [Calls -> Outcomes]
      <3> HIDE DEF q
      <3>1. copy' \in [Calls -> Nat]
        BY <2>1 DEF AppsTypeInv
      <3>2. pc' = [pc EXCEPT ![c] = "waiting"] \/ pc' = [pc EXCEPT ![c] = "done"]
        BY <2>1
      <3>3. \/ UNCHANGED answer
            \/ answer' = [answer EXCEPT ![c] = found] \/ answer' = [answer EXCEPT ![c] = memo[q].version]
        BY <2>1
      <3> QED BY <3>1, <3>2, <3>3, <2>2 DEF AppsTypeInv
    <2> QED BY <2>1, <2>3, <2>4, <2>5, <2>6, <2>7 DEF AppsTypeInv, versions
  <1>2. ASSUME NEW q \in Incoming, Serve(q) PROVE AppsTypeInv'
    BY <1>2 DEF Serve, AppsTypeInv, versions, Flight, Flights
  <1>3. ASSUME NEW q \in Incoming, Arrive(q) \/ ArriveFromMemory(q) \/ Fail(q) PROVE AppsTypeInv'
    <2>1. LocaleOf[q] \in Locales /\ flight[q].version \in Nat
      BY DEF AppsTypeInv, Flights
    <2>2. /\ inMemory' \in [Locales -> Nat] /\ fetched' \in [Locales -> Nat]
      BY <1>3, <2>1 DEF Arrive, ArriveFromMemory, Fail, AppsTypeInv
    <2> QED BY <1>3, <2>1, <2>2, LandType DEF Arrive, ArriveFromMemory, Fail, Outcomes
  <1>4. CASE Change \/ Forget \/ \E l \in Locales : Expire(l)
    BY <1>4 DEF Change, Forget, Expire, AppsTypeInv, versions, None
  <1>5. CASE Evict
    BY <1>5 DEF Evict, AppsTypeInv, meta, None, AnyMinor
  <1>6. ASSUME NEW s \in Saves, SaveStarts(s) \/ SaveEnds(s) PROVE AppsTypeInv'
    <2>1. VersionOf[s] \in 0 .. AnyMinor /\ None \in 0 .. AnyMinor
      BY DEF AnyMinor, None
    <2> QED BY <1>6, <2>1 DEF SaveStarts, SaveEnds, AppsTypeInv, meta
  <1>7. CASE UNCHANGED appsVars
    BY <1>7 DEF appsVars, meta, versions, AppsTypeInv
  <1> QED BY <1>1, <1>2, <1>3, <1>4, <1>5, <1>6, <1>7 DEF AppsNext

(* The type of the state is an invariant.                                  *)
THEOREM AppsTypeCorrect == AppsSpec => []AppsTypeInv
  BY AppsTypeInit, AppsTypeNext, PTL DEF AppsSpec

-----------------------------------------------------------------------------
(* The memos settle once, with what a flight brought; what is recorded     *)
(* stays recorded.                                                         *)
LEMMA LandRecord ==
    ASSUME AppsTypeInv, RecordInv, NEW q \in Incoming, NEW version \in Outcomes, Land(q, version)
    PROVE  RecordInv'
  <1> DEFINE riders == {r \in Incoming : memo[r].state = "pending" /\ ride[r] = q}
  <1>1. /\ UNCHANGED copy
        /\ memo' = [r \in Incoming |-> IF r \in riders THEN [memo[r] EXCEPT !.state = "settled", !.version = version]
                                       ELSE memo[r]]
        /\ recorded' = [r \in Incoming |-> IF r \in riders /\ memo[r].records
                                           THEN recorded[r] \cup ({version} \ {Failed}) ELSE recorded[r]]
        /\ pc' = [c \in Calls |-> IF pc[c] = "waiting" /\ Of[c] \in riders THEN "done" ELSE pc[c]]
        /\ answer' = [c \in Calls |-> IF pc[c] = "waiting" /\ Of[c] \in riders THEN version ELSE answer[c]]
    BY DEF Land
  <1>2. \A r \in Incoming :
          /\ memo[r] \in Memos /\ recorded[r] \subseteq recorded'[r]
          /\ memo'[r].records = memo[r].records
          /\ r \notin riders => memo'[r] = memo[r]
          /\ r \in riders => /\ memo[r].state = "pending"
                             /\ memo'[r].state = "settled" /\ memo'[r].version = version
                             /\ memo[r].records /\ version # Failed => version \in recorded'[r]
    <2> SUFFICES ASSUME NEW r \in Incoming
                 PROVE  /\ memo[r] \in Memos /\ recorded[r] \subseteq recorded'[r]
                        /\ memo'[r].records = memo[r].records
                        /\ r \notin riders => memo'[r] = memo[r]
                        /\ r \in riders => /\ memo[r].state = "pending"
                                           /\ memo'[r].state = "settled" /\ memo'[r].version = version
                                           /\ memo[r].records /\ version # Failed => version \in recorded'[r]
      OBVIOUS
    <2>1. memo[r] \in Memos
      BY DEF AppsTypeInv
    <2>2. /\ memo'[r] = IF r \in riders THEN [memo[r] EXCEPT !.state = "settled", !.version = version] ELSE memo[r]
          /\ recorded'[r] = IF r \in riders /\ memo[r].records
                            THEN recorded[r] \cup ({version} \ {Failed}) ELSE recorded[r]
      BY <1>1
    <2>3. LET settled == [memo[r] EXCEPT !.state = "settled", !.version = version] IN
          settled.state = "settled" /\ settled.version = version /\ settled.records = memo[r].records
      BY <2>1 DEF Memos
    <2> QED BY <2>1, <2>2, <2>3
  <1>3. ASSUME NEW c \in Calls PROVE CallInv(c)'
    <2>1. Of[c] \in Incoming /\ CallInv(c)
      BY InfraCallsAssumption DEF RecordInv
    <2>2. /\ pc'[c] = IF pc[c] = "waiting" /\ Of[c] \in riders THEN "done" ELSE pc[c]
          /\ answer'[c] = IF pc[c] = "waiting" /\ Of[c] \in riders THEN version ELSE answer[c]
      BY <1>1
    <2> HIDE DEF riders
    <2> QED BY <1>1, <1>2, <2>1, <2>2 DEF CallInv
  <1>4. ASSUME NEW r \in Incoming PROVE MemoInv(r)'
    <2>1. MemoInv(r)
      BY DEF RecordInv
    <2> HIDE DEF riders
    <2> QED BY <1>1, <1>2, <2>1 DEF MemoInv
  <1> QED BY <1>3, <1>4 DEF RecordInv

LEMMA ReadRecord ==
    ASSUME AppsTypeInv, RecordInv, NEW c \in Calls, Read(c)
    PROVE  RecordInv'
  <1> DEFINE q == Of[c]
  <1>0. PICK found \in Nat :
          /\ q \in Incoming /\ pc[c] = "idle"
          /\ copy' = [copy EXCEPT ![c] = found]
          /\ recorded' = [recorded EXCEPT ![q] = RecordedOf(q, found)]
          /\ \/ memo[q].state = "none" /\ memo' = [memo EXCEPT ![q] = Memo("pending", None, found = None)]
             \/ memo[q].state # "none" /\ UNCHANGED memo
          /\ \/ found = None /\ memo[q].state # "settled"
                /\ pc' = [pc EXCEPT ![c] = "waiting"] /\ UNCHANGED answer
             \/ /\ found # None \/ memo[q].state = "settled"
                /\ pc' = [pc EXCEPT ![c] = "done"]
                /\ answer' = [answer EXCEPT ![c] = IF found # None THEN found ELSE memo[q].version]
    BY ReadStep
  <1> HIDE DEF q
  <1>1. copy'[c] = found /\ \A d \in Calls : d # c => copy'[d] = copy[d] /\ pc'[d] = pc[d] /\ answer'[d] = answer[d]
    BY <1>0 DEF AppsTypeInv
  <1>2. /\ \A r \in Incoming : recorded[r] \subseteq recorded'[r]
        /\ found # None => found \in recorded'[q]
    BY <1>0 DEF AppsTypeInv, RecordedOf
  <1>3. /\ \A r \in Incoming : r # q => memo'[r] = memo[r]
        /\ memo[q].state # "none" => memo'[q] = memo[q]
        /\ memo[q].state = "none" => /\ memo'[q].state = "pending"
                                     /\ ~memo'[q].records => found # None
    <2>1. CASE memo[q].state # "none"
      BY <1>0, <2>1
    <2>2. CASE memo' = [memo EXCEPT ![q] = Memo("pending", None, found = None)]
      <3>1. /\ memo'[q] = Memo("pending", None, found = None)
            /\ \A r \in Incoming : r # q => memo'[r] = memo[r]
        BY <1>0, <2>2 DEF AppsTypeInv
      <3>2. memo'[q].state = "pending" /\ memo'[q].records = (found = None)
        BY <3>1 DEF Memo
      <3> QED BY <1>0, <3>1, <3>2
    <2> QED BY <1>0, <2>1, <2>2
  <1>4. copy[c] = None
    BY <1>0 DEF RecordInv, CallInv
  <1>5. ASSUME NEW d \in Calls PROVE CallInv(d)'
    <2>1. Of[d] \in Incoming /\ CallInv(d)
      BY InfraCallsAssumption DEF RecordInv
    <2>2. memo[Of[d]].state = "settled" => memo'[Of[d]] = memo[Of[d]]
      BY <1>3, <2>1
    <2>3. CASE d = c
      <3>1. Of[c] = q
        BY DEF q
      <3>2. \/ /\ found = None /\ memo[q].state # "settled" /\ answer'[c] = answer[c]
            \/ /\ found # None \/ memo[q].state = "settled"
               /\ pc'[c] = "done" /\ answer'[c] = IF found # None THEN found ELSE memo[q].version
        BY <1>0 DEF AppsTypeInv
      <3> QED BY <1>1, <1>2, <1>4, <2>1, <2>2, <2>3, <3>1, <3>2 DEF CallInv
    <2>4. CASE d # c
      BY <1>1, <1>2, <2>1, <2>2, <2>4 DEF CallInv
    <2> QED BY <2>3, <2>4
  <1>6. ASSUME NEW r \in Incoming PROVE MemoInv(r)'
    <2>1. MemoInv(r)
      BY DEF RecordInv
    <2>2. (\E d \in Calls : Of[d] = r /\ copy[d] # None) => (\E d \in Calls : Of[d] = r /\ copy'[d] # None)
      BY <1>1, <1>4
    <2>3. CASE r # q \/ memo[q].state # "none"
      BY <1>2, <1>3, <2>1, <2>2, <2>3 DEF MemoInv
    <2>4. CASE r = q /\ memo[q].state = "none"
      <3>1. Of[c] = q
        BY DEF q
      <3> QED BY <1>1, <1>3, <2>4, <3>1 DEF MemoInv
    <2> QED BY <2>3, <2>4
  <1> QED BY <1>5, <1>6 DEF RecordInv

LEMMA RecordNext == AppsTypeInv /\ RecordInv /\ [AppsNext]_appsVars => RecordInv'
  <1> SUFFICES ASSUME AppsTypeInv, RecordInv, [AppsNext]_appsVars PROVE RecordInv'
    OBVIOUS
  <1>1. ASSUME NEW q \in Incoming, Arrive(q) \/ ArriveFromMemory(q) \/ Fail(q) PROVE RecordInv'
    <2>1. flight[q].version \in Outcomes /\ Failed \in Outcomes
      BY DEF AppsTypeInv, Flights, Outcomes
    <2> QED BY <1>1, <2>1, LandRecord DEF Arrive, ArriveFromMemory, Fail
  <1>2. ASSUME UNCHANGED <<pc, copy, answer, memo, recorded>> PROVE RecordInv'
    BY <1>2 DEF RecordInv, CallInv, MemoInv
  <1>3. ASSUME NEW q \in Incoming, Serve(q) PROVE RecordInv'
    BY <1>2, <1>3 DEF Serve
  <1>4. CASE Change \/ Forget \/ Evict \/ (\E l \in Locales : Expire(l)) \/ UNCHANGED appsVars
    BY <1>2, <1>4 DEF Change, Forget, Evict, Expire, meta, appsVars
  <1>5. ASSUME NEW s \in Saves, SaveStarts(s) \/ SaveEnds(s) PROVE RecordInv'
    BY <1>2, <1>5 DEF SaveStarts, SaveEnds, meta
  <1> QED BY <1>1, <1>3, <1>4, <1>5, ReadRecord DEF AppsNext

(* The metadata of every answer is recorded in its incoming request, but   *)
(* for what a call without a copy takes from a memo that a call with a     *)
(* copy has asked for.                                                     *)
THEOREM AnswersAreRecorded == AppsSpec => []AnswerRecorded
  <1>1. AppsInit => RecordInv
    BY InfraCallsAssumption DEF AppsInit, RecordInv, CallInv, MemoInv, Memo, None
  <1>2. AppsTypeInv /\ RecordInv => AnswerRecorded
    <2> SUFFICES ASSUME AppsTypeInv, RecordInv,
                        NEW c \in Calls, answer[c] > None, answer[c] \notin recorded[Of[c]]
                 PROVE  /\ copy[c] = None /\ memo[Of[c]].version = answer[c]
                        /\ \E d \in Calls : Of[d] = Of[c] /\ copy[d] # None /\ answer[d] = copy[d]
      BY DEF AnswerRecorded
    <2>1. Of[c] \in Incoming /\ CallInv(c) /\ MemoInv(Of[c])
      BY InfraCallsAssumption DEF RecordInv
    <2>2. copy[c] = None /\ memo[Of[c]].state = "settled" /\ memo[Of[c]].version = answer[c]
      BY <2>1 DEF CallInv
    <2>3. answer[c] # Failed
      BY DEF AppsTypeInv, None, Failed
    <2>4. PICK d \in Calls : Of[d] = Of[c] /\ copy[d] # None
      BY <2>1, <2>2, <2>3 DEF MemoInv
    <2>5. answer[d] = copy[d]
      BY <2>4 DEF RecordInv, CallInv
    <2> QED BY <2>2, <2>4, <2>5
  <1> QED BY <1>1, <1>2, RecordNext, AppsTypeCorrect, PTL DEF AppsSpec

-----------------------------------------------------------------------------
(* Where the version on disk may come from: a memo, or a flight.           *)
LEMMA KnownGrows ==
    ASSUME AppsTypeInv, NEW version \in Int, Known(version),
           fetched' \in [Locales -> Nat], \A l \in Locales : fetched[l] <= fetched'[l]
    PROVE  version <= None \/ \E l \in Locales : version <= fetched'[l]
  <1>1. CASE version <= None
    BY <1>1
  <1>2. ASSUME NEW l \in Locales, version <= fetched[l] PROVE version <= fetched'[l]
    <2>1. fetched[l] \in Nat /\ fetched'[l] \in Nat /\ fetched[l] <= fetched'[l]
      BY DEF AppsTypeInv
    <2> QED BY <1>2, <2>1
  <1> QED BY <1>1, <1>2 DEF Known

(* A flight lands: nothing flies any more, what it brought may be stored   *)
(* and memoized.                                                           *)
LEMMA LandOrder ==
    ASSUME AppsTypeInv, OrderInv, NEW q \in Incoming, NEW version \in Outcomes, Land(q, version),
           flight[q].state # "none", FetchedInv',
           fetched' \in [Locales -> Nat], \A l \in Locales : fetched[l] <= fetched'[l],
           version # Failed => \E l \in Locales : version <= fetched'[l]
    PROVE  OrderInv'
  <1>1. /\ UNCHANGED origin
        /\ stored' = IF version = Failed THEN stored ELSE version
        /\ flight' = [flight EXCEPT ![q] = Flight("none", None)]
    BY DEF Land
  <1>2. \A r \in Incoming : flight'[r].state = "none"
    BY <1>1 DEF OrderInv, OneFlightInv, AppsTypeInv, Flight
  <1>3. Known(version)'
    BY DEF Known, Failed, None
  <1>4. Known(stored)'
    <2>1. stored \in Int /\ Known(stored)
      BY DEF AppsTypeInv, OrderInv
    <2> QED BY <1>1, <1>3, <2>1, KnownGrows DEF Known
  <1>5. ASSUME NEW r \in Incoming, memo'[r].state = "settled" PROVE Known(memo[r].version)'
    <2>1. memo[r] \in Memos
      BY DEF AppsTypeInv
    <2>2. \/ memo'[r] = memo[r]
          \/ memo'[r] = [memo[r] EXCEPT !.state = "settled", !.version = version]
      BY DEF Land
    <2>3. CASE memo'[r] = memo[r]
      <3>1. memo[r].version \in Int /\ Known(memo[r].version)
        BY <1>5, <2>1, <2>3 DEF OrderInv, Memos, Outcomes, Failed
      <3> QED BY <2>3, <3>1, KnownGrows DEF Known
    <2>4. CASE memo'[r].version = version
      BY <1>3, <2>4 DEF Known
    <2> QED BY <2>1, <2>2, <2>3, <2>4 DEF Memos
  <1> QED BY <1>2, <1>4, <1>5 DEF OrderInv, OneFlightInv, FlightOrder

LEMMA ArrivalOrder ==
    ASSUME AppsTypeInv, OrderInv, NEW q \in Incoming,
           Arrive(q) \/ ArriveFromMemory(q) \/ Fail(q)
    PROVE  OrderInv'
  <1> DEFINE l == LocaleOf[q]
  <1>0. /\ l \in Locales /\ q \in Incoming /\ flight[q].version \in Nat
        /\ FlightOrder(q) /\ FetchedInv /\ origin \in Nat
        /\ \A k \in Locales : fetched[k] \in Nat /\ inMemory[k] \in Nat
    BY InfraCallsAssumption DEF OrderInv, AppsTypeInv, Flights
  <1>1. CASE Arrive(q)
    <2> DEFINE version == flight[q].version
    <2>1. /\ flight[q].state = "served" /\ Land(q, version) /\ UNCHANGED origin
          /\ fetched' = [fetched EXCEPT ![l] = version]
          /\ inMemory' = [inMemory EXCEPT ![l] = version] \/ inMemory' = [inMemory EXCEPT ![l] = inMemory[l]]
      BY <1>1 DEF Arrive, Land
    <2>2. version <= origin /\ \A k \in Locales : fetched[k] <= version
      BY <1>0, <2>1 DEF FlightOrder
    <2>3. /\ fetched' \in [Locales -> Nat] /\ fetched'[l] = version
          /\ \A k \in Locales : k # l => fetched'[k] = fetched[k] /\ inMemory'[k] = inMemory[k]
          /\ inMemory'[l] \in {version, inMemory[l]}
      BY <1>0, <2>1 DEF AppsTypeInv
    <2>4. \A k \in Locales : fetched[k] <= fetched'[k]
      BY <1>0, <2>2, <2>3
    <2>5. inMemory'[l] \in {None, version}
      BY <1>0, <2>1, <2>3 DEF FlightOrder
    <2>6. FetchedInv'
      BY <1>0, <2>1, <2>2, <2>3, <2>5 DEF FetchedInv
    <2>7. version \in Outcomes /\ version <= fetched'[l]
      BY <1>0, <2>3 DEF Outcomes
    <2> QED BY <1>0, <2>1, <2>3, <2>4, <2>6, <2>7, LandOrder
  <1>2. CASE ArriveFromMemory(q)
    <2>1. /\ flight[q].state = "hit" /\ Land(q, flight[q].version) /\ UNCHANGED <<origin, inMemory, fetched>>
      BY <1>2 DEF ArriveFromMemory, Land
    <2>2. flight[q].version \in Outcomes /\ flight[q].version <= fetched'[l]
      BY <1>0, <2>1 DEF FlightOrder, Outcomes
    <2>3. FetchedInv' /\ fetched' \in [Locales -> Nat] /\ \A k \in Locales : fetched[k] <= fetched'[k]
      BY <1>0, <2>1 DEF FetchedInv, AppsTypeInv
    <2> QED BY <1>0, <2>1, <2>2, <2>3, LandOrder
  <1>3. CASE Fail(q)
    <2>1. /\ flight[q].state # "none" /\ Land(q, Failed) /\ UNCHANGED <<origin, inMemory, fetched>>
      BY <1>3 DEF Fail, Land
    <2>2. FetchedInv' /\ fetched' \in [Locales -> Nat] /\ \A k \in Locales : fetched[k] <= fetched'[k]
      BY <1>0, <2>1 DEF FetchedInv, AppsTypeInv
    <2>3. Failed \in Outcomes
      BY DEF Outcomes
    <2> QED BY <2>1, <2>2, <2>3, LandOrder
  <1> QED BY <1>1, <1>2, <1>3

LEMMA ReadOrder ==
    ASSUME AppsTypeInv, OrderInv, NEW c \in Calls, Read(c)
    PROVE  OrderInv'
  <1> DEFINE q == Of[c]
  <1>0. /\ q \in Incoming /\ UNCHANGED <<origin, inMemory, fetched>>
        /\ \/ /\ memo[q].state = "none"
              /\ \E b : memo' = [memo EXCEPT ![q] = Memo("pending", None, b)]
              /\ \E r \in Rides(q) :
                   flight' = IF r = q THEN [flight EXCEPT ![q] = Started(q)] ELSE flight
              /\ UNCHANGED stored
           \/ UNCHANGED <<memo, flight, stored>>
           \/ /\ memo[q].state = "settled" /\ UNCHANGED <<memo, flight>>
              /\ stored' = IF memo[q].version = Failed THEN stored ELSE memo[q].version
    BY ReadStep
  <1> HIDE DEF q
  <1>1. CASE UNCHANGED <<memo, flight, stored>>
    BY <1>0, <1>1 DEF OrderInv, OneFlightInv, FetchedInv, FlightOrder, Known
  <1>2. CASE /\ memo[q].state = "settled" /\ UNCHANGED <<memo, flight>>
             /\ stored' = IF memo[q].version = Failed THEN stored ELSE memo[q].version
    BY <1>0, <1>2 DEF OrderInv, OneFlightInv, FetchedInv, FlightOrder, Known
  <1>3. CASE /\ memo[q].state = "none" /\ UNCHANGED stored
             /\ \E b : memo' = [memo EXCEPT ![q] = Memo("pending", None, b)]
             /\ \E r \in Rides(q) :
                  flight' = IF r = q THEN [flight EXCEPT ![q] = Started(q)] ELSE flight
    <2>1. \A r \in Incoming : memo'[r].state = "settled" => memo'[r] = memo[r]
      BY <1>0, <1>3 DEF AppsTypeInv, Memo
    <2>2. PICK r \in Rides(q) : flight' = IF r = q THEN [flight EXCEPT ![q] = Started(q)] ELSE flight
      BY <1>3
    <2>3. \A s \in Incoming : flight'[s] = flight[s] \/ (r = q /\ s = q /\ flight'[s] = Started(q))
      BY <1>0, <2>2 DEF AppsTypeInv
    <2>4. r = q => \A s \in Incoming : flight[s].state # "none" => s = q
      <3>1. SUFFICES ASSUME r = q, NEW s \in Incoming, flight[s].state # "none" PROVE s = q
        OBVIOUS
      <3>2. s \in Flying
        BY <3>1 DEF Flying
      <3>3. q \in Flying
        BY <2>2, <3>1, <3>2 DEF Rides
      <3> QED BY <1>0, <3>1, <3>3 DEF Flying, OrderInv, OneFlightInv
    <2>5. OneFlightInv'
      BY <1>0, <2>3, <2>4 DEF OrderInv, OneFlightInv
    <2>6. Known(stored)' /\ \A s \in Incoming : memo'[s].state = "settled" => Known(memo[s].version)
      BY <1>0, <1>3, <2>1 DEF OrderInv, Known
    <2>7. \A s \in Incoming : memo'[s].state = "settled" => Known(memo[s].version)'
      BY <1>0, <2>1, <2>6 DEF Known
    <2>8. ASSUME NEW s \in Incoming PROVE FlightOrder(s)'
      <3>1. CASE flight'[s] = flight[s]
        BY <1>0, <3>1 DEF OrderInv, FlightOrder
      <3>2. CASE s = q /\ flight'[s] = Started(q)
        <4>1. LocaleOf[q] \in Locales /\ inMemory[LocaleOf[q]] \in {None, fetched[LocaleOf[q]]}
          BY <1>0, InfraCallsAssumption DEF OrderInv, FetchedInv
        <4> QED BY <1>0, <3>2, <4>1, StartedType DEF FlightOrder
      <3> QED BY <2>3, <3>1, <3>2
    <2> QED BY <1>0, <2>1, <2>5, <2>6, <2>7, <2>8 DEF OrderInv, FetchedInv
  <1> QED BY <1>0, <1>1, <1>2, <1>3

LEMMA OrderNext == AppsTypeInv /\ OrderInv /\ [AppsNext]_appsVars => OrderInv'
  <1> SUFFICES ASSUME AppsTypeInv, OrderInv, [AppsNext]_appsVars PROVE OrderInv'
    OBVIOUS
  <1>0. /\ origin \in Nat
        /\ \A l \in Locales : fetched[l] \in Nat /\ inMemory[l] \in Nat
        /\ \A q \in Incoming : flight[q].version \in Nat
    BY DEF AppsTypeInv, Flights
  <1>1. ASSUME NEW q \in Incoming, Arrive(q) \/ ArriveFromMemory(q) \/ Fail(q) PROVE OrderInv'
    BY <1>1, ArrivalOrder
  <1>2. ASSUME NEW q \in Incoming, Serve(q) PROVE OrderInv'
    <2>1. /\ flight[q].state = "sent" /\ UNCHANGED <<origin, stored, memo, inMemory, fetched>>
          /\ flight'[q] = Flight("served", origin)
          /\ \A r \in Incoming : r # q => flight'[r] = flight[r]
      BY <1>2 DEF Serve, AppsTypeInv
    <2>2. flight'[q].version = origin /\ flight'[q].state = "served"
      BY <2>1 DEF Flight
    <2>3. OneFlightInv'
      BY <2>1 DEF OrderInv, OneFlightInv
    <2>4. ASSUME NEW r \in Incoming PROVE FlightOrder(r)'
      BY <1>0, <2>1, <2>2 DEF OrderInv, FlightOrder, FetchedInv
    <2> QED BY <2>1, <2>3, <2>4 DEF OrderInv, FetchedInv, Known
  <1>3. CASE Change
    <2>1. origin' = origin + 1 /\ UNCHANGED <<stored, memo, flight, inMemory, fetched>>
      BY <1>3 DEF Change
    <2>2. FetchedInv'
      BY <1>0, <2>1 DEF OrderInv, FetchedInv
    <2>3. ASSUME NEW q \in Incoming PROVE FlightOrder(q)'
      BY <1>0, <2>1 DEF OrderInv, FlightOrder
    <2> QED BY <2>1, <2>2, <2>3 DEF OrderInv, OneFlightInv, Known
  <1>4. CASE Forget
    <2>1. stored' = None /\ UNCHANGED <<origin, memo, flight, inMemory, fetched>>
      BY <1>4 DEF Forget
    <2> QED BY <2>1 DEF OrderInv, OneFlightInv, FetchedInv, FlightOrder, Known, None
  <1>5. ASSUME NEW l \in Locales, Expire(l) PROVE OrderInv'
    <2>1. /\ UNCHANGED <<origin, stored, memo, flight, fetched>>
          /\ \A k \in Locales : inMemory'[k] \in {None, inMemory[k]}
      BY <1>5 DEF Expire, AppsTypeInv
    <2>2. FetchedInv'
      BY <2>1 DEF OrderInv, FetchedInv
    <2>3. ASSUME NEW q \in Incoming PROVE FlightOrder(q)'
      BY <2>1, InfraCallsAssumption DEF OrderInv, FlightOrder
    <2> QED BY <2>1, <2>2, <2>3 DEF OrderInv, OneFlightInv, Known
  <1>6. ASSUME UNCHANGED <<origin, stored, memo, flight, inMemory, fetched>> PROVE OrderInv'
    BY <1>6 DEF OrderInv, OneFlightInv, FetchedInv, FlightOrder, Known
  <1>7. CASE Evict \/ UNCHANGED appsVars
    BY <1>6, <1>7 DEF Evict, meta, appsVars
  <1>8. ASSUME NEW s \in Saves, SaveStarts(s) \/ SaveEnds(s) PROVE OrderInv'
    BY <1>6, <1>8 DEF SaveStarts, SaveEnds, meta
  <1> QED BY <1>1, <1>2, <1>3, <1>4, <1>5, <1>7, <1>8, ReadOrder DEF AppsNext

(* How the list may go back: by what a request has in memo; by what memory *)
(* kept for its locale, while another locale fetched the newer.            *)
GoesBackByMemo == \E c \in Calls : pc[c] = "idle" /\ pc'[c] = "done" /\ memo[Of[c]].version = stored'
GoesBackByMemory ==
    \E q \in Incoming :
       /\ flight[q].state = "hit" /\ flight'[q].state = "none"
       /\ fetched[LocaleOf[q]] = stored'
       /\ \E l \in Locales \ {LocaleOf[q]} : fetched[l] >= stored

(* The list on disk goes back to an older one only when a call stores what *)
(* its incoming request has in memo, or what memory kept for its locale    *)
(* while another locale fetched the newer: what is fetched is never older. *)
THEOREM BackByCopy == AppsSpec => BackOnlyByCopy
  <1>1. AppsInit => OrderInv
    BY DEF AppsInit, OrderInv, OneFlightInv, FetchedInv, FlightOrder, Known, Memo, Flight, None
  <1>2. AppsTypeInv /\ OrderInv /\ [AppsNext]_appsVars =>
          [stored' # None /\ stored' < stored => GoesBackByMemo \/ GoesBackByMemory]_appsVars
    <2> SUFFICES ASSUME AppsTypeInv, OrderInv, AppsNext, stored' # None, stored' < stored
                 PROVE  GoesBackByMemo \/ GoesBackByMemory
      OBVIOUS
    <2>0. stored \in Nat /\ stored' # stored
      BY DEF AppsTypeInv
    <2>1. ASSUME NEW c \in Calls, Read(c) PROVE GoesBackByMemo
      <3>1. /\ pc[c] = "idle" /\ memo[Of[c]].state = "settled"
            /\ stored' = IF memo[Of[c]].version = Failed THEN stored ELSE memo[Of[c]].version
            /\ pc' = [pc EXCEPT ![c] = "done"]
        BY <2>0, <2>1, ReadStep
      <3> QED BY <2>0, <3>1 DEF AppsTypeInv, GoesBackByMemo
    <2>2. ASSUME NEW q \in Incoming, Serve(q) \/ Arrive(q) \/ ArriveFromMemory(q) \/ Fail(q)
          PROVE  GoesBackByMemory
      <3>1. /\ flight[q].state \in {"served", "hit"} /\ stored' = flight[q].version
            /\ flight' = [flight EXCEPT ![q] = Flight("none", None)]
        BY <2>0, <2>2 DEF Serve, Arrive, ArriveFromMemory, Fail, Land
      <3>2. PICK l \in Locales : stored <= fetched[l]
        <4>1. Known(stored) /\ flight[q].version \in Nat
          BY DEF OrderInv, AppsTypeInv, Flights
        <4>2. stored > 0
          BY <2>0, <3>1, <4>1
        <4> QED BY <2>0, <4>1, <4>2 DEF Known, None
      <3>3. fetched[l] \in Nat /\ flight[q].version \in Nat
        BY DEF AppsTypeInv, Flights
      <3>4. FlightOrder(q)
        BY DEF OrderInv
      <3>5. flight[q].state = "hit" /\ flight[q].version = fetched[LocaleOf[q]]
        BY <2>0, <3>1, <3>2, <3>3, <3>4 DEF FlightOrder
      <3>6. flight'[q].state = "none"
        BY <3>1 DEF AppsTypeInv, Flight
      <3>7. l # LocaleOf[q] /\ fetched[l] >= stored
        BY <2>0, <3>1, <3>2, <3>3, <3>5
      <3> QED BY <3>1, <3>5, <3>6, <3>7 DEF GoesBackByMemory
    <2>3. CASE Change \/ Forget \/ Evict \/ \E l \in Locales : Expire(l)
      BY <2>0, <2>3 DEF Change, Forget, Evict, Expire, meta
    <2>4. ASSUME NEW s \in Saves, SaveStarts(s) \/ SaveEnds(s) PROVE FALSE
      BY <2>0, <2>4 DEF SaveStarts, SaveEnds, meta
    <2> QED BY <2>1, <2>2, <2>3, <2>4 DEF AppsNext
  <1>3. AppsSpec => []OrderInv
    BY <1>1, OrderNext, AppsTypeCorrect, PTL DEF AppsSpec
  <1> QED BY <1>2, <1>3, AppsTypeCorrect, PTL DEF AppsSpec, BackOnlyByCopy, GoesBackByMemo, GoesBackByMemory

(* The version saved is lowered only by a save that had read another than  *)
(* the one it replaces.                                                    *)
THEOREM LoweredByOverlap == AppsSpec => LoweredOnlyByOverlap
  <1>1. AppsTypeInv /\ [AppsNext]_appsVars =>
          [saved' # None /\ saved # None /\ saved' < saved
           => \E s \in Saves : seen[s] # None /\ seen[s] # saved]_appsVars
    <2> SUFFICES ASSUME AppsTypeInv, AppsNext, saved' # None, saved # None, saved' < saved
                 PROVE  \E s \in Saves : seen[s] # None /\ seen[s] # saved
      OBVIOUS
    <2>0. saved \in 0 .. AnyMinor /\ saved' # saved /\ AnyMinor \in Nat
      BY StaleAssumption DEF AppsTypeInv, AnyMinor
    <2>1. ASSUME NEW s \in Saves, SaveStarts(s) \/ SaveEnds(s)
          PROVE  seen[s] # None /\ seen[s] # saved
      <3>1. seen[s] # None /\ Higher(s) /\ saved' = VersionOf[s]
        BY <2>0, <2>1 DEF SaveStarts, SaveEnds
      <3>2. VersionOf[s] # AnyMinor
        BY <2>0, <3>1
      <3>3. VersionOf[s] > seen[s]
        BY <3>1, <3>2 DEF Higher
      <3>4. VersionOf[s] \in Int /\ seen[s] \in Int
        BY StaleAssumption DEF AppsTypeInv
      <3> QED BY <2>0, <3>1, <3>3, <3>4
    <2>2. ASSUME NEW c \in Calls, Read(c) PROVE FALSE
      BY <2>0, <2>2 DEF Read, versions
    <2>3. ASSUME NEW q \in Incoming, Serve(q) \/ Arrive(q) \/ ArriveFromMemory(q) \/ Fail(q) PROVE FALSE
      BY <2>0, <2>3 DEF Serve, Arrive, ArriveFromMemory, Fail, Land, versions
    <2>4. CASE Change \/ Forget \/ Evict \/ \E l \in Locales : Expire(l)
      BY <2>0, <2>4 DEF Change, Forget, Evict, Expire, versions
    <2> QED BY <2>1, <2>2, <2>3, <2>4 DEF AppsNext
  <1> QED BY <1>1, AppsTypeCorrect, PTL DEF AppsSpec, LoweredOnlyByOverlap

-----------------------------------------------------------------------------
(* What a merge is (VBaseConflicts).  The lists are of any length: what    *)
(* holds of a fold is shown of what it has come to after each item, from   *)
(* that after the one before, and so for all of them, as there would be a  *)
(* first it does not hold of.                                              *)
(* Some number of any set of them is the least: of the intervals up to     *)
(* them, finite sets, one includes no other.                               *)
LEMMA LeastNumber ==
    ASSUME NEW T, T \subseteq Nat, T # {}
    PROVE  \E n \in T : \A m \in T : n <= m
  <1> DEFINE Below == {0 .. n : n \in T}
  <1>1. IsWellFoundedOn(StrictSubsetOrdering(Nat), FiniteSubsetsOf(Nat))
    BY FS_StrictSubsetOrderingWellFounded
  <1>2. Below \subseteq FiniteSubsetsOf(Nat)
    <2>1. ASSUME NEW n \in T PROVE 0 .. n \in FiniteSubsetsOf(Nat)
      <3>1. n \in Int /\ 0 \in Int /\ 0 .. n \in SUBSET Nat
        OBVIOUS
      <3>2. IsFiniteSet(0 .. n)
        BY <3>1, FS_Interval
      <3> QED BY <3>1, <3>2 DEF FiniteSubsetsOf
    <2> QED BY <2>1
  <1>3. Below # {}
    OBVIOUS
  <1>4. PICK least \in Below : \A below \in Below : <<below, least>> \notin StrictSubsetOrdering(Nat)
    <2> HIDE DEF Below
    <2> QED BY <1>1, <1>2, <1>3, WFMin
  <1>5. PICK n \in T : least = 0 .. n
    BY <1>4
  <1>6. ASSUME NEW m \in T, ~(n <= m) PROVE FALSE
    <2>1. 0 .. m \in Below /\ 0 .. m \subseteq 0 .. n /\ n \in 0 .. n /\ n \notin 0 .. m
      BY <1>6
    <2>2. 0 .. m \in SUBSET Nat /\ 0 .. n \in SUBSET Nat
      OBVIOUS
    <2>3. <<0 .. m, 0 .. n>> \in StrictSubsetOrdering(Nat)
      BY <2>1, <2>2 DEF StrictSubsetOrdering
    <2> QED BY <1>4, <1>5, <2>1, <2>3
  <1> QED BY <1>6

(* What holds of 0 and passes on to the next number holds up to any n.     *)
LEMMA Upwards ==
    ASSUME NEW n \in Nat, NEW T, 0 \in T, \A i \in 1 .. n : i - 1 \in T => i \in T
    PROVE  0 .. n \subseteq T
  <1> SUFFICES ASSUME NEW k \in 0 .. n, k \notin T PROVE FALSE
    OBVIOUS
  <1> DEFINE Bad == {i \in 0 .. n : i \notin T}
  <1>1. Bad \subseteq Nat /\ Bad # {}
    OBVIOUS
  <1>2. PICK i \in Bad : \A j \in Bad : i <= j
    <2> HIDE DEF Bad
    <2> QED BY <1>1, LeastNumber
  <1>3. i \in 0 .. n /\ i # 0 /\ i \notin T
    BY <1>2
  <1>4. i \in 1 .. n /\ i - 1 \in 0 .. n /\ ~(i <= i - 1)
    BY <1>3
  <1> QED BY <1>2, <1>3, <1>4

(* The last place of an interval, and of any set of places.                *)
LEMMA LastOfInterval ==
    ASSUME NEW i \in Nat, i > 0
    PROVE  Max(1 .. i) = i /\ (1 .. i) \ {i} = 1 .. i - 1 /\ 1 .. i # {}
  <1>1. \A x \in 1 .. i : (\A y \in 1 .. i : x >= y) => x = i
    OBVIOUS
  <1>2. i \in 1 .. i /\ \A y \in 1 .. i : i >= y
    OBVIOUS
  <1> QED BY <1>1, <1>2 DEF Max

LEMMA MaxIn ==
    ASSUME NEW n \in Nat, NEW s \in SUBSET (1 .. n), s # {}
    PROVE  Max(s) \in s /\ \A y \in s : y <= Max(s)
  <1> DEFINE Above == {n - x : x \in s}
  <1>1. Above \subseteq Nat /\ Above # {}
    OBVIOUS
  <1>2. PICK d \in Above : \A e \in Above : d <= e
    <2> HIDE DEF Above
    <2> QED BY <1>1, LeastNumber
  <1>3. PICK x \in s : d = n - x
    BY <1>2
  <1>4. \A y \in s : x >= y
    <2> SUFFICES ASSUME NEW y \in s PROVE x >= y
      OBVIOUS
    <2>1. n - y \in Above
      OBVIOUS
    <2> QED BY <1>2, <1>3, <2>1
  <1>5. \A y \in s : y \in 1 .. n
    OBVIOUS
  <1>6. \A y \in s : (\A z \in s : y >= z) => y = x
    BY <1>4, <1>5
  <1>7. Max(s) = x
    BY <1>4, <1>6 DEF Max
  <1> QED BY <1>4, <1>5, <1>7

(* A fold of n steps, each of a type, as a function of the set of places;  *)
(* and what it has come to after each of them.                             *)
Steps(step, n, V) == step \in [1 .. n -> [V -> V]]
Folds(g, n, V, start, step) ==
    /\ g \in [SUBSET (1 .. n) -> V]
    /\ \A s \in SUBSET (1 .. n) : g[s] = IF s = {} THEN start ELSE step[Max(s)][g[s \ {Max(s)}]]
Follows(iter, n, V, step) ==
    \A i \in 1 .. n : iter[1 .. i - 1] \in V => iter[1 .. i] = step[i][iter[1 .. i - 1]]
Runs(h, n, V, start, step, end) ==
    /\ h \in [0 .. n -> V]
    /\ h[0] = start /\ h[n] = end
    /\ \A i \in 1 .. n : h[i] = step[i][h[i - 1]]

(* A fold whose steps keep a type is defined on every set of places.       *)
LEMMA FoldExists ==
    ASSUME NEW n \in Nat, NEW V, NEW start \in V, NEW step, Steps(step, n, V)
    PROVE  \E g : Folds(g, n, V, start, step)
  <1> USE DEF Steps
  <1> DEFINE Good(g, k) == g \in [SUBSET (1 .. k) -> V] /\ \A s \in SUBSET (1 .. k) :
              g[s] = IF s = {} THEN start ELSE step[Max(s)][g[s \ {Max(s)}]]
             T == {k \in 0 .. n : \E g : Good(g, k)}
  <1>1. 0 \in T
    <2> DEFINE g == [s \in SUBSET (1 .. 0) |-> start]
    <2>1. SUBSET (1 .. 0) = {{}}
      OBVIOUS
    <2>2. Good(g, 0)
      BY <2>1
    <2> HIDE DEF Good
    <2> QED BY <2>2
  <1>2. ASSUME NEW k \in 1 .. n, k - 1 \in T PROVE k \in T
    <2>1. PICK g : Good(g, k - 1)
      BY <1>2
    <2> DEFINE h == [s \in SUBSET (1 .. k) |-> IF k \in s THEN step[k][g[s \ {k}]] ELSE g[s]]
    <2>2. \A s \in SUBSET (1 .. k) : s \ {k} \in SUBSET (1 .. k - 1) /\ (k \notin s => s \in SUBSET (1 .. k - 1))
      OBVIOUS
    <2>3. h \in [SUBSET (1 .. k) -> V]
      <3>1. \A s \in SUBSET (1 .. k - 1) : g[s] \in V
        BY <2>1
      <3>2. \A v \in V : step[k][v] \in V
        OBVIOUS
      <3> HIDE DEF Good
      <3> QED BY <2>2, <3>1, <3>2
    <2>4. ASSUME NEW s \in SUBSET (1 .. k), k \in s
          PROVE  h[s] = IF s = {} THEN start ELSE step[Max(s)][h[s \ {Max(s)}]]
      <3>1. Max(s) = k
        <4>1. k \in Nat /\ s \in SUBSET (1 .. k) /\ s # {}
          BY <2>4
        <4>2. Max(s) \in s /\ k <= Max(s)
          BY <2>4, <4>1, MaxIn
        <4>3. Max(s) \in 1 .. k
          BY <4>1, <4>2
        <4> QED BY <4>2, <4>3
      <3>2. h[s \ {k}] = g[s \ {k}]
        BY <2>2
      <3>3. h[s] = step[k][g[s \ {k}]]
        BY <2>4
      <3> HIDE DEF h
      <3> QED BY <3>1, <3>2, <3>3, <2>4
    <2>5. ASSUME NEW s \in SUBSET (1 .. k), k \notin s
          PROVE  h[s] = IF s = {} THEN start ELSE step[Max(s)][h[s \ {Max(s)}]]
      <3>1. s \in SUBSET (1 .. k - 1) /\ h[s] = g[s]
        BY <2>2, <2>5
      <3>2. h[s \ {Max(s)}] = g[s \ {Max(s)}] /\ s \ {Max(s)} \in SUBSET (1 .. k - 1)
        BY <3>1, <2>5
      <3>3. g[s] = IF s = {} THEN start ELSE step[Max(s)][g[s \ {Max(s)}]]
        BY <2>1, <3>1
      <3> HIDE DEF h, Good
      <3> QED BY <3>1, <3>2, <3>3
    <2>6. Good(h, k)
      <3> HIDE DEF h
      <3> QED BY <2>3, <2>4, <2>5
    <2> HIDE DEF h, Good
    <2> QED BY <2>6
  <1>3. 0 .. n \subseteq T
    <2> HIDE DEF T
    <2> QED BY <1>1, <1>2, Upwards
  <1>4. PICK g : Good(g, n)
    <2> HIDE DEF Good
    <2> QED BY <1>3
  <1> QED BY <1>4 DEF Folds

(* Such a fold runs through its places in their order.                     *)
LEMMA FoldRuns ==
    ASSUME NEW n \in Nat, NEW V, NEW start \in V, NEW step, NEW iter,
           Steps(step, n, V), iter[{}] = start, Follows(iter, n, V, step)
    PROVE  \E h : Runs(h, n, V, start, step, iter[1 .. n])
  <1> USE DEF Steps, Follows
  <1> DEFINE T == {i \in 0 .. n : iter[1 .. i] \in V}
             h == [i \in 0 .. n |-> iter[1 .. i]]
  <1>1. 1 .. 0 = {} /\ 0 \in 0 .. n /\ n \in 0 .. n /\ \A i \in 1 .. n : i \in 0 .. n /\ i - 1 \in 0 .. n
    OBVIOUS
  <1>2. 0 .. n \subseteq T
    <2>1. 0 \in T
      BY <1>1
    <2>2. ASSUME NEW i \in 1 .. n, i - 1 \in T PROVE i \in T
      BY <1>1, <2>2
    <2> HIDE DEF T
    <2> QED BY <2>1, <2>2, Upwards
  <1>3. h \in [0 .. n -> V]
    BY <1>2
  <1>4. h[0] = start /\ h[n] = iter[1 .. n]
    BY <1>1
  <1>5. \A i \in 1 .. n : h[i] = step[i][h[i - 1]]
    BY <1>1, <1>2
  <1> QED BY <1>3, <1>4, <1>5 DEF Runs

(* What RemoveMasterDeleted has made of mine after each item of the base.  *)
Removal(h, I, b, ma, m) ==
    /\ h \in [0 .. Len(b) -> Seq(I)]
    /\ h[0] = m /\ h[Len(b)] = RemoveMasterDeleted(b, ma, m)
    /\ \A i \in 1 .. Len(b) :
          h[i] = IF b[i] \in ToSet(ma) THEN h[i - 1] ELSE RemoveFirst(h[i - 1], b[i])
LEMMA RemovalRuns ==
    ASSUME NEW I, NEW b \in Seq(I), NEW ma, NEW m \in Seq(I),
           \A s \in Seq(I), x \in I : RemoveFirst(s, x) \in Seq(I)
    PROVE  \E h : Removal(h, I, b, ma, m)
  <1> DEFINE n == Len(b)
             V == Seq(I)
             After(x, s) == IF x \in ToSet(ma) THEN s ELSE RemoveFirst(s, x)
             step == [i \in 1 .. n |-> [s \in V |-> After(b[i], s)]]
             iter == CHOOSE f : f = [s \in SUBSET (1 .. n) |-> IF s = {} THEN m ELSE After(b[Max(s)], f[s \ {Max(s)}])]
  <1>1. n \in Nat /\ DOMAIN b = 1 .. n /\ \A i \in 1 .. n : b[i] \in I
    OBVIOUS
  <1>2. iter[1 .. n] = RemoveMasterDeleted(b, ma, m)
    BY <1>1 DEF RemoveMasterDeleted, FoldLeft, MapThenFoldSet
  <1>3. \A i \in 1 .. n : \A s \in V : After(b[i], s) \in V
    BY <1>1
  <1>4. m \in V
    OBVIOUS
  <1> HIDE DEF n, V, After
  <1>5. step \in [1 .. n -> [V -> V]] /\ \A i \in 1 .. n : \A s \in V : step[i][s] = After(b[i], s)
    BY <1>3
  <1> HIDE DEF step
  <1>6. PICK g : Folds(g, n, V, m, step)
    <2>1. Steps(step, n, V)
      BY <1>5 DEF Steps
    <2> QED BY <1>1, <1>4, <2>1, FoldExists
  <1>7. \A s \in SUBSET (1 .. n) : s # {} => Max(s) \in 1 .. n /\ s \ {Max(s)} \in SUBSET (1 .. n)
    BY <1>1, MaxIn
  <1>8. g = [s \in SUBSET (1 .. n) |-> IF s = {} THEN m ELSE After(b[Max(s)], g[s \ {Max(s)}])]
    BY <1>5, <1>6, <1>7 DEF Folds
  <1>9. iter = [s \in SUBSET (1 .. n) |-> IF s = {} THEN m ELSE After(b[Max(s)], iter[s \ {Max(s)}])]
    BY <1>8
  <1> HIDE DEF iter
  <1>10. ASSUME NEW i \in 1 .. n PROVE iter[1 .. i] = After(b[i], iter[1 .. i - 1])
    <2>1. i \in Nat /\ i > 0 /\ 1 .. i \in SUBSET (1 .. n)
      BY <1>1
    <2> QED BY <1>9, <2>1, LastOfInterval
  <1>11. iter[{}] = m
    BY <1>9
  <1>12. PICK h : Runs(h, n, V, m, step, iter[1 .. n])
    <2>1. Steps(step, n, V) /\ Follows(iter, n, V, step)
      BY <1>5, <1>10 DEF Steps, Follows
    <2> QED BY <1>1, <1>4, <1>11, <2>1, FoldRuns
  <1>13. \A i \in 1 .. n : h[i] = After(b[i], h[i - 1])
    <2>1. \A i \in 1 .. n : i - 1 \in 0 .. n
      BY <1>1
    <2> QED BY <1>5, <1>12, <2>1 DEF Runs
  <1> QED BY <1>2, <1>12, <1>13 DEF Runs, Removal, n, V, After

(* What AppendMasterAdded has made of mine after each item of the master.  *)
Addition(h, I, b, ma, m) ==
    /\ h \in [0 .. Len(ma) -> Seq(I)]
    /\ h[0] = m /\ h[Len(ma)] = AppendMasterAdded(b, ma, m)
    /\ \A i \in 1 .. Len(ma) :
          h[i] = IF ShouldAddToMine(ma[i], b, h[i - 1]) THEN Append(h[i - 1], ma[i]) ELSE h[i - 1]
LEMMA AdditionRuns ==
    ASSUME NEW I, NEW b, NEW ma \in Seq(I), NEW m \in Seq(I)
    PROVE  \E h : Addition(h, I, b, ma, m)
  <1> DEFINE n == Len(ma)
             V == Seq(I)
             After(x, s) == IF ShouldAddToMine(x, b, s) THEN Append(s, x) ELSE s
             step == [i \in 1 .. n |-> [s \in V |-> After(ma[i], s)]]
             iter == CHOOSE f : f = [s \in SUBSET (1 .. n) |-> IF s = {} THEN m ELSE After(ma[Max(s)], f[s \ {Max(s)}])]
  <1>1. n \in Nat /\ DOMAIN ma = 1 .. n /\ \A i \in 1 .. n : ma[i] \in I
    OBVIOUS
  <1>2. iter[1 .. n] = AppendMasterAdded(b, ma, m)
    BY <1>1 DEF AppendMasterAdded, FoldLeft, MapThenFoldSet
  <1>3. \A i \in 1 .. n : \A s \in V : After(ma[i], s) \in V
    BY <1>1
  <1>4. m \in V
    OBVIOUS
  <1> HIDE DEF n, V, After
  <1>5. step \in [1 .. n -> [V -> V]] /\ \A i \in 1 .. n : \A s \in V : step[i][s] = After(ma[i], s)
    BY <1>3
  <1> HIDE DEF step
  <1>6. PICK g : Folds(g, n, V, m, step)
    <2>1. Steps(step, n, V)
      BY <1>5 DEF Steps
    <2> QED BY <1>1, <1>4, <2>1, FoldExists
  <1>7. \A s \in SUBSET (1 .. n) : s # {} => Max(s) \in 1 .. n /\ s \ {Max(s)} \in SUBSET (1 .. n)
    BY <1>1, MaxIn
  <1>8. g = [s \in SUBSET (1 .. n) |-> IF s = {} THEN m ELSE After(ma[Max(s)], g[s \ {Max(s)}])]
    BY <1>5, <1>6, <1>7 DEF Folds
  <1>9. iter = [s \in SUBSET (1 .. n) |-> IF s = {} THEN m ELSE After(ma[Max(s)], iter[s \ {Max(s)}])]
    BY <1>8
  <1> HIDE DEF iter
  <1>10. ASSUME NEW i \in 1 .. n PROVE iter[1 .. i] = After(ma[i], iter[1 .. i - 1])
    <2>1. i \in Nat /\ i > 0 /\ 1 .. i \in SUBSET (1 .. n)
      BY <1>1
    <2> QED BY <1>9, <2>1, LastOfInterval
  <1>11. iter[{}] = m
    BY <1>9
  <1>12. PICK h : Runs(h, n, V, m, step, iter[1 .. n])
    <2>1. Steps(step, n, V) /\ Follows(iter, n, V, step)
      BY <1>5, <1>10 DEF Steps, Follows
    <2> QED BY <1>1, <1>4, <1>11, <2>1, FoldRuns
  <1>13. \A i \in 1 .. n : h[i] = After(ma[i], h[i - 1])
    <2>1. \A i \in 1 .. n : i - 1 \in 0 .. n
      BY <1>1
    <2> QED BY <1>5, <1>12, <2>1 DEF Runs
  <1> QED BY <1>2, <1>12, <1>13 DEF Runs, Addition, n, V, After

(* The list t is s without what is at p.                                   *)
Closed(s, t, p) ==
    /\ Len(t) = Len(s) - 1
    /\ \A j \in 1 .. Len(s) - 1 : t[j] = IF j < p THEN s[j] ELSE s[j + 1]

(* The first item of a list that is x, removed.                            *)
LEMMA FirstRemoved ==
    ASSUME NEW I, NEW s \in Seq(I), NEW x, x \in ToSet(s)
    PROVE  /\ RemoveFirst(s, x) \in Seq(I)
           /\ \E p \in DOMAIN s : s[p] = x /\ Closed(s, RemoveFirst(s, x), p)
  <1> DEFINE places == {i \in 1 .. Len(s) : s[i] = x}
  <1>1. DOMAIN s = 1 .. Len(s) /\ Len(s) \in Nat
    OBVIOUS
  <1>2. places \subseteq Nat /\ places # {}
    BY <1>1 DEF ToSet
  <1>3. PICK p \in places : \A i \in places : p <= i
    <2> HIDE DEF places
    <2> QED BY <1>2, LeastNumber
  <1>4. Min(places) \in places
    BY <1>3 DEF Min
  <1> DEFINE q == Min(places)
  <1>5. q \in 1 .. Len(s) /\ s[q] = x
    BY <1>4
  <1>6. RemoveFirst(s, x) = SubSeq(s, 1, q - 1) \o SubSeq(s, q + 1, Len(s))
    BY <1>2, <1>5 DEF RemoveFirst, RemoveAt, SelectInSeq
  <1> HIDE DEF q
  <1>7. /\ SubSeq(s, 1, q - 1) \in Seq(I) /\ Len(SubSeq(s, 1, q - 1)) = q - 1
        /\ \A j \in 1 .. q - 1 : SubSeq(s, 1, q - 1)[j] = s[j]
    BY <1>1, <1>5
  <1>8. /\ SubSeq(s, q + 1, Len(s)) \in Seq(I) /\ Len(SubSeq(s, q + 1, Len(s))) = Len(s) - q
        /\ \A j \in 1 .. Len(s) - q : SubSeq(s, q + 1, Len(s))[j] = s[j + q]
    <2>1. q + 1 \in Int /\ Len(s) \in Int /\ \A i \in q + 1 .. Len(s) : s[i] \in I
      BY <1>1, <1>5
    <2>2. /\ SubSeq(s, q + 1, Len(s)) \in Seq(I)
          /\ Len(SubSeq(s, q + 1, Len(s))) = IF q + 1 <= Len(s) THEN Len(s) - (q + 1) + 1 ELSE 0
          /\ \A j \in 1 .. Len(s) - (q + 1) + 1 : SubSeq(s, q + 1, Len(s))[j] = s[(q + 1) + j - 1]
      BY ONLY <2>1, SubSeqProperties
    <2> DEFINE n == Len(s)
    <2>0. n \in Nat /\ q \in 1 .. n
      BY <1>1, <1>5
    <2> HIDE DEF n
    <2>3. (IF q + 1 <= n THEN n - (q + 1) + 1 ELSE 0) = n - q
      BY ONLY <2>0
    <2>4. ASSUME NEW j \in 1 .. Len(s) - q PROVE SubSeq(s, q + 1, Len(s))[j] = s[j + q]
      <3>1. j \in 1 .. n - (q + 1) + 1 /\ (q + 1) + j - 1 = j + q
        BY ONLY <2>0, <2>4 DEF n
      <3>2. SubSeq(s, q + 1, Len(s))[j] = s[(q + 1) + j - 1]
        BY ONLY <2>2, <3>1 DEF n
      <3> QED BY ONLY <3>1, <3>2
    <2> QED BY ONLY <2>2, <2>3, <2>4 DEF n
  <1> DEFINE t == SubSeq(s, 1, q - 1)
             u == SubSeq(s, q + 1, Len(s))
  <1>9. /\ t \o u \in Seq(I) /\ Len(t \o u) = Len(s) - 1
        /\ \A j \in 1 .. Len(s) - 1 : (t \o u)[j] = IF j < q THEN s[j] ELSE s[j + 1]
    <2>1. t \in Seq(I) /\ u \in Seq(I) /\ Len(t) = q - 1 /\ Len(u) = Len(s) - q
      BY <1>7, <1>8
    <2>2. \A j \in 1 .. q - 1 : t[j] = s[j]
      BY <1>7
    <2>3. \A j \in 1 .. Len(s) - q : u[j] = s[j + q]
      BY <1>8
    <2> HIDE DEF t, u
    <2>4. t \o u \in Seq(I) /\ Len(t \o u) = Len(s) - 1
      <3>1. t \o u \in Seq(I) /\ Len(t \o u) = Len(t) + Len(u)
        BY <2>1, ConcatProperties
      <3> QED BY <1>1, <1>5, <2>1, <3>1
    <2>5. \A j \in 1 .. Len(s) - 1 : (t \o u)[j] = IF j < q THEN t[j] ELSE u[j - (q - 1)]
      BY <1>1, <1>5, <2>1, ConcatProperties
    <2>6. ASSUME NEW j \in 1 .. Len(s) - 1, ~(j < q) PROVE u[j - (q - 1)] = s[j + 1]
      <3>1. j - (q - 1) \in 1 .. Len(s) - q /\ (j - (q - 1)) + q = j + 1
        BY <1>1, <1>5, <2>6
      <3> QED BY <2>3, <3>1
    <2>7. ASSUME NEW j \in 1 .. Len(s) - 1, j < q PROVE t[j] = s[j]
      BY <1>1, <1>5, <2>2, <2>7
    <2> QED BY <2>4, <2>5, <2>6, <2>7
  <1> QED BY <1>1, <1>5, <1>6, <1>9 DEF Closed

(* Removing brings no item, keeps the type, and does nothing if there is   *)
(* no such item.                                                           *)
LEMMA RemovedItems ==
    ASSUME NEW I, NEW s \in Seq(I), NEW x, x \in ToSet(s)
    PROVE  ToSet(RemoveFirst(s, x)) \subseteq ToSet(s)
  <1> DEFINE t == RemoveFirst(s, x)
  <1>1. t \in Seq(I) /\ \E p \in DOMAIN s : s[p] = x /\ Closed(s, t, p)
    BY FirstRemoved
  <1> HIDE DEF t
  <1>2. PICK p \in DOMAIN s : Closed(s, t, p)
    BY <1>1
  <1>3. DOMAIN s = 1 .. Len(s) /\ Len(s) \in Nat /\ DOMAIN t = 1 .. Len(s) - 1
    BY <1>1, <1>2 DEF Closed
  <1>4. ASSUME NEW j \in DOMAIN t PROVE t[j] \in ToSet(s)
    <2>1. j \in DOMAIN s /\ j + 1 \in DOMAIN s /\ (t[j] = s[j] \/ t[j] = s[j + 1])
      BY <1>2, <1>3 DEF Closed
    <2> QED BY <2>1 DEF ToSet
  <1> QED BY <1>4 DEF ToSet, t

LEMMA RemovedType ==
    ASSUME NEW I
    PROVE  \A s \in Seq(I), x \in I : RemoveFirst(s, x) \in Seq(I)
  <1> SUFFICES ASSUME NEW s \in Seq(I), NEW x \in I PROVE RemoveFirst(s, x) \in Seq(I)
    OBVIOUS
  <1>1. CASE x \in ToSet(s)
    BY <1>1, FirstRemoved
  <1>2. CASE x \notin ToSet(s)
    <2>1. RemoveFirst(s, x) = s
      BY <1>2 DEF RemoveFirst, ToSet
    <2> QED BY <2>1
  <1> QED BY <1>1, <1>2

LEMMA NothingRemoved ==
    ASSUME NEW I, NEW s \in Seq(I), NEW x, x \notin ToSet(s)
    PROVE  RemoveFirst(s, x) = s
  BY DEF RemoveFirst, ToSet

(* What is to stay of mine stays in its order (InOrder): when one that is  *)
(* to go is removed, when an item is appended, and in mine itself.         *)
LEMMA OrderKeptByRemoval ==
    ASSUME NEW I, NEW m \in Seq(I), NEW s \in Seq(I), NEW deleted, NEW x \in deleted,
           InOrder(m, deleted, s)
    PROVE  InOrder(m, deleted, RemoveFirst(s, x))
  <1>1. CASE x \notin ToSet(s)
    BY <1>1, NothingRemoved
  <1>2. CASE x \in ToSet(s)
    <2> DEFINE t == RemoveFirst(s, x)
               kept == {i \in DOMAIN m : m[i] \notin deleted}
    <2>0. t \in Seq(I) /\ \E p \in DOMAIN s : s[p] = x /\ Closed(s, t, p)
      BY <1>2, FirstRemoved
    <2>1. PICK p \in DOMAIN s :
              /\ s[p] = x
              /\ t \in Seq(I) /\ Len(t) = Len(s) - 1
              /\ \A j \in 1 .. Len(s) - 1 : t[j] = IF j < p THEN s[j] ELSE s[j + 1]
      BY <2>0 DEF Closed
    <2>2. PICK place \in [kept -> DOMAIN s] :
              /\ \A i \in kept : s[place[i]] = m[i]
              /\ \A i, j \in kept : i < j => place[i] < place[j]
              /\ \A n \in DOMAIN s, j \in kept :
                    n < place[j] => s[n] \in deleted \/ \E i \in kept : n = place[i]
      BY DEF InOrder
    <2>3. DOMAIN s = 1 .. Len(s) /\ Len(s) \in Nat /\ DOMAIN m \subseteq Nat
      OBVIOUS
    <2>4. \A i \in kept : m[i] \notin deleted
      OBVIOUS
    <2> HIDE DEF t, kept
    <2>5. DOMAIN t = 1 .. Len(s) - 1
      BY <2>1, <2>3
    <2>6. \A i \in kept : place[i] \in 1 .. Len(s) /\ place[i] # p
      BY <2>1, <2>2, <2>3, <2>4
    <2> DEFINE moved == [i \in kept |-> IF place[i] < p THEN place[i] ELSE place[i] - 1]
    <2>7. moved \in [kept -> DOMAIN t]
      <3>1. \A i \in kept : (IF place[i] < p THEN place[i] ELSE place[i] - 1) \in 1 .. Len(s) - 1
        BY <2>1, <2>3, <2>6
      <3> QED BY <2>5, <3>1
    <2>8. \A i \in kept : t[moved[i]] = m[i]
      <3> SUFFICES ASSUME NEW i \in kept PROVE t[moved[i]] = m[i]
        OBVIOUS
      <3>1. CASE place[i] < p
        <4>1. moved[i] = place[i] /\ place[i] \in 1 .. Len(s) - 1
          BY <2>1, <2>3, <2>6, <3>1
        <4> QED BY <2>1, <2>2, <3>1, <4>1
      <3>2. CASE ~(place[i] < p)
        <4>1. moved[i] = place[i] - 1 /\ place[i] - 1 \in 1 .. Len(s) - 1 /\ ~(place[i] - 1 < p)
              /\ (place[i] - 1) + 1 = place[i]
          BY <2>1, <2>3, <2>6, <3>2
        <4>2. t[place[i] - 1] = s[(place[i] - 1) + 1]
          BY <2>1, <4>1
        <4> QED BY <2>2, <4>1, <4>2
      <3> QED BY <3>1, <3>2
    <2>9. \A i, j \in kept : i < j => moved[i] < moved[j]
      <3> SUFFICES ASSUME NEW i \in kept, NEW j \in kept, i < j PROVE moved[i] < moved[j]
        OBVIOUS
      <3>1. place[i] < place[j]
        BY <2>2
      <3> QED BY <2>3, <2>6, <3>1
    <2>10. ASSUME NEW n \in DOMAIN t, NEW j \in kept, n < moved[j], t[n] \notin deleted
           PROVE  \E i \in kept : n = moved[i]
      <3> DEFINE o == IF n < p THEN n ELSE n + 1
      <3>1. n \in 1 .. Len(s) - 1 /\ p \in 1 .. Len(s)
        BY <2>3, <2>5
      <3>2. o \in DOMAIN s /\ s[o] = t[n]
        BY <2>1, <2>3, <3>1
      <3>3. o < place[j]
        BY <2>6, <2>10, <3>1
      <3>4. PICK i \in kept : o = place[i]
        <4> HIDE DEF o
        <4> QED BY <2>2, <2>10, <3>2, <3>3
      <3>5. moved[i] = n
        BY <3>1, <3>4
      <3> QED BY <3>5
    <2> HIDE DEF moved
    <2> QED BY <2>7, <2>8, <2>9, <2>10 DEF InOrder, t, kept
  <1> QED BY <1>1, <1>2

LEMMA OrderKeptByAddition ==
    ASSUME NEW I, NEW m \in Seq(I), NEW s \in Seq(I), NEW deleted, NEW x \in I,
           InOrder(m, deleted, s)
    PROVE  InOrder(m, deleted, Append(s, x))
  <1> DEFINE t == Append(s, x)
             kept == {i \in DOMAIN m : m[i] \notin deleted}
  <1>1. PICK place \in [kept -> DOMAIN s] :
            /\ \A i \in kept : s[place[i]] = m[i]
            /\ \A i, j \in kept : i < j => place[i] < place[j]
            /\ \A n \in DOMAIN s, j \in kept :
                  n < place[j] => s[n] \in deleted \/ \E i \in kept : n = place[i]
    BY DEF InOrder
  <1>2. /\ DOMAIN s = 1 .. Len(s) /\ Len(s) \in Nat /\ DOMAIN t = 1 .. Len(s) + 1
        /\ \A n \in DOMAIN s : t[n] = s[n]
    OBVIOUS
  <1> HIDE DEF t, kept
  <1>3. place \in [kept -> DOMAIN t]
    BY <1>2
  <1>4. \A i \in kept : t[place[i]] = m[i]
    BY <1>1, <1>2
  <1>5. ASSUME NEW n \in DOMAIN t, NEW j \in kept, n < place[j]
        PROVE  t[n] \in deleted \/ \E i \in kept : n = place[i]
    <2>1. n \in DOMAIN s
      BY <1>2, <1>5
    <2> QED BY <1>1, <1>2, <1>5, <2>1
  <1> QED BY <1>1, <1>3, <1>4, <1>5 DEF InOrder, t, kept

LEMMA InOrderItself ==
    ASSUME NEW I, NEW m \in Seq(I), NEW deleted
    PROVE  InOrder(m, deleted, m)
  <1> DEFINE kept == {i \in DOMAIN m : m[i] \notin deleted}
             place == [i \in kept |-> i]
  <1>1. place \in [kept -> DOMAIN m]
    OBVIOUS
  <1>2. \A n \in DOMAIN m : m[n] \in deleted \/ n \in kept
    OBVIOUS
  <1>3. \A i \in kept : place[i] = i
    OBVIOUS
  <1> HIDE DEF place
  <1> QED BY <1>1, <1>2, <1>3 DEF InOrder

(* Where an item is in a list; how often, as items are removed and added.  *)
At(list, x) == {i \in DOMAIN list : list[i] = x}
LEMMA PlacesFinite ==
    ASSUME NEW I, NEW s \in Seq(I), NEW x
    PROVE  /\ IsFiniteSet(At(s, x)) /\ Occurrences(s, x) = Cardinality(At(s, x))
           /\ Occurrences(s, x) \in Nat /\ (Occurrences(s, x) > 0 <=> x \in ToSet(s))
  <1>1. DOMAIN s = 1 .. Len(s) /\ Len(s) \in Int /\ 1 \in Int
    OBVIOUS
  <1>2. IsFiniteSet(DOMAIN s)
    BY <1>1, FS_Interval
  <1>3. At(s, x) \in SUBSET (DOMAIN s)
    BY DEF At
  <1>4. IsFiniteSet(At(s, x))
    BY <1>2, <1>3, FS_Subset
  <1>5. Cardinality(At(s, x)) \in Nat /\ (Cardinality(At(s, x)) = 0 <=> At(s, x) = {})
    BY <1>4, FS_CardinalityType, FS_EmptySet
  <1>6. At(s, x) = {} <=> x \notin ToSet(s)
    BY DEF At, ToSet
  <1>7. Occurrences(s, x) = Cardinality(At(s, x))
    BY DEF Occurrences, At
  <1> QED BY <1>4, <1>5, <1>6, <1>7

LEMMA OneFewer ==
    ASSUME NEW I, NEW s \in Seq(I), NEW x, x \in ToSet(s), NEW y
    PROVE  Occurrences(RemoveFirst(s, x), y) = Occurrences(s, y) - (IF y = x THEN 1 ELSE 0)
  <1> DEFINE t == RemoveFirst(s, x)
  <1>0. t \in Seq(I) /\ \E p \in DOMAIN s : s[p] = x /\ Closed(s, t, p)
    BY FirstRemoved
  <1> HIDE DEF t
  <1>1. PICK p \in DOMAIN s :
            /\ s[p] = x
            /\ Len(t) = Len(s) - 1
            /\ \A j \in 1 .. Len(s) - 1 : t[j] = IF j < p THEN s[j] ELSE s[j + 1]
    BY <1>0 DEF Closed
  <1>2. DOMAIN s = 1 .. Len(s) /\ Len(s) \in Nat /\ DOMAIN t = 1 .. Len(s) - 1
    BY <1>0, <1>1
  <1> DEFINE J == At(t, y)
             K == At(s, y) \ {p}
             f == [j \in J |-> IF j < p THEN j ELSE j + 1]
  <1>3. \A j \in J : j \in 1 .. Len(s) - 1 /\ t[j] = y
    BY <1>2 DEF At
  <1>4. \A j \in J : (IF j < p THEN j ELSE j + 1) \in K
    BY <1>1, <1>2, <1>3 DEF At
  <1>5. f \in Injection(J, K)
    <2>1. f \in [J -> K]
      BY <1>4
    <2>2. \A i, j \in J : f[i] = f[j] => i = j
      BY <1>2, <1>3
    <2> HIDE DEF f, J, K
    <2> QED BY <2>1, <2>2 DEF Injection, IsInjective
  <1>6. f \in Surjection(J, K)
    <2>1. f \in [J -> K]
      BY <1>4
    <2>2. ASSUME NEW i \in K PROVE \E j \in J : f[j] = i
      <3> DEFINE j == IF i < p THEN i ELSE i - 1
      <3>1. i \in 1 .. Len(s) /\ i # p /\ s[i] = y /\ p \in 1 .. Len(s)
        BY <1>2 DEF At
      <3>2. j \in 1 .. Len(s) - 1 /\ (IF j < p THEN j ELSE j + 1) = i
        BY <1>2, <3>1
      <3>3. t[j] = s[i]
        BY <1>1, <3>2
      <3>4. j \in J
        BY <1>2, <3>1, <3>2, <3>3 DEF At
      <3> QED BY <3>2, <3>4
    <2> HIDE DEF f, J, K
    <2> QED BY <2>1, <2>2 DEF Surjection
  <1>7. ExistsBijection(J, K)
    BY <1>5, <1>6 DEF ExistsBijection, Bijection
  <1>8. IsFiniteSet(J) /\ Cardinality(J) = Occurrences(t, y)
    BY <1>0, PlacesFinite
  <1>9. Cardinality(K) = Cardinality(J)
    <2> HIDE DEF J, K
    <2> QED BY <1>7, <1>8, FS_Bijection
  <1>10. /\ IsFiniteSet(At(s, y)) /\ Cardinality(At(s, y)) = Occurrences(s, y)
    BY PlacesFinite
  <1>11. Cardinality(K) = IF p \in At(s, y) THEN Cardinality(At(s, y)) - 1 ELSE Cardinality(At(s, y))
    BY <1>10, FS_RemoveElement
  <1>12. p \in At(s, y) <=> y = x
    BY <1>1 DEF At
  <1>13. Occurrences(s, y) \in Nat
    BY PlacesFinite
  <1> QED BY <1>8, <1>9, <1>10, <1>11, <1>12, <1>13 DEF t

LEMMA OthersAdded ==
    ASSUME NEW I, NEW s \in Seq(I), NEW x \in I, NEW y, y # x
    PROVE  Occurrences(Append(s, x), y) = Occurrences(s, y)
  <1>1. /\ DOMAIN s = 1 .. Len(s) /\ Len(s) \in Nat /\ DOMAIN Append(s, x) = 1 .. Len(s) + 1
        /\ \A n \in 1 .. Len(s) : Append(s, x)[n] = s[n]
        /\ Append(s, x)[Len(s) + 1] = x
    OBVIOUS
  <1>2. At(Append(s, x), y) = At(s, y)
    BY <1>1 DEF At
  <1> QED BY <1>2 DEF Occurrences, At

(* Where an item is in the first i places of a list.                       *)
UpTo(list, i, x) == {j \in 1 .. i : list[j] = x}
LEMMA OneMore ==
    ASSUME NEW list, NEW i \in Nat, i > 0, NEW x
    PROVE  /\ Cardinality(UpTo(list, i, x)) =
                Cardinality(UpTo(list, i - 1, x)) + (IF list[i] = x THEN 1 ELSE 0)
           /\ Cardinality(UpTo(list, i - 1, x)) \in Nat
  <1>1. IsFiniteSet(1 .. i - 1)
    BY FS_Interval
  <1>2. UpTo(list, i - 1, x) \in SUBSET (1 .. i - 1)
    BY DEF UpTo
  <1>3. IsFiniteSet(UpTo(list, i - 1, x))
    BY <1>1, <1>2, FS_Subset
  <1>4. Cardinality(UpTo(list, i - 1, x)) \in Nat
    BY <1>3, FS_CardinalityType
  <1>5. CASE list[i] = x
    <2>1. UpTo(list, i, x) = UpTo(list, i - 1, x) \cup {i} /\ i \notin UpTo(list, i - 1, x)
      BY <1>5 DEF UpTo
    <2>2. Cardinality(UpTo(list, i - 1, x) \cup {i}) = Cardinality(UpTo(list, i - 1, x)) + 1
      BY <1>3, <2>1, FS_AddElement
    <2> QED BY <1>4, <1>5, <2>1, <2>2
  <1>6. CASE list[i] # x
    <2>1. UpTo(list, i, x) = UpTo(list, i - 1, x)
      BY <1>6 DEF UpTo
    <2> QED BY <1>4, <1>6, <2>1
  <1> QED BY <1>4, <1>5, <1>6

(* What RemoveMasterDeleted leaves (r) of mine (m): all that is not to go, *)
(* in its order, and of what is to go what the base has not.               *)
Rest(n) == IF n > 0 THEN n ELSE 0
Left(I, b, deleted, m, r) ==
    /\ r \in Seq(I) /\ InOrder(m, deleted, r) /\ ToSet(r) \subseteq ToSet(m)
    /\ \A x \in deleted : Occurrences(r, x) = Rest(Occurrences(m, x) - Occurrences(b, x))
LEMMA RemovalWins ==
    ASSUME NEW I, NEW b \in Seq(I), NEW ma, NEW m \in Seq(I)
    PROVE  Left(I, b, ToSet(b) \ ToSet(ma), m, RemoveMasterDeleted(b, ma, m))
  <1> DEFINE n == Len(b)
             deleted == ToSet(b) \ ToSet(ma)
             Fewer(s, i) == \A x \in deleted :
                 Occurrences(s, x) = Rest(Occurrences(m, x) - Cardinality(UpTo(b, i, x)))
  <1>1. \A s \in Seq(I), x \in I : RemoveFirst(s, x) \in Seq(I)
    BY RemovedType
  <1>2. PICK h \in [0 .. n -> Seq(I)] :
            /\ h[0] = m /\ h[n] = RemoveMasterDeleted(b, ma, m)
            /\ \A i \in 1 .. n : h[i] = IF b[i] \in ToSet(ma) THEN h[i - 1] ELSE RemoveFirst(h[i - 1], b[i])
    <2>1. PICK h : Removal(h, I, b, ma, m)
      BY <1>1, RemovalRuns
    <2> QED BY <2>1 DEF Removal
  <1>3. n \in Nat /\ DOMAIN b = 1 .. n /\ ToSet(b) = {b[i] : i \in 1 .. n} /\ ToSet(b) \subseteq I
    BY DEF ToSet
  <1> DEFINE Good(i) == InOrder(m, deleted, h[i]) /\ ToSet(h[i]) \subseteq ToSet(m) /\ Fewer(h[i], i)
             T == {i \in 0 .. n : Good(i)}
  <1> HIDE DEF n
  <1>4. Good(0)
    <2>1. InOrder(m, deleted, m)
      BY InOrderItself
    <2>2. \A x : Cardinality(UpTo(b, 0, x)) = 0 /\ Occurrences(m, x) \in Nat
      <3>1. \A x : UpTo(b, 0, x) = {}
        BY DEF UpTo
      <3> QED BY <3>1, FS_EmptySet, PlacesFinite
    <2> QED BY <1>2, <2>1, <2>2 DEF Rest
  <1>5. ASSUME NEW i \in 1 .. n, Good(i - 1) PROVE Good(i)
    <2>0. i \in Nat /\ i > 0 /\ b[i] \in ToSet(b) /\ h[i - 1] \in Seq(I) /\ b[i] \in I /\ i - 1 \in 0 .. n
      BY <1>2, <1>3
    <2> DEFINE s == h[i - 1]
               y == b[i]
    <2>1. \A x : /\ Cardinality(UpTo(b, i, x)) = Cardinality(UpTo(b, i - 1, x)) + (IF y = x THEN 1 ELSE 0)
                 /\ Cardinality(UpTo(b, i - 1, x)) \in Nat
      BY <2>0, OneMore
    <2>2. \A x : Occurrences(m, x) \in Nat /\ Occurrences(s, x) \in Nat /\ (Occurrences(s, x) > 0 <=> x \in ToSet(s))
      BY <2>0, PlacesFinite
    <2>3. CASE y \in ToSet(ma)
      <3>1. h[i] = s /\ y \notin deleted
        BY <1>2, <2>3
      <3>2. Fewer(s, i)
        <4> SUFFICES ASSUME NEW x \in deleted
                     PROVE  Occurrences(s, x) = Rest(Occurrences(m, x) - Cardinality(UpTo(b, i, x)))
          OBVIOUS
        <4>1. y # x
          BY <3>1
        <4>2. Cardinality(UpTo(b, i, x)) = Cardinality(UpTo(b, i - 1, x))
          BY <2>1, <4>1
        <4> QED BY <1>5, <4>2
      <3> QED BY <1>5, <3>1, <3>2
    <2>4. CASE y \notin ToSet(ma)
      <3>1. h[i] = RemoveFirst(s, y) /\ y \in deleted
        BY <1>2, <2>0, <2>4
      <3> HIDE DEF deleted, y, s
      <3>2. InOrder(m, deleted, RemoveFirst(s, y))
        BY <1>5, <2>0, <3>1, OrderKeptByRemoval DEF y, s
      <3>3. CASE y \in ToSet(s)
        <4>1. ToSet(RemoveFirst(s, y)) \subseteq ToSet(s)
          BY <2>0, <3>3, RemovedItems DEF s
        <4>2. \A x : Occurrences(RemoveFirst(s, y), x) = Occurrences(s, x) - (IF x = y THEN 1 ELSE 0)
          BY <2>0, <3>3, OneFewer DEF s
        <4>3. Fewer(RemoveFirst(s, y), i)
          <5> SUFFICES ASSUME NEW x \in deleted
                       PROVE  Occurrences(RemoveFirst(s, y), x) = Rest(Occurrences(m, x) - Cardinality(UpTo(b, i, x)))
            OBVIOUS
          <5>1. Occurrences(s, x) = Rest(Occurrences(m, x) - Cardinality(UpTo(b, i - 1, x)))
            BY <1>5 DEF s
          <5>2. CASE x = y
            <6>1. Occurrences(s, x) > 0
              BY <2>2, <3>3, <5>2
            <6> QED BY <2>1, <2>2, <4>2, <5>1, <5>2, <6>1 DEF Rest
          <5>3. CASE x # y
            <6>1. Cardinality(UpTo(b, i, x)) = Cardinality(UpTo(b, i - 1, x))
              BY <2>1, <5>3
            <6>2. Occurrences(RemoveFirst(s, y), x) = Occurrences(s, x)
              BY <2>2, <4>2, <5>3
            <6> QED BY <5>1, <6>1, <6>2
          <5> QED BY <5>2, <5>3
        <4> QED BY <1>5, <3>1, <3>2, <4>1, <4>3 DEF s
      <3>4. CASE y \notin ToSet(s)
        <4>1. RemoveFirst(s, y) = s
          BY <2>0, <3>4, NothingRemoved DEF s
        <4>2. Fewer(s, i)
          <5> SUFFICES ASSUME NEW x \in deleted
                       PROVE  Occurrences(s, x) = Rest(Occurrences(m, x) - Cardinality(UpTo(b, i, x)))
            OBVIOUS
          <5>1. Occurrences(s, x) = Rest(Occurrences(m, x) - Cardinality(UpTo(b, i - 1, x)))
            BY <1>5 DEF s
          <5>2. CASE x = y
            <6>1. Occurrences(s, x) = 0
              BY <2>2, <3>4, <5>2
            <6> QED BY <2>1, <2>2, <5>1, <5>2, <6>1 DEF Rest
          <5>3. CASE x # y
            <6>1. Cardinality(UpTo(b, i, x)) = Cardinality(UpTo(b, i - 1, x))
              BY <2>1, <5>3
            <6> QED BY <5>1, <6>1
          <5> QED BY <5>2, <5>3
        <4> QED BY <1>5, <3>1, <3>2, <4>1, <4>2 DEF s
      <3> QED BY <3>3, <3>4
    <2> QED BY <2>3, <2>4
  <1>6. 0 .. n \subseteq T
    <2>1. n \in Nat /\ 0 \in T
      BY <1>3, <1>4
    <2>2. ASSUME NEW i \in 1 .. n, i - 1 \in T PROVE i \in T
      <3>1. i \in 0 .. n
        BY <1>3
      <3>2. Good(i - 1)
        BY <2>2
      <3> HIDE DEF Good
      <3> QED BY <1>5, <3>1, <3>2
    <2> HIDE DEF T
    <2> QED BY <2>1, <2>2, Upwards
  <1>7. Good(n)
    <2>1. n \in 0 .. n
      BY <1>3
    <2> HIDE DEF Good
    <2> QED BY <1>6, <2>1
  <1>8. \A x : UpTo(b, n, x) = At(b, x)
    BY <1>3 DEF UpTo, At
  <1>9. \A x : Cardinality(UpTo(b, n, x)) = Occurrences(b, x)
    BY <1>8, PlacesFinite
  <1>10. h[n] \in Seq(I)
    BY <1>2, <1>3
  <1> QED BY <1>2, <1>7, <1>9, <1>10 DEF Left

(* AppendMasterAdded adds of the master's what the base has not, unless    *)
(* there is one like it.                                                   *)
Matched(x, s) == \E other \in ToSet(s) : other = x \/ Like(x, other)
LEMMA AppendedItems ==
    ASSUME NEW I, NEW s \in Seq(I), NEW x \in I
    PROVE  Append(s, x) \in Seq(I) /\ ToSet(Append(s, x)) = ToSet(s) \cup {x}
  <1>1. /\ DOMAIN s = 1 .. Len(s) /\ Len(s) \in Nat /\ DOMAIN Append(s, x) = 1 .. Len(s) + 1
        /\ \A n \in 1 .. Len(s) : Append(s, x)[n] = s[n]
        /\ Append(s, x)[Len(s) + 1] = x
    OBVIOUS
  <1>2. ToSet(Append(s, x)) \subseteq ToSet(s) \cup {x}
    BY <1>1 DEF ToSet
  <1>3. ToSet(s) \subseteq ToSet(Append(s, x))
    BY <1>1 DEF ToSet
  <1>4. x \in ToSet(Append(s, x))
    <2>1. Len(s) + 1 \in DOMAIN Append(s, x)
      BY <1>1
    <2> QED BY <1>1, <2>1 DEF ToSet
  <1> QED BY <1>2, <1>3, <1>4

LEMMA AdditionWins ==
    ASSUME NEW I, NEW b, NEW ma \in Seq(I), NEW m \in Seq(I), NEW r \in Seq(I), NEW deleted, InOrder(m, deleted, r)
    PROVE  LET a == AppendMasterAdded(b, ma, r)
           IN  /\ a \in Seq(I) /\ InOrder(m, deleted, a)
               /\ ToSet(r) \subseteq ToSet(a) /\ ToSet(a) \subseteq ToSet(r) \cup (ToSet(ma) \ ToSet(b))
               /\ \A x \in ToSet(b) : Occurrences(a, x) = Occurrences(r, x)
               /\ \A x \in ToSet(ma) \ ToSet(b) : Matched(x, a)
  <1> DEFINE n == Len(ma)
  <1>1. PICK h \in [0 .. n -> Seq(I)] :
            /\ h[0] = r /\ h[n] = AppendMasterAdded(b, ma, r)
            /\ \A i \in 1 .. n :
                  h[i] = IF ShouldAddToMine(ma[i], b, h[i - 1]) THEN Append(h[i - 1], ma[i]) ELSE h[i - 1]
    <2>1. PICK h : Addition(h, I, b, ma, r)
      BY AdditionRuns
    <2> QED BY <2>1 DEF Addition
  <1>2. n \in Nat /\ DOMAIN ma = 1 .. n /\ ToSet(ma) = {ma[i] : i \in 1 .. n} /\ ToSet(ma) \subseteq I
    BY DEF ToSet
  <1> DEFINE Order(s) == InOrder(m, deleted, s)
             Within(s) == ToSet(r) \subseteq ToSet(s) /\ ToSet(s) \subseteq ToSet(r) \cup (ToSet(ma) \ ToSet(b))
             Same(s) == \A x \in ToSet(b) : Occurrences(s, x) = Occurrences(r, x)
             Done(s, i) == \A j \in 1 .. i : ma[j] \notin ToSet(b) => Matched(ma[j], s)
             Good(i) == Order(h[i]) /\ Within(h[i]) /\ Same(h[i]) /\ Done(h[i], i)
             T == {i \in 0 .. n : Good(i)}
  <1> HIDE DEF n
  <1>3. Good(0)
    BY <1>1
  <1>4. ASSUME NEW i \in 1 .. n, Good(i - 1) PROVE Good(i)
    <2>0. /\ i \in Nat /\ i > 0 /\ ma[i] \in ToSet(ma) /\ h[i - 1] \in Seq(I) /\ ma[i] \in I /\ i - 1 \in 0 .. n
          /\ \A j \in 1 .. i : j \in 1 .. i - 1 \/ j = i
      BY <1>1, <1>2
    <2> DEFINE s == h[i - 1]
               y == ma[i]
    <2>1. CASE ShouldAddToMine(y, b, s)
      <3>1. h[i] = Append(s, y) /\ y \notin ToSet(b)
        BY <1>1, <2>1 DEF ShouldAddToMine
      <3>2. ToSet(Append(s, y)) = ToSet(s) \cup {y}
        BY <2>0, AppendedItems
      <3>3. Order(Append(s, y))
        BY <1>4, <2>0, OrderKeptByAddition
      <3>4. Within(Append(s, y))
        BY <1>4, <2>0, <3>1, <3>2
      <3>5. Same(Append(s, y))
        <4>1. \A x \in ToSet(b) : Occurrences(Append(s, y), x) = Occurrences(s, x)
          BY <2>0, <3>1, OthersAdded
        <4> QED BY <1>4, <4>1
      <3>6. Done(Append(s, y), i)
        <4> SUFFICES ASSUME NEW j \in 1 .. i, ma[j] \notin ToSet(b) PROVE Matched(ma[j], Append(s, y))
          OBVIOUS
        <4>1. CASE j \in 1 .. i - 1
          <5>1. Matched(ma[j], s)
            BY <1>4, <4>1
          <5> QED BY <3>2, <5>1 DEF Matched
        <4>2. CASE j = i
          BY <3>2, <4>2 DEF Matched
        <4> QED BY <2>0, <4>1, <4>2
      <3> HIDE DEF Order, Within, Same, Done, s, y
      <3> QED BY <3>1, <3>3, <3>4, <3>5, <3>6
    <2>2. CASE ~ShouldAddToMine(y, b, s)
      <3>1. h[i] = s /\ (y \in ToSet(b) \/ Matched(y, s))
        BY <1>1, <2>2 DEF ShouldAddToMine, Matched
      <3>2. Done(s, i)
        <4> SUFFICES ASSUME NEW j \in 1 .. i, ma[j] \notin ToSet(b) PROVE Matched(ma[j], s)
          OBVIOUS
        <4>1. CASE j \in 1 .. i - 1
          BY <1>4, <4>1
        <4>2. CASE j = i
          BY <3>1, <4>2
        <4> QED BY <2>0, <4>1, <4>2
      <3> HIDE DEF Order, Within, Same, Done
      <3> QED BY <1>4, <3>1, <3>2
    <2> QED BY <2>1, <2>2
  <1>5. 0 .. n \subseteq T
    <2>1. n \in Nat /\ 0 \in T
      BY <1>2, <1>3
    <2>2. ASSUME NEW i \in 1 .. n, i - 1 \in T PROVE i \in T
      <3>1. i \in 0 .. n
        BY <1>2
      <3>2. Good(i - 1)
        BY <2>2
      <3> HIDE DEF Good
      <3> QED BY <1>4, <3>1, <3>2
    <2> HIDE DEF T
    <2> QED BY <2>1, <2>2, Upwards
  <1>6. Good(n)
    <2>1. n \in 0 .. n
      BY <1>2
    <2> HIDE DEF Good
    <2> QED BY <1>5, <2>1
  <1>7. h[n] \in Seq(I)
    BY <1>1, <1>2
  <1>8. \A x \in ToSet(ma) \ ToSet(b) : Matched(x, h[n])
    BY <1>2, <1>6
  <1> QED BY <1>1, <1>6, <1>7, <1>8

(* A merge of lists is what the tests expect, and so is one of the keys of *)
(* objects that are not lists.                                             *)
LEMMA MergeArrayWins ==
    ASSUME NEW b, NEW ma, NEW m, IsList(b), IsList(ma), IsList(m)
    PROVE  ListWins(b, ma, m, MergeArray(b, ma, m)) /\ IsList(MergeArray(b, ma, m))
  <1> DEFINE I == ToSet(b) \cup ToSet(ma) \cup ToSet(m)
             deleted == ToSet(b) \ ToSet(ma)
             r == RemoveMasterDeleted(b, ma, m)
             a == AppendMasterAdded(b, ma, r)
  <1>1. b \in Seq(I) /\ ma \in Seq(I) /\ m \in Seq(I)
    BY DEF IsList, ToSet
  <1> HIDE DEF I
  <1>2. /\ r \in Seq(I) /\ InOrder(m, deleted, r) /\ ToSet(r) \subseteq ToSet(m)
        /\ \A x \in deleted : Occurrences(r, x) = Rest(Occurrences(m, x) - Occurrences(b, x))
    <2>1. Left(I, b, ToSet(b) \ ToSet(ma), m, RemoveMasterDeleted(b, ma, m))
      BY <1>1, RemovalWins
    <2> QED BY <2>1 DEF Left
  <1> HIDE DEF r, deleted
  <1>3. /\ a \in Seq(I) /\ InOrder(m, deleted, a)
        /\ ToSet(a) \subseteq ToSet(r) \cup (ToSet(ma) \ ToSet(b))
        /\ \A x \in ToSet(b) : Occurrences(a, x) = Occurrences(r, x)
        /\ \A x \in ToSet(ma) \ ToSet(b) : Matched(x, a)
    BY <1>1, <1>2, AdditionWins
  <1> HIDE DEF a
  <1>4. MergeArray(b, ma, m) = a
    BY DEF MergeArray, r, a
  <1>5. IsList(a)
    BY <1>3 DEF IsList, ToSet
  <1>6. \A x \in deleted : Occurrences(a, x) = Rest(Occurrences(m, x) - Occurrences(b, x))
    BY <1>2, <1>3 DEF deleted
  <1>7. \A x \in ToSet(ma) \ ToSet(b) : \E other \in ToSet(a) : other = x \/ Like(x, other)
    BY <1>3 DEF Matched
  <1>8. ToSet(a) \subseteq ToSet(m) \cup ToSet(ma)
    BY <1>2, <1>3
  <1>9. \A x \in ToSet(b) : x \notin ToSet(m) => x \notin ToSet(a)
    BY <1>2, <1>3
  <1> QED BY <1>3, <1>4, <1>5, <1>6, <1>7, <1>8, <1>9 DEF ListWins, Rest, deleted

LEMMA MergeObjectWins ==
    ASSUME NEW b, NEW ma, NEW m, NEW merged, merged = MergeObject(b, ma, m)
    PROVE  ObjectWins(b, ma, m, merged)
  BY DEF ObjectWins, MergeObject, Has, Truthy

(* A merge of contents of objects is what the tests expect, and one too.   *)
LEMMA MergedObjectWins ==
    ASSUME shape # "list", NEW b, NEW ma, NEW m,
           IsContent(shape, b), IsContent(shape, ma), IsContent(shape, m)
    PROVE  /\ Wins(b, ma, m, MergeObject(b, ma, m))
           /\ IsContent(shape, MergeObject(b, ma, m))
  <1> DEFINE merged == MergeObject(b, ma, m)
             mineOf(k) == ListOf(IF Has(m, k) THEN m ELSE ma, k)
  <1>1. IsList(<<>>)
    BY DEF IsList
  <1>2. \A k \in ListKeys : IsList(ListOf(b, k)) /\ IsList(ListOf(ma, k)) /\ IsList(ListOf(m, k))
    BY <1>1 DEF IsContent, ListOf, Has
  <1>3. ASSUME NEW k \in ListKeys, Has(merged, k)
        PROVE  merged[k] = MergeArray(ListOf(b, k), ListOf(ma, k), mineOf(k))
    BY <1>3 DEF MergeObject, ListOf, Has
  <1>4. ASSUME NEW k \in ListKeys, Has(merged, k)
        PROVE  ListWins(ListOf(b, k), ListOf(ma, k), mineOf(k), merged[k]) /\ IsList(merged[k])
    <2>1. IsList(mineOf(k))
      BY <1>2
    <2> QED BY <1>2, <1>3, <1>4, <2>1, MergeArrayWins
  <1>5. ObjectWins(b, ma, m, merged)
    BY MergeObjectWins
  <1> HIDE DEF merged
  <1>6. Wins(b, ma, m, merged) /\ IsContent(shape, merged)
    BY <1>4, <1>5 DEF Wins, IsContent, Has
  <1> QED BY <1>6 DEF merged

-----------------------------------------------------------------------------
(* Reads of a file in conflict (VBaseConflicts).  What the sides of a      *)
(* conflict are: contents, or given as none; that of the workspace may     *)
(* have been a list, and became an object, that has come to the master     *)
(* without content since.                                                  *)
Side(content) == content \in Bare \/ IsContent(shape, content)
MineSide(b, m) == Side(m) \/ (shape = "list" /\ m = Indexed /\ b \in Bare)
Sides(b, ma, m) == Side(b) /\ Side(ma) /\ MineSide(b, m)
Apart(b, ma, m) == m # b /\ ma # b /\ m # ma

(* A list of contents that is a content has an item, or is empty.          *)
LEMMA EmptyList ==
    ASSUME NEW list, IsList(list), ToSet(list) = {}
    PROVE  list = <<>>
  <1>1. list \in Seq({})
    BY DEF IsList
  <1> QED BY <1>1

(* When the merge of two lists throws: a side but the master has no items. *)
LEMMA ThrowsWhen ==
    ASSUME NEW b, NEW ma, NEW m, Sides(b, ma, m), Apart(b, ma, m)
    PROVE  /\ Throws(b, ma, m) <=> shape = "list" /\ ma \notin Bare /\ (b \in Bare \/ m \in Bare)
           /\ shape = "list" /\ ma \notin Bare /\ ~Throws(b, ma, m) =>
                IsContent(shape, b) /\ IsContent(shape, ma) /\ IsContent(shape, m)
  <1>1. ASSUME shape = "list", ma \notin Bare, b \notin Bare, m \in Bare
        PROVE  ma # <<>> \/ \E item \in ToSet(b) : item \notin ToSet(ma)
    <2>1. IsList(b)
      BY <1>1 DEF Sides, Side, IsContent
    <2>2. SUFFICES ASSUME ma = <<>> PROVE \E item \in ToSet(b) : item \notin ToSet(ma)
      OBVIOUS
    <2>3. ToSet(ma) = {}
      BY <2>2 DEF ToSet
    <2>4. ToSet(b) # {}
      BY <2>1, <2>2, EmptyList DEF Apart
    <2> QED BY <2>3, <2>4
  <1>2. Throws(b, ma, m) <=> shape = "list" /\ ma \notin Bare /\ (b \in Bare \/ m \in Bare)
    BY <1>1 DEF Throws
  <1>3. b \notin Bare /\ m \notin Bare /\ ma \notin Bare =>
          IsContent(shape, b) /\ IsContent(shape, ma) /\ IsContent(shape, m)
    BY DEF Sides, Side, MineSide
  <1> QED BY <1>2, <1>3

(* What a merge that does not throw gives, of the sides of a conflict.     *)
MergeIs(list, merged) ==
    IF shape = "list" /\ list.master \in Bare THEN merged = Indexed
    ELSE Wins(Parsed(list.base), Parsed(list.master), Parsed(list.mine), merged)
LEMMA MergeWins ==
    ASSUME NEW list, Sides(list.base, list.master, list.mine), Apart(list.base, list.master, list.mine),
           ~Throws(list.base, list.master, list.mine)
    PROVE  /\ MergeIs(list, Merge(list.base, list.master, list.mine))
           /\ MineSide(list.master, Merge(list.base, list.master, list.mine))
  <1> DEFINE b == list.base
             ma == list.master
             m == list.mine
  <1>1. CASE shape = "list" /\ ma \in Bare
    BY <1>1 DEF MergeIs, Merge, MineSide
  <1>2. CASE shape = "list" /\ ma \notin Bare
    <2>1. IsContent(shape, b) /\ IsContent(shape, ma) /\ IsContent(shape, m) /\ b \notin Bare /\ m \notin Bare
      BY <1>2, ThrowsWhen
    <2>2. Merge(b, ma, m) = MergeArray(b, ma, m)
      BY <1>2 DEF Merge
    <2>3. ListWins(b, ma, m, MergeArray(b, ma, m)) /\ IsList(MergeArray(b, ma, m))
      BY <1>2, <2>1, MergeArrayWins DEF IsContent
    <2> QED BY <1>2, <2>1, <2>2, <2>3 DEF MergeIs, Wins, Parsed, MineSide, Side, IsContent
  <1>3. CASE shape # "list"
    <2>1. \A content : Side(content) => IsContent(shape, Parsed(content))
      BY <1>3 DEF Side, Parsed, IsContent
    <2>2. Side(b) /\ Side(ma) /\ Side(m)
      BY <1>3 DEF Sides, MineSide
    <2>3. Merge(b, ma, m) = MergeObject(Parsed(b), Parsed(ma), Parsed(m))
      BY <1>3 DEF Merge
    <2> HIDE DEF b, ma, m
    <2>4. /\ Wins(Parsed(b), Parsed(ma), Parsed(m), Merge(b, ma, m))
          /\ IsContent(shape, Merge(b, ma, m))
      BY <1>3, <2>1, <2>2, <2>3, MergedObjectWins
    <2> QED BY <1>3, <2>4 DEF MergeIs, MineSide, Side, b, ma, m
  <1> QED BY <1>1, <1>2, <1>3

(* What of a merge wins does not change, as the file stays of its shape    *)
(* and the resolver of its keys.                                           *)
LEMMA WinsStill ==
    ASSUME UNCHANGED <<shape, comparable>>
    PROVE  \A b, ma, m, merged : Wins(b, ma, m, merged) => Wins(b, ma, m, merged)'
  <1>1. \A item, other : Like(item, other)' <=> Like(item, other)
    BY DEF Like
  <1>2. \A b, ma, m, merged : ListWins(b, ma, m, merged) <=> ListWins(b, ma, m, merged)'
    BY <1>1 DEF ListWins
  <1> QED BY <1>2 DEF Wins

-----------------------------------------------------------------------------
(* What is told of the file, and listed, is of a state it had; two that    *)
(* are of the same state agree.                                            *)
Tolds == [state : {"none", "pending", "read", "failed", "conflict"}, at : Nat]
Tellings == {memoized[q] : q \in Incoming} \cup {asked.told}
Lists == {conflicts[q] : q \in Incoming} \cup {keptLists[l] : l \in Locales}
TellKnown(told) == told.at <= changes /\ (told.state = "conflict" /\ told.at = changes => InConflict)
IsListing(list) ==
    /\ list = [state |-> list.state, found |-> list.found, fromMemory |-> list.fromMemory, at |-> list.at,
               base |-> list.base, master |-> list.master, mine |-> list.mine]
    /\ list.state \in {"none", "listed", "failed"} /\ list.found \in BOOLEAN /\ list.fromMemory \in BOOLEAN
    /\ list.at \in Nat
ListKnown(list) ==
    /\ IsListing(list) /\ list.at <= changes
    /\ list.state = "listed" /\ list.at = changes /\ InConflict => list.found
    /\ list.found => /\ list.state = "listed" /\ Apart(list.base, list.master, list.mine)
                     /\ Sides(list.base, list.master, list.mine)
Agree(told, list) == told.state = "conflict" /\ list.state = "listed" /\ told.at = list.at => list.found
RequestKnown(q) ==
    /\ conflicts[q].state # "none" => memoized[q].state = "conflict"
    /\ conflicts[q].state = "listed" /\ ~conflicts[q].fromMemory => memoized[q].at <= conflicts[q].at
(* What a call has come to: what its request was told, and its result,     *)
(* which is of the list of its request.                                    *)
PhaseKnown(c) ==
    /\ phase[c] = "waiting" => memoized[Of[c]].state = "pending"
    /\ phase[c] = "conflict" => memoized[Of[c]].state = "conflict"
ResultKnown(c) ==
    /\ result[c].kind = "conflict" => conflicts[Of[c]].state = "listed" /\ ~conflicts[Of[c]].found
    /\ result[c].kind \in {"merged", "unmergeable"} =>
         LET list == conflicts[Of[c]] IN
         /\ list.found
         /\ result[c].kind = "unmergeable" <=> Throws(list.base, list.master, list.mine)
    /\ result[c].kind = "merged" => MergeIs(conflicts[Of[c]], result[c].content)
FileInv ==
    /\ shape \in DOMAIN Shapes /\ changes \in Nat
    /\ Sides(base, master, mine)
    /\ \A p \in patches : Side(p.master) /\ MineSide(p.master, p.content)
ConflictType ==
    /\ memoized \in [Incoming -> Tolds]
    /\ asked \in [state : {"none", "sent", "made", "hit"}, locale : Locales, told : Tolds]
    /\ DOMAIN conflicts = Incoming /\ DOMAIN keptLists = Locales
    /\ DOMAIN phase = Calls /\ DOMAIN result = Calls
ConflictInv ==
    /\ ConflictType /\ FileInv
    /\ \A told \in Tellings : TellKnown(told)
    /\ \A list \in Lists : ListKnown(list)
    /\ \A told \in Tellings, list \in Lists : Agree(told, list)
    /\ \A l \in Locales : keptLists[l].state \in {"none", "listed"}
    /\ \A q \in Incoming : RequestKnown(q)
    /\ \A c \in Calls : PhaseKnown(c) /\ ResultKnown(c)

LEMMA ConflictInit == VBaseInit => ConflictInv
  <1> SUFFICES ASSUME VBaseInit PROVE ConflictInv
    OBVIOUS
  <1>1. ConflictType
    BY DEF VBaseInit, ConflictType, Told, Tolds, Asked
  <1>2. FileInv
    BY VBaseAssumption DEF VBaseInit, FileInv, Sides, Side, MineSide, Contents
  <1>3. ASSUME NEW told \in Tellings PROVE told.state = "none" /\ told.at = 0
    BY <1>3 DEF VBaseInit, Tellings, Told, Asked
  <1>4. ASSUME NEW list \in Lists PROVE list = NoList("none")
    BY <1>4 DEF VBaseInit, Lists
  <1>5. ListKnown(NoList("none")) /\ NoList("none").state = "none"
    BY DEF VBaseInit, ListKnown, IsListing, NoList
  <1>6. ASSUME NEW q \in Incoming PROVE RequestKnown(q)
    BY DEF VBaseInit, RequestKnown, NoList
  <1>7. ASSUME NEW c \in Calls PROVE PhaseKnown(c) /\ ResultKnown(c)
    BY DEF VBaseInit, PhaseKnown, ResultKnown, Result
  <1>8. \A l \in Locales : keptLists[l].state \in {"none", "listed"}
    BY <1>4, <1>5 DEF Lists
  <1>9. changes = 0
    BY DEF VBaseInit
  <1> QED BY <1>1, <1>2, <1>3, <1>4, <1>5, <1>6, <1>7, <1>8, <1>9 DEF ConflictInv, TellKnown, Agree

(* What is of a list, and of the content of a file, does not change with   *)
(* the file, as it stays of its shape and the resolver of its keys.        *)
LEMMA SidesStill ==
    ASSUME UNCHANGED shape
    PROVE  /\ \A content : Side(content)' <=> Side(content)
           /\ \A b, m : MineSide(b, m)' <=> MineSide(b, m)
           /\ \A b, ma, m : Sides(b, ma, m)' <=> Sides(b, ma, m)
           /\ \A b, ma, m : Throws(b, ma, m)' <=> Throws(b, ma, m)
  <1>1. \A content : Side(content)' <=> Side(content)
    BY DEF Side
  <1>2. \A b, m : MineSide(b, m)' <=> MineSide(b, m)
    BY <1>1 DEF MineSide
  <1> QED BY <1>1, <1>2 DEF Sides, Throws
LEMMA MergeStill ==
    ASSUME UNCHANGED <<shape, comparable>>
    PROVE  \A list, merged : MergeIs(list, merged) => MergeIs(list, merged)'
  BY WinsStill DEF MergeIs, Parsed

LEMMA ListStill ==
    ASSUME UNCHANGED shape, changes \in Nat, changes' \in Nat,
           changes' > changes \/ UNCHANGED <<base, master, mine, changes>>
    PROVE  /\ \A told \in Tolds : TellKnown(told) => TellKnown(told)'
           /\ \A list : ListKnown(list) => ListKnown(list)'
  <1>1. ASSUME NEW told \in Tolds, TellKnown(told) PROVE TellKnown(told)'
    <2>1. told.at \in Nat
      BY DEF Tolds
    <2> QED BY <1>1, <2>1 DEF TellKnown, InConflict
  <1>2. ASSUME NEW list, ListKnown(list) PROVE ListKnown(list)'
    <2>1. list.at \in Nat
      BY <1>2 DEF ListKnown, IsListing
    <2> QED BY <1>2, <2>1, SidesStill DEF ListKnown, IsListing, InConflict
  <1> QED BY <1>1, <1>2

(* The result of a call is still that of the list of its request, which    *)
(* was memoized for good.                                                  *)
LEMMA ResultStill ==
    ASSUME ConflictInv, NEW c \in Calls, UNCHANGED <<shape, comparable>>,
           result'[c] = result[c] \/ result'[c].kind \notin {"conflict", "merged", "unmergeable"},
           conflicts[Of[c]].state # "none" => conflicts'[Of[c]] = conflicts[Of[c]]
    PROVE  ResultKnown(c)'
  <1>1. ResultKnown(c) /\ Of[c] \in Incoming
    BY InfraCallsAssumption DEF ConflictInv
  <1>2. ListKnown(conflicts[Of[c]])
    BY <1>1 DEF ConflictInv, Lists
  <1>3. CASE result'[c].kind \notin {"conflict", "merged", "unmergeable"}
    BY <1>3 DEF ResultKnown
  <1>4. CASE result'[c] = result[c] /\ result[c].kind \in {"conflict", "merged", "unmergeable"}
    <2>1. conflicts[Of[c]].state # "none"
      BY <1>1, <1>2, <1>4 DEF ResultKnown, ListKnown
    <2> QED BY <1>1, <1>4, <2>1, SidesStill, MergeStill DEF ResultKnown
  <1> QED BY <1>3, <1>4

(* The invariant, of a step that leaves the lists and the file: what is    *)
(* told is what was, or agrees with all the lists.                         *)
LEMMA TellingStep ==
    ASSUME ConflictInv, ConflictType', UNCHANGED <<shape, comparable, file, conflicts, keptLists, patches>>,
           \A told \in Tellings' : told \in Tellings \/ (TellKnown(told) /\ \A list \in Lists : Agree(told, list)),
           \A q \in Incoming : memoized[q].state = "conflict" => memoized'[q] = memoized[q],
           \A c \in Calls : result'[c] = result[c] \/ result'[c].kind \notin {"conflict", "merged", "unmergeable"},
           \A c \in Calls : PhaseKnown(c)'
    PROVE  ConflictInv'
  <1>1. FileInv'
    BY SidesStill DEF ConflictInv, FileInv, file
  <1>2. Lists' = Lists /\ UNCHANGED <<base, master, mine, changes>> /\ changes \in Nat
    BY DEF Lists, file, ConflictInv, FileInv
  <1>3. ASSUME NEW told \in Tellings' PROVE TellKnown(told)' /\ \A list \in Lists : Agree(told, list)
    <2>1. TellKnown(told) /\ \A list \in Lists : Agree(told, list)
      BY <1>3 DEF ConflictInv
    <2> QED BY <1>2, <2>1 DEF TellKnown, InConflict
  <1>4. ASSUME NEW list \in Lists PROVE ListKnown(list)'
    <2>1. ListKnown(list)
      BY DEF ConflictInv
    <2> QED BY <1>2, <2>1, ListStill
  <1>5. ASSUME NEW q \in Incoming PROVE RequestKnown(q)'
    BY DEF ConflictInv, RequestKnown
  <1>6. ASSUME NEW c \in Calls PROVE ResultKnown(c)'
    BY ResultStill
  <1>7. \A told \in Tellings', list \in Lists' : Agree(told, list)'
    BY <1>2, <1>3 DEF Agree
  <1>8. (\A told \in Tellings : TellKnown(told))' /\ (\A list \in Lists : ListKnown(list))'
    BY <1>2, <1>3, <1>4
  <1>9. (\A l \in Locales : keptLists[l].state \in {"none", "listed"})'
    BY DEF ConflictInv
  <1> QED BY <1>1, <1>5, <1>6, <1>7, <1>8, <1>9 DEF ConflictInv

LEMMA GetKnown ==
    ASSUME ConflictInv, NEW c \in Calls, GetRawJSON(c)
    PROVE  ConflictInv'
  <1> DEFINE q == Of[c]
  <1>0. q \in Incoming /\ LocaleOf[q] \in Locales /\ memoized[q] \in Tolds /\ ConflictType
    BY InfraCallsAssumption DEF ConflictInv, ConflictType
  <1>1. /\ phase[c] = "idle"
        /\ \/ /\ memoized[q].state = "none"
              /\ memoized' = [memoized EXCEPT ![q] = Told("pending", 0)]
              /\ \/ asked' = asked
                 \/ asked' = Asked("hit", LocaleOf[q], Told("read", 0))
                 \/ asked' = Asked("sent", LocaleOf[q], Told("none", 0))
           \/ memoized[q].state # "none" /\ UNCHANGED <<memoized, asked>>
        /\ \/ /\ memoized[q].state \in {"none", "pending"}
              /\ phase' = [phase EXCEPT ![c] = "waiting"] /\ UNCHANGED result
           \/ memoized[q].state \notin {"none", "pending"} /\ GoOn({c}, memoized[q])
        /\ UNCHANGED <<shape, comparable, file, conflicts, keptLists, patches>>
    BY Zenon DEF GetRawJSON, memoryCache
  <1>2. \A state \in {"none", "pending", "read", "failed", "conflict"} : Told(state, 0) \in Tolds
    BY DEF Told, Tolds
  <1> HIDE DEF q
  <1>3. /\ memoized' \in [Incoming -> Tolds]
        /\ asked' \in [state : {"none", "sent", "made", "hit"}, locale : Locales, told : Tolds]
    BY <1>0, <1>1, <1>2 DEF ConflictType, Asked
  <1>4. /\ DOMAIN phase' = Calls /\ DOMAIN result' = Calls
        /\ \A d \in Calls : d # c => phase'[d] = phase[d] /\ result'[d] = result[d]
        /\ \/ phase'[c] = "waiting" /\ result'[c] = result[c] /\ memoized[q].state \in {"none", "pending"}
           \/ /\ memoized[q].state \notin {"none", "pending"}
              /\ phase'[c] = IF memoized[q].state = "conflict" THEN "conflict" ELSE "done"
              /\ result'[c] = result[c] \/ (result'[c].kind = memoized[q].state /\ memoized[q].state # "conflict")
    <2>1. CASE phase' = [phase EXCEPT ![c] = "waiting"] /\ UNCHANGED result /\ memoized[q].state \in {"none", "pending"}
      BY <1>0, <2>1 DEF ConflictType
    <2>2. CASE memoized[q].state \notin {"none", "pending"} /\ GoOn({c}, memoized[q])
      BY <1>0, <2>2 DEF ConflictType, GoOn, Result
    <2> QED BY <1>1, <2>1, <2>2
  <1>5. \A r \in Incoming : memoized'[r] = memoized[r]
                            \/ (r = q /\ memoized[q].state = "none" /\ memoized'[q] = Told("pending", 0))
    BY <1>0, <1>1 DEF ConflictType
  <1>6. ASSUME NEW told \in Tellings' PROVE told \in Tellings \/ (TellKnown(told) /\ \A list \in Lists : Agree(told, list))
    <2>1. \/ told \in Tellings
          \/ told = Told("pending", 0) \/ told = Told("read", 0) \/ told = Told("none", 0)
      BY <1>0, <1>1, <1>5 DEF Tellings, Asked
    <2>2. changes \in Nat
      BY DEF ConflictInv, FileInv
    <2> QED BY <2>1, <2>2 DEF TellKnown, Agree, Told
  <1>7. ASSUME NEW d \in Calls PROVE PhaseKnown(d)'
    <2>1. Of[d] \in Incoming /\ PhaseKnown(d) /\ Of[c] = q
      BY InfraCallsAssumption DEF ConflictInv, q
    <2>2. CASE d # c
      BY <1>4, <1>5, <2>1, <2>2 DEF PhaseKnown, Told
    <2>3. CASE d = c
      <3>1. memoized'[q].state = "pending" \/ memoized'[q] = memoized[q]
        BY <1>0, <1>5 DEF Told
      <3>2. memoized[q].state = "none" => memoized'[q].state = "pending"
        BY <1>0, <1>1 DEF ConflictType, Told
      <3> QED BY <1>0, <1>4, <1>5, <2>1, <2>3, <3>1, <3>2 DEF PhaseKnown, Told
    <2> QED BY <2>2, <2>3
  <1>8. ConflictType'
    BY <1>0, <1>1, <1>3, <1>4 DEF ConflictType
  <1>9. \A r \in Incoming : memoized[r].state = "conflict" => memoized'[r] = memoized[r]
    BY <1>5
  <1>10. \A d \in Calls : result'[d] = result[d] \/ result'[d].kind \notin {"conflict", "merged", "unmergeable"}
    BY <1>0, <1>4 DEF Tolds
  <1> QED BY <1>1, <1>6, <1>7, <1>8, <1>9, <1>10, TellingStep

LEMMA AnsweredKnown ==
    ASSUME ConflictInv, ReadAnswered
    PROVE  ConflictInv'
  <1> DEFINE told == Told(IF InConflict THEN "conflict" ELSE "read", changes)
  <1>1. /\ asked' = [asked EXCEPT !.state = "made", !.told = told]
        /\ UNCHANGED <<shape, comparable, file, memoized, conflicts, keptLists, phase, result, patches>>
    BY DEF ReadAnswered, memoryCache
  <1>2. /\ changes \in Nat /\ told.at = changes /\ told \in Tolds
        /\ told.state = "conflict" => InConflict
    BY DEF ConflictInv, FileInv, Told, Tolds
  <1> HIDE DEF told
  <1>3. ConflictType' /\ asked'.told = told
    BY <1>1, <1>2 DEF ConflictInv, ConflictType
  <1>4. ASSUME NEW list \in Lists PROVE Agree(told, list)
    BY <1>2 DEF ConflictInv, ListKnown, Agree
  <1>5. \A a \in Tellings' : a \in Tellings \/ a = told
    BY <1>1, <1>3 DEF Tellings
  <1>6. TellKnown(told)
    BY <1>2 DEF TellKnown
  <1>7. \A c \in Calls : PhaseKnown(c)'
    BY <1>1 DEF ConflictInv, PhaseKnown
  <1> QED BY <1>1, <1>3, <1>4, <1>5, <1>6, <1>7, TellingStep

(* A flight ends with what VBase told, or memory, or a failure.            *)
LEMMA SettleKnown ==
    ASSUME ConflictInv, NEW told \in Tolds, Settle(told), told = asked.told \/ told = Told("failed", 0)
    PROVE  ConflictInv'
  <1>1. /\ memoized' = [q \in Incoming |-> IF memoized[q].state = "pending" THEN told ELSE memoized[q]]
        /\ phase' = [c \in Calls |-> IF phase[c] # "waiting" THEN phase[c]
                                     ELSE IF told.state = "conflict" THEN "conflict" ELSE "done"]
        /\ result' = [c \in Calls |-> IF phase[c] # "waiting" \/ told.state = "conflict" THEN result[c]
                                      ELSE Result(told.state, <<>>)]
        /\ asked' = Asked("none", asked.locale, Told("none", 0))
        /\ UNCHANGED <<shape, comparable, file, conflicts, keptLists, patches>>
    BY DEF Settle, GoOn
  <1>2. ConflictType /\ changes \in Nat
    BY DEF ConflictInv, FileInv
  <1>3. ConflictType' /\ asked'.told = Told("none", 0)
    BY <1>1, <1>2 DEF ConflictType, Asked, Told, Tolds
  <1>4. ASSUME NEW a \in Tellings' PROVE a \in Tellings \/ (TellKnown(a) /\ \A list \in Lists : Agree(a, list))
    <2>1. a \in Tellings \/ a = told \/ a = Told("none", 0)
      BY <1>1, <1>3 DEF Tellings
    <2>2. a \in Tellings \/ a = Told("failed", 0) \/ a = Told("none", 0)
      BY <2>1 DEF Tellings
    <2> QED BY <1>2, <2>2 DEF TellKnown, Agree, Told
  <1>5. ASSUME NEW c \in Calls PROVE PhaseKnown(c)'
    <2>1. Of[c] \in Incoming /\ PhaseKnown(c)
      BY InfraCallsAssumption DEF ConflictInv
    <2> QED BY <1>1, <2>1 DEF PhaseKnown
  <1>6. \A q \in Incoming : memoized[q].state = "conflict" => memoized'[q] = memoized[q]
    BY <1>1
  <1>7. \A c \in Calls : result'[c] = result[c] \/ result'[c].kind \notin {"conflict", "merged", "unmergeable"}
    BY <1>1 DEF Result, Tolds
  <1> QED BY <1>1, <1>3, <1>4, <1>5, <1>6, <1>7, TellingStep

LEMMA ArrivalKnown ==
    ASSUME ConflictInv, ReadArrives \/ ReadFromMemory \/ ReadFails
    PROVE  ConflictInv'
  <1>1. asked.told \in Tolds /\ Told("failed", 0) \in Tolds
    BY DEF ConflictInv, ConflictType, Told, Tolds
  <1> QED BY <1>1, SettleKnown DEF ReadArrives, ReadFromMemory, ReadFails

(* The list a call resolves the conflict with.                             *)
LEMMA ListsKnown ==
    ASSUME ConflictInv, NEW q \in Incoming, memoized[q].state = "conflict", NEW list \in ListsFor(q)
    PROVE  /\ ListKnown(list) /\ list.state \in {"listed", "failed"}
           /\ \A told \in Tellings : Agree(told, list)
           /\ list.state = "listed" /\ ~list.fromMemory => memoized[q].at <= list.at
           /\ conflicts[q].state # "none" => list = conflicts[q]
  <1> DEFINE held == keptLists[LocaleOf[q]]
  <1>0. /\ ListKnown(conflicts[q]) /\ RequestKnown(q) /\ TellKnown(memoized[q])
        /\ LocaleOf[q] \in Locales /\ held \in Lists /\ ListKnown(held) /\ held.state \in {"none", "listed"}
        /\ conflicts[q] \in Lists
    BY InfraCallsAssumption DEF ConflictInv, Lists, Tellings
  <1>1. CASE conflicts[q].state # "none"
    <2>1. list = conflicts[q]
      BY <1>1 DEF ListsFor
    <2>2. list.state \in {"listed", "failed"}
      BY <1>0, <1>1, <2>1 DEF ListKnown, IsListing
    <2> QED BY <1>0, <2>1, <2>2 DEF ConflictInv, RequestKnown
  <1>2. CASE conflicts[q].state = "none" /\ held.state # "none"
    <2>1. list = [held EXCEPT !.fromMemory = TRUE]
      BY <1>2 DEF ListsFor
    <2>2. held = [state |-> held.state, found |-> held.found, fromMemory |-> held.fromMemory, at |-> held.at,
                  base |-> held.base, master |-> held.master, mine |-> held.mine]
      BY <1>0 DEF ListKnown, IsListing
    <2> HIDE DEF held
    <2>3. list = [state |-> held.state, found |-> held.found, fromMemory |-> TRUE, at |-> held.at,
                  base |-> held.base, master |-> held.master, mine |-> held.mine]
      BY <2>1, <2>2
    <2>4. ListKnown(list)
      BY <1>0, <2>3 DEF ListKnown, IsListing
    <2>5. \A told \in Tellings : Agree(told, list)
      BY <1>0, <2>3 DEF ConflictInv, Agree
    <2> QED BY <1>0, <1>2, <2>3, <2>4, <2>5
  <1>3. CASE conflicts[q].state = "none" /\ held.state = "none"
    <2>1. list = List(InConflict) \/ list = NoList("failed")
      BY <1>3 DEF ListsFor
    <2>2. changes \in Nat /\ Sides(base, master, mine)
      BY DEF ConflictInv, FileInv
    <2>3. CASE list = NoList("failed")
      BY <1>3, <2>2, <2>3 DEF NoList, ListKnown, IsListing, Agree
    <2>4. CASE list = List(InConflict)
      <3>1. /\ list.state = "listed" /\ list.at = changes /\ (list.found <=> InConflict) /\ list.found \in BOOLEAN
            /\ list.base = base /\ list.master = master /\ list.mine = mine
        BY <2>4 DEF List, InConflict
      <3>2. IsListing(list)
        BY <2>2, <2>4 DEF List, InConflict, IsListing
      <3>3. ListKnown(list)
        BY <2>2, <3>1, <3>2 DEF ListKnown, Apart, InConflict
      <3>4. ASSUME NEW told \in Tellings PROVE Agree(told, list)
        <4>1. TellKnown(told)
          BY DEF ConflictInv
        <4> QED BY <3>1, <4>1 DEF TellKnown, Agree
      <3> QED BY <1>0, <1>3, <3>1, <3>3, <3>4 DEF TellKnown
    <2> QED BY <2>1, <2>3, <2>4
  <1> QED BY <1>1, <1>2, <1>3

(* What a call ends with, of its list; and the resolution it sends.        *)
LEMMA EndKnown ==
    ASSUME ConflictInv, NEW c \in Calls, NEW list, ResolveWith(c, list), ListKnown(list),
           list.state \in {"listed", "failed"}, memoized[Of[c]].state = "conflict"
    PROVE  /\ DOMAIN phase' = Calls /\ DOMAIN result' = Calls /\ phase'[c] = "done"
           /\ \A d \in Calls : d # c => phase'[d] = phase[d] /\ result'[d] = result[d]
           /\ result'[c].kind = "conflict" => list.state = "listed" /\ ~list.found
           /\ result'[c].kind \in {"merged", "unmergeable"} =>
                /\ list.found
                /\ result'[c].kind = "unmergeable" <=> Throws(list.base, list.master, list.mine)
           /\ result'[c].kind = "merged" => MergeIs(list, result'[c].content)
           /\ \A p \in patches' : Side(p.master) /\ MineSide(p.master, p.content)
  <1> DEFINE merged == Merge(list.base, list.master, list.mine)
  <1>0. /\ DOMAIN phase = Calls /\ DOMAIN result = Calls
        /\ \A p \in patches : Side(p.master) /\ MineSide(p.master, p.content)
    BY DEF ConflictInv, ConflictType, FileInv
  <1>1. ASSUME NEW kind, NEW content, Returns(c, kind, content)
        PROVE  /\ DOMAIN phase' = Calls /\ DOMAIN result' = Calls /\ phase'[c] = "done"
               /\ \A d \in Calls : d # c => phase'[d] = phase[d] /\ result'[d] = result[d]
               /\ result'[c].kind = kind /\ result'[c].content = content
    BY <1>0, <1>1 DEF Returns, Result
  <1>2. CASE list.state = "failed" /\ Returns(c, "failed", <<>>) /\ UNCHANGED patches
    BY <1>0, <1>1, <1>2
  <1>3. CASE list.state = "listed" /\ ~Found(list) /\ Returns(c, memoized[Of[c]].state, <<>>) /\ UNCHANGED patches
    <2>1. Returns(c, "conflict", <<>>)
      BY <1>3
    <2> QED BY <1>0, <1>1, <1>3, <2>1 DEF Found
  <1>4. CASE /\ Found(list) /\ Throws(list.base, list.master, list.mine)
             /\ Returns(c, "unmergeable", <<>>) /\ UNCHANGED patches
    BY <1>0, <1>1, <1>4 DEF Found
  <1>5. CASE /\ Found(list) /\ ~Throws(list.base, list.master, list.mine) /\ Returns(c, "merged", merged)
             /\ patches' = patches \cup {[content |-> merged, master |-> list.master]}
    <2>1. Sides(list.base, list.master, list.mine) /\ Apart(list.base, list.master, list.mine)
      BY <1>5 DEF ListKnown, Found
    <2>2. MergeIs(list, merged) /\ MineSide(list.master, merged) /\ Side(list.master)
      BY <1>5, <2>1, MergeWins DEF Sides
    <2> HIDE DEF merged
    <2>3. \A p \in patches' : Side(p.master) /\ MineSide(p.master, p.content)
      BY <1>0, <1>5, <2>2
    <2>4. /\ DOMAIN phase' = Calls /\ DOMAIN result' = Calls /\ phase'[c] = "done"
          /\ \A d \in Calls : d # c => phase'[d] = phase[d] /\ result'[d] = result[d]
          /\ result'[c].kind = "merged" /\ result'[c].content = merged
      BY <1>1, <1>5
    <2> QED BY <1>5, <2>2, <2>3, <2>4 DEF Found
  <1> QED BY <1>2, <1>3, <1>4, <1>5 DEF ResolveWith

LEMMA ResolveKnown ==
    ASSUME ConflictInv, NEW c \in Calls, Resolve(c)
    PROVE  ConflictInv'
  <1> DEFINE q == Of[c]
             l == LocaleOf[q]
  <1>0. /\ q \in Incoming /\ l \in Locales /\ memoized[q].state = "conflict" /\ ConflictType /\ FileInv
        /\ phase[c] = "conflict"
    BY InfraCallsAssumption DEF ConflictInv, PhaseKnown, Resolve
  <1>1. PICK list \in ListsFor(q) :
          /\ conflicts' = [conflicts EXCEPT ![q] = list] /\ ResolveWith(c, list)
          /\ \/ UNCHANGED keptLists
             \/ list.state = "listed" /\ keptLists' = [keptLists EXCEPT ![l] = list]
          /\ UNCHANGED <<shape, comparable, file, memoized, asked>>
    BY Zenon DEF Resolve
  <1>2. /\ ListKnown(list) /\ list.state \in {"listed", "failed"}
        /\ \A told \in Tellings : Agree(told, list)
        /\ list.state = "listed" /\ ~list.fromMemory => memoized[q].at <= list.at
        /\ conflicts[q].state # "none" => list = conflicts[q]
    BY <1>0, <1>1, ListsKnown
  <1>3. /\ DOMAIN phase' = Calls /\ DOMAIN result' = Calls /\ phase'[c] = "done"
        /\ \A d \in Calls : d # c => phase'[d] = phase[d] /\ result'[d] = result[d]
        /\ result'[c].kind = "conflict" => list.state = "listed" /\ ~list.found
        /\ result'[c].kind \in {"merged", "unmergeable"} =>
             /\ list.found
             /\ result'[c].kind = "unmergeable" <=> Throws(list.base, list.master, list.mine)
        /\ result'[c].kind = "merged" => MergeIs(list, result'[c].content)
        /\ \A p \in patches' : Side(p.master) /\ MineSide(p.master, p.content)
    BY <1>0, <1>1, <1>2, EndKnown DEF q
  <1>4. q = Of[c]
    OBVIOUS
  <1> HIDE DEF q, l
  <1>5. /\ conflicts'[q] = list /\ \A r \in Incoming : r # q => conflicts'[r] = conflicts[r]
        /\ DOMAIN conflicts' = Incoming /\ DOMAIN keptLists' = Locales
        /\ \A k \in Locales : keptLists'[k] = keptLists[k] \/ (keptLists'[k] = list /\ list.state = "listed")
    BY <1>0, <1>1 DEF ConflictType
  <1>6. UNCHANGED <<base, master, mine, changes>> /\ changes \in Nat
    BY <1>0, <1>1 DEF file, FileInv
  <1>7. ConflictType'
    BY <1>0, <1>1, <1>3, <1>5 DEF ConflictType
  <1>8. FileInv'
    BY <1>0, <1>1, <1>3, <1>6, SidesStill DEF FileInv
  <1>9. \A x \in Lists' : x \in Lists \/ x = list
    BY <1>5 DEF Lists
  <1>10. (\A x \in Lists : ListKnown(x))'
    <2>1. ASSUME NEW x \in Lists' PROVE ListKnown(x)'
      <3>1. ListKnown(x)
        BY <1>2, <1>9 DEF ConflictInv
      <3> QED BY <1>1, <1>6, <3>1, ListStill
    <2> QED BY <2>1
  <1>11. Tellings' = Tellings
    BY <1>1 DEF Tellings
  <1>12. \A told \in Tellings', x \in Lists' : Agree(told, x)'
    BY <1>2, <1>9, <1>11 DEF ConflictInv, Agree
  <1>13. \A told \in Tellings' : TellKnown(told)'
    BY <1>6, <1>11 DEF ConflictInv, TellKnown, InConflict
  <1>14. \A k \in Locales : keptLists'[k].state \in {"none", "listed"}
    BY <1>5 DEF ConflictInv
  <1>15. ASSUME NEW r \in Incoming PROVE RequestKnown(r)'
    <2>1. RequestKnown(r)
      BY DEF ConflictInv
    <2> QED BY <1>0, <1>1, <1>2, <1>5, <2>1 DEF RequestKnown
  <1>16. ASSUME NEW d \in Calls PROVE PhaseKnown(d)' /\ ResultKnown(d)'
    <2>1. Of[d] \in Incoming /\ PhaseKnown(d)
      BY InfraCallsAssumption DEF ConflictInv
    <2>2. CASE d = c
      <3>1. PhaseKnown(c)'
        BY <1>3 DEF PhaseKnown
      <3>2. ResultKnown(c)'
        BY <1>1, <1>3, <1>4, <1>5, SidesStill, MergeStill DEF ResultKnown
      <3> QED BY <2>2, <3>1, <3>2
    <2>3. CASE d # c
      <3>1. PhaseKnown(d)'
        BY <1>1, <1>3, <2>1, <2>3 DEF PhaseKnown
      <3>2. conflicts[Of[d]].state # "none" => conflicts'[Of[d]] = conflicts[Of[d]]
        BY <1>2, <1>5, <2>1
      <3>3. UNCHANGED <<shape, comparable>> /\ result'[d] = result[d]
        BY <1>1, <1>3, <2>3
      <3> QED BY <3>1, <3>2, <3>3, ResultStill
    <2> QED BY <2>2, <2>3
  <1> QED BY <1>7, <1>8, <1>10, <1>12, <1>13, <1>14, <1>15, <1>16 DEF ConflictInv

(* The file changes, and is counted as changed; or lists expire.           *)
LEMMA FileKnown ==
    ASSUME ConflictInv, FileInv', UNCHANGED <<shape, comparable, memoized, conflicts, asked, phase, result>>,
           changes' > changes \/ UNCHANGED <<base, master, mine, changes>>,
           DOMAIN keptLists' = Locales,
           \A l \in Locales : keptLists'[l] = keptLists[l] \/ keptLists'[l] = NoList("none")
    PROVE  ConflictInv'
  <1>1. ConflictType /\ changes \in Nat /\ changes' \in Nat
    BY DEF ConflictInv, FileInv
  <1>2. ConflictType'
    BY <1>1 DEF ConflictType
  <1>3. Tellings' = Tellings /\ Tellings \subseteq Tolds
    BY <1>1 DEF Tellings, ConflictType
  <1>4. \A told \in Tellings' : TellKnown(told)'
    BY <1>1, <1>3, ListStill DEF ConflictInv
  <1>5. /\ NoList("none").state = "none" /\ ListKnown(NoList("none"))
    BY <1>1 DEF NoList, ListKnown, IsListing
  <1>6. ASSUME NEW list \in Lists' PROVE ListKnown(list) /\ \A told \in Tellings : Agree(told, list)
    <2>1. list \in Lists \/ list = NoList("none")
      BY DEF Lists
    <2> QED BY <1>5, <2>1 DEF ConflictInv, Agree
  <1>7. \A list \in Lists' : ListKnown(list)'
    BY <1>1, <1>6, ListStill
  <1>8. \A told \in Tellings', list \in Lists' : Agree(told, list)'
    BY <1>3, <1>6 DEF Agree
  <1>9. ASSUME NEW c \in Calls PROVE PhaseKnown(c)' /\ ResultKnown(c)'
    <2>1. PhaseKnown(c)'
      BY DEF ConflictInv, PhaseKnown
    <2> QED BY <2>1, ResultStill
  <1>10. \A l \in Locales : keptLists'[l].state \in {"none", "listed"}
    BY <1>5 DEF ConflictInv
  <1>11. \A q \in Incoming : RequestKnown(q)'
    BY DEF ConflictInv, RequestKnown
  <1> QED BY <1>2, <1>4, <1>7, <1>8, <1>9, <1>10, <1>11 DEF ConflictInv

LEMMA ChangeKnown ==
    ASSUME ConflictInv,
           \/ \E p \in patches : ResolutionLands(p)
           \/ \E content \in Saved[shape] \cup Bare : Save(content) \/ MasterSaves(content)
           \/ \E l \in Locales : ReadExpires(l) \/ ListExpires(l)
           \/ UNCHANGED vbaseVars
    PROVE  ConflictInv'
  <1>0. /\ FileInv /\ ConflictType /\ changes \in Nat
        /\ \A content \in Saved[shape] \cup Bare : Side(content)
    BY VBaseAssumption DEF ConflictInv, FileInv, Side
  <1>1. ASSUME NEW p \in patches, ResolutionLands(p) PROVE ConflictInv'
    <2>1. /\ UNCHANGED <<shape, comparable, master, memoized, conflicts, asked, keptLists, phase, result>>
          /\ patches' \subseteq patches
          /\ \/ mine' = p.content /\ base' = p.master /\ changes' = changes + 1
             \/ UNCHANGED <<base, mine, changes>>
      BY <1>1 DEF ResolutionLands, memoryCache
    <2>2. FileInv'
      BY <1>0, <2>1, SidesStill DEF FileInv, Sides
    <2>3. changes' > changes \/ UNCHANGED <<base, master, mine, changes>>
      BY <1>0, <2>1
    <2> QED BY <1>0, <2>1, <2>2, <2>3, FileKnown DEF ConflictType
  <1>2. ASSUME NEW content \in Saved[shape] \cup Bare, Save(content) \/ MasterSaves(content) PROVE ConflictInv'
    <2>1. /\ UNCHANGED <<shape, comparable, base, memoized, conflicts, asked, keptLists, phase, result, patches>>
          /\ changes' = changes + 1
          /\ \/ mine' = content /\ UNCHANGED master
             \/ master' = content /\ UNCHANGED mine
      BY <1>2 DEF Save, MasterSaves, memoryCache
    <2>2. FileInv'
      BY <1>0, <2>1, SidesStill DEF FileInv, Sides, MineSide
    <2>3. changes' > changes
      BY <1>0, <2>1
    <2> QED BY <1>0, <2>1, <2>2, <2>3, FileKnown DEF ConflictType
  <1>3. ASSUME NEW l \in Locales, ReadExpires(l) \/ ListExpires(l) PROVE ConflictInv'
    <2>1. /\ UNCHANGED <<shape, comparable, file, memoized, conflicts, asked, phase, result, patches>>
          /\ keptLists' = keptLists \/ keptLists' = [keptLists EXCEPT ![l] = NoList("none")]
      BY <1>3 DEF ReadExpires, ListExpires
    <2>2. FileInv'
      BY <1>0, <2>1, SidesStill DEF FileInv, file
    <2>3. /\ DOMAIN keptLists' = Locales
          /\ \A k \in Locales : keptLists'[k] = keptLists[k] \/ keptLists'[k] = NoList("none")
      BY <1>0, <2>1 DEF ConflictType
    <2> QED BY <2>1, <2>2, <2>3, FileKnown DEF file
  <1>4. CASE UNCHANGED vbaseVars
    <2>1. UNCHANGED <<shape, comparable, base, master, mine, changes, memoized, conflicts, asked, keptLists,
                      phase, result, patches>>
      BY <1>4 DEF vbaseVars, file, memoryCache
    <2>2. FileInv'
      BY <1>0, <2>1, SidesStill DEF FileInv
    <2> QED BY <1>0, <2>1, <2>2, FileKnown DEF ConflictType
  <1> QED BY <1>1, <1>2, <1>3, <1>4

LEMMA ConflictHolds == VBaseSpec => []ConflictInv
  <1>1. ConflictInv /\ [VBaseNext]_vbaseVars => ConflictInv'
    BY GetKnown, AnsweredKnown, ArrivalKnown, ResolveKnown, ChangeKnown DEF VBaseNext
  <1> QED BY <1>1, ConflictInit, PTL DEF VBaseSpec

(* A read with a resolver fails for a conflict only if the list of the     *)
(* conflicts is of another state of the file, which is later unless it is  *)
(* kept in memory; and for the merge just when the base or the workspace   *)
(* has no content of a list that the master has.                           *)
THEOREM FailsByCause == VBaseSpec => []FailsForCause
  <1>1. ConflictInv => FailsForCause
    <2> SUFFICES ASSUME ConflictInv, NEW c \in Calls
                 PROVE  LET list == conflicts[Of[c]]
                            told == memoized[Of[c]]
                        IN
                        /\ result[c].kind = "conflict" =>
                             told.state = "conflict" /\ (told.at < list.at \/ (list.fromMemory /\ list.at < told.at))
                        /\ result[c].kind \in {"merged", "unmergeable"} =>
                             (result[c].kind = "unmergeable"
                              <=> shape = "list" /\ list.master \notin Bare /\ (list.base \in Bare \/ list.mine \in Bare))
      BY DEF FailsForCause
    <2> DEFINE list == conflicts[Of[c]]
               told == memoized[Of[c]]
    <2>1. /\ Of[c] \in Incoming /\ ResultKnown(c) /\ RequestKnown(Of[c])
          /\ list \in Lists /\ ListKnown(list) /\ told \in Tellings /\ Agree(told, list)
      BY InfraCallsAssumption DEF ConflictInv, Lists, Tellings
    <2>2. ASSUME result[c].kind = "conflict"
          PROVE  told.state = "conflict" /\ (told.at < list.at \/ (list.fromMemory /\ list.at < told.at))
      <3>1. list.state = "listed" /\ ~list.found
        BY <2>1, <2>2 DEF ResultKnown
      <3>2. told.state = "conflict" /\ (list.fromMemory \/ told.at <= list.at)
        BY <2>1, <3>1 DEF RequestKnown
      <3>3. told.at # list.at
        BY <2>1, <3>1, <3>2 DEF Agree
      <3>4. told.at \in Nat /\ list.at \in Nat
        BY <2>1 DEF ConflictInv, ConflictType, Tolds, ListKnown, IsListing
      <3> QED BY <3>2, <3>3, <3>4
    <2>3. ASSUME result[c].kind \in {"merged", "unmergeable"}
          PROVE  result[c].kind = "unmergeable"
                 <=> shape = "list" /\ list.master \notin Bare /\ (list.base \in Bare \/ list.mine \in Bare)
      <3>1. list.found /\ (result[c].kind = "unmergeable" <=> Throws(list.base, list.master, list.mine))
        BY <2>1, <2>3 DEF ResultKnown
      <3>2. Sides(list.base, list.master, list.mine) /\ Apart(list.base, list.master, list.mine)
        BY <2>1, <3>1 DEF ListKnown
      <3> QED BY <3>1, <3>2, ThrowsWhen
    <2> QED BY <2>2, <2>3
  <1> QED BY <1>1, ConflictHolds, PTL

(* Whatever three sides of a file in conflict a read has merged, mine wins *)
(* of their contents, or a list became an object.                          *)
THEOREM MergesWin == VBaseSpec => []MineWins
  <1>1. ConflictInv => MineWins
    BY DEF ConflictInv, ResultKnown, MineWins, MergeIs
  <1> QED BY <1>1, ConflictHolds, PTL
=============================================================================
