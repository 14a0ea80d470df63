--------------------------- MODULE HttpCacheProofs ---------------------------
(***************************************************************************)
(* What HttpCache.tla guarantees for any calls, segments, layers, headers  *)
(* and bounds.  Whom data is for is followed through any stack of layers;  *)
(* how old it is, and that a 304 is settled with what it vouches for,      *)
(* through a client's only layer; how old it is through a stack, where     *)
(* nothing is revalidated.                                                 *)
(***************************************************************************)
EXTENDS HttpCache, SequenceTheorems, TLAPS

(* A call that goes down is at a layer or past the last, with nothing yet  *)
(* to answer; one that goes up is at a layer, with an answer.              *)
TypeInv ==
    /\ TypeOK
    /\ \A c \in Calls :
          /\ pc[c] \in {"idle", "down"} => response[c] = None
          /\ pc[c] = "down" => at[c] >= 1
          /\ pc[c] = "up" => at[c] \in 1 .. Len(chain)

(* A response is for whom its vary header says; a stored one is under the  *)
(* key of that audience, and a session's is not stored.                    *)
Fits(r, c) == r.body # NoBody =>
    r.body.audience = CASE r.headers.vary = "none"    -> Public
                        [] r.headers.vary = "segment" -> SegmentOf[c]
                        [] r.headers.vary = "session" -> c
Kept(r, s) ==
    /\ r.headers.vary = IF s = Shared THEN "none" ELSE "segment"
    /\ r.body # NoBody => r.body.audience = IF s = Shared THEN Public ELSE s
AudienceInv ==
    /\ \A c \in Calls : response[c] # None => Fits(response[c], c)
    /\ \A c \in Calls, l \in Layers : found[c][l] # None => Fits(found[c][l].response, c)
    /\ \A l \in Layers, s \in Slots : store[l][s] # None => Kept(store[l][s].response, s)

(* With one layer, what is stored is what the origin once sent, and a 304  *)
(* confirms the very entry the call has read.                              *)
Whole(r) ==
    /\ r.status # 304
    /\ r.body # NoBody
    /\ r.etag \in {NoBody, r.body}
    /\ r.body.version <= version
    /\ r.headers = policyOf[r.body.version]
Answered(c) ==
    /\ heard[c] # NoBody
    /\ heard[c].version <= version
    /\ IF response[c].status = 304
       THEN ifNoneMatch[c] = heard[c] /\ policyOf[heard[c].version].etag
       ELSE Whole(response[c]) /\ response[c].body = heard[c]
Asked(c) == LET entry == found[c][chain[1]] IN
    /\ entry # None => Whole(entry.response)
    /\ ifNoneMatch[c] # NoBody => entry # None /\ ifNoneMatch[c] = entry.response.etag
OneLayerInv == Len(chain) = 1 =>
    /\ \A l \in Layers, s \in Slots : store[l][s] # None => Whole(store[l][s].response)
    /\ \A c \in Calls :
          /\ Asked(c)
          /\ pc[c] \in {"idle", "down"} => heard[c] = NoBody
          /\ pc[c] = "idle" \/ AtLayer(c) => ifNoneMatch[c] = NoBody
          /\ pc[c] = "up" => Answered(c)

(* What is stored was current when its lifetime began, but for an age that *)
(* a 304 made the layer forget; what is on its way up was current as long  *)
(* ago as its age says.                                                    *)
Lived(entry) == LET v == entry.response.body.version IN
    \E d \in Calls :
        /\ entry.expiration - LifeFor(d, v) <= now
        /\ entry.expiration - LifeFor(d, v) - AgeForgotten(v) <= retired[v]
StoreLived == \A l \in Layers, s \in Slots : store[l][s] # None => Lived(store[l][s])
Recent(c) == retired[heard[c].version] >= now - policyOf[heard[c].version].age
FreshInv ==
    /\ \A v \in Versions : v >= version => retired[v] = Never
    /\ Len(chain) = 1 => StoreLived /\ \A c \in Calls : pc[c] = "up" => Recent(c)

-----------------------------------------------------------------------------
(* The layer a call is at, and what it reads there.                        *)
LEMMA Places ==
    ASSUME TypeInv, NEW c \in Calls, pc[c] = "up" \/ AtLayer(c)
    PROVE  at[c] \in 1 .. Len(chain) /\ Here(c) \in Layers /\ Len(chain) \in Nat
  <1>1. chain \in Seq(Layers) /\ at[c] \in 0 .. Len(chain) + 1
    BY CacheAssumption DEF TypeInv, TypeOK
  <1>2. at[c] \in 1 .. Len(chain)
    BY <1>1 DEF TypeInv, AtLayer
  <1> QED BY <1>1, <1>2 DEF Here

LEMMA Read ==
    ASSUME TypeInv, NEW c \in Calls, AtLayer(c), NEW entry \in Readable(c), entry # None
    PROVE  \E s \in {SegmentOf[c], Shared} : s \in Slots /\ entry = store[Here(c)][s]
  BY CacheAssumption DEF Readable, Lookup, Slots

LEMMA ReadType ==
    ASSUME TypeInv, NEW c \in Calls, AtLayer(c), NEW entry \in Readable(c)
    PROVE  entry \in Entries \cup {None}
  <1>1. Here(c) \in Layers
    BY Places
  <1>2. store \in [Layers -> [Slots -> Entries \cup {None}]]
    BY DEF TypeInv, TypeOK
  <1>3. CASE entry # None
    <2>1. PICK s \in {SegmentOf[c], Shared} : s \in Slots /\ entry = store[Here(c)][s]
      BY <1>3, Read
    <2> QED BY <1>1, <1>2, <2>1
  <1> QED BY <1>3

(* What a layer makes of the response on its way up.                       *)
LEMMA SettledType ==
    ASSUME TypeInv, NEW c \in Calls, pc[c] = "up"
    PROVE  Settled(c) \in Responses
  <1>1. Here(c) \in Layers
    BY Places
  <1>2. response[c] \in Responses /\ found[c][Here(c)] \in Entries \cup {None}
    BY <1>1 DEF TypeInv, TypeOK
  <1> QED BY <1>2 DEF Settled, Revalidated, Entries

LEMMA StoredType ==
    ASSUME TypeInv, NEW c \in Calls, pc[c] = "up"
    PROVE  /\ SlotOf(c, Settled(c)) \in Slots
           /\ [response |-> Settled(c), expiration |-> ExpirationOf(c, Settled(c))] \in Entries
           /\ Stored(c) \in [Layers -> [Slots -> Entries \cup {None}]]
  <1> DEFINE r == Settled(c)
  <1>1. r \in Responses /\ Here(c) \in Layers
    BY SettledType, Places
  <1> HIDE DEF r
  <1>2. SlotOf(c, r) \in Slots
    BY CacheAssumption DEF SlotOf, Slots
  <1>3. r.headers \in Headers /\ ForceMaxAge[c] \in Nat /\ now \in Int
    <2>1. r.headers \in Policies
      BY <1>1 DEF Responses
    <2>2. Policies \subseteq Headers /\ ForceMaxAge \in [Calls -> Nat] /\ MaxTime \in Nat
      BY CacheAssumption
    <2>3. now \in Times
      BY DEF TypeInv, TypeOK
    <2> QED BY <2>1, <2>2, <2>3 DEF Times
  <1>4. Lifetime(c, r) \in Nat /\ AgeOf(c, r) \in Nat
    <2>1. r.headers.maxAge \in Nat /\ r.headers.age \in Nat
      BY <1>3 DEF Headers
    <2>2. Lifetime(c, r) \in {ForceMaxAge[c], r.headers.maxAge} /\ AgeOf(c, r) \in {0, r.headers.age}
      BY DEF Lifetime, AgeOf, Longer
    <2> QED BY <1>3, <2>1, <2>2
  <1>5. ExpirationOf(c, r) \in Int
    BY <1>3, <1>4 DEF ExpirationOf
  <1>6. [response |-> r, expiration |-> ExpirationOf(c, r)] \in Entries
    BY <1>1, <1>5 DEF Entries
  <1>7. store \in [Layers -> [Slots -> Entries \cup {None}]]
    BY DEF TypeInv, TypeOK
  <1>8. [store EXCEPT ![Here(c)][SlotOf(c, r)] = [response |-> r, expiration |-> ExpirationOf(c, r)]]
           \in [Layers -> [Slots -> Entries \cup {None}]]
    BY <1>1, <1>2, <1>6, <1>7
  <1> QED BY <1>2, <1>6, <1>8 DEF Stored, r

LEMMA AnswerType ==
    ASSUME TypeInv, NEW c \in Calls, NEW v \in Versions
    PROVE  BodyFor(c, v) \in Bodies /\ AnswerTo(c, v) \in Responses
  <1>1. policyOf[v] \in Headers /\ policyOf[v] \in Policies
    BY CacheAssumption DEF TypeInv, TypeOK
  <1>2. policyOf[v].vary \in {"none", "segment", "session"} /\ policyOf[v].status \in {200, 404}
    BY <1>1 DEF Headers
  <1>3. BodyFor(c, v) \in Bodies
    BY <1>2, CacheAssumption DEF BodyFor, Bodies
  <1> DEFINE etag == IF policyOf[v].etag THEN BodyFor(c, v) ELSE NoBody
  <1>4. etag \in Bodies \cup {NoBody}
    BY <1>3
  <1> HIDE DEF etag
  <1>5. /\ [status |-> 304, body |-> NoBody, etag |-> etag, headers |-> policyOf[v]] \in Responses
        /\ [status |-> policyOf[v].status, body |-> BodyFor(c, v), etag |-> etag,
            headers |-> policyOf[v]] \in Responses
    BY <1>1, <1>2, <1>3, <1>4 DEF Responses
  <1> QED BY <1>3, <1>5 DEF AnswerTo, etag

LEMMA InitType == Init => TypeInv
  <1> SUFFICES ASSUME Init PROVE TypeInv
    OBVIOUS
  <1>1. 0 \in Versions /\ 0 \in Times /\ Never \in Times \cup {Never} /\ \A n \in Nat : 0 \in 0 .. n + 1
    BY CacheAssumption DEF Versions, Times
  <1>2. chain \in Chains /\ Len(chain) \in Nat
    BY CacheAssumption DEF Init
  <1>3. 0 \in 0 .. Len(chain) + 1
    BY <1>2
  <1> QED BY <1>1, <1>2, <1>3 DEF Init, TypeInv, TypeOK

LEMMA StepType == ASSUME TypeInv, NEW c \in Calls, Step(c) PROVE TypeInv'
  <1>0. /\ chain \in Chains /\ chain \in Seq(Layers) /\ Len(chain) \in Nat
        /\ pc \in [Calls -> {"idle", "down", "up", "done"}]
        /\ at \in [Calls -> 0 .. Len(chain) + 1]
        /\ found \in [Calls -> [Layers -> Entries \cup {None}]]
        /\ response \in [Calls -> Responses \cup {None}]
        /\ None \notin Responses
    BY CacheAssumption DEF TypeInv, TypeOK
  <1>1. CASE Start(c)
    BY <1>0, <1>1 DEF Start, TypeInv, TypeOK, originVars
  <1>2. CASE Hit(c)
    <2>1. PICK entry \in Readable(c) :
             /\ AtLayer(c) /\ entry # None
             /\ found' = [found EXCEPT ![c][Here(c)] = entry]
             /\ response' = [response EXCEPT ![c] = entry.response]
             /\ pc' = [pc EXCEPT ![c] = IF at[c] = 1 THEN "done" ELSE "up"]
             /\ at' = [at EXCEPT ![c] = @ - 1]
             /\ UNCHANGED <<chain, ifNoneMatch, heard, store, originVars, now>>
      BY <1>2 DEF Hit
    <2>2. Here(c) \in Layers /\ at[c] \in 1 .. Len(chain) /\ entry \in Entries /\ entry.response \in Responses
      BY <2>1, Places, ReadType DEF Entries
    <2>3. found' \in [Calls -> [Layers -> Entries \cup {None}]]
      BY <1>0, <2>1, <2>2
    <2>4. /\ at' \in [Calls -> 0 .. Len(chain) + 1]
          /\ pc'[c] = "up" => at'[c] \in 1 .. Len(chain)
      BY <1>0, <2>1, <2>2
    <2> QED BY <1>0, <2>1, <2>2, <2>3, <2>4 DEF TypeInv, TypeOK, originVars
  <1>3. CASE Pass(c)
    <2>1. PICK entry \in Readable(c) :
             /\ AtLayer(c)
             /\ found' = [found EXCEPT ![c][Here(c)] = entry]
             /\ ifNoneMatch' = IF entry # None /\ entry.response.etag # NoBody
                                  /\ Accepts(c, entry.response.status)
                               THEN [ifNoneMatch EXCEPT ![c] = entry.response.etag]
                               ELSE ifNoneMatch
             /\ at' = [at EXCEPT ![c] = @ + 1]
             /\ UNCHANGED <<chain, pc, response, heard, store, originVars, now>>
      BY <1>3 DEF Pass
    <2>2. Here(c) \in Layers /\ at[c] \in 1 .. Len(chain) /\ entry \in Entries \cup {None}
      BY <2>1, Places, ReadType
    <2>3. entry # None => entry.response.etag \in Bodies \cup {NoBody}
      BY <2>2 DEF Entries, Responses
    <2>4. found' \in [Calls -> [Layers -> Entries \cup {None}]]
      BY <1>0, <2>1, <2>2
    <2>5. ifNoneMatch' \in [Calls -> Bodies \cup {NoBody}]
      BY <2>1, <2>3 DEF TypeInv, TypeOK
    <2>6. at' \in [Calls -> 0 .. Len(chain) + 1] /\ at'[c] >= 1
      BY <1>0, <2>1, <2>2
    <2>7. pc[c] = "down"
      BY <2>1 DEF AtLayer
    <2> QED BY <1>0, <2>1, <2>4, <2>5, <2>6, <2>7 DEF TypeInv, TypeOK, originVars
  <1>4. CASE OriginAnswers(c)
    <2>1. PICK v \in Versions :
             /\ AtOrigin(c)
             /\ response' = [response EXCEPT ![c] = AnswerTo(c, v)]
             /\ heard' = [heard EXCEPT ![c] = BodyFor(c, v)]
             /\ pc' = [pc EXCEPT ![c] = IF at[c] = 1 THEN "done" ELSE "up"]
             /\ at' = [at EXCEPT ![c] = @ - 1]
             /\ UNCHANGED <<chain, found, ifNoneMatch, store, originVars, now>>
      BY <1>4 DEF OriginAnswers
    <2>2. BodyFor(c, v) \in Bodies /\ AnswerTo(c, v) \in Responses
      BY AnswerType
    <2>3. heard' \in [Calls -> Bodies \cup {NoBody}]
      BY <2>1, <2>2 DEF TypeInv, TypeOK
    <2>4. at[c] = Len(chain) + 1
      BY <1>0, <2>1 DEF AtOrigin
    <2>5. /\ at' \in [Calls -> 0 .. Len(chain) + 1]
          /\ pc'[c] = "up" => at'[c] \in 1 .. Len(chain)
      BY <1>0, <2>1, <2>4
    <2>6. /\ response' \in [Calls -> Responses \cup {None}] /\ response'[c] # None
          /\ \A d \in Calls : d # c => response'[d] = response[d] /\ pc'[d] = pc[d] /\ at'[d] = at[d]
          /\ pc' \in [Calls -> {"idle", "down", "up", "done"}] /\ pc'[c] \in {"up", "done"}
      BY <1>0, <2>1, <2>2
    <2>7. UNCHANGED <<chain, found, ifNoneMatch, store, originVars, now>>
      BY <2>1
    <2> QED BY <1>0, <2>3, <2>5, <2>6, <2>7 DEF TypeInv, TypeOK, originVars
  <1>5. CASE FetchFails(c)
    BY <1>0, <1>5 DEF FetchFails, TypeInv, TypeOK, originVars
  <1>6. CASE Ascend(c)
    <2>1. /\ pc[c] = "up"
          /\ response' = [response EXCEPT ![c] = Settled(c)]
          /\ store' \in {Stored(c), store}
          /\ pc' = [pc EXCEPT ![c] = IF at[c] = 1 THEN "done" ELSE "up"]
          /\ at' = [at EXCEPT ![c] = @ - 1]
          /\ UNCHANGED <<chain, found, ifNoneMatch, heard, originVars, now>>
      BY <1>6 DEF Ascend
    <2>2. Settled(c) \in Responses /\ at[c] \in 1 .. Len(chain)
      BY <2>1, SettledType, Places
    <2>3. store' \in [Layers -> [Slots -> Entries \cup {None}]]
      BY <2>1, StoredType DEF TypeInv, TypeOK
    <2>4. /\ at' \in [Calls -> 0 .. Len(chain) + 1]
          /\ pc'[c] = "up" => at'[c] \in 1 .. Len(chain)
      BY <1>0, <2>1, <2>2
    <2> QED BY <1>0, <2>1, <2>2, <2>3, <2>4 DEF TypeInv, TypeOK, originVars
  <1> QED BY <1>1, <1>2, <1>3, <1>4, <1>5, <1>6 DEF Step

LEMMA NextType == TypeInv /\ [Next]_vars => TypeInv'
  <1> SUFFICES ASSUME TypeInv, [Next]_vars PROVE TypeInv'
    OBVIOUS
  <1>1. ASSUME NEW c \in Calls, Step(c) PROVE TypeInv'
    BY <1>1, StepType
  <1>2. ASSUME NEW l \in Layers, NEW s \in Slots, Evict(l, s) PROVE TypeInv'
    BY <1>2 DEF Evict, walk, originVars, TypeInv, TypeOK
  <1>3. CASE Publish
    <2>1. version \in 0 .. MaxVersion /\ version < MaxVersion /\ MaxVersion \in Nat
      BY <1>3, CacheAssumption DEF Publish, TypeInv, TypeOK, Versions
    <2>2. version + 1 \in Versions
      BY <2>1 DEF Versions
    <2> QED BY <1>3, <2>2 DEF Publish, walk, TypeInv, TypeOK
  <1>4. CASE Tick
    <2>1. now \in 0 .. MaxTime /\ now < MaxTime /\ MaxTime \in Nat
      BY <1>4, CacheAssumption DEF Tick, TypeInv, TypeOK, Times
    <2>2. now + 1 \in Times
      BY <2>1 DEF Times
    <2> QED BY <1>4, <2>2 DEF Tick, walk, originVars, TypeInv, TypeOK
  <1>5. CASE UNCHANGED vars
    BY <1>5 DEF vars, walk, originVars, TypeInv, TypeOK
  <1> QED BY <1>1, <1>2, <1>3, <1>4, <1>5 DEF Next

(* Every variable keeps its type, and a call on its way up has an answer.  *)
THEOREM TypeCorrect == Spec => []TypeOK
  <1>1. TypeInv => TypeOK
    BY DEF TypeInv
  <1> QED BY InitType, NextType, <1>1, PTL DEF Spec

-----------------------------------------------------------------------------
LEMMA InitAudience == Init => AudienceInv
  BY DEF Init, AudienceInv, Slots

(* The entries a call can read are for it.                                 *)
LEMMA ReadFits ==
    ASSUME TypeInv, AudienceInv, NEW c \in Calls, AtLayer(c), NEW entry \in Readable(c), entry # None
    PROVE  Fits(entry.response, c)
  <1>1. PICK s \in {SegmentOf[c], Shared} : s \in Slots /\ entry = store[Here(c)][s]
    BY Read
  <1>2. Kept(entry.response, s)
    BY <1>1, Places DEF AudienceInv
  <1> QED BY <1>1, <1>2, CacheAssumption DEF Kept, Fits

(* What it makes of a response is for it, and is stored where it belongs.  *)
LEMMA SettledFits ==
    ASSUME TypeInv, AudienceInv, NEW c \in Calls, pc[c] = "up"
    PROVE  Fits(Settled(c), c)
  BY Places DEF AudienceInv, TypeInv, TypeOK, Settled, Revalidated

LEMMA StoredKept ==
    ASSUME TypeInv, AudienceInv, NEW c \in Calls, pc[c] = "up", Storable(c, Settled(c))
    PROVE  Kept(Settled(c), SlotOf(c, Settled(c)))
  <1> DEFINE r == Settled(c)
  <1>1. Fits(r, c) /\ r.headers.vary # "session"
    BY SettledFits DEF Storable
  <1>2. r.headers.vary \in {"none", "segment", "session"}
    <2>1. r.headers \in Policies
      BY SettledType DEF Responses
    <2> QED BY <2>1, CacheAssumption DEF Headers
  <1> HIDE DEF r
  <1>3. SegmentOf[c] # Shared
    BY CacheAssumption
  <1>4. Kept(r, SlotOf(c, r))
    BY <1>1, <1>2, <1>3 DEF Fits, Kept, SlotOf
  <1> QED BY <1>4 DEF r

LEMMA StepAudience == ASSUME TypeInv, AudienceInv, NEW c \in Calls, Step(c) PROVE AudienceInv'
  <1>0. /\ found \in [Calls -> [Layers -> Entries \cup {None}]]
        /\ response \in [Calls -> Responses \cup {None}]
        /\ store \in [Layers -> [Slots -> Entries \cup {None}]]
    BY DEF TypeInv, TypeOK
  <1>1. CASE Start(c) \/ FetchFails(c)
    BY <1>1 DEF Start, FetchFails, AudienceInv
  <1>2. CASE Hit(c)
    <2>1. PICK entry \in Readable(c) :
             /\ AtLayer(c) /\ entry # None
             /\ found' = [found EXCEPT ![c][Here(c)] = entry]
             /\ response' = [response EXCEPT ![c] = entry.response]
             /\ UNCHANGED store
      BY <1>2 DEF Hit
    <2>2. Fits(entry.response, c) /\ Here(c) \in Layers
      BY <2>1, ReadFits, Places
    <2> QED BY <1>0, <2>1, <2>2 DEF AudienceInv
  <1>3. CASE Pass(c)
    <2>1. PICK entry \in Readable(c) :
             /\ AtLayer(c)
             /\ found' = [found EXCEPT ![c][Here(c)] = entry]
             /\ UNCHANGED <<response, store>>
      BY <1>3 DEF Pass
    <2>2. (entry # None => Fits(entry.response, c)) /\ Here(c) \in Layers
      BY <2>1, ReadFits, Places
    <2> QED BY <1>0, <2>1, <2>2 DEF AudienceInv
  <1>4. CASE OriginAnswers(c)
    <2>1. PICK v \in Versions : response' = [response EXCEPT ![c] = AnswerTo(c, v)] /\ UNCHANGED <<found, store>>
      BY <1>4 DEF OriginAnswers
    <2>2. Fits(AnswerTo(c, v), c)
      BY DEF Fits, AnswerTo, BodyFor
    <2> QED BY <1>0, <2>1, <2>2 DEF AudienceInv
  <1>5. CASE Ascend(c)
    <2> DEFINE r == Settled(c)
               s == SlotOf(c, r)
               entry == [response |-> r, expiration |-> ExpirationOf(c, r)]
    <2>1. /\ pc[c] = "up" /\ Here(c) \in Layers
          /\ response' = [response EXCEPT ![c] = r]
          /\ store' = store \/ (store' = [store EXCEPT ![Here(c)][s] = entry] /\ Storable(c, r))
          /\ UNCHANGED found
      BY <1>5, Places DEF Ascend, Stored
    <2>2. Fits(r, c) /\ (Storable(c, r) => Kept(entry.response, s)) /\ s \in Slots
      BY <2>1, SettledFits, StoredKept, StoredType
    <2> HIDE DEF r, s, entry
    <2>3. ASSUME NEW l \in Layers, NEW t \in Slots, store'[l][t] # None
          PROVE  Kept(store'[l][t].response, t)
      <3>1. store'[l][t] = store[l][t] \/ (t = s /\ store'[l][t] = entry /\ Storable(c, r))
        BY <1>0, <2>1, <2>2
      <3> QED BY <2>2, <2>3, <3>1 DEF AudienceInv
    <2>4. \A d \in Calls : response'[d] # None => Fits(response'[d], d)
      BY <1>0, <2>1, <2>2 DEF AudienceInv
    <2> QED BY <2>1, <2>3, <2>4 DEF AudienceInv
  <1> QED BY <1>1, <1>2, <1>3, <1>4, <1>5 DEF Step

LEMMA NextAudience == TypeInv /\ AudienceInv /\ [Next]_vars => AudienceInv'
  <1> SUFFICES ASSUME TypeInv, AudienceInv, [Next]_vars PROVE AudienceInv'
    OBVIOUS
  <1>1. ASSUME NEW c \in Calls, Step(c) PROVE AudienceInv'
    BY <1>1, StepAudience
  <1>2. ASSUME NEW l \in Layers, NEW s \in Slots, Evict(l, s) PROVE AudienceInv'
    <2>1. store \in [Layers -> [Slots -> Entries \cup {None}]]
      BY DEF TypeInv, TypeOK
    <2> QED BY <1>2, <2>1 DEF Evict, walk, AudienceInv
  <1>3. CASE Publish \/ Tick \/ UNCHANGED vars
    <2>1. UNCHANGED <<response, found, store>>
      BY <1>3 DEF Publish, Tick, vars, walk
    <2> QED BY <2>1 DEF AudienceInv
  <1> QED BY <1>1, <1>2, <1>3 DEF Next

(* Whatever the layers, the policies and the interleaving of calls,        *)
(* evictions and revalidations, nobody is answered with data made for      *)
(* another segment or another session, and none lies under a key where     *)
(* somebody else would find it.                                            *)
THEOREM AudienceKept == Spec => []AudienceRespected
  <1>1. TypeInv /\ AudienceInv => AudienceRespected
    <2> SUFFICES ASSUME TypeInv, AudienceInv PROVE AudienceRespected
      OBVIOUS
    <2>1. ASSUME NEW c \in Calls, response[c] # None, response[c].body # NoBody
          PROVE  response[c].body.audience \in {Public, SegmentOf[c], c}
      <3>1. response[c] \in Responses
        BY <2>1 DEF TypeInv, TypeOK
      <3>2. response[c].headers \in Headers
        BY <3>1, CacheAssumption DEF Responses
      <3>3. response[c].headers.vary \in {"none", "segment", "session"}
        BY <3>2 DEF Headers
      <3> QED BY <2>1, <3>3 DEF AudienceInv, Fits
    <2>2. ASSUME NEW l \in Layers, NEW s \in Slots, store[l][s] # None, store[l][s].response.body # NoBody
          PROVE  store[l][s].response.body.audience \in {Public, s}
      BY <2>2 DEF AudienceInv, Kept
    <2> QED BY <2>1, <2>2 DEF AudienceRespected
  <1> QED BY InitType, NextType, InitAudience, NextAudience, <1>1, PTL DEF Spec

-----------------------------------------------------------------------------
(* A client with one layer: a call is at it, past it, or on its way up.    *)
LEMMA OnlyLayer ==
    ASSUME TypeInv, Len(chain) = 1, NEW c \in Calls
    PROVE  /\ chain[1] \in Layers
           /\ AtLayer(c) <=> pc[c] = "down" /\ at[c] = 1
           /\ AtOrigin(c) <=> pc[c] = "down" /\ at[c] = 2
           /\ AtLayer(c) \/ pc[c] = "up" => at[c] = 1 /\ Here(c) = chain[1]
  <1>1. chain \in Seq(Layers) /\ at[c] \in 0 .. 2
    BY CacheAssumption DEF TypeInv, TypeOK
  <1>2. pc[c] = "down" => at[c] \in 1 .. 2
    BY <1>1 DEF TypeInv
  <1>3. pc[c] = "up" => at[c] = 1
    BY <1>1 DEF TypeInv
  <1> QED BY <1>1, <1>2, <1>3 DEF AtLayer, AtOrigin, Here

LEMMA InitOneLayer == Init => OneLayerInv
  <1> SUFFICES ASSUME Init, Len(chain) = 1 PROVE OneLayerInv
    BY DEF OneLayerInv
  <1>0. Len(chain) = 1
    OBVIOUS
  <1>1. chain[1] \in Layers
    <2>1. chain \in Seq(Layers)
      BY CacheAssumption DEF Init
    <2> QED BY <1>0, <2>1, ElementOfSeq
  <1> QED BY <1>1 DEF Init, OneLayerInv, Asked, Slots

(* The answer of the origin is whole, or confirms the entry asked about.   *)
LEMMA AnswerWhole ==
    ASSUME TypeInv, NEW c \in Calls, NEW v \in Versions, v <= version
    PROVE  LET r == AnswerTo(c, v) IN
           /\ BodyFor(c, v) \in Bodies /\ BodyFor(c, v) # NoBody /\ BodyFor(c, v).version = v
           /\ IF r.status = 304
              THEN ifNoneMatch[c] = BodyFor(c, v) /\ policyOf[v].etag
              ELSE Whole(r) /\ r.body = BodyFor(c, v)
  <1>1. policyOf[v].status \in {200, 404}
    BY CacheAssumption DEF TypeInv, TypeOK, Headers
  <1>2. BodyFor(c, v) \in Bodies /\ BodyFor(c, v) # NoBody
    BY AnswerType, CacheAssumption
  <1>3. BodyFor(c, v).version = v
    BY DEF BodyFor
  <1> DEFINE body == BodyFor(c, v)
             etag == IF policyOf[v].etag THEN body ELSE NoBody
             sent == [status |-> policyOf[v].status, body |-> body, etag |-> etag, headers |-> policyOf[v]]
  <1>4. CASE policyOf[v].etag /\ ifNoneMatch[c] = body
    <2>1. AnswerTo(c, v).status = 304
      BY <1>4 DEF AnswerTo
    <2> QED BY <1>2, <1>3, <1>4, <2>1
  <1>5. CASE ~(policyOf[v].etag /\ ifNoneMatch[c] = body)
    <2>1. AnswerTo(c, v) = sent
      BY <1>5 DEF AnswerTo
    <2>2. sent.status # 304 /\ Whole(sent) /\ sent.body = body
      BY <1>1, <1>2, <1>3 DEF Whole
    <2> QED BY <1>2, <1>3, <2>1, <2>2
  <1> QED BY <1>4, <1>5

(* On its way up a call settles with what the origin has vouched for.      *)
LEMMA SettledWhole ==
    ASSUME TypeInv, OneLayerInv, Len(chain) = 1, NEW c \in Calls, pc[c] = "up"
    PROVE  /\ Whole(Settled(c))
           /\ Settled(c).body = heard[c]
           /\ heard[c] # NoBody
           /\ heard[c].version <= version
           /\ response[c].status = 304 => policyOf[heard[c].version].etag
  <1>1. Answered(c) /\ Asked(c) /\ Here(c) = chain[1]
    BY OnlyLayer DEF OneLayerInv
  <1>2. CASE response[c].status = 304
    <2> DEFINE entry == found[c][chain[1]]
    <2>1. /\ entry # None /\ ifNoneMatch[c] = entry.response.etag /\ ifNoneMatch[c] = heard[c]
          /\ heard[c] # NoBody /\ Whole(entry.response)
      BY <1>1, <1>2 DEF Answered, Asked
    <2>2. Settled(c) = entry.response
      BY <1>1, <1>2, <2>1 DEF Settled, Revalidated
    <2>3. entry.response.body = heard[c]
      BY <2>1 DEF Whole
    <2> QED BY <1>1, <1>2, <2>1, <2>2, <2>3 DEF Answered
  <1>3. CASE response[c].status # 304
    BY <1>1, <1>3 DEF Answered, Settled, Revalidated
  <1> QED BY <1>2, <1>3

LEMMA StepOneLayer ==
    ASSUME TypeInv, OneLayerInv, Len(chain) = 1, NEW c \in Calls, Step(c)
    PROVE  OneLayerInv'
  <1> DEFINE L == chain[1]
  <1>0. /\ found \in [Calls -> [Layers -> Entries \cup {None}]]
        /\ response \in [Calls -> Responses \cup {None}]
        /\ store \in [Layers -> [Slots -> Entries \cup {None}]]
        /\ pc \in [Calls -> {"idle", "down", "up", "done"}]
        /\ at \in [Calls -> 0 .. 2]
        /\ ifNoneMatch \in [Calls -> Bodies \cup {NoBody}]
        /\ heard \in [Calls -> Bodies \cup {NoBody}]
        /\ L \in Layers
        /\ UNCHANGED <<chain, version, policyOf>> /\ Len(chain') = 1
    <2>1. UNCHANGED <<chain, version, policyOf>>
      BY DEF Step, Start, Hit, Pass, OriginAnswers, FetchFails, Ascend, originVars
    <2> QED BY <2>1, OnlyLayer DEF TypeInv, TypeOK
  <1>1. \A r : Whole(r) => Whole(r)'
    BY <1>0 DEF Whole
  (* The other calls keep what they have.                                  *)
  <1>2. SUFFICES
          /\ \A l \in Layers, s \in Slots : store'[l][s] # None => Whole(store'[l][s].response)
          /\ \A d \in Calls : d # c =>
                /\ UNCHANGED <<pc[d], at[d], found[d], ifNoneMatch[d], response[d], heard[d]>>
          /\ Asked(c)'
          /\ pc'[c] \in {"idle", "down"} => heard'[c] = NoBody
          /\ pc'[c] = "idle" \/ AtLayer(c)' => ifNoneMatch'[c] = NoBody
          /\ pc'[c] = "up" => Answered(c)'
    <2>1. ASSUME NEW d \in Calls, d # c, UNCHANGED <<pc[d], at[d], found[d], ifNoneMatch[d], response[d], heard[d]>>
          PROVE  /\ Asked(d)'
                 /\ pc'[d] \in {"idle", "down"} => heard'[d] = NoBody
                 /\ pc'[d] = "idle" \/ AtLayer(d)' => ifNoneMatch'[d] = NoBody
                 /\ pc'[d] = "up" => Answered(d)'
      <3>1. /\ Asked(d)
            /\ pc[d] \in {"idle", "down"} => heard[d] = NoBody
            /\ pc[d] = "idle" \/ AtLayer(d) => ifNoneMatch[d] = NoBody
            /\ pc[d] = "up" => Answered(d)
        BY DEF OneLayerInv
      <3>2. AtLayer(d)' <=> AtLayer(d)
        BY <1>0, <2>1 DEF AtLayer
      <3>3. Asked(d)'
        BY <1>0, <1>1, <2>1, <3>1 DEF Asked
      <3>4. Answered(d) => Answered(d)'
        BY <1>0, <1>1, <2>1 DEF Answered
      <3> QED BY <2>1, <3>1, <3>2, <3>3, <3>4
    <2> QED BY <1>0, <1>1, <2>1 DEF OneLayerInv, Whole
  <1>3. CASE Start(c)
    BY <1>0, <1>3 DEF Start, OneLayerInv, Asked, Whole
  <1>4. CASE Hit(c)
    <2>1. PICK entry \in Readable(c) :
             /\ AtLayer(c) /\ entry # None
             /\ found' = [found EXCEPT ![c][Here(c)] = entry]
             /\ response' = [response EXCEPT ![c] = entry.response]
             /\ pc' = [pc EXCEPT ![c] = IF at[c] = 1 THEN "done" ELSE "up"]
             /\ at' = [at EXCEPT ![c] = @ - 1]
             /\ UNCHANGED <<ifNoneMatch, heard, store>>
      BY <1>4 DEF Hit
    <2>2. at[c] = 1 /\ Here(c) = L /\ ifNoneMatch[c] = NoBody
      BY <2>1, OnlyLayer DEF OneLayerInv
    <2>3. Whole(entry.response)
      BY <1>0, <2>1, <2>2, Read DEF OneLayerInv
    <2>4. pc'[c] = "done" /\ found'[c][L] = entry
      BY <1>0, <2>1, <2>2
    <2>5. Asked(c)'
      BY <1>0, <1>1, <2>1, <2>2, <2>3, <2>4 DEF Asked
    <2> QED BY <1>0, <2>1, <2>4, <2>5 DEF OneLayerInv, AtLayer
  <1>5. CASE Pass(c)
    <2>1. PICK entry \in Readable(c) :
             /\ AtLayer(c)
             /\ found' = [found EXCEPT ![c][Here(c)] = entry]
             /\ ifNoneMatch' = IF entry # None /\ entry.response.etag # NoBody
                                  /\ Accepts(c, entry.response.status)
                               THEN [ifNoneMatch EXCEPT ![c] = entry.response.etag]
                               ELSE ifNoneMatch
             /\ at' = [at EXCEPT ![c] = @ + 1]
             /\ UNCHANGED <<pc, response, heard, store>>
      BY <1>5 DEF Pass
    <2>2. at[c] = 1 /\ Here(c) = L /\ ifNoneMatch[c] = NoBody /\ pc[c] = "down"
      BY <2>1, OnlyLayer DEF OneLayerInv
    <2>3. entry # None => Whole(entry.response)
      BY <1>0, <2>1, <2>2, Read DEF OneLayerInv
    <2>4. found'[c][L] = entry /\ at'[c] = 2
      BY <1>0, <2>1, <2>2
    <2>5. ifNoneMatch'[c] # NoBody => entry # None /\ ifNoneMatch'[c] = entry.response.etag
      BY <1>0, <2>1, <2>2
    <2>6. Asked(c)'
      BY <1>0, <1>1, <2>3, <2>4, <2>5 DEF Asked
    <2>7. ~AtLayer(c)'
      <3>1. at'[c] = 2 /\ Len(chain') = 1 /\ ~(2 <= 1)
        BY <1>0, <2>4
      <3> QED BY <3>1 DEF AtLayer
    <2>8. \A d \in Calls : d # c => UNCHANGED <<at[d], found[d], ifNoneMatch[d]>>
      BY <1>0, <2>1
    <2> QED BY <1>0, <2>1, <2>2, <2>6, <2>7, <2>8 DEF OneLayerInv
  <1>6. CASE OriginAnswers(c)
    <2>1. PICK v \in Versions :
             /\ AtOrigin(c) /\ v <= version
             /\ response' = [response EXCEPT ![c] = AnswerTo(c, v)]
             /\ heard' = [heard EXCEPT ![c] = BodyFor(c, v)]
             /\ pc' = [pc EXCEPT ![c] = IF at[c] = 1 THEN "done" ELSE "up"]
             /\ at' = [at EXCEPT ![c] = @ - 1]
             /\ UNCHANGED <<found, ifNoneMatch, store>>
      BY <1>6 DEF OriginAnswers, Answerable
    <2>2. at[c] = 2
      BY <2>1, OnlyLayer
    <2>3. response'[c] = AnswerTo(c, v) /\ heard'[c] = BodyFor(c, v) /\ pc'[c] = "up"
      BY <1>0, <2>1, <2>2
    <2>4. Answered(c)'
      BY <1>0, <1>1, <2>1, <2>3, AnswerWhole DEF Answered
    <2>5. Asked(c)'
      BY <1>0, <1>1, <2>1 DEF Asked, OneLayerInv
    <2> QED BY <1>0, <2>1, <2>3, <2>4, <2>5 DEF OneLayerInv, AtLayer
  <1>7. CASE FetchFails(c)
    BY <1>0, <1>1, <1>7 DEF FetchFails, OneLayerInv, Asked, AtLayer
  <1>8. CASE Ascend(c)
    <2> DEFINE r == Settled(c)
               s == SlotOf(c, r)
               entry == [response |-> r, expiration |-> ExpirationOf(c, r)]
    <2>1. /\ pc[c] = "up" /\ at[c] = 1
          /\ response' = [response EXCEPT ![c] = r]
          /\ store' = store \/ store' = [store EXCEPT ![L][s] = entry]
          /\ pc' = [pc EXCEPT ![c] = IF at[c] = 1 THEN "done" ELSE "up"]
          /\ at' = [at EXCEPT ![c] = @ - 1]
          /\ UNCHANGED <<found, ifNoneMatch, heard>>
      BY <1>8, OnlyLayer DEF Ascend, Stored
    <2>2. Whole(r) /\ Whole(entry.response) /\ s \in Slots
      BY <2>1, SettledWhole, StoredType
    <2> HIDE DEF r, s, entry
    <2>3. ASSUME NEW l \in Layers, NEW t \in Slots, store'[l][t] # None
          PROVE  Whole(store'[l][t].response)
      <3>1. CASE store' = store
        BY <2>3, <3>1 DEF OneLayerInv
      <3>2. CASE store' = [store EXCEPT ![L][s] = entry]
        <4>1. store'[l][t] = store[l][t] \/ store'[l][t] = entry
          BY <1>0, <2>2, <3>2
        <4> QED BY <2>2, <2>3, <4>1 DEF OneLayerInv
      <3> QED BY <2>1, <3>1, <3>2
    <2>4. pc'[c] = "done" /\ ~AtLayer(c)'
      BY <1>0, <2>1 DEF AtLayer
    <2>5. Asked(c)'
      BY <1>0, <1>1, <2>1 DEF Asked, OneLayerInv
    <2> QED BY <1>0, <2>1, <2>3, <2>4, <2>5
  <1> QED BY <1>3, <1>4, <1>5, <1>6, <1>7, <1>8 DEF Step

LEMMA NextOneLayer == TypeInv /\ OneLayerInv /\ [Next]_vars => OneLayerInv'
  <1> SUFFICES ASSUME TypeInv, OneLayerInv, [Next]_vars, Len(chain') = 1 PROVE OneLayerInv'
    BY DEF OneLayerInv
  <1>0. UNCHANGED chain
    BY DEF Next, Step, Start, Hit, Pass, OriginAnswers, FetchFails, Ascend, Evict, Publish, Tick,
           vars, walk, originVars
  <1>1. ASSUME NEW c \in Calls, Step(c) PROVE OneLayerInv'
    BY <1>0, <1>1, StepOneLayer
  <1>2. ASSUME NEW l \in Layers, NEW s \in Slots, Evict(l, s) PROVE OneLayerInv'
    <2>1. store \in [Layers -> [Slots -> Entries \cup {None}]]
      BY DEF TypeInv, TypeOK
    <2>2. \A r : Whole(r) => Whole(r)'
      BY <1>2 DEF Evict, originVars, Whole
    <2>3. \A m \in Layers, t \in Slots : store'[m][t] # None => store'[m][t] = store[m][t]
      BY <1>2, <2>1 DEF Evict
    <2>4. \A c \in Calls : (Asked(c) => Asked(c)') /\ (Answered(c) => Answered(c)') /\ (AtLayer(c) <=> AtLayer(c)')
      BY <1>2, <2>2 DEF Evict, walk, originVars, Asked, Answered, AtLayer
    <2> QED BY <1>0, <1>2, <2>2, <2>3, <2>4 DEF Evict, walk, OneLayerInv
  <1>3. CASE Publish
    <2>1. version \in Nat /\ version' = version + 1 /\ policyOf \in [Versions -> Policies]
      BY <1>3, CacheAssumption DEF Publish, TypeInv, TypeOK, Versions
    <2>2. \A v \in Versions : v <= version => v <= version' /\ policyOf'[v] = policyOf[v]
      BY <1>3, <2>1 DEF Publish, Versions
    <2>3. \A r \in Responses : Whole(r) => Whole(r)'
      <3>1. \A r \in Responses : r.body # NoBody => r.body.version \in Versions
        BY DEF Responses, Bodies
      <3> QED BY <2>2, <3>1 DEF Whole
    <2>4. UNCHANGED <<walk, store>>
      BY <1>3 DEF Publish
    <2>5. ASSUME NEW c \in Calls, Asked(c) PROVE Asked(c)'
      <3>1. chain[1] \in Layers
        BY <1>0, OnlyLayer
      <3>2. found[c][chain[1]] # None => found[c][chain[1]].response \in Responses
        BY <3>1 DEF TypeInv, TypeOK, Entries
      <3> QED BY <2>3, <2>4, <2>5, <3>2 DEF Asked, walk
    <2>6. ASSUME NEW c \in Calls, pc[c] = "up", Answered(c) PROVE Answered(c)'
      <3>1. response[c] \in Responses
        BY <2>6 DEF TypeInv, TypeOK
      <3>2. heard[c].version \in Versions
        BY <2>6 DEF TypeInv, TypeOK, Bodies, Answered
      <3> QED BY <2>2, <2>3, <2>4, <2>6, <3>1, <3>2 DEF Answered, walk
    <2>7. \A l \in Layers, s \in Slots : store[l][s] # None => store[l][s].response \in Responses
      BY DEF TypeInv, TypeOK, Entries
    <2> QED BY <1>0, <2>3, <2>4, <2>5, <2>6, <2>7 DEF OneLayerInv, walk, AtLayer
  <1>4. CASE Tick \/ UNCHANGED vars
    <2>1. UNCHANGED <<walk, store, originVars>>
      BY <1>4 DEF Tick, vars
    <2> QED BY <2>1 DEF walk, originVars, OneLayerInv, Asked, Answered, Whole, AtLayer
  <1> QED BY <1>1, <1>2, <1>3, <1>4 DEF Next

(* How a call of a client with one layer comes to its answer: by a fresh   *)
(* entry, before the origin is asked, or on its way up.                    *)
LEMMA ReturnsHow ==
    ASSUME TypeInv, OneLayerInv, Len(chain) = 1, NEW c \in Calls, Next, Returns(c)
    PROVE  \/ \E s \in Slots : LET entry == store[chain[1]][s] IN
                 entry # None /\ Fresh(entry) /\ response'[c] = entry.response /\ heard'[c] = NoBody
           \/ pc[c] = "up" /\ response'[c] = Settled(c) /\ heard'[c] = heard[c]
  <1>0. /\ response \in [Calls -> Responses \cup {None}]
        /\ pc \in [Calls -> {"idle", "down", "up", "done"}]
        /\ pc[c] # "done" /\ pc'[c] = "done" /\ response'[c] # None
    BY DEF TypeInv, TypeOK, Returns
  <1>1. PICK d \in Calls : Step(d)
    BY <1>0 DEF Next, Evict, Publish, Tick, walk
  <1>2. d = c
    BY <1>0, <1>1 DEF Step, Start, Hit, Pass, OriginAnswers, FetchFails, Ascend
  <1>3. CASE Hit(c)
    <2>1. PICK entry \in Readable(c) :
             /\ AtLayer(c) /\ entry # None /\ Fresh(entry)
             /\ response' = [response EXCEPT ![c] = entry.response]
             /\ UNCHANGED heard
      BY <1>3 DEF Hit
    <2>2. \E s \in Slots : entry = store[chain[1]][s]
      BY <2>1, Read, OnlyLayer
    <2>3. heard[c] = NoBody
      BY <2>1, OnlyLayer DEF OneLayerInv
    <2> QED BY <1>0, <2>1, <2>2, <2>3
  <1>4. CASE OriginAnswers(c)
    <2>1. at[c] = 2 /\ pc' = [pc EXCEPT ![c] = IF at[c] = 1 THEN "done" ELSE "up"]
      BY <1>4, OnlyLayer DEF OriginAnswers
    <2> QED BY <1>0, <2>1
  <1>5. CASE Start(c) \/ Pass(c) \/ FetchFails(c)
    <2>1. pc[c] \in {"idle", "down"} /\ UNCHANGED response
      BY <1>5 DEF Start, Pass, FetchFails, AtLayer, AtOrigin
    <2> QED BY <1>0, <2>1 DEF TypeInv
  <1>6. CASE Ascend(c)
    BY <1>0, <1>6 DEF Ascend
  <1> QED BY <1>1, <1>2, <1>3, <1>4, <1>5, <1>6 DEF Step

(* A client with one cache is answered with the very data the origin sent  *)
(* it or confirmed by a 304, whatever other calls, other variants and      *)
(* evictions did to the storage while it waited.                           *)
THEOREM HeardIsReturned == Spec => ReturnsWhatItHeard
  <1>1. TypeInv /\ OneLayerInv /\ [Next]_vars =>
          [\A c \in Calls :
             Len(chain) = 1 /\ Returns(c) /\ heard'[c] # NoBody => response'[c].body = heard'[c]]_vars
    <2> SUFFICES ASSUME TypeInv, OneLayerInv, Next, NEW c \in Calls,
                        Len(chain) = 1, Returns(c), heard'[c] # NoBody
                 PROVE  response'[c].body = heard'[c]
      OBVIOUS
    <2>1. pc[c] = "up" /\ response'[c] = Settled(c) /\ heard'[c] = heard[c]
      BY ReturnsHow
    <2> QED BY <2>1, SettledWhole
  <1> QED BY InitType, NextType, InitOneLayer, NextOneLayer, <1>1, PTL DEF Spec, ReturnsWhatItHeard

-----------------------------------------------------------------------------
(* Lifetimes and ages are natural numbers, times are integers.             *)
LEMMA Numbers ==
    ASSUME TypeInv
    PROVE  /\ now \in Int /\ Never \in Int /\ now <= Never /\ version \in Int
           /\ \A v \in Versions :
                 /\ v \in Int
                 /\ retired[v] \in Int
                 /\ policyOf[v].age \in Nat
                 /\ AgeForgotten(v) \in Nat
                 /\ \A d \in Calls : LifeFor(d, v) \in Nat
  <1>1. /\ MaxTime \in Nat /\ MaxVersion \in Nat /\ ForceMaxAge \in [Calls -> Nat] /\ Policies \subseteq Headers
    BY CacheAssumption
  <1>2. now \in Int /\ Never \in Int /\ now <= Never /\ version \in Int
    BY <1>1 DEF TypeInv, TypeOK, Times, Never, Versions
  <1>3. ASSUME NEW v \in Versions
        PROVE  /\ v \in Int
               /\ retired[v] \in Int
               /\ policyOf[v].age \in Nat
               /\ AgeForgotten(v) \in Nat
               /\ \A d \in Calls : LifeFor(d, v) \in Nat
    <2>1. policyOf[v] \in Headers /\ retired[v] \in Times \cup {Never} /\ v \in Int
      BY <1>1 DEF TypeInv, TypeOK, Versions
    <2>2. policyOf[v].age \in Nat /\ policyOf[v].maxAge \in Nat /\ retired[v] \in Int
      BY <1>1, <2>1 DEF Headers, Times, Never
    <2>3. \A d \in Calls : LifeFor(d, v) \in {ForceMaxAge[d], policyOf[v].maxAge}
      BY DEF LifeFor, Longer
    <2> QED BY <1>1, <2>1, <2>2, <2>3 DEF AgeForgotten
  <1> QED BY <1>2, <1>3

LEMMA InitFresh == Init => FreshInv
  <1> SUFFICES ASSUME Init PROVE FreshInv
    OBVIOUS
  <1>1. \A l \in Layers, s \in Slots : store[l][s] = None
    BY DEF Init
  <1> QED BY <1>1 DEF Init, FreshInv, StoreLived

(* What a call writes has begun its lifetime just now, or an age ago.      *)
LEMMA StoredLived ==
    ASSUME TypeInv, OneLayerInv, FreshInv, Len(chain) = 1, NEW c \in Calls, pc[c] = "up"
    PROVE  Lived([response |-> Settled(c), expiration |-> ExpirationOf(c, Settled(c))])
  <1> DEFINE r == Settled(c)
             v == heard[c].version
  <1>1. /\ Whole(r) /\ r.body = heard[c] /\ heard[c] # NoBody
        /\ response[c].status = 304 => policyOf[v].etag
    BY SettledWhole
  <1>2. r.status \in {200, 404} /\ r.headers = policyOf[v] /\ v \in Versions
    <2>1. r.status \in {200, 304, 404} /\ heard[c] \in Bodies
      BY <1>1, SettledType DEF Responses, TypeInv, TypeOK
    <2> QED BY <1>1, <2>1 DEF Whole, Bodies
  <1>3. retired[v] >= now - policyOf[v].age
    BY DEF FreshInv, Recent
  <1>4. Lifetime(c, r) = LifeFor(c, v)
    BY <1>2 DEF Lifetime, LifeFor
  <1>5. AgeOf(c, r) = IF response[c].status = 304 THEN 0 ELSE policyOf[v].age
    BY <1>2 DEF AgeOf
  <1>6. response[c].status = 304 => AgeForgotten(v) = policyOf[v].age
    BY <1>1 DEF AgeForgotten
  <1> DEFINE e == ExpirationOf(c, r)
             x == LifeFor(c, v)
             a == policyOf[v].age
             f == AgeForgotten(v)
  <1>7. e = now + x - (IF response[c].status = 304 THEN 0 ELSE a)
    BY <1>4, <1>5 DEF ExpirationOf
  <1>8. now \in Int /\ retired[v] \in Int /\ a \in Nat /\ f \in Nat /\ x \in Nat
    BY <1>2, Numbers
  <1>9. e - x <= now /\ e - x - f <= retired[v]
    <2> HIDE DEF e, x, a, f, v
    <2>1. CASE response[c].status = 304
      <3>1. f = a /\ e = now + x
        BY <1>6, <1>7, <1>8, <2>1 DEF f, a
      <3>2. retired[v] >= now - a
        BY <1>3 DEF a
      <3> QED BY <1>8, <3>1, <3>2
    <2>2. CASE response[c].status # 304
      <3>1. e = now + x - a
        BY <1>7, <2>2
      <3>2. retired[v] >= now - a
        BY <1>3 DEF a
      <3> QED BY <1>8, <3>1, <3>2
    <2> QED BY <2>1, <2>2
  <1> QED BY <1>1, <1>9 DEF Lived

LEMMA StepFresh ==
    ASSUME TypeInv, OneLayerInv, FreshInv, NEW c \in Calls, Step(c)
    PROVE  FreshInv'
  <1>0. /\ UNCHANGED <<chain, version, policyOf, retired, now>>
        /\ pc \in [Calls -> {"idle", "down", "up", "done"}]
        /\ store \in [Layers -> [Slots -> Entries \cup {None}]]
        /\ heard \in [Calls -> Bodies \cup {NoBody}]
    BY DEF Step, Start, Hit, Pass, OriginAnswers, FetchFails, Ascend, originVars, TypeInv, TypeOK
  <1>1. \A e : Lived(e) => Lived(e)'
    BY <1>0 DEF Lived, LifeFor, AgeForgotten
  <1> SUFFICES ASSUME Len(chain) = 1 PROVE StoreLived' /\ \A d \in Calls : pc'[d] = "up" => Recent(d)'
    BY <1>0 DEF FreshInv
  <1>a. UNCHANGED store => StoreLived'
    BY <1>1 DEF FreshInv, StoreLived
  <1>b. \A d \in Calls : pc[d] = "up" /\ UNCHANGED heard[d] => Recent(d)'
    BY <1>0 DEF FreshInv, Recent
  <1>2. CASE Start(c) \/ Hit(c) \/ Pass(c) \/ FetchFails(c)
    <2>1. UNCHANGED <<store, heard>>
      BY <1>2 DEF Start, Hit, Pass, FetchFails
    <2>2. pc'[c] # "up"
      <3>1. CASE Hit(c)
        <4>1. at[c] = 1 /\ pc' = [pc EXCEPT ![c] = IF at[c] = 1 THEN "done" ELSE "up"]
          BY <3>1, OnlyLayer DEF Hit
        <4> QED BY <1>0, <4>1
      <3> QED BY <1>0, <1>2, <3>1 DEF Start, Pass, FetchFails, AtLayer
    <2>3. \A d \in Calls : d # c => UNCHANGED pc[d]
      BY <1>0, <1>2 DEF Start, Hit, Pass, FetchFails
    <2> QED BY <1>a, <1>b, <2>1, <2>2, <2>3
  <1>3. CASE OriginAnswers(c)
    <2>1. PICK v \in Versions :
             /\ Answerable(v)
             /\ heard' = [heard EXCEPT ![c] = BodyFor(c, v)]
             /\ pc' = [pc EXCEPT ![c] = IF at[c] = 1 THEN "done" ELSE "up"]
             /\ UNCHANGED store
      BY <1>3 DEF OriginAnswers
    <2>2. heard'[c].version = v
      BY <1>0, <2>1 DEF BodyFor
    <2>3. retired[v] >= now - policyOf[v].age
      <3>1. CASE v = version
        <4>1. retired[v] = Never
          BY <3>1, Numbers DEF FreshInv
        <4> QED BY <4>1, Numbers
      <3> QED BY <2>1, <3>1 DEF Answerable
    <2>4. \A d \in Calls : d # c => UNCHANGED <<pc[d], heard[d]>>
      BY <1>0, <2>1
    <2>5. Recent(c)'
      BY <1>0, <2>2, <2>3 DEF Recent
    <2> QED BY <1>a, <1>b, <2>1, <2>4, <2>5
  <1>4. CASE Ascend(c)
    <2> DEFINE entry == [response |-> Settled(c), expiration |-> ExpirationOf(c, Settled(c))]
    <2>1. /\ pc[c] = "up" /\ at[c] = 1
          /\ store' \in {Stored(c), store}
          /\ pc' = [pc EXCEPT ![c] = IF at[c] = 1 THEN "done" ELSE "up"]
          /\ UNCHANGED heard
      BY <1>4, OnlyLayer DEF Ascend
    <2>2. Lived(entry) /\ Here(c) \in Layers /\ SlotOf(c, Settled(c)) \in Slots
      BY <2>1, StoredLived, Places, StoredType
    <2>3. StoreLived'
      <3> SUFFICES ASSUME NEW l \in Layers, NEW s \in Slots, store'[l][s] # None
                   PROVE  \E e : e = store'[l][s] /\ Lived(e)'
        BY DEF StoreLived
      <3> HIDE DEF entry
      <3>1. Stored(c) = [store EXCEPT ![Here(c)][SlotOf(c, Settled(c))] = entry]
        BY DEF Stored, entry
      <3>2. store'[l][s] = store[l][s] \/ store'[l][s] = entry
        BY <1>0, <2>1, <2>2, <3>1
      <3>3. store[l][s] # None => Lived(store[l][s])
        BY DEF FreshInv, StoreLived
      <3> QED BY <1>1, <2>2, <3>2, <3>3
    <2>4. \A d \in Calls : pc'[d] = "up" => pc[d] = "up"
      BY <1>0, <2>1
    <2> QED BY <1>b, <2>1, <2>3, <2>4
  <1> QED BY <1>2, <1>3, <1>4 DEF Step

LEMMA NextFresh == TypeInv /\ OneLayerInv /\ FreshInv /\ [Next]_vars => FreshInv'
  <1> SUFFICES ASSUME TypeInv, OneLayerInv, FreshInv, [Next]_vars PROVE FreshInv'
    OBVIOUS
  <1>1. ASSUME NEW c \in Calls, Step(c) PROVE FreshInv'
    BY <1>1, StepFresh
  <1>2. ASSUME NEW l \in Layers, NEW s \in Slots, Evict(l, s) PROVE FreshInv'
    <2>1. store \in [Layers -> [Slots -> Entries \cup {None}]]
      BY DEF TypeInv, TypeOK
    <2>2. UNCHANGED <<walk, originVars, now>>
      BY <1>2 DEF Evict
    <2>3. \A m \in Layers, t \in Slots : store'[m][t] # None => store'[m][t] = store[m][t]
      BY <1>2, <2>1 DEF Evict
    <2>4. \A e : Lived(e) => Lived(e)'
      BY <2>2 DEF originVars, Lived, LifeFor, AgeForgotten
    <2>5. StoreLived => StoreLived'
      BY <2>3, <2>4 DEF StoreLived
    <2> QED BY <2>2, <2>5 DEF walk, originVars, FreshInv, Recent
  <1>3. CASE Publish
    <2>1. /\ version \in Nat /\ version' = version + 1 /\ version \in Versions
          /\ retired' = [retired EXCEPT ![version] = now]
          /\ \A v \in Versions : v # version + 1 => policyOf'[v] = policyOf[v]
          /\ UNCHANGED <<walk, store, now>>
          /\ retired \in [Versions -> Times \cup {Never}]
      <3>1. MaxVersion \in Nat /\ version \in Versions
        BY CacheAssumption DEF TypeInv, TypeOK
      <3>2. version \in Nat
        BY <3>1 DEF Versions
      <3> QED BY <1>3, <3>1, <3>2 DEF Publish, TypeInv, TypeOK
    <2>2. ASSUME NEW v \in Versions, v <= version
          PROVE  /\ policyOf'[v] = policyOf[v]
                 /\ v # version => retired'[v] = retired[v]
                 /\ v = version => retired'[v] = now
      <3>1. v # version + 1
        BY <2>1, <2>2, Numbers
      <3> QED BY <2>1, <3>1
    <2>3. \A v \in Versions : v >= version' => retired'[v] = Never
      <3> SUFFICES ASSUME NEW v \in Versions, v >= version' PROVE retired'[v] = Never
        OBVIOUS
      <3>1. v >= version /\ v # version
        BY <2>1, Numbers
      <3> QED BY <2>1, <3>1 DEF FreshInv
    <2>4. ASSUME NEW e \in Entries, Lived(e), Whole(e.response) PROVE Lived(e)'
      <3> DEFINE v == e.response.body.version
      <3>1. v \in Versions /\ v <= version /\ e.expiration \in Int
        BY <2>4 DEF Whole, Entries, Responses, Bodies
      <3>2. PICK d \in Calls : /\ e.expiration - LifeFor(d, v) <= now
                               /\ e.expiration - LifeFor(d, v) - AgeForgotten(v) <= retired[v]
        BY <2>4 DEF Lived
      <3>3. /\ LifeFor(d, v)' = LifeFor(d, v) /\ AgeForgotten(v)' = AgeForgotten(v) /\ now' = now
        BY <2>1, <2>2, <3>1 DEF LifeFor, AgeForgotten
      <3> HIDE DEF v
      <3>4. LifeFor(d, v) \in Nat /\ AgeForgotten(v) \in Nat /\ now \in Int
        BY <3>1, Numbers
      <3>5. e.expiration - LifeFor(d, v) - AgeForgotten(v) <= retired'[v]
        BY <2>2, <3>1, <3>2, <3>4
      <3> QED BY <3>2, <3>3, <3>5 DEF Lived, v
    <2>5. ASSUME Len(chain) = 1 PROVE StoreLived'
      <3> SUFFICES ASSUME NEW l \in Layers, NEW s \in Slots, store'[l][s] # None
                   PROVE  \E e : e = store'[l][s] /\ Lived(e)'
        BY DEF StoreLived
      <3>1. store[l][s] \in Entries /\ store'[l][s] = store[l][s]
        BY <2>1 DEF TypeInv, TypeOK
      <3>2. Lived(store[l][s]) /\ Whole(store[l][s].response)
        BY <2>5, <3>1 DEF FreshInv, StoreLived, OneLayerInv
      <3> QED BY <2>4, <3>1, <3>2
    <2>6. ASSUME Len(chain) = 1, NEW c \in Calls, pc[c] = "up"
          PROVE  Recent(c)'
      <3>1. PICK v \in Versions : v = heard[c].version /\ v <= version
        BY <2>6 DEF OneLayerInv, Answered, TypeInv, TypeOK, Bodies
      <3>2. retired[v] >= now - policyOf[v].age
        BY <2>6, <3>1 DEF FreshInv, Recent
      <3>3. retired'[v] >= now - policyOf'[v].age
        BY <2>2, <3>1, <3>2, Numbers
      <3> QED BY <2>1, <3>1, <3>3 DEF Recent, walk
    <2> QED BY <2>1, <2>3, <2>5, <2>6 DEF FreshInv, walk
  <1>4. CASE Tick
    <2>1. UNCHANGED <<walk, store, originVars>> /\ now' = now + 1 /\ \A c \in Calls : pc[c] # "up"
      BY <1>4 DEF Tick
    <2>2. ASSUME NEW e \in Entries, Lived(e), Whole(e.response) PROVE Lived(e)'
      <3> DEFINE v == e.response.body.version
      <3>1. v \in Versions /\ e.expiration \in Int
        BY <2>2 DEF Whole, Entries, Responses, Bodies
      <3>2. PICK d \in Calls : /\ e.expiration - LifeFor(d, v) <= now
                               /\ e.expiration - LifeFor(d, v) - AgeForgotten(v) <= retired[v]
        BY <2>2 DEF Lived
      <3>3. LifeFor(d, v) \in Nat /\ now \in Int /\ UNCHANGED <<policyOf, retired>>
        BY <2>1, <3>1, Numbers DEF originVars
      <3>4. e.expiration - LifeFor(d, v) <= now'
        BY <2>1, <3>1, <3>2, <3>3
      <3> QED BY <3>2, <3>3, <3>4 DEF Lived, LifeFor, AgeForgotten
    <2>3. ASSUME Len(chain) = 1 PROVE StoreLived'
      <3> SUFFICES ASSUME NEW l \in Layers, NEW s \in Slots, store'[l][s] # None
                   PROVE  \E e : e = store'[l][s] /\ Lived(e)'
        BY DEF StoreLived
      <3>1. store[l][s] \in Entries /\ store'[l][s] = store[l][s]
        BY <2>1 DEF TypeInv, TypeOK
      <3>2. Lived(store[l][s]) /\ Whole(store[l][s].response)
        BY <2>3, <3>1 DEF FreshInv, StoreLived, OneLayerInv
      <3> QED BY <2>2, <3>1, <3>2
    <2> QED BY <2>1, <2>3 DEF FreshInv, walk, originVars
  <1>5. CASE UNCHANGED vars
    BY <1>5 DEF vars, walk, originVars, FreshInv, StoreLived, Recent, Lived, LifeFor, AgeForgotten
  <1> QED BY <1>1, <1>2, <1>3, <1>4, <1>5 DEF Next

(* A client with one cache is never answered out of it with data replaced  *)
(* longer ago than its lifetime, and, for data with an etag, the age it    *)
(* had when the origin last confirmed it.                                  *)
THEOREM FreshnessKept == Spec => FreshEnough
  <1>1. TypeInv /\ OneLayerInv /\ FreshInv /\ [Next]_vars =>
          [\A c \in Calls :
             LET body == response'[c].body
                 v == body.version
             IN
             Len(chain) = 1 /\ Returns(c) /\ heard'[c] = NoBody /\ body # NoBody =>
                 \E d \in Calls : retired[v] > now - LifeFor(d, v) - AgeForgotten(v)]_vars
    <2> SUFFICES ASSUME TypeInv, OneLayerInv, FreshInv, Next, NEW c \in Calls, Len(chain) = 1,
                        Returns(c), heard'[c] = NoBody
                 PROVE  LET v == response'[c].body.version IN
                        \E d \in Calls : retired[v] > now - LifeFor(d, v) - AgeForgotten(v)
      OBVIOUS
    <2>1. \E s \in Slots : LET entry == store[chain[1]][s] IN
                 entry # None /\ Fresh(entry) /\ response'[c] = entry.response
      BY ReturnsHow, SettledWhole
    <2>2. chain[1] \in Layers
      BY OnlyLayer
    <2>3. PICK e \in Entries : /\ Fresh(e) /\ response'[c] = e.response
                               /\ Lived(e) /\ Whole(e.response)
      <3>1. PICK s \in Slots : LET entry == store[chain[1]][s] IN
               entry # None /\ Fresh(entry) /\ response'[c] = entry.response
        BY <2>1
      <3>2. store[chain[1]][s] \in Entries
        BY <2>2, <3>1 DEF TypeInv, TypeOK
      <3>3. Lived(store[chain[1]][s]) /\ Whole(store[chain[1]][s].response)
        BY <2>2, <3>1 DEF FreshInv, StoreLived, OneLayerInv
      <3> QED BY <3>1, <3>2, <3>3
    <2> DEFINE v == e.response.body.version
    <2>4. v \in Versions /\ e.expiration \in Int
      BY <2>3 DEF Whole, Entries, Responses, Bodies
    <2>5. PICK d \in Calls : e.expiration - LifeFor(d, v) - AgeForgotten(v) <= retired[v]
      BY <2>3 DEF Lived
    <2>6. e.expiration > now
      BY <2>3 DEF Fresh
    <2>7. now \in Int /\ retired[v] \in Int /\ LifeFor(d, v) \in Nat /\ AgeForgotten(v) \in Nat
      BY <2>4, Numbers
    <2> HIDE DEF v
    <2>8. retired[v] > now - LifeFor(d, v) - AgeForgotten(v)
      BY <2>4, <2>5, <2>6, <2>7
    <2> QED BY <2>3, <2>8 DEF v
  <1> QED BY InitType, NextType, InitOneLayer, NextOneLayer, InitFresh, NextFresh, <1>1, PTL
          DEF Spec, FreshEnough

-----------------------------------------------------------------------------
(* A stack of layers, each of which keeps what it took out of the next for *)
(* a lifetime more.  Answers have no etag, so that none is revalidated; a  *)
(* stack has a layer once; a lifetime is at most `life'.                   *)
NothingRevalidated == \A p \in Policies : ~p.etag
LayersOnce == \A stack \in Chains : \A i, j \in DOMAIN stack : stack[i] = stack[j] => i = j
LivesUpTo(life) == life \in Nat /\ \A p \in Policies, d \in Calls : ForceMaxAge[d] <= life /\ p.maxAge <= life

(* When a version was current for the last time; what the layers from the  *)
(* i-th inwards add to it.                                                 *)
Until(v) == IF retired[v] < now THEN retired[v] ELSE now
Depth(i, life) == (Len(chain) + 1 - i) * life

Sent(r) == r.status # 304 /\ r.body # NoBody
Lasts(entry, i, life) ==
    /\ Sent(entry.response)
    /\ entry.expiration <= Until(entry.response.body.version) + Depth(i, life)
Carried(c, life) ==
    LET known == Until(response[c].body.version) + Depth(at[c] + 1, life) IN
    /\ Sent(response[c])
    /\ now - response[c].headers.age <= known
    /\ heard[c] = NoBody => now < known
StackInv(life) ==
    /\ \A v \in Versions : v >= version => retired[v] = Never
    /\ \A i \in DOMAIN chain, s \in Slots :
          store[chain[i]][s] # None => Lasts(store[chain[i]][s], i, life)
    /\ \A c \in Calls : pc[c] = "up" => Carried(c, life)

(* Each layer outwards adds a lifetime, and the innermost has one.         *)
LEMMA Deeper ==
    ASSUME TypeInv, NEW life \in Nat, NEW i \in 1 .. Len(chain) + 1
    PROVE  /\ Len(chain) \in Nat /\ Depth(i, life) \in Nat
           /\ Depth(i, life) = Depth(i + 1, life) + life
           /\ Depth(Len(chain) + 1, life) = 0
  <1>1. Len(chain) \in Nat
    BY CacheAssumption DEF TypeInv, TypeOK
  <1> DEFINE n == Len(chain)
  <1>2. (n + 1 - i) \in Nat /\ n + 1 - i = (n + 1 - (i + 1)) + 1 /\ n + 1 - (n + 1) = 0
    BY <1>1
  <1>3. \A k \in Int : (k + 1) * life = k * life + life
    OBVIOUS
  <1>4. \A k \in Nat : k * life \in Nat
    OBVIOUS
  <1>5. 0 * life = 0
    OBVIOUS
  <1>6. n + 1 - (i + 1) \in Int
    BY <1>1
  <1> HIDE DEF n
  <1>7. (n + 1 - i) * life \in Nat
    BY ONLY <1>2, <1>4
  <1>8. (n + 1 - i) * life = (n + 1 - (i + 1)) * life + life
    BY ONLY <1>2, <1>3, <1>6
  <1>9. (n + 1 - (n + 1)) * life = 0
    BY ONLY <1>2, <1>5
  <1> QED BY <1>1, <1>7, <1>8, <1>9 DEF Depth, n

(* A version stays known as long as it was.                                *)
LEMMA UntilInt ==
    ASSUME TypeInv, NEW v \in Versions
    PROVE  Until(v) \in Int /\ Until(v) <= now /\ Until(v) <= retired[v] /\ now \in Int /\ retired[v] \in Int
  BY Numbers DEF Until

(* A client begins with empty layers.                                     *)
LEMMA InitStack == ASSUME NEW life, Init PROVE StackInv(life)
  <1>1. \A l \in Layers, s \in Slots : store[l][s] = None
    BY DEF Init
  <1>2. \A i \in DOMAIN chain : chain[i] \in Layers
    BY CacheAssumption DEF Init
  <1> QED BY <1>1, <1>2 DEF Init, StackInv

(* What a layer writes lasts a lifetime longer than it was known for.      *)
LEMMA StoredLasts ==
    ASSUME TypeInv, NEW life, LivesUpTo(life), StackInv(life), NEW c \in Calls, pc[c] = "up"
    PROVE  /\ Settled(c) = response[c] /\ response[c] \in Responses /\ Sent(response[c])
           /\ Lasts([response |-> Settled(c), expiration |-> ExpirationOf(c, Settled(c))], at[c], life)
  <1> DEFINE r == response[c]
             v == r.body.version
             age == r.headers.age
             known == Until(v) + Depth(at[c] + 1, life)
  <1>1. Sent(r) /\ now - age <= known
    BY DEF StackInv, Carried
  <1>2. Settled(c) = r
    BY <1>1 DEF Settled, Revalidated, Sent
  <1>3. r \in Responses
    BY <1>2, SettledType
  <1>4. v \in Versions /\ r.headers \in Policies /\ age \in Nat /\ r.headers.maxAge \in Nat /\ ForceMaxAge[c] \in Nat
    <2>1. r.body \in Bodies /\ r.headers \in Policies
      BY <1>1, <1>3 DEF Responses, Sent
    <2>2. r.headers \in Headers
      BY <2>1, CacheAssumption
    <2> QED BY <2>1, <2>2, CacheAssumption DEF Bodies, Headers
  <1>5. Lifetime(c, r) \in Nat /\ Lifetime(c, r) <= life
    BY <1>4 DEF Lifetime, Longer, LivesUpTo
  <1>6. AgeOf(c, r) = age
    BY <1>1 DEF AgeOf, Sent
  <1>7. /\ life \in Nat /\ at[c] \in 1 .. Len(chain) /\ at[c] \in 1 .. Len(chain) + 1
        /\ at[c] + 1 \in 1 .. Len(chain) + 1
    BY Places DEF LivesUpTo
  <1>8. Depth(at[c], life) = Depth(at[c] + 1, life) + life /\ Depth(at[c] + 1, life) \in Nat
    BY <1>7, Deeper
  <1>9. Until(v) \in Int /\ now \in Int
    BY <1>4, UntilInt
  <1> HIDE DEF r, v, age
  <1>10. ExpirationOf(c, r) <= Until(v) + Depth(at[c], life)
    BY <1>1, <1>4, <1>5, <1>6, <1>7, <1>8, <1>9 DEF ExpirationOf
  <1> QED BY <1>1, <1>2, <1>3, <1>10 DEF Lasts, r, v

(* What a layer has that is fresh was current a lifetime per layer ago.    *)
LEMMA FreshLasts ==
    ASSUME TypeInv, NEW life, LivesUpTo(life), StackInv(life), NEW c \in Calls, AtLayer(c),
           NEW entry \in Readable(c), entry # None, Fresh(entry)
    PROVE  /\ entry.response \in Responses /\ Sent(entry.response)
           /\ entry.response.body.version \in Versions /\ entry.response.headers.age \in Nat
           /\ now < Until(entry.response.body.version) + Depth(at[c], life)
  <1>1. PICK s \in Slots : entry = store[chain[at[c]]][s]
    BY Read DEF Here
  <1>2. at[c] \in DOMAIN chain
    <2>1. chain \in Seq(Layers)
      BY CacheAssumption DEF TypeInv, TypeOK
    <2> QED BY <2>1, Places
  <1>3. Lasts(entry, at[c], life)
    BY <1>1, <1>2 DEF StackInv
  <1>4. entry \in Entries
    BY ReadType
  <1>5. entry.response \in Responses /\ entry.response.body \in Bodies /\ entry.response.headers \in Headers
    BY <1>3, <1>4, CacheAssumption DEF Lasts, Sent, Entries, Responses
  <1>6. entry.response.body.version \in Versions /\ entry.response.headers.age \in Nat /\ entry.expiration \in Int
    BY <1>4, <1>5 DEF Bodies, Headers, Entries
  <1>7. now \in Int /\ Until(entry.response.body.version) \in Int /\ Depth(at[c], life) \in Nat
    <2>1. life \in Nat /\ at[c] \in 1 .. Len(chain) + 1
      BY Places DEF LivesUpTo
    <2> QED BY <2>1, <1>6, Deeper, UntilInt
  <1>8. now < entry.expiration
    BY <1>6, <1>7 DEF Fresh
  <1> QED BY <1>3, <1>5, <1>6, <1>7, <1>8 DEF Lasts

(* Every step of a call, and every other, keeps what the layers hold and   *)
(* what is carried up within those bounds.                                 *)
LEMMA StepStack ==
    ASSUME NothingRevalidated, LayersOnce, TypeInv, NEW life, LivesUpTo(life), StackInv(life),
           NEW c \in Calls, Step(c)
    PROVE  StackInv(life)'
  <1>0. /\ UNCHANGED <<chain, version, policyOf, retired, now>>
        /\ pc \in [Calls -> {"idle", "down", "up", "done"}]
        /\ at \in [Calls -> 0 .. Len(chain) + 1]
        /\ response \in [Calls -> Responses \cup {None}]
        /\ heard \in [Calls -> Bodies \cup {NoBody}]
        /\ store \in [Layers -> [Slots -> Entries \cup {None}]]
        /\ chain \in Chains /\ chain \in Seq(Layers) /\ Len(chain) \in Nat
    BY CacheAssumption
       DEF Step, Start, Hit, Pass, OriginAnswers, FetchFails, Ascend, originVars, TypeInv, TypeOK
  <1> DEFINE StoreLasts == \A i \in DOMAIN chain, s \in Slots :
                 store[chain[i]][s] # None => Lasts(store[chain[i]][s], i, life)
             AllCarried == \A d \in Calls : pc[d] = "up" => Carried(d, life)
  <1>a. \A entry, i : Lasts(entry, i, life) => Lasts(entry, i, life)'
    BY <1>0 DEF Lasts, Until, Depth
  <1>b. ASSUME NEW d \in Calls, pc[d] = "up", UNCHANGED <<at[d], response[d], heard[d]>> PROVE Carried(d, life)'
    BY <1>0, <1>b DEF StackInv, Carried, Until, Depth
  <1>c. StoreLasts' /\ AllCarried' => StackInv(life)'
    BY <1>0 DEF StackInv
  <1>d. UNCHANGED store => StoreLasts'
    BY <1>0, <1>a DEF StackInv
  <1> HIDE DEF StoreLasts
  <1>1. CASE Start(c) \/ Pass(c) \/ FetchFails(c)
    <2>1. UNCHANGED <<store, response, heard>> /\ pc'[c] # "up"
      BY <1>0, <1>1 DEF Start, Pass, FetchFails, AtLayer
    <2>2. \A d \in Calls : d # c => UNCHANGED <<pc[d], at[d]>>
      BY <1>0, <1>1 DEF Start, Pass, FetchFails
    <2>3. AllCarried'
      BY <1>b, <2>1, <2>2
    <2> QED BY <1>c, <1>d, <2>1, <2>3
  <1>2. CASE Hit(c)
    <2>1. PICK entry \in Readable(c) :
             /\ AtLayer(c) /\ entry # None /\ Fresh(entry)
             /\ response' = [response EXCEPT ![c] = entry.response]
             /\ pc' = [pc EXCEPT ![c] = IF at[c] = 1 THEN "done" ELSE "up"]
             /\ at' = [at EXCEPT ![c] = @ - 1]
             /\ UNCHANGED <<heard, store>>
      BY <1>2 DEF Hit
    <2> DEFINE v == entry.response.body.version
    <2>2. /\ Sent(entry.response) /\ v \in Versions /\ entry.response.headers.age \in Nat
          /\ now < Until(v) + Depth(at[c], life)
      BY <2>1, FreshLasts
    <2>3. response'[c] = entry.response /\ at'[c] + 1 = at[c]
      BY <1>0, <2>1
    <2>4. now \in Int /\ Until(v) + Depth(at[c], life) \in Int
      <3>1. at[c] \in 1 .. Len(chain) + 1 /\ life \in Nat
        BY <2>1, Places DEF LivesUpTo
      <3> QED BY <2>2, <3>1, Deeper, UntilInt
    <2> DEFINE known == Until(v) + Depth(at[c], life)
               age == entry.response.headers.age
    <2>5. now - age <= known
      <3> HIDE DEF known, age
      <3>1. now < known /\ now \in Int /\ known \in Int /\ age \in Nat
        BY <2>2, <2>4 DEF known, age
      <3> QED BY <3>1
    <2>6. Carried(c, life)'
      BY <1>0, <2>2, <2>3, <2>5 DEF Carried, Until, Depth
    <2>7. \A d \in Calls : d # c => UNCHANGED <<pc[d], at[d], response[d], heard[d]>>
      BY <1>0, <2>1
    <2>8. AllCarried'
      BY <1>b, <2>6, <2>7
    <2> QED BY <1>c, <1>d, <2>1, <2>8
  <1>3. CASE OriginAnswers(c)
    <2>1. PICK v \in Versions :
             /\ AtOrigin(c) /\ Answerable(v)
             /\ response' = [response EXCEPT ![c] = AnswerTo(c, v)]
             /\ heard' = [heard EXCEPT ![c] = BodyFor(c, v)]
             /\ pc' = [pc EXCEPT ![c] = IF at[c] = 1 THEN "done" ELSE "up"]
             /\ at' = [at EXCEPT ![c] = @ - 1]
             /\ UNCHANGED store
      BY <1>3 DEF OriginAnswers
    <2> DEFINE r == AnswerTo(c, v)
    <2>2. BodyFor(c, v) \in Bodies /\ policyOf[v] \in Policies /\ policyOf[v] \in Headers
      BY AnswerType, CacheAssumption DEF TypeInv, TypeOK
    <2>3. r.status = policyOf[v].status /\ r.body = BodyFor(c, v) /\ r.headers = policyOf[v]
      BY <2>2 DEF NothingRevalidated, AnswerTo
    <2>4. Sent(r) /\ r.body.version = v /\ BodyFor(c, v) # NoBody
      BY <2>2, <2>3, CacheAssumption DEF Sent, Headers, BodyFor
    <2>5. now - policyOf[v].age <= Until(v)
      <3>1. /\ now \in Int /\ retired[v] \in Int /\ policyOf[v].age \in Nat
            /\ now <= Never /\ Never \in Int
            /\ version \in Int
        BY Numbers
      <3>2. v = version => retired[v] = Never
        BY <3>1 DEF StackInv
      <3>3. retired[v] >= now - policyOf[v].age
        BY <2>1, <3>1, <3>2 DEF Answerable
      <3> QED BY <3>1, <3>3 DEF Until
    <2>6. at[c] = Len(chain) + 1
      BY <1>0, <2>1 DEF AtOrigin
    <2>7. Depth(at[c], life) = 0 /\ at'[c] + 1 = at[c] /\ response'[c] = r /\ heard'[c] # NoBody
      <3>1. 1 \in 1 .. Len(chain) + 1 /\ life \in Nat
        BY <1>0 DEF LivesUpTo
      <3> QED BY <1>0, <2>1, <2>4, <2>6, <3>1, Deeper
    <2>8. Until(v) \in Int
      BY UntilInt
    <2> HIDE DEF r
    <2>9. Carried(c, life)'
      BY <1>0, <2>3, <2>4, <2>5, <2>7, <2>8 DEF Carried, Until, Depth
    <2>10. \A d \in Calls : d # c => UNCHANGED <<pc[d], at[d], response[d], heard[d]>>
      BY <1>0, <2>1
    <2>11. AllCarried'
      BY <1>b, <2>9, <2>10
    <2> QED BY <1>c, <1>d, <2>1, <2>11
  <1>4. CASE Ascend(c)
    <2> DEFINE entry == [response |-> Settled(c), expiration |-> ExpirationOf(c, Settled(c))]
    <2>1. /\ pc[c] = "up"
          /\ response' = [response EXCEPT ![c] = Settled(c)]
          /\ store' \in {Stored(c), store}
          /\ pc' = [pc EXCEPT ![c] = IF at[c] = 1 THEN "done" ELSE "up"]
          /\ at' = [at EXCEPT ![c] = @ - 1]
          /\ UNCHANGED heard
      BY <1>4 DEF Ascend
    <2>2. /\ Settled(c) = response[c] /\ response[c] \in Responses /\ Sent(response[c])
          /\ Lasts(entry, at[c], life)
      BY <2>1, StoredLasts
    <2>3. at[c] \in 1 .. Len(chain) /\ Here(c) \in Layers /\ SlotOf(c, Settled(c)) \in Slots
      BY <2>1, Places, StoredType
    <2>4. StoreLasts'
      <3> SUFFICES ASSUME NEW i \in DOMAIN chain, NEW s \in Slots, store'[chain[i]][s] # None
                   PROVE  \E e : e = store'[chain[i]][s] /\ Lasts(e, i, life)'
        BY <1>0 DEF StoreLasts
      <3> HIDE DEF entry
      <3>1. Stored(c) = [store EXCEPT ![Here(c)][SlotOf(c, Settled(c))] = entry]
        BY DEF Stored, entry
      <3>2. chain[i] \in Layers
        BY <1>0
      <3>3. \/ store'[chain[i]][s] = store[chain[i]][s]
            \/ store'[chain[i]][s] = entry /\ chain[i] = Here(c)
        BY <1>0, <2>1, <2>3, <3>1, <3>2
      <3>4. chain[i] = Here(c) => i = at[c]
        BY <1>0, <2>3 DEF LayersOnce, Here
      <3>5. store[chain[i]][s] # None => Lasts(store[chain[i]][s], i, life)
        BY DEF StackInv
      <3> QED BY <1>a, <2>2, <3>3, <3>4, <3>5
    <2>5. \A d \in Calls : d # c => UNCHANGED <<pc[d], at[d], response[d], heard[d]>>
      BY <1>0, <2>1
    <2>6. Carried(c, life)'
      <3> DEFINE v == response[c].body.version
                 age == response[c].headers.age
                 known == Until(v) + Depth(at[c] + 1, life)
                 next == Until(v) + Depth(at[c], life)
      <3>1. Carried(c, life)
        BY <2>1 DEF StackInv
      <3>2. v \in Versions /\ age \in Nat
        <4>1. response[c].body \in Bodies /\ response[c].headers \in Headers
          BY <2>2, CacheAssumption DEF Responses, Sent
        <4> QED BY <4>1 DEF Bodies, Headers
      <3>3. /\ Depth(at[c], life) = Depth(at[c] + 1, life) + life /\ life \in Nat
            /\ Depth(at[c] + 1, life) \in Nat /\ Until(v) \in Int /\ now \in Int
        <4>1. at[c] \in 1 .. Len(chain) + 1 /\ at[c] + 1 \in 1 .. Len(chain) + 1 /\ life \in Nat
          BY <2>3 DEF LivesUpTo
        <4> QED BY <3>2, <4>1, Deeper, UntilInt
      <3>4. known <= next /\ known \in Int /\ next \in Int
        BY <3>3
      <3>5. now - age <= known /\ (heard[c] = NoBody => now < known)
        BY <3>1 DEF Carried
      <3> HIDE DEF age, known, next
      <3>6. now - age <= next /\ (heard[c] = NoBody => now < next)
        BY <3>2, <3>3, <3>4, <3>5
      <3>7. at'[c] + 1 = at[c] /\ response'[c] = response[c]
        BY <1>0, <2>1, <2>2, <2>3
      <3> QED BY <1>0, <2>1, <2>2, <3>6, <3>7 DEF Carried, Until, Depth, age, next
    <2>7. AllCarried'
      BY <1>b, <2>1, <2>5, <2>6
    <2> QED BY <1>c, <2>4, <2>7
  <1> QED BY <1>1, <1>2, <1>3, <1>4 DEF Step

(* Whatever else happens: the time a version was current for the last time *)
(* never goes back.                                                        *)
LEMMA LastsOn ==
    ASSUME TypeInv, NEW life, StackInv(life), UNCHANGED chain, NEW entry \in Entries, NEW i, Lasts(entry, i, life),
           LivesUpTo(life), i \in 1 .. Len(chain),
           \A v \in Versions : Until(v)' \in Int /\ Until(v) <= Until(v)'
    PROVE  Lasts(entry, i, life)'
  <1> DEFINE v == entry.response.body.version
  <1>1. v \in Versions /\ entry.expiration \in Int
    BY DEF Lasts, Sent, Entries, Responses, Bodies
  <1>2. Depth(i, life) \in Nat /\ Depth(i, life)' = Depth(i, life)
    <2>1. i \in 1 .. Len(chain) + 1 /\ life \in Nat
      BY CacheAssumption DEF TypeInv, TypeOK, LivesUpTo
    <2> QED BY <2>1, Deeper DEF Depth
  <1>3. Until(v) \in Int
    BY <1>1, UntilInt
  <1> DEFINE was == Until(v)
             is == Until(v)'
  <1>4. entry.expiration <= was + Depth(i, life) /\ was <= is /\ is \in Int /\ was \in Int
    BY <1>1, <1>3 DEF Lasts
  <1>5. entry.expiration <= is + Depth(i, life)
    <2> HIDE DEF was, is
    <2> QED BY <1>1, <1>2, <1>4
  <1> QED BY <1>2, <1>5 DEF Lasts

(* So a stack that only loses entries keeps its bounds.                    *)
LEMMA StoreOn ==
    ASSUME TypeInv, NEW life, LivesUpTo(life), StackInv(life), UNCHANGED chain,
           \A l \in Layers, s \in Slots : store'[l][s] = store[l][s] \/ store'[l][s] = None,
           \A v \in Versions : Until(v)' \in Int /\ Until(v) <= Until(v)',
           \A v \in Versions : v >= version' => retired'[v] = Never,
           \A c \in Calls : pc'[c] = "up" => Carried(c, life)'
    PROVE  StackInv(life)'
  <1>1. /\ chain \in Seq(Layers) /\ DOMAIN chain = 1 .. Len(chain)
        /\ store \in [Layers -> [Slots -> Entries \cup {None}]]
    BY CacheAssumption DEF TypeInv, TypeOK
  <1>2. ASSUME NEW i \in DOMAIN chain, NEW s \in Slots, store'[chain[i]][s] # None
        PROVE  \E e : e = store'[chain[i]][s] /\ Lasts(e, i, life)'
    <2>1. chain[i] \in Layers /\ i \in 1 .. Len(chain)
      BY <1>1
    <2>2. store'[chain[i]][s] = store[chain[i]][s] /\ store[chain[i]][s] \in Entries
      BY <1>1, <1>2, <2>1
    <2>3. Lasts(store[chain[i]][s], i, life)
      BY <1>2, <2>2 DEF StackInv
    <2> QED BY <2>1, <2>2, <2>3, LastsOn
  <1> QED BY <1>2 DEF StackInv

(* StackInv is inductive.                                                  *)
LEMMA NextStack ==
    ASSUME NothingRevalidated, LayersOnce, TypeInv, NEW life, LivesUpTo(life), StackInv(life), [Next]_vars
    PROVE  StackInv(life)'
  <1>0. \A v \in Versions : Until(v) \in Int /\ retired[v] \in Int /\ now \in Int /\ v \in Int
    BY UntilInt, Numbers
  <1>1. ASSUME NEW c \in Calls, Step(c) PROVE StackInv(life)'
    BY <1>1, StepStack
  <1>2. ASSUME UNCHANGED <<walk, originVars, now>>,
               \A l \in Layers, s \in Slots : store'[l][s] = store[l][s] \/ store'[l][s] = None
        PROVE  StackInv(life)'
    <2>1. \A v \in Versions : Until(v)' = Until(v)
      BY <1>2 DEF originVars, Until
    <2>2. \A c \in Calls : pc'[c] = "up" => Carried(c, life)'
      BY <1>2 DEF walk, originVars, StackInv, Carried, Until, Depth
    <2>3. \A v \in Versions : v >= version' => retired'[v] = Never
      BY <1>2 DEF originVars, StackInv
    <2> QED BY <1>0, <1>2, <2>1, <2>2, <2>3, StoreOn DEF walk
  <1>3. ASSUME NEW l \in Layers, NEW s \in Slots, Evict(l, s) PROVE StackInv(life)'
    <2>1. store \in [Layers -> [Slots -> Entries \cup {None}]]
      BY DEF TypeInv, TypeOK
    <2> QED BY <1>2, <1>3, <2>1 DEF Evict
  <1>4. CASE Publish
    <2>1. /\ version' = version + 1 /\ version \in Versions
          /\ retired' = [retired EXCEPT ![version] = now]
          /\ UNCHANGED <<walk, store, now>>
          /\ retired \in [Versions -> Times \cup {Never}]
      BY <1>4 DEF Publish, TypeInv, TypeOK
    <2>2. ASSUME NEW v \in Versions PROVE Until(v)' = Until(v)
      <3>1. CASE v = version
        <4>1. retired[v] = Never /\ retired'[v] = now
          BY <1>0, <2>1, <3>1 DEF StackInv
        <4>2. now <= Never /\ Never \in Int
          BY Numbers
        <4> QED BY <1>0, <2>1, <4>1, <4>2 DEF Until
      <3>2. CASE v # version
        <4>1. retired'[v] = retired[v]
          BY <2>1, <3>2
        <4> QED BY <2>1, <4>1 DEF Until
      <3> QED BY <3>1, <3>2
    <2>3. ASSUME NEW v \in Versions, v >= version' PROVE retired'[v] = Never
      <3>1. v >= version /\ v # version
        BY <1>0, <2>1, <2>3
      <3> QED BY <2>1, <3>1 DEF StackInv
    <2>4. ASSUME NEW c \in Calls, pc'[c] = "up" PROVE Carried(c, life)'
      <3>1. Carried(c, life) /\ response[c] \in Responses
        BY <2>1, <2>4 DEF walk, StackInv, TypeInv, TypeOK
      <3>2. response[c].body.version \in Versions
        BY <3>1 DEF Carried, Sent, Responses, Bodies
      <3> DEFINE v == response[c].body.version
      <3>3. Until(v)' = Until(v) /\ Depth(at[c] + 1, life)' = Depth(at[c] + 1, life)
        BY <2>1, <2>2, <3>2 DEF walk, Depth, Until
      <3> QED BY <2>1, <3>1, <3>3 DEF walk, Carried
    <2> QED BY <1>0, <2>1, <2>2, <2>3, <2>4, StoreOn DEF walk
  <1>5. CASE Tick
    <2>1. /\ UNCHANGED <<walk, store, originVars>> /\ now' = now + 1 /\ \A c \in Calls : pc[c] # "up"
      BY <1>5 DEF Tick
    <2>2. \A v \in Versions : Until(v)' \in Int /\ Until(v) <= Until(v)'
      BY <1>0, <2>1 DEF originVars, Until
    <2>3. \A v \in Versions : v >= version' => retired'[v] = Never
      BY <2>1 DEF originVars, StackInv
    <2> QED BY <2>1, <2>2, <2>3, StoreOn DEF walk
  <1>6. CASE UNCHANGED vars
    BY <1>2, <1>6 DEF vars
  <1> QED BY <1>1, <1>3, <1>4, <1>5, <1>6 DEF Next

(* What a call returns without having been answered by the origin was      *)
(* current less than a lifetime per layer ago.                             *)
Returned(c, life) ==
    /\ Sent(response'[c])
    /\ response'[c].body.version \in Versions
    /\ now < Until(response'[c].body.version) + Depth(1, life)

LEMMA ReturnsRecent ==
    ASSUME TypeInv, NEW life, LivesUpTo(life), StackInv(life), Next,
           NEW c \in Calls, Returns(c), heard'[c] = NoBody
    PROVE  Returned(c, life)
  <1>0. /\ pc \in [Calls -> {"idle", "down", "up", "done"}]
        /\ response \in [Calls -> Responses \cup {None}]
        /\ heard \in [Calls -> Bodies \cup {NoBody}]
    BY DEF TypeInv, TypeOK
  <1>1. Hit(c) \/ OriginAnswers(c) \/ FetchFails(c) \/ Ascend(c)
    <2>1. ASSUME NEW d \in Calls, Step(d) PROVE d = c /\ ~Start(c) /\ ~Pass(c)
      BY <1>0, <2>1 DEF Step, Start, Hit, Pass, OriginAnswers, FetchFails, Ascend, Returns
    <2>2. ~UNCHANGED pc
      BY DEF Returns
    <2> QED BY <2>1, <2>2 DEF Next, Step, Evict, Publish, Tick, walk
  <1>2. CASE Hit(c)
    <2>1. PICK entry \in Readable(c) :
             /\ AtLayer(c) /\ entry # None /\ Fresh(entry)
             /\ response'[c] = entry.response
             /\ at[c] = 1
      BY <1>0, <1>2 DEF Hit, Returns
    <2> QED BY <2>1, FreshLasts DEF Returned
  <1>3. CASE OriginAnswers(c)
    <2>1. PICK v \in Versions : heard' = [heard EXCEPT ![c] = BodyFor(c, v)]
      BY <1>3 DEF OriginAnswers
    <2>2. BodyFor(c, v) \in Bodies
      BY AnswerType
    <2>3. heard'[c] = BodyFor(c, v)
      BY <1>0, <2>1
    <2> QED BY <2>2, <2>3, CacheAssumption
  <1>4. CASE FetchFails(c)
    BY <1>4 DEF FetchFails, AtOrigin, Returns, TypeInv
  <1>5. CASE Ascend(c)
    <2>1. /\ pc[c] = "up" /\ at[c] = 1 /\ UNCHANGED heard
          /\ response'[c] = Settled(c)
      BY <1>0, <1>5 DEF Ascend, Returns
    <2> DEFINE v == response[c].body.version
    <2>2. Settled(c) = response[c] /\ Sent(response[c]) /\ v \in Versions
      <3>1. Settled(c) = response[c] /\ Sent(response[c]) /\ response[c] \in Responses
        BY <2>1, StoredLasts
      <3> QED BY <3>1 DEF Sent, Responses, Bodies
    <2>3. now < Until(v) + Depth(1 + 1, life)
      BY <2>1 DEF StackInv, Carried
    <2>4. 1 \in 1 .. Len(chain) + 1 /\ 1 + 1 \in 1 .. Len(chain) + 1 /\ life \in Nat
      BY <2>1, Places DEF LivesUpTo
    <2>5. Depth(1, life) = Depth(1 + 1, life) + life /\ Depth(1 + 1, life) \in Nat
      BY <2>4, Deeper
    <2>6. Until(v) \in Int /\ now \in Int
      BY <2>2, UntilInt
    <2> HIDE DEF v
    <2>7. now < Until(v) + Depth(1, life)
      BY ONLY <2>3, <2>4, <2>5, <2>6
    <2> QED BY <2>1, <2>2, <2>7 DEF Returned, v
  <1> QED BY <1>1, <1>2, <1>3, <1>4, <1>5

(* A call that the origin has not answered, whatever its client's stack of *)
(* layers, gets data that was current less than a lifetime per layer ago:  *)
(* each layer keeps for a lifetime what the next one has kept for its own. *)
StackFresh(life) ==
    [][\A c \in Calls :
         LET body == response'[c].body IN
         Returns(c) /\ heard'[c] = NoBody =>
             /\ body # NoBody
             /\ retired[body.version] > now - Len(chain) * life]_vars

THEOREM FreshThroughStack ==
    ASSUME NothingRevalidated, LayersOnce, NEW life, LivesUpTo(life)
    PROVE  Spec => StackFresh(life)
  <1>1. Init => TypeInv /\ StackInv(life)
    BY InitType, InitStack
  <1>2. TypeInv /\ StackInv(life) /\ [Next]_vars => (TypeInv /\ StackInv(life))'
    BY NextType, NextStack
  <1>3. TypeInv /\ StackInv(life) /\ [Next]_vars =>
          [\A c \in Calls :
             LET body == response'[c].body IN
             Returns(c) /\ heard'[c] = NoBody =>
                 /\ body # NoBody
                 /\ retired[body.version] > now - Len(chain) * life]_vars
    <2> SUFFICES ASSUME TypeInv, StackInv(life), Next, NEW c \in Calls, Returns(c), heard'[c] = NoBody
                 PROVE  LET body == response'[c].body IN
                        /\ body # NoBody
                        /\ retired[body.version] > now - Len(chain) * life
      OBVIOUS
    <2> DEFINE v == response'[c].body.version
    <2>1. Sent(response'[c]) /\ v \in Versions /\ now < Until(v) + Depth(1, life)
      BY ReturnsRecent DEF Returned
    <2>2. Until(v) \in Int /\ Until(v) <= retired[v] /\ now \in Int /\ retired[v] \in Int
      BY <2>1, UntilInt
    <2>3. Len(chain) \in Nat /\ life \in Nat
      BY CacheAssumption DEF TypeInv, TypeOK, LivesUpTo
    <2>4. Len(chain) + 1 - 1 = Len(chain) /\ Len(chain) * life \in Int
      BY <2>3
    <2>5. Depth(1, life) = Len(chain) * life
      BY <2>4 DEF Depth
    <2> DEFINE sum == Len(chain) * life
               until == Until(v)
               gone == retired[v]
    <2>6. gone > now - sum
      <3>1. now < until + sum /\ until \in Int /\ until <= gone /\ now \in Int /\ gone \in Int /\ sum \in Int
        BY <2>1, <2>2, <2>4, <2>5
      <3> HIDE DEF sum, until, gone
      <3> QED BY ONLY <3>1
    <2> QED BY <2>1, <2>6 DEF Sent
  <1> QED BY <1>1, <1>2, <1>3, PTL DEF Spec, StackFresh
=============================================================================
