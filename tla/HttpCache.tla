------------------------------ MODULE HttpCache ------------------------------
(***************************************************************************)
(* The cache middleware of HttpClient                                      *)
(* (src/src/HttpClient/middlewares/cache.ts) and the layers it is stacked  *)
(* in: a call walks its layers down, reading each, reaches the origin, and *)
(* walks up again, writing each.  One URL is modelled, with the origin's   *)
(* versions of it, the headers it answers with, 304s, the x-vtex-segment   *)
(* key variants, forceMaxAge, nullIfNotFound (notFound.ts) and evictions.  *)
(*                                                                         *)
(* An etag identifies a body, so it is represented by the body.  Time runs *)
(* in ticks; a call's way up takes less than a tick, its way down takes    *)
(* any number of them.                                                     *)
(***************************************************************************)
EXTENDS Integers, Sequences

CONSTANTS
    Calls,          \* calls to the URL, each made once
    Layers,         \* cache storages
    Chains,         \* the layers a client may have, outermost first
    Segments,       \* segment tokens
    SegmentOf,      \* SegmentOf[c]: the segment token c is made with
    ForceMaxAge,    \* ForceMaxAge[c]: config.forceMaxAge, 0 for none
    NullIfNotFound, \* calls with config.nullIfNotFound
    Policies,       \* header sets (and status) the origin may answer with
    Shared,         \* the key without segment; Public: a body made for anyone
    Public,
    None,           \* no entry, no response
    NoBody,         \* no body, no etag
    MaxVersion,     \* bounds on the origin's updates
    MaxTime         \* and on time

Headers == [status : {200, 404}, maxAge : Nat, age : Nat, etag : BOOLEAN,
            noStore : BOOLEAN, noCache : BOOLEAN,
            vary : {"none", "segment", "session"}]

Versions == 0 .. MaxVersion
Times == 0 .. MaxTime
Slots == Segments \cup {Shared}
Never == MaxTime + 1

Bodies == [version : Versions, audience : Segments \cup Calls \cup {Public}]
Responses == [status : {200, 304, 404}, body : Bodies \cup {NoBody},
              etag : Bodies \cup {NoBody}, headers : Policies]
Entries == [response : Responses, expiration : Int]

ASSUME CacheAssumption ==
    /\ Chains \subseteq Seq(Layers) /\ Chains # {}
    /\ SegmentOf \in [Calls -> Segments]
    /\ ForceMaxAge \in [Calls -> Nat]
    /\ NullIfNotFound \subseteq Calls
    /\ Policies \subseteq Headers
    /\ Policies # {}
    /\ MaxVersion \in Nat
    /\ MaxTime \in Nat
    /\ Shared \notin Segments
    /\ Public \notin Segments \cup Calls
    /\ Calls \cap Segments = {}
    /\ NoBody \notin Bodies
    /\ None \notin Responses \cup Entries

VARIABLES
    chain,          \* the layers the client was constructed with
    pc,             \* pc[c]: "idle", "down", "up", "done"
    at,             \* at[c]: the layer of the chain c is at, or one more: the origin
    found,          \* found[c][l]: the entry c read from l, or None
    ifNoneMatch,    \* ifNoneMatch[c]: the etag c asks the origin about, or NoBody
    response,       \* response[c]: ctx.response, or None
    store,          \* store[l][slot]: the entries of layer l
    version,        \* the version of the data at the origin
    policyOf,       \* policyOf[v]: the headers the origin sends with version v
    retired,        \* retired[v]: when version v was replaced
    now,            \* Date.now()
    heard           \* heard[c]: the body the origin vouched for to c (history)

walk == <<chain, pc, at, found, ifNoneMatch, response, heard>>
originVars == <<version, policyOf, retired>>
vars == <<walk, store, originVars, now>>

-----------------------------------------------------------------------------
TypeOK ==
    /\ chain \in Chains
    /\ pc \in [Calls -> {"idle", "down", "up", "done"}]
    /\ at \in [Calls -> 0 .. Len(chain) + 1]
    /\ found \in [Calls -> [Layers -> Entries \cup {None}]]
    /\ ifNoneMatch \in [Calls -> Bodies \cup {NoBody}]
    /\ response \in [Calls -> Responses \cup {None}]
    /\ store \in [Layers -> [Slots -> Entries \cup {None}]]
    /\ version \in Versions
    /\ policyOf \in [Versions -> Policies]
    /\ retired \in [Versions -> Times \cup {Never}]
    /\ now \in Times
    /\ heard \in [Calls -> Bodies \cup {NoBody}]
    /\ \A c \in Calls : pc[c] = "up" => response[c] # None

Init ==
    /\ chain \in Chains
    /\ pc = [c \in Calls |-> "idle"]
    /\ at = [c \in Calls |-> 0]
    /\ found = [c \in Calls |-> [l \in Layers |-> None]]
    /\ ifNoneMatch = [c \in Calls |-> NoBody]
    /\ response = [c \in Calls |-> None]
    /\ store = [l \in Layers |-> [s \in Slots |-> None]]
    /\ version = 0
    /\ \E p \in Policies : policyOf = [v \in Versions |-> p]
    /\ retired = [v \in Versions |-> Never]
    /\ now = 0
    /\ heard = [c \in Calls |-> NoBody]

-----------------------------------------------------------------------------
Here(c) == chain[at[c]]

(* The key with the segment token comes first.                             *)
Lookup(l, segment) == IF store[l][segment] # None THEN store[l][segment] ELSE store[l][Shared]

(* validateStatus, as defaults, notFound.ts and addNotModified make it.    *)
Accepts(c, status) == status \in {200, 304} \/ (status = 404 /\ c \in NullIfNotFound)

Fresh(entry) == entry.expiration > now

Start(c) ==
    /\ pc[c] = "idle"
    /\ pc' = [pc EXCEPT ![c] = "down"]
    /\ at' = [at EXCEPT ![c] = 1]
    /\ UNCHANGED <<chain, found, ifNoneMatch, response, heard, store, originVars, now>>

(* What a read of c's next layer can come back with: a storage that fails  *)
(* counts as one that has nothing.                                         *)
Readable(c) == {Lookup(Here(c), SegmentOf[c]), None}

AtLayer(c) == pc[c] = "down" /\ at[c] <= Len(chain)
AtOrigin(c) == pc[c] = "down" /\ at[c] > Len(chain)

(* A fresh entry is the response, whatever its status.                     *)
Hit(c) == AtLayer(c) /\ \E entry \in Readable(c) :
    /\ entry # None
    /\ Fresh(entry)
    /\ found' = [found EXCEPT ![c][Here(c)] = entry]
    /\ response' = [response EXCEPT ![c] = entry.response]
    /\ pc' = [pc EXCEPT ![c] = IF at[c] = 1 THEN "done" ELSE "up"]
    /\ at' = [at EXCEPT ![c] = @ - 1]
    /\ UNCHANGED <<chain, ifNoneMatch, heard, store, originVars, now>>

(* A stale one with an etag makes the request conditional; the header an   *)
(* outer layer has set stays unless this layer sets its own.               *)
Pass(c) == AtLayer(c) /\ \E entry \in Readable(c) :
    /\ entry # None => ~Fresh(entry)
    /\ found' = [found EXCEPT ![c][Here(c)] = entry]
    /\ ifNoneMatch' =
         IF entry # None /\ entry.response.etag # NoBody /\ Accepts(c, entry.response.status)
         THEN [ifNoneMatch EXCEPT ![c] = entry.response.etag]
         ELSE ifNoneMatch
    /\ at' = [at EXCEPT ![c] = @ + 1]
    /\ UNCHANGED <<chain, pc, response, heard, store, originVars, now>>

-----------------------------------------------------------------------------
(* The origin, and the router in front of it: an answer with an age is a   *)
(* copy that was current that long ago.                                    *)
Answerable(v) ==
    /\ v <= version
    /\ v = version \/ (policyOf[v].age > 0 /\ retired[v] >= now - policyOf[v].age)

BodyFor(c, v) ==
    [version |-> v,
     audience |-> CASE policyOf[v].vary = "none"    -> Public
                    [] policyOf[v].vary = "segment" -> SegmentOf[c]
                    [] policyOf[v].vary = "session" -> c]

AnswerTo(c, v) ==
    LET body == BodyFor(c, v)
        etag == IF policyOf[v].etag THEN body ELSE NoBody
    IN  IF policyOf[v].etag /\ ifNoneMatch[c] = body
        THEN [status |-> 304, body |-> NoBody, etag |-> etag, headers |-> policyOf[v]]
        ELSE [status |-> policyOf[v].status, body |-> body, etag |-> etag,
              headers |-> policyOf[v]]

OriginAnswers(c) == AtOrigin(c) /\ \E v \in Versions :
    /\ Answerable(v)
    /\ Accepts(c, AnswerTo(c, v).status)
    /\ response' = [response EXCEPT ![c] = AnswerTo(c, v)]
    /\ heard' = [heard EXCEPT ![c] = BodyFor(c, v)]
    /\ pc' = [pc EXCEPT ![c] = IF at[c] = 1 THEN "done" ELSE "up"]
    /\ at' = [at EXCEPT ![c] = @ - 1]
    /\ UNCHANGED <<chain, found, ifNoneMatch, store, originVars, now>>

(* A network error, or a status that is not accepted: the error leaves the *)
(* call through all layers, which write nothing.                           *)
FetchFails(c) ==
    /\ AtOrigin(c)
    /\ pc' = [pc EXCEPT ![c] = "done"]
    /\ UNCHANGED <<chain, at, found, ifNoneMatch, response, heard, store, originVars, now>>

Publish ==
    /\ version < MaxVersion
    /\ version' = version + 1
    /\ retired' = [retired EXCEPT ![version] = now]
    /\ \E p \in Policies : policyOf' = [policyOf EXCEPT ![version + 1] = p]
    /\ UNCHANGED <<walk, store, now>>

-----------------------------------------------------------------------------
(* A layer on the way up.  A 304 stands for the entry the layer read.      *)
Revalidated(c) == response[c].status = 304 /\ found[c][Here(c)] # None

(* Faulty variant: the entry is read again when the 304 comes.             *)
Settled_Reread(c) ==
    LET entry == Lookup(Here(c), SegmentOf[c]) IN
    IF Revalidated(c) /\ entry # None THEN entry.response ELSE response[c]

Settled(c) == IF Revalidated(c) THEN found[c][Here(c)].response ELSE response[c]

Longer(a, b) == IF a > b THEN a ELSE b
Lifetime(c, r) ==
    IF r.status \in {200, 404} THEN Longer(ForceMaxAge[c], r.headers.maxAge) ELSE r.headers.maxAge

Forbidden(c, r) ==
    /\ ForceMaxAge[c] = 0
    /\ r.headers.noStore \/ (r.headers.noCache /\ r.etag = NoBody)

(* Faulty variant: the age header is not read.                             *)
AgeOf_Ignored(c, r) == 0

(* The age header counts unless the origin has just answered 304.          *)
AgeOf(c, r) == IF response[c].status = 304 THEN 0 ELSE r.headers.age
ExpirationOf(c, r) == now + Lifetime(c, r) - AgeOf(c, r)

Storable(c, r) ==
    /\ ~Forbidden(c, r)
    /\ Lifetime(c, r) > 0 \/ r.etag # NoBody
    /\ r.headers.vary # "session"
    /\ ~(Revalidated(c) /\ ExpirationOf(c, r) <= now)

(* Faulty variant: vary is looked at for sessions only.                    *)
SlotOf_NoSegment(c, r) == Shared

SlotOf(c, r) == IF r.headers.vary = "segment" THEN SegmentOf[c] ELSE Shared

Stored(c) ==
    LET r == Settled(c) IN
    [store EXCEPT ![Here(c)][SlotOf(c, r)] = [response |-> r, expiration |-> ExpirationOf(c, r)]]

(* The write is best effort: an error of the storage is logged.            *)
Ascend(c) ==
    /\ pc[c] = "up"
    /\ response' = [response EXCEPT ![c] = Settled(c)]
    /\ store' \in IF Storable(c, Settled(c)) THEN {Stored(c), store} ELSE {store}
    /\ pc' = [pc EXCEPT ![c] = IF at[c] = 1 THEN "done" ELSE "up"]
    /\ at' = [at EXCEPT ![c] = @ - 1]
    /\ UNCHANGED <<chain, found, ifNoneMatch, heard, originVars, now>>

(* The storage drops an entry: capacity, its own time to live, a restart.  *)
Evict(l, s) ==
    /\ store[l][s] # None
    /\ store' = [store EXCEPT ![l][s] = None]
    /\ UNCHANGED <<walk, originVars, now>>

Tick ==
    /\ now < MaxTime
    /\ \A c \in Calls : pc[c] # "up"
    /\ now' = now + 1
    /\ UNCHANGED <<walk, store, originVars>>

Step(c) == Start(c) \/ Hit(c) \/ Pass(c) \/ OriginAnswers(c) \/ FetchFails(c) \/ Ascend(c)

Next ==
    \/ \E c \in Calls : Step(c)
    \/ \E l \in Layers, s \in Slots : Evict(l, s)
    \/ Publish
    \/ Tick

Spec == Init /\ [][Next]_vars

-----------------------------------------------------------------------------
Returns(c) == pc[c] # "done" /\ pc'[c] = "done" /\ response'[c] # None

(* What is answered, or lies in a storage for somebody, was made for him:  *)
(* a segment's data never reaches another segment, a session's data never  *)
(* reaches a second call (keyWithSegment, varySession).                    *)
AudienceRespected ==
    /\ \A c \in Calls :
         response[c] # None /\ response[c].body # NoBody =>
             response[c].body.audience \in {Public, SegmentOf[c], c}
    /\ \A l \in Layers, s \in Slots :
         store[l][s] # None /\ store[l][s].response.body # NoBody =>
             store[l][s].response.body.audience \in {Public, s}

(* A call answered out of a client's only cache gets data that was current *)
(* less than its lifetime ago: max-age, or the forceMaxAge of some call    *)
(* where it is larger, less the age the data already had when it came.  A  *)
(* 304 forgets that age, so that data with an etag may be older by it.     *)
LifeFor(d, v) == Longer(ForceMaxAge[d], policyOf[v].maxAge)
AgeForgotten(v) == IF policyOf[v].etag THEN policyOf[v].age ELSE 0
FreshEnough ==
    [][\A c \in Calls :
         LET body == response'[c].body
             v == body.version
         IN
         Len(chain) = 1 /\ Returns(c) /\ heard'[c] = NoBody /\ body # NoBody =>
             \E d \in Calls : retired[v] > now - LifeFor(d, v) - AgeForgotten(v)]_vars

(* A call of such a client that the origin has answered returns the very   *)
(* data the origin vouched for, sent or confirmed by a 304: no older       *)
(* version and no other variant, whatever the storage did meanwhile.       *)
ReturnsWhatItHeard ==
    [][\A c \in Calls :
         Len(chain) = 1 /\ Returns(c) /\ heard'[c] # NoBody => response'[c].body = heard'[c]]_vars

(* cacheableStatusCodes (cache.ts:14) lists the statuses that are          *)
(* cacheable, after RFC 7231 section 6.1: nothing else lies in a storage.  *)
OnlyCacheableStatus ==
    \A l \in Layers, s \in Slots :
        store[l][s] # None => store[l][s].response.status \in {200, 404}
=============================================================================
