---------------------------- MODULE SharedAnswers ----------------------------
(***************************************************************************)
(* The requests of all the clients of a worker, going through the layers   *)
(* of HttpClient that may answer one call with what another fetched: the   *)
(* memo of a client (one per incoming request), single flight (one table   *)
(* per worker), the memory and the disk cache (shared by the clients).     *)
(* MemoizedClient and HttpCache model the layers themselves, for one kind  *)
(* of call; here the calls are those of ClientRequests and the question is *)
(* who gets whose answer.                                                  *)
(***************************************************************************)
EXTENDS Naturals, Sequences, ClientRequests
CONSTANTS Requests,         \* the requests the clients may make
          IncomingRequests, \* the incoming requests on whose behalf they make them
          MaxCalls          \* how many calls they make
VARIABLES calls,        \* the calls made so far, in order
          memory, disk  \* what is kept: [cache key -> answer]
vars == <<calls, memory, disk>>

Empty == [k \in {} |-> k]
Put(kept, r, got) == [k \in DOMAIN kept \cup {CacheKey(r)} |-> IF k = CacheKey(r) THEN got ELSE kept[k]]

(* What a call gets: a value, a null in place of a 404, or an error, and   *)
(* the request that fetched it.                                            *)
Got(kind, by) == [kind |-> kind, by |-> by]
Call(q, r, behind) == [of |-> q, req |-> r, behind |-> behind, done |-> FALSE, got |-> Got("error", r)]

InMemory(r) == r.cacheable \in {"memory", "any"}
OnDisk(r) == r.cacheable \in {"disk", "any"}

(* memoizationMiddleware: the promises of a client for an incoming request *)
(* stay until the end, those rejected too.                                 *)
Memoized(q, r) ==
    {i \in DOMAIN calls : /\ calls[i].of = q /\ calls[i].req.client = r.client
                          /\ r.memoizable /\ r.cacheable # "none"
                          /\ calls[i].req.memoizable /\ calls[i].req.cacheable # "none"
                          /\ CacheKey(calls[i].req) = CacheKey(r)}
(* singleFlightMiddleware: the promise in flight under the key.            *)
InFlight(r) ==
    {i \in DOMAIN calls : /\ r.inflight # "none" /\ calls[i].req.inflight # "none"
                          /\ FlightKey(calls[i].req) = FlightKey(r)
                          /\ calls[i].behind = 0 /\ ~calls[i].done}

Init ==
    /\ calls = <<>> /\ memory = Empty /\ disk = Empty

(* A call awaits the promise memoized for it, or the one in flight, or     *)
(* goes on to the caches and the network.                                  *)
Begin(q, r) ==
    /\ Len(calls) < MaxCalls
    /\ \A i \in DOMAIN calls : calls[i].of = q => calls[i].req.ctx = r.ctx
    /\ \/ \E i \in Memoized(q, r) : calls' = Append(calls, Call(q, r, i))
       \/ Memoized(q, r) = {} /\ \E i \in InFlight(r) : calls' = Append(calls, Call(q, r, i))
       \/ Memoized(q, r) = {} /\ InFlight(r) = {} /\ calls' = Append(calls, Call(q, r, 0))
    /\ UNCHANGED <<memory, disk>>

End(i, got) == calls' = [calls EXCEPT ![i].done = TRUE, ![i].got = got]
Fetching(i) == ~calls[i].done /\ calls[i].behind = 0

(* A fresh entry of the memory layer answers.                              *)
FromMemory(i) ==
    LET r == calls[i].req IN
    /\ Fetching(i) /\ InMemory(r) /\ CacheKey(r) \in DOMAIN memory
    /\ End(i, memory[CacheKey(r)])
    /\ UNCHANGED <<memory, disk>>
(* A fresh entry of the disk layer answers; the memory layer above it      *)
(* keeps the answer too.                                                   *)
FromDisk(i) ==
    LET r == calls[i].req IN
    /\ Fetching(i) /\ OnDisk(r) /\ CacheKey(r) \in DOMAIN disk
    /\ End(i, disk[CacheKey(r)])
    /\ memory' = IF InMemory(r) THEN Put(memory, r, disk[CacheKey(r)]) ELSE memory
    /\ UNCHANGED disk
(* The origin answers (the layers had nothing fresh): a 404 is null for a  *)
(* lenient call, an error for the others.  What is not an error is kept,   *)
(* as its headers allow, in each layer the call may use.                   *)
FromOrigin(i) ==
    LET r == calls[i].req IN
    /\ Fetching(i)
    /\ \E kind \in {"value", IF r.lenient THEN "null" ELSE "error"}, kept \in BOOLEAN :
         /\ End(i, Got(kind, r))
         /\ kind = "error" => ~kept
         /\ memory' = IF kept /\ InMemory(r) THEN Put(memory, r, Got(kind, r)) ELSE memory
         /\ disk' = IF kept /\ OnDisk(r) THEN Put(disk, r, Got(kind, r)) ELSE disk
(* The promise awaited settles: its answer, or its error, is shared.       *)
Follow(i) ==
    /\ ~calls[i].done /\ calls[i].behind # 0 /\ calls[calls[i].behind].done
    /\ End(i, calls[calls[i].behind].got)
    /\ UNCHANGED <<memory, disk>>

Next ==
    \/ \E q \in IncomingRequests, r \in Requests : Begin(q, r)
    \/ \E i \in DOMAIN calls : FromMemory(i) \/ FromDisk(i) \/ FromOrigin(i) \/ Follow(i)
Spec == Init /\ [][Next]_vars

-----------------------------------------------------------------------------
Answered == {c \in {calls[i] : i \in DOMAIN calls} : c.done}

(* Whoever fetched it, the answer of a call is of the url and query that   *)
(* the call asked for.                                                     *)
AnswersItsResource == \A c \in Answered : Resource(c.got.by) = Resource(c.req)

(* Readers of the contents of a file, as JSON or as bytes.                 *)
FileReaders == {"getAppFile", "getAppJSON", "getFileFromApps", "getFile", "getJSON", "getRawJSON"}

(* Keys know neither the form of an answer, nor what a call makes of a 404 *)
(* or of a conflict: a call may get the answer another wanted otherwise.   *)
(* That happens only between readers of a file: no other method of the     *)
(* clients shares a url with one that reads it differently.                *)
MixedOnlyAmongFiles ==
    \A c \in Answered :
        (\/ c.got.by.form # c.req.form
         \/ c.got.kind # "value" /\ c.got.by.lenient # c.req.lenient
         \/ c.got.by.detect # c.req.detect)
        => {c.req.method, c.got.by.method} \subseteq FileReaders

OwnExchange(r) == r.verb # "get" \/ r.form = "stream"
(* What is sent to change something, and a stream, is answered by its own  *)
(* exchange with the origin: never by that of a call made before, whose    *)
(* effect it would leave out, or whose stream is already consumed.         *)
NeverShared ==
    \A c \in Answered : OwnExchange(c.req) => c.got.by = c.req /\ c.behind = 0

(* An answer made for another locale reaches a call only while it awaits   *)
(* another call (single flight): what is kept is kept for its locale.      *)
KeptApart == \A c \in Answered : c.got.by.ctx.locale # c.req.ctx.locale => c.behind # 0

(* What the properties ask of the catalogue: calls with one key in flight  *)
(* ask for one thing, and writes and streams are neither shared nor kept;  *)
(* calls that may share an answer read it alike, unless they read files.   *)
KeysAgree ==
    \A r, s \in Requests : r.inflight # "none" /\ s.inflight # "none" /\ FlightKey(r) = FlightKey(s)
                          => Resource(r) = Resource(s)
NothingKept == \A r \in Requests : OwnExchange(r) => r.inflight = "none" /\ r.cacheable = "none"
ReadAlike(r, s) ==
    /\ r.method \in FileReaders <=> s.method \in FileReaders
    /\ r.method \notin FileReaders =>
         r.form = s.form /\ r.lenient = s.lenient /\ r.detect = s.detect
FormsAgree ==
    \A r, s \in Requests :
        \/ r.cacheable # "none" /\ s.cacheable # "none" /\ CacheKey(r) = CacheKey(s)
        \/ r.inflight # "none" /\ s.inflight # "none" /\ FlightKey(r) = FlightKey(s)
        => ReadAlike(r, s)
=============================================================================
