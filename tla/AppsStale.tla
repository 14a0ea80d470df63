------------------------------ MODULE AppsStale ------------------------------
(***************************************************************************)
(* What the Apps client keeps by itself (src/src/clients/infra/Apps.ts,    *)
(* src/src/utils/appsStaleIfError.ts): the list of the apps of a workspace *)
(* in production, on disk, answered stale while it is fetched again        *)
(* (getAppsMetaInfos); and the last version of an app some file was asked  *)
(* of, in memory (saveVersion).                                            *)
(*                                                                         *)
(* A request goes through the memo of its incoming request, the recorder   *)
(* and single flight, as in MemoizedClient; below them are the memory      *)
(* cache of the client and the origin.  What memory keeps is as old as the *)
(* fetch that brought it: an entry that is no longer fresh is as good as   *)
(* none, for a 304 confirms what it holds.  The variants of a segment, and *)
(* copies of the router, are in HttpCache.                                 *)
(* Continuations of a promise run at once when it settles, as microtasks   *)
(* do: only reads of caches, answers of the origin and calls interleave.   *)
(***************************************************************************)
EXTENDS Integers, FiniteSets, InfraCalls
CONSTANTS Fresh,                \* the calls of getAppsMetaInfos that want no copy (not staleWhileRevalidate)
          Saves, VersionOf,     \* calls of getAppFile(staleIfError) and the version each is for
          MaxVersion            \* bound on the changes of the workspace
ASSUME StaleAssumption ==
    /\ Fresh \subseteq Calls
    /\ MaxVersion \in Nat /\ VersionOf \in [Saves -> 1..(MaxVersion + 1)]

VARIABLES origin,               \* the version of the list at the origin
          stored,               \* the version kept on disk, None
          pc, copy, answer,     \* of a call: idle, waiting, done; the copy found; the answer
          memo,                 \* of an incoming request: what its promise holds
          flight, ride,         \* the fetch an incoming request leads, the one it rides
          inMemory,             \* the version the memory cache holds fresh for a locale, None
          fetched,              \* history: the version last fetched for a locale
          recorded,             \* the versions whose metadata an incoming request recorded
          saved, seen           \* the last version saved; what a save under way has read
meta == <<origin, stored, pc, copy, answer, memo, flight, ride, inMemory, fetched, recorded>>
versions == <<saved, seen>>
appsVars == <<meta, versions>>

None == 0
Failed == -1
AnyMinor == MaxVersion + 1      \* the version "N.x"

Memo(state, version, records) == [state |-> state, version |-> version, records |-> records]
Flight(state, version) == [state |-> state, version |-> version]

AppsInit ==
    /\ origin = 1 /\ stored = None
    /\ pc = [c \in Calls |-> "idle"]
    /\ copy = [c \in Calls |-> None] /\ answer = [c \in Calls |-> None]
    /\ memo = [q \in Incoming |-> Memo("none", None, FALSE)]
    /\ flight = [q \in Incoming |-> Flight("none", None)]
    /\ ride = [q \in Incoming |-> q]
    /\ inMemory = [l \in Locales |-> None] /\ fetched = [l \in Locales |-> None]
    /\ recorded = [q \in Incoming |-> {}]
    /\ saved = None /\ seen = [s \in Saves |-> None]

Flying == {q \in Incoming : flight[q].state # "none"}
(* The flight a request joins, if there is one, or starts.                 *)
(* Faulty variant: a request starts its own whatever is in flight.         *)
Rides_Alone(q) == {q}
Rides(q) == IF Flying = {} THEN {q} ELSE Flying

(* The flight a request starts: memory answers it, if it has a fresh list  *)
(* for the locale, or it is sent.                                          *)
Started(q) ==
    LET held == inMemory[LocaleOf[q]] IN IF held # None THEN Flight("hit", held) ELSE Flight("sent", None)

(* What is recorded of a call's copy, before the call returns.             *)
(* Faulty variant: the metadata of a copy is not recorded.                 *)
RecordedOf_NoCopy(q, found) == recorded[q]
RecordedOf(q, found) == recorded[q] \cup ({found} \ {None})

(* A call finds a copy, unless it wants none, and asks all the same: it    *)
(* shares the promise of its incoming request or makes it, with the        *)
(* recorder ignored if it has its copy to record.  A promise settled       *)
(* before answers at once, and is stored again.                            *)
Read(c) ==
    LET q == Of[c]
        found == IF c \in Fresh THEN None ELSE stored
        m == memo[q]
    IN
    /\ pc[c] = "idle"
    /\ copy' = [copy EXCEPT ![c] = found]
    /\ recorded' = [recorded EXCEPT ![q] = RecordedOf(q, found)]
    /\ \/ /\ m.state = "none"
          /\ memo' = [memo EXCEPT ![q] = Memo("pending", None, found = None)]
          /\ \E r \in Rides(q) :
               /\ ride' = [ride EXCEPT ![q] = r]
               /\ flight' = IF r = q THEN [flight EXCEPT ![q] = Started(q)] ELSE flight
          /\ UNCHANGED stored
       \/ m.state = "pending" /\ UNCHANGED <<memo, ride, flight, stored>>
       \/ /\ m.state = "settled" /\ UNCHANGED <<memo, ride, flight>>
          /\ stored' = IF m.version = Failed THEN stored ELSE m.version
    /\ IF found = None /\ m.state # "settled"
       THEN pc' = [pc EXCEPT ![c] = "waiting"] /\ UNCHANGED answer
       ELSE /\ pc' = [pc EXCEPT ![c] = "done"]
            /\ answer' = [answer EXCEPT ![c] = IF found # None THEN found ELSE m.version]
    /\ UNCHANGED <<origin, inMemory, fetched, versions>>

(* The origin makes its answer of the list as it is.                       *)
Serve(q) ==
    /\ flight[q].state = "sent"
    /\ flight' = [flight EXCEPT ![q] = Flight("served", origin)]
    /\ UNCHANGED <<origin, stored, pc, copy, answer, memo, ride, inMemory, fetched, recorded, versions>>

(* The answer of a flight, or its failure, settles the promises that ride  *)
(* it, records it where it is not ignored, and stores it on disk; calls    *)
(* that wait return.                                                       *)
Land(q, version) ==
    LET riders == {r \in Incoming : memo[r].state = "pending" /\ ride[r] = q} IN
    /\ memo' = [r \in Incoming |-> IF r \in riders THEN [memo[r] EXCEPT !.state = "settled", !.version = version]
                                   ELSE memo[r]]
    /\ recorded' = [r \in Incoming |-> IF r \in riders /\ memo[r].records
                                       THEN recorded[r] \cup ({version} \ {Failed}) ELSE recorded[r]]
    /\ stored' = IF version = Failed THEN stored ELSE version
    /\ pc' = [c \in Calls |-> IF pc[c] = "waiting" /\ Of[c] \in riders THEN "done" ELSE pc[c]]
    /\ answer' = [c \in Calls |-> IF pc[c] = "waiting" /\ Of[c] \in riders THEN version ELSE answer[c]]
    /\ flight' = [flight EXCEPT ![q] = Flight("none", None)]
    /\ UNCHANGED <<origin, copy, ride, versions>>
(* Memory keeps what was fetched for the locale of the flight, unless the  *)
(* headers forbid it.                                                      *)
Arrive(q) ==
    LET l == LocaleOf[q]
        version == flight[q].version
    IN
    /\ flight[q].state = "served" /\ Land(q, version)
    /\ fetched' = [fetched EXCEPT ![l] = version]
    /\ \E kept \in {version, inMemory[l]} : inMemory' = [inMemory EXCEPT ![l] = kept]
ArriveFromMemory(q) ==
    flight[q].state = "hit" /\ Land(q, flight[q].version) /\ UNCHANGED <<inMemory, fetched>>
Fail(q) == flight[q].state \in {"sent", "served"} /\ Land(q, Failed) /\ UNCHANGED <<inMemory, fetched>>

(* An app is installed, linked or removed.                                 *)
Change == origin < MaxVersion /\ origin' = origin + 1
          /\ UNCHANGED <<stored, pc, copy, answer, memo, flight, ride, inMemory, fetched, recorded, versions>>
(* The disk cache evicts the list, or fails to read it.                    *)
Forget ==
    /\ stored' = None
    /\ UNCHANGED <<origin, pc, copy, answer, memo, flight, ride, inMemory, fetched, recorded, versions>>
(* The list kept for a locale expires or is evicted.                       *)
Expire(l) ==
    /\ inMemory' = [inMemory EXCEPT ![l] = None]
    /\ UNCHANGED <<origin, stored, pc, copy, answer, memo, flight, ride, fetched, recorded, versions>>

-----------------------------------------------------------------------------
(* saveVersion: the first version is saved; what was read of another is    *)
(* compared when the awaited read is over, and semver.gt throws if that is *)
(* no version but "N.x".                                                   *)
SaveStarts(s) ==
    /\ seen[s] = None
    /\ IF saved = None THEN saved' = VersionOf[s] /\ UNCHANGED seen
       ELSE seen' = [seen EXCEPT ![s] = saved] /\ UNCHANGED saved
    /\ UNCHANGED meta
Higher_Any(s) == TRUE                   \* Faulty variant: whatever was saved is replaced.
Higher(s) == VersionOf[s] = AnyMinor \/ (seen[s] # AnyMinor /\ VersionOf[s] > seen[s])
SaveEnds(s) ==
    /\ seen[s] # None
    /\ saved' = IF Higher(s) THEN VersionOf[s] ELSE saved
    /\ seen' = [seen EXCEPT ![s] = None]
    /\ UNCHANGED meta
Evict == saved' = None /\ UNCHANGED <<seen, meta>>

AppsNext ==
    \/ \E c \in Calls : Read(c)
    \/ \E q \in Incoming : Serve(q) \/ Arrive(q) \/ ArriveFromMemory(q) \/ Fail(q)
    \/ \E l \in Locales : Expire(l)
    \/ Change \/ Forget \/ Evict
    \/ \E s \in Saves : SaveStarts(s) \/ SaveEnds(s)
AppsSpec == AppsInit /\ [][AppsNext]_appsVars

-----------------------------------------------------------------------------
(* The metadata of what a call was answered with is recorded in its        *)
(* incoming request, on which smart caches rely; but if the fetch was made *)
(* on behalf of a call that had a copy to record, nobody records what a    *)
(* later call of the request, that finds no copy, takes from the memo.     *)
AnswerRecorded ==
    \A c \in Calls :
        answer[c] > None /\ answer[c] \notin recorded[Of[c]]
        => /\ copy[c] = None /\ memo[Of[c]].version = answer[c]
           /\ \E d \in Calls : Of[d] = Of[c] /\ copy[d] # None /\ answer[d] = copy[d]

(* The list on disk goes back to an older one only when a call stores      *)
(* again what its incoming request has in memo; or what memory keeps for   *)
(* its locale, the last fetched for it, when one not older than what the   *)
(* disk has was fetched for another locale.  Fetches do not overtake one   *)
(* another: with one locale, only the memo takes the list back.            *)
BackOnlyByCopy ==
    [][stored' # None /\ stored' < stored =>
       \/ \E c \in Calls : pc[c] = "idle" /\ pc'[c] = "done" /\ memo[Of[c]].version = stored'
       \/ \E q \in Incoming :
             /\ flight[q].state = "hit" /\ flight'[q].state = "none"
             /\ fetched[LocaleOf[q]] = stored'
             /\ \E l \in Locales \ {LocaleOf[q]} : fetched[l] >= stored]_appsVars

(* The version saved is lowered only by a save that read it before another *)
(* changed it: saves that do not overlap keep the highest.                 *)
LoweredOnlyByOverlap ==
    [][saved' # None /\ saved # None /\ saved' < saved => \E s \in Saves : seen[s] # None /\ seen[s] # saved]_appsVars
=============================================================================
