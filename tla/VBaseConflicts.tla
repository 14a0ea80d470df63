---------------------------- MODULE VBaseConflicts ----------------------------
(***************************************************************************)
(* A file of VBase that was changed in the workspace ("mine") and in the   *)
(* master since they were one ("base"): VBase.getRawJSON                   *)
(* (src/src/clients/infra/VBase.ts) called with a resolver, and the        *)
(* resolver, src/src/utils/MineWinsConflictsResolver.ts.  Calls are reads  *)
(* with a resolver.                                                        *)
(*                                                                         *)
(* The contents are of one of the Shapes: objects, whose keys are of       *)
(* scalars (0 is falsy) or of lists, or lists, whose items are objects; or *)
(* one of which VBase gives the resolver nothing, the file being deleted   *)
(* or too large.  A list that the resolver turns into an object is         *)
(* Indexed, whatever it holds.                                             *)
(***************************************************************************)
EXTENDS Integers, Sequences, FiniteSets, SequencesExt, InfraCalls
CONSTANTS Shapes, ListKeys, ItemKeySets,  \* contents; keys of lists; comparableKeys a resolver may have
          Bare, Indexed,                \* contents given as none; a list turned into an object
          Saved, MaxChanges             \* bounds on saves of the file: of what, and how many
IsList(content) == content \in Seq(ToSet(content))
IsContent(of, content) ==
    IF of = "list" THEN IsList(content) ELSE \A k \in DOMAIN content \cap ListKeys : IsList(content[k])
ASSUME VBaseAssumption ==
    /\ \A of \in DOMAIN Shapes : \A content \in Shapes[of] : IsContent(of, content)
    /\ \A of \in DOMAIN Shapes : Saved[of] \subseteq Shapes[of]
    /\ Indexed \notin Bare
VARIABLES shape, comparable,            \* what the file holds; comparableKeys of the resolver
          base, master, mine, changes,  \* the file; how often it changed
          memoized, conflicts,          \* what a request has memoized: the read, the list of conflicts
          asked,                        \* the read in flight
          keptReads, keptLists,         \* the memory cache, of a locale: if it holds a read; the list
          phase, result,                \* of a call
          patches                       \* resolutions on their way
file == <<base, master, mine, changes>>
memoryCache == <<keptReads, keptLists>>
vbaseVars == <<shape, comparable, file, memoized, conflicts, asked, memoryCache, phase, result, patches>>

(* The merge: MineWinsConflictsResolver.                                   *)
Has(o, k) == k \in DOMAIN o
Truthy(o, k) == Has(o, k) /\ (k \in ListKeys \/ o[k] # 0)
ListOf(o, k) == IF Has(o, k) THEN o[k] ELSE <<>>
PropOf(item, k) == IF Has(item, k) THEN item[k] ELSE 0

(* An item is like another if some comparable key is equal in both, be it  *)
(* undefined in both; or if they are equal, when it has no such key.       *)
Like(item, other) ==
    IF DOMAIN item \cap comparable # {} THEN \E k \in comparable : PropOf(item, k) = PropOf(other, k)
    ELSE item = other
ShouldAddToMine(item, b, m) == item \notin ToSet(b) /\ \A other \in ToSet(m) : ~Like(item, other)
RemoveMasterDeleted(b, ma, m) ==
    FoldLeft(LAMBDA acc, item : IF item \in ToSet(ma) THEN acc ELSE RemoveFirst(acc, item), m, b)
(* Faulty variant: what mine deleted is appended again.                    *)
AppendMasterAdded_Deleted(b, ma, m) ==
    FoldLeft(LAMBDA acc, item : IF ShouldAddToMine(item, <<>>, acc) THEN Append(acc, item) ELSE acc, m, ma)
AppendMasterAdded(b, ma, m) ==
    FoldLeft(LAMBDA acc, item : IF ShouldAddToMine(item, b, acc) THEN Append(acc, item) ELSE acc, m, ma)
MergeArray(b, ma, m) == AppendMasterAdded(b, ma, RemoveMasterDeleted(b, ma, m))

MergeObject(b, ma, m) ==
    LET value(k) == IF Has(m, k) THEN m[k] ELSE ma[k]
        DeletedByMaster(k) == ~Has(ma, k) /\ Has(b, k) /\ value(k) = b[k]
        DeletedByMine(k) == Truthy(b, k) /\ Truthy(ma, k) /\ ~Truthy(m, k)
    IN [k \in {k \in DOMAIN ma \cup DOMAIN m : ~DeletedByMaster(k) /\ ~DeletedByMine(k)} |->
            IF k \in ListKeys THEN MergeArray(ListOf(b, k), ListOf(ma, k), value(k)) ELSE value(k)]

(* The sides as parsed: one without content is an empty object.  A master  *)
(* without content takes the others for objects, and spreads the list.     *)
Parsed(content) == IF content \in Bare THEN <<>> ELSE content
Merge(b, ma, m) ==
    IF shape = "list" THEN IF ma \in Bare THEN Indexed ELSE MergeArray(b, ma, m)
    ELSE MergeObject(Parsed(b), Parsed(ma), Parsed(m))
(* The merge throws a TypeError: an empty object in place of a list has no *)
(* forEach, and no findIndex or some where an item is looked for in it.    *)
Throws(b, ma, m) ==
    /\ shape = "list" /\ ma \notin Bare
    /\ \/ b \in Bare
       \/ m \in Bare /\ (ma # <<>> \/ \E item \in ToSet(b) : item \notin ToSet(ma))

-----------------------------------------------------------------------------
Contents == Shapes[shape] \cup Bare
InConflict == mine # base /\ master # base /\ mine # master

(* What a read is told: failed, a conflict, or read, when the file is not  *)
(* in conflict (its content, or that there is none, is left out).          *)
Told(state, at) == [state |-> state, at |-> at]
Asked(state, locale, told) == [state |-> state, locale |-> locale, told |-> told]
List(found) ==
    [state |-> "listed", found |-> found, fromMemory |-> FALSE, at |-> changes,
     base |-> base, master |-> master, mine |-> mine]
NoList(state) ==
    [state |-> state, found |-> FALSE, fromMemory |-> FALSE, at |-> 0, base |-> <<>>, master |-> <<>>, mine |-> <<>>]
Result(kind, content) == [kind |-> kind, content |-> content]

VBaseInit ==
    /\ shape \in DOMAIN Shapes /\ comparable \in ItemKeySets
    /\ base \in Contents /\ master \in Contents /\ mine \in Contents
    /\ changes = 0
    /\ memoized = [q \in Incoming |-> Told("none", 0)] /\ conflicts = [q \in Incoming |-> NoList("none")]
    /\ \E l \in Locales : asked = Asked("none", l, Told("none", 0))
    /\ keptReads = {} /\ keptLists = [l \in Locales |-> NoList("none")]
    /\ phase = [c \in Calls |-> "idle"] /\ result = [c \in Calls |-> Result("none", <<>>)]
    /\ patches = {}

(* The calls of cs go on with what they are told: a conflict is caught,    *)
(* anything else returned.                                                 *)
GoOn(cs, told) ==
    /\ phase' = [c \in Calls |-> IF c \notin cs THEN phase[c] ELSE IF told.state = "conflict" THEN "conflict" ELSE "done"]
    /\ result' = [c \in Calls |-> IF c \notin cs \/ told.state = "conflict" THEN result[c] ELSE Result(told.state, <<>>)]

(* getRawJSON: the promise memoized for the incoming request answers, or   *)
(* the flight of any request, which memory may answer; or it is started.   *)
GetRawJSON(c) ==
    LET q == Of[c]
        l == LocaleOf[q]
        started == IF l \in keptReads THEN Asked("hit", l, Told("read", 0)) ELSE Asked("sent", l, Told("none", 0))
    IN
    /\ phase[c] = "idle"
    /\ \/ /\ memoized[q].state = "none"
          /\ memoized' = [memoized EXCEPT ![q] = Told("pending", 0)]
          /\ asked' = IF asked.state = "none" THEN started ELSE asked
       \/ memoized[q].state # "none" /\ UNCHANGED <<memoized, asked>>
    /\ IF memoized[q].state \in {"none", "pending"} THEN phase' = [phase EXCEPT ![c] = "waiting"] /\ UNCHANGED result
       ELSE GoOn({c}, memoized[q])
    /\ UNCHANGED <<shape, comparable, file, conflicts, memoryCache, patches>>

(* VBase makes its answer to the read, of the file as it is.               *)
ReadAnswered ==
    /\ asked.state = "sent"
    /\ asked' = [asked EXCEPT !.state = "made", !.told = Told(IF InConflict THEN "conflict" ELSE "read", changes)]
    /\ UNCHANGED <<shape, comparable, file, memoized, conflicts, memoryCache, phase, result, patches>>

(* The flight ends: the promises of all the requests that wait for it      *)
(* settle, and their calls go on.                                          *)
Settle(told) ==
    /\ memoized' = [q \in Incoming |-> IF memoized[q].state = "pending" THEN told ELSE memoized[q]]
    /\ GoOn({c \in Calls : phase[c] = "waiting"}, told)
    /\ asked' = Asked("none", asked.locale, Told("none", 0))
    /\ UNCHANGED <<shape, comparable, file, conflicts, keptLists, patches>>
(* Memory keeps what VBase told for the locale, unless it is the conflict, *)
(* which is an error, or the headers forbid it.                            *)
ReadArrives ==
    /\ asked.state = "made" /\ Settle(asked.told)
    /\ \/ UNCHANGED keptReads
       \/ asked.told.state = "read" /\ keptReads' = keptReads \cup {asked.locale}
ReadFromMemory == asked.state = "hit" /\ Settle(asked.told) /\ UNCHANGED keptReads
ReadFails == asked.state \in {"sent", "made"} /\ Settle(Told("failed", 0)) /\ UNCHANGED keptReads

(* Faulty variant: a file without content in the workspace is no conflict. *)
Found_Content(list) == list.found /\ list.mine \notin Bare
Found(list) == list.found
(* resolve: the list of the conflicts of the bucket, memoized for the      *)
(* incoming request or kept for its locale, or got from VBase, or failed;  *)
(* that it is not found says that there are none.                          *)
ListsFor(q) ==
    LET held == keptLists[LocaleOf[q]] IN
    IF conflicts[q].state # "none" THEN {conflicts[q]}
    ELSE IF held.state # "none" THEN {[held EXCEPT !.fromMemory = TRUE]}
    ELSE {List(InConflict), NoList("failed")}
(* The conflict of the file is merged and the resolution sent, and not     *)
(* waited for.  If there is none the file is asked for again, and the      *)
(* promise memoized answers.                                               *)
Returns(c, kind, content) ==
    phase' = [phase EXCEPT ![c] = "done"] /\ result' = [result EXCEPT ![c] = Result(kind, content)]
ResolveWith(c, list) ==
    LET merged == Merge(list.base, list.master, list.mine) IN
    \/ list.state = "failed" /\ Returns(c, "failed", <<>>) /\ UNCHANGED patches
    \/ list.state = "listed" /\ ~Found(list) /\ Returns(c, memoized[Of[c]].state, <<>>) /\ UNCHANGED patches
    \/ /\ Found(list) /\ Throws(list.base, list.master, list.mine)
       /\ Returns(c, "unmergeable", <<>>) /\ UNCHANGED patches
    \/ /\ Found(list) /\ ~Throws(list.base, list.master, list.mine)
       /\ Returns(c, "merged", merged)
       /\ patches' = patches \cup {[content |-> merged, master |-> list.master]}
Resolve(c) ==
    LET q == Of[c] IN
    /\ phase[c] = "conflict"
    /\ \E list \in ListsFor(q) :
         /\ conflicts' = [conflicts EXCEPT ![q] = list] /\ ResolveWith(c, list)
         /\ \/ UNCHANGED keptLists
            \/ conflicts[q].state = "none" /\ list.state = "listed" /\ ~list.fromMemory
               /\ keptLists' = [keptLists EXCEPT ![LocaleOf[q]] = list]
    /\ UNCHANGED <<shape, comparable, file, memoized, asked, keptReads>>

(* A resolution reaches VBase, or fails and nobody is told.                *)
ResolutionLands(p) ==
    /\ patches' = patches \ {p}
    /\ \/ mine' = p.content /\ base' = p.master /\ changes' = changes + 1
       \/ UNCHANGED <<base, mine, changes>>
    /\ UNCHANGED <<shape, comparable, master, memoized, conflicts, asked, memoryCache, phase, result>>
(* The file is saved or deleted (saveJSON, deleteFile), or changes in the  *)
(* master.                                                                 *)
Save(content) ==
    /\ changes < MaxChanges /\ mine' = content /\ changes' = changes + 1
    /\ UNCHANGED <<shape, comparable, base, master, memoized, conflicts, asked, memoryCache, phase, result, patches>>
MasterSaves(content) ==
    /\ changes < MaxChanges /\ master' = content /\ changes' = changes + 1
    /\ UNCHANGED <<shape, comparable, base, mine, memoized, conflicts, asked, memoryCache, phase, result, patches>>

(* What memory keeps for a locale expires or is evicted.                   *)
ReadExpires(l) ==
    /\ keptReads' = keptReads \ {l}
    /\ UNCHANGED <<shape, comparable, file, memoized, conflicts, asked, keptLists, phase, result, patches>>
ListExpires(l) ==
    /\ keptLists' = [keptLists EXCEPT ![l] = NoList("none")]
    /\ UNCHANGED <<shape, comparable, file, memoized, conflicts, asked, keptReads, phase, result, patches>>

VBaseNext ==
    \/ \E c \in Calls : GetRawJSON(c) \/ Resolve(c)
    \/ ReadAnswered \/ ReadArrives \/ ReadFromMemory \/ ReadFails
    \/ \E p \in patches : ResolutionLands(p)
    \/ \E content \in Saved[shape] \cup Bare : Save(content) \/ MasterSaves(content)
    \/ \E l \in Locales : ReadExpires(l) \/ ListExpires(l)
VBaseSpec == VBaseInit /\ [][VBaseNext]_vbaseVars

-----------------------------------------------------------------------------
(* What the test of the resolver expects of a merge, of any contents.      *)
ObjectWins(b, ma, m, merged) ==
    \A k \in DOMAIN b \cup DOMAIN ma \cup DOMAIN m : k \notin ListKeys =>
        /\ Truthy(m, k) /\ (~Has(b, k) \/ m[k] # b[k]) => Has(merged, k) /\ merged[k] = m[k]
        /\ Has(ma, k) /\ ~Has(b, k) /\ ~Has(m, k) => Has(merged, k) /\ merged[k] = ma[k]
        /\ Truthy(b, k) /\ ~Has(m, k) => ~Has(merged, k) \/ ~Truthy(ma, k)
        /\ Has(b, k) /\ ~Has(ma, k) /\ Has(m, k) /\ m[k] = b[k] => ~Has(merged, k)
Occurrences(list, item) == Cardinality({i \in DOMAIN list : list[i] = item})
(* What of mine is not to go is in the merged list, in its order, and      *)
(* before the last of it nothing else, but items of mine that are to go    *)
(* and of which it had more than the base.                                 *)
InOrder(m, deleted, merged) ==
    LET kept == {i \in DOMAIN m : m[i] \notin deleted} IN
    \E place \in [kept -> DOMAIN merged] :
        /\ \A i \in kept : merged[place[i]] = m[i]
        /\ \A i, j \in kept : i < j => place[i] < place[j]
        /\ \A n \in DOMAIN merged, j \in kept :
              n < place[j] => merged[n] \in deleted \/ \E i \in kept : n = place[i]
ListWins(b, ma, m, merged) ==
    LET deleted == ToSet(b) \ ToSet(ma) IN
    /\ InOrder(m, deleted, merged)
    /\ \A item \in deleted :
          LET left == Occurrences(m, item) - Occurrences(b, item) IN
          Occurrences(merged, item) = IF left > 0 THEN left ELSE 0
    /\ ToSet(merged) \subseteq ToSet(m) \cup ToSet(ma)
    /\ \A item \in ToSet(b) : item \notin ToSet(m) => item \notin ToSet(merged)
    /\ \A item \in ToSet(ma) \ ToSet(b) : \E other \in ToSet(merged) : other = item \/ Like(item, other)
Wins(b, ma, m, merged) ==
    IF shape = "list" THEN ListWins(b, ma, m, merged)
    ELSE /\ ObjectWins(b, ma, m, merged)
         /\ \A k \in ListKeys : Has(merged, k) => ListWins(ListOf(b, k), ListOf(ma, k), ListOf(IF Has(m, k) THEN m ELSE ma, k), merged[k])

(* A merge keeps what mine changed or added, in its order, takes what the  *)
(* master added and mine has nothing like, and brings nothing back that    *)
(* either deleted and the other left as it was: of equal items of a list,  *)
(* as many go as the base has.  A list of which the master has no content  *)
(* becomes an object.                                                      *)
MineWins ==
    \A c \in Calls : result[c].kind = "merged" =>
        LET list == conflicts[Of[c]] IN
        IF shape = "list" /\ list.master \in Bare THEN result[c].content = Indexed
        ELSE Wins(Parsed(list.base), Parsed(list.master), Parsed(list.mine), result[c].content)

(* A read with a resolver fails for the conflict itself only if the list   *)
(* of the conflicts is of another state of the file than the conflict it   *)
(* was told, an earlier one only from the memory cache; and for the merge  *)
(* just when the file is a list that the base or the workspace has no      *)
(* content of, while the master has.                                       *)
FailsForCause ==
    \A c \in Calls :
        LET list == conflicts[Of[c]]
            told == memoized[Of[c]]
        IN
        /\ result[c].kind = "conflict" =>
             told.state = "conflict" /\ (told.at < list.at \/ (list.fromMemory /\ list.at < told.at))
        /\ result[c].kind \in {"merged", "unmergeable"} =>
             (result[c].kind = "unmergeable"
              <=> shape = "list" /\ list.master \notin Bare /\ (list.base \in Bare \/ list.mine \in Bare))
=============================================================================
