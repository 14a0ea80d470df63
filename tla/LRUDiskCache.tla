---------------------------- MODULE LRUDiskCache ----------------------------
(***************************************************************************)
(* src/src/caches/LRUDiskCache.ts: the values are files, an in-memory LRU  *)
(* holds for each key the moment its value dies, and a lock per key orders *)
(* the reads, writes and removals of its file.  Only one key to be deleted *)
(* is remembered (keyToBeDeleted), from the LRU's dispose to the next get  *)
(* or set that takes care of it.                                           *)
(*                                                                         *)
(* The index is the lru-cache package: its keys in order of use, the least *)
(* recent first.  A lock is the queue of the jobs that hold or await it;   *)
(* reads of one key that overlap are taken one after the other.  A value   *)
(* is named by the set that wrote it.                                      *)
(***************************************************************************)
EXTENDS Integers, Sequences, FiniteSets, SequencesExt

CONSTANTS
    Gets, Sets,     \* operations, each issued once
    Keys,
    KeyOf,          \* KeyOf[o]: the key of an operation
    MaxAgeOf,       \* MaxAgeOf[s]: the maxAge argument of a set, 0 for none
    DefaultMaxAge,  \* options.maxAge, 0 for none
    Capacity,       \* options.max
    Stale,          \* options.stale
    NoKey,          \* keyToBeDeleted = ''
    NoFile,         \* no file, and what a failed read resolves to
    Undefined,      \* undefined
    MaxTime,        \* bounds on time
    MaxFaults       \* and on restarts and removals that fail

Ops == Gets \cup Sets
Removal == "removal"
Jobs == Ops \cup {Removal}

ASSUME DiskAssumption ==
    /\ Gets \cap Sets = {} /\ Removal \notin Ops
    /\ IsFiniteSet(Keys)
    /\ KeyOf \in [Ops -> Keys]
    /\ MaxAgeOf \in [Sets -> Nat]
    /\ DefaultMaxAge \in Nat
    /\ Capacity \in Nat \ {0}
    /\ Stale \in BOOLEAN
    /\ NoKey \notin Keys
    /\ NoFile \notin Sets
    /\ Undefined \notin Sets \cup {NoFile}
    /\ MaxTime \in Nat
    /\ MaxFaults \in Nat

VARIABLES
    pc,             \* pc[o]: "idle", "yielded", "locked", "read", "done"
    order,          \* the index: its keys by recency
    death,          \* death[k]: timeOfDeath of an indexed key, Never for NaN
    expiry,         \* expiry[k]: the LRU's own time limit for it
    keyToBeDeleted,
    lock,           \* lock[k]: the jobs on the file of k
    file,           \* file[k]: the set that wrote it, or NoFile
    timeOfDeath,    \* timeOfDeath[g]: what get g found in the index
    value,          \* value[o]: what a get returns; whether a set wrote
    now,
    restarts,       \* restarts of the process so far
    before,         \* before[o]: the operations over when o began (history)
    unremoved       \* the keys a removal of whose file failed (history)

vars == <<pc, order, death, expiry, keyToBeDeleted, lock, file, timeOfDeath, value, now,
          restarts, before, unremoved>>
history == <<before, unremoved>>
index == <<order, death, expiry>>

-----------------------------------------------------------------------------
Never == MaxTime + 100

TypeOK ==
    /\ pc \in [Ops -> {"idle", "yielded", "locked", "read", "done"}]
    /\ order \in Seq(Keys) /\ IsInjective(order) /\ Len(order) <= Capacity
    /\ death \in [Keys -> Int]
    /\ expiry \in [Keys -> Int]
    /\ keyToBeDeleted \in Keys \cup {NoKey}
    /\ lock \in [Keys -> Seq(Jobs)]
    /\ file \in [Keys -> Sets \cup {NoFile}]
    /\ timeOfDeath \in [Gets -> Int]
    /\ value \in [Ops -> Sets \cup {NoFile, Undefined}]
    /\ now \in 0 .. MaxTime
    /\ restarts \in 0 .. MaxFaults
    /\ unremoved \subseteq Keys
    /\ before \in [Ops -> SUBSET Ops]
    /\ \A o \in Ops : pc[o] = "locked" <=> \E i \in DOMAIN lock[KeyOf[o]] : lock[KeyOf[o]][i] = o

Init ==
    /\ pc = [o \in Ops |-> "idle"]
    /\ order = <<>>
    /\ death = [k \in Keys |-> Never]
    /\ expiry = [k \in Keys |-> Never]
    /\ keyToBeDeleted = NoKey
    /\ lock = [k \in Keys |-> <<>>]
    /\ file = [k \in Keys |-> NoFile]
    /\ timeOfDeath = [g \in Gets |-> Never]
    /\ value = [o \in Ops |-> Undefined]
    /\ now = 0
    /\ restarts = 0
    /\ before = [o \in Ops |-> {}]
    /\ unremoved = {}

-----------------------------------------------------------------------------
Indexed == ToSet(order)
Expired(k) == now > expiry[k]
Over == {o \in Ops : pc[o] = "done"}
Begin(o) ==
    /\ pc[o] = "idle"
    /\ before' = [before EXCEPT ![o] = Over]
    /\ UNCHANGED <<restarts, unremoved>>

(* deleteFile: the name to delete is forgotten and the removal queued; the *)
(* promise it makes is not awaited.                                        *)
Queue(k, job) == lock' = [lock EXCEPT ![k] = Append(@, job)]
DeleteFile(k) == Queue(k, Removal) /\ keyToBeDeleted' = NoKey

(* Faulty variant: get looks for a key to delete before it asks the LRU.   *)
GetMisses_AsksLater(g) ==
    LET k == KeyOf[g]
        disposed == k \in Indexed /\ Expired(k)
    IN
    /\ Begin(g)
    /\ k \notin Indexed \/ (disposed /\ ~Stale)
    /\ order' = RemoveFirst(order, k)
    /\ IF keyToBeDeleted # NoKey THEN Queue(k, Removal) ELSE UNCHANGED lock
    /\ keyToBeDeleted' = IF disposed THEN k ELSE NoKey
    /\ pc' = [pc EXCEPT ![g] = "done"]
    /\ UNCHANGED <<death, expiry, file, timeOfDeath, value, now>>

(* get of a key the LRU does not have: it may never have been there, or    *)
(* get has just found it too old and disposed of it, unless stale.         *)
GetMisses(g) ==
    LET k == KeyOf[g]
        disposed == k \in Indexed /\ Expired(k)
    IN
    /\ Begin(g)
    /\ k \notin Indexed \/ (disposed /\ ~Stale)
    /\ order' = RemoveFirst(order, k)
    /\ IF disposed \/ keyToBeDeleted # NoKey
       THEN DeleteFile(k)
       ELSE UNCHANGED <<lock, keyToBeDeleted>>
    /\ pc' = [pc EXCEPT ![g] = "done"]
    /\ UNCHANGED <<death, expiry, file, timeOfDeath, value, now>>

(* get of a key the LRU has; a stale one leaves it with this get.          *)
GetFinds(g) ==
    LET k == KeyOf[g] IN
    /\ Begin(g)
    /\ k \in Indexed
    /\ Expired(k) => Stale
    /\ order' = IF Expired(k) THEN RemoveFirst(order, k) ELSE Append(RemoveFirst(order, k), k)
    /\ keyToBeDeleted' = IF Expired(k) THEN k ELSE keyToBeDeleted
    /\ timeOfDeath' = [timeOfDeath EXCEPT ![g] = death[k]]
    /\ Queue(k, g)
    /\ pc' = [pc EXCEPT ![g] = "locked"]
    /\ UNCHANGED <<death, expiry, file, value, now>>

(* Faulty variant: the file is removed, its key stays in the index.        *)
GetReturns_KeyStays(g) ==
    /\ pc[g] = "read"
    /\ IF timeOfDeath[g] < now THEN DeleteFile(KeyOf[g]) ELSE UNCHANGED <<lock, keyToBeDeleted>>
    /\ pc' = [pc EXCEPT ![g] = "done"]
    /\ UNCHANGED <<index, file, timeOfDeath, value, now, restarts, history>>

(* The value has been read and died in the meantime, or was dead already:  *)
(* its key leaves the index and its file is removed.                       *)
GetReturns(g) ==
    LET k == KeyOf[g] IN
    /\ pc[g] = "read"
    /\ IF timeOfDeath[g] < now
       THEN order' = RemoveFirst(order, k) /\ DeleteFile(k)
       ELSE UNCHANGED <<order, lock, keyToBeDeleted>>
    /\ pc' = [pc EXCEPT ![g] = "done"]
    /\ UNCHANGED <<death, expiry, file, timeOfDeath, value, now, restarts, history>>

-----------------------------------------------------------------------------
(* set puts the key in the index, which may drop the least recent one; the *)
(* file of a dropped key is deleted before, an await, the write is queued. *)
Grown(k) == Append(RemoveFirst(order, k), k)
Dropped(k) == IF Len(Grown(k)) > Capacity THEN Head(Grown(k)) ELSE NoKey

Age(s) == IF MaxAgeOf[s] > 0 THEN MaxAgeOf[s] ELSE DefaultMaxAge

SetStarts(s) ==
    LET k == KeyOf[s]
        dropped == Dropped(k)
        pending == IF dropped # NoKey THEN dropped ELSE keyToBeDeleted
    IN
    /\ Begin(s)
    /\ order' = IF dropped = NoKey THEN Grown(k) ELSE Tail(Grown(k))
    /\ death' = [death EXCEPT ![k] = IF MaxAgeOf[s] > 0 THEN now + MaxAgeOf[s] ELSE Never]
    /\ expiry' = [expiry EXCEPT ![k] = IF Age(s) > 0 THEN now + Age(s) ELSE Never]
    /\ IF pending \notin {NoKey, k}
       THEN /\ DeleteFile(pending)
            /\ pc' = [pc EXCEPT ![s] = "yielded"]
       ELSE /\ keyToBeDeleted' = pending
            /\ Queue(k, s)
            /\ pc' = [pc EXCEPT ![s] = "locked"]
    /\ UNCHANGED <<file, timeOfDeath, value, now>>

SetResumes(s) ==
    /\ pc[s] = "yielded"
    /\ Queue(KeyOf[s], s)
    /\ pc' = [pc EXCEPT ![s] = "locked"]
    /\ UNCHANGED <<index, keyToBeDeleted, file, timeOfDeath, value, now, restarts, history>>

-----------------------------------------------------------------------------
(* The job at the head of a lock's queue does its work on the file and     *)
(* releases the lock, whether the file system succeeds or not.             *)
Job(k) == Head(lock[k])
Release(k) == lock' = [lock EXCEPT ![k] = Tail(@)]

(* Faulty variant: get has no catch, a failed read keeps its lock.         *)
ReadFile_Uncaught(k) ==
    /\ lock[k] # <<>> /\ Job(k) \in Gets
    /\ file[k] # NoFile
    /\ value' = [value EXCEPT ![Job(k)] = file[k]]
    /\ pc' = [pc EXCEPT ![Job(k)] = "read"]
    /\ Release(k)
    /\ UNCHANGED <<index, keyToBeDeleted, file, timeOfDeath, now, restarts, history>>

ReadFile(k) ==
    /\ lock[k] # <<>> /\ Job(k) \in Gets
    /\ \E content \in {file[k], NoFile} : value' = [value EXCEPT ![Job(k)] = content]
    /\ pc' = [pc EXCEPT ![Job(k)] = "read"]
    /\ Release(k)
    /\ UNCHANGED <<index, keyToBeDeleted, file, timeOfDeath, now, restarts, history>>

WriteFile(k) ==
    /\ lock[k] # <<>> /\ Job(k) \in Sets
    /\ file' = [file EXCEPT ![k] = Job(k)]
    /\ value' = [value EXCEPT ![Job(k)] = Job(k)]
    /\ pc' = [pc EXCEPT ![Job(k)] = "done"]
    /\ Release(k)
    /\ UNCHANGED <<index, keyToBeDeleted, timeOfDeath, now, restarts, history>>

(* Faulty variant: the catch of set resolves as if the write had succeeded. *)
WriteFails_Unreported(k) ==
    /\ lock[k] # <<>> /\ Job(k) \in Sets
    /\ value' = [value EXCEPT ![Job(k)] = Job(k)]
    /\ pc' = [pc EXCEPT ![Job(k)] = "done"]
    /\ Release(k)
    /\ UNCHANGED <<index, keyToBeDeleted, file, timeOfDeath, now, restarts, history>>

WriteFails(k) ==
    /\ lock[k] # <<>> /\ Job(k) \in Sets
    /\ value' = [value EXCEPT ![Job(k)] = NoFile]
    /\ pc' = [pc EXCEPT ![Job(k)] = "done"]
    /\ Release(k)
    /\ UNCHANGED <<index, keyToBeDeleted, file, timeOfDeath, now, restarts, history>>

RemoveFile(k) ==
    /\ lock[k] # <<>> /\ Job(k) = Removal
    /\ file' = [file EXCEPT ![k] = NoFile]
    /\ Release(k)
    /\ UNCHANGED <<pc, index, keyToBeDeleted, timeOfDeath, value, now, restarts, history>>

Faults == restarts + Cardinality(unremoved)
RemoveFails(k) ==
    /\ lock[k] # <<>> /\ Job(k) = Removal
    /\ Faults < MaxFaults
    /\ unremoved' = unremoved \cup {k}
    /\ Release(k)
    /\ UNCHANGED <<pc, index, keyToBeDeleted, file, timeOfDeath, value, now, restarts, before>>

(* The process dies and comes back with the files but not the index.       *)
Restart ==
    /\ Faults < MaxFaults
    /\ restarts' = restarts + 1
    /\ order' = <<>>
    /\ keyToBeDeleted' = NoKey
    /\ lock' = [k \in Keys |-> <<>>]
    /\ pc' = [o \in Ops |-> IF pc[o] = "idle" THEN "idle" ELSE "done"]
    /\ UNCHANGED <<death, expiry, file, timeOfDeath, value, now, history>>

Tick ==
    /\ now < MaxTime
    /\ now' = now + 1
    /\ UNCHANGED <<pc, index, keyToBeDeleted, lock, file, timeOfDeath, value, restarts, history>>

Disk(k) == ReadFile(k) \/ WriteFile(k) \/ WriteFails(k) \/ RemoveFile(k) \/ RemoveFails(k)

Next ==
    \/ \E g \in Gets : GetMisses(g) \/ GetFinds(g) \/ GetReturns(g)
    \/ \E s \in Sets : SetStarts(s) \/ SetResumes(s)
    \/ \E k \in Keys : Disk(k)
    \/ Restart
    \/ Tick

(* The event loop runs what is resumable and the file system answers.      *)
Fairness ==
    /\ \A g \in Gets : WF_vars(GetReturns(g))
    /\ \A s \in Sets : WF_vars(SetResumes(s))
    /\ \A k \in Keys : WF_vars(Disk(k))

Spec == Init /\ [][Next]_vars
FairSpec == Spec /\ Fairness

-----------------------------------------------------------------------------
Quiescent ==
    /\ \A o \in Ops : pc[o] \in {"idle", "done"}
    /\ \A k \in Keys : lock[k] = <<>>

(* A get returns a value that no other set had replaced before the get     *)
(* began: whatever the interleaving with evictions and removals, the last  *)
(* completed write wins, or the value is missing.                          *)
ReadsLast ==
    \A g \in Gets : value[g] \in Sets =>
        LET v == value[g] IN
        /\ KeyOf[v] = KeyOf[g]
        /\ ~\E s \in before[g] \cap Sets :
              KeyOf[s] = KeyOf[g] /\ value[s] = s /\ v \in before[s]

(* When nothing is going on every indexed key has its file, unless writing *)
(* it failed: no removal meant for an old value, or for another key, takes *)
(* a live one away (stale: false).                                         *)
WriteFailed(k) == \E s \in Sets : KeyOf[s] = k /\ pc[s] = "done" /\ value[s] # s
EntriesOnDisk == Quiescent => \A k \in Indexed : file[k] # NoFile \/ WriteFailed(k)

(* Every get and set ends, a failure of the file system releases the lock: *)
(* there is a moment from which none is under way.                         *)
EveryOpEnds == <>[](\A o \in Ops : pc[o] \in {"idle", "done"})

(* A file whose key is not in the index, which nothing would remove any    *)
(* more, is there only since a restart, because a removal failed, or       *)
(* because another operation was under way together with the set that      *)
(* wrote it, which dropped its key while it waited to write: a set of      *)
(* another key, or a get of its own that found it expired (stale: false).  *)
Overlapping(o, t) == o # t /\ pc[o] # "idle" /\ o \notin before[t] /\ t \notin before[o]
OrphansOnlyByOverlap ==
    Quiescent => \A k \in Keys \ Indexed :
        file[k] = NoFile \/ k \in unremoved \/ restarts > 0
        \/ \E o \in Ops : Overlapping(o, file[k]) /\ (o \in Gets => KeyOf[o] = k)
=============================================================================
