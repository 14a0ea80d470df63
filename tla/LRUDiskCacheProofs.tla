-------------------------- MODULE LRUDiskCacheProofs --------------------------
(***************************************************************************)
(* What LRUDiskCache keeps of its files, for every set of keys and of      *)
(* operations, every capacity and every bound on time and on faults.       *)
(***************************************************************************)
EXTENDS LRUDiskCache, SequenceTheorems, FiniteSetTheorems, TLAPS

(* The key at one place of an index without repetitions is removed there. *)
LEMMA RemoveAtPlace ==
    ASSUME NEW s \in Seq(Keys), IsInjective(s), NEW i \in 1 .. Len(s)
    PROVE  RemoveFirst(s, s[i]) = SubSeq(s, 1, i - 1) \o SubSeq(s, i + 1, Len(s))
  <1>1. DOMAIN s = 1 .. Len(s) /\ Len(s) \in Nat
    OBVIOUS
  <1>2. {j \in 1 .. Len(s) : s[j] = s[i]} = {i}
    BY <1>1 DEF IsInjective
  <1>3. Min({i}) = i
    BY DEF Min
  <1>4. SelectInSeq(s, LAMBDA v : v = s[i]) = i
    BY <1>2, <1>3 DEF SelectInSeq
  <1> QED BY <1>4 DEF RemoveFirst, RemoveAt

(* Removing a key from an index without repetitions.                       *)
LEMMA RemoveKey ==
    ASSUME NEW s \in Seq(Keys), IsInjective(s), NEW k
    PROVE  /\ RemoveFirst(s, k) \in Seq(Keys)
           /\ IsInjective(RemoveFirst(s, k))
           /\ ToSet(RemoveFirst(s, k)) = ToSet(s) \ {k}
           /\ Len(RemoveFirst(s, k)) = IF k \in ToSet(s) THEN Len(s) - 1 ELSE Len(s)
  <1>0. DOMAIN s = 1 .. Len(s) /\ Len(s) \in Nat
    OBVIOUS
  <1>1. CASE k \notin ToSet(s)
    BY <1>0, <1>1 DEF RemoveFirst, ToSet
  <1>2. CASE k \in ToSet(s)
    <2>1. PICK i \in 1 .. Len(s) : s[i] = k
      BY <1>0, <1>2 DEF ToSet
    <2> DEFINE t == RemoveFirst(s, k)
    <2>2. t = SubSeq(s, 1, i - 1) \o SubSeq(s, i + 1, Len(s))
      BY <2>1, RemoveAtPlace
    <2>3. /\ SubSeq(s, 1, i - 1) \in Seq(Keys) /\ Len(SubSeq(s, 1, i - 1)) = i - 1
          /\ \A j \in 1 .. i - 1 : SubSeq(s, 1, i - 1)[j] = s[j]
      BY <1>0, SubSeqProperties
    <2>4. /\ SubSeq(s, i + 1, Len(s)) \in Seq(Keys) /\ Len(SubSeq(s, i + 1, Len(s))) = Len(s) - i
          /\ \A j \in 1 .. Len(s) - i : SubSeq(s, i + 1, Len(s))[j] = s[i + j]
      <3>1. i + 1 \in Int /\ Len(s) \in Int /\ \A j \in i + 1 .. Len(s) : s[j] \in Keys
        BY <1>0
      <3>2. /\ SubSeq(s, i + 1, Len(s)) \in Seq(Keys)
            /\ Len(SubSeq(s, i + 1, Len(s))) = IF i + 1 <= Len(s) THEN Len(s) - (i + 1) + 1 ELSE 0
            /\ \A j \in 1 .. Len(s) - (i + 1) + 1 : SubSeq(s, i + 1, Len(s))[j] = s[i + 1 + j - 1]
        BY <3>1, SubSeqProperties
      <3>3. ASSUME NEW j \in 1 .. Len(s) - i PROVE SubSeq(s, i + 1, Len(s))[j] = s[i + j]
        <4>1. j \in 1 .. Len(s) - (i + 1) + 1 /\ i + 1 + j - 1 = i + j
          BY <1>0
        <4> QED BY <4>1, <3>2
      <3>4. \A n \in Nat : i \in 1 .. n => (IF i + 1 <= n THEN n - (i + 1) + 1 ELSE 0) = n - i
        OBVIOUS
      <3>5. Len(SubSeq(s, i + 1, Len(s))) = Len(s) - i
        BY <3>2, <3>4, <2>1, <1>0
      <3> QED BY <3>2, <3>3, <3>5
    <2>5. /\ t \in Seq(Keys) /\ Len(t) = Len(s) - 1 /\ DOMAIN t = 1 .. Len(s) - 1
          /\ \A j \in 1 .. Len(s) - 1 : t[j] = IF j < i THEN s[j] ELSE s[j + 1]
      <3> DEFINE a == SubSeq(s, 1, i - 1)
                 b == SubSeq(s, i + 1, Len(s))
      <3>1. t = a \o b /\ a \in Seq(Keys) /\ Len(a) = i - 1 /\ (\A j \in 1 .. i - 1 : a[j] = s[j])
        BY <2>2, <2>3
      <3>2. b \in Seq(Keys) /\ Len(b) = Len(s) - i /\ (\A j \in 1 .. Len(s) - i : b[j] = s[i + j])
        BY <2>4
      <3> HIDE DEF a, b, t
      <3>3. /\ t \in Seq(Keys) /\ Len(t) = Len(a) + Len(b)
            /\ \A j \in 1 .. Len(a) + Len(b) : t[j] = IF j <= Len(a) THEN a[j] ELSE b[j - Len(a)]
        BY <3>1, <3>2, ConcatProperties
      <3>4. Len(t) = Len(s) - 1
        BY <3>1, <3>2, <3>3, <1>0
      <3>5. ASSUME NEW j \in 1 .. Len(s) - 1 PROVE t[j] = IF j < i THEN s[j] ELSE s[j + 1]
        <4>1. j \in 1 .. Len(a) + Len(b) /\ Len(a) = i - 1
          BY <3>1, <3>2, <1>0
        <4>2. CASE j < i
          BY <4>1, <4>2, <3>1, <3>3
        <4>3. CASE j >= i
          <5>1. j - Len(a) \in 1 .. Len(s) - i /\ i + (j - Len(a)) = j + 1 /\ ~(j <= Len(a))
            BY <4>1, <4>3, <1>0
          <5>2. t[j] = b[j - Len(a)]
            BY <4>1, <5>1, <3>3
          <5> QED BY <2>1, <5>1, <5>2, <3>2, <4>3
        <4> QED BY <4>2, <4>3
      <3> QED BY <3>3, <3>4, <3>5, LenProperties
    <2> HIDE DEF t
    <2>6. IsInjective(t)
      <3> SUFFICES ASSUME NEW x \in 1 .. Len(s) - 1, NEW y \in 1 .. Len(s) - 1, t[x] = t[y]
                   PROVE  x = y
        BY <2>5 DEF IsInjective
      <3>1. \A u, v \in 1 .. Len(s) : s[u] = s[v] => u = v
        BY <1>0 DEF IsInjective
      <3>2. x + 1 \in 1 .. Len(s) /\ y + 1 \in 1 .. Len(s) /\ x \in 1 .. Len(s) /\ y \in 1 .. Len(s)
        BY <1>0
      <3>3. /\ x < i => t[x] = s[x]
            /\ x >= i => t[x] = s[x + 1]
            /\ y < i => t[y] = s[y]
            /\ y >= i => t[y] = s[y + 1]
        BY <1>0, <2>1, <2>5
      <3>4. CASE x < i /\ y < i
        BY <1>0, <2>1, <3>1, <3>2, <3>3, <3>4
      <3>5. CASE x < i /\ y >= i
        BY <1>0, <2>1, <3>1, <3>2, <3>3, <3>5
      <3>6. CASE x >= i /\ y < i
        BY <1>0, <2>1, <3>1, <3>2, <3>3, <3>6
      <3>7. CASE x >= i /\ y >= i
        BY <1>0, <2>1, <3>1, <3>2, <3>3, <3>7
      <3> QED BY <3>4, <3>5, <3>6, <3>7
    <2>7. ToSet(t) = ToSet(s) \ {k}
      <3>1. ASSUME NEW x \in ToSet(t) PROVE x \in ToSet(s) \ {k}
        <4>1. PICK j \in 1 .. Len(s) - 1 : t[j] = x
          BY <2>5, <3>1 DEF ToSet
        <4>2. PICK h \in 1 .. Len(s) : s[h] = x /\ h # i
          BY <4>1, <2>5, <1>0
        <4> QED BY <4>2, <2>1, <1>0 DEF ToSet, IsInjective
      <3>2. ASSUME NEW x \in ToSet(s), x # k PROVE x \in ToSet(t)
        <4>1. PICK j \in 1 .. Len(s) : s[j] = x
          BY <1>0 DEF ToSet
        <4>2. CASE j < i
          BY <4>1, <4>2, <2>5 DEF ToSet
        <4>3. CASE j > i
          <5>1. j - 1 \in 1 .. Len(s) - 1 /\ t[j - 1] = s[j]
            BY <4>3, <2>5
          <5> QED BY <5>1, <4>1, <2>5 DEF ToSet
        <4> QED BY <4>1, <4>2, <4>3, <3>2, <2>1
      <3> QED BY <3>1, <3>2
    <2> QED BY <2>5, <2>6, <2>7, <1>2 DEF t
  <1> QED BY <1>1, <1>2

(* A key put at the end of an index that does not have it.                 *)
LEMMA AppendKey ==
    ASSUME NEW s \in Seq(Keys), IsInjective(s), NEW k \in Keys, k \notin ToSet(s)
    PROVE  /\ Append(s, k) \in Seq(Keys)
           /\ IsInjective(Append(s, k))
           /\ ToSet(Append(s, k)) = ToSet(s) \cup {k}
           /\ Len(Append(s, k)) = Len(s) + 1
  BY DEF IsInjective, ToSet

(* The least recent key dropped.                                           *)
LEMMA DropOldest ==
    ASSUME NEW s \in Seq(Keys), IsInjective(s), s # <<>>
    PROVE  /\ Tail(s) \in Seq(Keys)
           /\ IsInjective(Tail(s))
           /\ ToSet(Tail(s)) = ToSet(s) \ {Head(s)}
           /\ Len(Tail(s)) = Len(s) - 1
           /\ Head(s) \in ToSet(s)
  <1> DEFINE t == Tail(s)
  <1>1. /\ DOMAIN s = 1 .. Len(s) /\ Len(s) \in Nat \ {0} /\ Head(s) = s[1]
        /\ t \in Seq(Keys) /\ Len(t) = Len(s) - 1 /\ DOMAIN t = 1 .. Len(t)
        /\ \A j \in 1 .. Len(t) : t[j] = s[j + 1]
    BY HeadTailProperties
  <1> HIDE DEF t
  <1>2. IsInjective(t)
    <2> SUFFICES ASSUME NEW x \in 1 .. Len(t), NEW y \in 1 .. Len(t), t[x] = t[y]
                 PROVE  x = y
      BY <1>1 DEF IsInjective
    <2>1. x + 1 \in DOMAIN s /\ y + 1 \in DOMAIN s /\ s[x + 1] = s[y + 1]
      BY <1>1
    <2> QED BY <2>1 DEF IsInjective
  <1>3. ASSUME NEW x \in ToSet(t) PROVE x \in ToSet(s) \ {s[1]}
    <2>1. PICK j \in 1 .. Len(t) : t[j] = x
      BY <1>1, <1>3 DEF ToSet
    <2>2. j + 1 \in 1 .. Len(s) /\ s[j + 1] = x /\ j + 1 # 1
      BY <1>1, <2>1
    <2> QED BY <2>2, <1>1 DEF ToSet, IsInjective
  <1>4. ASSUME NEW x \in ToSet(s), x # s[1] PROVE x \in ToSet(t)
    <2>1. PICK j \in 2 .. Len(s) : s[j] = x
      BY <1>1, <1>4 DEF ToSet
    <2>2. j - 1 \in 1 .. Len(t) /\ t[j - 1] = x
      BY <1>1, <2>1
    <2> QED BY <2>2, <1>1 DEF ToSet
  <1>5. s[1] \in ToSet(s)
    BY <1>1 DEF ToSet
  <1> QED BY <1>1, <1>2, <1>3, <1>4, <1>5 DEF t
-----------------------------------------------------------------------------
(* The jobs of a lock: an operation is in the queue of its own key, once.  *)
In(o, q) == \E i \in DOMAIN q : q[i] = o
OwnJobs(q, k) == \A i \in DOMAIN q : q[i] \in Ops => KeyOf[q[i]] = k
NoneTwice(q) == \A i, j \in DOMAIN q : q[i] \in Ops /\ q[i] = q[j] => i = j

TypeInv == TypeOK /\ \A k \in Keys : OwnJobs(lock[k], k) /\ NoneTwice(lock[k])

LEMMA Appended ==
    ASSUME NEW q \in Seq(Jobs), NEW job \in Jobs
    PROVE  /\ Append(q, job) \in Seq(Jobs)
           /\ Len(q) \in Nat /\ DOMAIN q = 1 .. Len(q)
           /\ DOMAIN Append(q, job) = 1 .. Len(q) + 1
           /\ \A i \in DOMAIN q : Append(q, job)[i] = q[i]
           /\ Append(q, job)[Len(q) + 1] = job
  BY AppendProperties

LEMMA Released ==
    ASSUME NEW q \in Seq(Jobs), q # <<>>
    PROVE  /\ Tail(q) \in Seq(Jobs)
           /\ Len(q) \in Nat \ {0} /\ DOMAIN q = 1 .. Len(q)
           /\ Head(q) = q[1]
           /\ DOMAIN Tail(q) = 1 .. Len(q) - 1
           /\ \A i \in DOMAIN Tail(q) : i + 1 \in DOMAIN q /\ Tail(q)[i] = q[i + 1]
           /\ \A i \in DOMAIN q : i > 1 => i - 1 \in DOMAIN Tail(q) /\ Tail(q)[i - 1] = q[i]
  <1>1. /\ Tail(q) \in Seq(Jobs) /\ Len(q) \in Nat \ {0} /\ DOMAIN q = 1 .. Len(q) /\ Head(q) = q[1]
        /\ Len(Tail(q)) = Len(q) - 1 /\ DOMAIN Tail(q) = 1 .. Len(Tail(q))
        /\ \A i \in 1 .. Len(Tail(q)) : Tail(q)[i] = q[i + 1]
    BY HeadTailProperties
  <1>2. ASSUME NEW i \in DOMAIN q, i > 1
        PROVE  i - 1 \in DOMAIN Tail(q) /\ Tail(q)[i - 1] = q[i]
    <2>1. i - 1 \in 1 .. Len(Tail(q)) /\ (i - 1) + 1 = i
      BY <1>1, <1>2
    <2> QED BY <2>1, <1>1
  <1> QED BY <1>1, <1>2

(* What appending a job, and releasing the lock, does to the queue.        *)
LEMMA AppendJob ==
    ASSUME NEW q \in Seq(Jobs), NEW job \in Jobs, NEW k,
           OwnJobs(q, k), NoneTwice(q), job \in Ops => KeyOf[job] = k /\ ~In(job, q)
    PROVE  /\ Append(q, job) \in Seq(Jobs)
           /\ OwnJobs(Append(q, job), k) /\ NoneTwice(Append(q, job))
           /\ \A o : In(o, Append(q, job)) <=> In(o, q) \/ o = job
  <1> DEFINE r == Append(q, job)
  <1>1. /\ r \in Seq(Jobs)
        /\ Len(q) \in Nat /\ DOMAIN q = 1 .. Len(q)
        /\ DOMAIN r = 1 .. Len(q) + 1
        /\ \A i \in DOMAIN q : r[i] = q[i]
        /\ r[Len(q) + 1] = job
    BY Appended
  <1> HIDE DEF r
  <1>2. \A i \in DOMAIN r : i \in DOMAIN q \/ i = Len(q) + 1
    BY <1>1
  <1>3. OwnJobs(r, k)
    BY <1>1, <1>2 DEF OwnJobs
  <1>4. NoneTwice(r)
    BY <1>1, <1>2 DEF NoneTwice, In
  <1>5. \A o : In(o, r) <=> In(o, q) \/ o = job
    BY <1>1, <1>2 DEF In
  <1> QED BY <1>1, <1>3, <1>4, <1>5 DEF r

LEMMA ReleaseJob ==
    ASSUME NEW q \in Seq(Jobs), q # <<>>, NEW k, OwnJobs(q, k), NoneTwice(q)
    PROVE  /\ Head(q) \in Jobs /\ In(Head(q), q)
           /\ Head(q) \in Ops => KeyOf[Head(q)] = k
           /\ Tail(q) \in Seq(Jobs)
           /\ OwnJobs(Tail(q), k) /\ NoneTwice(Tail(q))
           /\ \A o \in Ops : In(o, Tail(q)) <=> In(o, q) /\ o # Head(q)
  <1> DEFINE r == Tail(q)
  <1>1. /\ r \in Seq(Jobs)
        /\ Len(q) \in Nat \ {0} /\ DOMAIN q = 1 .. Len(q)
        /\ Head(q) = q[1]
        /\ DOMAIN r = 1 .. Len(q) - 1
        /\ \A i \in DOMAIN r : i + 1 \in DOMAIN q /\ r[i] = q[i + 1]
        /\ \A i \in DOMAIN q : i > 1 => i - 1 \in DOMAIN r /\ r[i - 1] = q[i]
    BY Released
  <1> HIDE DEF r
  <1>2. 1 \in DOMAIN q /\ Head(q) \in Jobs
    BY <1>1
  <1>3. OwnJobs(r, k)
    BY <1>1 DEF OwnJobs
  <1>4. NoneTwice(r)
    <2> SUFFICES ASSUME NEW i \in DOMAIN r, NEW j \in DOMAIN r, r[i] \in Ops, r[i] = r[j]
                 PROVE  i = j
      BY DEF NoneTwice
    <2>1. i + 1 = j + 1
      BY <1>1 DEF NoneTwice
    <2> QED BY <2>1, <1>1
  <1>5. ASSUME NEW o \in Ops PROVE In(o, r) <=> In(o, q) /\ o # Head(q)
    <2>1. ASSUME In(o, r) PROVE In(o, q) /\ o # Head(q)
      <3>1. PICK i \in DOMAIN r : r[i] = o
        BY <2>1 DEF In
      <3>2. i + 1 \in DOMAIN q /\ q[i + 1] = o /\ i + 1 # 1
        BY <3>1, <1>1
      <3> QED BY <3>2, <1>1, <1>2 DEF In, NoneTwice
    <2>2. ASSUME In(o, q), o # Head(q) PROVE In(o, r)
      <3>1. PICK i \in DOMAIN q : q[i] = o
        BY <2>2 DEF In
      <3>2. i > 1
        BY <3>1, <2>2, <1>1
      <3> QED BY <3>1, <3>2, <1>1 DEF In
    <2> QED BY <2>1, <2>2
  <1>6. In(Head(q), q) /\ (Head(q) \in Ops => KeyOf[Head(q)] = k)
    BY <1>1, <1>2 DEF In, OwnJobs
  <1> QED BY <1>1, <1>2, <1>3, <1>4, <1>5, <1>6 DEF r

(* What set makes of the index.                                            *)
SetOrder(k) == IF Dropped(k) = NoKey THEN Grown(k) ELSE Tail(Grown(k))

LEMMA SetIndex ==
    ASSUME TypeOK, NEW k \in Keys
    PROVE  /\ SetOrder(k) \in Seq(Keys) /\ IsInjective(SetOrder(k)) /\ Len(SetOrder(k)) <= Capacity
           /\ Dropped(k) \in Keys \cup {NoKey} /\ Dropped(k) # k
           /\ ToSet(SetOrder(k)) = (Indexed \cup {k}) \ {Dropped(k)}
  <1> DEFINE r == RemoveFirst(order, k)
             s == Append(r, k)
  <1>1. order \in Seq(Keys) /\ IsInjective(order) /\ Len(order) \in Nat /\ Len(order) <= Capacity
    BY DEF TypeOK
  <1>2. /\ r \in Seq(Keys) /\ IsInjective(r) /\ ToSet(r) = Indexed \ {k}
        /\ Len(r) <= Len(order)
    BY <1>1, RemoveKey DEF Indexed
  <1>3. s = Grown(k)
    BY DEF Grown
  <1> HIDE DEF r
  <1>4. /\ s \in Seq(Keys) /\ IsInjective(s) /\ ToSet(s) = Indexed \cup {k}
        /\ Len(s) = Len(r) + 1 /\ Len(r) \in Nat /\ s # <<>>
        /\ s[Len(s)] = k
    BY <1>2, AppendKey, AppendProperties
  <1> HIDE DEF s
  <1>5. Capacity \in Nat \ {0} /\ NoKey \notin Keys
    BY DiskAssumption
  <1>6. /\ Tail(s) \in Seq(Keys) /\ IsInjective(Tail(s)) /\ ToSet(Tail(s)) = ToSet(s) \ {Head(s)}
        /\ Len(Tail(s)) = Len(s) - 1 /\ Head(s) \in ToSet(s)
    BY <1>4, DropOldest
  <1>7. CASE Len(s) > Capacity
    <2>1. Dropped(k) = Head(s) /\ Head(s) \in Keys
      BY <1>3, <1>4, <1>7, HeadTailProperties DEF Dropped
    <2>2. SetOrder(k) = Tail(s)
      BY <2>1, <1>3, <1>5 DEF SetOrder
    <2>3. Head(s) # k
      <3>1. Len(s) \in DOMAIN s /\ 1 \in DOMAIN s /\ Len(s) # 1 /\ Head(s) = s[1]
        BY <1>4, <1>5, <1>7
      <3> QED BY <3>1, <1>4 DEF IsInjective
    <2> QED BY <2>1, <2>2, <2>3, <1>1, <1>2, <1>4, <1>5, <1>6
  <1>8. CASE ~(Len(s) > Capacity)
    <2>1. Dropped(k) = NoKey
      BY <1>3, <1>8 DEF Dropped
    <2>2. SetOrder(k) = s
      BY <2>1, <1>3 DEF SetOrder
    <2>3. Indexed \subseteq Keys
      BY <1>1 DEF Indexed, ToSet
    <2> QED BY <2>1, <2>2, <2>3, <1>4, <1>5, <1>8
  <1> QED BY <1>7, <1>8

-----------------------------------------------------------------------------
(* The state has its type, and every lock its own jobs once.               *)
LEMMA JobQueued ==
    ASSUME TypeInv, NEW k \in Keys, NEW job \in Jobs, Queue(k, job),
           job \in Ops => KeyOf[job] = k /\ pc[job] # "locked"
    PROVE  /\ lock' \in [Keys -> Seq(Jobs)]
           /\ \A h \in Keys : OwnJobs(lock'[h], h) /\ NoneTwice(lock'[h])
           /\ \A h \in Keys, o \in Jobs : In(o, lock'[h]) <=> In(o, lock[h]) \/ (h = k /\ o = job)
  <1>1. /\ lock[k] \in Seq(Jobs) /\ lock \in [Keys -> Seq(Jobs)]
        /\ \A h \in Keys : OwnJobs(lock[h], h) /\ NoneTwice(lock[h])
        /\ job \in Ops => ~In(job, lock[k])
    BY DEF TypeInv, TypeOK, In
  <1>2. /\ Append(lock[k], job) \in Seq(Jobs)
        /\ OwnJobs(Append(lock[k], job), k) /\ NoneTwice(Append(lock[k], job))
        /\ \A o : In(o, Append(lock[k], job)) <=> In(o, lock[k]) \/ o = job
    BY <1>1, AppendJob
  <1>3. /\ lock' \in [Keys -> Seq(Jobs)]
        /\ lock'[k] = Append(lock[k], job)
        /\ \A h \in Keys : h # k => lock'[h] = lock[h]
    BY <1>1, <1>2 DEF Queue
  <1> QED BY <1>1, <1>2, <1>3

LEMMA JobReleased ==
    ASSUME TypeInv, NEW k \in Keys, lock[k] # <<>>, Release(k)
    PROVE  /\ Job(k) \in Jobs
           /\ Job(k) \in Ops => KeyOf[Job(k)] = k /\ pc[Job(k)] = "locked"
           /\ lock' \in [Keys -> Seq(Jobs)]
           /\ \A h \in Keys : OwnJobs(lock'[h], h) /\ NoneTwice(lock'[h])
           /\ lock'[k] = Tail(lock[k])
           /\ \A h \in Keys : h # k => lock'[h] = lock[h]
           /\ \A o \in Ops : In(o, lock'[KeyOf[o]]) <=> In(o, lock[KeyOf[o]]) /\ o # Job(k)
  <1>1. /\ lock[k] \in Seq(Jobs) /\ lock \in [Keys -> Seq(Jobs)]
        /\ \A h \in Keys : OwnJobs(lock[h], h) /\ NoneTwice(lock[h])
        /\ \A o \in Ops : pc[o] = "locked" <=> In(o, lock[KeyOf[o]])
        /\ \A o \in Ops : KeyOf[o] \in Keys
    BY DiskAssumption DEF TypeInv, TypeOK, In
  <1>2. /\ Job(k) \in Jobs /\ In(Job(k), lock[k])
        /\ Job(k) \in Ops => KeyOf[Job(k)] = k
        /\ Tail(lock[k]) \in Seq(Jobs)
        /\ OwnJobs(Tail(lock[k]), k) /\ NoneTwice(Tail(lock[k]))
        /\ \A o \in Ops : In(o, Tail(lock[k])) <=> In(o, lock[k]) /\ o # Job(k)
    BY <1>1, ReleaseJob DEF Job
  <1>3. /\ lock' \in [Keys -> Seq(Jobs)]
        /\ lock'[k] = Tail(lock[k])
        /\ \A h \in Keys : h # k => lock'[h] = lock[h]
    BY <1>1, <1>2 DEF Release
  <1>4. Job(k) \in Ops => pc[Job(k)] = "locked"
    BY <1>1, <1>2
  <1>5. ASSUME NEW o \in Ops PROVE In(o, lock'[KeyOf[o]]) <=> In(o, lock[KeyOf[o]]) /\ o # Job(k)
    <2>1. CASE KeyOf[o] = k
      BY <2>1, <1>2, <1>3
    <2>2. CASE KeyOf[o] # k
      BY <2>2, <1>1, <1>2, <1>3
    <2> QED BY <2>1, <2>2
  <1> QED BY <1>1, <1>2, <1>3, <1>4, <1>5

(* What a release leaves to be shown of the types.                         *)
LEMMA TypeReleased ==
    ASSUME TypeInv, NEW k \in Keys, lock[k] # <<>>, Release(k),
           pc' = IF Job(k) \in Ops THEN [pc EXCEPT ![Job(k)] = IF Job(k) \in Gets THEN "read" ELSE "done"] ELSE pc,
           value' \in [Ops -> Sets \cup {NoFile, Undefined}],
           file' \in [Keys -> Sets \cup {NoFile}],
           unremoved' \subseteq Keys,
           UNCHANGED <<order, death, expiry, keyToBeDeleted, timeOfDeath, now, restarts, before>>
    PROVE  TypeInv'
  <1>1. /\ Job(k) \in Ops => KeyOf[Job(k)] = k /\ pc[Job(k)] = "locked"
        /\ lock' \in [Keys -> Seq(Jobs)]
        /\ \A h \in Keys : OwnJobs(lock'[h], h) /\ NoneTwice(lock'[h])
        /\ \A o \in Ops : In(o, lock'[KeyOf[o]]) <=> In(o, lock[KeyOf[o]]) /\ o # Job(k)
    BY JobReleased
  <1>2. pc' \in [Ops -> {"idle", "yielded", "locked", "read", "done"}]
    BY DEF TypeInv, TypeOK
  <1>3. ASSUME NEW o \in Ops PROVE pc'[o] = "locked" <=> In(o, lock'[KeyOf[o]])
    <2>1. pc[o] = "locked" <=> In(o, lock[KeyOf[o]])
      BY DEF TypeInv, TypeOK, In
    <2>2. o = Job(k) => pc'[o] # "locked"
      BY DEF TypeInv, TypeOK
    <2>3. o # Job(k) => pc'[o] = pc[o]
      BY DEF TypeInv, TypeOK
    <2> QED BY <1>1, <2>1, <2>2, <2>3
  <1>4. \A o \in Ops : pc'[o] = "locked" <=> \E i \in DOMAIN lock'[KeyOf[o]] : lock'[KeyOf[o]][i] = o
    BY <1>3 DEF In
  <1> QED BY <1>1, <1>2, <1>4 DEF TypeInv, TypeOK

(* A step that keeps the locks, or queues one job.                         *)
LockStep(o) ==
    \/ UNCHANGED lock /\ pc'[o] # "locked"
    \/ \E k \in Keys : Queue(k, Removal) /\ pc'[o] # "locked"
    \/ Queue(KeyOf[o], o) /\ pc'[o] = "locked"

LEMMA TypeQueued ==
    ASSUME TypeInv, NEW o \in Ops, pc[o] # "locked", LockStep(o),
           pc' \in [Ops -> {"idle", "yielded", "locked", "read", "done"}],
           \A p \in Ops : p # o => pc'[p] = pc[p]
    PROVE  /\ lock' \in [Keys -> Seq(Jobs)]
           /\ \A h \in Keys : OwnJobs(lock'[h], h) /\ NoneTwice(lock'[h])
           /\ \A p \in Ops : pc'[p] = "locked" <=> \E i \in DOMAIN lock'[KeyOf[p]] : lock'[KeyOf[p]][i] = p
  <1>1. /\ \A p \in Ops : pc[p] = "locked" <=> In(p, lock[KeyOf[p]])
        /\ \A p \in Ops : KeyOf[p] \in Keys
        /\ Removal \in Jobs /\ Removal \notin Ops /\ Ops \subseteq Jobs
    BY DiskAssumption DEF TypeInv, TypeOK, In, Jobs
  <1> SUFFICES /\ lock' \in [Keys -> Seq(Jobs)]
               /\ \A h \in Keys : OwnJobs(lock'[h], h) /\ NoneTwice(lock'[h])
               /\ \A p \in Ops : pc'[p] = "locked" <=> In(p, lock'[KeyOf[p]])
    BY DEF In
  <1>2. CASE UNCHANGED lock /\ pc'[o] # "locked"
    BY <1>1, <1>2 DEF TypeInv, TypeOK
  <1>3. ASSUME NEW k \in Keys, Queue(k, Removal), pc'[o] # "locked"
        PROVE  /\ lock' \in [Keys -> Seq(Jobs)]
               /\ \A h \in Keys : OwnJobs(lock'[h], h) /\ NoneTwice(lock'[h])
               /\ \A p \in Ops : pc'[p] = "locked" <=> In(p, lock'[KeyOf[p]])
    <2>1. /\ lock' \in [Keys -> Seq(Jobs)]
          /\ \A h \in Keys : OwnJobs(lock'[h], h) /\ NoneTwice(lock'[h])
          /\ \A h \in Keys, p \in Jobs : In(p, lock'[h]) <=> In(p, lock[h]) \/ (h = k /\ p = Removal)
      BY <1>1, <1>3, JobQueued
    <2> QED BY <2>1, <1>1, <1>3
  <1>4. CASE Queue(KeyOf[o], o) /\ pc'[o] = "locked"
    <2>1. /\ lock' \in [Keys -> Seq(Jobs)]
          /\ \A h \in Keys : OwnJobs(lock'[h], h) /\ NoneTwice(lock'[h])
          /\ \A h \in Keys, p \in Jobs : In(p, lock'[h]) <=> In(p, lock[h]) \/ (h = KeyOf[o] /\ p = o)
      BY <1>1, <1>4, JobQueued
    <2> QED BY <2>1, <1>1, <1>4
  <1> QED BY <1>2, <1>3, <1>4 DEF LockStep

LEMMA InitType == Init => TypeInv
  <1> SUFFICES ASSUME Init PROVE TypeInv
    OBVIOUS
  <1>1. <<>> \in Seq(Keys) /\ <<>> \in Seq(Jobs) /\ Len(<<>>) = 0 /\ DOMAIN <<>> = {}
    BY EmptySeq
  <1>2. \A k \in Keys : OwnJobs(lock[k], k) /\ NoneTwice(lock[k])
    BY <1>1 DEF Init, OwnJobs, NoneTwice
  <1>3. order \in Seq(Keys) /\ IsInjective(order) /\ Len(order) <= Capacity
    BY <1>1, DiskAssumption DEF Init, IsInjective
  <1>4. \A o \in Ops : pc[o] = "locked" <=> \E i \in DOMAIN lock[KeyOf[o]] : lock[KeyOf[o]][i] = o
    BY <1>1, DiskAssumption DEF Init
  <1> QED BY <1>1, <1>2, <1>3, <1>4, DiskAssumption DEF Init, TypeInv, TypeOK, Never

LEMMA NextType == TypeInv /\ [Next]_vars => TypeInv'
  <1> SUFFICES ASSUME TypeInv, [Next]_vars PROVE TypeInv'
    OBVIOUS
  <1>0. /\ order \in Seq(Keys) /\ IsInjective(order) /\ Len(order) \in Nat /\ Len(order) <= Capacity
        /\ \A o \in Ops : KeyOf[o] \in Keys
        /\ Gets \subseteq Ops /\ Sets \subseteq Ops /\ Gets \cap Sets = {}
        /\ Capacity \in Nat /\ MaxTime \in Nat /\ MaxFaults \in Nat
    BY DiskAssumption DEF TypeInv, TypeOK, Ops
  <1>1. ASSUME NEW k \in Keys
        PROVE  /\ RemoveFirst(order, k) \in Seq(Keys) /\ IsInjective(RemoveFirst(order, k))
               /\ Len(RemoveFirst(order, k)) <= Capacity
    BY <1>0, RemoveKey
  <1>2. ASSUME NEW g \in Gets, GetMisses(g)
        PROVE  TypeInv'
    <2>1. LockStep(g)
      BY <1>0, <1>2 DEF GetMisses, DeleteFile, LockStep, TypeInv, TypeOK
    <2>2. /\ lock' \in [Keys -> Seq(Jobs)]
          /\ \A h \in Keys : OwnJobs(lock'[h], h) /\ NoneTwice(lock'[h])
          /\ \A p \in Ops : pc'[p] = "locked" <=> \E i \in DOMAIN lock'[KeyOf[p]] : lock'[KeyOf[p]][i] = p
      BY <1>0, <1>2, <2>1, TypeQueued DEF GetMisses, Begin, TypeInv, TypeOK
    <2>3. order' \in Seq(Keys) /\ IsInjective(order') /\ Len(order') <= Capacity
      BY <1>0, <1>1, <1>2 DEF GetMisses
    <2> QED BY <1>0, <1>2, <2>2, <2>3 DEF GetMisses, Begin, DeleteFile, Over, TypeInv, TypeOK
  <1>3. ASSUME NEW g \in Gets, GetFinds(g)
        PROVE  TypeInv'
    <2>1. LockStep(g)
      BY <1>0, <1>3 DEF GetFinds, LockStep, TypeInv, TypeOK
    <2>2. /\ lock' \in [Keys -> Seq(Jobs)]
          /\ \A h \in Keys : OwnJobs(lock'[h], h) /\ NoneTwice(lock'[h])
          /\ \A p \in Ops : pc'[p] = "locked" <=> \E i \in DOMAIN lock'[KeyOf[p]] : lock'[KeyOf[p]][i] = p
      BY <1>0, <1>3, <2>1, TypeQueued DEF GetFinds, Begin, TypeInv, TypeOK
    <2>3. order' \in Seq(Keys) /\ IsInjective(order') /\ Len(order') <= Capacity
      <3> DEFINE k == KeyOf[g]
                 r == RemoveFirst(order, k)
      <3>1. /\ r \in Seq(Keys) /\ IsInjective(r) /\ k \notin ToSet(r) /\ Len(r) \in Nat
            /\ Len(r) = Len(order) - 1 /\ k \in Keys
        BY <1>0, <1>3, RemoveKey DEF GetFinds, Indexed
      <3>2. order' = IF Expired(k) THEN r ELSE Append(r, k)
        BY <1>3 DEF GetFinds
      <3> HIDE DEF r, k
      <3>3. Append(r, k) \in Seq(Keys) /\ IsInjective(Append(r, k)) /\ Len(Append(r, k)) = Len(r) + 1
        BY <3>1, AppendKey
      <3> QED BY <3>1, <3>2, <3>3, <1>0
    <2> QED BY <1>0, <1>3, <2>2, <2>3 DEF GetFinds, Begin, Over, TypeInv, TypeOK
  <1>4. ASSUME NEW g \in Gets, GetReturns(g)
        PROVE  TypeInv'
    <2>1. LockStep(g)
      BY <1>0, <1>4 DEF GetReturns, DeleteFile, LockStep, TypeInv, TypeOK
    <2>2. /\ lock' \in [Keys -> Seq(Jobs)]
          /\ \A h \in Keys : OwnJobs(lock'[h], h) /\ NoneTwice(lock'[h])
          /\ \A p \in Ops : pc'[p] = "locked" <=> \E i \in DOMAIN lock'[KeyOf[p]] : lock'[KeyOf[p]][i] = p
      BY <1>0, <1>4, <2>1, TypeQueued DEF GetReturns, TypeInv, TypeOK
    <2>3. order' \in Seq(Keys) /\ IsInjective(order') /\ Len(order') <= Capacity
      BY <1>0, <1>1, <1>4 DEF GetReturns
    <2> QED BY <1>0, <1>4, <2>2, <2>3 DEF GetReturns, DeleteFile, history, TypeInv, TypeOK
  <1>5. ASSUME NEW s \in Sets, SetStarts(s)
        PROVE  TypeInv'
    <2> DEFINE k == KeyOf[s]
               dropped == Dropped(k)
               pending == IF dropped # NoKey THEN dropped ELSE keyToBeDeleted
    <2>1. /\ k \in Keys /\ dropped \in Keys \cup {NoKey} /\ pending \in Keys \cup {NoKey}
          /\ order' \in Seq(Keys) /\ IsInjective(order') /\ Len(order') <= Capacity
      BY <1>0, <1>5, SetIndex DEF SetStarts, SetOrder, TypeInv, TypeOK
    <2>2. /\ Begin(s)
          /\ death' = [death EXCEPT ![k] = IF MaxAgeOf[s] > 0 THEN now + MaxAgeOf[s] ELSE Never]
          /\ expiry' = [expiry EXCEPT ![k] = IF Age(s) > 0 THEN now + Age(s) ELSE Never]
          /\ \/ Queue(pending, Removal) /\ pending \in Keys /\ keyToBeDeleted' = NoKey /\ pc' = [pc EXCEPT ![s] = "yielded"]
             \/ Queue(k, s) /\ keyToBeDeleted' = pending /\ pc' = [pc EXCEPT ![s] = "locked"]
          /\ UNCHANGED <<file, timeOfDeath, value, now>>
      BY <1>5, <2>1 DEF SetStarts, DeleteFile
    <2> HIDE DEF k, dropped, pending
    <2>3. LockStep(s) /\ pc[s] = "idle" /\ pc' \in [Ops -> {"idle", "yielded", "locked", "read", "done"}]
          /\ \A p \in Ops : p # s => pc'[p] = pc[p]
      BY <1>0, <2>1, <2>2 DEF k, LockStep, Begin, TypeInv, TypeOK
    <2>4. /\ lock' \in [Keys -> Seq(Jobs)]
          /\ \A h \in Keys : OwnJobs(lock'[h], h) /\ NoneTwice(lock'[h])
          /\ \A p \in Ops : pc'[p] = "locked" <=> \E i \in DOMAIN lock'[KeyOf[p]] : lock'[KeyOf[p]][i] = p
      BY <1>0, <2>3, TypeQueued
    <2>5. death' \in [Keys -> Int] /\ expiry' \in [Keys -> Int]
      <3>1. MaxAgeOf[s] \in Int /\ Age(s) \in Int /\ Never \in Int /\ now \in Int
        BY <1>0, DiskAssumption DEF Age, Never, TypeInv, TypeOK
      <3>2. /\ (IF MaxAgeOf[s] > 0 THEN now + MaxAgeOf[s] ELSE Never) \in Int
            /\ (IF Age(s) > 0 THEN now + Age(s) ELSE Never) \in Int
        BY <3>1
      <3>3. death \in [Keys -> Int] /\ expiry \in [Keys -> Int]
        BY DEF TypeInv, TypeOK
      <3> QED BY <2>2, <3>2, <3>3
    <2>6. keyToBeDeleted' \in Keys \cup {NoKey} /\ before' \in [Ops -> SUBSET Ops] /\ restarts' = restarts /\ unremoved' = unremoved
      BY <1>0, <2>1, <2>2 DEF Begin, Over, TypeInv, TypeOK
    <2> QED BY <2>1, <2>2, <2>3, <2>4, <2>5, <2>6 DEF TypeInv, TypeOK
  <1>6. ASSUME NEW s \in Sets, SetResumes(s)
        PROVE  TypeInv'
    <2>1. LockStep(s)
      BY <1>0, <1>6 DEF SetResumes, LockStep, TypeInv, TypeOK
    <2>2. /\ lock' \in [Keys -> Seq(Jobs)]
          /\ \A h \in Keys : OwnJobs(lock'[h], h) /\ NoneTwice(lock'[h])
          /\ \A p \in Ops : pc'[p] = "locked" <=> \E i \in DOMAIN lock'[KeyOf[p]] : lock'[KeyOf[p]][i] = p
      BY <1>0, <1>6, <2>1, TypeQueued DEF SetResumes, TypeInv, TypeOK
    <2> QED BY <1>0, <1>6, <2>2 DEF SetResumes, index, history, TypeInv, TypeOK
  <1>7. ASSUME NEW k \in Keys, Disk(k)
        PROVE  TypeInv'
    <2>1. lock[k] # <<>> /\ Release(k)
      BY <1>7 DEF Disk, ReadFile, WriteFile, WriteFails, RemoveFile, RemoveFails
    <2>2. UNCHANGED <<order, death, expiry, keyToBeDeleted, timeOfDeath, now, restarts, before>>
      BY <1>7 DEF Disk, ReadFile, WriteFile, WriteFails, RemoveFile, RemoveFails, index, history
    <2>3. pc' = IF Job(k) \in Ops THEN [pc EXCEPT ![Job(k)] = IF Job(k) \in Gets THEN "read" ELSE "done"] ELSE pc
      BY <1>7, <1>0, DiskAssumption DEF Disk, ReadFile, WriteFile, WriteFails, RemoveFile, RemoveFails
    <2>4. /\ value' \in [Ops -> Sets \cup {NoFile, Undefined}]
          /\ file' \in [Keys -> Sets \cup {NoFile}] /\ unremoved' \subseteq Keys
      <3>1. /\ value \in [Ops -> Sets \cup {NoFile, Undefined}]
            /\ file \in [Keys -> Sets \cup {NoFile}] /\ unremoved \subseteq Keys
        BY DEF TypeInv, TypeOK
      <3>2. CASE ReadFile(k)
        BY <3>1, <3>2 DEF ReadFile, history
      <3>3. CASE WriteFile(k)
        BY <3>1, <3>3 DEF WriteFile, history
      <3>4. CASE WriteFails(k)
        BY <3>1, <3>4 DEF WriteFails, history
      <3>5. CASE RemoveFile(k) \/ RemoveFails(k)
        BY <3>1, <3>5 DEF RemoveFile, RemoveFails, history
      <3> QED BY <3>2, <3>3, <3>4, <3>5, <1>7 DEF Disk
    <2> QED BY <2>1, <2>2, <2>3, <2>4, TypeReleased
  <1>8. CASE Restart
    <2>1. <<>> \in Seq(Keys) /\ <<>> \in Seq(Jobs) /\ Len(<<>>) = 0 /\ DOMAIN <<>> = {}
      BY EmptySeq
    <2>2. \A k \in Keys : OwnJobs(lock'[k], k) /\ NoneTwice(lock'[k])
      BY <1>8, <2>1 DEF Restart, OwnJobs, NoneTwice
    <2>3. order' \in Seq(Keys) /\ IsInjective(order') /\ Len(order') <= Capacity
      BY <1>0, <1>8, <2>1 DEF Restart, IsInjective
    <2>4. \A o \in Ops : pc'[o] = "locked" <=> \E i \in DOMAIN lock'[KeyOf[o]] : lock'[KeyOf[o]][i] = o
      BY <1>0, <1>8, <2>1 DEF Restart
    <2>5. restarts' \in 0 .. MaxFaults
      <3>1. Cardinality(unremoved) \in Nat
        BY DiskAssumption, FS_Subset, FS_CardinalityType DEF TypeInv, TypeOK
      <3> QED BY <1>0, <1>8, <3>1 DEF Restart, Faults, TypeInv, TypeOK
    <2> QED BY <1>0, <1>8, <2>1, <2>2, <2>3, <2>4, <2>5 DEF Restart, history, TypeInv, TypeOK
  <1>9. CASE Tick
    BY <1>0, <1>9 DEF Tick, index, history, TypeInv, TypeOK
  <1>10. CASE UNCHANGED vars
    BY <1>10 DEF vars, TypeInv, TypeOK
  <1> QED BY <1>2, <1>3, <1>4, <1>5, <1>6, <1>7, <1>8, <1>9, <1>10 DEF Next

(* The type invariant.                                                     *)
THEOREM TypeCorrect == Spec => []TypeOK
  <1>1. TypeInv => TypeOK
    BY DEF TypeInv
  <1> QED BY InitType, NextType, <1>1, PTL DEF Spec

-----------------------------------------------------------------------------
(* What began before what: an operation comes after those that were over   *)
(* when it began, and a file holds a value no later set has replaced.      *)
Written(s) == value[s] = s
HistoryInv ==
    /\ \A o \in Ops : before[o] \subseteq Over
    /\ \A s \in Sets : Written(s) => pc[s] = "done"
    /\ \A g \in Gets : value[g] \in Sets => pc[g] \in {"read", "done"}

Current(v, k) ==
    /\ v \in Sets /\ KeyOf[v] = k
    /\ \A s \in Sets : KeyOf[s] = k /\ Written(s) => v \notin before[s]
FilesCurrent == \A k \in Keys : file[k] = NoFile \/ Current(file[k], k)

ReadInv == HistoryInv /\ FilesCurrent /\ ReadsLast

(* A step that begins an operation: what has been written and read stays.  *)
LEMMA ReadBegins ==
    ASSUME TypeInv, ReadInv, NEW o \in Ops, Begin(o), UNCHANGED <<value, file>>,
           NEW phase, phase # "idle", pc' = [pc EXCEPT ![o] = phase]
    PROVE  ReadInv'
  <1>1. /\ pc \in [Ops -> {"idle", "yielded", "locked", "read", "done"}]
        /\ before \in [Ops -> SUBSET Ops] /\ Gets \subseteq Ops /\ Sets \subseteq Ops
        /\ pc[o] = "idle" /\ before' = [before EXCEPT ![o] = Over]
    BY DEF Begin, TypeInv, TypeOK, Ops
  <1>2. /\ \A p \in Ops : pc[p] = "done" => pc'[p] = "done"
        /\ \A p \in Ops : pc[p] \in {"read", "done"} => pc'[p] = pc[p]
    BY <1>1
  <1>3. HistoryInv'
    <2>1. ASSUME NEW p \in Ops PROVE before'[p] \subseteq Over'
      BY <1>1, <1>2 DEF ReadInv, HistoryInv, Over
    <2> QED BY <1>1, <1>2, <2>1 DEF ReadInv, HistoryInv, Written
  <1>4. ~Written(o) \/ o \notin Sets
    BY <1>1 DEF ReadInv, HistoryInv
  <1>5. \A p \in Ops : p # o => before'[p] = before[p]
    BY <1>1
  <1>6. FilesCurrent'
    BY <1>1, <1>4, <1>5 DEF ReadInv, FilesCurrent, Current, Written
  <1>7. ReadsLast'
    <2> SUFFICES ASSUME NEW g \in Gets, value[g] \in Sets
                 PROVE  /\ KeyOf[value[g]] = KeyOf[g]
                        /\ ~\E s \in before'[g] \cap Sets : KeyOf[s] = KeyOf[g] /\ value[s] = s /\ value[g] \in before'[s]
      BY DEF ReadsLast
    <2>1. g # o
      BY <1>1 DEF ReadInv, HistoryInv
    <2> QED BY <2>1, <1>1, <1>4, <1>5 DEF ReadInv, ReadsLast, Written
  <1> QED BY <1>3, <1>6, <1>7 DEF ReadInv

(* A step that goes on: nothing is read or written by it.                  *)
LEMMA ReadGoesOn ==
    ASSUME ReadInv, UNCHANGED <<value, file, before>>,
           \A o \in Ops : pc[o] = "done" => pc'[o] = "done",
           \A o \in Ops : pc[o] \in {"read", "done"} => pc'[o] \in {"read", "done"}
    PROVE  ReadInv'
  <1>1. HistoryInv'
    BY DEF ReadInv, HistoryInv, Written, Over, Ops
  <1>2. FilesCurrent'
    BY DEF ReadInv, FilesCurrent, Current, Written
  <1>3. ReadsLast'
    BY DEF ReadInv, ReadsLast
  <1> QED BY <1>1, <1>2, <1>3 DEF ReadInv

(* Work on a file.                                                         *)
LEMMA ReadWorks ==
    ASSUME TypeInv, ReadInv, NEW k \in Keys, Disk(k)
    PROVE  ReadInv'
  <1>1. lock[k] # <<>> /\ Release(k) /\ UNCHANGED before
    BY DEF Disk, ReadFile, WriteFile, WriteFails, RemoveFile, RemoveFails, history
  <1>2. Job(k) \in Ops => KeyOf[Job(k)] = k /\ pc[Job(k)] = "locked"
    BY <1>1, JobReleased
  <1>3. /\ pc \in [Ops -> {"idle", "yielded", "locked", "read", "done"}]
        /\ value \in [Ops -> Sets \cup {NoFile, Undefined}]
        /\ file \in [Keys -> Sets \cup {NoFile}] /\ before \in [Ops -> SUBSET Ops]
        /\ Gets \subseteq Ops /\ Sets \subseteq Ops /\ Gets \cap Sets = {} /\ NoFile \notin Sets
    BY DiskAssumption DEF TypeInv, TypeOK, Ops
  <1>4. \A o \in Ops : pc[o] = "locked" => \A p \in Ops : o \notin before[p]
    BY DEF ReadInv, HistoryInv, Over
  <1>5. CASE ReadFile(k)
    <2> DEFINE g == Job(k)
    <2>1. PICK content \in {file[k], NoFile} : value' = [value EXCEPT ![g] = content]
      BY <1>5 DEF ReadFile
    <2>2. g \in Gets /\ KeyOf[g] = k /\ pc[g] = "locked" /\ pc' = [pc EXCEPT ![g] = "read"] /\ UNCHANGED <<file, before>>
      BY <1>2, <1>3, <1>5 DEF ReadFile, history
    <2> HIDE DEF g
    <2>3. /\ \A s \in Sets : value'[s] = value[s] /\ pc'[s] = pc[s]
          /\ \A h \in Gets : h # g => value'[h] = value[h] /\ pc'[h] = pc[h]
          /\ value'[g] = content /\ pc'[g] = "read"
      BY <1>3, <2>1, <2>2
    <2>4. HistoryInv'
      <3>1. Over' = Over
        BY <1>3, <2>2 DEF Over
      <3> QED BY <1>3, <2>2, <2>3, <3>1 DEF ReadInv, HistoryInv, Written
    <2>5. FilesCurrent'
      BY <1>3, <2>2, <2>3 DEF ReadInv, FilesCurrent, Current, Written
    <2>6. ReadsLast'
      <3> SUFFICES ASSUME NEW h \in Gets, value'[h] \in Sets
                   PROVE  /\ KeyOf[value'[h]] = KeyOf[h]
                          /\ ~\E s \in before[h] \cap Sets : KeyOf[s] = KeyOf[h] /\ value'[s] = s /\ value'[h] \in before[s]
        BY <2>2 DEF ReadsLast
      <3>1. CASE h = g
        <4>1. value'[h] = file[k] /\ Current(file[k], k)
          BY <1>3, <2>1, <2>3, <3>1 DEF ReadInv, FilesCurrent
        <4> QED BY <4>1, <2>2, <2>3, <3>1 DEF Current, Written
      <3>2. CASE h # g
        BY <2>3, <3>2 DEF ReadInv, ReadsLast
      <3> QED BY <3>1, <3>2
    <2> QED BY <2>4, <2>5, <2>6 DEF ReadInv
  <1>6. CASE WriteFile(k) \/ WriteFails(k)
    <2> DEFINE s == Job(k)
    <2>1. /\ s \in Sets /\ KeyOf[s] = k /\ pc[s] = "locked" /\ pc' = [pc EXCEPT ![s] = "done"] /\ UNCHANGED before
          /\ \/ file' = [file EXCEPT ![k] = s] /\ value' = [value EXCEPT ![s] = s]
             \/ file' = file /\ value' = [value EXCEPT ![s] = NoFile]
      BY <1>2, <1>3, <1>6 DEF WriteFile, WriteFails, history
    <2> HIDE DEF s
    <2>2. /\ \A p \in Ops : p # s => value'[p] = value[p] /\ pc'[p] = pc[p]
          /\ pc'[s] = "done" /\ s \notin Gets
          /\ \A p \in Ops : s \notin before[p]
      BY <1>3, <1>4, <2>1
    <2>3. HistoryInv'
      <3>1. Over \subseteq Over'
        BY <1>3, <2>1, <2>2 DEF Over
      <3> QED BY <1>3, <2>1, <2>2, <3>1 DEF ReadInv, HistoryInv, Written
    <2>4. FilesCurrent'
      <3> SUFFICES ASSUME NEW h \in Keys, file'[h] # NoFile
                   PROVE  /\ file'[h] \in Sets /\ KeyOf[file'[h]] = h
                          /\ \A r \in Sets : KeyOf[r] = h /\ value'[r] = r => file'[h] \notin before[r]
        BY <2>1 DEF FilesCurrent, Current, Written
      <3>1. CASE h = k /\ file' = [file EXCEPT ![k] = s]
        <4>1. file'[h] = s
          BY <1>3, <3>1
        <4> QED BY <4>1, <3>1, <1>3, <2>1, <2>2
      <3>2. CASE h # k \/ (file' = file /\ value' = [value EXCEPT ![s] = NoFile])
        <4>1. file'[h] = file[h] /\ Current(file[h], h)
          BY <1>3, <2>1, <3>2 DEF ReadInv, FilesCurrent
        <4>2. ASSUME NEW r \in Sets, KeyOf[r] = h, value'[r] = r
              PROVE  value[r] = r
          <5>1. r # s
            BY <4>2, <3>2, <2>1, <1>3
          <5> QED BY <5>1, <4>2, <2>2, <1>3
        <4> QED BY <4>1, <4>2 DEF Current, Written
      <3> QED BY <3>1, <3>2, <2>1
    <2>5. ReadsLast'
      <3> SUFFICES ASSUME NEW h \in Gets, value'[h] \in Sets
                   PROVE  /\ KeyOf[value'[h]] = KeyOf[h]
                          /\ ~\E r \in before[h] \cap Sets : KeyOf[r] = KeyOf[h] /\ value'[r] = r /\ value'[h] \in before[r]
        BY <2>1 DEF ReadsLast
      <3>1. value'[h] = value[h] /\ \A r \in before[h] : r # s
        BY <1>3, <2>2
      <3> QED BY <3>1, <2>2, <1>3 DEF ReadInv, ReadsLast
    <2> QED BY <2>3, <2>4, <2>5 DEF ReadInv
  <1>7. CASE RemoveFile(k)
    <2>1. file' = [file EXCEPT ![k] = NoFile] /\ UNCHANGED <<pc, value, before>>
      BY <1>7 DEF RemoveFile, history
    <2>2. HistoryInv' /\ ReadsLast'
      BY <2>1 DEF ReadInv, HistoryInv, ReadsLast, Written, Over
    <2>3. FilesCurrent'
      BY <1>3, <2>1 DEF ReadInv, FilesCurrent, Current, Written
    <2> QED BY <2>2, <2>3 DEF ReadInv
  <1>8. CASE RemoveFails(k)
    BY <1>8, ReadGoesOn DEF RemoveFails
  <1> QED BY <1>5, <1>6, <1>7, <1>8 DEF Disk

LEMMA InitRead == Init => ReadInv
  BY DiskAssumption DEF Init, ReadInv, HistoryInv, FilesCurrent, ReadsLast, Written, Ops

LEMMA NextRead == TypeInv /\ ReadInv /\ [Next]_vars => ReadInv'
  <1> SUFFICES ASSUME TypeInv, ReadInv, [Next]_vars PROVE ReadInv'
    OBVIOUS
  <1>0. /\ Gets \subseteq Ops /\ Sets \subseteq Ops
        /\ pc \in [Ops -> {"idle", "yielded", "locked", "read", "done"}]
    BY DEF Ops, TypeInv, TypeOK
  <1>1. ASSUME NEW g \in Gets, GetMisses(g)
        PROVE  ReadInv'
    BY <1>0, <1>1, ReadBegins DEF GetMisses
  <1>2. ASSUME NEW g \in Gets, GetFinds(g)
        PROVE  ReadInv'
    BY <1>0, <1>2, ReadBegins DEF GetFinds
  <1>3. ASSUME NEW g \in Gets, GetReturns(g)
        PROVE  ReadInv'
    BY <1>0, <1>3, ReadGoesOn DEF GetReturns, history
  <1>4. ASSUME NEW s \in Sets, SetStarts(s)
        PROVE  ReadInv'
    <2>1. Begin(s) /\ UNCHANGED <<value, file>> /\ \E phase \in {"yielded", "locked"} : pc' = [pc EXCEPT ![s] = phase]
      BY <1>4 DEF SetStarts
    <2> QED BY <1>0, <2>1, ReadBegins
  <1>5. ASSUME NEW s \in Sets, SetResumes(s)
        PROVE  ReadInv'
    BY <1>0, <1>5, ReadGoesOn DEF SetResumes, history
  <1>6. ASSUME NEW k \in Keys, Disk(k)
        PROVE  ReadInv'
    BY <1>6, ReadWorks
  <1>7. CASE Restart
    BY <1>0, <1>7, ReadGoesOn DEF Restart, history
  <1>8. CASE Tick
    BY <1>0, <1>8, ReadGoesOn DEF Tick, history
  <1>9. CASE UNCHANGED vars
    BY <1>9, ReadGoesOn DEF vars
  <1> QED BY <1>1, <1>2, <1>3, <1>4, <1>5, <1>6, <1>7, <1>8, <1>9 DEF Next

(* A get returns the last value written before it began, a later one, or   *)
(* nothing: whatever is evicted, removed, fails or restarts meanwhile.     *)
THEOREM ReadsTheLast == Spec => []ReadsLast
  <1>1. ReadInv => ReadsLast
    BY DEF ReadInv
  <1> QED BY InitType, NextType, InitRead, NextRead, <1>1, PTL DEF Spec

-----------------------------------------------------------------------------
(* Without stale, no name waits to be deleted, and a key in the index has  *)
(* its file, or a write of it to come that no removal follows.             *)
EndsInWrite(q) == \E i \in DOMAIN q : q[i] \in Sets /\ \A j \in DOMAIN q : j > i => q[j] # Removal
Spared(q) == \A i \in DOMAIN q : q[i] # Removal
Kept(k) ==
    \/ \E s \in Sets : KeyOf[s] = k /\ pc[s] = "yielded"
    \/ WriteFailed(k)
    \/ EndsInWrite(lock[k])
    \/ file[k] # NoFile /\ Spared(lock[k])
EntryInv == keyToBeDeleted = NoKey /\ \A k \in Indexed : Kept(k)

LEMMA AppendWrite ==
    ASSUME NEW q \in Seq(Jobs), NEW job \in Ops
    PROVE  /\ job \in Sets => EndsInWrite(Append(q, job))
           /\ EndsInWrite(q) => EndsInWrite(Append(q, job))
           /\ Spared(q) => Spared(Append(q, job))
  <1> DEFINE r == Append(q, job)
  <1>1. /\ Len(q) \in Nat /\ DOMAIN q = 1 .. Len(q)
        /\ DOMAIN r = 1 .. Len(q) + 1
        /\ \A i \in DOMAIN q : r[i] = q[i]
        /\ r[Len(q) + 1] = job /\ job # Removal
    BY Appended, DiskAssumption DEF Jobs
  <1> HIDE DEF r
  <1>2. /\ \A i \in DOMAIN r : i \in DOMAIN q \/ i = Len(q) + 1
        /\ Len(q) + 1 \in DOMAIN r /\ DOMAIN q \subseteq DOMAIN r
        /\ \A j \in DOMAIN r : ~(j > Len(q) + 1)
    BY <1>1
  <1>3. job \in Sets => EndsInWrite(r)
    BY <1>1, <1>2 DEF EndsInWrite
  <1>4. EndsInWrite(q) => EndsInWrite(r)
    BY <1>1, <1>2 DEF EndsInWrite
  <1>5. Spared(q) => Spared(r)
    BY <1>1, <1>2 DEF Spared
  <1> QED BY <1>3, <1>4, <1>5 DEF r

LEMMA ReleaseWrite ==
    ASSUME NEW q \in Seq(Jobs), q # <<>>
    PROVE  /\ EndsInWrite(q) => EndsInWrite(Tail(q)) \/ (Head(q) \in Sets /\ Spared(Tail(q)))
           /\ Spared(q) => Spared(Tail(q)) /\ Head(q) # Removal
  <1> DEFINE r == Tail(q)
  <1>1. /\ Len(q) \in Nat \ {0} /\ DOMAIN q = 1 .. Len(q)
        /\ Head(q) = q[1]
        /\ DOMAIN r = 1 .. Len(q) - 1
        /\ \A i \in DOMAIN r : i + 1 \in DOMAIN q /\ r[i] = q[i + 1]
        /\ \A i \in DOMAIN q : i > 1 => i - 1 \in DOMAIN r /\ r[i - 1] = q[i]
    BY Released
  <1> HIDE DEF r
  <1>2. ASSUME EndsInWrite(q) PROVE EndsInWrite(r) \/ (Head(q) \in Sets /\ Spared(r))
    <2>1. PICK i \in DOMAIN q : q[i] \in Sets /\ \A j \in DOMAIN q : j > i => q[j] # Removal
      BY <1>2 DEF EndsInWrite
    <2>2. CASE i = 1
      BY <1>1, <2>1, <2>2 DEF Spared
    <2>3. CASE i > 1
      <3>1. i - 1 \in DOMAIN r /\ r[i - 1] \in Sets
        BY <1>1, <2>1, <2>3
      <3>2. ASSUME NEW j \in DOMAIN r, j > i - 1 PROVE r[j] # Removal
        <4>1. j + 1 \in DOMAIN q /\ j + 1 > i
          BY <1>1, <3>2
        <4> QED BY <4>1, <1>1, <2>1
      <3> QED BY <3>1, <3>2 DEF EndsInWrite
    <2> QED BY <1>1, <2>2, <2>3
  <1>3. ASSUME Spared(q) PROVE Spared(r) /\ Head(q) # Removal
    BY <1>1, <1>3 DEF Spared
  <1> QED BY <1>2, <1>3 DEF r

LEMMA KeptStays ==
    ASSUME NEW k \in Keys, Kept(k), UNCHANGED <<lock[k], file[k]>>,
           \A s \in Sets : KeyOf[s] = k => UNCHANGED <<pc[s], value[s]>>
    PROVE  Kept(k)'
  BY DEF Kept, WriteFailed

LEMMA InitEntry == Init => EntryInv
  <1> SUFFICES ASSUME Init PROVE EntryInv
    OBVIOUS
  <1>1. DOMAIN <<>> = {}
    BY EmptySeq
  <1> QED BY <1>1 DEF Init, EntryInv, Indexed, ToSet

LEMMA NextEntry == ~Stale /\ TypeInv /\ EntryInv /\ [Next]_vars => EntryInv'
  <1> SUFFICES ASSUME ~Stale, TypeInv, EntryInv, [Next]_vars PROVE EntryInv'
    OBVIOUS
  <1>0. /\ Gets \subseteq Ops /\ Sets \subseteq Ops /\ Gets \cap Sets = {} /\ Ops \subseteq Jobs
        /\ \A o \in Ops : KeyOf[o] \in Keys
        /\ pc \in [Ops -> {"idle", "yielded", "locked", "read", "done"}]
        /\ value \in [Ops -> Sets \cup {NoFile, Undefined}]
        /\ lock \in [Keys -> Seq(Jobs)] /\ file \in [Keys -> Sets \cup {NoFile}]
        /\ order \in Seq(Keys) /\ IsInjective(order) /\ Indexed \subseteq Keys
        /\ NoKey \notin Keys /\ NoFile \notin Sets /\ Removal \notin Ops /\ keyToBeDeleted = NoKey
    BY DiskAssumption DEF Ops, Jobs, TypeInv, TypeOK, EntryInv, Indexed, ToSet
  <1>a. \A k : ToSet(RemoveFirst(order, k)) = Indexed \ {k}
    BY <1>0, RemoveKey DEF Indexed
  <1>1. ASSUME NEW g \in Gets, GetMisses(g) \/ GetReturns(g)
        PROVE  EntryInv'
    <2> DEFINE k == KeyOf[g]
    <2>1. /\ keyToBeDeleted' = NoKey
          /\ \A s \in Sets : UNCHANGED <<pc[s], value[s]>>
          /\ UNCHANGED file /\ k \in Keys
          /\ \/ UNCHANGED <<order, lock>>
             \/ order' = RemoveFirst(order, k) /\ Queue(k, Removal)
             \/ order' = RemoveFirst(order, k) /\ k \notin Indexed /\ UNCHANGED lock
      BY <1>0, <1>1 DEF GetMisses, GetReturns, DeleteFile
    <2>2. ASSUME NEW h \in Indexed' PROVE h \in Indexed /\ UNCHANGED lock[h]
      <3>1. CASE UNCHANGED <<order, lock>>
        BY <3>1, <2>2 DEF Indexed
      <3>2. CASE order' = RemoveFirst(order, k) /\ k \notin Indexed /\ UNCHANGED lock
        BY <1>a, <3>2, <2>2 DEF Indexed
      <3>3. CASE order' = RemoveFirst(order, k) /\ Queue(k, Removal)
        <4>1. h \in Indexed /\ h # k
          BY <1>a, <3>3, <2>2 DEF Indexed
        <4> QED BY <4>1, <1>0, <3>3 DEF Queue
      <3> QED BY <2>1, <3>1, <3>2, <3>3
    <2>3. ASSUME NEW h \in Indexed' PROVE Kept(h)'
      BY <1>0, <2>1, <2>2, KeptStays DEF EntryInv
    <2> QED BY <2>1, <2>3 DEF EntryInv
  <1>2. ASSUME NEW g \in Gets, GetFinds(g)
        PROVE  EntryInv'
    <2> DEFINE k == KeyOf[g]
    <2>1. /\ k \in Indexed /\ k \in Keys /\ keyToBeDeleted' = NoKey
          /\ \A s \in Sets : UNCHANGED <<pc[s], value[s]>>
          /\ UNCHANGED file /\ Queue(k, g)
          /\ order' = Append(RemoveFirst(order, k), k)
      BY <1>0, <1>2 DEF GetFinds
    <2>2. Indexed' = Indexed
      <3> DEFINE r == RemoveFirst(order, k)
      <3>1. r \in Seq(Keys) /\ IsInjective(r) /\ ToSet(r) = Indexed \ {k}
        BY <1>0, RemoveKey DEF Indexed
      <3> HIDE DEF r
      <3>2. ToSet(Append(r, k)) = ToSet(r) \cup {k}
        BY <3>1, <2>1, AppendKey
      <3> QED BY <3>1, <3>2, <2>1 DEF Indexed, r
    <2> HIDE DEF k
    <2>3. ASSUME NEW h \in Indexed PROVE Kept(h)'
      <3>1. CASE h = k
        <4>1. lock'[h] = Append(lock[h], g) /\ lock[h] \in Seq(Jobs) /\ Kept(h)
          BY <1>0, <2>1, <2>3, <3>1 DEF Queue, EntryInv
        <4>2. /\ EndsInWrite(lock[h]) => EndsInWrite(lock'[h])
              /\ Spared(lock[h]) => Spared(lock'[h])
          BY <4>1, <1>0, AppendWrite
        <4> QED BY <4>1, <4>2, <2>1 DEF Kept, WriteFailed
      <3>2. CASE h # k
        BY <1>0, <2>1, <2>3, <3>2, KeptStays DEF Queue, EntryInv
      <3> QED BY <3>1, <3>2
    <2> QED BY <2>1, <2>2, <2>3 DEF EntryInv
  <1>3. ASSUME NEW s \in Sets, SetStarts(s)
        PROVE  EntryInv'
    <2> DEFINE k == KeyOf[s]
    <2>1. /\ k \in Keys /\ Dropped(k) \in Keys \cup {NoKey} /\ Dropped(k) # k
          /\ Indexed' = (Indexed \cup {k}) \ {Dropped(k)}
      BY <1>0, <1>3, SetIndex DEF SetStarts, SetOrder, Indexed, TypeInv
    <2>2. /\ UNCHANGED <<file, value>> /\ keyToBeDeleted' = NoKey
          /\ \/ Queue(Dropped(k), Removal) /\ Dropped(k) \in Keys /\ pc' = [pc EXCEPT ![s] = "yielded"]
             \/ Queue(k, s) /\ Dropped(k) = NoKey /\ pc' = [pc EXCEPT ![s] = "locked"]
      BY <1>0, <1>3, <2>1 DEF SetStarts, DeleteFile
    <2> HIDE DEF k
    <2>3. Kept(k)'
      <3>1. CASE pc' = [pc EXCEPT ![s] = "yielded"]
        <4>1. KeyOf[s] = k /\ pc'[s] = "yielded"
          BY <3>1, <1>0 DEF k
        <4> QED BY <4>1 DEF Kept
      <3>2. CASE Queue(k, s)
        <4>1. lock'[k] = Append(lock[k], s) /\ lock[k] \in Seq(Jobs)
          BY <1>0, <2>1, <3>2 DEF Queue
        <4> QED BY <4>1, <1>0, AppendWrite DEF Kept
      <3> QED BY <2>2, <3>1, <3>2
    <2>4. ASSUME NEW h \in Indexed', h # k PROVE Kept(h)'
      <3>1. h \in Indexed /\ h # Dropped(k)
        BY <2>1, <2>4
      <3>2. lock'[h] = lock[h]
        BY <1>0, <2>2, <2>4, <3>1 DEF Queue
      <3>3. \A r \in Sets : KeyOf[r] = h => UNCHANGED <<pc[r], value[r]>>
        BY <1>0, <2>2, <2>4 DEF k
      <3> QED BY <1>0, <2>2, <3>1, <3>2, <3>3, KeptStays DEF EntryInv
    <2> QED BY <2>2, <2>3, <2>4 DEF EntryInv
  <1>4. ASSUME NEW s \in Sets, SetResumes(s)
        PROVE  EntryInv'
    <2> DEFINE k == KeyOf[s]
    <2>1. /\ k \in Keys /\ UNCHANGED <<order, file, value, keyToBeDeleted>>
          /\ Queue(k, s) /\ pc' = [pc EXCEPT ![s] = "locked"]
      BY <1>0, <1>4 DEF SetResumes, index
    <2> HIDE DEF k
    <2>2. Kept(k)'
      <3>1. lock'[k] = Append(lock[k], s) /\ lock[k] \in Seq(Jobs)
        BY <1>0, <2>1 DEF Queue
      <3> QED BY <3>1, <1>0, AppendWrite DEF Kept
    <2>3. ASSUME NEW h \in Indexed, h # k PROVE Kept(h)'
      <3>1. UNCHANGED lock[h] /\ \A r \in Sets : KeyOf[r] = h => UNCHANGED <<pc[r], value[r]>>
        BY <1>0, <2>1, <2>3 DEF Queue, k
      <3> QED BY <1>0, <2>1, <2>3, <3>1, KeptStays DEF EntryInv
    <2> QED BY <2>1, <2>2, <2>3 DEF EntryInv, Indexed
  <1>5. ASSUME NEW k \in Keys, Disk(k)
        PROVE  EntryInv'
    <2>1. lock[k] # <<>> /\ Release(k) /\ UNCHANGED <<order, keyToBeDeleted>>
      BY <1>5 DEF Disk, ReadFile, WriteFile, WriteFails, RemoveFile, RemoveFails, index
    <2>2. /\ Job(k) \in Ops => KeyOf[Job(k)] = k /\ pc[Job(k)] = "locked"
          /\ lock'[k] = Tail(lock[k])
          /\ \A h \in Keys : h # k => lock'[h] = lock[h]
      BY <2>1, JobReleased
    <2>3. lock[k] \in Seq(Jobs) /\ Job(k) = Head(lock[k])
      BY <1>0 DEF Job
    <2>4. /\ EndsInWrite(lock[k]) => EndsInWrite(lock'[k]) \/ (Job(k) \in Sets /\ Spared(lock'[k]))
          /\ Spared(lock[k]) => Spared(lock'[k]) /\ Job(k) # Removal
      BY <2>1, <2>2, <2>3, ReleaseWrite
    <2>5. /\ \A h \in Keys : h # k => file'[h] = file[h]
          /\ \A s \in Sets : s # Job(k) => UNCHANGED <<pc[s], value[s]>>
          /\ Job(k) \in Sets => pc'[Job(k)] = "done" /\ (value'[Job(k)] = Job(k) => file'[k] = Job(k))
          /\ Job(k) \notin Sets \cup {Removal} => file'[k] = file[k]
      <3>1. CASE ReadFile(k)
        <4>1. Job(k) \in Gets /\ Job(k) \notin Sets /\ UNCHANGED file
              /\ \E content \in {file[k], NoFile} : value' = [value EXCEPT ![Job(k)] = content]
              /\ pc' = [pc EXCEPT ![Job(k)] = "read"]
          BY <1>0, <3>1 DEF ReadFile
        <4> QED BY <4>1, <1>0
      <3>2. CASE WriteFile(k)
        BY <1>0, <3>2 DEF WriteFile
      <3>3. CASE WriteFails(k)
        BY <1>0, <3>3 DEF WriteFails
      <3>4. CASE RemoveFile(k) \/ RemoveFails(k)
        BY <1>0, <3>4 DEF RemoveFile, RemoveFails
      <3> QED BY <1>5, <3>1, <3>2, <3>3, <3>4 DEF Disk
    <2>6. ASSUME NEW h \in Indexed, h # k PROVE Kept(h)'
      <3>1. \A s \in Sets : KeyOf[s] = h => UNCHANGED <<pc[s], value[s]>>
        BY <1>0, <2>2, <2>5, <2>6
      <3> QED BY <1>0, <2>2, <2>5, <2>6, <3>1, KeptStays DEF EntryInv
    <2>7. ASSUME k \in Indexed PROVE Kept(k)'
      <3>1. Kept(k)
        BY <2>7 DEF EntryInv
      <3>2. CASE Job(k) \in Sets
        <4>1. CASE value'[Job(k)] = Job(k)
          <5>1. file'[k] # NoFile
            BY <1>0, <2>5, <3>2, <4>1
          <5>2. CASE \E s \in Sets : KeyOf[s] = k /\ pc[s] = "yielded"
            BY <1>0, <2>2, <2>5, <3>2, <5>2 DEF Kept
          <5>3. CASE WriteFailed(k)
            BY <1>0, <2>2, <2>5, <3>2, <5>3 DEF Kept, WriteFailed
          <5>4. CASE EndsInWrite(lock[k]) \/ Spared(lock[k])
            BY <2>4, <5>1, <5>4 DEF Kept
          <5> QED BY <3>1, <5>2, <5>3, <5>4 DEF Kept
        <4>2. CASE value'[Job(k)] # Job(k)
          BY <1>0, <2>2, <2>5, <3>2, <4>2 DEF Kept, WriteFailed
        <4> QED BY <4>1, <4>2
      <3>3. CASE Job(k) \notin Sets
        <4>1. \A s \in Sets : UNCHANGED <<pc[s], value[s]>>
          BY <2>5, <3>3
        <4>2. Spared(lock[k]) => file'[k] = file[k] /\ Spared(lock'[k])
          BY <2>4, <2>5, <3>3
        <4>3. EndsInWrite(lock[k]) => EndsInWrite(lock'[k])
          BY <2>4, <3>3
        <4> QED BY <3>1, <4>1, <4>2, <4>3 DEF Kept, WriteFailed
      <3> QED BY <3>2, <3>3
    <2> QED BY <2>1, <2>6, <2>7 DEF EntryInv, Indexed
  <1>6. CASE Restart
    <2>1. DOMAIN <<>> = {}
      BY EmptySeq
    <2> QED BY <1>6, <2>1 DEF Restart, EntryInv, Indexed, ToSet
  <1>7. CASE Tick \/ UNCHANGED vars
    <2>1. UNCHANGED <<pc, order, keyToBeDeleted, lock, file, value>>
      BY <1>7 DEF Tick, vars, index
    <2> QED BY <1>0, <2>1, KeptStays DEF EntryInv, Indexed
  <1> QED BY <1>1, <1>2, <1>3, <1>4, <1>5, <1>6, <1>7 DEF Next

(* Without stale, every key in the index has its file when nothing is      *)
(* going on, unless a write of it failed: no removal takes it away that    *)
(* was meant for an older value or for another key.                        *)
THEOREM EntriesStay == ~Stale => (Spec => []EntriesOnDisk)
  <1>1. TypeInv /\ EntryInv => EntriesOnDisk
    <2> SUFFICES ASSUME TypeInv, EntryInv, Quiescent, NEW k \in Indexed
                 PROVE  file[k] # NoFile \/ WriteFailed(k)
      BY DEF EntriesOnDisk
    <2>1. k \in Keys
      BY DEF Indexed, ToSet, TypeInv, TypeOK
    <2>2. lock[k] = <<>> /\ DOMAIN <<>> = {} /\ \A s \in Sets : pc[s] # "yielded"
      BY <2>1, EmptySeq DEF Quiescent, Ops
    <2>3. Kept(k)
      BY DEF EntryInv
    <2> QED BY <2>2, <2>3 DEF Kept, EndsInWrite
  <1> SUFFICES ASSUME ~Stale PROVE Spec => []EntriesOnDisk
    OBVIOUS
  <1>2. TypeInv /\ EntryInv /\ [Next]_vars => EntryInv'
    BY NextEntry
  <1> QED BY InitType, NextType, InitEntry, <1>1, <1>2, PTL DEF Spec

-----------------------------------------------------------------------------
(* Without stale, a key that is not in the index has no file, or a removal *)
(* of it to come after the writes; or it was dropped by an operation that  *)
(* was under way together with the set that wrote, or will write, it.      *)
Lost(v, k) == \E o \in Ops : Overlapping(o, v) /\ (o \in Gets => KeyOf[o] = k)
RemovedAfter(q, v) == \A i \in DOMAIN q : q[i] = v => \E j \in DOMAIN q : j > i /\ q[j] = Removal
Gone(k) ==
    /\ file[k] = NoFile \/ In(Removal, lock[k]) \/ Lost(file[k], k)
    /\ \A v \in Sets : KeyOf[v] = k =>
         /\ pc[v] = "yielded" => Lost(v, k)
         /\ pc[v] = "locked" => RemovedAfter(lock[k], v) \/ Lost(v, k)
FilesBegun == \A k \in Keys : file[k] = NoFile \/ pc[file[k]] # "idle"
OrphanInv ==
    /\ FilesBegun
    /\ \A k \in Keys \ Indexed : restarts > 0 \/ k \in unremoved \/ Gone(k)

LEMMA AppendRemoval ==
    ASSUME NEW q \in Seq(Jobs), NEW job \in Jobs
    PROVE  /\ \A v \in Ops : RemovedAfter(q, v) /\ v # job => RemovedAfter(Append(q, job), v)
           /\ job = Removal => \A v \in Ops : RemovedAfter(Append(q, job), v)
           /\ In(Removal, q) \/ job = Removal => In(Removal, Append(q, job))
  <1> DEFINE r == Append(q, job)
  <1>1. /\ Len(q) \in Nat /\ DOMAIN q = 1 .. Len(q)
        /\ DOMAIN r = 1 .. Len(q) + 1
        /\ \A i \in DOMAIN q : r[i] = q[i]
        /\ r[Len(q) + 1] = job /\ Removal \notin Ops
    BY Appended, DiskAssumption
  <1> HIDE DEF r
  <1>2. /\ \A i \in DOMAIN r : i \in DOMAIN q \/ i = Len(q) + 1
        /\ \A i \in DOMAIN q : Len(q) + 1 > i
        /\ Len(q) + 1 \in DOMAIN r /\ DOMAIN q \subseteq DOMAIN r
    BY <1>1
  <1>3. ASSUME NEW v \in Ops, RemovedAfter(q, v), v # job PROVE RemovedAfter(r, v)
    BY <1>1, <1>2, <1>3 DEF RemovedAfter
  <1>4. ASSUME job = Removal, NEW v \in Ops PROVE RemovedAfter(r, v)
    BY <1>1, <1>2, <1>4 DEF RemovedAfter
  <1>5. In(Removal, q) \/ job = Removal => In(Removal, r)
    BY <1>1, <1>2 DEF In
  <1> QED BY <1>3, <1>4, <1>5 DEF r

LEMMA ReleaseRemoval ==
    ASSUME NEW q \in Seq(Jobs), q # <<>>
    PROVE  /\ \A v : RemovedAfter(q, v) => RemovedAfter(Tail(q), v)
           /\ RemovedAfter(q, Head(q)) => In(Removal, Tail(q))
           /\ In(Removal, q) /\ Head(q) # Removal => In(Removal, Tail(q))
  <1> DEFINE r == Tail(q)
  <1>1. /\ Len(q) \in Nat \ {0} /\ DOMAIN q = 1 .. Len(q)
        /\ Head(q) = q[1]
        /\ DOMAIN r = 1 .. Len(q) - 1
        /\ \A i \in DOMAIN r : i + 1 \in DOMAIN q /\ r[i] = q[i + 1]
        /\ \A i \in DOMAIN q : i > 1 => i - 1 \in DOMAIN r /\ r[i - 1] = q[i]
    BY Released
  <1> HIDE DEF r
  <1>2. ASSUME NEW v, RemovedAfter(q, v), NEW i \in DOMAIN r, r[i] = v
        PROVE  \E j \in DOMAIN r : j > i /\ r[j] = Removal
    <2>1. i + 1 \in DOMAIN q /\ q[i + 1] = v
      BY <1>1, <1>2
    <2>2. PICK j \in DOMAIN q : j > i + 1 /\ q[j] = Removal
      BY <2>1, <1>2 DEF RemovedAfter
    <2>3. j > 1 /\ j - 1 > i
      BY <1>1, <2>2
    <2> QED BY <1>1, <2>2, <2>3
  <1>3. \A v : RemovedAfter(q, v) => RemovedAfter(r, v)
    BY <1>2 DEF RemovedAfter
  <1>4. ASSUME RemovedAfter(q, Head(q)) PROVE In(Removal, r)
    <2>1. PICK j \in DOMAIN q : j > 1 /\ q[j] = Removal
      BY <1>1, <1>4 DEF RemovedAfter
    <2> QED BY <1>1, <2>1 DEF In
  <1>5. ASSUME In(Removal, q), Head(q) # Removal PROVE In(Removal, r)
    <2>1. PICK j \in DOMAIN q : q[j] = Removal
      BY <1>5 DEF In
    <2>2. j > 1
      BY <1>1, <1>5, <2>1
    <2> QED BY <1>1, <2>1, <2>2 DEF In
  <1> QED BY <1>3, <1>4, <1>5 DEF r

(* What has begun has, and what two operations had of each other when they *)
(* began stays.                                                            *)
Goes(o) == Begin(o) \/ UNCHANGED before
LEMMA LostStays ==
    ASSUME TypeInv, NEW o, Goes(o), \A p \in Ops : pc[p] # "idle" => pc'[p] # "idle",
           NEW v \in Ops, pc[v] # "idle", NEW k, Lost(v, k)
    PROVE  Lost(v, k)'
  <1>1. PICK p \in Ops : /\ p # v /\ pc[p] # "idle" /\ p \notin before[v] /\ v \notin before[p]
                         /\ p \in Gets => KeyOf[p] = k
    BY DEF Lost, Overlapping
  <1>2. before'[v] = before[v] /\ before'[p] = before[p] /\ pc'[p] # "idle"
    BY <1>1 DEF Goes, Begin, TypeInv, TypeOK
  <1> QED BY <1>1, <1>2 DEF Lost, Overlapping

(* A key whose file and lock a step does not touch, nor one of its sets.   *)
LEMMA GoneStays ==
    ASSUME TypeInv, NEW o, Goes(o), \A p \in Ops : pc[p] # "idle" => pc'[p] # "idle",
           FilesBegun, NEW k \in Keys, Gone(k), UNCHANGED <<lock[k], file[k]>>,
           \A v \in Sets : KeyOf[v] = k => UNCHANGED pc[v]
    PROVE  Gone(k)'
  <1>1. Sets \subseteq Ops /\ file[k] \in Sets \cup {NoFile}
    BY DEF Ops, TypeInv, TypeOK
  <1>2. \A v \in Sets : pc[v] # "idle" /\ Lost(v, k) => Lost(v, k)'
    BY <1>1, LostStays
  <1>3. ASSUME file[k] # NoFile, ~In(Removal, lock[k])
        PROVE  \E p \in Ops : Overlapping(p, file[k])' /\ (p \in Gets => KeyOf[p] = k)
    <2>1. PICK v \in Sets : v = file[k]
      BY <1>1, <1>3
    <2>2. Lost(v, k)'
      BY <1>2, <1>3, <2>1 DEF Gone, FilesBegun
    <2> QED BY <2>1, <2>2 DEF Lost, Overlapping
  <1>4. file'[k] = NoFile \/ In(Removal, lock'[k]) \/ Lost(file[k], k)'
    BY <1>3 DEF Lost
  <1>5. ASSUME NEW v \in Sets, KeyOf[v] = k
        PROVE  /\ pc'[v] = "yielded" => Lost(v, k)'
               /\ pc'[v] = "locked" => RemovedAfter(lock'[k], v) \/ Lost(v, k)'
    BY <1>2, <1>5 DEF Gone
  <1> QED BY <1>4, <1>5 DEF Gone

(* A key that an operation drops: its removal follows the writes queued,   *)
(* and the sets that wait to be queued were under way together with it.    *)
LEMMA Drops ==
    ASSUME TypeInv, HistoryInv, NEW o \in Ops, Goes(o), pc[o] # "done", pc'[o] # "idle",
           \A p \in Ops : p # o => UNCHANGED pc[p],
           NEW k \in Keys, o \in Gets => KeyOf[o] = k, o \in Sets => KeyOf[o] # k, Queue(k, Removal)
    PROVE  Gone(k)'
  <1>1. /\ lock \in [Keys -> Seq(Jobs)] /\ Sets \subseteq Ops /\ Gets \cap Sets = {} /\ Removal \in Jobs
        /\ before \in [Ops -> SUBSET Ops]
    BY DiskAssumption DEF Ops, Jobs, TypeInv, TypeOK
  <1>2. lock'[k] = Append(lock[k], Removal)
    BY <1>1 DEF Queue
  <1>3. In(Removal, lock'[k]) /\ \A v \in Sets : RemovedAfter(lock'[k], v)
    BY <1>1, <1>2, AppendRemoval
  <1>4. ASSUME NEW v \in Sets, KeyOf[v] = k, pc'[v] = "yielded"
        PROVE  Lost(v, k)'
    <2>1. v # o /\ v \in Ops /\ pc[v] = "yielded"
      BY <1>1, <1>4
    <2>2. o \notin before[v] /\ v \notin Over
      BY <2>1 DEF HistoryInv, Over
    <2>3. before'[v] = before[v] /\ v \notin before'[o]
      BY <1>1, <2>1, <2>2 DEF Goes, Begin, HistoryInv
    <2> QED BY <2>1, <2>2, <2>3 DEF Lost, Overlapping
  <1> QED BY <1>3, <1>4 DEF Gone

LEMMA InitOrphan == Init => OrphanInv
  BY DiskAssumption DEF Init, OrphanInv, FilesBegun, Gone, Ops

LEMMA NextOrphan == ~Stale /\ TypeInv /\ HistoryInv /\ EntryInv /\ OrphanInv /\ [Next]_vars => OrphanInv'
  <1> SUFFICES ASSUME ~Stale, TypeInv, HistoryInv, EntryInv, OrphanInv, [Next]_vars PROVE OrphanInv'
    OBVIOUS
  <1>0. /\ Gets \subseteq Ops /\ Sets \subseteq Ops /\ Gets \cap Sets = {} /\ Ops \subseteq Jobs
        /\ \A o \in Ops : KeyOf[o] \in Keys
        /\ pc \in [Ops -> {"idle", "yielded", "locked", "read", "done"}]
        /\ lock \in [Keys -> Seq(Jobs)] /\ file \in [Keys -> Sets \cup {NoFile}]
        /\ order \in Seq(Keys) /\ IsInjective(order) /\ Indexed \subseteq Keys
        /\ NoKey \notin Keys /\ Removal \notin Ops /\ keyToBeDeleted = NoKey
        /\ FilesBegun /\ restarts \in Nat
    BY DiskAssumption DEF Ops, Jobs, TypeInv, TypeOK, EntryInv, OrphanInv, Indexed, ToSet
  <1>a. \A k : ToSet(RemoveFirst(order, k)) = Indexed \ {k}
    BY <1>0, RemoveKey DEF Indexed
  <1>b. ASSUME NEW o \in Ops, Goes(o), \A p \in Ops : pc[p] # "idle" => pc'[p] # "idle",
               UNCHANGED <<file, restarts, unremoved>>,
               \A k \in Keys \ Indexed' :
                  \/ Gone(k)'
                  \/ k \notin Indexed /\ UNCHANGED lock[k] /\ \A v \in Sets : KeyOf[v] = k => UNCHANGED pc[v]
        PROVE  OrphanInv'
    <2>1. FilesBegun'
      BY <1>0, <1>b DEF FilesBegun
    <2>2. ASSUME NEW k \in Keys \ Indexed'
          PROVE  restarts' > 0 \/ k \in unremoved' \/ Gone(k)'
      <3>1. CASE k \notin Indexed /\ UNCHANGED lock[k] /\ \A v \in Sets : KeyOf[v] = k => UNCHANGED pc[v]
        <4>1. restarts > 0 \/ k \in unremoved \/ Gone(k)
          BY <3>1 DEF OrphanInv
        <4> QED BY <4>1, <3>1, <1>0, <1>b, GoneStays
      <3> QED BY <1>b, <3>1
    <2> QED BY <2>1, <2>2 DEF OrphanInv
  <1>1. ASSUME NEW g \in Gets, GetMisses(g)
        PROVE  OrphanInv'
    <2> DEFINE k == KeyOf[g]
    <2>1. /\ Goes(g) /\ pc[g] = "idle" /\ pc' = [pc EXCEPT ![g] = "done"] /\ k \in Keys
          /\ UNCHANGED <<file, restarts, unremoved>>
          /\ Indexed' = Indexed \ {k}
          /\ Queue(k, Removal) \/ (k \notin Indexed /\ UNCHANGED lock)
      BY <1>0, <1>a, <1>1 DEF GetMisses, Begin, Goes, DeleteFile, Indexed
    <2> HIDE DEF k
    <2>2. ASSUME NEW h \in Keys \ Indexed'
          PROVE  \/ Gone(h)'
                 \/ h \notin Indexed /\ UNCHANGED lock[h] /\ \A v \in Sets : KeyOf[v] = h => UNCHANGED pc[v]
      <3>1. CASE h = k /\ Queue(k, Removal)
        BY <1>0, <2>1, <3>1, Drops DEF k
      <3>2. CASE h # k \/ (k \notin Indexed /\ UNCHANGED lock)
        <4>1. h \notin Indexed /\ UNCHANGED lock[h]
          BY <1>0, <2>1, <2>2, <3>2 DEF Queue
        <4> QED BY <4>1, <1>0, <2>1
      <3> QED BY <2>1, <3>1, <3>2
    <2> QED BY <1>0, <1>b, <2>1, <2>2
  <1>2. ASSUME NEW g \in Gets, GetFinds(g)
        PROVE  OrphanInv'
    <2> DEFINE k == KeyOf[g]
    <2>1. /\ Goes(g) /\ pc[g] = "idle" /\ pc' = [pc EXCEPT ![g] = "locked"] /\ k \in Keys /\ k \in Indexed
          /\ UNCHANGED <<file, restarts, unremoved>>
          /\ Queue(k, g) /\ order' = Append(RemoveFirst(order, k), k)
      BY <1>0, <1>2 DEF GetFinds, Begin, Goes
    <2>2. Indexed' = Indexed
      <3> DEFINE r == RemoveFirst(order, k)
      <3>1. r \in Seq(Keys) /\ IsInjective(r) /\ ToSet(r) = Indexed \ {k}
        BY <1>0, RemoveKey DEF Indexed
      <3> HIDE DEF r
      <3>2. ToSet(Append(r, k)) = ToSet(r) \cup {k}
        BY <3>1, <2>1, AppendKey
      <3> QED BY <3>1, <3>2, <2>1 DEF Indexed, r
    <2> HIDE DEF k
    <2>3. ASSUME NEW h \in Keys \ Indexed'
          PROVE  h \notin Indexed /\ UNCHANGED lock[h] /\ \A v \in Sets : KeyOf[v] = h => UNCHANGED pc[v]
      BY <1>0, <2>1, <2>2, <2>3 DEF Queue
    <2> QED BY <1>0, <1>b, <2>1, <2>3
  <1>3. ASSUME NEW g \in Gets, GetReturns(g)
        PROVE  OrphanInv'
    <2> DEFINE k == KeyOf[g]
    <2>1. /\ Goes(g) /\ pc[g] = "read" /\ pc' = [pc EXCEPT ![g] = "done"] /\ k \in Keys
          /\ UNCHANGED <<file, restarts, unremoved>>
          /\ \/ Queue(k, Removal) /\ Indexed' = Indexed \ {k}
             \/ UNCHANGED lock /\ Indexed' = Indexed
      BY <1>0, <1>a, <1>3 DEF GetReturns, Goes, DeleteFile, Indexed, history
    <2> HIDE DEF k
    <2>2. ASSUME NEW h \in Keys \ Indexed'
          PROVE  \/ Gone(h)'
                 \/ h \notin Indexed /\ UNCHANGED lock[h] /\ \A v \in Sets : KeyOf[v] = h => UNCHANGED pc[v]
      <3>1. CASE h = k /\ Queue(k, Removal)
        BY <1>0, <2>1, <3>1, Drops DEF k
      <3>2. CASE h # k \/ (UNCHANGED lock /\ Indexed' = Indexed)
        <4>1. h \notin Indexed /\ UNCHANGED lock[h]
          BY <1>0, <2>1, <2>2, <3>2 DEF Queue
        <4> QED BY <4>1, <1>0, <2>1
      <3> QED BY <2>1, <3>1, <3>2
    <2> QED BY <1>0, <1>b, <2>1, <2>2
  <1>4. ASSUME NEW s \in Sets, SetStarts(s)
        PROVE  OrphanInv'
    <2> DEFINE k == KeyOf[s]
    <2>1. /\ k \in Keys /\ Dropped(k) \in Keys \cup {NoKey} /\ Dropped(k) # k
          /\ Indexed' = (Indexed \cup {k}) \ {Dropped(k)}
      BY <1>0, <1>4, SetIndex DEF SetStarts, SetOrder, Indexed, TypeInv
    <2>2. /\ UNCHANGED <<file, restarts, unremoved>> /\ Goes(s) /\ pc[s] = "idle"
          /\ \/ Queue(Dropped(k), Removal) /\ Dropped(k) \in Keys /\ pc' = [pc EXCEPT ![s] = "yielded"]
             \/ Queue(k, s) /\ Dropped(k) = NoKey /\ pc' = [pc EXCEPT ![s] = "locked"]
      BY <1>0, <1>4, <2>1 DEF SetStarts, DeleteFile, Begin, Goes
    <2>3. \A p \in Ops : p # s => pc'[p] = pc[p]
      BY <1>0, <2>2
    <2>4. pc'[s] # "idle" /\ KeyOf[s] = k
      BY <1>0, <2>2
    <2> HIDE DEF k
    <2>5. ASSUME NEW h \in Keys \ Indexed'
          PROVE  \/ Gone(h)'
                 \/ h \notin Indexed /\ UNCHANGED lock[h] /\ \A v \in Sets : KeyOf[v] = h => UNCHANGED pc[v]
      <3>1. CASE h = Dropped(k)
        <4>1. Queue(h, Removal)
          BY <1>0, <2>2, <3>1, <2>5
        <4> QED BY <4>1, <1>0, <2>1, <2>2, <2>3, <2>4, <3>1, Drops
      <3>2. CASE h # Dropped(k)
        <4>1. h \notin Indexed /\ h # k
          BY <2>1, <2>5, <3>2
        <4>2. UNCHANGED lock[h]
          BY <1>0, <2>2, <3>2, <4>1 DEF Queue
        <4> QED BY <4>1, <4>2, <1>0, <2>3, <2>4
      <3> QED BY <3>1, <3>2
    <2> QED BY <1>0, <1>b, <2>2, <2>3, <2>4, <2>5
  <1>5. ASSUME NEW s \in Sets, SetResumes(s)
        PROVE  OrphanInv'
    <2> DEFINE k == KeyOf[s]
    <2>1. /\ k \in Keys /\ UNCHANGED <<order, file, restarts, unremoved>> /\ Goes(s) /\ UNCHANGED before
          /\ Queue(k, s) /\ pc[s] = "yielded" /\ pc' = [pc EXCEPT ![s] = "locked"]
      BY <1>0, <1>5 DEF SetResumes, Goes, index, history
    <2>2. KeyOf[s] = k
      OBVIOUS
    <2> HIDE DEF k
    <2>3. FilesBegun'
      BY <1>0, <2>1 DEF FilesBegun
    <2>4. lock'[k] = Append(lock[k], s) /\ lock[k] \in Seq(Jobs)
      BY <1>0, <2>1 DEF Queue
    <2>5. ASSUME Gone(k) PROVE Gone(k)'
      <3>1. /\ \A v \in Ops : RemovedAfter(lock[k], v) /\ v # s => RemovedAfter(lock'[k], v)
            /\ In(Removal, lock[k]) => In(Removal, lock'[k])
        BY <1>0, <2>4, AppendRemoval
      <3>2. \A p, v \in Ops : Overlapping(p, v) => Overlapping(p, v)'
        BY <1>0, <2>1 DEF Overlapping
      <3>3. \A v \in Ops : Lost(v, k) => \E p \in Ops : Overlapping(p, v)' /\ (p \in Gets => KeyOf[p] = k)
        BY <3>2 DEF Lost
      <3>4. file'[k] = NoFile \/ In(Removal, lock'[k]) \/ \E p \in Ops : Overlapping(p, file[k])' /\ (p \in Gets => KeyOf[p] = k)
        <4>1. CASE file[k] = NoFile \/ In(Removal, lock[k])
          BY <2>1, <3>1, <4>1
        <4>2. CASE file[k] # NoFile /\ Lost(file[k], k)
          <5>1. PICK v \in Sets : v = file[k] /\ Lost(v, k)
            BY <1>0, <2>1, <4>2
          <5>2. \E p \in Ops : Overlapping(p, v)' /\ (p \in Gets => KeyOf[p] = k)
            BY <1>0, <3>3, <5>1
          <5> QED BY <5>1, <5>2, <2>1 DEF Overlapping
        <4> QED BY <2>5, <4>1, <4>2 DEF Gone
      <3>5. ASSUME NEW v \in Sets, KeyOf[v] = k
            PROVE  /\ pc'[v] = "yielded" => Lost(v, k)'
                   /\ pc'[v] = "locked" => RemovedAfter(lock'[k], v) \/ Lost(v, k)'
        <4>1. Lost(v, k) => Lost(v, k)'
          BY <1>0, <3>3 DEF Lost
        <4>2. CASE v = s
          BY <2>1, <2>5, <3>5, <4>1, <4>2 DEF Gone
        <4>3. CASE v # s
          <5>1. pc'[v] = pc[v]
            BY <1>0, <2>1, <4>3
          <5> QED BY <1>0, <2>5, <3>1, <3>5, <4>1, <4>3, <5>1 DEF Gone
        <4> QED BY <4>2, <4>3
      <3> QED BY <3>4, <3>5 DEF Gone, Lost
    <2>6. ASSUME NEW h \in Keys \ Indexed
          PROVE  restarts > 0 \/ h \in unremoved \/ Gone(h)'
      <3>1. restarts > 0 \/ h \in unremoved \/ Gone(h)
        BY DEF OrphanInv
      <3>2. CASE h = k
        BY <2>5, <3>1, <3>2
      <3>3. CASE h # k
        <4>1. UNCHANGED lock[h] /\ \A v \in Sets : KeyOf[v] = h => UNCHANGED pc[v]
          BY <1>0, <2>1, <2>2, <3>3 DEF Queue
        <4>2. \A p \in Ops : pc[p] # "idle" => pc'[p] # "idle"
          BY <1>0, <2>1
        <4> QED BY <1>0, <2>1, <3>1, <4>1, <4>2, GoneStays
      <3> QED BY <3>2, <3>3
    <2> QED BY <2>1, <2>3, <2>6 DEF OrphanInv, Indexed
  <1>6. ASSUME NEW k \in Keys, Disk(k)
        PROVE  OrphanInv'
    <2>1. lock[k] # <<>> /\ Release(k) /\ UNCHANGED <<order, before, restarts>> /\ unremoved \subseteq unremoved'
      BY <1>6 DEF Disk, ReadFile, WriteFile, WriteFails, RemoveFile, RemoveFails, index, history
    <2>2. /\ Job(k) \in Ops => KeyOf[Job(k)] = k /\ pc[Job(k)] = "locked"
          /\ lock'[k] = Tail(lock[k])
          /\ \A h \in Keys : h # k => lock'[h] = lock[h]
          /\ Job(k) \in Jobs
      BY <2>1, JobReleased
    <2>3. lock[k] \in Seq(Jobs) /\ Job(k) = Head(lock[k])
      BY <1>0 DEF Job
    <2>4. /\ \A v : RemovedAfter(lock[k], v) => RemovedAfter(lock'[k], v)
          /\ RemovedAfter(lock[k], Job(k)) => In(Removal, lock'[k])
          /\ In(Removal, lock[k]) /\ Job(k) # Removal => In(Removal, lock'[k])
      BY <2>1, <2>2, <2>3, ReleaseRemoval
    <2>5. /\ \A h \in Keys : h # k => file'[h] = file[h]
          /\ \A p \in Ops : p # Job(k) => UNCHANGED pc[p]
          /\ Job(k) \in Ops => pc'[Job(k)] \in {"read", "done"}
          /\ \/ file'[k] = NoFile
             \/ file'[k] = file[k] /\ Job(k) # Removal
             \/ file'[k] = file[k] /\ k \in unremoved'
             \/ file'[k] = Job(k) /\ Job(k) \in Sets
      <3>1. CASE ReadFile(k)
        BY <1>0, <3>1 DEF ReadFile
      <3>2. CASE WriteFile(k)
        BY <1>0, <3>2 DEF WriteFile
      <3>3. CASE WriteFails(k)
        BY <1>0, <3>3 DEF WriteFails
      <3>4. CASE RemoveFile(k) \/ RemoveFails(k)
        BY <1>0, <3>4 DEF RemoveFile, RemoveFails
      <3> QED BY <1>6, <3>1, <3>2, <3>3, <3>4 DEF Disk
    <2>6. \A p \in Ops : pc[p] # "idle" => pc'[p] # "idle"
      BY <2>5
    <2>7. FilesBegun'
      BY <1>0, <2>5, <2>6 DEF FilesBegun
    <2>8. ASSUME Gone(k), k \notin unremoved' PROVE Gone(k)'
      <3>1. \A p, v \in Ops : Overlapping(p, v) => Overlapping(p, v)'
        BY <2>1, <2>6 DEF Overlapping
      <3>2. \A v \in Ops : Lost(v, k) => \E p \in Ops : Overlapping(p, v)' /\ (p \in Gets => KeyOf[p] = k)
        BY <3>1 DEF Lost
      <3>3. ASSUME file'[k] # NoFile, ~In(Removal, lock'[k])
            PROVE  \E p \in Ops : Overlapping(p, file[k])' /\ (p \in Gets => KeyOf[p] = k)
        <4>1. PICK v \in Sets : v = file'[k] /\ Lost(v, k)
          <5>1. CASE file'[k] = Job(k) /\ Job(k) \in Sets
            BY <1>0, <2>2, <2>4, <2>8, <3>3, <5>1 DEF Gone
          <5>2. CASE file'[k] = file[k] /\ Job(k) # Removal
            BY <1>0, <2>4, <2>8, <3>3, <5>2 DEF Gone
          <5> QED BY <2>5, <2>8, <3>3, <5>1, <5>2
        <4>2. \E p \in Ops : Overlapping(p, v)' /\ (p \in Gets => KeyOf[p] = k)
          BY <1>0, <3>2, <4>1
        <4> QED BY <4>1, <4>2 DEF Overlapping
      <3>4. ASSUME NEW v \in Sets, KeyOf[v] = k
            PROVE  /\ pc'[v] = "yielded" => Lost(v, k)'
                   /\ pc'[v] = "locked" => RemovedAfter(lock'[k], v) \/ Lost(v, k)'
        <4>1. Lost(v, k) => Lost(v, k)'
          BY <1>0, <3>2 DEF Lost
        <4>2. pc'[v] \in {"yielded", "locked"} => pc[v] = pc'[v]
          BY <1>0, <2>5
        <4> QED BY <2>4, <2>8, <3>4, <4>1, <4>2 DEF Gone
      <3> QED BY <3>3, <3>4 DEF Gone, Lost
    <2>9. ASSUME NEW h \in Keys \ Indexed
          PROVE  restarts > 0 \/ h \in unremoved' \/ Gone(h)'
      <3>1. restarts > 0 \/ h \in unremoved' \/ Gone(h)
        BY <2>1 DEF OrphanInv
      <3>2. CASE h = k
        BY <2>8, <3>1, <3>2
      <3>3. CASE h # k
        <4>1. UNCHANGED <<lock[h], file[h]>> /\ \A v \in Sets : KeyOf[v] = h => UNCHANGED pc[v]
          BY <1>0, <2>2, <2>5, <3>3
        <4>2. Goes(k)
          BY <2>1 DEF Goes
        <4> QED BY <1>0, <2>6, <3>1, <4>1, <4>2, GoneStays
      <3> QED BY <3>2, <3>3
    <2> QED BY <2>1, <2>7, <2>9 DEF OrphanInv, Indexed
  <1>7. CASE Restart
    <2>1. restarts' > 0 /\ UNCHANGED file /\ \A p \in Ops : pc[p] # "idle" => pc'[p] # "idle"
      BY <1>0, <1>7 DEF Restart
    <2>2. FilesBegun'
      BY <1>0, <2>1 DEF FilesBegun
    <2> QED BY <2>1, <2>2 DEF OrphanInv
  <1>8. CASE Tick \/ UNCHANGED vars
    <2>1. UNCHANGED <<pc, order, lock, file, before, restarts, unremoved>>
      BY <1>8 DEF Tick, vars, index, history
    <2> QED BY <2>1 DEF OrphanInv, FilesBegun, Gone, Lost, Overlapping, Indexed, In, RemovedAfter
  <1> QED BY <1>1, <1>2, <1>3, <1>4, <1>5, <1>6, <1>7, <1>8 DEF Next

(* Without stale, a file whose key is not in the index, when nothing is    *)
(* going on, is there since a restart, because its removal failed, or      *)
(* because the set that wrote it was under way together with an operation  *)
(* that dropped its key.                                                   *)
THEOREM OrphansExplained == ~Stale => (Spec => []OrphansOnlyByOverlap)
  <1>1. OrphanInv => OrphansOnlyByOverlap
    <2> SUFFICES ASSUME OrphanInv, Quiescent, NEW k \in Keys \ Indexed
                 PROVE  \/ file[k] = NoFile \/ k \in unremoved \/ restarts > 0
                        \/ \E o \in Ops : Overlapping(o, file[k]) /\ (o \in Gets => KeyOf[o] = k)
      BY DEF OrphansOnlyByOverlap
    <2>1. lock[k] = <<>> /\ DOMAIN <<>> = {}
      BY EmptySeq DEF Quiescent
    <2> QED BY <2>1 DEF OrphanInv, Gone, Lost, In
  <1> SUFFICES ASSUME ~Stale PROVE Spec => []OrphansOnlyByOverlap
    OBVIOUS
  <1>2. TypeInv /\ EntryInv /\ [Next]_vars => EntryInv'
    BY NextEntry
  <1>3. TypeInv /\ ReadInv /\ EntryInv /\ OrphanInv /\ [Next]_vars => OrphanInv'
    BY NextOrphan DEF ReadInv
  <1> QED BY InitType, NextType, InitRead, NextRead, InitEntry, InitOrphan, <1>1, <1>2, <1>3, PTL DEF Spec

=============================================================================
