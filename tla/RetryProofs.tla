----------------------------- MODULE RetryProofs -----------------------------
(***************************************************************************)
(* The guarantees of Retry.tla for any calls, concurrency and number of    *)
(* retries.                                                                *)
(***************************************************************************)
EXTENDS Retry, FiniteSetTheorems, TLAPS

Queued == {c \in Calls : pc[c] = "queued"}

(* The executions an attempt under way may still add.                      *)
Open(c) == IF attempt[c] = "sent" THEN 1 ELSE 0

(* What the origin did or may still do of a call is paid for by attempts;  *)
(* a call neither idempotent nor lost was never sent again.                *)
Spent(c) ==
    /\ executed[c] \in Nat /\ late[c] \in Nat
    /\ pc[c] \in {"idle", "queued"} => executed[c] + late[c] = 0 /\ retryCount[c] = 0
    /\ executed[c] + late[c] + Open(c) <= retryCount[c] + 1
    /\ pc[c] = "backoff" => executed[c] + late[c] <= retryCount[c]
    /\ attempt[c] = "stillborn" => executed[c] + late[c] <= retryCount[c]
    /\ c \notin Idempotent \cup lost => retryCount[c] = 0

Phases == {"idle", "queued", "sending", "backoff", "ok", "failed"}
Attempts == {"none", "sent", "executed", "stillborn"}
Typed ==
    /\ pc \in [Calls -> Phases]
    /\ attempt \in [Calls -> Attempts]
    /\ \A c \in Calls : attempt[c] # "none" <=> pc[c] = "sending"
    /\ retryCount \in [Calls -> 0 .. retries]
    /\ late \in [Calls -> Nat] /\ executed \in [Calls -> Nat]
    /\ cancelled \subseteq Cancellable /\ lost \subseteq Calls
QueueInv == queue \in Seq(Calls) /\ IsInjective(queue) /\ ToSet(queue) = Queued
IInv == Typed /\ QueueInv /\ SlotsInUse /\ \A c \in Calls : Spent(c)

-----------------------------------------------------------------------------
LEMMA Enqueued ==
    ASSUME NEW s \in Seq(Calls), IsInjective(s), NEW c \in Calls, c \notin ToSet(s)
    PROVE  /\ Append(s, c) \in Seq(Calls) /\ IsInjective(Append(s, c))
           /\ ToSet(Append(s, c)) = ToSet(s) \cup {c}
<1>1. /\ Append(s, c) \in Seq(Calls) /\ Len(Append(s, c)) = Len(s) + 1 /\ Len(s) \in Nat
      /\ \A i \in 1 .. Len(s) : Append(s, c)[i] = s[i]
      /\ Append(s, c)[Len(s) + 1] = c
      /\ DOMAIN s = 1 .. Len(s) /\ DOMAIN Append(s, c) = 1 .. Len(s) + 1
  OBVIOUS
<1>2. \A i \in 1 .. Len(s) + 1 : i \in 1 .. Len(s) \/ i = Len(s) + 1
  BY <1>1
<1>3. \A i \in 1 .. Len(s) : s[i] # c
  BY <1>1 DEF ToSet
<1>4. IsInjective(Append(s, c))
  BY <1>1, <1>2, <1>3 DEF IsInjective
<1>5. ToSet(Append(s, c)) = ToSet(s) \cup {c}
  BY <1>1, <1>2 DEF ToSet
<1> QED
  BY <1>1, <1>4, <1>5

LEMMA Dequeued ==
    ASSUME NEW s \in Seq(Calls), IsInjective(s), s # <<>>
    PROVE  /\ Tail(s) \in Seq(Calls) /\ IsInjective(Tail(s))
           /\ Head(s) \in ToSet(s) /\ ToSet(Tail(s)) = ToSet(s) \ {Head(s)}
<1>1. /\ Tail(s) \in Seq(Calls) /\ Len(Tail(s)) = Len(s) - 1 /\ Len(s) \in Nat \ {0}
      /\ \A i \in 1 .. Len(s) - 1 : Tail(s)[i] = s[i + 1]
      /\ Head(s) = s[1]
      /\ DOMAIN s = 1 .. Len(s) /\ DOMAIN Tail(s) = 1 .. Len(s) - 1
  OBVIOUS
<1>2. IsInjective(Tail(s))
  BY <1>1 DEF IsInjective
<1>3. ToSet(Tail(s)) = ToSet(s) \ {Head(s)}
  <2>1. \A x \in ToSet(Tail(s)) : x \in ToSet(s) /\ x # s[1]
    BY <1>1 DEF ToSet, IsInjective
  <2>2. ASSUME NEW x \in ToSet(s), x # s[1] PROVE x \in ToSet(Tail(s))
    <3>1. PICK i \in 1 .. Len(s) : x = s[i]
      BY <1>1 DEF ToSet
    <3>2. i - 1 \in 1 .. Len(s) - 1 /\ Tail(s)[i - 1] = s[i]
      BY <1>1, <2>2, <3>1
    <3> QED
      BY <1>1, <3>1, <3>2 DEF ToSet
  <2> QED
    BY <1>1, <2>1, <2>2
<1>4. Head(s) \in ToSet(s)
  <2>1. 1 \in DOMAIN s /\ Head(s) = s[1]
    BY <1>1
  <2> QED
    BY <2>1 DEF ToSet
<1> QED
  BY <1>1, <1>2, <1>3, <1>4

LEMMA ActiveFinite == IsFiniteSet(Active) /\ Cardinality(Active) \in Nat
<1>1. Active \in SUBSET Calls
  BY DEF Active
<1> QED
  BY <1>1, RetryAssumption, FS_Subset, FS_CardinalityType

LEMMA InitIInv == Init => IInv
<1> SUFFICES ASSUME Init PROVE IInv
  OBVIOUS
<1> USE RetryAssumption DEF Init
<1>1. Typed
  BY DEF Typed, Phases, Attempts
<1>2. QueueInv
  <2>1. Queued = {} /\ ToSet(<<>>) = {} /\ IsInjective(<<>>) /\ <<>> \in Seq(Calls)
    BY DEF Queued, ToSet, IsInjective
  <2> QED
    BY <2>1 DEF QueueInv
<1>3. SlotsInUse
  <2>1. Active = {}
    BY DEF Active
  <2> QED
    BY <2>1, FS_EmptySet DEF SlotsInUse
<1>4. \A c \in Calls : Spent(c)
  BY DEF Spent, Open
<1> QED
  BY <1>1, <1>2, <1>3, <1>4 DEF IInv

-----------------------------------------------------------------------------
(* The slots and their queue.                                              *)
LEMMA AskSlots == ASSUME IInv, NEW c \in Calls, Ask(c) PROVE QueueInv' /\ SlotsInUse'
<1> USE RetryAssumption DEF IInv
<1>1. pc[c] = "idle" /\ c \notin ToSet(queue)
  BY DEF Ask, QueueInv, Queued
<1>2. CASE Full
  <2>1. pc' = [pc EXCEPT ![c] = "queued"] /\ queue' = Append(queue, c)
    BY <1>2 DEF Ask
  <2>2. Queued' = Queued \cup {c} /\ Active' = Active
    BY <1>1, <2>1 DEF Queued, Active, Typed
  <2>3. concurrency > 0 /\ Cardinality(Active) = concurrency
    BY <1>2, ActiveFinite DEF Full, SlotsInUse
  <2> QED
    BY <1>1, <2>1, <2>2, <2>3, Enqueued DEF QueueInv, SlotsInUse
<1>3. CASE ~Full
  <2>1. pc' = [pc EXCEPT ![c] = "sending"] /\ queue' = queue
    BY <1>3 DEF Ask
  <2>2. Queued' = Queued /\ Active' = Active \cup {c} /\ c \notin Active
    BY <1>1, <2>1 DEF Queued, Active, Typed
  <2>3. Cardinality(Active') = Cardinality(Active) + 1
    BY <2>2, ActiveFinite, FS_AddElement
  <2>4. concurrency > 0 => Cardinality(Active) < concurrency /\ queue = <<>>
    BY <1>3, ActiveFinite DEF Full, SlotsInUse
  <2> QED
    BY <2>1, <2>2, <2>3, <2>4, ActiveFinite DEF QueueInv, SlotsInUse
<1> QED
  BY <1>2, <1>3

LEMMA FinishSlots ==
    ASSUME IInv, NEW c \in Calls, NEW outcome \in {"ok", "failed"}, attempt[c] # "none",
           Finish(c, outcome)
    PROVE  QueueInv' /\ SlotsInUse'
<1> USE RetryAssumption DEF IInv
<1>1. pc[c] = "sending" /\ c \in Active
  BY DEF Typed, Active
<1>2. CASE queue = <<>>
  <2>1. pc' = [pc EXCEPT ![c] = outcome] /\ queue' = queue
    BY <1>2 DEF Finish
  <2>2. Queued' = Queued /\ Active' = Active \ {c}
    BY <1>1, <2>1 DEF Queued, Active, Typed
  <2>3. Cardinality(Active') = Cardinality(Active) - 1
    BY <1>1, <2>2, ActiveFinite, FS_RemoveElement
  <2> QED
    BY <1>2, <2>1, <2>2, <2>3, ActiveFinite DEF QueueInv, SlotsInUse
<1>3. CASE queue # <<>>
  <2> DEFINE d == Head(queue)
  <2>1. pc' = [pc EXCEPT ![c] = outcome, ![d] = "sending"] /\ queue' = Tail(queue)
    BY <1>3 DEF Finish
  <2>2. d \in Queued /\ ToSet(Tail(queue)) = Queued \ {d}
        /\ Tail(queue) \in Seq(Calls) /\ IsInjective(Tail(queue))
    BY <1>3, Dequeued DEF QueueInv
  <2> HIDE DEF d
  <2>3. d \in Calls /\ pc[d] = "queued" /\ d # c
    BY <1>1, <2>2 DEF Queued
  <2>4. Queued' = Queued \ {d}
    BY <1>1, <2>1, <2>3 DEF Queued, Typed
  <2>5. Active' = (Active \ {c}) \cup {d} /\ d \notin Active
    BY <1>1, <2>1, <2>3 DEF Active, Typed
  <2>6. Cardinality(Active') = Cardinality(Active)
    <3>1. IsFiniteSet(Active \ {c}) /\ Cardinality(Active \ {c}) = Cardinality(Active) - 1
      BY <1>1, ActiveFinite, FS_RemoveElement
    <3>2. Cardinality(Active') = Cardinality(Active \ {c}) + 1
      BY <2>5, <3>1, FS_AddElement
    <3> QED
      BY <3>1, <3>2, ActiveFinite
  <2> QED
    BY <1>3, <2>1, <2>2, <2>4, <2>6 DEF QueueInv, SlotsInUse
<1> QED
  BY <1>2, <1>3

LEMMA HeldSlots ==
    ASSUME IInv, Active' = Active, Queued' = Queued, UNCHANGED queue
    PROVE  QueueInv' /\ SlotsInUse'
BY DEF IInv, QueueInv, SlotsInUse

LEMMA SlotsStep == IInv /\ [Next]_vars => QueueInv' /\ SlotsInUse'
<1> SUFFICES ASSUME IInv, [Next]_vars PROVE QueueInv' /\ SlotsInUse'
  OBVIOUS
<1>1. ASSUME NEW c \in Calls, NEW outcome \in {"ok", "failed"}, attempt[c] # "none", Finish(c, outcome)
      PROVE  QueueInv' /\ SlotsInUse'
  BY <1>1, FinishSlots
<1>2. ASSUME NEW c \in Calls, attempt[c] # "none", BackOff(c) PROVE QueueInv' /\ SlotsInUse'
  <2>1. Active' = Active /\ Queued' = Queued
    BY <1>2 DEF BackOff, Active, Queued, IInv, Typed
  <2> QED
    BY <1>2, <2>1, HeldSlots DEF BackOff
<1>3. ASSUME NEW c \in Calls, SendAgain(c) PROVE QueueInv' /\ SlotsInUse'
  <2>1. Active' = Active /\ Queued' = Queued
    BY <1>3 DEF SendAgain, Active, Queued, IInv, Typed
  <2> QED
    BY <1>3, <2>1, HeldSlots DEF SendAgain
<1>4. ASSUME UNCHANGED <<pc, queue>> PROVE QueueInv' /\ SlotsInUse'
  BY <1>4, HeldSlots DEF Active, Queued
<1>5. ASSUME NEW c \in Calls, Succeeds(c) \/ Refused(c) \/ Unanswered(c) \/ Cancelled(c)
      PROVE  QueueInv' /\ SlotsInUse'
  BY <1>1, <1>2, <1>5 DEF Succeeds, Refused, Unanswered, Cancelled, OnResponseError, UnderWay
<1>6. ASSUME NEW c \in Calls, Cancel(c) \/ OriginExecutes(c) \/ OriginExecutesLate(c)
      PROVE  QueueInv' /\ SlotsInUse'
  BY <1>4, <1>6 DEF Cancel, OriginExecutes, OriginExecutesLate, Execute
<1> QED
  BY AskSlots, <1>3, <1>4, <1>5, <1>6 DEF Next, vars

-----------------------------------------------------------------------------
(* What each step does to the attempts and executions of the calls.        *)
Accounts == Typed /\ \A c \in Calls : Spent(c)
LateBy(c) == late' = late \/ (attempt[c] = "sent" /\ late' = [late EXCEPT ![c] = @ + 1])

LEMMA FinishAccounts ==
    ASSUME IInv, NEW c \in Calls, NEW outcome \in {"ok", "failed"}, attempt[c] # "none",
           Finish(c, outcome), UNCHANGED <<retryCount, executed, cancelled>>, LateBy(c),
           lost' \in {lost, lost \cup {c}}
    PROVE  Accounts'
<1> USE RetryAssumption DEF IInv, Typed, Phases, Attempts
<1>1. pc[c] = "sending"
  OBVIOUS
<1>2. late' \in [Calls -> Nat] /\ \A x \in Calls \ {c} : late'[x] = late[x]
  BY DEF LateBy
<1>3. late'[c] = late[c] \/ (attempt[c] = "sent" /\ late'[c] = late[c] + 1)
  BY DEF LateBy
<1>4. CASE queue = <<>>
  <2>1. pc' = [pc EXCEPT ![c] = outcome] /\ attempt' = [attempt EXCEPT ![c] = "none"]
    BY <1>4 DEF Finish
  <2>2. Typed'
    BY <1>2, <2>1
  <2>3. Spent(c)'
    BY <1>1, <1>2, <1>3, <2>1 DEF Spent, Open
  <2>4. \A x \in Calls \ {c} : Spent(x)'
    BY <1>2, <2>1 DEF Spent, Open
  <2> QED
    BY <2>2, <2>3, <2>4 DEF Accounts
<1>5. CASE queue # <<>>
  <2>0. PICK d \in Calls : d = Head(queue) /\ pc[d] = "queued"
    BY <1>5, Dequeued DEF QueueInv, Queued
  <2>1. /\ pc' = [pc EXCEPT ![c] = outcome, ![d] = "sending"]
        /\ attempt' = [attempt EXCEPT ![c] = "none", ![d] = Attempt(d)]
    BY <1>5, <2>0 DEF Finish
  <2>2. pc[d] = "queued" /\ d # c /\ Attempt(d) \in {"sent", "stillborn"}
    BY <1>1, <2>0 DEF Attempt
  <2>3. Typed'
    BY <1>2, <2>1, <2>2
  <2>4. Spent(c)'
    BY <1>1, <1>2, <1>3, <2>1, <2>2 DEF Spent, Open
  <2>5. Spent(d)'
    <3>1. /\ pc'[d] = "sending" /\ attempt'[d] \in {"sent", "stillborn"} /\ attempt[d] = "none"
          /\ late'[d] = late[d] /\ executed'[d] = executed[d] /\ retryCount'[d] = retryCount[d]
      BY <1>2, <2>1, <2>2
    <3>2. Spent(d)
      BY <2>2
    <3>3. executed[d] + late[d] = 0 /\ retryCount[d] = 0 /\ executed[d] \in Nat /\ late[d] \in Nat
      BY <2>2, <3>2 DEF Spent
    <3> QED
      BY ONLY <3>1, <3>3 DEF Spent, Open
  <2>6. \A x \in Calls \ {c, d} : Spent(x)'
    BY <1>2, <2>1, <2>2 DEF Spent, Open
  <2> QED
    BY <2>3, <2>4, <2>5, <2>6 DEF Accounts
<1> QED
  BY <1>4, <1>5

LEMMA BackOffAccounts ==
    ASSUME IInv, NEW c \in Calls, UnderWay(c), BackOff(c), retryCount[c] < retries,
           UNCHANGED <<executed, cancelled>>, LateBy(c),
           lost' \in {lost, lost \cup {c}}, c \in Idempotent \cup lost'
    PROVE  Accounts'
<1> USE RetryAssumption DEF IInv, Typed, Phases, Attempts
<1>1. pc[c] = "sending"
  BY DEF UnderWay
<1>2. late' \in [Calls -> Nat] /\ \A x \in Calls \ {c} : late'[x] = late[x]
  BY DEF LateBy
<1>3. late'[c] = late[c] \/ (attempt[c] = "sent" /\ late'[c] = late[c] + 1)
  BY DEF LateBy
<1>4. /\ pc' = [pc EXCEPT ![c] = "backoff"] /\ attempt' = [attempt EXCEPT ![c] = "none"]
      /\ retryCount' = [retryCount EXCEPT ![c] = @ + 1]
  BY DEF BackOff
<1>5. Typed'
  BY <1>2, <1>4
<1>6. Spent(c)'
  BY <1>1, <1>2, <1>3, <1>4 DEF Spent, Open
<1>7. \A x \in Calls \ {c} : Spent(x)'
  BY <1>2, <1>4 DEF Spent, Open
<1> QED
  BY <1>5, <1>6, <1>7 DEF Accounts

LEMMA AccountsStep == IInv /\ [Next]_vars => Accounts'
<1> SUFFICES ASSUME IInv, [Next]_vars PROVE Accounts'
  OBVIOUS
<1> USE RetryAssumption
<1>1. ASSUME NEW c \in Calls, Ask(c) \/ SendAgain(c) PROVE Accounts'
  <2>1. Attempt(c) \in {"sent", "stillborn"} /\ pc[c] \in {"idle", "backoff"}
    BY <1>1 DEF Attempt, Ask, SendAgain
  <2>2. Typed'
    <3>1. \E p \in {"queued", "sending"} :
            /\ pc' = [pc EXCEPT ![c] = p]
            /\ attempt' = IF p = "sending" THEN [attempt EXCEPT ![c] = Attempt(c)] ELSE attempt
      BY <1>1 DEF Ask, SendAgain
    <3>2. UNCHANGED <<retryCount, late, executed, cancelled, lost>>
      BY <1>1 DEF Ask, SendAgain, origin
    <3>3. CASE pc' = [pc EXCEPT ![c] = "queued"] /\ UNCHANGED attempt
      BY <2>1, <3>2, <3>3, SMTT(30) DEF IInv, Typed, Phases, Attempts
    <3>4. CASE /\ pc' = [pc EXCEPT ![c] = "sending"]
               /\ attempt' = [attempt EXCEPT ![c] = Attempt(c)]
      BY <2>1, <3>2, <3>4, SMTT(30) DEF IInv, Typed, Phases, Attempts
    <3> QED
      BY <3>1, <3>3, <3>4
  <2>3. Spent(c)'
    BY <1>1, <2>1 DEF Ask, SendAgain, origin, IInv, Typed, Attempts, Spent, Open
  <2>4. \A x \in Calls \ {c} : Spent(x)'
    BY <1>1, <2>1 DEF Ask, SendAgain, origin, IInv, Typed, Spent, Open
  <2> QED
    BY <2>2, <2>3, <2>4 DEF Accounts
<1>2. ASSUME NEW c \in Calls, Succeeds(c) PROVE Accounts'
  BY <1>2, FinishAccounts DEF Succeeds, origin, LateBy
<1>3. ASSUME NEW c \in Calls, Refused(c) PROVE Accounts'
  <2>1. PICK retryable \in BOOLEAN : (retryable => c \in Idempotent) /\ OnResponseError(c, retryable)
    BY <1>3 DEF Refused
  <2> QED
    BY <1>3, <2>1, FinishAccounts, BackOffAccounts DEF Refused, OnResponseError, UnderWay, origin, LateBy
<1>4. ASSUME NEW c \in Calls, Unanswered(c) PROVE Accounts'
  <2>1. LateBy(c)
    BY <1>4 DEF Unanswered, GivenUp, LateBy
  <2> QED
    BY <1>4, <2>1, FinishAccounts, BackOffAccounts DEF Unanswered, OnResponseError, UnderWay
<1>5. ASSUME NEW c \in Calls, Cancelled(c) PROVE Accounts'
  <2>1. LateBy(c)
    BY <1>5 DEF Cancelled, GivenUp, LateBy
  <2> QED
    BY <1>5, <2>1, FinishAccounts DEF Cancelled
<1>6. ASSUME NEW c \in Calls, OriginExecutes(c) \/ OriginExecutesLate(c) PROVE Accounts'
  <2>1. Typed'
    BY <1>6 DEF OriginExecutes, OriginExecutesLate, Execute, IInv, Typed, Attempts
  <2>2. Spent(c)'
    BY <1>6 DEF OriginExecutes, OriginExecutesLate, Execute, IInv, Typed, Attempts, Spent, Open
  <2>3. \A x \in Calls \ {c} : Spent(x)'
    BY <1>6 DEF OriginExecutes, OriginExecutesLate, Execute, IInv, Typed, Spent, Open
  <2> QED
    BY <2>1, <2>2, <2>3 DEF Accounts
<1>7. ASSUME NEW c \in Calls, Cancel(c) PROVE Accounts'
  BY <1>7 DEF Cancel, origin, IInv, Typed, Accounts, Spent, Open
<1>8. ASSUME UNCHANGED vars PROVE Accounts'
  BY <1>8 DEF vars, IInv, Typed, Accounts, Spent, Open
<1> QED
  BY <1>1, <1>2, <1>3, <1>4, <1>5, <1>6, <1>7, <1>8 DEF Next

THEOREM RetryInvariance == Spec => []IInv
<1>1. IInv /\ [Next]_vars => IInv'
  BY SlotsStep, AccountsStep DEF IInv, Accounts
<1> QED
  BY InitIInv, <1>1, PTL DEF Spec

-----------------------------------------------------------------------------
(* No more attempts and backoffs than slots, and none idle while a call    *)
(* queues.                                                                 *)
THEOREM SlotsCorrect == Spec => []SlotsInUse
<1>1. IInv => SlotsInUse
  BY DEF IInv
<1> QED
  BY RetryInvariance, <1>1, PTL

(* A write is done twice only if an answer to it was lost, however many    *)
(* retries are configured.                                                 *)
THEOREM WritesCorrect == Spec => []WritesRepeatOnlyUnanswered
<1>1. IInv => WritesRepeatOnlyUnanswered
  BY RetryAssumption DEF IInv, Typed, Spent, Open, WritesRepeatOnlyUnanswered
<1> QED
  BY RetryInvariance, <1>1, PTL

(* Every variable keeps its type.                                          *)
THEOREM RetryTypeCorrect == Spec => []TypeOK
<1>1. ASSUME IInv PROVE TypeOK
  <2>1. ASSUME NEW c \in Calls PROVE executed[c] \in 0 .. retries + 1 /\ late[c] \in 0 .. retries + 1
    <3>1. retryCount[c] \in 0 .. retries /\ retries \in Nat /\ Spent(c)
      BY <1>1, RetryAssumption DEF IInv, Typed
    <3> QED
      BY <3>1 DEF Spent, Open
  <2>2. executed \in [Calls -> 0 .. retries + 1] /\ late \in [Calls -> 0 .. retries + 1]
    BY <1>1, <2>1 DEF IInv, Typed
  <2>3. queue \in Seq(Calls) /\ IsInjective(queue) /\ ToSet(queue) = {c \in Calls : pc[c] = "queued"}
    BY <1>1 DEF IInv, QueueInv, Queued
  <2> QED
    BY <1>1, <2>2, <2>3 DEF IInv, Typed, Phases, Attempts, TypeOK
<1> QED
  BY RetryInvariance, <1>1, PTL
=============================================================================
