---------------------------- MODULE ClusterProofs ----------------------------
(***************************************************************************)
(* Cluster.tla for any number of workers, requests, signals and bounds:    *)
(* the types, and that the master replaces exactly the workers that died.  *)
(***************************************************************************)
EXTENDS Cluster, FiniteSetTheorems, TLAPS

(* The workers that count: alive, or dead and not yet handled.             *)
Counted == Alive \cup (Dead \ exited)

(* Kept apart from TypeOK, which it strengthens: what the master has       *)
(* forked, and so will replace, is as much as was asked for.               *)
Strength == ~linked /\ master = "running" => Cardinality(Counted) = numWorkers

(* The announcement is for whoever comes online first.                    *)
Announced == workersOnline = 0 => up = {}

IInv == TypeOK /\ Announced /\ Strength

-----------------------------------------------------------------------------
LEMMA InitIInv == Init => IInv
<1> SUFFICES ASSUME Init PROVE IInv
  OBVIOUS
<1> USE ClusterAssumption
<1>1. Asked \in Nat \ {0} /\ Asked <= MaxForks
  BY DEF Asked
<1>2. TypeOK
  <2>1. Cardinality({}) <= 1
    BY FS_EmptySet
  <2>2. linked \in BOOLEAN
    BY DEF Init
  <2>3. Asked \in Asked .. MaxForks /\ 1 \in Workers
    BY <1>1 DEF Workers
  <2> QED
    BY <1>1, <2>1, <2>2, <2>3 DEF Init, TypeOK, Workers, Dead
<1>3. Counted = 1 .. Asked
  BY <1>1 DEF Init, Counted, Alive, Dead, Workers
<1>4. Cardinality(1 .. Asked) = Asked
  BY <1>1, FS_Interval
<1>5. Strength
  BY <1>3, <1>4 DEF Asked, Strength
<1> QED
  BY <1>2, <1>5 DEF IInv, Init, Announced

LEMMA OnOnlinePreserves ==
    ASSUME IInv, NEW w \in Workers, OnOnline(w)
    PROVE  IInv'
<1> USE ClusterAssumption DEF Asked, IInv, OnOnline, shutdown
<1>1. Cardinality({}) = 0 /\ Cardinality({w}) = 1
  BY FS_EmptySet, FS_Singleton
<1>2. workersOnline' \in Nat /\ workersOnline' # 0
  BY DEF TypeOK
<1>3. up' \subseteq Workers /\ Cardinality(up') <= 1
  <2>1. CASE workersOnline = 0
    BY <2>1, <1>1 DEF Announced
  <2>2. CASE workersOnline # 0
    BY <2>2 DEF TypeOK
  <2> QED
    BY <2>1, <2>2
<1>4. state' \in [Workers -> {"none", "starting", "online", "dead"}] /\ Dead' = Dead
  BY DEF TypeOK, Dead
<1>5. /\ \A v \in Workers : state'[v] = "none" <=> v > forks
      /\ \A r \in Requests : req[r] = "served" => state'[server[r]] = "online"
  BY DEF TypeOK
<1>6. TypeOK'
  BY <1>2, <1>3, <1>4, <1>5 DEF TypeOK
<1>7. Counted' = Counted
  BY DEF TypeOK, Counted, Alive, Dead
<1> QED
  BY <1>2, <1>6, <1>7 DEF Announced, Strength

LEMMA RequestPreserves ==
    ASSUME IInv, NEW r \in Requests, Answer(r) \/ \E w \in Workers : Receive(r, w)
    PROVE  IInv'
<1> USE ClusterAssumption DEF Asked, IInv, Answer, Receive, online, shutdown
<1>a. /\ req' \in [Requests -> {"new", "served", "answered", "lost", "cut", "forced"}]
      /\ server' \in [Requests -> Workers]
      /\ \A q \in Requests : req'[q] = "served" => state[server'[q]] = "online"
  <2>1. CASE Answer(r)
    BY <2>1 DEF TypeOK
  <2>2. CASE \E w \in Workers : Receive(r, w)
    BY <2>2 DEF TypeOK
  <2> QED
    BY <2>1, <2>2
<1>b. UNCHANGED <<linked, forks, state, listed, exited, disconnected, workersOnline, up, handledSignal,
                  timers, killed, master, crashes, signals, targets>>
  OBVIOUS
<1>1. TypeOK'
  BY <1>a, <1>b DEF TypeOK, Dead
<1>2. Counted' = Counted
  BY DEF Counted, Alive, Dead
<1> QED
  BY <1>1, <1>2 DEF Announced, Strength

(* Whoever dies, for whatever reason, counts until the master handles it.  *)
LEMMA DyingCounts ==
    ASSUME TypeOK, NEW W \in SUBSET Alive, NEW fate \in {"lost", "cut", "forced"}, Die(W, fate),
           UNCHANGED <<forks, exited, disconnected, server>>
    PROVE  /\ Counted' = Counted
           /\ Dead \subseteq Dead'
           /\ state' \in [Workers -> {"none", "starting", "online", "dead"}]
           /\ \A w \in Workers : state'[w] = "none" <=> w > forks
           /\ req' \in [Requests -> {"new", "served", "answered", "lost", "cut", "forced"}]
           /\ \A r \in Requests : req'[r] = "served" => state'[server[r]] = "online"
<1> USE DEF Die, TypeOK, Alive, Dead
<1>1. \A w \in W : w \in Workers /\ state[w] \in {"starting", "online"} /\ w \notin exited
  OBVIOUS
<1>2. Counted' = Counted
  BY <1>1 DEF Counted
<1>3. \A r \in Requests : req'[r] = "served" => state'[server[r]] = "online"
  OBVIOUS
<1> QED
  BY <1>1, <1>2, <1>3

LEMMA DeathPreserves ==
    ASSUME IInv, NEW w \in Workers, Crash(w) \/ WorkerSignal(w)
    PROVE  IInv'
<1> USE ClusterAssumption DEF Asked, IInv, online, shutdown
<1>1. PICK fate \in {"lost", "cut"} : Die({w}, fate) /\ w \in Alive
  BY DEF Crash, WorkerSignal
<1>2. UNCHANGED <<linked, forks, listed, exited, disconnected, workersOnline, up, handledSignal, timers,
                  killed, master, server, signals, targets>> /\ crashes' \in 0 .. MaxCrashes
  BY DEF Crash, WorkerSignal, TypeOK
<1>3. /\ Counted' = Counted
      /\ Dead \subseteq Dead'
      /\ state' \in [Workers -> {"none", "starting", "online", "dead"}]
      /\ \A v \in Workers : state'[v] = "none" <=> v > forks
      /\ req' \in [Requests -> {"new", "served", "answered", "lost", "cut", "forced"}]
      /\ \A r \in Requests : req'[r] = "served" => state'[server[r]] = "online"
  BY <1>1, <1>2, DyingCounts
<1>4. TypeOK'
  BY <1>2, <1>3 DEF TypeOK
<1> QED
  BY <1>2, <1>3, <1>4 DEF Announced, Strength

(* The one that is handled stops counting, its replacement begins to.      *)
LEMMA OnExitPreserves ==
    ASSUME IInv, NEW w \in Workers, OnExit(w)
    PROVE  IInv'
<1> USE ClusterAssumption DEF Asked, IInv, online, shutdown
<1>1. /\ w \in Dead \ exited /\ exited' = exited \cup {w} /\ w \in Counted
      /\ listed \subseteq 1 .. forks /\ forks \in Asked .. MaxForks
      /\ UNCHANGED <<linked, disconnected, workersOnline, up, handledSignal, timers, signals, targets,
                      killed, req, server, crashes>>
      /\ master' \in {"running", "exited"} /\ master = "running"
  BY DEF OnExit, TypeOK, Counted
<1>2. Left(w) \subseteq listed /\ Left(w) \cap exited' \cap disconnected = {}
  BY <1>1 DEF Left, TypeOK
<1>3. CASE linked
  <2>1. UNCHANGED <<forks, state>> /\ listed' = Left(w)
    BY <1>3 DEF OnExit
  <2>2. TypeOK'
    BY <1>1, <1>2, <2>1 DEF TypeOK, Dead
  <2> QED
    BY <1>1, <1>3, <2>2 DEF Announced, Strength
<1>4. CASE ~linked
  <2> DEFINE n == forks + 1
  <2>1. /\ forks < MaxForks /\ forks' = n /\ state' = [state EXCEPT ![n] = "starting"]
        /\ listed' = Left(w) \cup {n}
    BY <1>4 DEF OnExit, Fork
  <2>2. n \in Workers /\ state[n] = "none" /\ n \notin Dead /\ n \notin Counted /\ n \notin exited'
    BY <1>1, <2>1 DEF TypeOK, Workers, Dead, Alive, Counted
  <2>3. state' \in [Workers -> {"none", "starting", "online", "dead"}] /\ Dead' = Dead
    BY <2>1, <2>2 DEF TypeOK, Dead
  <2>4. \A v \in Workers : state'[v] = "none" <=> v > n
    BY <1>1, <2>1, <2>2 DEF TypeOK, Workers
  <2>5. \A r \in Requests : req[r] = "served" => state'[server[r]] = "online"
    BY <2>1, <2>2 DEF TypeOK
  <2>6. listed' \subseteq 1 .. n /\ listed' \cap exited' \cap disconnected = {}
    <3>1. \A v \in 1 .. forks : v \in 1 .. n
      BY <1>1
    <3>2. n \in 1 .. n
      BY <1>1
    <3> QED
      BY <1>1, <1>2, <2>1, <2>2, <3>1, <3>2
  <2>7. n \in Asked .. MaxForks /\ killed \subseteq 1 .. n /\ targets \subseteq 1 .. n
    BY <1>1, <2>1 DEF TypeOK
  <2>8. TypeOK'
    BY <1>1, <2>1, <2>3, <2>4, <2>5, <2>6, <2>7 DEF TypeOK
  <2>9. Counted' = (Counted \ {w}) \cup {n}
    BY <1>1, <2>1, <2>2 DEF TypeOK, Counted, Alive, Dead
  <2>10. IsFiniteSet(Counted)
    <3>1. Counted \in SUBSET (1 .. MaxForks) /\ 1 \in Int /\ MaxForks \in Int
      BY DEF Counted, Alive, Dead, Workers
    <3> QED
      BY <3>1, FS_Interval, FS_Subset
  <2>11. Cardinality(Counted') = Cardinality(Counted)
    <3>1. IsFiniteSet(Counted \ {w}) /\ Cardinality(Counted \ {w}) = Cardinality(Counted) - 1
      BY <1>1, <2>10, FS_RemoveElement
    <3>2. Cardinality((Counted \ {w}) \cup {n}) = Cardinality(Counted \ {w}) + 1
      BY <2>2, <3>1, FS_AddElement
    <3> QED
      BY <2>9, <2>10, <3>1, <3>2, FS_CardinalityType
  <2> QED
    BY <1>1, <2>8, <2>11 DEF Announced, Strength
<1> QED
  BY <1>3, <1>4

LEMMA OnDisconnectPreserves ==
    ASSUME IInv, NEW w \in Workers, OnDisconnect(w)
    PROVE  IInv'
<1> USE ClusterAssumption DEF Asked, IInv, OnDisconnect, online, shutdown
<1>a. exited \cup disconnected' \subseteq Dead
  BY DEF TypeOK
<1>b. listed' \subseteq listed /\ listed' \cap exited \cap disconnected' = {}
  BY DEF TypeOK
<1>1. TypeOK'
  BY <1>a, <1>b DEF TypeOK, Dead
<1>2. Counted' = Counted
  BY DEF Counted, Alive, Dead
<1> QED
  BY <1>1, <1>2 DEF Announced, Strength

LEMMA HandleSignalPreserves ==
    ASSUME IInv, NEW s \in Signals, HandleSignal(s)
    PROVE  IInv'
<1> USE ClusterAssumption DEF Asked, IInv, HandleSignal, online
<1>1. signals' \in 0 .. MaxSignals
  BY DEF TypeOK
<1>2. TypeOK'
  BY <1>1 DEF TypeOK, Dead
<1>3. Counted' = Counted
  BY DEF Counted, Alive, Dead
<1> QED
  BY <1>2, <1>3 DEF Announced, Strength

LEMMA ForceKillPreserves ==
    ASSUME IInv, NEW s \in Signals, ForceKill(s)
    PROVE  IInv'
<1> USE ClusterAssumption DEF Asked, IInv, ForceKill, online, shutdown
<1>1. /\ Dead \subseteq Dead'
      /\ state' \in [Workers -> {"none", "starting", "online", "dead"}]
      /\ \A w \in Workers : state'[w] = "none" <=> w > forks
      /\ req' \in [Requests -> {"new", "served", "answered", "lost", "cut", "forced"}]
      /\ \A r \in Requests : req'[r] = "served" => state'[server[r]] = "online"
  BY DyingCounts
<1>2. TypeOK'
  BY <1>1 DEF TypeOK
<1> QED
  BY <1>2 DEF Announced, Strength

LEMMA StepIInv == IInv /\ [Next]_vars => IInv'
<1> SUFFICES ASSUME IInv, [Next]_vars PROVE IInv'
  OBVIOUS
<1>1. CASE UNCHANGED vars
  BY <1>1 DEF vars, Asked, IInv, TypeOK, Announced, Strength, Counted, Alive, Dead
<1>2. CASE Next
  BY <1>2, OnOnlinePreserves, RequestPreserves, DeathPreserves, OnExitPreserves,
     OnDisconnectPreserves, HandleSignalPreserves, ForceKillPreserves DEF Next
<1> QED
  BY <1>1, <1>2

-----------------------------------------------------------------------------
(* The invariant holds of every behaviour of the cluster.                  *)
THEOREM ClusterInvariance == Spec => []IInv
  BY InitIInv, StepIInv, PTL DEF Spec

(* Types, among them that the service is announced by one worker at most.  *)
THEOREM ClusterTypeCorrect == Spec => []TypeOK
<1>1. IInv => TypeOK
  BY DEF IInv
<1> QED
  BY <1>1, ClusterInvariance, PTL

(* As long as the master runs, workers alive and deaths still unhandled    *)
(* add up to what the service asked for, whatever died and why.            *)
THEOREM FullStrengthKept == Spec => []FullStrength
<1>1. IInv => FullStrength
  BY DEF IInv, TypeOK, Asked, Strength, Counted, FullStrength
<1> QED
  BY <1>1, ClusterInvariance, PTL
=============================================================================
