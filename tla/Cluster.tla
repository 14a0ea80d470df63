------------------------------ MODULE Cluster ------------------------------
(***************************************************************************)
(* src/src/service/master.ts and worker/listeners.ts: the master forks the *)
(* workers that serve requests, replaces those that die and, on SIGINT or  *)
(* SIGTERM, passes the signal on and gives the process a time to end.      *)
(*                                                                         *)
(* External: Node's cluster, as of the releases (16 on; the repository     *)
(* publishes with 22) in which worker.kill just sends the signal, so that  *)
(* exitedAfterDisconnect is false.  A worker leaves cluster.workers when   *)
(* both its exit and the end of its channel have been noticed, in either   *)
(* order.                                                                  *)
(***************************************************************************)
EXTENDS Naturals, FiniteSets

CONSTANTS
    numWorkers,     \* service.workers of a deployed app
    Modes,          \* values of LINKED: linked for development, or deployed
    Requests,
    Signals,        \* SIGINT, SIGTERM
    NoSignal,       \* handledSignal = undefined
    MaxForks,       \* bounds on forks,
    MaxCrashes,     \* on workers that die by themselves
    MaxSignals      \* and on signals received

ASSUME ClusterAssumption ==
    /\ numWorkers \in Nat \ {0}
    /\ Modes \subseteq BOOLEAN
    /\ NoSignal \notin Signals
    /\ {MaxForks, MaxCrashes, MaxSignals} \subseteq Nat
    /\ MaxForks >= numWorkers

Workers == 1 .. MaxForks

VARIABLES
    linked,         \* LINKED
    forks,          \* how many workers were forked
    state,          \* state[w]: "none", "starting", "online", "dead"
    listed,         \* cluster.workers
    exited,         \* the workers whose exit event ran
    disconnected,   \* and whose channel ended
    workersOnline,
    up,             \* the workers that were sent UP_SIGNAL
    handledSignal,
    timers,         \* the signals whose timeout is running
    killed,         \* the workers a signal is on its way to
    master,         \* "running", "exited"
    req,            \* req[r]: "new", "served", "answered", or how it ended
    server,         \* server[r]: the worker that got it
    crashes, signals, \* how many there were
    targets         \* the workers there were at the first signal (history)

vars == <<linked, forks, state, listed, exited, disconnected, workersOnline, up, handledSignal,
          timers, killed, master, req, server, crashes, signals, targets>>
online == <<workersOnline, up>>
shutdown == <<handledSignal, timers, signals, targets>>

-----------------------------------------------------------------------------
(* getWorkers: one while linking.                                          *)
Asked == IF linked THEN 1 ELSE numWorkers

Alive == {w \in Workers : state[w] \in {"starting", "online"}}
Dead == {w \in Workers : state[w] = "dead"}

TypeOK ==
    /\ linked \in BOOLEAN
    /\ forks \in Asked .. MaxForks
    /\ state \in [Workers -> {"none", "starting", "online", "dead"}]
    /\ \A w \in Workers : state[w] = "none" <=> w > forks
    /\ exited \cup disconnected \subseteq Dead
    /\ listed \subseteq 1 .. forks
    /\ listed \cap exited \cap disconnected = {}
    /\ workersOnline \in Nat
    /\ up \subseteq Workers /\ Cardinality(up) <= 1
    /\ handledSignal \in Signals \cup {NoSignal}
    /\ timers \subseteq Signals
    /\ killed \subseteq 1 .. forks
    /\ master \in {"running", "exited"}
    /\ req \in [Requests -> {"new", "served", "answered", "lost", "cut", "forced"}]
    /\ server \in [Requests -> Workers]
    /\ \A r \in Requests : req[r] = "served" => state[server[r]] = "online"
    /\ crashes \in 0 .. MaxCrashes
    /\ signals \in 0 .. MaxSignals
    /\ targets \subseteq 1 .. forks

(* startMaster                                                             *)
Init ==
    /\ linked \in Modes
    /\ forks = Asked
    /\ state = [w \in Workers |-> IF w <= Asked THEN "starting" ELSE "none"]
    /\ listed = 1 .. Asked
    /\ exited = {} /\ disconnected = {}
    /\ workersOnline = 0 /\ up = {}
    /\ handledSignal = NoSignal /\ timers = {} /\ killed = {}
    /\ master = "running"
    /\ req = [r \in Requests |-> "new"]
    /\ server = [r \in Requests |-> 1]
    /\ crashes = 0 /\ signals = 0
    /\ targets = {}

-----------------------------------------------------------------------------
(* The first worker online is told to announce that the service is up.     *)
OnOnline(w) ==
    /\ master = "running"
    /\ state[w] = "starting"
    /\ state' = [state EXCEPT ![w] = "online"]
    /\ workersOnline' = workersOnline + 1
    /\ up' = IF workersOnline' = 1 THEN up \cup {w} ELSE up
    /\ UNCHANGED <<linked, forks, listed, exited, disconnected, shutdown, killed, master, req,
                   server, crashes>>

Receive(r, w) ==
    /\ master = "running"
    /\ req[r] = "new"
    /\ state[w] = "online"
    /\ req' = [req EXCEPT ![r] = "served"]
    /\ server' = [server EXCEPT ![r] = w]
    /\ UNCHANGED <<linked, forks, state, listed, exited, disconnected, online, shutdown,
                   killed, master,
                   crashes>>

Answer(r) ==
    /\ req[r] = "served"
    /\ req' = [req EXCEPT ![r] = "answered"]
    /\ UNCHANGED <<linked, forks, state, listed, exited, disconnected, online, shutdown,
                   killed, master,
                   server, crashes>>

(* Some workers die, and what becomes of the requests they were serving.   *)
Die(W, fate) ==
    /\ state' = [w \in Workers |-> IF w \in W THEN "dead" ELSE state[w]]
    /\ req' = [r \in Requests |-> IF req[r] = "served" /\ server[r] \in W THEN fate ELSE req[r]]

(* uncaughtException, or the system.                                       *)
Crash(w) ==
    /\ crashes < MaxCrashes
    /\ w \in Alive
    /\ Die({w}, "lost")
    /\ crashes' = crashes + 1
    /\ UNCHANGED <<linked, forks, listed, exited, disconnected, online, shutdown, killed,
                   master, server>>

(* The worker's own handleSignal: process.exit.                            *)
WorkerSignal(w) ==
    /\ w \in killed \cap Alive
    /\ Die({w}, "cut")
    /\ UNCHANGED <<linked, forks, listed, exited, disconnected, online, shutdown, killed,
                   master, server, crashes>>

-----------------------------------------------------------------------------
(* onExit: a worker that died is replaced, and the master is done when it  *)
(* was told to end and has no worker left.                                 *)
Left(w) == IF w \in disconnected THEN listed \ {w} ELSE listed
Fork ==
    /\ forks < MaxForks
    /\ forks' = forks + 1
    /\ state' = [state EXCEPT ![forks + 1] = "starting"]

(* Faulty variant: until all are online the dead are not replaced.         *)
OnExit_OnlineOnly(w) ==
    /\ master = "running"
    /\ w \in Dead \ exited
    /\ exited' = exited \cup {w}
    /\ IF ~linked /\ workersOnline >= numWorkers
       THEN Fork /\ listed' = Left(w) \cup {forks + 1}
       ELSE UNCHANGED <<forks, state>> /\ listed' = Left(w)
    /\ master' = IF handledSignal # NoSignal /\ listed' = {} THEN "exited" ELSE master
    /\ UNCHANGED <<linked, disconnected, online, shutdown, killed, req, server, crashes>>

OnExit(w) ==
    /\ master = "running"
    /\ w \in Dead \ exited
    /\ exited' = exited \cup {w}
    /\ IF ~linked
       THEN Fork /\ listed' = Left(w) \cup {forks + 1}
       ELSE UNCHANGED <<forks, state>> /\ listed' = Left(w)
    /\ master' = IF handledSignal # NoSignal /\ listed' = {} THEN "exited" ELSE master
    /\ UNCHANGED <<linked, disconnected, online, shutdown, killed, req, server, crashes>>

OnDisconnect(w) ==
    /\ master = "running"
    /\ w \in Dead \ disconnected
    /\ disconnected' = disconnected \cup {w}
    /\ listed' = IF w \in exited THEN listed \ {w} ELSE listed
    /\ UNCHANGED <<linked, forks, state, exited, online, shutdown, killed, master, req, server,
                   crashes>>

(* Faulty variant: the master waits for its workers with no limit.         *)
HandleSignal_NoTimer(s) ==
    /\ master = "running"
    /\ signals < MaxSignals
    /\ signals' = signals + 1
    /\ killed' = killed \cup listed
    /\ handledSignal' = s
    /\ targets' = IF handledSignal = NoSignal THEN listed ELSE targets
    /\ UNCHANGED <<linked, forks, state, listed, exited, disconnected, online, timers, master,
                   req, server,
                   crashes>>

(* handleSignal: every worker gets the signal, the flag goes up and the    *)
(* timeout begins.                                                         *)
HandleSignal(s) ==
    /\ master = "running"
    /\ signals < MaxSignals
    /\ signals' = signals + 1
    /\ killed' = killed \cup listed
    /\ handledSignal' = s
    /\ timers' = timers \cup {s}
    /\ targets' = IF handledSignal = NoSignal THEN listed ELSE targets
    /\ UNCHANGED <<linked, forks, state, listed, exited, disconnected, online, master, req,
                   server, crashes>>

(* Its timeout: SIGKILL for the workers there are, and the master exits.   *)
ForceKill(s) ==
    /\ master = "running"
    /\ s \in timers
    /\ Die(listed \cap Alive, "forced")
    /\ master' = "exited"
    /\ UNCHANGED <<linked, forks, listed, exited, disconnected, online, shutdown, killed,
                   server, crashes>>

Next ==
    \/ \E w \in Workers :
          OnOnline(w) \/ Crash(w) \/ WorkerSignal(w) \/ OnExit(w) \/ OnDisconnect(w)
    \/ \E r \in Requests : Answer(r) \/ \E w \in Workers : Receive(r, w)
    \/ \E s \in Signals : HandleSignal(s) \/ ForceKill(s)

(* The system delivers signals and events, timers fire; no handler of a    *)
(* request is bound to end.                                                *)
Fairness ==
    /\ \A w \in Workers : WF_vars(OnOnline(w)) /\ WF_vars(WorkerSignal(w))
                          /\ WF_vars(OnExit(w)) /\ WF_vars(OnDisconnect(w))
    /\ \A s \in Signals : WF_vars(ForceKill(s))

Spec == Init /\ [][Next]_vars
FairSpec == Spec /\ Fairness

-----------------------------------------------------------------------------
(* No death goes unnoticed or is answered twice: outside of development    *)
(* the workers alive and those whose exit is still to be handled are       *)
(* always as many as the service asked for.                                *)
FullStrength ==
    ~linked => Cardinality(Alive \cup (Dead \ exited)) = numWorkers \/ master = "exited"

(* A signal ends the service, whatever its requests do, although workers   *)
(* that die meanwhile are replaced.                                        *)
ShutdownEnds == handledSignal # NoSignal ~> (master = "exited" /\ Alive = {})

(* Workers that die are replaced by workers that come online.              *)
Recovers == ~linked /\ handledSignal = NoSignal ~>
    (Cardinality({w \in Workers : state[w] = "online"}) = numWorkers \/ handledSignal # NoSignal)

(* master.ts:63 of the timeout: "Let's wait for all in-flight requests     *)
(* finish before send any kill signal".                                    *)
InFlightFinish == \A r \in Requests : req[r] # "cut"
=============================================================================
