----------------------------- MODULE FlightTable -----------------------------
(***************************************************************************)
(* What request coalescing promises, with no promise, map or origin in     *)
(* sight: a key has at most one flight, calls board it while it is in the  *)
(* air, and when it lands every call on board receives the same outcome in *)
(* that same step.  A flight that has landed takes nobody else on board.   *)
(*                                                                         *)
(* SingleFlight.tla implements this specification.                         *)
(***************************************************************************)
CONSTANTS
    Calls,      \* the calls an HttpClient may make
    Keys,       \* the inflight keys
    Outcomes,   \* what a flight can land with
    Undecided   \* the verdict of a call whose flight has not landed

VARIABLES
    aboard,     \* aboard[k]: the calls on the flight of k, {} when there is none
    verdict     \* verdict[c]: the outcome c is going to return with

vars == <<aboard, verdict>>

TypeOK ==
    /\ aboard \in [Keys -> SUBSET Calls]
    /\ verdict \in [Calls -> Outcomes \cup {Undecided}]

Init ==
    /\ aboard = [k \in Keys |-> {}]
    /\ verdict = [c \in Calls |-> Undecided]

(* A call boards the flight of k, or opens it when there is none.          *)
Board(k, c) ==
    /\ verdict[c] = Undecided
    /\ \A other \in Keys : c \notin aboard[other]
    /\ aboard' = [aboard EXCEPT ![k] = @ \cup {c}]
    /\ UNCHANGED verdict

(* The flight of k lands: all of its passengers are given the outcome.     *)
Land(k, outcome) ==
    /\ aboard[k] # {}
    /\ aboard' = [aboard EXCEPT ![k] = {}]
    /\ verdict' = [c \in Calls |-> IF c \in aboard[k] THEN outcome ELSE verdict[c]]

Next ==
    \/ \E k \in Keys, c \in Calls : Board(k, c)
    \/ \E k \in Keys, outcome \in Outcomes : Land(k, outcome)

Spec == Init /\ [][Next]_vars
=============================================================================
