----------------------------- MODULE MCAppsStale -----------------------------
EXTENDS AppsStale
(* Two calls of one incoming request, the second of which may want no      *)
(* copy, and one of each of two others, the first of them of another       *)
(* locale; saves of two versions and of "N.x".                             *)
MCOf == [c \in Calls |-> CASE c = 3 -> 2 [] c = 4 -> 3 [] OTHER -> 1]
MCLocaleOf == [q \in Incoming |-> IF q = 2 THEN "pt" ELSE "en"]
MCVersionOf == [s \in Saves |-> s]
=============================================================================
