--------------------------- MODULE MCVBaseConflicts ---------------------------
EXTENDS VBaseConflicts
(* Objects of a scalar, and a list; lists of up to two items, equal or     *)
(* not, which have a comparable key, another, or one never compared, as    *)
(* all are for a resolver without comparableKeys.                          *)
MCObjects == {[s |-> 0], [s |-> 1], [s |-> 2], [s |-> 1, l |-> <<[a |-> 1]>>]}
MCLists == {<<>>, <<[a |-> 1]>>, <<[a |-> 1], [a |-> 1]>>, <<[a |-> 1], [b |-> 1]>>, <<[a |-> 2], [c |-> 1]>>}
MCShapes == [object |-> MCObjects, list |-> MCLists]
MCSaved == [object |-> {[s |-> 0]}, list |-> {<<[a |-> 1], [b |-> 1]>>}]
MCItemKeySets == {{"a", "b"}}
(* Two calls of one incoming request, and one of another of its locale.    *)
MCOf == [c \in Calls |-> IF c = 3 THEN 2 ELSE 1]
MCLocaleOf == [q \in Incoming |-> "en"]
=============================================================================
