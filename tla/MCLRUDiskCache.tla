---------------------------- MODULE MCLRUDiskCache ----------------------------
(* Two keys compete for the one place of the index.                        *)
EXTENDS LRUDiskCache

CONSTANTS kA, kB, gA1, gA2, sA1, sA2, sB1, sB2

MCKeyOf == [o \in Ops |-> IF o \in {sB1, sB2} THEN kB ELSE kA]
MCMortal == [s \in Sets |-> IF s = sB1 THEN 0 ELSE 1]
=============================================================================
