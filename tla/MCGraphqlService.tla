--------------------------- MODULE MCGraphqlService ---------------------------
(* Two requests; three versions of one major and one of another, the     *)
(* second of which cannot be built.  The field "b" changes its directive,  *)
(* and goes away, from version to version.                                 *)
EXTENDS GraphqlService, TLC

CONSTANTS r1, r2

V10 == [major |-> 1, minor |-> 0]
V11 == [major |-> 1, minor |-> 1]
V12 == [major |-> 1, minor |-> 2]
V20 == [major |-> 2, minor |-> 0]
MCProviders == {V10, V11, V12, V20}
MCBroken == {V11}

At(maxAge, scope) == [maxAge |-> maxAge, scope |-> scope]
MCDirective ==
    [s \in Schemas |->
        CASE s = Own -> "a" :> At(Long, "PUBLIC") @@ "b" :> At(3600, "SEGMENT")
          [] s = V10 -> "a" :> At(120, "PRIVATE") @@ "b" :> At(3600, "SEGMENT")
          [] OTHER -> "a" :> At(0, "PUBLIC")]

Plain == [header |-> Own, query |-> {"a", "b"}, get |-> TRUE, production |-> TRUE,
          privateRoute |-> FALSE, privateScope |-> FALSE, publicEndpoint |-> FALSE]
MCTraits ==
    {Plain,
     [Plain EXCEPT !.header = V10],
     [Plain EXCEPT !.header = V11, !.get = FALSE, !.publicEndpoint = TRUE],
     [Plain EXCEPT !.header = V12, !.query = {"b"}, !.production = FALSE],
     [Plain EXCEPT !.header = V20, !.privateRoute = TRUE, !.privateScope = TRUE]}
=============================================================================
