------------------------- MODULE GraphqlServiceProofs -------------------------
(***************************************************************************)
(* Whose version of the schema a request is executed with, for any number  *)
(* of requests and versions, and why only validated documents are.         *)
(*                                                                         *)
(* The versions compared before an await may be out of date after it.      *)
(* What saves the requests that have no older rival is Shielded: the       *)
(* schema of the service, and every one that may still be installed by a   *)
(* request that is fetching it, is at least as new as the one a request    *)
(* asked for, or else that request has an older rival.                     *)
(***************************************************************************)
EXTENDS GraphqlService, TLAPS

(* A request that has been through updateSchema with success.              *)
Served(r) ==
    /\ hasProvider
    /\ stage[r] \notin {"idle", "updating"}
    /\ trait[r].header # Own
    /\ ~updateFailed[r]

(* Executing s is no loss for r, or r has an older rival.                  *)
CoveredIn(T, V, r, s) ==
    /\ s # Own
    /\ Newer(T[r].header, s) => \E q \in V[r] : Newer(T[r].header, T[q].header)

Covered(r, s) == CoveredIn(trait, rivals, r, s)

Typed ==
    /\ schema \in Schemas /\ provider = schema
    /\ stage \in [Requests -> Stages]
    /\ trait \in [Requests -> Traits \cup {None}]
    /\ \A r \in Requests : stage[r] # "idle" => trait[r] \in Traits
    /\ updateFailed \in [Requests -> BOOLEAN]
    /\ run = [r \in Requests |-> run[r]]
    /\ rivals \in [Requests -> SUBSET Requests]
    /\ \A r \in Requests : \A q \in rivals[r] : stage[q] # "idle"

Fetching ==
    \A r \in Requests : stage[r] = "updating" => trait[r].header # Own

Shielded ==
    \A r \in Requests : Served(r) =>
        /\ Covered(r, schema)
        /\ \A q \in Updating : Covered(r, trait[q].header)

Executed ==
    \A r \in Requests :
        run[r] # None =>
            /\ stage[r] \notin {"idle", "updating"}
            /\ Served(r) => Covered(r, run[r].schema)

IInv == Typed /\ Fetching /\ Shielded /\ Executed

-----------------------------------------------------------------------------
(* Versions of one major are ordered.                                      *)
LEMMA NewerIsTransitive ==
    ASSUME NEW p \in Providers, NEW q \in Providers, NEW s \in Providers,
           Newer(p, q), Newer(q, s)
    PROVE  Newer(p, s)
BY GraphqlAssumption DEF Newer

LEMMA NotNewerThanItself ==
    ASSUME NEW p \in Providers
    PROVE  ~Newer(p, p)
BY GraphqlAssumption DEF Newer

LEMMA IInvInit == Init => IInv
BY GraphqlAssumption DEF Init, IInv, Typed, Fetching, Shielded, Executed, Served, Stages,
   Updating, Schemas

-----------------------------------------------------------------------------
(* A new request either joins those fetching, with a version newer than    *)
(* the schema and so no worse than the schema for anyone, or keeps the     *)
(* schema, and has all of those fetching as rivals.                        *)
LEMMA ArrivePreserves ==
    ASSUME IInv, NEW r \in Requests, Arrive(r)
    PROVE  IInv'
<1> USE GraphqlAssumption DEF IInv
<1>1. PICK t \in Traits :
        /\ trait' = [trait EXCEPT ![r] = t]
        /\ IF Outdated(t.header)
           THEN stage' = [stage EXCEPT ![r] = "updating"] /\ UNCHANGED rivals
           ELSE ReadsBody(r)
  BY DEF Arrive
<1>2. /\ UNCHANGED <<hasProvider, schema, provider, updateFailed, run>>
      /\ stage[r] = "idle" /\ r \notin Updating
  BY DEF Arrive, service, executableSchema, Updating
<1>3. /\ trait' \in [Requests -> Traits \cup {None}] /\ trait'[r] = t
      /\ \A q \in Requests : stage[q] # "idle" => trait'[q] = trait[q]
      /\ t.header \in Schemas
  BY <1>1, <1>2 DEF Typed
<1>4. \A q \in Updating : trait[q] \in Traits /\ trait[q].header \in Providers
  BY DEF Typed, Fetching, Updating, Schemas
<1>5. run[r] = None
  BY <1>2 DEF Executed
<1>6. CASE Outdated(t.header)
  <2>1. stage' = [stage EXCEPT ![r] = "updating"] /\ rivals' = rivals
    BY <1>1, <1>6
  <2>2. Typed' /\ Fetching'
    BY <1>1, <1>2, <1>3, <1>6, <2>1 DEF Typed, Fetching, Stages, Outdated
  <2>3. Updating' = Updating \cup {r}
    BY <2>1 DEF Updating, Typed
  <2>4. ASSUME NEW u \in Requests, Served(u)' PROVE u # r /\ Served(u) /\ trait'[u] = trait[u]
    BY <1>2, <1>3, <2>1, <2>4 DEF Served, Typed
  <2>5. ASSUME NEW u \in Requests, u # r, stage[u] # "idle", NEW s, Covered(u, s)
        PROVE  CoveredIn(trait', rivals', u, s)
    BY <1>3, <2>1, <2>5 DEF Covered, CoveredIn, Typed
  <2>6. ASSUME NEW u \in Requests, Served(u), u # r PROVE CoveredIn(trait', rivals', u, t.header)
    <3>1. Covered(u, schema) /\ stage[u] # "idle"
      BY <2>6 DEF Shielded, Served
    <3>2. trait[u] \in Traits /\ trait[u].header \in Providers
      BY <2>6, <3>1 DEF Typed, Served, Schemas
    <3>3. schema \in Providers /\ t.header \in Providers /\ Newer(t.header, schema)
      BY <1>3, <1>6, <3>1 DEF Covered, CoveredIn, Typed, Outdated, Schemas
    <3>4. Newer(trait[u].header, t.header) => Newer(trait[u].header, schema)
      BY <3>2, <3>3, NewerIsTransitive
    <3>5. Covered(u, t.header)
      BY <3>1, <3>3, <3>4, <1>6 DEF Covered, CoveredIn, Outdated
    <3> QED BY <2>5, <2>6, <3>1, <3>5
  <2>7. Shielded'
    <3> SUFFICES ASSUME NEW u \in Requests, Served(u)'
                 PROVE  /\ CoveredIn(trait', rivals', u, schema')
                        /\ \A q \in Updating' : CoveredIn(trait', rivals', u, trait'[q].header)
      BY DEF Shielded, Covered
    <3>1. u # r /\ Served(u) /\ stage[u] # "idle"
      BY <2>4 DEF Served
    <3>2. CoveredIn(trait', rivals', u, schema')
      BY <1>2, <2>5, <3>1 DEF Shielded
    <3>3. ASSUME NEW q \in Updating PROVE CoveredIn(trait', rivals', u, trait'[q].header)
      BY <1>3, <2>5, <3>1, <3>3 DEF Shielded, Updating
    <3>4. CoveredIn(trait', rivals', u, trait'[r].header)
      BY <1>3, <2>6, <3>1
    <3> QED BY <2>3, <3>2, <3>3, <3>4
  <2>8. Executed'
    <3> SUFFICES ASSUME NEW u \in Requests, run'[u] # None
                 PROVE  /\ stage'[u] \notin {"idle", "updating"}
                        /\ Served(u)' => CoveredIn(trait', rivals', u, run'[u].schema)
      BY DEF Executed, Covered
    <3>1. u # r /\ stage[u] \notin {"idle", "updating"} /\ stage'[u] = stage[u]
      BY <1>2, <1>5, <2>1 DEF Executed, Typed
    <3> QED BY <1>2, <2>4, <2>5, <3>1 DEF Executed
  <2> QED BY <2>2, <2>7, <2>8
<1>7. CASE ~Outdated(t.header)
  <2>1. stage' = [stage EXCEPT ![r] = "reading"] /\ rivals' = [rivals EXCEPT ![r] = Updating \ {r}]
    BY <1>1, <1>7 DEF ReadsBody
  <2>2. Typed' /\ Fetching'
    BY <1>1, <1>2, <1>3, <2>1 DEF Typed, Fetching, Stages, Updating
  <2>3. Updating' = Updating
    BY <1>2, <2>1 DEF Updating, Typed
  <2>4. \A q \in Updating : trait'[q] = trait[q]
    BY <1>3 DEF Updating
  <2>5. ASSUME NEW u \in Requests, u # r, stage[u] # "idle", NEW s, Covered(u, s)
        PROVE  CoveredIn(trait', rivals', u, s)
    BY <1>3, <2>1, <2>5 DEF Covered, CoveredIn, Typed
  <2>6. ASSUME NEW u \in Requests, u # r, Served(u)' PROVE Served(u) /\ stage[u] # "idle"
    BY <1>2, <1>3, <2>1, <2>6 DEF Served, Typed
  <2>7. ASSUME Served(r)' PROVE /\ CoveredIn(trait', rivals', r, schema')
                                /\ \A q \in Updating : CoveredIn(trait', rivals', r, trait'[q].header)
    <3>1. provider # Own /\ ~Newer(t.header, provider) /\ provider = schema
      BY <1>2, <1>3, <1>7, <2>7 DEF Served, Outdated, Typed
    <3>2. CoveredIn(trait', rivals', r, schema')
      BY <1>2, <1>3, <3>1 DEF Covered, CoveredIn
    <3>3. ASSUME NEW q \in Updating PROVE CoveredIn(trait', rivals', r, trait'[q].header)
      <4>1. q \in rivals'[r] /\ trait[q].header # Own
        BY <1>2, <1>4, <2>1 DEF Typed, Schemas, Updating, Fetching
      <4> QED BY <2>4, <4>1 DEF Covered, CoveredIn
    <3> QED BY <3>2, <3>3
  <2>8. Shielded'
    <3> SUFFICES ASSUME NEW u \in Requests, Served(u)'
                 PROVE  /\ CoveredIn(trait', rivals', u, schema')
                        /\ \A q \in Updating : CoveredIn(trait', rivals', u, trait'[q].header)
      BY <2>3 DEF Shielded, Covered
    <3>1. CASE u = r
      BY <2>7, <3>1
    <3>2. CASE u # r
      BY <1>2, <2>4, <2>5, <2>6, <3>2 DEF Shielded
    <3> QED BY <3>1, <3>2
  <2>9. Executed'
    <3> SUFFICES ASSUME NEW u \in Requests, run'[u] # None
                 PROVE  /\ stage'[u] \notin {"idle", "updating"}
                        /\ Served(u)' => CoveredIn(trait', rivals', u, run'[u].schema)
      BY DEF Executed, Covered
    <3>1. u # r /\ stage[u] \notin {"idle", "updating"} /\ stage'[u] = stage[u]
      BY <1>2, <1>5, <2>1 DEF Executed, Typed
    <3> QED BY <1>2, <2>5, <2>6, <3>1 DEF Executed
  <2> QED BY <2>2, <2>8, <2>9
<1> QED BY <1>6, <1>7

-----------------------------------------------------------------------------
(* A request installs the schema it fetched: those that have theirs were   *)
(* covered against this one too, and itself has asked for no newer.        *)
LEMMA UpdatedPreserves ==
    ASSUME IInv, NEW r \in Requests, Updated(r)
    PROVE  IInv'
<1> USE GraphqlAssumption DEF IInv
<1>1. /\ stage[r] = "updating" /\ stage' = [stage EXCEPT ![r] = "reading"]
      /\ schema' = trait[r].header /\ provider' = schema'
      /\ rivals' = [rivals EXCEPT ![r] = Updating \ {r}]
      /\ UNCHANGED <<hasProvider, trait, updateFailed, run>>
  BY DEF Updated, ReadsBody, service
<1>2. trait[r] \in Traits /\ trait[r].header \in Providers /\ trait[r].header # Own
  BY <1>1 DEF Typed, Fetching, Schemas
<1>3. run[r] = None
  BY <1>1 DEF Executed
<1>4. Typed' /\ Fetching'
  BY <1>1, <1>2 DEF Typed, Fetching, Stages, Updating, Schemas
<1>5. Updating' = Updating \ {r}
  BY <1>1 DEF Updating, Typed
<1>6. ASSUME NEW u \in Requests, u # r
      PROVE  /\ Served(u)' <=> Served(u)
             /\ stage'[u] = stage[u]
             /\ \A s : CoveredIn(trait', rivals', u, s) <=> Covered(u, s)
  BY <1>1, <1>6 DEF Served, Typed, Covered, CoveredIn
<1>7. ASSUME NEW q \in Updating \ {r} PROVE CoveredIn(trait', rivals', r, trait'[q].header)
  BY <1>1, <1>7 DEF CoveredIn, Typed, Fetching, Updating
<1>8. CoveredIn(trait', rivals', r, schema')
  BY <1>1, <1>2, NotNewerThanItself DEF CoveredIn
<1>9. Shielded'
  <2> SUFFICES ASSUME NEW u \in Requests, Served(u)'
               PROVE  /\ CoveredIn(trait', rivals', u, schema')
                      /\ \A q \in Updating' : CoveredIn(trait', rivals', u, trait'[q].header)
    BY DEF Shielded, Covered
  <2>1. CASE u = r
    BY <1>5, <1>7, <1>8, <2>1
  <2>2. CASE u # r
    BY <1>1, <1>5, <1>6, <2>2 DEF Shielded, Updating
  <2> QED BY <2>1, <2>2
<1>10. Executed'
  <2> SUFFICES ASSUME NEW u \in Requests, run'[u] # None
               PROVE  /\ stage'[u] \notin {"idle", "updating"}
                      /\ Served(u)' => CoveredIn(trait', rivals', u, run'[u].schema)
    BY DEF Executed, Covered
  <2> QED BY <1>1, <1>3, <1>6 DEF Executed
<1> QED BY <1>4, <1>9, <1>10

(* A request whose update fails asks no longer for anything.               *)
LEMMA UpdateFailsPreserves ==
    ASSUME IInv, NEW r \in Requests, UpdateFails(r)
    PROVE  IInv'
<1> USE GraphqlAssumption DEF IInv
<1>1. /\ stage[r] = "updating" /\ stage' = [stage EXCEPT ![r] = "reading"]
      /\ updateFailed' = [updateFailed EXCEPT ![r] = TRUE]
      /\ rivals' = [rivals EXCEPT ![r] = Updating \ {r}]
      /\ UNCHANGED <<hasProvider, schema, provider, trait, run>>
  BY DEF UpdateFails, ReadsBody, service, executableSchema
<1>2. Typed' /\ Fetching'
  BY <1>1 DEF Typed, Fetching, Stages, Updating
<1>3. Updating' \subseteq Updating /\ run[r] = None /\ ~Served(r)'
  BY <1>1 DEF Updating, Typed, Executed, Served
<1>4. ASSUME NEW u \in Requests, u # r
      PROVE  /\ Served(u)' <=> Served(u)
             /\ stage'[u] = stage[u]
             /\ \A s : CoveredIn(trait', rivals', u, s) <=> Covered(u, s)
  BY <1>1, <1>4 DEF Served, Typed, Covered, CoveredIn
<1>5. Shielded'
  BY <1>1, <1>3, <1>4 DEF Shielded, Covered
<1>6. Executed'
  BY <1>1, <1>3, <1>4 DEF Executed, Covered
<1> QED BY <1>2, <1>5, <1>6

(* Reading, resolving and answering install nothing; what they execute is  *)
(* the schema there is.                                                    *)
LEMMA ServingPreserves ==
    ASSUME IInv, NEW r \in Requests,
           ReadFails(r) \/ ExtractQuery(r) \/ (\E f \in pending[r] : Resolve(r, f)) \/ Respond(r)
    PROVE  IInv'
<1> USE GraphqlAssumption DEF IInv
<1>1. /\ stage[r] \notin {"idle", "updating"}
      /\ UNCHANGED <<hasProvider, schema, provider, trait, updateFailed, rivals>>
  BY DEF ReadFails, ExtractQuery, Resolve, Respond, service, executableSchema
<1>2. PICK st \in {"running", "ending", "answered"} : stage' = [stage EXCEPT ![r] = st]
  <2>1. CASE ReadFails(r)
    BY <2>1 DEF ReadFails, Throws
  <2>2. CASE ExtractQuery(r)
    BY <2>2 DEF ExtractQuery, Execute, Throws
  <2>3. CASE \E f \in pending[r] : Resolve(r, f)
    BY <2>3 DEF Resolve, Typed
  <2>4. CASE Respond(r)
    BY <2>4 DEF Respond
  <2> QED BY <2>1, <2>2, <2>3, <2>4
<1>3. \/ run' = run
      \/ \E d : run' = [run EXCEPT ![r] = [schema |-> schema, document |-> d]]
  BY DEF ReadFails, ExtractQuery, Execute, Resolve, Respond
<1>4. Typed' /\ Fetching'
  BY <1>1, <1>2, <1>3 DEF Typed, Fetching, Stages
<1>5. Updating' = Updating
  BY <1>1, <1>2 DEF Updating, Typed
<1>6. \A u \in Requests : /\ Served(u)' <=> Served(u)
                          /\ stage'[u] \in {"idle", "updating"} <=> stage[u] \in {"idle", "updating"}
  BY <1>1, <1>2 DEF Served, Typed
<1>7. Shielded'
  BY <1>1, <1>5, <1>6 DEF Shielded, Covered
<1>8. Executed'
  <2> SUFFICES ASSUME NEW u \in Requests, run'[u] # None
               PROVE  /\ stage'[u] \notin {"idle", "updating"}
                      /\ Served(u)' => CoveredIn(trait', rivals', u, run'[u].schema)
    BY DEF Executed, Covered
  <2>1. CASE run'[u] = run[u]
    BY <1>1, <1>6, <2>1 DEF Executed, Covered
  <2>2. CASE u = r /\ run'[u].schema = schema
    BY <1>1, <1>6, <2>2 DEF Shielded, Covered
  <2> QED BY <1>3, <2>1, <2>2 DEF Typed
<1> QED BY <1>4, <1>7, <1>8

LEMMA IInvPreserved == IInv /\ [Next]_vars => IInv'
<1> SUFFICES ASSUME IInv, [Next]_vars PROVE IInv'
  OBVIOUS
<1>1. ASSUME NEW r \in Requests, Arrive(r) PROVE IInv'
  BY <1>1, ArrivePreserves
<1>2. ASSUME NEW r \in Requests, Serve(r) PROVE IInv'
  BY <1>2, UpdatedPreserves, UpdateFailsPreserves, ServingPreserves DEF Serve
<1>3. ASSUME UNCHANGED <<service, executableSchema, stage, request>> PROVE IInv'
  BY <1>3 DEF service, executableSchema, request, IInv, Typed, Fetching, Shielded, Executed,
     Served, Covered, Updating
<1>4. ASSUME NEW q \in Queries, Evict(q) PROVE IInv'
  BY <1>3, <1>4 DEF Evict
<1>5. CASE UNCHANGED vars
  BY <1>3, <1>5 DEF vars
<1> QED BY <1>1, <1>2, <1>4, <1>5 DEF Next

(* No request with a provider is executed with an older schema of its      *)
(* major, or the app's own, unless its update failed or it has an older    *)
(* rival (updateSchema.ts compares versions before it awaits the file).    *)
THEOREM ServedByNewestHolds == Spec => []ServedByNewest
<1>1. IInv => ServedByNewest
  BY DEF IInv, Executed, Served, Covered, CoveredIn, ServedByNewest
<1> QED BY <1>1, IInvInit, IInvPreserved, PTL DEF Spec

-----------------------------------------------------------------------------
(* What enters the cache of documents has been validated, and so has what  *)
(* is executed, whether it was found there or not.                         *)
Validated ==
    /\ documents \in [Queries -> Schemas \cup {None}]
    /\ \A q \in Queries : documents[q] # None => Valid(q, documents[q])
    /\ RunsOnlyValidated

LEMMA ValidatedInit == Init => Validated
BY GraphqlAssumption DEF Init, Validated, RunsOnlyValidated

LEMMA ExtractQueryValidates ==
    ASSUME IInv, Validated, NEW r \in Requests, ExtractQuery(r)
    PROVE  Validated'
<1> DEFINE q == trait[r].query
<1>1. q \in Queries /\ schema \in Schemas /\ trait' = trait
  BY DEF IInv, Typed, ExtractQuery, Queries
<1>2. Accepted(q) => DocumentOf(q) \in Schemas /\ Valid(q, DocumentOf(q))
  BY <1>1 DEF Validated, Accepted, DocumentOf
<1>3. /\ documents' \in [Queries -> Schemas \cup {None}]
      /\ \A p \in Queries : documents'[p] # None => Valid(p, documents'[p])
  BY <1>1, <1>2 DEF ExtractQuery, Stored, Validated
<1>4. RunsOnlyValidated'
  <2> SUFFICES ASSUME NEW u \in Requests, run'[u] # None
               PROVE  Valid(trait[u].query, run'[u].document)
    BY <1>1 DEF RunsOnlyValidated
  <2>1. CASE u = r /\ Accepted(q)
    BY <1>2, <2>1 DEF ExtractQuery, Execute, IInv, Typed
  <2>2. CASE run'[u] = run[u]
    BY <2>2 DEF Validated, RunsOnlyValidated
  <2> QED BY <2>1, <2>2 DEF ExtractQuery, Execute, IInv, Typed
<1> QED BY <1>3, <1>4 DEF Validated

LEMMA ValidatedPreserved == IInv /\ Validated /\ [Next]_vars => Validated'
<1> SUFFICES ASSUME IInv, Validated, [Next]_vars PROVE Validated'
  OBVIOUS
<1>1. ASSUME NEW r \in Requests, Arrive(r) PROVE Validated'
  <2>1. UNCHANGED <<documents, run>> /\ run[r] = None
    BY <1>1 DEF Arrive, IInv, Executed
  <2>2. \A u \in Requests \ {r} : trait'[u] = trait[u]
    BY <1>1 DEF Arrive, IInv, Typed
  <2> QED BY <2>1, <2>2 DEF Validated, RunsOnlyValidated
<1>2. ASSUME UNCHANGED <<documents, run, trait>> PROVE Validated'
  BY <1>2 DEF Validated, RunsOnlyValidated
<1>3. ASSUME NEW r \in Requests, Serve(r) PROVE Validated'
  BY <1>2, <1>3, ExtractQueryValidates
     DEF Serve, Updated, UpdateFails, ReadFails, Resolve, Respond
<1>4. ASSUME NEW q \in Queries, Evict(q) PROVE Validated'
  BY <1>4, GraphqlAssumption DEF Evict, Validated, RunsOnlyValidated, request
<1>5. CASE UNCHANGED vars
  BY <1>2, <1>5 DEF vars, request
<1> QED BY <1>1, <1>3, <1>4, <1>5 DEF Next

(* What is executed was validated when it entered the cache (query.ts      *)
(* stores a document only after validation, and does not repeat it).       *)
THEOREM RunsOnlyValidatedHolds == Spec => []RunsOnlyValidated
<1>1. Validated => RunsOnlyValidated
  BY DEF Validated
<1> QED BY <1>1, IInvInit, IInvPreserved, ValidatedInit, ValidatedPreserved, PTL DEF Spec

-----------------------------------------------------------------------------
(* What the directives of the fields resolved so far have left of the      *)
(* hints of a request, and what its answer says once it is given.          *)
ScopeWithin(h, d) ==
    /\ d.scope = "PRIVATE" => h.scope = "private"
    /\ d.scope = "SEGMENT" => h.scope \in {"segment", "private"}

NarrowedByFields ==
    \A r \in Requests : run[r] # None =>
        \A f \in Resolved(r) \ pending[r] :
            LET d == Directive[run[r].schema][f] IN
            /\ ScopeWithin(hints[r], d)
            /\ ~(failed[r] /\ stage[r] = "answered") => hints[r].maxAge =< d.maxAge

(* What an answer keeps of the hints.                                      *)
Reflects(a, t, h, error) ==
    /\ a.scope # "none" /\ h.scope = "private" => a.scope = "private"
    /\ t.get /\ h.scope # "public" => "segment" \in a.vary
    /\ t.get /\ h.scope = "private" => "session" \in a.vary
    /\ a.maxAge \in {0, h.maxAge}
    /\ error => a.forgotten
    /\ h.noCache => a.noCache
    /\ h.noStore => a.noStore

Concluded ==
    \A r \in Requests :
        /\ stage[r] = "answered" => run[r] = None \/ pending[r] = {}
        /\ stage[r] \in {"reading", "ending"} => run[r] = None
        /\ stage[r] = "running" => run[r].schema \in Schemas /\ pending[r] \subseteq Resolved(r)
        /\ answer[r] # None =>
             /\ stage[r] = "answered"
             /\ Reflects(answer[r], trait[r], hints[r], failed[r])
             /\ failed[r] => IF trait[r].production THEN hints[r].maxAge = Short
                             ELSE hints[r].noCache /\ hints[r].noStore

Narrowing ==
    /\ \A r \in Requests : run[r] # None => run[r].schema \in Schemas
    /\ hints \in [Requests -> Hints]
    /\ failed \in [Requests -> BOOLEAN]
    /\ pending = [r \in Requests |-> pending[r]]
    /\ answer = [r \in Requests |-> answer[r]]
    /\ NarrowedByFields /\ Concluded

LEMMA NarrowingInit == Init => Narrowing
BY GraphqlAssumption DEF Init, Narrowing, NarrowedByFields, Concluded, Hints, NoHints, Long

(* A directive narrows what the others have left, in whatever order.       *)
LEMMA NarrowedNarrows ==
    ASSUME NEW h \in Hints,
           NEW d \in [maxAge : Nat, scope : {"PUBLIC", "SEGMENT", "PRIVATE"}]
    PROVE  /\ Narrowed(h, d) \in Hints
           /\ ScopeWithin(Narrowed(h, d), d) /\ Narrowed(h, d).maxAge =< d.maxAge
           /\ Narrowed(h, d).maxAge =< h.maxAge
           /\ \A e : ScopeWithin(h, e) => ScopeWithin(Narrowed(h, d), e)
<1> DEFINE n == Narrowed(h, d)
<1> DEFINE age == IF d.maxAge < h.maxAge THEN d.maxAge ELSE h.maxAge
           scope == CASE d.scope = "PRIVATE" -> "private"
                      [] d.scope = "SEGMENT" /\ h.scope = "public" -> "segment"
                      [] OTHER -> h.scope
<1>1. age \in Nat /\ age =< d.maxAge /\ age =< h.maxAge
  BY DEF Hints
<1>2. scope = CASE d.scope = "PRIVATE" -> "private"
                [] d.scope = "SEGMENT" /\ h.scope = "public" -> "segment"
                [] OTHER -> h.scope
  OBVIOUS
<1>3. n = [h EXCEPT !.maxAge = age, !.scope = scope]
  BY DEF Narrowed
<1>4. scope \in {"public", "segment", "private"}
  BY <1>2 DEF Hints
<1> HIDE DEF age, scope, n
<1>5. n \in Hints /\ n.maxAge = age /\ n.scope = scope
  BY <1>1, <1>3, <1>4 DEF Hints
<1>6. ScopeWithin(n, d) /\ \A e : ScopeWithin(h, e) => ScopeWithin(n, e)
  BY <1>2, <1>5 DEF ScopeWithin, Hints
<1> QED BY <1>1, <1>5, <1>6 DEF n

LEMMA ArriveNarrows ==
    ASSUME IInv, Narrowing, NEW r \in Requests, Arrive(r)
    PROVE  Narrowing'
<1>1. /\ stage[r] = "idle" /\ stage'[r] \in {"updating", "reading"}
      /\ \A u \in Requests \ {r} : stage'[u] = stage[u] /\ trait'[u] = trait[u]
      /\ UNCHANGED <<run, pending, failed, hints, answer>>
  BY DEF Arrive, ReadsBody, IInv, Typed
<1>2. run[r] = None /\ answer[r] = None
  BY <1>1, GraphqlAssumption DEF IInv, Executed, Narrowing, Concluded
<1>3. NarrowedByFields'
  BY <1>1, <1>2 DEF Narrowing, NarrowedByFields, Resolved
<1>4. Concluded'
  <2> SUFFICES ASSUME NEW u \in Requests
               PROVE  /\ stage'[u] = "answered" => run[u] = None \/ pending[u] = {}
                      /\ stage'[u] \in {"reading", "ending"} => run[u] = None
                      /\ stage'[u] = "running" =>
                           /\ run[u].schema \in Schemas
                           /\ pending[u] \subseteq trait'[u].query \cap Fields(run[u].schema)
                      /\ answer[u] # None =>
                           /\ stage'[u] = "answered"
                           /\ Reflects(answer[u], trait'[u], hints[u], failed[u])
                           /\ failed[u] => IF trait'[u].production THEN hints[u].maxAge = Short
                                           ELSE hints[u].noCache /\ hints[u].noStore
    BY <1>1 DEF Concluded, Resolved
  <2>1. CASE u = r
    BY <1>1, <1>2, <2>1
  <2>2. CASE u # r
    BY <1>1, <2>2 DEF Narrowing, Concluded, Resolved
  <2> QED BY <2>1, <2>2
<1> QED BY <1>1, <1>3, <1>4 DEF Narrowing

(* What throws has executed nothing; what executes has resolved nothing.   *)
LEMMA StartNarrows ==
    ASSUME IInv, Narrowing, NEW r \in Requests,
           Updated(r) \/ UpdateFails(r) \/ ReadFails(r) \/ ExtractQuery(r)
    PROVE  Narrowing'
<1> USE DEF Narrowing
<1>1. /\ stage[r] \in {"updating", "reading"} /\ run[r] = None /\ answer[r] = None
      /\ UNCHANGED <<trait, hints, answer>>
  BY GraphqlAssumption DEF Updated, UpdateFails, ReadFails, ExtractQuery, IInv, Executed, Concluded
<1>2. PICK st \in {"reading", "ending", "running"} : stage' = [stage EXCEPT ![r] = st]
  BY DEF Updated, UpdateFails, ReadFails, ExtractQuery, ReadsBody, Throws, Execute
<1>3. \/ run' = run /\ pending' = pending /\ st # "running"
      \/ st = "running" /\ \E q :
           /\ run' = [run EXCEPT ![r] = [schema |-> schema, document |-> DocumentOf(q)]]
           /\ pending' = [pending EXCEPT ![r] = q \cap Fields(schema)]
           /\ q = trait[r].query
  BY <1>1, <1>2 DEF Updated, UpdateFails, ReadFails, ExtractQuery, ReadsBody, Throws, Execute, IInv, Typed
<1>4. /\ failed' \in [Requests -> BOOLEAN]
      /\ \A u \in Requests \ {r} : failed'[u] = failed[u]
  BY DEF Updated, UpdateFails, ReadFails, ExtractQuery, Throws, Execute
<1>5. NarrowedByFields'
  BY <1>1, <1>2, <1>3, <1>4 DEF NarrowedByFields, Resolved, IInv, Typed
<1>6. Concluded'
  <2> SUFFICES ASSUME NEW u \in Requests
               PROVE  /\ stage'[u] = "answered" => run'[u] = None \/ pending'[u] = {}
                      /\ stage'[u] \in {"reading", "ending"} => run'[u] = None
                      /\ stage'[u] = "running" =>
                           /\ run'[u].schema \in Schemas
                           /\ pending'[u] \subseteq trait[u].query \cap Fields(run'[u].schema)
                      /\ answer[u] # None =>
                           /\ stage'[u] = "answered"
                           /\ Reflects(answer[u], trait[u], hints[u], failed'[u])
                           /\ failed'[u] => IF trait[u].production THEN hints[u].maxAge = Short
                                            ELSE hints[u].noCache /\ hints[u].noStore
    BY <1>1 DEF Concluded, Resolved
  <2>1. CASE u = r
    <3>1. stage'[r] = st
      BY <1>2 DEF IInv, Typed
    <3>2. st = "running" => /\ run'[r].schema = schema
                            /\ pending'[r] = trait[r].query \cap Fields(schema)
      BY <1>3 DEF IInv, Typed
    <3>3. st # "running" => run'[r] = None
      BY <1>1, <1>3
    <3> QED BY <1>1, <2>1, <3>1, <3>2, <3>3 DEF IInv, Typed
  <2>2. CASE u # r
    <3>1. stage'[u] = stage[u] /\ run'[u] = run[u] /\ pending'[u] = pending[u] /\ failed'[u] = failed[u]
      BY <1>2, <1>3, <1>4, <2>2 DEF IInv, Typed
    <3> QED BY <3>1 DEF Concluded, Resolved
  <2> QED BY <2>1, <2>2
<1>7. \A u \in Requests : run'[u] # None => run'[u].schema \in Schemas
  BY <1>1, <1>3 DEF IInv, Typed
<1> QED BY <1>1, <1>3, <1>4, <1>5, <1>6, <1>7

LEMMA ResolveNarrows ==
    ASSUME IInv, Narrowing, NEW r \in Requests, NEW f \in pending[r], Resolve(r, f)
    PROVE  Narrowing'
<1> DEFINE d == Directive[run[r].schema][f]
<1>1. /\ stage[r] = "running" /\ hints' = [hints EXCEPT ![r] = Narrowed(hints[r], d)]
      /\ pending' = [pending EXCEPT ![r] = pending[r] \ {f}]
      /\ \E error \in BOOLEAN : failed' = [failed EXCEPT ![r] = failed[r] \/ error]
      /\ UNCHANGED <<stage, trait, run, answer>>
  BY DEF Resolve
<1>2. ASSUME NEW u \in Requests, u # r
      PROVE  hints'[u] = hints[u] /\ pending'[u] = pending[u] /\ failed'[u] = failed[u]
  BY <1>1, <1>2 DEF Narrowing
<1>3. answer[r] = None /\ failed' \in [Requests -> BOOLEAN]
  BY <1>1 DEF Narrowing, Concluded
<1>4. run[r].schema \in Schemas /\ f \in Fields(run[r].schema)
  BY <1>1 DEF Narrowing, Concluded, Resolved
<1>5. d \in [maxAge : Nat, scope : {"PUBLIC", "SEGMENT", "PRIVATE"}] /\ d.maxAge \in Nat
  <2>1. d \in [maxAge : Nat, scope : {"PUBLIC", "SEGMENT", "PRIVATE"}]
    BY <1>4, GraphqlAssumption DEF Fields
  <2> QED BY <2>1
<1>6. hints[r] \in Hints /\ hints[r].maxAge \in Nat
  BY DEF Narrowing, Hints
<1>7. /\ hints'[r] \in Hints /\ hints'[r].maxAge \in Nat
      /\ ScopeWithin(hints'[r], d) /\ hints'[r].maxAge =< d.maxAge
      /\ hints'[r].maxAge =< hints[r].maxAge
      /\ \A e : ScopeWithin(hints[r], e) => ScopeWithin(hints'[r], e)
  <2>1. hints'[r] = Narrowed(hints[r], d)
    BY <1>1 DEF Narrowing
  <2>2. hints'[r] \in Hints
    BY <1>5, <1>6, <2>1, NarrowedNarrows
  <2> QED BY <1>5, <1>6, <2>1, <2>2, NarrowedNarrows DEF Hints
<1>8. NarrowedByFields'
  <2> SUFFICES ASSUME NEW u \in Requests, run[u] # None, NEW g \in Resolved(u) \ pending'[u]
               PROVE  /\ ScopeWithin(hints'[u], Directive[run[u].schema][g])
                      /\ ~(failed'[u] /\ stage[u] = "answered") =>
                           hints'[u].maxAge =< Directive[run[u].schema][g].maxAge
    BY <1>1 DEF NarrowedByFields, Resolved
  <2>1. CASE u # r
    BY <1>2, <2>1 DEF Narrowing, NarrowedByFields
  <2>2. CASE u = r /\ g = f
    BY <1>7, <2>2
  <2>3. CASE u = r /\ g # f
    <3> DEFINE e == Directive[run[r].schema][g]
    <3>1. g \in Resolved(r) \ pending[r]
      BY <1>1, <2>3 DEF Narrowing
    <3>2. ScopeWithin(hints[r], e) /\ hints[r].maxAge =< e.maxAge
      BY <1>1, <1>4, <2>3, <3>1 DEF Narrowing, NarrowedByFields
    <3>3. e \in [maxAge : Nat, scope : {"PUBLIC", "SEGMENT", "PRIVATE"}]
      BY <1>4, <3>1, GraphqlAssumption DEF Fields, Resolved
    <3>4. e.maxAge \in Nat
      BY <3>3
    <3> HIDE DEF e
    <3>5. ScopeWithin(hints'[r], e) /\ hints'[r].maxAge =< e.maxAge
      BY <1>6, <1>7, <3>2, <3>4
    <3> QED BY <2>3, <3>5 DEF e
  <2> QED BY <2>1, <2>2, <2>3
<1>9. Concluded'
  <2> SUFFICES ASSUME NEW u \in Requests
               PROVE  /\ stage[u] = "answered" => run[u] = None \/ pending'[u] = {}
                      /\ stage[u] \in {"reading", "ending"} => run[u] = None
                      /\ stage[u] = "running" =>
                           run[u].schema \in Schemas /\ pending'[u] \subseteq Resolved(u)
                      /\ answer[u] # None =>
                           /\ stage[u] = "answered"
                           /\ Reflects(answer[u], trait[u], hints'[u], failed'[u])
                           /\ failed'[u] => IF trait[u].production THEN hints'[u].maxAge = Short
                                            ELSE hints'[u].noCache /\ hints'[u].noStore
    BY <1>1 DEF Concluded, Resolved
  <2>1. CASE u = r
    BY <1>1, <1>3, <1>4, <2>1 DEF Narrowing, Concluded
  <2>2. CASE u # r
    BY <1>2, <2>2 DEF Narrowing, Concluded
  <2> QED BY <2>1, <2>2
<1> HIDE DEF d
<1>10. hints' \in [Requests -> Hints] /\ pending' = [u \in Requests |-> pending'[u]]
  BY <1>1, <1>7 DEF Narrowing
<1> QED BY <1>1, <1>3, <1>8, <1>9, <1>10 DEF Narrowing

(* An answer keeps what the hints say, settled when there was an error.    *)
LEMMA AnswerReflects ==
    ASSUME NEW t, NEW h \in Hints, NEW error \in BOOLEAN
    PROVE  Reflects(AnswerWith(t, h, error), t, h, error)
BY DEF Reflects, AnswerWith, Hints

LEMMA SettledSettles ==
    ASSUME Narrowing, NEW r \in Requests
    PROVE  /\ Settled(r) \in Hints
           /\ Settled(r).scope = hints[r].scope
           /\ ~failed[r] => Settled(r).maxAge = hints[r].maxAge
           /\ failed[r] => IF trait[r].production THEN Settled(r).maxAge = Short
                           ELSE Settled(r).noCache /\ Settled(r).noStore
BY DEF Narrowing, Hints, Settled, Short

LEMMA RespondNarrows ==
    ASSUME IInv, Narrowing, NEW r \in Requests, Respond(r)
    PROVE  Narrowing'
<1>1. /\ stage[r] \in {"running", "ending"}
      /\ run[r] # None => pending[r] = {}
      /\ stage' = [stage EXCEPT ![r] = "answered"]
      /\ hints' = [hints EXCEPT ![r] = Settled(r)]
      /\ answer' = [answer EXCEPT ![r] = AnswerWith(trait[r], Settled(r), failed[r])]
      /\ UNCHANGED <<trait, run, pending, failed>>
  BY DEF Respond, Narrowing, Concluded
<1>2. /\ stage'[r] = "answered" /\ hints'[r] = Settled(r)
      /\ answer'[r] = AnswerWith(trait[r], Settled(r), failed[r])
      /\ \A u \in Requests \ {r} : stage'[u] = stage[u] /\ hints'[u] = hints[u] /\ answer'[u] = answer[u]
  BY <1>1 DEF Narrowing, IInv, Typed
<1>3. Settled(r) \in Hints /\ Reflects(answer'[r], trait[r], hints'[r], failed[r])
  BY <1>2, SettledSettles, AnswerReflects DEF Narrowing
<1>4. NarrowedByFields'
  <2> SUFFICES ASSUME NEW u \in Requests, run[u] # None, NEW g \in Resolved(u) \ pending[u]
               PROVE  /\ ScopeWithin(hints'[u], Directive[run[u].schema][g])
                      /\ ~(failed[u] /\ stage'[u] = "answered") =>
                           hints'[u].maxAge =< Directive[run[u].schema][g].maxAge
    BY <1>1 DEF NarrowedByFields, Resolved
  <2>1. CASE u # r
    BY <1>2, <2>1 DEF Narrowing, NarrowedByFields
  <2>2. CASE u = r
    BY <1>1, <1>2, <2>2, SettledSettles DEF Narrowing, NarrowedByFields, ScopeWithin
  <2> QED BY <2>1, <2>2
<1>5. Concluded'
  <2> SUFFICES ASSUME NEW u \in Requests
               PROVE  /\ stage'[u] = "answered" => run[u] = None \/ pending[u] = {}
                      /\ stage'[u] \in {"reading", "ending"} => run[u] = None
                      /\ stage'[u] = "running" =>
                           run[u].schema \in Schemas /\ pending[u] \subseteq Resolved(u)
                      /\ answer'[u] # None =>
                           /\ stage'[u] = "answered"
                           /\ Reflects(answer'[u], trait[u], hints'[u], failed[u])
                           /\ failed[u] => IF trait[u].production THEN hints'[u].maxAge = Short
                                           ELSE hints'[u].noCache /\ hints'[u].noStore
    BY <1>1 DEF Concluded, Resolved
  <2>1. CASE u = r
    <3>1. failed[r] => IF trait[r].production THEN hints'[r].maxAge = Short
                       ELSE hints'[r].noCache /\ hints'[r].noStore
      BY <1>2, SettledSettles
    <3>2. Reflects(answer'[u], trait[u], hints'[u], failed[u])
      BY <1>3, <2>1, Zenon
    <3>3. run[u] = None \/ pending[u] = {}
      BY <1>1, <2>1
    <3>4. /\ stage'[u] = "answered"
          /\ stage'[u] \notin {"reading", "ending"} /\ stage'[u] # "running"
      BY <1>2, <2>1
    <3>5. failed[u] => IF trait[u].production THEN hints'[u].maxAge = Short
                       ELSE hints'[u].noCache /\ hints'[u].noStore
      BY <2>1, <3>1, Zenon
    <3> QED BY <3>2, <3>3, <3>4, <3>5, Zenon
  <2>2. CASE u # r
    BY <1>2, <2>2 DEF Narrowing, Concluded
  <2> QED BY <2>1, <2>2
<1>6. hints' \in [Requests -> Hints] /\ answer' = [u \in Requests |-> answer'[u]]
  BY <1>1, <1>3 DEF Narrowing
<1> QED BY <1>1, <1>4, <1>5, <1>6 DEF Narrowing

LEMMA NarrowingPreserved == IInv /\ Narrowing /\ [Next]_vars => Narrowing'
<1> SUFFICES ASSUME IInv, Narrowing, [Next]_vars PROVE Narrowing'
  OBVIOUS
<1>1. ASSUME NEW r \in Requests, Arrive(r) \/ Serve(r) PROVE Narrowing'
  BY <1>1, ArriveNarrows, StartNarrows, ResolveNarrows, RespondNarrows DEF Serve
<1>2. ASSUME UNCHANGED <<stage, request>> PROVE Narrowing'
  BY <1>2 DEF request, Narrowing, NarrowedByFields, Concluded, Resolved
<1>3. ASSUME NEW q \in Queries, Evict(q) PROVE Narrowing'
  BY <1>2, <1>3 DEF Evict
<1>4. CASE UNCHANGED vars
  BY <1>2, <1>4 DEF vars
<1> QED BY <1>1, <1>3, <1>4 DEF Next

(* No answer is cached more widely or for longer than its fields allow,    *)
(* in whatever order they were resolved (the cacheControl directive and    *)
(* the response middleware).                                               *)
THEOREM NoWiderThanFieldsHolds == Spec => []NoWiderThanFields
<1>1. Narrowing => NoWiderThanFields
  <2> SUFFICES ASSUME Narrowing, NEW r \in Requests,
                      answer[r] # None, answer[r].scope # "none", run[r] # None,
                      NEW f \in Resolved(r)
               PROVE  LET d == Directive[run[r].schema][f] IN
                      /\ d.scope = "PRIVATE" => answer[r].scope = "private"
                      /\ d.scope # "PUBLIC" /\ trait[r].get => "segment" \in answer[r].vary
                      /\ d.scope = "PRIVATE" /\ trait[r].get => "session" \in answer[r].vary
                      /\ ~failed[r] => answer[r].maxAge =< d.maxAge
    BY DEF NoWiderThanFields
  <2> DEFINE d == Directive[run[r].schema][f]
  <2>1. stage[r] = "answered" /\ pending[r] = {} /\ Reflects(answer[r], trait[r], hints[r], failed[r])
    BY DEF Narrowing, Concluded
  <2>2. ScopeWithin(hints[r], d) /\ (~failed[r] => hints[r].maxAge =< d.maxAge)
    BY <2>1 DEF Narrowing, NarrowedByFields
  <2>3. d \in [maxAge : Nat, scope : {"PUBLIC", "SEGMENT", "PRIVATE"}]
    BY GraphqlAssumption DEF Narrowing, Resolved, Fields
  <2>4. d.maxAge \in Nat /\ d.scope \in {"PUBLIC", "SEGMENT", "PRIVATE"}
    BY <2>3
  <2> HIDE DEF d
  <2>5. /\ d.scope = "PRIVATE" => answer[r].scope = "private"
        /\ d.scope # "PUBLIC" /\ trait[r].get => "segment" \in answer[r].vary
        /\ d.scope = "PRIVATE" /\ trait[r].get => "session" \in answer[r].vary
    BY <2>1, <2>2, <2>4 DEF ScopeWithin, Reflects
  <2>6. ~failed[r] => answer[r].maxAge =< d.maxAge
    BY <2>1, <2>2, <2>4 DEF Reflects
  <2> QED BY <2>5, <2>6 DEF d
<1> QED BY <1>1, IInvInit, IInvPreserved, NarrowingInit, NarrowingPreserved, PTL DEF Spec

(* An answer with an error is kept two seconds or not at all, and cannot   *)
(* be revalidated (graphqlError).                                          *)
THEOREM ErrorsDoNotStayHolds == Spec => []ErrorsDoNotStay
<1>1. Narrowing => ErrorsDoNotStay
  BY DEF Narrowing, Concluded, Reflects, ErrorsDoNotStay, Short
<1> QED BY <1>1, IInvInit, IInvPreserved, NarrowingInit, NarrowingPreserved, PTL DEF Spec
=============================================================================
