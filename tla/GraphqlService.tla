---------------------------- MODULE GraphqlService ----------------------------
(***************************************************************************)
(* The GraphQL route of a worker (src/src/service/worker/runtime/graphql): *)
(* one executable schema and one cache of parsed documents, shared by all  *)
(* the requests, each of which may first fetch a newer schema (the         *)
(* provider header), then reads its query, validates it or finds it in the *)
(* cache, resolves its fields, every one of which may narrow the cache     *)
(* control of the response, and answers.                                   *)
(*                                                                         *)
(* A schema is named by the provider app it was fetched from, and is what  *)
(* the cacheControl directive says of each field (public, for the longest  *)
(* time, when there is none); a query is the set of root fields it         *)
(* selects.  Everything from the end of one I/O to the next runs in one go *)
(* on the event loop, so it is one action.                                 *)
(***************************************************************************)
EXTENDS Integers

CONSTANTS
    Requests,
    Providers,      \* versions of the provider app, [major, minor]
    Broken,         \* the providers whose schema makeSchema cannot build
    Own,            \* the schema the app was started with; no provider
    Directive,      \* Directive[s][f]: @cacheControl of field f in schema s
    Traits,         \* the requests there may be
    None            \* no document, no schema yet

Long == 86400       \* MAX_AGE.LONG
Short == 2          \* TWO_SECONDS_S
Schemas == Providers \cup {Own}
Queries == {t.query : t \in Traits}

ASSUME GraphqlAssumption ==
    /\ Providers \subseteq [major : Nat, minor : Nat]
    /\ Broken \subseteq Providers
    /\ None \notin Schemas
    /\ \A s \in Schemas : \A f \in DOMAIN Directive[s] :
         Directive[s][f] \in [maxAge : Nat, scope : {"PUBLIC", "SEGMENT", "PRIVATE"}]
    /\ \A t \in Traits :
         /\ t.header \in Schemas            \* Own: no provider header
         /\ DOMAIN t = {"header", "query", "get", "production",
                        "privateRoute", "privateScope", "publicEndpoint"}

VARIABLES
    hasProvider,    \* the app was started with graphql.schema
    linked,         \* VTEX_APP_LINK is set
    schema,         \* executableSchema.schema
    provider,       \* executableSchema.provider, Own while undefined
    documents,      \* documentStorage: the schema a query was validated against
    stage,          \* stage[r]: what request r awaits
    trait,          \* trait[r]: its headers, its query, its environment
    updateFailed,   \* updateFailed[r]: its update was attempted and failed
    run,            \* run[r]: the schema it executes and the one of its document
    pending,        \* pending[r]: fields still to resolve
    failed,         \* failed[r]: it threw, or a resolver did
    hints,          \* hints[r]: ctx.graphql.cacheControl
    answer,         \* answer[r]: the headers of its response, or None
    rivals          \* rivals[r]: those updating when r had its schema (history)

service == <<hasProvider, linked>>
executableSchema == <<schema, provider>>
request == <<trait, updateFailed, run, pending, failed, hints, answer, rivals>>
vars == <<service, executableSchema, documents, stage, request>>

-----------------------------------------------------------------------------
Stages == {"idle", "updating", "reading", "running", "ending", "answered"}
Hints == [maxAge : Nat, scope : {"public", "segment", "private"},
          noCache : BOOLEAN, noStore : BOOLEAN]
Answers == [noCache : BOOLEAN, noStore : BOOLEAN, maxAge : Nat,
            scope : {"public", "private", "none"}, forgotten : BOOLEAN,
            vary : SUBSET {"host", "segment", "session"}]

TypeOK ==
    /\ hasProvider \in BOOLEAN /\ linked \in BOOLEAN
    /\ schema \in Schemas \ Broken
    /\ provider \in Schemas
    /\ documents \in [Queries -> Schemas \cup {None}]
    /\ stage \in [Requests -> Stages]
    /\ trait \in [Requests -> Traits \cup {None}]
    /\ updateFailed \in [Requests -> BOOLEAN]
    /\ run \in [Requests -> [schema : Schemas, document : Schemas] \cup {None}]
    /\ \A r \in Requests : pending[r] # {} => pending[r] \subseteq trait[r].query
    /\ failed \in [Requests -> BOOLEAN]
    /\ hints \in [Requests -> Hints]
    /\ \A r \in Requests : answer[r] # None => answer[r] \in Answers
    /\ rivals \in [Requests -> SUBSET Requests]

(* injectGraphqlContext *)
NoHints == [maxAge |-> Long, scope |-> "public", noCache |-> FALSE, noStore |-> FALSE]

Init ==
    /\ hasProvider \in BOOLEAN /\ linked \in BOOLEAN
    /\ schema = Own /\ provider = Own
    /\ documents = [q \in Queries |-> None]
    /\ stage = [r \in Requests |-> "idle"]
    /\ trait = [r \in Requests |-> None]
    /\ updateFailed = [r \in Requests |-> FALSE]
    /\ run = [r \in Requests |-> None]
    /\ pending = [r \in Requests |-> {}]
    /\ failed = [r \in Requests |-> FALSE]
    /\ hints = [r \in Requests |-> NoHints]
    /\ answer = [r \in Requests |-> None]
    /\ rivals = [r \in Requests |-> {}]

-----------------------------------------------------------------------------
(* majorEqualAndGreaterThan *)
Newer(p, q) == p.major = q.major /\ p.minor > q.minor

Outdated_SameMajor(p) ==
    /\ hasProvider
    /\ p # Own
    /\ provider = Own \/ p.major = provider.major

Outdated(p) ==
    /\ hasProvider
    /\ p # Own
    /\ provider = Own \/ Newer(p, provider)

Updating == {q \in Requests : stage[q] = "updating"}

(* r goes on with the schema there is now: those still fetching one at     *)
(* this moment are its rivals.                                             *)
ReadsBody(r) ==
    /\ stage' = [stage EXCEPT ![r] = "reading"]
    /\ rivals' = [rivals EXCEPT ![r] = Updating \ {r}]

(* updateSchema compares versions, and then awaits the file.               *)
Arrive(r) ==
    /\ stage[r] = "idle"
    /\ \E t \in Traits :
         /\ trait' = [trait EXCEPT ![r] = t]
         /\ IF Outdated(t.header)
            THEN stage' = [stage EXCEPT ![r] = "updating"] /\ UNCHANGED rivals
            ELSE ReadsBody(r)
    /\ UNCHANGED <<service, executableSchema, documents, updateFailed, run,
                   pending, failed, hints, answer>>

(* The file is there, and makeSchema builds it: no second comparison.      *)
Updated(r) ==
    /\ stage[r] = "updating"
    /\ trait[r].header \notin Broken
    /\ schema' = trait[r].header
    /\ provider' = trait[r].header
    /\ ReadsBody(r)
    /\ UNCHANGED <<service, documents, trait, updateFailed, run, pending,
                   failed, hints, answer>>

UpdateFails_NoNext(r) ==
    /\ stage[r] = "updating"
    /\ stage' = [stage EXCEPT ![r] = "dropped"]
    /\ UNCHANGED <<service, executableSchema, documents, request>>

(* The fetch or makeSchema fails: the request goes on with the old schema. *)
UpdateFails(r) ==
    /\ stage[r] = "updating"
    /\ updateFailed' = [updateFailed EXCEPT ![r] = TRUE]
    /\ ReadsBody(r)
    /\ UNCHANGED <<service, executableSchema, documents, trait, run, pending,
                   failed, hints, answer>>

-----------------------------------------------------------------------------
Fields(s) == DOMAIN Directive[s]
Valid(q, s) == q \subseteq Fields(s)

(* A cancelled call never throws here: it fails the field or the update    *)
(* that made it.                                                           *)
Throws(r) ==
    /\ stage' = [stage EXCEPT ![r] = "ending"]
    /\ failed' = [failed EXCEPT ![r] = TRUE]

(* The body cannot be read or parsed (upload, co-body, gqlParse).          *)
ReadFails(r) ==
    /\ stage[r] = "reading"
    /\ Throws(r)
    /\ UNCHANGED <<service, executableSchema, documents, trait, updateFailed,
                   run, pending, hints, answer, rivals>>

(* A cached document is not validated again.                               *)
DocumentOf(q) == IF documents[q] = None THEN schema ELSE documents[q]
Accepted(q) == documents[q] # None \/ Valid(q, schema)

Stored_BeforeValidation(q) == documents' = [documents EXCEPT ![q] = DocumentOf(q)]
Stored(q) ==
    documents' = IF Accepted(q) THEN [documents EXCEPT ![q] = DocumentOf(q)]
                 ELSE documents

(* execute leaves out fields its schema does not have.                     *)
Execute(r, q) ==
    /\ run' = [run EXCEPT ![r] = [schema |-> schema, document |-> DocumentOf(q)]]
    /\ pending' = [pending EXCEPT ![r] = q \cap Fields(schema)]
    /\ stage' = [stage EXCEPT ![r] = "running"]
    /\ UNCHANGED failed

ExtractQuery(r) ==
    /\ stage[r] = "reading"
    /\ LET q == trait[r].query IN
         /\ Stored(q)
         /\ IF Accepted(q) THEN Execute(r, q)
            ELSE Throws(r) /\ UNCHANGED <<run, pending>>
    /\ UNCHANGED <<service, executableSchema, trait, updateFailed, hints,
                   answer, rivals>>

-----------------------------------------------------------------------------
(* The CacheControl directive, run before the resolver of the field.       *)
Narrowed_SegmentWins(h, d) ==
    [h EXCEPT !.maxAge = IF d.maxAge < @ THEN d.maxAge ELSE @,
              !.scope = CASE d.scope = "PRIVATE" -> "private"
                          [] d.scope = "SEGMENT" -> "segment"
                          [] OTHER -> @]

Narrowed(h, d) ==
    [h EXCEPT !.maxAge = IF d.maxAge < @ THEN d.maxAge ELSE @,
              !.scope = CASE d.scope = "PRIVATE" -> "private"
                          [] d.scope = "SEGMENT" /\ @ = "public" -> "segment"
                          [] OTHER -> @]

(* A field is resolved; an error of its resolver is part of the response.  *)
Resolve(r, f) ==
    /\ stage[r] = "running"
    /\ f \in pending[r]
    /\ hints' = [hints EXCEPT ![r] = Narrowed(@, Directive[run[r].schema][f])]
    /\ pending' = [pending EXCEPT ![r] = @ \ {f}]
    /\ \E error \in BOOLEAN : failed' = [failed EXCEPT ![r] = @ \/ error]
    /\ UNCHANGED <<service, executableSchema, documents, stage, trait,
                   updateFailed, run, answer, rivals>>

Settled_TooLate(r) == hints[r]

(* graphqlError *)
Settled(r) ==
    IF ~failed[r] THEN hints[r]
    ELSE IF trait[r].production THEN [hints[r] EXCEPT !.maxAge = Short]
    ELSE [hints[r] EXCEPT !.noCache = TRUE, !.noStore = TRUE]

(* cacheControlHTTP and setVaryHeaders *)
AnswerWith(t, h, error) ==
    LET noCache == h.noCache \/ ~t.production \/ t.publicEndpoint
        noStore == h.noStore \/ linked
        cacheable == ~noCache /\ ~noStore
    IN [noCache |-> noCache,
        noStore |-> noStore,
        scope |-> CASE ~cacheable -> "none"
                    [] h.scope = "private" \/ t.privateRoute -> "private"
                    [] OTHER -> "public",
        maxAge |-> IF cacheable THEN h.maxAge ELSE 0,
        vary |-> IF ~t.get THEN {}
                 ELSE IF h.scope = "private" \/ t.privateScope
                      THEN {"host", "segment", "session"}
                 ELSE IF h.scope = "segment" THEN {"host", "segment"}
                 ELSE {"host"},
        forgotten |-> error]    \* no etag, no metadata, a cleared recorder

(* graphqlError and then response, on the way back.                        *)
Respond(r) ==
    /\ \/ stage[r] = "running" /\ pending[r] = {}
       \/ stage[r] = "ending"
    /\ hints' = [hints EXCEPT ![r] = Settled(r)]
    /\ answer' = [answer EXCEPT ![r] = AnswerWith(trait[r], Settled(r), failed[r])]
    /\ stage' = [stage EXCEPT ![r] = "answered"]
    /\ UNCHANGED <<service, executableSchema, documents, trait, updateFailed,
                   run, pending, failed, rivals>>

(* The LRU cache drops a document.                                         *)
Evict(q) ==
    /\ documents[q] # None
    /\ documents' = [documents EXCEPT ![q] = None]
    /\ UNCHANGED <<service, executableSchema, stage, request>>

-----------------------------------------------------------------------------
Serve(r) ==
    \/ Updated(r) \/ UpdateFails(r)
    \/ ReadFails(r) \/ ExtractQuery(r)
    \/ \E f \in pending[r] : Resolve(r, f)
    \/ Respond(r)

Next ==
    \/ \E r \in Requests : Arrive(r) \/ Serve(r)
    \/ \E q \in Queries : Evict(q)

Spec == Init /\ [][Next]_vars

(* Every await of a request ends: the fetch of the schema and the body by  *)
(* their timeouts, the resolvers by those of the clients they call.        *)
FairSpec == Spec /\ \A r \in Requests : WF_vars(Serve(r))

-----------------------------------------------------------------------------
(* Whose version is executed.  A request that names a provider is never    *)
(* executed with an older schema of the same major, or with the one the    *)
(* app started with, unless its own update failed or another request       *)
(* naming an older version was awaiting its schema while this one had its  *)
(* own already: versions are compared before the await of updateSchema,    *)
(* and only there.                                                         *)
ServedByNewest ==
    \A r \in Requests :
        run[r] # None /\ trait[r].header # Own /\ hasProvider /\ ~updateFailed[r] =>
            /\ run[r].schema # Own
            /\ Newer(trait[r].header, run[r].schema) =>
                 \E q \in rivals[r] : Newer(trait[r].header, trait[q].header)

(* Only validated documents run.  The document a request executes was      *)
(* valid for the schema it was checked against when it entered the cache,  *)
(* though that may no longer be the schema of the service (query.ts caches *)
(* by text).                                                               *)
RunsOnlyValidated ==
    \A r \in Requests : run[r] # None => Valid(trait[r].query, run[r].document)

(* The fields of the query of r that its schema had.                       *)
Resolved(r) == trait[r].query \cap Fields(run[r].schema)

(* Nobody caches more than the fields allow.  A cacheable answer is        *)
(* private when one resolved field was, a GET varies by the segment and    *)
(* the session its fields depend on, and no answer without errors lives    *)
(* longer than its shortest field, whatever the order of the resolvers and *)
(* whichever schema is installed meanwhile.                                *)
NoWiderThanFields ==
    \A r \in Requests :
        answer[r] # None /\ answer[r].scope # "none" /\ run[r] # None =>
            \A f \in Resolved(r) :
                LET d == Directive[run[r].schema][f] IN
                /\ d.scope = "PRIVATE" => answer[r].scope = "private"
                /\ d.scope # "PUBLIC" /\ trait[r].get => "segment" \in answer[r].vary
                /\ d.scope = "PRIVATE" /\ trait[r].get => "session" \in answer[r].vary
                /\ ~failed[r] => answer[r].maxAge =< d.maxAge

(* Errors do not stay.  An answer with an error, thrown or of one field    *)
(* among many, is kept two seconds in production and not at all elsewhere, *)
(* and without etag or metadata to revalidate it by.                       *)
ErrorsDoNotStay ==
    \A r \in Requests :
        answer[r] # None /\ failed[r] =>
            /\ answer[r].forgotten
            /\ IF trait[r].production THEN answer[r].maxAge =< Short
               ELSE answer[r].noCache /\ answer[r].noStore

(* Every request is answered, those whose update or whose query fails too. *)
EveryRequestAnswered ==
    \A r \in Requests : stage[r] # "idle" ~> stage[r] = "answered"
=============================================================================
