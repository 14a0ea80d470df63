----------------------------- MODULE InfraCalls -----------------------------
(***************************************************************************)
(* Calls of a method of an infra client, each made on behalf of an         *)
(* incoming request: the client, and what it has memoized, is the          *)
(* request's own (src/src/clients/IOClients.ts).  The memory cache of an   *)
(* HTTP client is shared by the requests, and keeps answers by locale      *)
(* (src/src/HttpClient/middlewares/cache.ts).                              *)
(***************************************************************************)
CONSTANTS Calls,        \* the calls
          Incoming,     \* the incoming requests
          Of,           \* Of[c]: the incoming request c is made for
          Locales,      \* the locales
          LocaleOf      \* LocaleOf[q]: the locale of the incoming request q
ASSUME InfraCallsAssumption == Of \in [Calls -> Incoming] /\ LocaleOf \in [Incoming -> Locales]
=============================================================================
