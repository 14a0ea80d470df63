---------------------------- MODULE ClientRequests ----------------------------
(***************************************************************************)
(* The requests the clients of src/src/clients make of HttpClient, method  *)
(* by method: whom they ask, for what, in which form they want the answer, *)
(* under which key they may share a fetch, and where the answer may be     *)
(* kept.  Bodies, metric names and tracing are left out.                   *)
(*                                                                         *)
(* A url is the sequence of its parts.  Parameters are a set of pairs.     *)
(* Arguments range over a few values: an app linked and one published, two *)
(* files, two options.                                                     *)
(***************************************************************************)
EXTENDS Sequences

(* A client of a context: its base URL, its default parameters.            *)
Client(ctx, name, base, params) ==
    [ctx |-> ctx, name |-> name, base |-> base, params |-> params]

(* get and getRaw (getConfig): kept in memory and memoized unless told     *)
(* otherwise.                                                              *)
Get(c, method, url) ==
    [ctx |-> c.ctx, client |-> c.name, base |-> c.base, params |-> c.params,
     verb |-> "get", method |-> method, url |-> url, form |-> "json",
     cacheable |-> "memory", memoizable |-> TRUE, inflight |-> "none",
     lenient |-> FALSE, detect |-> FALSE]
GetBuffer(c, method, url) ==
    [Get(c, method, url) EXCEPT !.form = "buffer", !.cacheable = "disk", !.memoizable = FALSE]
GetStream(c, method, url) ==
    [Get(c, method, url) EXCEPT !.form = "stream", !.cacheable = "none", !.memoizable = FALSE]
(* put, post, patch, head and delete.                                      *)
(* Faulty variant: kept and memoized as get is.                            *)
Send_Kept(c, verb, method, url) == [Get(c, method, url) EXCEPT !.verb = verb]
Send(c, verb, method, url) ==
    [Get(c, method, url) EXCEPT !.verb = verb, !.cacheable = "none", !.memoizable = FALSE]

With(r, params) == [r EXCEPT !.params = @ \cup params]
CachedIn(r, where) == [r EXCEPT !.cacheable = where]
ByUrl(r) == [r EXCEPT !.inflight = "url"]
ByQuery(r) == [r EXCEPT !.inflight = "query"]
Lenient(r) == [r EXCEPT !.lenient = TRUE]
MaybeLenient(r) == {r, Lenient(r)}          \* nullIfNotFound, an argument

(* getWithBody: the hash of the body is a parameter.                       *)
GetWithBody(c, method, url, body) == With(Get(c, method, url), {<<"_v_bodyhash", body>>})

(* GraphQLClient.query and mutate.                                         *)
Query(c, method, body) == ByQuery(GetWithBody(c, method, <<>>, body))
Mutate(c, method) == Send(c, "post", method, <<>>)

-----------------------------------------------------------------------------
(* What identifies a request: inflightURL, inflightUrlWithQuery, cacheKey. *)
FullUrl(r) == r.base \o r.url
FlightKey(r) == <<FullUrl(r), IF r.inflight = "query" THEN r.params ELSE {}>>
(* Faulty variant: the locale is left out of the key.                      *)
CacheKey_NoLocale(r) == <<"any", r.base, r.url, r.params>>
CacheKey(r) == <<r.ctx.locale, r.base, r.url, r.params>>
Resource(r) == <<FullUrl(r), r.params>>

-----------------------------------------------------------------------------
(* Base URLs (InfraClient, AppClient, AppGraphQLClient, JanusClient...).   *)
Tenancy(ctx) == <<ctx.account, ctx.workspace>>
Infra(ctx, name, app) == Client(ctx, name, <<"infra", app>> \o Tenancy(ctx), {})
Root(ctx, name, app) == Client(ctx, name, <<"infra", app>>, {})
Platform(ctx, name) == Client(ctx, name, <<"platform">>, {})
App(ctx, name, app) == Client(ctx, name, <<"app", app>> \o Tenancy(ctx), {})
AppGraphQL(ctx, name, app) == Client(ctx, name, <<"app", app>> \o Tenancy(ctx) \o <<"_v", "graphql">>, {})
Janus(ctx, name) == Client(ctx, name, <<"janus">>, {<<"an", ctx.account>>})

Registered == [id |-> "v.a@1.0.0", name |-> "v.a", vendor |-> "v", version |-> "1.0.0", build |-> "none"]
LinkedApp == [id |-> "v.a@1.0.0+b", name |-> "v.a", vendor |-> "v", version |-> "1.0.0", build |-> "b"]
AppIds == {Registered, LinkedApp}
IsLinked(a) == a.build # "none"
Paths == {"f", "g"}
Options(name) == {{}, {<<name, "x">>}}

-----------------------------------------------------------------------------
(* clients/infra/Apps.ts                                                   *)
AppOrRegistry(ctx, a) ==
    IF IsLinked(a) THEN Tenancy(ctx) \o <<"apps", a.id>>
    ELSE <<ctx.account, "master", "registry", a.name, a.version>>
AppsClient(ctx) == Root(ctx, "apps", "apps")

AppWrites(ctx, a) ==
    LET c == AppsClient(ctx)  w == Tenancy(ctx) IN
    {Send(c, "post", "installApp", w \o <<"apps">>), Send(c, "delete", "uninstallApp", w \o <<"apps", a.id>>),
     Send(c, "put", "acknowledgeApp", w \o <<"apps", a.id, "acknowledge", "s">>),
     Send(c, "put", "link", w \o <<"v2", "links", a.id>>),
     With(Send(c, "patch", "patch", w \o <<"v2", "links", a.id>>), {<<"deletedFiles", "x">>}),
     Send(c, "delete", "unlink", w \o <<"links", a.id>>), Send(c, "delete", "unlinkAll", w \o <<"links">>),
     Send(c, "put", "saveAppSettings", w \o <<"apps", a.id, "settings">>)}
(* installApp of an infra service goes to another host.                    *)
InstallRuntime(ctx) ==
    Send(Client(ctx, "apps", <<>>, {}), "patch", "installRuntime",
         <<"apps.aws-us-east-1">> \o Tenancy(ctx) \o <<"apps">>)

(* Faulty variant: lists of files share a flight whatever their prefix.    *)
AppsLists_ByUrl(ctx) ==
    {ByUrl(With(Get(AppsClient(ctx), "listAppFiles", AppOrRegistry(ctx, a) \o <<"files">>), o)) :
        a \in AppIds, o \in Options("prefix")}
AppsLists(ctx) ==
    LET c == AppsClient(ctx)  w == Tenancy(ctx) IN
    {ByQuery(With(Get(c, "listApps", w \o <<"apps">>), o)) : o \in Options("since")}
    \cup {ByQuery(With(Get(c, "listAppFiles", AppOrRegistry(ctx, a) \o <<"files">>), o)) :
            a \in AppIds, o \in Options("prefix")}
    \cup {ByUrl(Get(c, "listLinks", w \o <<"links">>))}
AppsDependencies(ctx) ==
    LET c == AppsClient(ctx)  w == Tenancy(ctx) IN
    {ByQuery(With(Get(c, "getDependencies", w \o <<"dependencies">>), o)) : o \in Options("filter")}
    \cup {ByQuery(With(Get(c, "resolveDependencies", w \o <<"dependencies", "_resolve">>), o)) : o \in Options("apps")}
    \cup {Send(c, "put", "updateDependencies", w \o <<"dependencies">>),
          Send(c, "patch", "updateDependency", w \o <<"apps">>),
          Send(c, "post", "resolveDependenciesWithManifest", w \o <<"v2", "apps", "_resolve">>)}
(* The request of getAppsMetaInfos; its cache is modelled in AppsMeta.     *)
MetaInfos(ctx) ==
    ByUrl(With(Get(AppsClient(ctx), "getAppsMetaInfos", Tenancy(ctx) \o <<"v2", "apps">>), {<<"fields", "all">>}))

AppsFiles(ctx, a, path) ==
    LET c == AppsClient(ctx)
        file == AppOrRegistry(ctx, a) \o <<"files", path>>
    IN  {ByUrl(CachedIn(GetBuffer(c, "getAppFile", file), IF IsLinked(a) THEN "memory" ELSE "disk")),
         GetStream(c, "getAppFileStream", file)}
        \cup MaybeLenient(ByUrl(CachedIn(Get(c, "getAppJSON", file), IF IsLinked(a) THEN "memory" ELSE "any")))
        \cup MaybeLenient(ByUrl(Get(c, "getFileFromApps", Tenancy(ctx) \o <<"apps", a.name, "files", path>>)))
(* Faulty variant: settings that are not found may be null.                *)
AppsReads_Lenient(ctx, a) ==
    MaybeLenient(ByUrl(Get(AppsClient(ctx), "getAppSettings", Tenancy(ctx) \o <<"apps", a.id, "settings">>)))
AppBundle(ctx, a, path) ==
    GetStream(AppsClient(ctx), "getAppBundle", AppOrRegistry(ctx, a) \o <<"bundle", path>>)
AppsReads(ctx, a) ==
    {ByUrl(Get(AppsClient(ctx), "getApp", Tenancy(ctx) \o <<"apps", a.id>>)),
     ByUrl(Get(AppsClient(ctx), "getAppSettings", Tenancy(ctx) \o <<"apps", a.id, "settings">>))}

Apps(ctx) ==
    AppsLists(ctx) \cup AppsDependencies(ctx) \cup {MetaInfos(ctx), InstallRuntime(ctx)}
    \cup UNION {AppWrites(ctx, a) \cup AppsReads(ctx, a) : a \in AppIds}
    \cup UNION {AppsFiles(ctx, a, p) \cup {AppBundle(ctx, a, p)} : a \in AppIds, p \in Paths}

(* clients/infra/Registry.ts: always in the workspace master.              *)
RegistryClient(ctx) == Client(ctx, "registry", <<"infra", "apps", ctx.account, "master">>, {})
RegistryApps(ctx, a) ==
    LET c == RegistryClient(ctx)  version == <<"registry", a.name, a.version>> IN
    {ByQuery(Get(c, "getAppState", version \o <<"state">>)),
     ByUrl(Get(c, "listApps", <<"registry">>)), ByUrl(Get(c, "listVersionsByApp", <<"registry", a.name>>))}
    \cup {Send(c, "patch", m, version) : m \in {"deprecateApp", "undeprecateApp", "validateApp"}}
    \cup {ByQuery(With(Get(c, "getAppManifest", version), o)) : o \in Options("resolveDeps")}
    \cup {ByQuery(With(Get(c, "listAppFiles", version \o <<"files">>), o)) : o \in Options("prefix")}
RegistryPublish(ctx) ==
    LET c == RegistryClient(ctx) IN
    {Send(c, "post", "publishApp", <<"v2", "registry">>), Send(c, "post", "publishAppRc", <<"v2", "registry", "rc">>),
     Send(c, "post", "resolveDependenciesWithManifest", <<"v2", "registry", "_resolve">>)}
RegistryFiles(ctx, a, path) ==
    LET c == RegistryClient(ctx)
        file == <<"registry", a.name, a.version, "files", path>>
    IN  {ByUrl(GetBuffer(c, "getAppFile", file)), GetStream(c, "getAppFileStream", file),
         GetStream(c, "getAppBundle", <<"registry", a.name, a.version, "bundle", path>>)}
        \cup MaybeLenient(ByUrl(CachedIn(Get(c, "getAppJSON", file), "any")))
Registry(ctx) ==
    RegistryApps(ctx, Registered) \cup RegistryPublish(ctx) \cup RegistryFiles(ctx, Registered, "f")

(* clients/infra/Assets.ts: files of linked apps under the account, of     *)
(* published ones under their vendor.                                      *)
AssetsRoute(ctx, scope, a) ==
    IF IsLinked(a) THEN <<scope, ctx.workspace, "apps", a.id>>
    ELSE <<scope, "master", "registry", a.name, a.version>>
AssetsFiles(ctx, a, path) ==
    LET c == Root(ctx, "assets", "apps")
        file == AssetsRoute(ctx, IF IsLinked(a) THEN ctx.account ELSE a.vendor, a) \o <<"files", path>>
    IN  {GetStream(c, "getAppBundleByVendor", AssetsRoute(ctx, ctx.account, a) \o <<"bundle", path>>)}
        \cup MaybeLenient(ByUrl(CachedIn(Get(c, "getJSON", file), IF IsLinked(a) THEN "memory" ELSE "any")))
        \cup MaybeLenient(ByUrl(CachedIn(GetBuffer(c, "getFile", file), "any")))

(* clients/infra/VBase.ts                                                  *)
VBaseClient(ctx) == Infra(ctx, "vbase", "vbase")
VBaseFile(path) == <<"buckets", "me", "b", "files", path>>
VBaseBucket(ctx) ==
    LET c == VBaseClient(ctx)  bucket == <<"buckets", "me", "b">> IN
    {ByUrl(Get(c, "getBucket", bucket)), Send(c, "delete", "resetBucket", bucket \o <<"files">>)}
    \cup {ByQuery(With(Get(c, "listFiles", bucket \o <<"files">>), o)) : o \in Options("prefix")}
VBaseConflicts(ctx) ==
    LET c == VBaseClient(ctx)  conflicts == <<"buckets", "me", "b", "conflicts">> IN
    {Get(c, "getConflicts", conflicts), Send(c, "patch", "resolveConflict", conflicts)}
VBaseContent(ctx, path) == Send(VBaseClient(ctx), "put", "saveContent", VBaseFile(path))
VBaseFiles(ctx, path) ==
    LET c == VBaseClient(ctx)
        json == ByUrl(Get(c, "getRawJSON", VBaseFile(path)))
    IN  {ByUrl(GetBuffer(c, "getFile", VBaseFile(path))), GetStream(c, "getFileStream", VBaseFile(path)),
         Send(c, "head", "getFileMetadata", VBaseFile(path)), Send(c, "put", "saveJSON", VBaseFile(path)),
         VBaseContent(ctx, path), Send(c, "delete", "deleteFile", VBaseFile(path))}
        \cup UNION {MaybeLenient([json EXCEPT !.detect = d]) : d \in BOOLEAN}

(* The other clients of clients/infra.                                     *)
RouterRequests(ctx) ==
    LET c == Platform(ctx, "router") IN
    {Get(c, "listAvailableIoVersions", <<"_io">>), Get(c, "listAvailableServices", <<"_services">>),
     Get(c, "getAvailableVersions", <<"_services", "s">>),
     Get(c, "getInstalledIoVersion", Tenancy(ctx) \o <<"io">>), Send(c, "put", "installIo", Tenancy(ctx) \o <<"io">>),
     Get(c, "listInstalledServices", Tenancy(ctx) \o <<"services">>),
     Send(c, "post", "installService", Tenancy(ctx) \o <<"services">>)}
WorkspacesRequests(ctx) ==
    LET c == Platform(ctx, "workspaces") IN
    {Get(c, "list", <<ctx.account>>), Get(c, "get", Tenancy(ctx)), Send(c, "put", "set", Tenancy(ctx)),
     Send(c, "post", "create", <<ctx.account>>), Send(c, "delete", "delete", Tenancy(ctx)),
     With(Send(c, "put", "reset", Tenancy(ctx)), {<<"reset", "true">>}),
     Send(c, "put", "promote", <<ctx.account, "master", "_promote">>)}
SphinxRequests(ctx) ==
    {Send(Infra(ctx, "sphinx", "sphinx"), "post", "validatePolicies", <<"policies", "validate">>),
     Get(Infra(ctx, "sphinx", "sphinx"), "isAdmin", <<"user", "e", "isAdmin">>)}
HousekeeperRequests(ctx) ==
    LET c == Infra(ctx, "housekeeper", "housekeeper") IN
    {Send(c, "post", "apply", <<"v2", "housekeeping", "apply">>),
     Send(c, "post", "perform", <<"v2", "_housekeeping", "perform">>),
     Get(c, "resolve", <<"v2", "housekeeping", "resolve">>)}
EventsRequests(ctx) ==
    {With(Send(Infra(ctx, "events", "courier"), "put", "sendEvent", <<"events", "e">>), {<<"resource", "r">>})}
BillingMetricsRequests(ctx) ==
    {Send(Infra(ctx, "billingMetrics", "colossus"), "post", "sendMetric", <<"metrics">>)}

-----------------------------------------------------------------------------
(* clients/apps.  A rejected contract status and a build's availability    *)
(* are never kept.                                                         *)
BuilderRequests(ctx) ==
    LET c == App(ctx, "builder", "vtex.builder-hub")  hub == <<"_v", "builder", "0">> IN
    {CachedIn(Get(c, "availability", hub \o <<"availability", "a">>), "none"),
     Send(c, "post", "clean", hub \o <<"clean", "a">>), Get(c, "getPinnedDependencies", hub \o <<"pinneddeps">>),
     Send(c, "put", "relinkApp", hub \o <<"relink", "a">>)}
    \cup {Send(c, "post", "zipAndSend", hub \o <<route, "a">>) : route \in {"link", "publish", "test"}}
SettingsRequests(ctx) ==
    {ByQuery(With(Get(App(ctx, "settings", "vtex.settings-server"), "getSettings", <<"settings", "a", hash>>), o)) :
        hash \in {"linked", "h"}, o \in Options("files")}
BillingRequests(ctx) ==
    {Get(App(ctx, "billing", "vtex.billing"), "status", <<"_v", "contractStatus">>)}
MessagesRequests(ctx) ==
    LET c == AppGraphQL(ctx, "messagesGraphQL", "vtex.messages") IN
    {Query(c, m, body) : m \in {"translate", "translateV2"}, body \in {"pt:x", "en:x"}}
    \cup {Query(c, "translateWithDependencies", "deps"), Query(c, "userTranslations", "user"), Mutate(c, "saveV2")}
CatalogRequests(ctx) ==
    {Query(AppGraphQL(ctx, "catalogGraphQL", "vtex.catalog-graphql"), m, m) :
        m \in {"sku", "product", "category", "brand"}}

(* clients/external                                                        *)
IdRequests(ctx) ==
    LET c == Client(ctx, "id", <<"vtexid">>, {}) IN
    {Get(c, "getTemporaryToken", <<"start">>)}
    \cup UNION {{With(Get(c, "sendCodeToEmail", <<"accesskey", "send">>), o),
                 With(Get(c, "getEmailCodeAuthenticationToken", <<"accesskey", "validate">>), o),
                 With(Get(c, "getPasswordAuthenticationToken", <<"classic", "validate">>), o)} :
                    o \in {{<<"login", "u1">>}, {<<"login", "u2">>}}}
MasterDataClient(ctx) == Client(ctx, "masterdata", <<"masterdata">>, {<<"an", ctx.account>>})
MasterDataSchemas(ctx) ==
    LET c == MasterDataClient(ctx)  schema == <<"e", "schemas", "s">> IN
    {Get(c, "getSchema", schema), Get(c, "getPublicSchema", schema \o <<"public">>),
     Send(c, "put", "createOrUpdateSchema", schema)}
MasterDataDocuments(ctx) ==
    LET c == MasterDataClient(ctx)
        document == <<"e", "documents", "i">>  documents == <<"e", "documents">>
    IN  {With(Get(c, "getDocument", document), o) : o \in Options("_fields")}
        \cup {Send(c, "post", "createDocument", documents), Send(c, "put", "createOrUpdateEntireDocument", documents),
              Send(c, "patch", "createOrUpdatePartialDocument", documents),
              Send(c, "put", "updateEntireDocument", document), Send(c, "patch", "updatePartialDocument", document)}
MasterDataSearches(ctx) ==
    LET c == MasterDataClient(ctx) IN
    {With(CachedIn(Get(c, m, <<"e", "search">>), "none"), {<<"_where", "w">>}) :
        m \in {"searchDocuments", "searchDocumentsWithPaginationInfo"}}
    \cup {With(CachedIn(Get(c, "scrollDocuments", <<"e", "scroll">>), "none"), o) : o \in Options("_token")}
MasterDataDelete(ctx) == Send(MasterDataClient(ctx), "delete", "deleteDocument", <<"e", "documents", "i">>)
PaymentRequests(ctx) ==
    LET c == Client(ctx, "paymentProvider", <<"payments", ctx.account>>, {})
        payment == <<"transactions", "t", "payments", "p">>
    IN  {Send(c, "post", "callback", payment \o <<"notification">>),
         Send(c, "post", "inbound", payment \o <<"inbound-request", "a">>)}

(* clients/janus.  The cookies of LicenseManager and Session are headers,  *)
(* and in no key.                                                          *)
LicenseManagerRequests(ctx) ==
    LET c == Janus(ctx, "licenseManager") IN
    {ByQuery(Get(c, "getAccountData", <<"license-manager", "account">>)),
     Get(c, "getTopbarData", <<"license-manager", "newtopbar">>),
     Get(c, "canAccessResource", <<"license-manager", "resources", "k", "access">>)}
SessionRequests(ctx) ==
    LET c == Janus(ctx, "session")  items == {<<"items", "i">>} IN
    {With(Get(c, "getSession", <<"sessions">>), items), With(Send(c, "post", "updateSession", <<"sessions">>), items)}
(* rawSegment: a token is part of the url; without one a segment is made.  *)
SegmentRequests(ctx) ==
    {ByQuery(With(Get(Janus(ctx, "segment"), "rawSegment", url), {<<"workspace", ctx.workspace>>} \cup o)) :
        url \in {<<"segments">>, <<"segments", "t1">>, <<"segments", "t2">>}, o \in Options("utm")}
TenantRequests(ctx) ==
    {ByQuery(With(Get(Janus(ctx, "tenant"), "info", <<"tenants">>), {<<"q", ctx.account>>}))}

(* Everything a context can ask for (IOClients).                           *)
InfraRequests(ctx) ==
    Apps(ctx) \cup Registry(ctx) \cup UNION {AssetsFiles(ctx, a, p) : a \in AppIds, p \in {"f"}}
    \cup VBaseBucket(ctx) \cup VBaseConflicts(ctx) \cup UNION {VBaseFiles(ctx, p) : p \in Paths}
    \cup RouterRequests(ctx) \cup WorkspacesRequests(ctx) \cup SphinxRequests(ctx)
    \cup HousekeeperRequests(ctx) \cup EventsRequests(ctx) \cup BillingMetricsRequests(ctx)
IOClients(ctx) ==
    InfraRequests(ctx) \cup BuilderRequests(ctx) \cup SettingsRequests(ctx) \cup BillingRequests(ctx)
    \cup MessagesRequests(ctx) \cup CatalogRequests(ctx) \cup IdRequests(ctx)
    \cup MasterDataSchemas(ctx) \cup MasterDataDocuments(ctx)
    \cup MasterDataSearches(ctx) \cup {MasterDataDelete(ctx)} \cup PaymentRequests(ctx)
    \cup LicenseManagerRequests(ctx) \cup SessionRequests(ctx) \cup SegmentRequests(ctx) \cup TenantRequests(ctx)
=============================================================================
