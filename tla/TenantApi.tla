----------------------------- MODULE TenantApi -----------------------------
(***************************************************************************)
(* The dashboard's API over the rows of an organization: projects, their   *)
(* endpoints, API keys, alert channels, test suites and findings, and an   *)
(* endpoint's mock rules and settings.  A request passes the guards of its *)
(* route (internal/middleware/auth.go, internal/transport/http/router.go), *)
(* each a read of the database, and then runs its handler; requests of     *)
(* different members run concurrently, and rows may vanish under them.     *)
(*                                                                         *)
(* A route here is a shape of addresses.  Which of the operations behind   *)
(* it a request is for does not matter before its handler runs.            *)
(***************************************************************************)
EXTENDS Naturals, FiniteSets

CONSTANTS
    Requests,  \* requests to the API
    Users,
    Orgs,
    Home,      \* the organization each user is the owner of (see Accounts)
    Projects, Endpoints, Rules, Keys, Channels,  \* identifiers of rows
    Suites, Findings, Captured,
    Initially, \* the parent of each row that exists at the start
    Slugs,     \* addresses of endpoints
    SlugOf,    \* the address of each of them that exists at the start
    Urls,      \* upstream URLs
    None       \* no value

Ids == UNION {Projects, Endpoints, Rules, Keys, Channels, Suites, Findings, Captured}
Parents == Orgs \union Projects \union Endpoints

(* The table a row's foreign key references. *)
ParentTable(id) ==
    IF id \in Projects THEN Orgs
    ELSE IF id \in Rules \union Captured THEN Endpoints ELSE Projects

(* Identifiers are UUIDs, and the rows that exist have their parents.      *)
ASSUME TenantAssumption ==
    /\ Home \in [Users -> Orgs]
    /\ SlugOf \in [Endpoints -> Slugs]
    /\ LET kinds == <<Orgs, Projects, Endpoints, Rules, Keys, Channels, Suites, Findings, Captured>>
       IN  \A i, j \in 1 .. 9 : i # j => kinds[i] \intersect kinds[j] = {}
    /\ Initially \in [Ids -> Parents \union {"unborn"}]
    /\ \A id \in Ids : Initially[id] # "unborn" =>
          Initially[id] \in ParentTable(id) /\ (Initially[id] \in Ids => Initially[Initially[id]] # "unborn")
    /\ {"unborn", "gone"} \intersect (Orgs \union Ids) = {}
    /\ None \notin Ids \union Urls \union BOOLEAN \union Slugs

VARIABLES
    parent,    \* the parent of each row; rows not yet inserted are unborn, deleted ones gone
    settings,  \* the columns of each endpoint that an operator may change
    flag,      \* enabled of a mock rule, revoked of an API key, renamed of a project
    marks,     \* endpoint_schemas, endpoint_webhook_security and forwarding_configs: the
               \* endpoints that have a row, of which there is at most one each
    audits,    \* audit_logs
    pc,        \* where each request is
    order,     \* what it asks for
    todo,      \* the ownership guards of its route still to pass
    existing,  \* the endpoint row its handler read
    got,       \* the organizations whose rows it was shown
    newest,    \* what the last update that named a column of an endpoint wrote there
    overlapped \* endpoints that two updates worked on at once

rows == <<parent, settings, flag, marks, audits>>
tenantVars == <<rows, pc, order, todo, existing, got, newest, overlapped>>

Live(id) == parent[id] \in Parents

Columns == [active : BOOLEAN, upstream : Urls \union {None}, slug : Slugs]
Fresh(s) == [active |-> TRUE, upstream |-> None, slug |-> s]

(* A PUT names some of the columns and leaves the others out. *)
Named == [active : BOOLEAN \union {None}, upstream : Urls \union {None}]

Routes == {"organization", "project", "key", "slug", "project endpoint", "endpoint", "rule",
           "channel", "suite", "suite request", "request"}

(* The ownership guards of each route. *)
Guards(route) ==
    CASE route = "organization" -> {}
      [] route = "project endpoint" -> {"project", "endpoint"}
      [] route \in {"endpoint", "rule"} -> {"endpoint"}
      [] route \in {"channel", "suite", "request"} -> {"item"}
      [] OTHER -> {"project"}

(* What its address or body names besides; a suite is deleted from the     *)
(* project its query names.                                                *)
Items(route) ==
    CASE route = "rule" -> Rules
      [] route = "key" -> Keys
      [] route = "channel" -> Channels
      [] route = "suite" -> Suites
      [] route \in {"request", "suite request"} -> Captured
      [] route = "slug" -> Slugs
      [] OTHER -> {None}

roleRank(role) ==
    CASE role \in {"OWNER", "ADMIN"} -> 3
      [] role \in {"DEVELOPER", "MEMBER"} -> 2
      [] role = "VIEWER" -> 1
      [] OTHER -> 0

(* Every member the program creates is OWNER. *)
RequireRole(minRole) == roleRank("OWNER") >= roleRank(minRole)

(* What a client may send: identifiers it can know of, whoever's they are. *)
Known(ids) == {id \in ids : id \in Ids => Initially[id] # "unborn"}
Orders ==
    UNION {[route : {route}, user : Users, org : Orgs,
            project : IF "project" \in Guards(route) \/ route = "suite" THEN Known(Projects)
                      ELSE {None},
            endpoint : IF "endpoint" \in Guards(route) THEN Known(Endpoints) ELSE {None},
            item : Known(Items(route)),
            names : IF route = "project endpoint" THEN Named ELSE {None}] : route \in Routes}

NoOrder == [route |-> "none"]

Marks == {"schema", "security", "forwarding"}

Audit == [org : Orgs, user : Users, project : Projects \union {None}, endpoint : Endpoints,
          action : {"UPSTREAM_URL_CHANGED", "SECRET_UPDATED"}]

TenantTypeOK ==
    /\ parent \in [Ids -> Parents \union {"unborn", "gone"}]
    /\ settings \in [Endpoints -> Columns]
    /\ flag \in [Rules \union Keys \union Projects -> BOOLEAN]
    /\ marks \in SUBSET (Endpoints \X Marks)
    /\ audits \in SUBSET Audit
    /\ pc \in [Requests -> {"unsent", "guarded", "loaded", "written", "done"}]
    /\ order \in [Requests -> Orders \union {NoOrder}]
    /\ todo \in [Requests -> SUBSET {"project", "endpoint", "item"}]
    /\ existing \in [Requests -> Columns \union {None}]
    /\ got \in [Requests -> SUBSET Orgs]
    /\ newest \in [Endpoints -> Columns]
    /\ overlapped \in SUBSET Endpoints

TenantInit ==
    /\ parent = Initially
    /\ settings = [e \in Endpoints |-> Fresh(SlugOf[e])]
    /\ flag = [i \in Rules \union Keys \union Projects |-> FALSE]
    /\ marks = {} /\ audits = {}
    /\ pc = [q \in Requests |-> "unsent"]
    /\ order = [q \in Requests |-> NoOrder]
    /\ todo = [q \in Requests |-> {}]
    /\ existing = [q \in Requests |-> None]
    /\ got = [q \in Requests |-> {}]
    /\ newest = settings
    /\ overlapped = {}

-----------------------------------------------------------------------------
(* Reads. *)

VerifyProjectOwnership(p, o) == parent[p] = o
GetEndpointWithOwnership(e, o) == parent[e] \in Projects /\ VerifyProjectOwnership(parent[e], o)
VerifyAlertChannelOwnership(ch, o) == Live(ch) /\ VerifyProjectOwnership(parent[ch], o)
VerifyTestSuiteOwnership(s, o) == Live(s) /\ VerifyProjectOwnership(parent[s], o)
VerifyRequestOwnership(c, o) == Live(c) /\ GetEndpointWithOwnership(parent[c], o)

GetMembership(o, u) == Home[u] = o
GetEndpointByID(e, p) == parent[e] = p
GetEndpointBySlug(s) == {e \in Endpoints : Live(e) /\ settings[e].slug = s}

ListProjectsByOrg(o) == {p \in Projects : parent[p] = o}
ListEndpointsByProject(p) == {e \in Endpoints : parent[e] = p}
ListMockRulesByEndpoint(e) == {r \in Rules : parent[r] = e}
ListAPIKeysByProject(p) == {k \in Keys : parent[k] = p}
ListAlertChannelsByProject(p) == {ch \in Channels : parent[ch] = p}
ListReplayTestSuitesByProject(p) == {t \in Suites : parent[t] = p}
ListSecurityFindingsByProject(p) == {f \in Findings : parent[f] = p}
ListRequestsByProject(p) == {c \in Captured : parent[c] \in ListEndpointsByProject(p)}
ListAuditLogsByProjectOrOrg(p, o) == {a \in audits : a.project = p \/ a.org = o}

GetProjectByID(p, o) == {p} \intersect ListProjectsByOrg(o)
GetAlertChannelByID(ch) == {ch} \intersect {i \in Ids : Live(i)}
GetReplayTestSuiteByID(s) == {s} \intersect {i \in Ids : Live(i)}
GetCapturedRequestByID(c) == {c} \intersect {i \in Ids : Live(i)}

(* The endpoint, if it has a row in the table. *)
Marked(e, table) == IF <<e, table>> \in marks THEN {e} ELSE {}
GetEndpointSchema(e) == Marked(e, "schema")
GetEndpointWebhookSecurity(e) == Marked(e, "security")
GetForwardingConfigByEndpoint(e) == Marked(e, "forwarding")

(* The organization a row belongs to. *)
Above(id) == IF Live(id) /\ parent[id] \notin Orgs THEN parent[id] ELSE id
OrgOf(id) == parent[Above(Above(id))]

-----------------------------------------------------------------------------
(* Writes.  Deleting a row deletes what references it (ON DELETE CASCADE), *)
(* inserting one needs its parent.                                         *)

Child(id, of) == Live(id) /\ (id = of \/ parent[id] = of)
Below(id) == {i \in Ids : Child(i, id) \/ \E e \in Endpoints : Child(e, id) /\ parent[i] = e}

Delete(gone) ==
    /\ parent' = [id \in Ids |-> IF id \in gone THEN "gone" ELSE parent[id]]
    /\ marks' = {m \in marks : m[1] \notin gone}
    /\ audits' = {IF a.project \in gone THEN [a EXCEPT !.project = None] ELSE a : a \in audits}
    /\ UNCHANGED <<settings, flag>>

InsertsUnder(p) == p \in Orgs \/ Live(p)
Insert(kind, under) ==
    \E id \in kind :
        /\ parent[id] = "unborn"
        /\ parent' = [parent EXCEPT ![id] = under]
        /\ UNCHANGED <<settings, flag, marks, audits>>

CreateProject(o) == Insert(Projects, o)
UpdateProject(p, o) ==
    /\ flag' = IF parent[p] = o THEN [flag EXCEPT ![p] = TRUE] ELSE flag
    /\ UNCHANGED <<parent, settings, marks, audits>>
DeleteProject(p, o) == Delete(IF parent[p] = o THEN Below(p) ELSE {})

(* endpoints.slug is UNIQUE. *)
CreateEndpoint(p, s) ==
    \E e \in Endpoints :
        /\ parent[e] = "unborn"
        /\ parent' = [parent EXCEPT ![e] = p]
        /\ settings' = [settings EXCEPT ![e] = Fresh(s)]
        /\ UNCHANGED <<flag, marks, audits>>

(* MUTANT: the statement leaves out a column.                              *)
UpdateEndpointActive(e, columns) ==
    /\ settings' = [settings EXCEPT ![e].active = columns.active]
    /\ UNCHANGED <<parent, flag, marks, audits>>

UpdateEndpoint(e, columns) ==
    /\ settings' = [settings EXCEPT ![e] = columns]
    /\ UNCHANGED <<parent, flag, marks, audits>>

DeleteEndpoint(e, p) == Delete(IF parent[e] = p THEN Below(e) ELSE {})

CreateMockRule(e) == Insert(Rules, e)
DeleteMockRule(r, e) == Delete(IF parent[r] = e THEN {r} ELSE {})
ToggleMockRule(r, e) ==
    /\ flag' = IF parent[r] = e THEN [flag EXCEPT ![r] = ~@] ELSE flag
    /\ UNCHANGED <<parent, settings, marks, audits>>

CreateAPIKey(p) == Insert(Keys, p)

(* MUTANT: the key is found by its id alone.                               *)
RevokeAnyAPIKey(k, p) ==
    /\ flag' = [flag EXCEPT ![k] = TRUE]
    /\ UNCHANGED <<parent, settings, marks, audits>>

RevokeAPIKey(k, p) ==
    /\ flag' = IF parent[k] = p THEN [flag EXCEPT ![k] = TRUE] ELSE flag
    /\ UNCHANGED <<parent, settings, marks, audits>>

CreateAlertChannel(p) == Insert(Channels, p)
DeleteAlertChannel(ch) == Delete(GetAlertChannelByID(ch))

CreateReplayTestSuite(p) == Insert(Suites, p)
DeleteReplayTestSuite(t, p) == Delete(IF parent[t] = p THEN {t} ELSE {})

UpsertMark(m) == marks' = marks \union {m} /\ UNCHANGED <<parent, settings, flag, audits>>
UpsertEndpointSchema(e) == UpsertMark(<<e, "schema">>)
UpsertEndpointWebhookSecurity(e) == UpsertMark(<<e, "security">>)
UpsertForwardingConfig(e) == UpsertMark(<<e, "forwarding">>)
RemoveMark(m) == marks' = marks \ {m} /\ UNCHANGED <<parent, settings, flag, audits>>
DeleteEndpointSchema(e) == RemoveMark(<<e, "schema">>)
DeleteEndpointWebhookSecurity(e) == RemoveMark(<<e, "security">>)

CreateAuditLog(a) == audits' = audits \union {a} /\ UNCHANGED <<parent, settings, flag, marks>>

-----------------------------------------------------------------------------
(* A request. *)

history == <<newest, overlapped>>

Stage(q, from, to) == pc[q] = from /\ pc' = [pc EXCEPT ![q] = to] /\ UNCHANGED got
Moves(q, from, to) == Stage(q, from, to) /\ UNCHANGED <<order, todo, existing>>

(* The answer is sent: nothing is left of the request. *)
Forgets(q) ==
    /\ pc' = [pc EXCEPT ![q] = "done"]
    /\ order' = [order EXCEPT ![q] = NoOrder]
    /\ todo' = [todo EXCEPT ![q] = {}]
    /\ existing' = [existing EXCEPT ![q] = None]
Ends(q, from) == pc[q] = from /\ Forgets(q) /\ UNCHANGED got

(* Memberships never change once there is an account, so that reading one  *)
(* is part of the arrival.                                                 *)
RequireTenant(q, o) ==
    IF GetMembership(o.org, o.user)
    THEN /\ Stage(q, "unsent", "guarded")
         /\ order' = [order EXCEPT ![q] = o]
         /\ todo' = [todo EXCEPT ![q] = Guards(o.route)]
         /\ UNCHANGED existing
    ELSE Ends(q, "unsent")

(* The token says who sends it, the header which organization it is for.   *)
Auth(q) ==
    /\ \E o \in Orders : RequireTenant(q, o)
    /\ UNCHANGED <<rows, history>>

Owns(q, guard) ==
    LET id == order[q].item  o == order[q].org IN
    CASE guard = "project" -> VerifyProjectOwnership(order[q].project, o)
      [] guard = "endpoint" -> GetEndpointWithOwnership(order[q].endpoint, o)
      [] guard = "item" /\ id \in Channels -> VerifyAlertChannelOwnership(id, o)
      [] guard = "item" /\ id \in Suites -> VerifyTestSuiteOwnership(id, o)
      [] guard = "item" /\ id \in Captured -> VerifyRequestOwnership(id, o)

requireResourceOwnership(q) ==
    \E guard \in todo[q] :
        /\ guard = "endpoint" => "project" \notin todo[q]
        /\ IF Owns(q, guard)
           THEN /\ Stage(q, "guarded", "guarded")
                /\ todo' = [todo EXCEPT ![q] = @ \ {guard}]
                /\ UNCHANGED <<order, existing>>
           ELSE Ends(q, "guarded")
        /\ UNCHANGED <<rows, history>>

Admitted(q, route, minRole) ==
    pc[q] = "guarded" /\ todo[q] = {} /\ order[q].route = route /\ RequireRole(minRole)

(* A handler that is one statement, whether or not it finds a row.         *)
Runs(q, statement) == Ends(q, "guarded") /\ statement /\ UNCHANGED history

(* Inserting under a parent that was deleted meanwhile is refused. *)
Inserts(q, under, statement) ==
    Runs(q, IF InsertsUnder(under) THEN statement ELSE UNCHANGED rows)

OrgsOf(ids) == {OrgOf(id) : id \in ids}

Shows(q, ids) ==
    /\ Forgets(q)
    /\ got' = [got EXCEPT ![q] = OrgsOf(ids)]
    /\ UNCHANGED <<rows, history>>

ListProjectsRequest(q) ==
    Admitted(q, "organization", "ANY") /\ Shows(q, ListProjectsByOrg(order[q].org))
CreateProjectRequest(q) ==
    Admitted(q, "organization", "DEVELOPER") /\ Runs(q, CreateProject(order[q].org))
GetProjectRequest(q) ==
    Admitted(q, "project", "ANY") /\ Shows(q, GetProjectByID(order[q].project, order[q].org))
UpdateProjectRequest(q) ==
    /\ Admitted(q, "project", "DEVELOPER")
    /\ Runs(q, UpdateProject(order[q].project, order[q].org))
DeleteProjectRequest(q) ==
    Admitted(q, "project", "OWNER") /\ Runs(q, DeleteProject(order[q].project, order[q].org))

ProjectHandler(q) ==
    \/ ListProjectsRequest(q) \/ CreateProjectRequest(q) \/ GetProjectRequest(q)
    \/ UpdateProjectRequest(q) \/ DeleteProjectRequest(q)

ListMocks(q) ==
    Admitted(q, "endpoint", "ANY") /\ Shows(q, ListMockRulesByEndpoint(order[q].endpoint))
CreateMock(q) ==
    LET e == order[q].endpoint IN
    Admitted(q, "endpoint", "DEVELOPER") /\ Inserts(q, e, CreateMockRule(e))
DeleteMock(q) ==
    /\ Admitted(q, "rule", "DEVELOPER")
    /\ Runs(q, DeleteMockRule(order[q].item, order[q].endpoint))
ToggleMock(q) ==
    /\ Admitted(q, "rule", "DEVELOPER")
    /\ Runs(q, ToggleMockRule(order[q].item, order[q].endpoint))

MockHandler(q) == ListMocks(q) \/ CreateMock(q) \/ DeleteMock(q) \/ ToggleMock(q)

GenerateAPIKey(q) ==
    LET p == order[q].project IN
    Admitted(q, "project", "DEVELOPER") /\ Inserts(q, p, CreateAPIKey(p))
ListKeys(q) ==
    Admitted(q, "project", "ANY") /\ Shows(q, ListAPIKeysByProject(order[q].project))
RevokeKey(q) ==
    Admitted(q, "key", "DEVELOPER") /\ Runs(q, RevokeAPIKey(order[q].item, order[q].project))

APIKeyHandler(q) == GenerateAPIKey(q) \/ ListKeys(q) \/ RevokeKey(q)

CreateChannel(q) ==
    LET p == order[q].project IN
    Admitted(q, "project", "DEVELOPER") /\ Inserts(q, p, CreateAlertChannel(p))
ListChannels(q) ==
    Admitted(q, "project", "ANY") /\ Shows(q, ListAlertChannelsByProject(order[q].project))
DeleteChannel(q) ==
    Admitted(q, "channel", "DEVELOPER") /\ Runs(q, DeleteAlertChannel(order[q].item))
SendTestAlert(q) ==
    Admitted(q, "channel", "DEVELOPER") /\ Shows(q, GetAlertChannelByID(order[q].item))

AlertHandler(q) == CreateChannel(q) \/ ListChannels(q) \/ DeleteChannel(q) \/ SendTestAlert(q)

(* The endpoint's settings in tables of their own. *)
SaveSchema(q) ==
    LET e == order[q].endpoint IN
    Admitted(q, "endpoint", "DEVELOPER") /\ Inserts(q, e, UpsertEndpointSchema(e))
GetSchema(q) == Admitted(q, "endpoint", "ANY") /\ Shows(q, GetEndpointSchema(order[q].endpoint))
DeleteSchema(q) ==
    Admitted(q, "endpoint", "DEVELOPER") /\ Runs(q, DeleteEndpointSchema(order[q].endpoint))
SaveConfig(q) ==
    LET e == order[q].endpoint IN
    Admitted(q, "endpoint", "DEVELOPER") /\ Inserts(q, e, UpsertForwardingConfig(e))
GetConfig(q) ==
    Admitted(q, "endpoint", "ANY") /\ Shows(q, GetForwardingConfigByEndpoint(order[q].endpoint))
GetSecurity(q) ==
    Admitted(q, "endpoint", "ANY") /\ Shows(q, GetEndpointWebhookSecurity(order[q].endpoint))
DeleteSecurity(q) ==
    Admitted(q, "endpoint", "OWNER") /\ Runs(q, DeleteEndpointWebhookSecurity(order[q].endpoint))

SettingsHandlers(q) ==
    \/ SaveSchema(q) \/ GetSchema(q) \/ DeleteSchema(q)
    \/ SaveConfig(q) \/ GetConfig(q) \/ GetSecurity(q) \/ DeleteSecurity(q)

ListRequests(q) ==
    Admitted(q, "project", "ANY") /\ Shows(q, ListRequestsByProject(order[q].project))
ListFindings(q) ==
    Admitted(q, "project", "ANY") /\ Shows(q, ListSecurityFindingsByProject(order[q].project))
ListAuditLogs(q) ==
    /\ Admitted(q, "project", "ANY") /\ Forgets(q)
    /\ got' = [got EXCEPT ![q] =
                 {a.org : a \in ListAuditLogsByProjectOrOrg(order[q].project, order[q].org)}]
    /\ UNCHANGED <<rows, history>>

(* The captured request goes out with the replay (see ReplayLab). *)
ReplayRequest(q) ==
    Admitted(q, "request", "DEVELOPER") /\ Shows(q, GetCapturedRequestByID(order[q].item))

Listings(q) == ListRequests(q) \/ ListFindings(q) \/ ListAuditLogs(q) \/ ReplayRequest(q)

-----------------------------------------------------------------------------
(* Test suites: the requests of a suite are looked up, then it is stored.  *)

CheckSuite(q) ==
    LET c == order[q].item IN
    /\ Admitted(q, "suite request", "DEVELOPER")
    /\ IF Live(c) /\ parent[parent[c]] = order[q].project THEN Moves(q, "guarded", "loaded")
                                                          ELSE Ends(q, "guarded")
    /\ UNCHANGED <<rows, history>>

StoreSuite(q) ==
    LET p == order[q].project IN
    /\ pc[q] = "loaded" /\ order[q].route = "suite request" /\ Ends(q, "loaded")
    /\ IF Live(p) THEN CreateReplayTestSuite(p) ELSE UNCHANGED rows
    /\ UNCHANGED history

CreateSuite(q) == CheckSuite(q) \/ StoreSuite(q)
ListSuites(q) ==
    Admitted(q, "project", "ANY") /\ Shows(q, ListReplayTestSuitesByProject(order[q].project))
GetSuite(q) == Admitted(q, "suite", "ANY") /\ Shows(q, GetReplayTestSuiteByID(order[q].item))
DeleteSuite(q) ==
    /\ Admitted(q, "suite", "DEVELOPER")
    /\ Runs(q, DeleteReplayTestSuite(order[q].item, order[q].project))

TestSuiteHandler(q) == CreateSuite(q) \/ ListSuites(q) \/ GetSuite(q) \/ DeleteSuite(q)

-----------------------------------------------------------------------------
(* Endpoints: handlers of several statements. *)

(* CreateEndpoint looks the slug up, then inserts. *)
LoadSlug(q) ==
    /\ Admitted(q, "slug", "DEVELOPER")
    /\ IF GetEndpointBySlug(order[q].item) = {} THEN Moves(q, "guarded", "loaded")
                                                ELSE Ends(q, "guarded")
    /\ UNCHANGED <<rows, history>>

StoreEndpoint(q) ==
    LET p == order[q].project  s == order[q].item IN
    /\ pc[q] = "loaded" /\ order[q].route = "slug" /\ Ends(q, "loaded")
    /\ IF Live(p) /\ GetEndpointBySlug(s) = {} THEN CreateEndpoint(p, s) ELSE UNCHANGED rows
    /\ newest' = [e \in Endpoints |-> IF Live(e) THEN newest[e] ELSE settings'[e]]
    /\ UNCHANGED overlapped

(* UpdateEndpoint reads the row and writes every column: those not named   *)
(* get the value it read.                                                  *)
LoadEndpoint(q) ==
    LET e == order[q].endpoint IN
    /\ Admitted(q, "project endpoint", "DEVELOPER")
    /\ IF GetEndpointByID(e, order[q].project)
       THEN /\ Stage(q, "guarded", "loaded")
            /\ existing' = [existing EXCEPT ![q] = settings[e]]
            /\ UNCHANGED <<order, todo>>
       ELSE Ends(q, "guarded")
    /\ overlapped' = overlapped \union {order[r].endpoint : r \in {r \in Requests :
           order[r].route = "project endpoint" /\ pc[r] = "loaded" /\ order[r].endpoint = e}}
    /\ UNCHANGED <<rows, newest>>

(* The columns named, over those of the row that was read. *)
Effective(names, read) ==
    [active |-> IF names.active # None THEN names.active ELSE read.active,
     upstream |-> IF names.upstream # None THEN names.upstream ELSE read.upstream,
     slug |-> read.slug]

WriteEndpoint(q) ==
    LET e == order[q].endpoint  names == order[q].names IN
    /\ pc[q] = "loaded" /\ order[q].route = "project endpoint"
    /\ IF GetEndpointByID(e, order[q].project)
       THEN /\ UpdateEndpoint(e, Effective(names, existing[q]))
            /\ newest' = [newest EXCEPT ![e] = Effective(names, @)]
            /\ IF names.upstream # None THEN Moves(q, "loaded", "written") ELSE Ends(q, "loaded")
       ELSE Ends(q, "loaded") /\ UNCHANGED <<rows, newest>>
    /\ UNCHANGED overlapped

SaveSecurity(q) ==
    LET e == order[q].endpoint IN
    /\ Admitted(q, "endpoint", "DEVELOPER")
    /\ IF Live(e) THEN UpsertEndpointWebhookSecurity(e) /\ Moves(q, "guarded", "written")
       ELSE UNCHANGED rows /\ Ends(q, "guarded")
    /\ UNCHANGED history

(* What was changed is logged; a failing insert is only reported. *)
WriteAudit(q) ==
    LET e == order[q].endpoint
        update == order[q].route = "project endpoint"
        project == IF update THEN order[q].project ELSE IF Live(e) THEN parent[e] ELSE None
    IN
    /\ pc[q] = "written" /\ Ends(q, "written")
    /\ \/ /\ project # None => Live(project)
          /\ CreateAuditLog([org |-> order[q].org, user |-> order[q].user, project |-> project,
                             endpoint |-> e, action |-> IF update THEN "UPSTREAM_URL_CHANGED"
                                                        ELSE "SECRET_UPDATED"])
       \/ UNCHANGED rows
    /\ UNCHANGED history

ListEndpoints(q) ==
    Admitted(q, "project", "ANY") /\ Shows(q, ListEndpointsByProject(order[q].project))
RemoveEndpoint(q) ==
    /\ Admitted(q, "project endpoint", "OWNER")
    /\ Runs(q, DeleteEndpoint(order[q].endpoint, order[q].project))

EndpointHandler(q) ==
    \/ ListEndpoints(q)
    \/ LoadSlug(q) \/ StoreEndpoint(q)
    \/ LoadEndpoint(q) \/ WriteEndpoint(q)
    \/ RemoveEndpoint(q)

TenantNext ==
    \E q \in Requests :
        \/ Auth(q) \/ requireResourceOwnership(q)
        \/ ProjectHandler(q) \/ EndpointHandler(q) \/ MockHandler(q) \/ APIKeyHandler(q)
        \/ AlertHandler(q) \/ SettingsHandlers(q) \/ TestSuiteHandler(q) \/ Listings(q)
        \/ SaveSecurity(q) \/ WriteAudit(q)

TenantSpec == TenantInit /\ [][TenantNext]_tenantVars

-----------------------------------------------------------------------------
(* A request reaches only the rows of the organization it acts for, which  *)
(* is the sender's own: no row of another is changed or deleted, none is   *)
(* inserted under one, and none is shown, whatever identifiers the request *)
(* mixes and whatever is deleted between the guards and the handler.       *)
Own(q) == IF order[q] = NoOrder THEN {} ELSE {Home[order[q].user]}

Untouched(id) ==
    /\ UNCHANGED parent[id]
    /\ id \in Endpoints => UNCHANGED settings[id]
    /\ id \in Rules \union Keys \union Projects => UNCHANGED flag[id]
    /\ \A k \in Marks : <<id, k>> \in marks' <=> <<id, k>> \in marks

(* What a row belongs to: the organization it was in, or is inserted into. *)
Owner(id) == IF Live(id) THEN OrgOf(id) ELSE OrgOf(id)'

TenantIsolation ==
    [][/\ \A id \in Ids : Untouched(id)
             \/ \E q \in Requests : pc'[q] # pc[q] /\ Owner(id) \in Own(q)
       /\ \A q \in Requests : got'[q] # got[q] => got'[q] \subseteq Own(q)]_tenantVars

(* A column keeps what the last update that named it wrote: an update of   *)
(* other columns does not undo it.  This holds only of endpoints that no   *)
(* two updates worked on at once, since an update writes back every column *)
(* as it read it.                                                          *)
NamedColumnsStick ==
    \A e \in Endpoints : Live(e) /\ e \notin overlapped => settings[e] = newest[e]
=============================================================================
