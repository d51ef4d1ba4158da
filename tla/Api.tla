--------------------------------- MODULE Api ----------------------------------
(* The HTTP surface: which route a request reaches, whose key may use it and *)
(* what it may change (app/main.py, app/auth.py).  A route is its method,    *)
(* its path with "{}" for a parameter, the permission it requires, how far   *)
(* the handler looks ("reach") and the data it changes.  What a handler does *)
(* with that data is modelled in the component it calls.                     *)
EXTENDS Naturals, Sequences, SequencesExt

CONSTANTS
  Tenants,   \* the tenants' ids
  All,       \* "*": every tenant
  NoRow,     \* what an id that names nothing finds
  Headers    \* what a request may carry as its key, "" for none

ASSUME ApiAssumption == All \notin Tenants /\ NoRow \notin Tenants \cup {All}

Nothing == "nothing"

\* What an entry or a header leaves out.
Blank == ""

Route(method, perm, reach, path, what) ==
  [method |-> method, perm |-> perm, reach |-> reach, path |-> path, changes |-> what]

Public(path) == Route("GET", "none", "public", path, Nothing)
Facts(path) == Route("GET", "read", "any", path, Nothing)
View(path) == Route("GET", "read", "tenant", path, Nothing)
ViewRow(path) == Route("GET", "read", "row", path, Nothing)
Evidence(path) == Route("GET", "read:evidence", "tenant", path, Nothing)
EvidenceRow(path) == Route("GET", "read:evidence", "row", path, Nothing)
Compute(reach, path) == Route("POST", "write", reach, path, Nothing)
Post(perm, path, what) == Route("POST", perm, "tenant", path, what)
PostRow(perm, path, what) == Route("POST", perm, "row", path, what)
Patch(path, what) == Route("PATCH", "write", "row", path, what)
Delete(perm, path, what) == Route("DELETE", perm, "row", path, what)

------------------------------------------------------------------------------
(* The routes, section by section, in the order main.py defines them. *)

MetaRoutes == <<
  Public(<<>>), Public(<<"health", "live">>), Public(<<"metrics">>),
  Public(<<"health", "ready">>), Public(<<"controls">>), Public(<<"frameworks">>),
  Public(<<"crosswalk">>), Facts(<<"connectors">>), Facts(<<"connectors", "catalog">>),
  Facts(<<"connectors", "safety">>), Facts(<<"setup">>), View(<<"connectors", "status">>) >>

InstanceRoutes == <<
  View(<<"connectors", "instances">>),
  Post("write", <<"connectors", "instances">>, "connector instances"),
  Post("assess", <<"connectors", "instances", "ephemeral", "sync">>, "synced evidence"),
  Post("assess", <<"connectors", "instances", "ephemeral", "test">>, Nothing),
  PostRow("assess", <<"connectors", "instances", "{}", "sync">>, "synced evidence"),
  PostRow("assess", <<"connectors", "instances", "{}", "test">>, Nothing),
  Delete("write", <<"connectors", "instances", "{}">>, "connector instances"),
  Facts(<<"connectors", "capabilities">>) >>

\* A connector's name is looked up in the shared catalogue, so its routes
\* reach a tenant and no row of the tenant's.
ConnectorRoutes == <<
  View(<<"connectors", "{}">>),
  Route("POST", "assess", "any", <<"connectors", "{}", "test">>, Nothing),
  Post("assess", <<"connectors", "{}", "sync">>, "synced evidence"),
  View(<<"connectors", "{}", "evidence">>),
  Evidence(<<"evidence", "by-connector", "{}">>), Facts(<<"legacy", "sources">>) >>

FindingRoutes == <<
  Post("assess", <<"assessments">>, "findings"),
  Post("assess", <<"assessment-jobs">>, "findings"),
  Post("assess", <<"assessments", "bulk">>, "findings"),
  View(<<"findings">>), Patch(<<"findings", "{}">>, "findings"), View(<<"summary">>) >>

WaiverRoutes == <<
  Post("approve", <<"waivers">>, "waivers"), View(<<"waivers">>),
  Delete("approve", <<"waivers", "{}">>, "waivers"),
  Post("assess", <<"inventory", "discover">>, "inventory"), View(<<"inventory">>),
  Post("write", <<"schedules">>, "schedules"), View(<<"schedules">>),
  PostRow("assess", <<"schedules", "{}", "run">>, "findings"),
  Delete("write", <<"schedules", "{}">>, "schedules") >>

TrendRoutes == <<
  View(<<"trends">>), Post("write", <<"trends", "snapshot">>, "snapshots"),
  View(<<"drift">>), View(<<"remediation">>), Evidence(<<"evidence", "verify">>),
  EvidenceRow(<<"evidence", "{}", "verify">>) >>

AISystemRoutes == <<
  Post("write", <<"ai-systems">>, "ai systems"), View(<<"ai-systems">>),
  Post("admin", <<"evidence", "anchor">>, "anchors"),
  Evidence(<<"evidence", "anchors">>), Evidence(<<"evidence", "proof">>) >>

\* An import reloads the engine from its files, it stores nothing.
DashboardRoutes == <<
  Facts(<<"policies">>), Compute("tenant", <<"policies", "import">>),
  Evidence(<<"evidence">>),
  Post("write", <<"remediation", "tickets">>, "tickets"),
  View(<<"v1", "grc-trust", "unified">>),
  Post("write", <<"v1", "integrate", "ai-systems", "{}", "to-risk">>, "risks") >>

\* Switching a system's mode rewrites the bundle every system shares.
EnforcementRoutes == <<
  Facts(<<"enforcement", "status">>), Facts(<<"enforcement", "systems">>),
  Facts(<<"enforcement", "decisions">>),
  Route("POST", "admin", "fleet", <<"enforcement", "systems", "{}", "mode">>, "modes"),
  Post("write", <<"policy", "draft">>, "drafts"), View(<<"policy", "drafts">>),
  PostRow("approve", <<"policy", "{}", "approve">>, "draft decisions") >>

ReportRoutes == <<
  View(<<"forecast">>), Evidence(<<"reports", "csv">>), Evidence(<<"reports", "pdf">>),
  Evidence(<<"reports", "oscal">>), Evidence(<<"reports", "oscal-poam">>),
  Evidence(<<"reports", "oscal-components">>), View(<<"v1", "posture", "as-of">>),
  View(<<"v1", "posture", "timeline">>), View(<<"v1", "agents", "actions">>),
  View(<<"v1", "agents", "actions", "verify">>) >>

IngestRoutes == <<
  Post("assess", <<"ingest", "securityhub">>, "findings"),
  Post("assess", <<"ingest", "report">>, "findings"),
  Post("assess", <<"v1", "evidence", "ingest">>, "findings") >>

CatalogRoutes == <<
  Public(<<"dashboard">>), Facts(<<"catalog", "frameworks">>),
  Facts(<<"catalog", "families">>), Facts(<<"catalog">>),
  Post("attest", <<"attestations">>, "attestations"), View(<<"attestations">>),
  View(<<"coverage">>), Facts(<<"coverage", "automation">>),
  Facts(<<"v1", "scf", "crosswalk">>), Facts(<<"v1", "scf", "verify-crosswalk">>) >>

SimulationRoutes == <<
  Route("GET", "read:evidence", "any", <<"evidence", "lexicon">>, Nothing),
  Evidence(<<"evidence", "compliance">>), Compute("any", <<"simulate">>),
  Facts(<<"controls", "{}", "dependencies">>), View(<<"controls", "{}", "fragility">>),
  Compute("tenant", <<"remediation", "plan">>), View(<<"controls", "{}", "remediation">>),
  EvidenceRow(<<"evidence", "documents", "{}", "verify">>),
  Route("GET", "read:evidence", "any", <<"evidence", "crosswalk">>, Nothing),
  Evidence(<<"evidence", "export", "oscal">>) >>

\* A hit and a document name their tenant themselves: "owner".
DocumentRoutes == <<
  Post("write", <<"evidence", "documents">>, "documents"),
  Evidence(<<"evidence", "documents">>), Evidence(<<"evidence", "graph">>),
  Route("POST", "write", "owner", <<"evidence", "hits", "{}", "confirm">>, "hits"),
  Route("DELETE", "write", "owner", <<"evidence", "documents", "{}">>, "documents") >>

ResolverRoutes == <<
  Facts(<<"ontology", "planes">>), Facts(<<"ontology", "bindings">>),
  Post("write", <<"resolve">>, "routing decisions"), View(<<"resolve", "decisions">>),
  Public(<<"evidence-map">>) >>

RiskRoutes == <<
  View(<<"grc", "risks">>), View(<<"grc", "risks", "summary">>),
  Post("write", <<"grc", "risks">>, "risks"), Patch(<<"grc", "risks", "{}">>, "risks"),
  Delete("write", <<"grc", "risks", "{}">>, "risks"),
  View(<<"tprm", "vendors">>), View(<<"tprm", "vendors", "summary">>),
  Post("write", <<"tprm", "vendors">>, "vendors"),
  Patch(<<"tprm", "vendors", "{}">>, "vendors"),
  Delete("write", <<"tprm", "vendors", "{}">>, "vendors") >>

AuditRoutes == <<
  View(<<"trust", "graph">>), View(<<"trust", "risk-telemetry">>), View(<<"audits">>),
  Post("write", <<"audits">>, "audits"), ViewRow(<<"audits", "{}">>),
  Patch(<<"audits", "{}">>, "audits"), Delete("write", <<"audits", "{}">>, "audits"),
  PostRow("write", <<"audits", "{}", "refresh-posture">>, "audits"),
  View(<<"audits", "{}", "controls">>), Patch(<<"audits", "controls", "{}">>, "audits"),
  View(<<"audits", "{}", "requests">>),
  Post("write", <<"audits", "{}", "requests">>, "audits"),
  Patch(<<"audits", "requests", "{}">>, "audits"),
  Delete("write", <<"audits", "requests", "{}">>, "audits"),
  ViewRow(<<"audits", "{}", "export">>) >>

\* What a document says is returned for review and never stored.
ExtractRoutes == <<
  Compute("tenant", <<"v1", "documents", "extract">>),
  Compute("tenant", <<"v1", "documents", "ingest">>),
  Compute("tenant", <<"v1", "documents", "upload">>) >>

PolicyRoutes == <<
  Facts(<<"v1", "threat", "summary">>), Facts(<<"v1", "threat", "kev">>),
  Compute("any", <<"v1", "threat", "enrich">>), Facts(<<"v1", "policy", "list">>),
  Compute("any", <<"v1", "policy", "evaluate">>),
  Compute("any", <<"v1", "policy", "evaluate-all">>),
  Compute("any", <<"v1", "policy", "test">>), Compute("any", <<"v1", "policy", "reload">>) >>

AIGovernanceRoutes == <<
  Facts(<<"v1", "ai-gov", "pet-catalog">>), Compute("any", <<"v1", "ai-gov", "assess-pet">>),
  Post("write", <<"v1", "ai-gov", "systems", "{}", "pets">>, "ai systems"),
  View(<<"v1", "ai-gov", "systems", "{}", "risk">>),
  Compute("any", <<"v1", "ai-gov", "score">>) >>

IntegrationRoutes == <<
  Post("write", <<"v1", "integrate", "policy-to-findings">>, "findings"),
  Post("write", <<"v1", "integrate", "ai-to-risk">>, "risks"),
  Post("write", <<"v1", "integrate", "threat-escalation">>, "risks"),
  Post("write", <<"v1", "integrate", "run">>, "risks"),
  Facts(<<"v1", "grc-sync", "platforms">>),
  Post("assess", <<"v1", "grc-sync", "{}">>, "synced evidence"),
  View(<<"v1", "grc-sync", "status">>), View(<<"v1", "grc-sync", "multi-source">>),
  Facts(<<"v1", "grc-sync", "profiles">>) >>

TrustRoutes == <<
  View(<<"v1", "grc-trust", "score">>), View(<<"v1", "grc-trust", "controls">>),
  View(<<"v1", "grc-trust", "platforms">>), Facts(<<"v1", "grc-trust", "policy">>),
  Compute("tenant", <<"v1", "grc-trust", "score-preview">>) >>

\* Connectors' names are declared last among the paths that begin alike.
ConnectorPaths == InstanceRoutes \o ConnectorRoutes

Routes ==
  MetaRoutes \o ConnectorPaths \o FindingRoutes \o WaiverRoutes \o TrendRoutes
  \o AISystemRoutes \o DashboardRoutes \o EnforcementRoutes \o ReportRoutes
  \o IngestRoutes \o CatalogRoutes \o SimulationRoutes \o DocumentRoutes
  \o ResolverRoutes \o RiskRoutes \o AuditRoutes \o ExtractRoutes \o PolicyRoutes
  \o AIGovernanceRoutes \o IntegrationRoutes \o TrustRoutes

\* "{}" takes any one segment.
Matches(pattern, path) ==
  /\ Len(pattern) = Len(path)
  /\ \A i \in DOMAIN path : pattern[i] \in {"{}", path[i]}

\* The path of a request for route r, its parameters given ids of their own.
PathOf(r) == [i \in DOMAIN r.path |-> IF r.path[i] = "{}" THEN "id" ELSE r.path[i]]

\* The first route declared with the method and a matching path serves.
Dispatch(method, path) ==
  SelectInSeq(Routes, LAMBDA r : r.method = method /\ Matches(r.path, path))

ServedBy == [n \in DOMAIN Routes |-> Dispatch(Routes[n].method, PathOf(Routes[n]))]

Approvals == {"waivers", "draft decisions", "anchors", "modes"}

\* What changes data asks for a tenant and for a permission to change it;
\* approvals ask for the admin's, and attesting gives attestations only.
TableIsGuarded ==
  \A n \in DOMAIN Routes : Routes[n].changes # Nothing =>
    /\ Routes[n].reach \in {"tenant", "row", "owner", "fleet"}
    /\ Routes[n].perm \in {"write", "assess", "attest", "approve", "admin"}
    /\ Routes[n].changes \in Approvals => Routes[n].perm \in {"approve", "admin"}
    /\ Routes[n].perm = "attest" => Routes[n].changes = "attestations"

\* No route is hidden by one declared before it.
TableIsReached == \A n \in DOMAIN Routes : ServedBy[n] = n

------------------------------------------------------------------------------
(* The keys the deployment declares, one entry each: the key, whether the    *)
(* entry has a ":" at all, the tenants after it and the role named, if any.  *)

Read == {"read"}
RolePermissions ==
  [viewer |-> Read,
   auditor |-> Read \cup {"read:evidence", "attest"},
   operator |-> Read \cup {"read:evidence", "assess", "write", "attest"},
   admin |-> Read \cup {"read:evidence", "assess", "write", "attest", "approve", "admin"}]

\* An entry that names no key, or begins a scope and names no tenant, is refused.
Refused(e) == e.scoped /\ (e.key = Blank \/ e.tenants = {})

DefaultRole(tenants) == IF tenants = {All} THEN "admin" ELSE "operator"

\* MUTANT: a role nobody knows gives the default role.
RoleOfDefault(e) ==
  IF e.role \in DOMAIN RolePermissions THEN e.role ELSE DefaultRole(e.tenants)

RoleOf(e) ==
  CASE e.role = Blank -> DefaultRole(e.tenants)
    [] e.role \in DOMAIN RolePermissions -> e.role
    [] OTHER -> "viewer"

Grant(e) ==
  IF e.scoped THEN [tenants |-> e.tenants, role |-> RoleOf(e)]
  ELSE [tenants |-> {All}, role |-> "admin"]

Declarations ==
  [key : STRING, scoped : BOOLEAN, tenants : SUBSET (Tenants \cup {All}), role : STRING]

\* Of the entries with one key the last accepted one counts.
ParseKeys(entries) ==
  LET kept == {i \in DOMAIN entries : entries[i].key # Blank /\ ~ Refused(entries[i])}
  IN  [k \in {entries[i].key : i \in kept} |->
         Grant(entries[Max({i \in kept : entries[i].key = k})])]

CanAccess(p, t) == All \in p.tenants \/ t \in p.tenants

Has(p, perm) == perm \in RolePermissions[p.role]

------------------------------------------------------------------------------
VARIABLES
  keys,        \* the entries of COMP_LENS_API_KEYS
  production,  \* settings.is_production
  answer,      \* the status answered to the request, and the route that served
  changed      \* what the request changed: <<route, tenant, key>>

apiVars == <<keys, production, answer, changed>>

Unanswered == [status |-> 0, asked |-> 0, served |-> 0]

\* The process starts in production only with a key (lifespan).
Starts(entries) == production => DOMAIN ParseKeys(entries) # {}

\* Who is asking: a status to refuse with, or a principal.
Principal(header) ==
  LET known == ParseKeys(keys)
  IN  CASE DOMAIN known = {} /\ production -> [refused |-> 503]
        [] DOMAIN known = {} /\ ~ production -> [refused |-> 0, tenants |-> {All}, role |-> "admin"]
        [] DOMAIN known # {} /\ header = Blank -> [refused |-> 401]
        [] DOMAIN known # {} /\ header # Blank /\ header \notin DOMAIN known -> [refused |-> 403]
        [] OTHER -> [refused |-> 0, tenants |-> known[header].tenants, role |-> known[header].role]

\* Whether the principal may use the route for the tenant the request names.
Permitted(p, r, t) ==
  /\ Has(p, r.perm)
  /\ r.reach \in {"tenant", "row"} => CanAccess(p, t)
  /\ r.reach = "fleet" => All \in p.tenants

\* Whether the handler finds the row an id names: a row of the tenant asked
\* for, or, where the row alone decides, of a tenant the principal reaches.
Finds(p, r, t, rowTenant) ==
  CASE r.reach = "row" -> rowTenant = t
    [] r.reach = "owner" -> rowTenant \in Tenants /\ CanAccess(p, rowTenant)
    [] OTHER -> TRUE

\* The tenant whose data the handler changes.
Touches(r, t, rowTenant) ==
  CASE r.reach = "owner" -> rowTenant
    [] r.reach = "fleet" -> All
    [] OTHER -> t

Reply(n, status, changes) ==
  /\ answer' = [status |-> status, asked |-> n, served |-> ServedBy[n]]
  /\ changed' = changes
  /\ UNCHANGED <<keys, production>>

Refuse(n, header) ==
  /\ Routes[ServedBy[n]].reach # "public"
  /\ Principal(header).refused # 0
  /\ Reply(n, Principal(header).refused, changed)

\* A permission or a tenant that is not the key's is 403 before the handler's
\* own work, an id that names no row of the tenant is 404.
Forbid(n, header, t) ==
  LET r == Routes[ServedBy[n]]
      p == Principal(header)
  IN  /\ r.reach # "public" /\ p.refused = 0
      /\ ~ Permitted(p, r, t)
      /\ Reply(n, 403, changed)

Miss(n, header, t, rowTenant) ==
  LET r == Routes[ServedBy[n]]
      p == Principal(header)
  IN  /\ r.reach # "public" /\ p.refused = 0
      /\ Permitted(p, r, t) /\ ~ Finds(p, r, t, rowTenant)
      /\ Reply(n, 404, changed)

Serve(n, header, t, rowTenant) ==
  LET r == Routes[ServedBy[n]]
      p == Principal(header)
  IN  \/ r.reach = "public" /\ Reply(n, 200, changed)
      \/ /\ r.reach # "public" /\ p.refused = 0
         /\ Permitted(p, r, t) /\ Finds(p, r, t, rowTenant)
         /\ Reply(n, 200, IF r.changes = Nothing THEN changed
                          ELSE changed \cup {<<r.changes, Touches(r, t, rowTenant), header>>})

ApiInit ==
  /\ keys \in Seq(Declarations) /\ production \in BOOLEAN /\ Starts(keys)
  /\ answer = Unanswered /\ changed = {}

\* A request reaches the route its method and path lead to.
ApiNext ==
  /\ answer = Unanswered
  /\ \E n \in DOMAIN Routes, header \in Headers,
        t \in Tenants, rowTenant \in Tenants \cup {NoRow} :
       \/ Refuse(n, header) \/ Forbid(n, header, t)
       \/ Miss(n, header, t, rowTenant) \/ Serve(n, header, t, rowTenant)

ApiSpec == ApiInit /\ [][ApiNext]_apiVars

------------------------------------------------------------------------------
\* What each role is there to change (the roles in auth.py's first comment).
Duties(role, what) ==
  \/ role = "admin"
  \/ role = "operator" /\ what \notin Approvals
  \/ role = "auditor" /\ what = "attestations"

\* An entry warrants a change of the tenants it spells out by the role it
\* spells out: a typo in either warrants nothing.
Warrants(e, what, t) ==
  \/ ~ e.scoped
  \/ /\ All \in e.tenants \/ t \in e.tenants
     /\ \/ Duties(e.role, what)
        \/ e.role = Blank /\ e.tenants = {All}
        \/ e.role = Blank /\ Duties("operator", what)

(* Whatever was changed with a key, an entry for that key declares: its      *)
(* tenant is in the entry's scope and the change is among the role's duties, *)
(* approvals being the admin's alone.  No key configured is the development  *)
(* mode, and never production's.  And a request made after a route's own     *)
(* template is served by that route: none is hidden by one declared before   *)
(* it with a parameter where it has a name (main.py warns of it at           *)
(* "/connectors/instances" and once served ".../to-risk" from the wrong of   *)
(* two).                                                                     *)
ChangesAreWarranted ==
  /\ \A c \in changed :
       \/ DOMAIN ParseKeys(keys) = {} /\ ~ production
       \/ \E n \in DOMAIN keys : keys[n].key = c[3] /\ Warrants(keys[n], c[1], c[2])
  /\ answer # Unanswered => answer.served = answer.asked
=============================================================================
