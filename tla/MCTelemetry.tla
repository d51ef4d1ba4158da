---------------------------- MODULE MCTelemetry ----------------------------
(***************************************************************************)
(* What comes in from outside.  Every probe of every connector, over every *)
(* world of a few facts, at most MaxDenied reads that fail, MaxAbsent      *)
(* settings missing from the answers and lists of up to two members some   *)
(* of which cannot be read: what is reported, and the verdict on every     *)
(* control it serves.  And the texts of checks, up to MaxPattern and       *)
(* MaxSource operators, the policies, and the dependencies.                *)
(***************************************************************************)
EXTENDS CheckPack, PolicyEngine, FiniteSetsExt

AWS == INSTANCE AwsConnector
AZURE == INSTANCE AzureConnector
GCP == INSTANCE GcpConnector
SAAS == INSTANCE SaasConnectors

CONSTANTS MaxDenied, MaxAbsent, MaxPattern, MaxSource, MaxText

VARIABLES kind,     \* <<connector, probe>>, or what else is asked
          world,    \* what is true at the vendor, and what can be read
          step,     \* "ready", "collected", "judged"
          obs,      \* the telemetry
          verdict,  \* the verdict on each control the probe serves
          pattern, anchors, tree, written,  \* of Cel
          curated, graph, question, seeds, frontier, impact \* of Dependencies

probe == <<kind, world, step, obs, verdict>>
texts == <<pattern, anchors, tree, written>>
simulation == <<curated, graph, question, seeds, frontier, impact>>
vars == <<probe, texts, engine, simulation>>

CEL == INSTANCE Cel

-----------------------------------------------------------------------------
\* Worlds.  opt: facts that may or may not hold; fixed: facts the service
\* guarantees; needs: a setting presupposes its object; reads: what may fail;
\* items: the lists; hides: their members may be unreadable; silent: what may
\* be missing from an answer.

UpTo(n, S) == UNION {kSubset(i, S) : i \in 0..n}
NoItems == {<<>>}
ListsOf(members) == UNION {[1..n -> members] : n \in 0..2}
Plain == [opt |-> {}, fixed |-> {}, needs |-> {}, reads |-> {}, items |-> NoItems, hides |-> FALSE, silent |-> {}]

PortRanges == {<<22, 22>>, <<23, 3389>>, <<8000, 12096>>, <<8000, 12097>>, <<0, 65535>>}
Permissions == {[world |-> v, tcp |-> TRUE, lo |-> r[1], hi |-> r[2]] :
                   v \in BOOLEAN, r \in PortRanges \cup {<<AWS!NoPort, AWS!NoPort>>}}
    \cup {[world |-> TRUE, tcp |-> FALSE, lo |-> 22, hi |-> 22]}
Rules == {[world |-> v, tcp |-> TRUE, allows |-> a, all |-> r = <<0, 65535>>, lo |-> r[1], hi |-> r[2]] :
             v \in BOOLEAN, a \in BOOLEAN, r \in PortRanges}
    \cup {[world |-> TRUE, tcp |-> FALSE, allows |-> TRUE, all |-> r = <<0, 65535>>,
           lo |-> r[1], hi |-> r[2]] : r \in {<<22, 22>>, <<0, 65535>>}}

Needs(object, S) == {<<s, object>> : s \in S}

AwsWorlds == [
    account_iam |-> [Plain EXCEPT !.opt = AWS!RootSignals \cup AWS!PasswordSignals \cup {"password_policy"},
        !.needs = Needs("password_policy", AWS!PasswordSignals),
        !.silent = AWS!RootSignals \cup AWS!PasswordSignals,
        !.reads = {"account_summary", "password_policy"}],
    iam_user |-> [Plain EXCEPT !.opt = {"mfa", "password_used", "days_since_last_login",
            "console_access_enabled", "has_inline_policy", "has_admin_policy"},
        !.needs = Needs("password_used", {"days_since_last_login"}),
        !.reads = {"list_mfa_devices", "get_user", "login_profile", "list_access_keys",
                   "list_user_policies", "list_attached"},
        !.silent = {"mfa", "has_inline_policy", "has_admin_policy", "items"},
        !.items = ListsOf(SUBSET {"recent"})],
    s3_bucket |-> [Plain EXCEPT !.opt = AWS!Surface["s3_bucket"].signals
            \cup {"public_access_block", "bucket_policy"},
        !.needs = {<<"kms_encrypted", "encryption_at_rest">>, <<"tls_required", "bucket_policy">>,
                   <<"public_access_blocked", "public_access_block">>},
        !.reads = {"encryption", "public_access_block", "versioning", "logging", "lifecycle",
                   "bucket_policy"},
        !.silent = AWS!Surface["s3_bucket"].signals \ {"lifecycle_configured"}],
    cloudtrail |-> [Plain EXCEPT !.reads = {"describe_trails"}, !.hides = TRUE, !.silent = {"items"},
        !.items = ListsOf(SUBSET {"logging", "multi_region", "validation", "kms", "cloudwatch"})],
    ec2_instance |-> [Plain EXCEPT !.opt = AWS!InstanceSignals \cup {"exists"},
        !.reads = {"describe_instances"}, !.silent = AWS!InstanceSignals],
    ebs_volume |-> [Plain EXCEPT !.opt = {"encryption_at_rest", "kms_encrypted", "exists"},
        !.reads = {"describe_volumes"}, !.silent = {"encryption_at_rest", "kms_encrypted"}],
    rds_instance |-> [Plain EXCEPT !.opt = AWS!DatabaseSignals \cup {"exists"},
        !.reads = {"describe_db_instances"}, !.silent = AWS!DatabaseSignals],
    security_group |-> [Plain EXCEPT !.opt = {"exists"}, !.reads = {"describe_security_groups"},
        !.items = ListsOf(Permissions), !.silent = {"items"}],
    kms_key |-> [Plain EXCEPT !.opt = {"key_enabled", "key_rotation_enabled"},
        !.reads = {"describe_key", "rotation_status"},
        !.silent = {"key_enabled", "key_rotation_enabled"}],
    vpc |-> [Plain EXCEPT !.reads = {"describe_flow_logs"}, !.items = ListsOf(SUBSET {"active"}),
        !.silent = {"items"}],
    guardduty |-> [Plain EXCEPT !.reads = {"list_detectors"}, !.hides = TRUE, !.silent = {"items"},
        !.items = ListsOf(SUBSET {"enabled"})],
    config_recorder |-> [Plain EXCEPT !.reads = {"recorder_status", "recorders"}, !.silent = {"items"},
        !.items = ListsOf(SUBSET {"recording", "all"})]]

AzureWorlds == [
    entra_user |-> [Plain EXCEPT !.opt = {"mfa", "has_admin_policy", "has_inline_policy",
            "console_access_enabled", "signed_in", "days_since_last_login"},
        !.needs = Needs("signed_in", {"days_since_last_login"}),
        !.reads = {"registration", "transitive_roles", "direct_roles", "user", "sign_in_activity"},
        !.silent = {"mfa", "has_admin_policy", "has_inline_policy", "console_access_enabled"}],
    service_principal |-> [Plain EXCEPT !.reads = {"service_principal"}, !.silent = {"items"},
        !.items = ListsOf(SUBSET {"recent"})],
    storage_account |-> [Plain EXCEPT !.fixed = AZURE!AlwaysOn,
        !.opt = AZURE!Surface["storage_account"].signals \ AZURE!AlwaysOn,
        !.silent = AZURE!Surface["storage_account"].signals \ AZURE!AlwaysOn,
        !.reads = {"resource_group", "account", "diagnostics", "management_policy"}],
    sql_database |-> [Plain EXCEPT !.fixed = {"encryption_at_rest", "auto_minor_version_upgrade"},
        !.opt = {"publicly_accessible", "deletion_protection_enabled", "iam_auth_enabled",
                 "database_param"} \cup AZURE!DatabaseSignals,
        !.reads = {"resource_group", "server", "locks", "entra_only_auth", "retention", "database",
                   "database_diagnostics"},
        !.silent = {"publicly_accessible", "deletion_protection_enabled", "iam_auth_enabled"}
                   \cup AZURE!DatabaseSignals],
    subscription |-> [Plain EXCEPT !.opt = {"logging_enabled", "cloudwatch_logs_integrated",
            "threat_detection_enabled", "default_domain", "password_max_age_days"},
        !.needs = Needs("default_domain", {"password_max_age_days"}),
        !.silent = {"logging_enabled", "cloudwatch_logs_integrated", "threat_detection_enabled",
                    "password_max_age_days"},
        !.reads = {"diagnostics", "pricings", "domains"}],
    virtual_machine |-> [Plain EXCEPT !.opt = {"detailed_monitoring_enabled"}, !.hides = TRUE,
        !.reads = {"resource_group", "vm", "instance_view"}, !.items = ListsOf(SUBSET {"public"}),
        !.silent = {"detailed_monitoring_enabled", "items"}],
    network_security_group |-> [Plain EXCEPT !.reads = {"resource_group", "nsg"},
        !.items = ListsOf(Rules), !.silent = {"items"}],
    virtual_network |-> [Plain EXCEPT !.opt = {"flow_logs_enabled"}, !.reads = {"flow_logs"},
        !.silent = {"flow_logs_enabled"}],
    key_vault_key |-> [Plain EXCEPT !.opt = {"key_rotation_enabled"},
        !.reads = {"vault_param", "rotation_policy"}, !.silent = {"key_rotation_enabled"}],
    managed_disk |-> [Plain EXCEPT !.opt = {"encryption_at_rest", "kms_encrypted"},
        !.reads = {"resource_group", "disk"}, !.silent = {"encryption_at_rest", "kms_encrypted"}]]

GcpWorlds == [
    gcs_bucket |-> [Plain EXCEPT !.fixed = {"encryption_at_rest", "tls_required"},
        !.opt = {"all_users", "all_authenticated", "uniform_access", "kms_encrypted",
                 "versioning_enabled", "access_logging_enabled", "lifecycle_configured"},
        !.reads = {"bucket", "iam_policy"}],
    project |-> [Plain EXCEPT !.opt = {"logging_enabled", "cloudwatch_logs_integrated",
            "threat_detection_enabled", "organization_id"},
        !.silent = {"logging_enabled", "cloudwatch_logs_integrated", "threat_detection_enabled"},
        !.reads = {"sinks", "sources"}],
    compute_instance |-> [Plain EXCEPT !.opt = {"detailed_monitoring_enabled"},
        !.silent = {"detailed_monitoring_enabled", "items"},
        !.reads = {"zone_param", "instance"}, !.items = ListsOf(SUBSET {"nat_ip", "name"})],
    firewall |-> [Plain EXCEPT !.opt = {"in_force"}, !.reads = {"firewall"}, !.silent = {"items"},
        !.items = ListsOf({r \in Rules : r.allows})],
    cloud_sql |-> [Plain EXCEPT !.fixed = {"encryption_at_rest"},
        !.opt = {"publicly_accessible", "auto_minor_version_upgrade", "multi_az_enabled",
                 "deletion_protection_enabled", "iam_auth_enabled", "retention_set",
                 "backup_retention_days", "log_statement", "point_in_time"},
        !.silent = {"publicly_accessible", "auto_minor_version_upgrade", "multi_az_enabled",
                    "deletion_protection_enabled", "iam_auth_enabled", "backup_retention_days",
                    "log_statement", "point_in_time"},
        !.needs = Needs("retention_set", {"backup_retention_days"}), !.reads = {"instance"}],
    vpc_network |-> [Plain EXCEPT !.reads = {"region_param", "subnetworks"}, !.silent = {"items"},
        !.items = ListsOf(SUBSET {"logged"})],
    kms_key |-> [Plain EXCEPT !.opt = {"key_rotation_enabled"}, !.reads = {"keyring_param", "key"},
        !.silent = {"key_rotation_enabled"}],
    persistent_disk |-> [Plain EXCEPT !.fixed = {"encryption_at_rest"}, !.opt = {"kms_encrypted"},
        !.reads = {"zone_param", "disk"}, !.silent = {"kms_encrypted"}]]

Findings == ListsOf(SUBSET {"critical"})

SaasWorlds == [
    snyk_project |-> [Plain EXCEPT !.fixed = {"code_scanning_enabled"}, !.reads = {"issues", "shape"},
        !.items = Findings, !.hides = TRUE],
    tenable_asset |-> [Plain EXCEPT !.reads = {"vulnerabilities", "shape"}, !.items = Findings],
    wiz_cloud_resource |-> [Plain EXCEPT !.reads = {"token", "graphql_errors", "shape"},
        !.items = Findings],
    splunk_index |-> [Plain EXCEPT !.opt = {"logging_enabled", "retention_days", "siem_alerts_monitored"},
        !.reads = {"index", "saved_searches"},
        !.silent = {"logging_enabled", "retention_days", "siem_alerts_monitored"}],
    qualys |-> [Plain EXCEPT !.reads = {"detections", "simple_return", "shape"}, !.items = Findings],
    crowdstrike |-> [Plain EXCEPT !.reads = {"token", "vulnerabilities", "shape"}, !.items = Findings],
    gitlab |-> [Plain EXCEPT !.opt = {"branch_protection_enabled", "other_branch"},
        !.reads = {"protected_branches"}],
    github_branch |-> [Plain EXCEPT !.opt = {"branch_protection_enabled", "main_protected"},
        !.reads = {"repo", "protection"}, !.silent = {"default_branch"}],
    github_secrets |-> [Plain EXCEPT !.opt = {"secret_scanning_enabled"},
        !.reads = {"repo"}, !.silent = {"secret_scanning_enabled"}],
    slack |-> [Plain EXCEPT !.opt = {"public_access_blocked"}, !.reads = {"channel", "ok_flag"},
        !.silent = {"public_access_blocked"}],
    okta_mfa |-> [Plain EXCEPT !.opt = {"mfa_enforced"}, !.reads = {"user", "factors"}],
    okta_login |-> [Plain EXCEPT !.opt = {"signed_in", "days_since_last_login"},
        !.needs = Needs("signed_in", {"days_since_last_login"}), !.reads = {"user"}],
    jira |-> [Plain EXCEPT !.opt = {"change_has_approval", "awaiting_approval"}, !.reads = {"issue"},
        !.silent = {"change_has_approval"}],
    servicenow |-> [Plain EXCEPT !.opt = {"exists", "change_has_approval"},
        !.silent = {"change_has_approval"},
        !.needs = Needs("exists", {"change_has_approval"}), !.reads = {"change_request"}],
    ssh |-> [Plain EXCEPT !.opt = {"disk_encrypted", "logging_enabled"},
        !.reads = {"allowed_host", "connect"}, !.silent = {"disk_encrypted", "logging_enabled"}],
    aigov |-> [Plain EXCEPT !.opt = SAAS!AiFlags \cup {"owner"}, !.reads = {"registered", "same_tenant"}],
    legacy |-> [Plain EXCEPT !.opt = {"mfa_enforced", "days_since_last_login"},
        !.reads = {"source", "fetch", "record"},
        !.silent = {"mfa_enforced", "days_since_last_login"}]]

DemoWorld == [Plain EXCEPT !.opt = {"fail"}]
DemoAssets == {c.asset : c \in Checks} \cup {"built-in"}

Kinds == ({"aws"} \X DOMAIN AwsWorlds) \cup ({"azure"} \X DOMAIN AzureWorlds)
    \cup ({"gcp"} \X DOMAIN GcpWorlds) \cup ({"saas"} \X DOMAIN SaasWorlds)
    \cup ({"demo"} \X DemoAssets)

Possible(k) == CASE k[1] = "aws"   -> AwsWorlds[k[2]]
                 [] k[1] = "azure" -> AzureWorlds[k[2]]
                 [] k[1] = "gcp"   -> GcpWorlds[k[2]]
                 [] k[1] = "saas"  -> SaasWorlds[k[2]]
                 [] k[1] = "demo"  -> DemoWorld

-----------------------------------------------------------------------------
Surface(k) == CASE k[1] = "aws" -> AWS!Surface [] k[1] = "azure" -> AZURE!Surface
                [] k[1] = "gcp" -> GCP!Surface [] k[1] = "saas" -> SAAS!Surface
Dispatch(k) == CASE k[1] = "aws" -> AWS!Dispatch [] k[1] = "azure" -> AZURE!Dispatch
                 [] k[1] = "gcp" -> GCP!Dispatch [] k[1] = "saas" -> SAAS!Dispatch

RunProbe(k, w) == CASE k[1] = "aws"   -> AWS!RunProbe(k[2], w)
                    [] k[1] = "azure" -> AZURE!RunProbe(k[2], w)
                    [] k[1] = "gcp"   -> GCP!RunProbe(k[2], w)
                    [] k[1] = "saas"  -> SAAS!RunProbe(k[2], w)
                    [] k[1] = "demo"  -> IF "fail" \in w.facts THEN Failing(k[2]) ELSE Compliant(k[2])

\* The controls a probe serves: the checks that resolve to it and the
\* built-in controls that are dispatched to it by hand.
Served[k \in Kinds] ==
    IF k[1] = "demo" THEN DemoChecks(k[2])
    ELSE {c \in Checks : k[2] \in Resolve(Surface(k), c.asset, c.requires)}
         \cup IF k[2] \in DOMAIN Dispatch(k)
              THEN {Simple(id, BuiltIn[id], TRUE) : id \in Dispatch(k)[k[2]]} ELSE {}

-----------------------------------------------------------------------------
ProbeInit ==
    \E k \in Kinds :
    \E facts \in SUBSET Possible(k).opt, denied \in UpTo(MaxDenied, Possible(k).reads),
       absent \in UpTo(MaxAbsent, Possible(k).silent), items \in Possible(k).items :
    \E hidden \in IF Possible(k).hides THEN SUBSET DOMAIN items ELSE {{}} :
        /\ \A need \in Possible(k).needs : need[1] \in facts => need[2] \in facts
        /\ kind = k
        /\ world = [facts |-> facts \cup Possible(k).fixed, denied |-> denied,
                    items |-> items, hidden |-> hidden, absent |-> absent]
        /\ step = "ready" /\ obs = {} /\ verdict = <<>>

\* The policies.  One control whose rule asks in many ways for what may be
\* missing, nested, empty or of another kind; and controls that require others.

S == <<"name", "s">>
AtMostTwo(e) == <<"compare", "<=", e, <<"const", <<"int", 2>>>>>>
Risky == <<"or", S, <<"and", <<"not", S>>, <<"call", "shell", S>>>>>>
RuleTexts ==
    {S, <<"not", S>>, AtMostTwo(S), <<"dotted", "s", "k">>, <<"not", <<"dotted", "s", "k">>>>,
     AtMostTwo(<<"minus", <<"const", <<"int", 3>>>>, <<"dotted", "s", "k">>>>),
     <<"all", S, <<"name", "k">>>>, <<"all", S, <<"not", <<"name", "value">>>>>>,
     <<"not", <<"any", S, <<"name", "k">>>>>>, AtMostTwo(<<"count", S, <<"name", "value">>>>),
     <<"compare", "==", <<"call", "len", S>>, <<"const", <<"int", 0>>>>>>,
     <<"compare", "in", <<"const", <<"int", 1>>>>, S>>, <<"compare", "!=", S, <<"name", "t">>>>,
     <<"or", S, <<"not", <<"name", "t">>>>>>, <<"and", S, <<"call", "shell", S>>>>,
     <<"call", "shell", S>>, <<"not", <<"call", "len", <<"name", "len">>>>>>,
     <<"all", S, <<"call", "shell", <<"name", "k">>>>>>}

Value == {<<"null">>, <<"bool", TRUE>>, <<"int", 0>>, <<"int", 3>>, <<"str", "n/a">>, <<"list", <<>>>>,
          <<"list", <<<<"int", 1>>, <<"map", [k |-> <<"bool", TRUE>>]>>>>>>, <<"map", [k |-> <<"int", 1>>]>>,
          <<"map", [j |-> <<"int", 1>>]>>}
Reported(names) == UNION {[subset -> Value] : subset \in SUBSET names}

Rule(e, severity) == [when |-> e, severity |-> severity]
Policy(rules, requires) == [rules |-> rules, escalation |-> {}, requires |-> requires,
                            signals |-> {"inferred"}, base |-> "medium"]

\* One rule, a second of another severity, an escalation, declared signals.
Single == {[Policy({Rule(e, "low")}, {}) EXCEPT !.signals = d] : e \in RuleTexts, d \in {{"inferred"}, {}}}
Double == {[Policy({Rule(S, "low"), Rule(e, severity)}, {}) EXCEPT !.base = base,
                !.escalation = {Rule(up, raised)}] :
             e \in {<<"not", S>>, AtMostTwo(S)}, severity \in {"info", "critical"}, base \in {"info", "high", "urgent"},
             up \in {S, <<"and", S, <<"call", "shell", S>>>>}, raised \in {"low", "critical", "urgent"}}

PolicyInit ==
    \/ \E p \in Single, e \in Reported({"s", "t", "len"}) :
          policies = [A |-> p] /\ evidence = [A |-> e]
    \/ \E p \in Double, e \in Reported({"s"}) : policies = [A |-> p] /\ evidence = [A |-> e]
    \/ \E needsA \in SUBSET {"B", "C", "X"}, needsB \in SUBSET {"A", "C"}, needsC \in SUBSET {"A"},
          e \in [{"A", "B", "C"} -> Reported({"s"}) \cap [{"s"} -> {<<"null">>, <<"int", 0>>, <<"int", 3>>}]] :
          /\ policies = [A |-> Policy({Rule(S, "low")}, needsA), B |-> Policy({Rule(S, "low")}, needsB),
                         C |-> Policy({Rule(Risky, "low")},
                                      needsC)]
          /\ evidence = e

MCTexts == RuleTexts \cup {Risky}
MCReports == Reported({"s", "t", "len"})
MCMissing == CEL!Null
MCOutcome(e, report) == CEL!Truth(e, report)
MCFields(e) == CEL!FreeNames(e)
MCAmbiguous(e) == CEL!Shadowed(e)
MCConsults(e, report) == CEL!Consulted(e, report)

ASSUME EngineAssumption

-----------------------------------------------------------------------------
\* The dependencies.  Up to three curated edges between four controls, one
\* spelt in two ways, and questions of every kind.

Controls == {"a", "b", "c", "d"}
Spelt == [x \in Controls \cup {"b."} |-> IF x = "b." THEN "b" ELSE x]
Pairs == {p \in Controls \X Controls : p[1] # p[2]}
Weights == {[p \in Pairs |-> IF p[1] \in heavy THEN 90 ELSE 50] : heavy \in SUBSET {"a", "b", "c"}}
Curated(p, weight) == [source |-> p[1], target |-> p[2], weight |-> weight]
EdgeLists ==
    {<<>>} \cup {<<Curated(p, w[p])>> : p \in Pairs, w \in Weights}
    \cup {<<Curated(p, w[p]), Curated(q, w[q]), Curated(r, 140 - w[r])>> :
             p, q, r \in {x \in Pairs : x[2] # "a"}, w \in Weights}

Change(c, s) == [control |-> c, state |-> s]
Question(changes, depth, least, excluded) ==
    [changes |-> changes, depth |-> depth, least |-> least, excluded |-> excluded]
Changes ==
    {Question(<<Change("a", "failed")>>, depth, 0, {}) : depth \in {0, 3}} \cup
    {Question(<<Change("a", "degraded"), Change("c", "failed"), Change("a", "failed")>>, 3, 0, {}),
     Question(<<Change("a", "odd")>>, 2, 0, {}),
     Question(<<Change("a", "failed")>>, 1, 30, {}),
     Question(<<Change("d", "failed"), Change("a", "failed")>>, 3, 0, {<<"a", "b">>})}

Deps == INSTANCE Dependencies WITH
    Canonical <- Spelt, Sharing <- [k |-> {"a", "d", "b."}], Related <- [b |-> {"c", "a", "b."}],
    Datasets <- EdgeLists, Questions <- Changes

ASSUME Deps!DependenciesAssumption

Idle == world = <<>> /\ obs = {} /\ verdict = <<>>
NoPolicies == policies = <<>> /\ evidence = <<>> /\ decisions = <<>> /\ loaded = "decided"
NoGraph == /\ curated = <<>> /\ graph = <<>> /\ question = <<>> /\ seeds = <<>>
           /\ frontier = <<>> /\ impact = <<>>

Init == \/ ProbeInit /\ CEL!Blank /\ NoPolicies /\ NoGraph
        \/ /\ kind = <<"check", "any">> /\ step = "text" /\ Idle
           /\ CEL!Init /\ NoPolicies /\ NoGraph
        \/ /\ kind = <<"policies", "any">> /\ step = "engine" /\ Idle
           /\ CEL!Blank /\ MaxSource > 0
           /\ PolicyInit /\ EngineInit /\ NoGraph
        \/ /\ kind = <<"graph", "any">> /\ step = "graph" /\ Idle /\ MaxSource > 0
           /\ CEL!Blank /\ NoPolicies /\ Deps!Init

Collect ==
    /\ step = "ready"
    /\ step' = "collected"
    /\ obs' = RunProbe(kind, world)
    /\ UNCHANGED <<kind, world, verdict, texts, engine, simulation>>

Judge ==
    /\ step = "collected"
    /\ step' = "judged"
    /\ verdict' = [c \in Served[kind] |-> Verdict(c, obs)]
    /\ UNCHANGED <<kind, world, obs, texts, engine, simulation>>

Next == \/ Collect
        \/ Judge
        \/ step = "text" /\ CEL!Next /\ UNCHANGED <<probe, engine, simulation>>
        \/ step = "engine" /\ EngineNext /\ UNCHANGED <<probe, texts, simulation>>
        \/ step = "graph" /\ Deps!Next /\ UNCHANGED <<probe, texts, engine>>

Spec == Init /\ [][Next]_vars

-----------------------------------------------------------------------------
\* What is so, whoever could read it.

TrailAttribute == [multi_region_enabled |-> "multi_region", log_file_validation_enabled |-> "validation",
                   trail_kms_encrypted |-> "kms", cloudwatch_logs_integrated |-> "cloudwatch"]

Holds(w, s) ==
    LET members == {w.items[i] : i \in DOMAIN w.items}
        on == {m \in members : "logging" \in m}
        trail(attribute) == \E m \in on : attribute \in m
        open(port) == \E r \in members : /\ r.world /\ r.tcp /\ ("allows" \in DOMAIN r => r.allows)
                                         /\ \/ r.lo = AWS!NoPort
                                            \/ r.lo <= port /\ port <= r.hi
        p == kind[2]
    IN  CASE p \in {"iam_user", "entra_user"} /\ s \in {"mfa_enabled", "mfa_enforced"} -> "mfa" \in w.facts
          [] s = "access_key_count" -> Cardinality(DOMAIN w.items) <= 1
          [] p = "iam_user" /\ s = "days_since_key_rotation" -> \A m \in members : "recent" \in m
          [] p = "service_principal" /\ s = "days_since_key_rotation" -> \E m \in members : "recent" \in m
          [] s = "logging_enabled" /\ p = "cloudtrail" -> on # {}
          [] p = "cloudtrail" -> trail(TrailAttribute[s])
          [] p = "guardduty" -> \E m \in members : "enabled" \in m
          [] p = "config_recorder" ->
                 \E m \in members : /\ "recording" \in m
                                    /\ s = "config_records_all_resources" => "all" \in m
          [] p = "vpc" -> \E m \in members : "active" \in m
          [] p = "vpc_network" -> \A m \in members : "logged" \in m
          [] p \in {"subscription", "project"} /\ s = "multi_region_enabled" -> "logging_enabled" \in w.facts
          [] p = "virtual_machine" /\ s = "public_ip_assigned" -> \E m \in members : "public" \in m
          [] p = "compute_instance" /\ s = "public_ip_assigned" -> \E m \in members : m # {}
          [] p = "firewall" /\ "in_force" \notin w.facts -> FALSE
          [] s = "unrestricted_ingress" -> \E r \in members : r.world /\ ("allows" \in DOMAIN r => r.allows)
          [] s = "ssh_open_to_world" -> open(SshPort)
          [] s = "rdp_open_to_world" -> open(RdpPort)
          [] p = "cloud_sql" /\ s = "log_exports_enabled" -> w.facts \cap {"log_statement", "point_in_time"} # {}
          [] p = "gcs_bucket" /\ s = "public_access_blocked" ->
                 "uniform_access" \in w.facts /\ w.facts \cap {"all_users", "all_authenticated"} = {}
          [] s = "critical_vulnerabilities" -> \A m \in members : "critical" \notin m
          [] s = "ai_inventoried" -> "owner" \in w.facts
          [] OTHER -> s \in w.facts

Met(c, w) == \E alternative \in c.holds : \A o \in alternative : Holds(w, o[1]) = o[2]

\* What the answers say: a setting that is missing from them is off, and a
\* list that is missing is empty.
Answered == [world EXCEPT !.facts = Said(world), !.items = Items(world)]

\* Where the code's word goes beyond what it read: to more (Lenient), or to less.
PartlyRead == world.hidden # {}
AnyRule(P(_)) == \E i \in DOMAIN Items(world) : P(world.items[i])
Presumes ==
    \/ kind[2] \in {"cloudtrail", "guardduty", "virtual_machine", "snyk_project"} /\ PartlyRead
    \/ kind[2] \in {"network_security_group", "firewall"} /\ AnyRule(AllPorts)
    \/ /\ kind[2] \in {"network_security_group", "firewall", "security_group"}
       /\ AnyRule(LAMBDA r : ~r.tcp)
    \/ kind[2] = "gitlab" /\ "other_branch" \in world.facts
    \/ kind[2] = "github_branch" /\ "default_branch" \in world.absent
    \/ kind[2] = "jira" /\ "awaiting_approval" \in world.facts

\* The code errs towards passing: what it did not read, or what is missing from
\* the answer, is taken to be as the check wants it.
WantsOff(c, s) == \E alternative \in c.holds : <<s, FALSE>> \in alternative
Lenient(c) ==
    \/ kind[2] \in {"virtual_machine", "snyk_project"} /\ PartlyRead
    \/ kind[2] = "gitlab" /\ "other_branch" \in world.facts
    \/ kind[2] = "github_branch" /\ "default_branch" \in world.absent
    \/ kind[2] = "jira" /\ "awaiting_approval" \in world.facts
    \/ "items" \in world.absent
    \/ \E s \in world.absent : WantsOff(c, s)

\* A control passes or fails on what the answers say: a read that failed, a
\* thing that does not exist and a member of a list nobody could read never
\* turn into a verdict, except where Presumes says the code takes their word
\* for it.  And what passes is so at the vendor: what the code presumes, a
\* protocol it does not look at and a setting that is missing from an answer
\* make a control fail, except where Lenient says it passes unseen.  The demo
\* connector shows every check it serves passing, and failing when told to
\* (control_checks.evaluate, the FAILURE SEMANTICS of the AWS connector,
\* mock.py).
VerdictsAreGrounded ==
    \A c \in DOMAIN verdict :
        IF kind[1] = "demo" THEN verdict[c] = IF "fail" \in world.facts THEN "fail" ELSE "pass"
        ELSE verdict[c] \in {"pass", "fail"} =>
                /\ ~Presumes => (verdict[c] = "pass" <=> Met(c, Answered))
                /\ verdict[c] = "pass" /\ ~Lenient(c) => Met(c, world)

\* Cel: patterns and expressions mean what the language says they do.
CelIsExact == step = "text" => CEL!CelIsExact

\* Dependencies: a simulation reports what the changes reach.
BlastIsExact == step = "graph" => Deps!BlastIsExact

\* A network interface that could not be read leaves it unknown whether the
\* machine is reachable from outside (connectors/secondary.py).
UnreadInterfaceIsUnknown ==
    kind = <<"azure", "virtual_machine">> /\ PartlyRead
        => \A c \in DOMAIN verdict : "public_ip_assigned" \in c.requires => verdict[c] # "pass"
=============================================================================
