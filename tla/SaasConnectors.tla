--------------------------- MODULE SaasConnectors ---------------------------
(***************************************************************************)
(* The identity, code, ticketing, scanner, log and host connectors, the AI *)
(* register and the legacy sources: each answers for one or two controls,  *)
(* from one or two reads.  "critical_vulnerabilities" stands for "there    *)
(* are none"; the items of a scanner are its findings.                     *)
(***************************************************************************)
EXTENDS Telemetry

SnykProbe == Probe("code_repository", {"critical_vulnerabilities", "code_scanning_enabled"})
TenableProbe == Probe("host", {"critical_vulnerabilities"})
WizProbe == Probe("host", {"critical_vulnerabilities"})
SplunkProbe == Probe("log_index", {"logging_enabled", "audit_logs_retained",
                                   "siem_alerts_monitored", "retention_days"})

Surface == [snyk_project |-> SnykProbe, tenable_asset |-> TenableProbe,
            wiz_cloud_resource |-> WizProbe, splunk_index |-> SplunkProbe]

Scanners == {"snyk_project", "tenable_asset", "wiz_cloud_resource", "qualys", "crowdstrike"}
Dispatch == [p \in Scanners |-> {"RA-5"}]
    @@ [p \in {"gitlab", "github_branch"} |-> {"SA-15-BRANCH"}]
    @@ [p \in {"jira", "servicenow"} |-> {"CM-3"}]
    @@ ("github_secrets" :> {"SA-15-SECRETS"}) @@ ("slack" :> {"SC-7"})
    @@ ("okta_mfa" :> {"AC-2-7"}) @@ ("okta_login" :> {"AC-2-3"})
    @@ ("ssh" :> {"SC-28-HOST", "AU-2"}) @@ ("legacy" :> {"AC-2-7", "AC-2-3"})
    @@ ("aigov" :> {"AI-INV", "AI-RISK", "AI-DATA", "AI-OVERSIGHT", "AI-TRANSP", "AI-EVAL",
                    "AI-LOG", "AI-ROBUST"})

\* A zero passes: it is only reported of a container of the right shape.
NoneCritical(w, findings) ==
    Seen("shape", w, {<<"critical_vulnerabilities",
                        \A f \in findings : "critical" \notin w.items[f]>>})

\* One page of the open issues; those in w.hidden are on later pages.
SnykProject(w) ==
    Must({"issues"}, w, All({"code_scanning_enabled"}, TRUE)
                        \cup NoneCritical(w, DOMAIN w.items \ w.hidden))

TenableHost(w) == Must({"vulnerabilities"}, w, NoneCritical(w, DOMAIN w.items))

\* GraphQL errors arrive with a 200 and are raised.
WizResource(w) == Must({"token", "graphql_errors"}, w, NoneCritical(w, DOMAIN w.items))

\* The index says whether it is disabled; one that says nothing is not.
SplunkIndex(w) ==
    Must({"index"}, w,
         {<<"logging_enabled", "logging_enabled" \in w.facts \cup w.absent>>}
         \cup (IF "retention_days" \in w.absent THEN {}
               ELSE {<<s, "retention_days" \in w.facts>> : s \in {"retention_days", "audit_logs_retained"}})
         \cup Seen("saved_searches", w, Flags({"siem_alerts_monitored"}, w)))

\* An error document is raised; any other unknown document says nothing.
Qualys(w) == Must({"detections", "simple_return"}, w, NoneCritical(w, DOMAIN w.items))

\* The query asks for the total of the critical ones alone.
CrowdStrike(w) == Must({"token", "vulnerabilities"}, w, NoneCritical(w, DOMAIN w.items))

\* Any protected branch will do.
GitLab(w) ==
    Must({"protected_branches"}, w,
         {<<"branch_protection_enabled",
            w.facts \cap {"branch_protection_enabled", "other_branch"} # {}>>})

\* A 404 is "not protected"; a repository that names no default branch is
\* asked about "main".
GitHubBranch(w) ==
    Must({"repo", "protection"}, w,
         {<<"branch_protection_enabled",
            IF "default_branch" \in w.absent THEN "main_protected" \in w.facts
            ELSE "branch_protection_enabled" \in w.facts>>})

\* The section is shown to administrators only; without it the code says no.
GitHubSecrets(w) ==
    Must({"repo"}, w, Flags({"secret_scanning_enabled"}, w))

Slack(w) == Must({"channel", "ok_flag"}, w, Flags({"public_access_blocked"}, w))

OktaMfa(w) == Must({"user", "factors"}, w, Flags({"mfa_enforced"}, w))
OktaLogin(w) ==
    Must({"user"}, w, IF "signed_in" \in w.facts THEN Flags({"days_since_last_login"}, w) ELSE {})

\* Any status whose name contains "approv", now or in the history, or a
\* closed one.
Jira(w) ==
    Must({"issue"}, w, {<<"change_has_approval",
                          Said(w) \cap {"change_has_approval", "awaiting_approval"} # {}>>})

ServiceNow(w) ==
    Must({"change_request"}, w,
         {<<"change_has_approval", {"exists", "change_has_approval"} \subseteq Said(w)>>})

\* Both commands end in "|| true": one that fails prints nothing.
SshHost(w) ==
    Must({"allowed_host", "connect"}, w,
         Flags({"disk_encrypted", "logging_enabled"}, w))

AiFlags == {"impact_assessment", "data_governance", "human_oversight", "transparency_notice",
            "eval_report", "logging_enabled", "accuracy_tested"}

\* The register of AI systems: another tenant's record is refused.
AiGovernance(w) ==
    Must({"registered", "same_tenant"}, w,
         Flags(AiFlags, w) \cup {<<"ai_inventoried", "owner" \in w.facts>>})

\* normalize, on one record: a boolean column that is missing is coerced to
\* no, any other stays unknown.
LegacySource(w) ==
    Must({"source", "fetch", "record"}, w,
         Flags({"mfa_enforced"}, w) \cup Told({"days_since_last_login"}, w))

RunProbe(p, w) ==
    CASE p = "snyk_project"       -> SnykProject(w)
      [] p = "tenable_asset"      -> TenableHost(w)
      [] p = "wiz_cloud_resource" -> WizResource(w)
      [] p = "splunk_index"       -> SplunkIndex(w)
      [] p = "qualys"             -> Qualys(w)
      [] p = "crowdstrike"        -> CrowdStrike(w)
      [] p = "gitlab"             -> GitLab(w)
      [] p = "github_branch"      -> GitHubBranch(w)
      [] p = "github_secrets"     -> GitHubSecrets(w)
      [] p = "slack"              -> Slack(w)
      [] p = "okta_mfa"           -> OktaMfa(w)
      [] p = "okta_login"         -> OktaLogin(w)
      [] p = "jira"               -> Jira(w)
      [] p = "servicenow"         -> ServiceNow(w)
      [] p = "ssh"                -> SshHost(w)
      [] p = "aigov"              -> AiGovernance(w)
      [] p = "legacy"             -> LegacySource(w)
=============================================================================
