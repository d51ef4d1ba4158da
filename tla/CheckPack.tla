----------------------------- MODULE CheckPack -----------------------------
(***************************************************************************)
(* The controls: the declarative checks of data/control_checks.json, the   *)
(* built-in ones of the policy engine, and the demo connector, which must  *)
(* be able to show each declarative check both passing and failing.        *)
(***************************************************************************)
EXTENDS Telemetry

\* Signals a check wants to be true, with its asset type.
Wanted == {
    <<"cloud_account", {"root_mfa_enabled", "password_min_length", "password_reuse_prevention",
        "password_max_age_days", "multi_region_enabled", "log_file_validation_enabled",
        "trail_kms_encrypted", "cloudwatch_logs_integrated", "threat_detection_enabled",
        "config_recording_enabled", "config_records_all_resources", "logging_enabled"}>>,
    <<"iam_user", {"days_since_key_rotation", "access_key_count", "days_since_last_login"}>>,
    <<"object_storage", {"kms_encrypted", "tls_required", "versioning_enabled",
        "access_logging_enabled", "lifecycle_configured", "encryption_at_rest",
        "public_access_blocked"}>>,
    <<"compute_instance", {"imdsv2_required", "detailed_monitoring_enabled"}>>,
    <<"block_storage", {"encryption_at_rest", "kms_encrypted"}>>,
    <<"managed_database", {"encryption_at_rest", "backup_retention_days", "multi_az_enabled",
        "deletion_protection_enabled", "auto_minor_version_upgrade", "log_exports_enabled",
        "iam_auth_enabled"}>>,
    <<"encryption_key", {"key_rotation_enabled"}>>,
    <<"virtual_network", {"flow_logs_enabled"}>>,
    <<"host", {"critical_vulnerabilities"}>>,
    <<"code_repository", {"critical_vulnerabilities", "code_scanning_enabled"}>>,
    <<"log_index", {"retention_days", "siem_alerts_monitored"}>>}

\* Signals a check wants to be false.
Unwanted == {
    <<"cloud_account", {"root_access_keys_present"}>>,
    <<"iam_user", {"has_inline_policy", "has_admin_policy"}>>,
    <<"compute_instance", {"public_ip_assigned"}>>,
    <<"managed_database", {"publicly_accessible"}>>,
    <<"network_ruleset", {"ssh_open_to_world", "rdp_open_to_world", "unrestricted_ingress"}>>}

Complexity == {"password_requires_symbols", "password_requires_numbers",
               "password_requires_uppercase", "password_requires_lowercase"}

Composite == {
    [asset |-> "cloud_account", requires |-> Complexity, holds |-> {All(Complexity, TRUE)}],
    [asset |-> "iam_user", requires |-> {"console_access_enabled", "mfa_enabled"},
     holds |-> {{<<"console_access_enabled", FALSE>>}, {<<"mfa_enabled", TRUE>>}}]}

Checks ==
    UNION {{Simple(row[1], s, TRUE) : s \in row[2]} : row \in Wanted}
    \cup UNION {{Simple(row[1], s, FALSE) : s \in row[2]} : row \in Unwanted}
    \cup Composite

\* CONTROL_CATALOG: the signal each built-in control reads.
BuiltIn == ("AC-2-7" :> "mfa_enforced") @@ ("AC-2-3" :> "days_since_last_login")
    @@ ("CM-3" :> "change_has_approval") @@ ("SC-28" :> "encryption_at_rest")
    @@ ("SC-7" :> "public_access_blocked") @@ ("AU-2" :> "logging_enabled")
    @@ ("RA-5" :> "critical_vulnerabilities") @@ ("SA-15-BRANCH" :> "branch_protection_enabled")
    @@ ("SA-15-SECRETS" :> "secret_scanning_enabled") @@ ("SC-28-HOST" :> "disk_encrypted")
    @@ ("AI-INV" :> "ai_inventoried") @@ ("AI-RISK" :> "impact_assessment")
    @@ ("AI-DATA" :> "data_governance") @@ ("AI-OVERSIGHT" :> "human_oversight")
    @@ ("AI-TRANSP" :> "transparency_notice") @@ ("AI-EVAL" :> "eval_report")
    @@ ("AI-LOG" :> "logging_enabled") @@ ("AI-ROBUST" :> "accuracy_tested")

\* RuleEngine.evaluate on what the connector reported, or the error that is
\* recorded when it raised.  A built-in control is named by its id.
Verdict(check, obs) ==
    IF obs = Error THEN "error"
    ELSE IF check.asset \in DOMAIN BuiltIn THEN EvaluateBuiltIn(BuiltIn[check.asset], obs)
    ELSE EvaluateCheck(check, obs)

-----------------------------------------------------------------------------
\* The demo connector.  A number is 0 when forced to fail if more is better,
\* 999 otherwise: whether that breaks the check depends on the comparison.

Precondition == {"console_access_enabled"}
HigherIsBetter == {"password_min_length", "password_reuse_prevention", "password_max_age_days",
                   "backup_retention_days", "retention_days"}
AtLeast == {"password_min_length", "password_reuse_prevention", "backup_retention_days",
            "retention_days"}
AtMost == {"days_since_last_login", "days_since_key_rotation", "access_key_count",
           "critical_vulnerabilities"}
Between == {"password_max_age_days"}
DemoBad == {"root_access_keys_present", "has_inline_policy", "has_admin_policy",
            "public_ip_assigned", "publicly_accessible", "unrestricted_ingress",
            "ssh_open_to_world", "rdp_open_to_world"}

DemoControls == {"AC-2-7", "AC-2-3", "CM-3", "SC-28", "SC-7", "AU-2", "RA-5", "SA-15-BRANCH",
                 "SA-15-SECRETS", "SC-28-HOST"}
DemoChecks(asset) == IF asset = "built-in" THEN {Simple(id, BuiltIn[id], TRUE) : id \in DemoControls}
                     ELSE {c \in Checks : c.asset = asset}
\* One signal for a built-in control, those of the asset's estate for a check.
DemoSignals(asset) == IF asset = "built-in" THEN {BuiltIn[id] : id \in DemoControls}
                      ELSE UNION {c.requires : c \in DemoChecks(asset)}

Compliant(asset) == {<<s, s \notin DemoBad>> : s \in DemoSignals(asset)}

Failing(asset) ==
    {<<s, CASE s \in Precondition -> TRUE
            [] s \in AtLeast -> s \notin HigherIsBetter
            [] s \in AtMost -> s \in HigherIsBetter
            [] s \in Between -> FALSE
            [] OTHER -> s \in DemoBad>> : s \in DemoSignals(asset)}
=============================================================================
