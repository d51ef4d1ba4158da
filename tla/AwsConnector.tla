---------------------------- MODULE AwsConnector ----------------------------
(***************************************************************************)
(* The probes of the AWS connector: what each reports of a world, read by  *)
(* read (see Telemetry).  A read named in w.denied is one the role may not *)
(* make, or that fails; a read made without a guard of its own takes the   *)
(* whole probe with it, since collect_telemetry turns any exception into a *)
(* ConnectorError.                                                         *)
(***************************************************************************)
EXTENDS Telemetry

NoPort == -1   \* FromPort or ToPort missing: every port

PasswordSignals == {"password_min_length", "password_requires_symbols",
    "password_requires_numbers", "password_requires_uppercase",
    "password_requires_lowercase", "password_reuse_prevention", "password_max_age_days"}
Copied == {"password_min_length", "password_requires_symbols", "password_requires_numbers",
           "password_requires_uppercase", "password_requires_lowercase"}
RootSignals == {"root_mfa_enabled", "root_access_keys_present"}
DatabaseSignals == {"encryption_at_rest", "publicly_accessible", "backup_retention_days",
    "multi_az_enabled", "deletion_protection_enabled", "auto_minor_version_upgrade",
    "log_exports_enabled", "iam_auth_enabled"}
InstanceSignals == {"imdsv2_required", "public_ip_assigned", "detailed_monitoring_enabled",
                    "ebs_optimized"}

Surface == [
    account_iam     |-> Probe("cloud_account", RootSignals \cup PasswordSignals),
    iam_user        |-> Probe("iam_user", {"mfa_enabled", "mfa_enforced", "days_since_last_login",
                          "days_since_key_rotation", "access_key_count", "has_inline_policy",
                          "has_admin_policy", "console_access_enabled"}),
    s3_bucket       |-> Probe("object_storage", {"encryption_at_rest", "kms_encrypted",
                          "public_access_blocked", "versioning_enabled",
                          "access_logging_enabled", "tls_required", "lifecycle_configured"}),
    cloudtrail      |-> Probe("cloud_account", {"logging_enabled", "multi_region_enabled",
                          "log_file_validation_enabled", "trail_kms_encrypted",
                          "cloudwatch_logs_integrated"}),
    ec2_instance    |-> Probe("compute_instance", InstanceSignals),
    ebs_volume      |-> Probe("block_storage", {"encryption_at_rest", "kms_encrypted"}),
    rds_instance    |-> Probe("managed_database", DatabaseSignals),
    security_group  |-> Probe("network_ruleset", IngressSignals),
    kms_key         |-> Probe("encryption_key", {"key_rotation_enabled", "key_enabled"}),
    vpc             |-> Probe("virtual_network", {"flow_logs_enabled"}),
    guardduty       |-> Probe("cloud_account", {"threat_detection_enabled"}),
    config_recorder |-> Probe("cloud_account", {"config_recording_enabled",
                          "config_records_all_resources"})]

\* Controls collect_telemetry serves by hand, before the check pack.
Dispatch == ("iam_user" :> {"AC-2-7", "AC-2-3"}) @@ ("s3_bucket" :> {"SC-28", "SC-7"})
            @@ ("cloudtrail" :> {"AU-2"})

AccountIam(w) ==
    Seen("account_summary", w, Flags(RootSignals, w))
    \cup Configured("password_policy", w, "password_policy", PasswordSignals \ Copied)
    \cup Seen("password_policy", w, IF "password_policy" \in w.facts THEN Told(Copied, w)
                                    ELSE All(Copied, FALSE))

\* The items are the user's access keys: the oldest one dates the rotation.
IamUser(w) ==
    Must({"list_mfa_devices"}, w,
         {<<s, "mfa" \in Said(w)>> : s \in {"mfa_enabled", "mfa_enforced"}}
         \cup Seen("get_user", w, IF "password_used" \in w.facts
                                  THEN Flags({"days_since_last_login"}, w) ELSE {})
         \cup Seen("login_profile", w, Flags({"console_access_enabled"}, w))
         \cup Seen("list_access_keys", w,
                   {<<"access_key_count", Cardinality(DOMAIN Items(w)) <= 1>>,
                    <<"days_since_key_rotation", \A k \in DOMAIN Items(w) : "recent" \in w.items[k]>>})
         \cup Seen("list_user_policies", w, Flags({"has_inline_policy"}, w))
         \cup IF "list_user_policies" \in w.denied THEN {}
              ELSE Seen("list_attached", w, Flags({"has_admin_policy"}, w)))

S3Bucket(w) ==
    Configured("encryption", w, "encryption_at_rest", {"encryption_at_rest", "kms_encrypted"})
    \cup Configured("public_access_block", w, "public_access_block", {"public_access_blocked"})
    \cup Seen("versioning", w, Flags({"versioning_enabled"}, w))
    \cup Seen("logging", w, Flags({"access_logging_enabled"}, w))
    \cup Seen("lifecycle", w, Flags({"lifecycle_configured"}, w))
    \cup Configured("bucket_policy", w, "bucket_policy", {"tls_required"})

\* The items are the account's trails.  Only a trail that logs lends the
\* account its other properties.
CloudTrail(w) ==
    Must({"describe_trails"}, w, Listed(w, LAMBDA readable :
        LET on == {t \in readable : "logging" \in w.items[t]}
            any(attribute) == \E t \in on : attribute \in w.items[t]
        IN  {<<"logging_enabled", on # {}>>,
             <<"multi_region_enabled", any("multi_region")>>,
             <<"log_file_validation_enabled", any("validation")>>,
             <<"trail_kms_encrypted", any("kms")>>,
             <<"cloudwatch_logs_integrated", any("cloudwatch")>>}))

\* A described resource that does not exist is a ConnectorError too.
Described(read, w, S) == Must({read}, w, IF "exists" \in w.facts THEN Flags(S, w) ELSE Error)

Ec2Instance(w) == Described("describe_instances", w, InstanceSignals)

EbsVolume(w) == Described("describe_volumes", w, {"encryption_at_rest", "kms_encrypted"})

RdsInstance(w) == Described("describe_db_instances", w, DatabaseSignals)

\* The items are the ingress permissions of the group, of any protocol.
SecurityGroup(w) ==
    LET open == {p \in DOMAIN Items(w) : w.items[p].world}
        reaches(port) == \E p \in open :
            \/ NoPort \in {w.items[p].lo, w.items[p].hi}
            \/ w.items[p].lo <= port /\ port <= w.items[p].hi
    IN  Must({"describe_security_groups"}, w, IF "exists" \notin w.facts THEN Error ELSE
             {<<"unrestricted_ingress", open # {}>>,
              <<"ssh_open_to_world", reaches(SshPort)>>,
              <<"rdp_open_to_world", reaches(RdpPort)>>})

Vpc(w) == Must({"describe_flow_logs"}, w,
    {<<"flow_logs_enabled", \E l \in DOMAIN Items(w) : "active" \in w.items[l]>>})

KmsKey(w) == Seen("describe_key", w, Flags({"key_enabled"}, w))
             \cup Seen("rotation_status", w, Flags({"key_rotation_enabled"}, w))

\* The items are the detectors; the first enabled one ends the loop.
GuardDuty(w) ==
    Must({"list_detectors"}, w, Listed(w, LAMBDA readable :
        {<<"threat_detection_enabled", \E d \in readable : "enabled" \in w.items[d]>>}))

\* The items are the recorders; status and recorders share one guard.
ConfigRecorder(w) ==
    LET on == {r \in DOMAIN Items(w) : "recording" \in w.items[r]}
    IN  IF w.denied \cap {"recorder_status", "recorders"} # {} THEN {}
        ELSE {<<"config_recording_enabled", on # {}>>,
              <<"config_records_all_resources", \E r \in on : "all" \in w.items[r]>>}

RunProbe(p, w) ==
    CASE p = "account_iam"     -> AccountIam(w)
      [] p = "iam_user"        -> IamUser(w)
      [] p = "s3_bucket"       -> S3Bucket(w)
      [] p = "cloudtrail"      -> CloudTrail(w)
      [] p = "ec2_instance"    -> Ec2Instance(w)
      [] p = "ebs_volume"      -> EbsVolume(w)
      [] p = "rds_instance"    -> RdsInstance(w)
      [] p = "security_group"  -> SecurityGroup(w)
      [] p = "kms_key"         -> KmsKey(w)
      [] p = "vpc"             -> Vpc(w)
      [] p = "guardduty"       -> GuardDuty(w)
      [] p = "config_recorder" -> ConfigRecorder(w)
=============================================================================
