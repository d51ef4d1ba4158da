---------------------------- MODULE GcpConnector ----------------------------
(***************************************************************************)
(* The probes of the GCP connector.  Most read one document, without a     *)
(* guard: the read fails with the probe.                                   *)
(***************************************************************************)
EXTENDS Telemetry

Surface == [
    gcs_bucket       |-> Probe("object_storage", {"encryption_at_rest", "kms_encrypted",
                            "public_access_blocked", "tls_required", "versioning_enabled",
                            "access_logging_enabled", "lifecycle_configured"}),
    project          |-> Probe("cloud_account", {"logging_enabled", "multi_region_enabled",
                            "cloudwatch_logs_integrated", "threat_detection_enabled"}),
    compute_instance |-> Probe("compute_instance",
                            {"public_ip_assigned", "detailed_monitoring_enabled"}),
    firewall         |-> Probe("network_ruleset", IngressSignals),
    cloud_sql        |-> Probe("managed_database", {"encryption_at_rest", "publicly_accessible",
                            "auto_minor_version_upgrade", "backup_retention_days",
                            "multi_az_enabled", "deletion_protection_enabled",
                            "log_exports_enabled", "iam_auth_enabled"}),
    vpc_network      |-> Probe("virtual_network", {"flow_logs_enabled"}),
    kms_key          |-> Probe("encryption_key", {"key_rotation_enabled"}),
    persistent_disk  |-> Probe("block_storage", {"encryption_at_rest", "kms_encrypted"})]

Dispatch == "gcs_bucket" :> {"SC-28", "SC-7"}

\* Security Command Center belongs to the organization: without its id the
\* question is not asked.
Project(w) ==
    Must({"sinks"}, w,
         {<<s, "logging_enabled" \in Said(w)>> : s \in {"logging_enabled", "multi_region_enabled"}}
         \cup Flags({"cloudwatch_logs_integrated"}, w)
         \cup IF "organization_id" \in w.facts
              THEN Seen("sources", w, Flags({"threat_detection_enabled"}, w)) ELSE {})

\* The items are the interfaces' access configurations.
Instance(w) ==
    Must({"zone_param", "instance"}, w,
         {<<"public_ip_assigned", \E c \in DOMAIN Items(w) : w.items[c] # {}>>}
         \cup Flags({"detailed_monitoring_enabled"}, w))

\* One rule, several allowed specifications: none listed is every port.  A
\* rule that is disabled or outbound opens nothing.
Firewall(w) ==
    Must({"firewall"}, w,
         IngressExposure(IF "in_force" \in w.facts THEN {w.items[r] : r \in DOMAIN Items(w)} ELSE {}))

CloudSql(w) ==
    Must({"instance"}, w,
         All({"encryption_at_rest"}, TRUE)
         \cup Flags({"publicly_accessible", "auto_minor_version_upgrade", "multi_az_enabled",
                     "deletion_protection_enabled", "iam_auth_enabled"}, w)
         \cup IF "retention_set" \in w.facts THEN Told({"backup_retention_days"}, w) ELSE {})
    \cup IF "instance" \in w.denied THEN {}
         ELSE {<<"log_exports_enabled", Said(w) \cap {"log_statement", "point_in_time"} # {}>>}

GcsBucket(w) ==
    Must({"bucket", "iam_policy"}, w,
         All({"encryption_at_rest", "tls_required"}, TRUE)
         \cup {<<"public_access_blocked", /\ w.facts \cap {"all_users", "all_authenticated"} = {}
                                          /\ "uniform_access" \in w.facts>>}
         \cup Flags({"kms_encrypted", "versioning_enabled", "access_logging_enabled",
                     "lifecycle_configured"}, w))

\* The items are the network's subnets: one unlogged subnet is a gap, and
\* none seen is no observation.
VpcFlowLogs(w) ==
    Must({"region_param", "subnetworks"}, w,
         IF Items(w) = <<>> THEN {}
         ELSE {<<"flow_logs_enabled", \A s \in DOMAIN Items(w) : "logged" \in w.items[s]>>})

KmsKey(w) == Must({"keyring_param", "key"}, w, Flags({"key_rotation_enabled"}, w))

PersistentDisk(w) ==
    Must({"zone_param", "disk"}, w, All({"encryption_at_rest"}, TRUE) \cup Flags({"kms_encrypted"}, w))

RunProbe(p, w) ==
    CASE p = "gcs_bucket"       -> GcsBucket(w)
      [] p = "project"          -> Project(w)
      [] p = "compute_instance" -> Instance(w)
      [] p = "firewall"         -> Firewall(w)
      [] p = "cloud_sql"        -> CloudSql(w)
      [] p = "vpc_network"      -> VpcFlowLogs(w)
      [] p = "kms_key"          -> KmsKey(w)
      [] p = "persistent_disk"  -> PersistentDisk(w)
=============================================================================
