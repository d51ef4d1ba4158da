--------------------------- MODULE AzureConnector ---------------------------
(***************************************************************************)
(* The probes of the Azure connector, over Microsoft Graph, Azure Resource *)
(* Manager and Key Vault.  A 404 read with not_found_ok is an answer ("no  *)
(* such setting"); every other failure leaves the signal unknown, or takes *)
(* the probe with it where the read is not guarded.                        *)
(***************************************************************************)
EXTENDS Telemetry

MfaSignals == {"mfa_enforced", "mfa_enabled"}
RoleSignals == {"has_admin_policy", "has_inline_policy"}
DatabaseSignals == {"backup_retention_days", "multi_az_enabled", "log_exports_enabled"}
AlwaysOn == {"encryption_at_rest"}

Surface == [
    entra_user        |-> Probe("iam_user", MfaSignals \cup RoleSignals
                             \cup {"console_access_enabled", "days_since_last_login"}),
    service_principal |-> Probe("iam_user", {"access_key_count", "days_since_key_rotation"}),
    storage_account   |-> Probe("object_storage", {"encryption_at_rest", "kms_encrypted",
                             "public_access_blocked", "tls_required", "versioning_enabled",
                             "access_logging_enabled", "lifecycle_configured"}),
    sql_database      |-> Probe("managed_database", {"encryption_at_rest", "publicly_accessible",
                             "auto_minor_version_upgrade", "deletion_protection_enabled",
                             "iam_auth_enabled"} \cup DatabaseSignals),
    subscription      |-> Probe("cloud_account", {"logging_enabled", "multi_region_enabled",
                             "cloudwatch_logs_integrated", "threat_detection_enabled",
                             "password_max_age_days"}),
    virtual_machine   |-> Probe("compute_instance",
                             {"public_ip_assigned", "detailed_monitoring_enabled"}),
    network_security_group |-> Probe("network_ruleset", IngressSignals),
    virtual_network   |-> Probe("virtual_network", {"flow_logs_enabled"}),
    key_vault_key     |-> Probe("encryption_key", {"key_rotation_enabled"}),
    managed_disk      |-> Probe("block_storage", {"encryption_at_rest", "kms_encrypted"})]

Dispatch == "entra_user" :> {"AC-2-7"}

\* One failed role read leaves every signal but MFA unread.
EntraUser(w) ==
    Must({"registration"}, w,
         {<<s, "mfa" \in Said(w)>> : s \in MfaSignals}
         \cup IF w.denied \cap {"transitive_roles", "direct_roles"} # {} THEN {}
              ELSE Flags(RoleSignals, w)
                   \cup Seen("user", w, Flags({"console_access_enabled"}, w))
                   \cup Seen("sign_in_activity", w,
                             IF "signed_in" \in w.facts
                             THEN Flags({"days_since_last_login"}, w) ELSE {}))

\* The items are the application's credentials.  The newest one dates the
\* rotation; with none there is no date.
ServicePrincipal(w) ==
    Must({"service_principal"}, w,
         {<<"access_key_count", Cardinality(DOMAIN Items(w)) <= 1>>}
         \cup IF Items(w) = <<>> THEN {}
              ELSE {<<"days_since_key_rotation",
                      \E k \in DOMAIN Items(w) : "recent" \in w.items[k]>>})

HasManagementPolicy(w) == Seen("management_policy", w, Flags({"lifecycle_configured"}, w))
EntraOnlyAuth(w) == Seen("entra_only_auth", w, Flags({"iam_auth_enabled"}, w))

\* Two properties are read three ways, by _tri.
StorageAccount(w) ==
    Must({"resource_group", "account", "diagnostics"}, w,
         All(AlwaysOn, TRUE)
         \cup Flags({"kms_encrypted", "access_logging_enabled", "versioning_enabled"}, w)
         \cup Told({"public_access_blocked", "tls_required"}, w)
         \cup HasManagementPolicy(w))

SqlServer(w) ==
    Must({"resource_group", "server"}, w,
         All(AlwaysOn \cup {"auto_minor_version_upgrade"}, TRUE)
         \cup Flags({"publicly_accessible"}, w)
         \cup Seen("locks", w, Flags({"deletion_protection_enabled"}, w))
         \cup EntraOnlyAuth(w)
         \cup IF "database_param" \notin w.facts THEN {}
              ELSE Seen("retention", w, Told({"backup_retention_days"}, w))
                   \cup Seen("database", w, Flags({"multi_az_enabled"}, w))
                   \cup Seen("database_diagnostics", w, Flags({"log_exports_enabled"}, w)))

\* The Activity Log covers every region: one export answers both questions.
Subscription(w) ==
    Must({"diagnostics"}, w,
         {<<s, "logging_enabled" \in Said(w)>> : s \in {"logging_enabled", "multi_region_enabled"}}
         \cup Flags({"cloudwatch_logs_integrated"}, w)
         \cup Seen("pricings", w, Flags({"threat_detection_enabled"}, w))
         \cup Seen("domains", w, IF "default_domain" \in w.facts
                                 THEN Told({"password_max_age_days"}, w) ELSE {}))

\* The items are the network interfaces: none listed is none there.
VirtualMachine(w) ==
    Must({"resource_group", "vm", "instance_view"}, w,
         Flags({"detailed_monitoring_enabled"}, w)
         \cup Listed(w, LAMBDA readable :
                  {<<"public_ip_assigned", \E n \in readable : "public" \in w.items[n]>>}))

\* The items are the rules: those that allow inbound traffic count, whatever
\* a rule of a higher priority denies.
NetworkSecurityGroup(w) ==
    Must({"resource_group", "nsg"}, w,
         IngressExposure({w.items[r] : r \in {i \in DOMAIN Items(w) : w.items[i].allows}}))

VirtualNetwork(w) == Seen("flow_logs", w, Flags({"flow_logs_enabled"}, w))

\* A 404 is "no rotation policy"; the vault out of reach is an error.
KeyRotation(w) == Must({"vault_param", "rotation_policy"}, w, Flags({"key_rotation_enabled"}, w))

ManagedDisk(w) ==
    Must({"resource_group", "disk"}, w, Flags({"encryption_at_rest", "kms_encrypted"}, w))

RunProbe(p, w) ==
    CASE p = "entra_user"             -> EntraUser(w)
      [] p = "service_principal"      -> ServicePrincipal(w)
      [] p = "storage_account"        -> StorageAccount(w)
      [] p = "sql_database"           -> SqlServer(w)
      [] p = "subscription"           -> Subscription(w)
      [] p = "virtual_machine"        -> VirtualMachine(w)
      [] p = "network_security_group" -> NetworkSecurityGroup(w)
      [] p = "virtual_network"        -> VirtualNetwork(w)
      [] p = "key_vault_key"          -> KeyRotation(w)
      [] p = "managed_disk"           -> ManagedDisk(w)
=============================================================================
