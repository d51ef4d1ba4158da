----------------------------- MODULE Standards -----------------------------
(***************************************************************************)
(* Findings that arrive from outside: scanner reports and Security Hub     *)
(* (services/ingestion.py), and the open formats SARIF, CycloneDX, SPDX,   *)
(* in-toto, STIX, Sigstore and OCSF (services/<format>.py), normalized and *)
(* planned by services/standards_ingest.py.  Every one of them lands in    *)
(* AssessmentService.record_external_finding, which skips what it takes    *)
(* for a finding it already has.                                           *)
(*                                                                         *)
(* A document is one item; a longer document is several ingestions in a    *)
(* row.  The tenant, texts, time stamps and provenance are left out.       *)
(***************************************************************************)
EXTENDS Integers, Sequences, FiniteSets, TLC

CONSTANTS Items,    \* what may arrive: a set of items of one tenant
          None,
          MaxItems

VARIABLES arrived,  \* the items ingested, in order
          rows,     \* the findings recorded
          former    \* external ids on record under the former key format

intake == <<arrived, rows, former>>

Severities == <<"info", "low", "medium", "high", "critical">>
Rank(s) == IF \E i \in DOMAIN Severities : Severities[i] = s
           THEN CHOOSE i \in DOMAIN Severities : Severities[i] = s ELSE 0

-----------------------------------------------------------------------------
\* Severity: a CVSS score in tenths, or NoScore; and the sink, which knows
\* the five words and takes any other one for medium.

NoScore == -1
FromScore(v) == CASE v >= 90 -> "critical" [] v \in 70..89 -> "high" [] v \in 40..69 -> "medium"
                  [] v \in 1..39 -> "low" [] OTHER -> "info"
Severity(word) == IF Rank(word) = 0 THEN "medium" ELSE word

\* NormalizedEvidence: what an adapter says about one asset.
Evidence(source, asset, severity, concepts, flags, controls, findings) ==
    [source |-> source, asset |-> asset, severity |-> severity, concepts |-> concepts,
     flags |-> flags, controls |-> controls, findings |-> findings]

Blank == ""
Field(name, value) == IF value = None THEN {} ELSE {<<name, value>>}

\* SARIF: one per failing result that nobody accepted and that is still there.
NonFindingKinds == {"pass", "notApplicable", "informational", "open", "review"}
\* One keyword of a rule's id, text or tags for each concept.
TagConcepts == [dependency |-> "dependency_management", cve |-> "vulnerability_management",
                secret |-> "secure_coding", review |-> "code_review"]
LevelSeverity == [error |-> "high", warning |-> "medium", note |-> "low", none |-> "info"]
IsSuppressed(r) == r.suppressions \ {"rejected"} # {} \/ r.absent
ResultSeverity(r) == IF r.score # NoScore THEN FromScore(r.score) ELSE LevelSeverity[r.level]
Result(r) ==
    Evidence("CODEQL", r.uri, ResultSeverity(r), {"security_testing"} \cup {TagConcepts[t] : t \in r.tags},
             {}, {}, {Field("rule_id", r.rule) \cup Field("location", r.uri) \cup Field("line", r.line)
                      \cup Field("fingerprint", r.fingerprint)})
FromSarif(r) == IF r.kind \in NonFindingKinds \/ IsSuppressed(r) THEN {} ELSE {Result(r)}
\* CycloneDX: one per vulnerability that is not suppressed and component it affects.
VexSuppressed == {"not_affected", "false_positive", "resolved", "resolved_with_pedigree"}
VulnSeverity(v) ==
    LET ranks == {Rank(r) : r \in v.ratings} \ {0}   \* of the words it knows
    IN  IF ranks = {} THEN "unknown"
        ELSE Severities[CHOOSE n \in ranks : \A m \in ranks : m <= n]
Affected(v) == IF v.refs = {} THEN {None} ELSE v.refs
FromCyclonedx(v) ==
    IF v.vex \in VexSuppressed THEN {}
    ELSE {Evidence("TRIVY", ref, VulnSeverity(v), {"vulnerability_management", "dependency_management"},
                   {}, {}, {Field("id", v.id)}) : ref \in Affected(v)}

\* SPDX: one per package with a security reference.
FromSpdx(p) ==
    IF p.advisories = {} THEN {}
    ELSE {Evidence("SYFT", <<p.name, p.version>>, "unknown",
                   {"vulnerability_management", "dependency_management"}, {}, {},
                   {Field("package", p.name) \cup Field("version", p.version)})}

\* STIX: one per object of a type that carries intelligence.
TypeConcepts == [vulnerability |-> {"vulnerability_management", "threat_intelligence"},
                 malware |-> {"malware_protection", "threat_intelligence"}, indicator |-> {"threat_intelligence"},
                 attack |-> {"threat_intelligence"}, course |-> {"threat_intelligence"}]
StixSeverity(o) == CASE o.label = "malicious-activity" -> "high"
                     [] o.label = "benign" -> "info"
                     [] o.label = None /\ o.type = "vulnerability" -> "medium"
                     [] OTHER -> "unknown"
FromStix(o) ==
    IF o.type \notin DOMAIN TypeConcepts THEN {}
    ELSE {Evidence("STIX", None, StixSeverity(o), TypeConcepts[o.type], {}, {},
                   {Field("cve", o.cve) \cup Field("stix_id", o.id)})}

\* in-toto: a statement, signed when its envelope carries a signature.
IsSigned(s) == s.enveloped /\ "sig" \in s.signatures
Builder(s) == IF s.builder = None THEN "IN_TOTO" ELSE s.builder
FromIntoto(s) ==
    IF ~s.statement THEN {}
    ELSE {Evidence(Builder(s), s.subject, "info", {"supply_chain_security", "secure_development"},
                   IF IsSigned(s) THEN {"build_provenance"} ELSE {}, {}, {})}

\* Sigstore: a bundle, signed when its envelope has signatures, of whatever
\* content, or the bundle has a certificate.
FromSigstore(b) ==
    {Evidence("SIGSTORE", b.subject, "info", {"data_integrity", "audit_log_protection"},
              IF b.enveloped /\ (b.signatures # {} \/ b.certificate) THEN {"evidence_signed"} ELSE {}, {}, {})}

\* OCSF: a compliance finding states a control's status; every other class
\* gives telemetry at most.
OcsfStatus(raw) == CASE raw \in {"pass", "passed", "compliant"} -> "pass"
                     [] raw \in {"fail", "failed", "non-compliant"} -> "fail"
                     [] OTHER -> IF raw = None THEN "unknown" ELSE raw
FromOcsf(e) ==
    {Evidence("SECURITY_LAKE", e.resource, e.severity,
              IF e.class = "detection" THEN {"vulnerability_management"} ELSE {}, {},
              IF e.class = "compliance" /\ e.control # None
              THEN {[ref |-> e.control, status |-> OcsfStatus(e.status), standards |-> e.standards]}
              ELSE {}, {})}

-----------------------------------------------------------------------------
\* The crosswalk of the open formats' control references (grc_platforms).

Crosswalks ==
    [SOC2 |-> ("CC6.1" :> "AC-2" @@ "CC6.2" :> "AC-2" @@ "CC6.3" :> "AC-3" @@ "CC6.6" :> "SC-7"
            @@ "CC6.7" :> "SC-28" @@ "CC6.8" :> "SI-3" @@ "CC7.1" :> "RA-5" @@ "CC7.2" :> "SI-4"
            @@ "CC7.3" :> "IR-4" @@ "CC8.1" :> "CM-3" @@ "A1.2" :> "CP-9"),
     ISO27001 |-> ("A.5.15" :> "AC-3" @@ "A.5.16" :> "IA-4" @@ "A.5.18" :> "AC-2" @@ "A.8.5" :> "IA-2"
            @@ "A.8.8" :> "RA-5" @@ "A.8.11" :> "SC-28" @@ "A.8.16" :> "SI-4" @@ "A.8.24" :> "SC-28"
            @@ "A.8.32" :> "CM-3"),
     CIS |-> ("5.1" :> "AC-2" @@ "6.1" :> "AC-3" @@ "3.11" :> "SC-28" @@ "7.1" :> "RA-5" @@ "8.1" :> "AU-2")]

Resolves(framework, ref) == framework \in DOMAIN Crosswalks /\ ref \in DOMAIN Crosswalks[framework]

\* resolve_best: the declared frameworks in order, then any: their references
\* do not overlap.
ResolveBest(ref, standards) ==
    LET declared == SelectSeq(standards, LAMBDA f : Resolves(f, ref))
    IN  CASE declared # <<>> -> Crosswalks[declared[1]][ref]
          [] declared = <<>> /\ \E f \in DOMAIN Crosswalks : Resolves(f, ref)
                -> Crosswalks[CHOOSE f \in DOMAIN Crosswalks : Resolves(f, ref)][ref]
          [] OTHER -> None

-----------------------------------------------------------------------------
\* plan_for_evidence: exactly one of three branches fires.

Plan(framework, control, ne, status, severity, external) ==
    [framework |-> framework, control |-> control, source |-> ne.source, asset |-> ne.asset,
     status |-> status, severity |-> severity, external |-> external]

Composite == {"rule_id", "package", "version", "name", "location", "line"}

\* _finding_key: the first identifier a finding has that is not blank, or else
\* every field of Composite it has.
Identifiers == <<"cve", "id", "stix_id", "fingerprint">>
FindingKey(f) ==
    LET having(k) == {x[2] : x \in {y \in f : y[1] = k}} \ {Blank}
        ids == {n \in DOMAIN Identifiers : having(Identifiers[n]) # {}}
        first == CHOOSE n \in ids : \A m \in ids : n <= m
    IN  IF ids # {} THEN having(Identifiers[first]) ELSE {x \in f : x[1] \in Composite}
ControlPlan(ne, c) ==
    LET mapped == ResolveBest(c.ref, c.standards)
        status == IF c.status \in {"pass", "fail"} THEN c.status ELSE "error"
    IN  Plan(CASE mapped # None -> "NIST_800_53" [] mapped = None /\ c.standards # <<>> -> c.standards[1]
               [] OTHER -> "NIST",
             IF mapped # None THEN mapped ELSE c.ref, ne, status, ne.severity,
             <<ne.source, c.ref, ne.asset>>)
Attests == [build_provenance |-> <<"supply_chain_security", "SR-3">>,
            evidence_signed  |-> <<"data_integrity", "SI-7">>]

PlanForEvidence(ne) ==
    CASE ne.controls # {} -> {ControlPlan(ne, c) : c \in ne.controls}
      [] ne.controls = {} /\ "vulnerability_management" \in ne.concepts /\ ne.findings # {} ->
            {Plan("NIST_800_53", "RA-5", ne, "fail", ne.severity, <<ne.source, FindingKey(f)>>) : f \in ne.findings}
      [] OTHER ->
            {Plan("NIST_800_53", Attests[flag][2], ne, "pass", "info", <<ne.source, Attests[flag][1], ne.asset>>) :
                flag \in {g \in DOMAIN Attests : g \in ne.flags /\ Attests[g][1] \in ne.concepts}}

\* _status: the scanners' words; a word nobody knows could not be assessed.
StatusWord == [PASSED |-> "pass", ok |-> "pass", FAILED |-> "fail", alarm |-> "fail", WARNING |-> "pending",
               info |-> "not_applicable", skip |-> "not_applicable", NOT_AVAILABLE |-> "not_applicable"]
Status(word) == IF word \in DOMAIN StatusWord THEN StatusWord[word] ELSE "error"

\* from_report: the scanner's own id, or control, asset and status.
FromReport(i) ==
    {[framework |-> "NIST", control |-> i.control, source |-> "PROWLER", asset |-> i.asset,
      status |-> Status(i.status), severity |-> i.severity,
      external |-> IF i.id # None THEN <<i.id>> ELSE <<i.control, i.asset, i.status>>]}
\* _ingest_asff: Security Hub's id, which outlives a change of status.
FromSecurityHub(i) ==
    {[framework |-> "NIST", control |-> i.control, source |-> "SECURITYHUB", asset |-> i.asset,
      status |-> Status(i.status), severity |-> i.severity, external |-> <<i.id>>]}

Normalize(i) == CASE i.fmt = "sarif" -> FromSarif(i) [] i.fmt = "cyclonedx" -> FromCyclonedx(i)
                  [] i.fmt = "spdx" -> FromSpdx(i) [] i.fmt = "stix" -> FromStix(i)
                  [] i.fmt = "intoto" -> FromIntoto(i) [] i.fmt = "sigstore" -> FromSigstore(i)
                  [] i.fmt = "ocsf" -> FromOcsf(i)

Plans(i) == CASE i.fmt = "report" -> FromReport(i)
              [] i.fmt = "asff" -> FromSecurityHub(i)
              [] OTHER -> UNION {PlanForEvidence(ne) : ne \in Normalize(i)}

-----------------------------------------------------------------------------
\* record_external_finding: the key of a finding is its external id, control
\* and asset; a record under the former key, the external id alone, counts.

\* MUTANT: the asset is not part of the key.
KeyWithoutAsset(p) == <<p.external, p.control>>
Key(p) == <<p.external, p.control, p.asset>>
Known(p) == p.external \in former \/ \E r \in rows : r.key = Key(p)
Finding(p, i) == [key |-> Key(p), control |-> p.control, asset |-> p.asset, status |-> p.status,
                  severity |-> Severity(p.severity), item |-> i]
Recorded(i) == {Finding(p, i) : p \in {q \in Plans(i) : ~Known(q)}}

IntakeInit == /\ arrived = <<>> /\ rows = {}
              /\ former \in {{}} \cup {{p.external} : p \in UNION {Plans(i) : i \in {j \in Items : j.fmt = "cyclonedx"}}}

\* Bounds: MaxItems, and one format at a time, as keys name their source.
Ingest(i) ==
    /\ Len(arrived) < MaxItems
    /\ \A n \in DOMAIN arrived : arrived[n].fmt = i.fmt
    /\ former # {} => i.fmt = "cyclonedx"
    /\ arrived' = Append(arrived, i)
    /\ rows' = rows \cup Recorded(i)
    /\ UNCHANGED former

IntakeNext == \E i \in Items : Ingest(i)

IntakeSpec == IntakeInit /\ [][IntakeNext]_intake

-----------------------------------------------------------------------------
\* The summaries the policies read: the items that arrived as one document.

\* sarif_rollup: open results by severity.
SarifRollup == [s \in {"critical", "high", "medium", "low", "info"} |->
                   Cardinality({n \in DOMAIN arrived : \E e \in FromSarif(arrived[n]) : e.severity = s})]

\* sbom_summary: a vulnerability counts once, however many components it
\* affects; the first entry of an id gives its severity, one without id counts
\* row by row.
First(n) == arrived[n].id = Blank \/ \A m \in 1..(n - 1) : arrived[m].id = arrived[n].id => FromCyclonedx(arrived[m]) = {}
\* MUTANT: what VEX says is not looked at.
SbomSummaryRaw ==
    [critical |-> {n \in DOMAIN arrived : First(n) /\ VulnSeverity(arrived[n]) = "critical"},
     components |-> UNION {arrived[n].refs : n \in DOMAIN arrived}]
SbomSummary ==
    LET active == {n \in DOMAIN arrived : FromCyclonedx(arrived[n]) # {}}
    IN  [critical |-> {n \in active : First(n) /\ VulnSeverity(arrived[n]) = "critical"},
         components |-> (UNION {{ne.asset : ne \in FromCyclonedx(arrived[n])} : n \in active}) \ {None}]
\* spdx_summary and stix_summary.
WithAdvisories == Cardinality({n \in DOMAIN arrived : arrived[n].advisories # {}})
ThreatObjects == Cardinality({n \in DOMAIN arrived : arrived[n].type \in DOMAIN TypeConcepts})

-----------------------------------------------------------------------------
\* What the program says of its own verdicts: to_sarif, to_ocsf_compliance_
\* finding, and the vulnerability, package and statement it exports.

KindOf(status) == CASE status \in {"error", "pending"} -> "open"
                    [] status = "not_applicable" -> "notApplicable"
                    [] OTHER -> "fail"
LevelOf == [critical |-> "error", high |-> "error", medium |-> "warning", low |-> "note", info |-> "note"]
ScoreOf == [critical |-> 95, high |-> 80, medium |-> 55, low |-> 25, info |-> 0]

ToSarif(control, status, severity) ==
    IF status = "pass" THEN {}
    ELSE {[fmt |-> "sarif", origin |-> status, rule |-> control, kind |-> KindOf(status),
           level |-> IF KindOf(status) = "fail" THEN LevelOf[severity] ELSE "none",
           score |-> ScoreOf[severity], suppressions |-> {}, absent |-> FALSE, uri |-> None, line |-> None,
           fingerprint |-> None, tags |-> {}]}

ToOcsf(control, status, severity, standards) ==
    [fmt |-> "ocsf", origin |-> status, class |-> "compliance", control |-> control,
     status |-> CASE status = "pass" -> "pass" [] status = "fail" -> "fail" [] OTHER -> "other",
     severity |-> IF status = "pass" /\ severity = "medium" THEN "info" ELSE severity,
     standards |-> standards, resource |-> None]

Vulnerability(id, severity, ref, vex) ==
    [fmt |-> "cyclonedx", id |-> id, ratings |-> {severity}, refs |-> {ref} \ {None}, vex |-> vex]

Package(name, version, advisories) ==
    [fmt |-> "spdx", name |-> name, version |-> version, advisories |-> advisories]

Statement(subject) == [fmt |-> "intoto", statement |-> TRUE, enveloped |-> TRUE, signatures |-> {},
                       builder |-> None, subject |-> subject]

-----------------------------------------------------------------------------
\* What an item states of an asset: <<asset, verdict>>.

Exported(i) == "origin" \in DOMAIN i
Decision(i) == CASE Exported(i) -> i.origin
                 [] ~Exported(i) /\ i.fmt = "ocsf" -> OcsfStatus(i.status)
Open(r) == IF Exported(r) THEN r.origin = "fail"
           ELSE r.kind = "fail" /\ r.suppressions \subseteq {"rejected"} /\ ~r.absent
Active(v) == v.vex \in {None, "exploitable", "in_triage"}

\* What the formats allow, and what the program exports.
WellFormed(i) ==
    /\ i.fmt \in {"sarif", "cyclonedx", "spdx", "stix", "intoto", "sigstore", "ocsf", "report", "asff"}
    /\ i.fmt = "sarif" => /\ i.kind \in NonFindingKinds \cup {"fail"} /\ i.tags \subseteq DOMAIN TagConcepts
                          /\ Exported(i) => /\ i.tags = {} /\ ~IsSuppressed(i)
                                            /\ i.kind = "fail" <=> i.origin = "fail"
    /\ i.fmt = "cyclonedx" => (Active(i) \/ i.vex \in VexSuppressed) /\ i.id # None
    /\ i.fmt = "stix" => i.id \notin {None, Blank}
    /\ i.fmt = "ocsf" /\ Exported(i) =>
          i.status = CASE i.origin = "pass" -> "pass" [] i.origin = "fail" -> "fail" [] OTHER -> "other"

\* No name of one kind is one of another: an object's id is no CVE, and a
\* fingerprint no list of places.
ItemsAssumption ==
    /\ None \notin VexSuppressed
    /\ \A i \in Items : WellFormed(i)
    /\ \A i, j \in {k \in Items : k.fmt = "stix"} : i.cve # j.id
    /\ \A i, j \in {k \in Items : k.fmt = "sarif"} : \A f \in Result(j).findings :
          "cve" \in j.tags /\ i.fingerprint \notin {None, Blank} =>
             {i.fingerprint} # {x \in f : x[1] \in Composite}

States(i) ==
    CASE i.fmt = "sarif" -> IF Open(i) /\ "cve" \in i.tags THEN {<<i.uri, "fail">>} ELSE {}
      [] i.fmt = "cyclonedx" -> IF Active(i) THEN Affected(i) \X {"fail"} ELSE {}
      [] i.fmt = "spdx" -> IF i.advisories # {} THEN {<<<<i.name, i.version>>, "fail">>} ELSE {}
      [] i.fmt = "stix" -> IF i.type = "vulnerability" THEN {<<None, "fail">>} ELSE {}
      [] i.fmt = "intoto" -> IF IsSigned(i) /\ i.statement THEN {<<i.subject, "pass">>} ELSE {}
      [] i.fmt = "sigstore" -> IF i.enveloped /\ "sig" \in i.signatures THEN {<<i.subject, "pass">>} ELSE {}
      [] i.fmt = "ocsf" ->
            IF i.class # "compliance" \/ i.control = None THEN {}
            ELSE {<<i.resource, IF Decision(i) \in {"pass", "fail"} THEN Decision(i) ELSE "error">>}
      [] OTHER -> {<<i.asset, Status(i.status)>>}

\* The severity an item states, if it states one of the five words.
WorstOf(i) == CASE i.fmt = "cyclonedx" -> i.ratings
                [] i.fmt \in {"ocsf", "report", "asff"} -> {i.severity}
                [] OTHER -> {}

\* A Sigstore bundle whose envelope has no signature, but an empty one or a
\* certificate, is taken for signed.
Hollow(i) == i.fmt = "sigstore" /\ i.enveloped /\ "sig" \notin i.signatures

\* Every finding recorded says of its asset what the item said: nothing that
\* was accepted, is gone, was never signed or could not be assessed comes out
\* as a verdict, and no severity is lowered (standards_ingest.py, "we never
\* invent a control verdict").
NothingIsInvented ==
    \A r \in rows : /\ <<r.asset, r.status>> \in States(r.item) \/ Hollow(r.item)
                    /\ \A s \in WorstOf(r.item) : Rank(r.severity) >= Rank(s)

\* What makes two items of a format the same thing at their producer.
SameThing(i, j) ==
    CASE i.fmt = "sarif" -> i.rule = j.rule /\ i.line = j.line
      [] i.fmt = "cyclonedx" -> i.id = j.id
      [] i.fmt = "spdx" -> i.advisories = j.advisories
      [] i.fmt = "stix" -> IF i.cve \notin {None, Blank} THEN i.cve = j.cve ELSE i.id = j.id
      [] i.fmt = "ocsf" -> i.control = j.control
      [] i.fmt \in {"report", "asff"} -> i.id = j.id /\ i.control = j.control
      [] OTHER -> TRUE

\* Where the identity the code gives an item is coarser: a fingerprint stands
\* for rule and line, a vulnerability without id for every other one of its
\* component, a package for all its advisories, and a record under the former
\* key for every component of its vulnerability.
Coarse(i) == \/ i.fmt = "sarif" /\ i.fingerprint # None
             \/ i.fmt = "cyclonedx" /\ (i.id = Blank \/ \E p \in Plans(i) : p.external \in former)
             \/ i.fmt = "spdx"

\* Where a later verdict on the same thing is taken for the first one: the id
\* says nothing of the status.
Sticks(i) == i.fmt \in {"ocsf", "asff"} \/ (i.fmt = "report" /\ i.id # None)

\* Nothing is dropped for another: every verdict that arrived is on record, on
\* the asset it was about (standards_ingest._finding_key, "two different
\* findings must never share a key"), where the identity is neither Coarse nor Sticks.
NothingIsLost ==
    \A n \in DOMAIN arrived : \A v \in States(arrived[n]) :
        \/ \E r \in rows : /\ r.asset = v[1]
                           /\ r.status = v[2] \/ Sticks(arrived[n])
                           /\ SameThing(arrived[n], r.item) \/ Coarse(arrived[n])
        \/ Coarse(arrived[n]) /\ former # {}

\* What arrived is told faithfully: nothing is added to it and nothing lost.
FindingsAreFaithful == NothingIsInvented /\ NothingIsLost

\* Two entries of a bill of materials with one id and different ratings: the
\* first one's severity counts.
Rerated == \E m, n \in DOMAIN arrived : arrived[m].id = arrived[n].id /\ arrived[m].ratings # arrived[n].ratings

\* The telemetry of a document is in step with the findings it leads to: the count RA-5
\* reads is zero exactly when the document has no critical finding that is
\* open, and as many components are vulnerable as have findings.
SummariesAgree ==
    /\ \A n \in DOMAIN arrived : arrived[n].fmt = "sarif" =>
          (SarifRollup["critical"] = 0 <=> \A m \in DOMAIN arrived : Open(arrived[m]) => ResultSeverity(arrived[m]) # "critical")
    /\ \A n \in DOMAIN arrived : arrived[n].fmt = "cyclonedx" /\ former = {} =>
          /\ ~Rerated => (SbomSummary.critical = {} <=> \A r \in rows : r.severity # "critical")
          /\ SbomSummary.components = {r.asset : r \in rows} \ {None}
    /\ \A n \in DOMAIN arrived : arrived[n].fmt = "spdx" =>
          (WithAdvisories = 0 <=> rows = {})
    /\ \A n \in DOMAIN arrived : arrived[n].fmt = "stix" => Cardinality(rows) <= ThreatObjects
=============================================================================
