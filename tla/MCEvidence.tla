----------------------------- MODULE MCEvidence -----------------------------
(* Bounds for model-checking what is kept as evidence: the evidence store    *)
(* (EvidenceStore), the transparency log over it (MerkleLog), the            *)
(* enforcement plane's bundle and counters (Enforcement), the documents and  *)
(* sign-offs (Documents), and the findings of other tools (Standards).  They *)
(* share no state; one behaviour exercises one of them, the others stay as   *)
(* they began.                                                               *)
EXTENDS EvidenceStore, TLC

CONSTANTS Unhashed, MaxRows, MaxAnchors, MaxTreeDamage,
          h1, h2, n1, n2, Hosts, Requests, MaxSwitches, MaxVersions,
          Nodes, Batches, MaxPosts, MaxDecisions,
          Contents, Answers, Controls, Maps, Strategies, Default, ByConcept, ByControl,
          DocumentRequests, Owners, DayLength, MaxDay, MaxBegun,
          Items, MaxItems,
          None

VARIABLES part, made, leaves, altered, treeDamage, anchors,
          file, stamp, cache, request, switches, shown, spoiled,
          ring, counts, seen, posts, allCounted, failed, partial,
          docs, hits, att, day, req, begun, issued, acted, signed, crossed,
          arrived, findings, former

treeVars == <<made, leaves, altered, treeDamage, anchors>>
planeVars == <<file, stamp, cache, request, switches, shown, spoiled,
               ring, counts, seen, posts, allCounted, failed, partial>>
docVars == <<docs, hits, att, day, req, begun, issued, acted, signed, crossed>>
intakeVars == <<arrived, findings, former>>

Decision(h, n, allowed, block) ==
  [kind |-> "decision", host |-> h, node |-> n, allowed |-> allowed, would_block |-> block]

LogEntries ==
  {Decision(h1, n1, TRUE, FALSE), Decision(h2, n1, FALSE, TRUE), Decision(h1, n2, TRUE, TRUE),
   [kind |-> "other"], [kind |-> "malformed"],
   [kind |-> "unhashable", node |-> n1]}

MCBatches == {<<e>> : e \in LogEntries} \cup {<<e, f>> : e, f \in LogEntries}

Tree == INSTANCE MerkleLog WITH rows <- leaves, damage <- treeDamage, MaxDamage <- MaxTreeDamage
Plane == INSTANCE Enforcement WITH acked <- allCounted

\* Two concepts, one of two controls; an answer names concepts with and
\* without their quote, twice, or unknown ones.
MCMaps == [policy |-> <<1>>, plan |-> <<1, 2>>]

MCStrategies == <<{"policy", "plan"}, {"plan"}>>

Named(concept, quoted, conf) == [concept |-> concept, quoted |-> quoted, conf |-> conf]

MCAnswers ==
  {[method |-> "llm", raw |-> <<Named("policy", FALSE, 90), Named("plan", TRUE, 90),
                                Named("other", TRUE, 90), Named("plan", TRUE, 70)>>],
   [method |-> "llm", raw |-> <<Named("policy", TRUE, 65)>>],
   [method |-> "lexicon", raw |-> <<Named("policy", TRUE, 50)>>]}

MCDefault == [confirmation |-> TRUE, least |-> 60, age |-> 365, owner |-> FALSE]
MCByConcept == [plan |-> [owner |-> TRUE]]
MCByControl == 2 :> [least |-> 75]

Docs == INSTANCE Documents WITH Requests <- DocumentRequests

\* What other tools report.  Each format: items that differ in what they say, and items
\* that differ in what they are about.

Intake == INSTANCE Standards WITH rows <- findings

\* What the formats write, whatever arrives.
Formats == INSTANCE Standards WITH rows <- findings, Items <- {}

Results ==
    [fmt : {"sarif"}, kind : {"fail", "review"}, suppressions : SUBSET {"accepted", "rejected"},
     absent : BOOLEAN, tags : {{"secret"}, {"secret", "cve"}}, score : {Formats!NoScore, 95}, level : {"error", "warning"},
     rule : {"r1"}, line : {"1"}, fingerprint : {None}, uri : {"a.py"}]
    \cup
    [fmt : {"sarif"}, kind : {"fail"}, suppressions : {{}}, absent : {FALSE}, tags : {{"cve"}}, score : {40},
     level : {"note"}, rule : {"r1", "r2"}, line : {"1", "2"}, fingerprint : {None, "p1"}, uri : {"a.py", "b.py"}]
Vulnerabilities ==
    [fmt : {"cyclonedx"}, id : {"", "v1", "v2"}, ratings : SUBSET {"low", "critical"},
     refs : SUBSET {"c1", "c2"}, vex : {None, "not_affected"}]
    \cup [fmt : {"cyclonedx"}, id : {"v1"}, ratings : {{"odd"}, {"odd", "low"}}, refs : {{"c1"}}, vex : {None}]
Objects == [fmt : {"stix"}, type : {"vulnerability", "indicator", "identity"}, cve : {None, "", "v1", "v2"},
            id : {"o1", "o2"}, label : {None, "benign", "malicious-activity"}]
Statements == [fmt : {"intoto"}, statement : BOOLEAN, enveloped : BOOLEAN, signatures : {{}, {"sig"}, {"empty"}},
               builder : {None, "gha"}, subject : {"image", "library"}]
Bundles == [fmt : {"sigstore"}, enveloped : BOOLEAN, signatures : {{}, {"sig"}, {"empty"}},
            certificate : BOOLEAN, subject : {"image", "library"}]
Events == [fmt : {"ocsf"}, class : {"compliance"}, control : {None, "CC6.1", "CC6.2", "9.9"},
           status : {None, "passed", "failed", "warning"}, severity : {"fatal", "critical"},
           standards : {<<>>, <<"PCI", "SOC2">>}, resource : {"r1", "r2"}]
    \cup [fmt : {"ocsf"}, class : {"authentication", "detection"}, control : {None, "CC6.1"}, status : {"failed"},
          severity : {"high"}, standards : {<<>>}, resource : {"r1"}]
Scanned(fmt, ids) == [fmt : {fmt}, id : ids, control : {"AC-2", "SC-7"}, asset : {"a1", "a2"},
                      status : {"PASSED", "FAILED", "WARNING", "shrug"}, severity : {"critical", "low"}]

Statuses == {"pass", "fail", "error", "not_applicable", "pending"}
SeverityWords == {"critical", "high", "medium", "low", "info"}

Exports ==
    UNION {Formats!ToSarif("AC-2", s, w) : s \in Statuses, w \in SeverityWords}
    \cup {Formats!ToOcsf("AC-2", s, w, <<"NIST">>) : s \in Statuses, w \in SeverityWords}
    \cup {Formats!Vulnerability(v, w, c, x) : v \in {"v1", "v2"}, w \in SeverityWords, c \in {"c1", None},
                                         x \in {None, "in_triage", "false_positive"}}
    \cup {Formats!Package(n, v, a) : n \in {"p", "q"}, v \in {None, "1"}, a \in SUBSET {"a1", "a2"}}
    \cup {Formats!Statement("image")}

MCItems == Results \cup Vulnerabilities \cup Objects \cup Statements \cup Bundles \cup Events
    \cup Scanned("report", {None, "f1"}) \cup Scanned("asff", {"f1", "f2"}) \cup Exports

ASSUME Intake!ItemsAssumption
ASSUME Docs!DocumentsAssumption /\ Docs!RulesAreStrict
ASSUME Tree!MerkleAssumption
ASSUME Plane!EnforcementAssumption

MCInit ==
  /\ Init /\ Tree!Init /\ Plane!Init /\ Docs!Init /\ Intake!IntakeInit
  /\ part \in {"store", "tree", "bundle", "logs", "documents", "intake"}
  /\ part # "intake" => former = {}
  /\ part # "store" => backend = "local"
  /\ part # "bundle" => \A h \in Hosts : shown[h] = "shadow"

StoreStep == part = "store" /\ Next /\ UNCHANGED <<part, treeVars, planeVars, docVars, intakeVars>>

TreeStep == part = "tree" /\ Tree!Next /\ UNCHANGED <<part, vars, planeVars, docVars, intakeVars>>

BundleStep ==
  part = "bundle" /\ (Plane!BundleNext \/ Plane!Kill) /\ UNCHANGED <<part, vars, treeVars, docVars, intakeVars>>

LogStep ==
  part = "logs" /\ (Plane!LogNext \/ Plane!Kill) /\ UNCHANGED <<part, vars, treeVars, docVars, intakeVars>>

DocumentStep ==
  part = "documents" /\ Docs!Next /\ UNCHANGED <<part, vars, treeVars, planeVars, intakeVars>>

IntakeStep ==
  part = "intake" /\ Intake!IntakeNext /\ UNCHANGED <<part, vars, treeVars, planeVars, docVars>>

\* Documents and findings come to rest at their bounds.
Rest ==
  part \in {"documents", "intake"} /\ UNCHANGED <<part, vars, treeVars, planeVars, docVars, intakeVars>>

MCNext == StoreStep \/ TreeStep \/ BundleStep \/ LogStep \/ DocumentStep \/ IntakeStep \/ Rest

MCSpec == MCInit /\ [][MCNext]_<<part, vars, treeVars, planeVars, docVars, intakeVars>>

\* The documents alone.
DocsSpec ==
  MCInit /\ part = "documents" /\ [][DocumentStep]_<<part, vars, treeVars, planeVars, docVars, intakeVars>>

\* Writers are interchangeable.
Writers == Permutations(Workers)

\* MerkleLog: a root seen before is a root over the same leaves, and every
\* record has a proof, which proves nothing else.
TreeIsBinding == Tree!TreeIsBinding

\* Enforcement: readers are told the acknowledged modes.
AcknowledgedModeShows == Plane!AcknowledgedModeShows

\* Enforcement: the accounts of the decisions agree.
AccountsAgree == Plane!AccountsAgree

\* Documents: what is believed was vouched for, is on file and told alike.
EvidenceStands == part = "documents" => Docs!EvidenceStands

\* Standards: findings are told faithfully, and summaries agree with them.
FindingsAreFaithful == Intake!FindingsAreFaithful
SummariesAgree == Intake!SummariesAgree

\* Documents: a sign-off renewed within the year stands.
RenewalRenews == Docs!RenewalRenews
=============================================================================
