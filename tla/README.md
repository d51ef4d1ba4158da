# Comp-Lens: a TLA+ verification project

Comp-Lens is a FastAPI and SQLAlchemy service that assesses compliance
controls. Connectors collect telemetry from other systems, a policy engine turns
it into a verdict, and one write path records evidence, finding, posture and
history rows. Around that core are a schedule runner, tamper-evident logs
(evidence store, Merkle anchors, agent decision log), figures computed from
posture (scores, waivers, remediation queue, as-of queries), flows that write
governance rows (policy runs, risk register, connector syncs, audits,
documents, GRC platforms) and the HTTP surface in front of it all.

This directory holds TLA+ models of the stateful parts and of the pure
algorithms a verdict depends on, the TLC configurations
that check them on small instances, and TLAPS proofs of their main theorems for
every value of the constants. Paths are relative to the repository root; `app/`
is `src/app/` beside this directory.

Contents: [1 Inventory](#1-inventory), [2 Plan](#2-plan),
[3 Conventions](#3-conventions-of-the-models), [4 Models](#4-the-models),
[5 Runs](#5-runs-and-bounds), [6 Proofs](#6-proofs),
[7 Deviations](#7-known-deviations), [8 Not modelled](#8-not-modelled).

## 1. Inventory

| Component | State | Operations | Interacts with |
|---|---|---|---|
| Schedule runner, `app/services/scheduler.py` | `schedules` rows: next run, lease holder, lease end; one thread per replica | tick: load due, claim, execute, release; manual run; create, delete | calls the write path, one session per tick; replicas meet in the rows |
| Assessment write path, `app/services/assessment.py` | findings, evidence metadata, idempotency records, posture, history rows; artifacts | single, batch, scheduled and external findings, unverifiable cells, triage | connectors, policy engine, evidence store; transactions meet in rows and unique keys |
| External findings, `app/services/ingestion.py` | none of its own | default external key, ingest | write path |
| Evidence store and verification, `app/evidence.py`, `app/services/integrity.py` | a locked JSONL file, or S3 objects | store, stored_hashes, verify | called by the write path before its rows |
| Merkle anchors, `app/services/merkle.py` | anchor rows | build_tree, anchor, proof, verify_proof | reads evidence rows |
| Agent decision log, `app/services/agent_audit.py` | chained action rows, a signed head, agent identities | record_action, verify_chain | policy drafts append to it, inside their transaction |
| Temporal log, `bitemporal.py`, `posture_history.py`, `freshness.py` | intervals per key | put, as_of, value_at; as-of queries of history rows | history rows come from the write path |
| Waivers and scores, `waivers.py`, `remediation.py`, `assessment.py`, `trends.py`, `forecast.py` | waiver rows | create, revoke, list (marks lapsed ones), scores, queue, projection | read posture rows |
| Connector HTTP client, `app/connectors/http_client.py` | one circuit breaker per service and process | request with retries, get_all_pages | every vendor connector |
| Connector framework, `framework.py`, `registry.py`, `safety.py`, `connector_instances.py` | evidence items and a state row per connector; a health cache | sync, status, test, live gate | vendors, through the client |
| Governance loop, `app/services/integration.py`, `grc_tprm.py` | findings and posture of policies; risk register | policy run, project a system to a risk, escalate, edit entries | policy engine, threat feeds |
| Policies as code, `app/policy_as_code/` | policies loaded from files; drafts | evaluate an expression, decide a set of policies; draft, approve | the checks of connectors and the policy runs are written in it |
| Vendor connectors, `app/connectors/aws.py`, `secondary.py`, `security_tools.py`, `control_checks.py` | none | probe an asset, choose the probe of a check, judge the check | vendors; the write path asks them |
| Standards adapters, `sarif.py`, `cyclonedx.py`, ..., `standards_ingest.py` | none of their own | normalize a document, plan findings, summarize, export | write path |
| Audit management, `audit_service.py` | audits, checklist lines, evidence requests | create and seed, refresh, review, update, delete, request | posture rows |
| Documents, evidence graph, attestations, `evidence_graph.py`, `attestation.py`, `evidence_policy.py` | documents, concept hits, attestations | upload, delete, confirm, attest, decide from what is on record | resolver |
| Resolver and trust telemetry, `resolver.py`, `trust_graph.py`, `trust_telemetry.py` | none; cached signals | choose a producer, fuse lanes | connectors, policies, enforcement, GRC platforms |
| GRC platform sync, `app/grc_platforms/` | attestations of platforms | sync, map, score | trust telemetry |
| Graph analyses, `dependency_graph.py`, `simulator.py` | none | merge edges, blast radius | catalogues |
| Request hardening, authentication, routes, `hardening.py`, `auth.py`, `main.py` | sliding windows per client | limit, compress, authenticate, route | every request |
| Enforcement control plane, `enforcement.py`, `enforcement/app.py` | the bundle's data file, a cache of it, a ring of decisions and counters | switch a host, read modes, count decision logs | policy nodes |
| Crawler | crawl runs and documents | crawl with a rate limit | wired to nothing: no route, schedule or migration reaches it, and the privacy service it imports is not in the repository |
| Catalogues, reporting, configuration | little or none | lookup, presentation, settings | the parts above |

Behaviours that are hard:

- *Replicas and requests interleave.* There is no service-wide lock. What
  serialises them is a conditional UPDATE (schedules), a unique key
  (idempotency, posture), a row lock taken by an earlier write, or nothing.
- *READ COMMITTED with an ORM.* A row is loaded in one statement and written at
  the flush, and only the columns that changed since it was loaded are written.
  A concurrent commit in between is neither seen nor overwritten as a whole.
- *Two stores, one request.* An artifact is stored before the row that promises
  it commits; either may fail or die.
- *Time.* Leases, idempotency windows, waivers and breakers compare a clock read
  earlier, on another machine, or once per loop.
- *Reads of moving data.* verify, proof, list, the scores and an audit's refresh
  read rows and artifacts at several moments.
- *A file written in place.* Enforcement modes live in a file that is emptied
  before it is written, while other requests read it.
- *What was not observed.* A read that failed, an empty list, a field of another
  shape must not become a verdict, in some sixty probes, two expression
  languages and seven formats.

`PROJECT.json` lists each hazard at its line with the properties that cover it.

What makes the components correct is stated in section 4, one property per
question; section 8 lists the parts that are not modelled.

## 2. Plan

Done, in this order: the schedule runner, the write path, the agent log, the
evidence store and Merkle anchors, the HTTP client, scores and waivers, policy
findings, risk register, connector syncs, the temporal log; then the vendor
connectors with the verdict on a check, the standards adapters, the expression
language and the policy engine, audits, the HTTP surface with its hardening,
the enforcement control plane, documents and attestations, the dependency
graph, and trust with the GRC platforms.

To do, most important first:

1. *Proofs* of the three safety properties no theorem states, listed at the end of
   section 6, as far as they can be told without recursion.
2. *Policy authoring* (`PolicyAuthoring`): draft, review and approval of a
   policy; no guard in `decide` asks whether a draft is still pending. A model
   with two reviewers; the property: an activated policy is the approved text.
3. *Connector instances and the registry's health cache*: two commits, and a
   cached answer that outlives its configuration.
4. *Drift, freshness and trends* (pure operators): boundary cases of staleness.
5. *The remediation optimizer and fragility* over the graph of Dependencies.
6. *The telemetry plane of the resolver*: Documents composed with Assessment.

Abstract specifications: `EvidenceLedger` (what the write path promises about
artifacts) and `AsOfMap` (what the temporal log promises its readers) exist. One
of the schedule runner (a schedule is idle or leased to one replica) is not
worth a module of its own: LeaseHonoured says it.

Modules of later steps become further parts of the compositions of section 5 or
modules they extend, so that the number of runs stays small.

## 3. Conventions of the models

- One module per component, one action per step that other processes can fall
  between. A statement that waits in the database is an action whose guard is
  the end of the wait.
- Data is abstracted to what the properties tell apart: a hash is a name, a
  payload is a model value, a score is a fraction.
- *History variables* do not exist in the code and no action of the code's
  depends on them: `overlapped` (Assessment, PolicyFindings, ConnectorSync) records that
  two transactions were once open together, `contended` (AgentAudit) that
  appends overlapped or clocks disagreed, `torn` (EvidenceStore) counts writers
  that stopped in the middle of a line, `linked` (RiskRegister) the answers
  given that nobody's edit has undone, `reopened` (PolicyFindings) the findings a
  person opened again, `partial` (Enforcement) the entries counted for a node
  alone, `leaked` (ResilientClient) the requests sent past an open circuit,
  `acked` (EvidenceStore, Enforcement) what was acknowledged, `fresh` (Audits)
  the audits refreshed since the posture last moved and `clean` the refreshes
  that read the posture as it is, of audits no older refresh is refreshing,
  `shown`, `spoiled` and
  `failed` (Enforcement) the modes acknowledged and what disturbed them, `acted`,
  `signed` and `crossed` (Documents) the days people vouched and the documents
  rewritten twice at a time, `reported` and `crossed` (Trust) the last report
  acknowledged and the platforms synced twice at a time. They let one run
  check both what holds always and what holds only while processes do not
  overlap; section 7 says what happens when they do.
- *Mutants.* An operator commented as a mutant is a plausible bug in the
  operator that follows it. Replacing the operator by it makes the property
  that `PROJECT.json` names fail. No specification uses one.
- `Over` and `Rest` are the ends of a bounded behaviour, and `Quiet` of Audits:
  they let the runs check deadlock.
- *Composition.* An MC module that covers several components has a variable
  `part`, chosen at the start and never changed: one behaviour exercises one
  component, the others stay as they began. The components composed that way
  share no state, so nothing is lost. A property of such a component is
  restated in the MC module under its own name.

## 4. The models

### Scheduler — `app/services/scheduler.py`

State: per schedule its row, the time to its next run, the holder and the end of
its lease; per replica the tick it is in (`pc`), the list loaded at its start,
the schedule at hand and the age of the tick's `now`. Times are relative to the
present, so that the state space is finite: `Advance` ages all of them.
`LoadDue` is the SELECT, `ClaimWin`/`ClaimLose` the conditional UPDATE of
`_claim` and its row count, `StartRun`/`CommitRun`/`FailRun` `_execute` and the
update of `next_run_at`, `Release`/`ReleaseFails` `_release`, `TickAborts` the
exception of a schedule that was deleted under the loop, `Crash` a replica whose
successor has a new WORKER_ID, `ManualStart`/`ManualEnd` the run endpoint, which
takes no lease.

- `LeaseHonoured`: while its lease runs, the row names the replica that took it
  and the end it set; no late release drops it and nobody steals it.
- `StaleListNeverReruns`: a claim is won only on a schedule due at that moment,
  whatever the list loaded earlier says.
- `DueIsAttempted` (liveness): a schedule that is due is claimed, or no longer
  due, or gone, whatever crashes, failing releases and abandoned ticks do.

*Fairness*: weak fairness of each replica's steps together, because
`run_loop` wakes on its own and every step of a tick returns or raises; and of
`Advance`, because time passes. Nothing makes a manual run end or forbids a
crash; crashes are bounded.

### Assessment, EvidenceLedger — `app/services/assessment.py`

State: the committed rows (`findings`, `evidence`, `idem`, `posture`,
`history`), which records are older than the window (`stale`), the artifacts
(`stored`), and per worker a transaction `tx` with the job, the item at hand,
the row it read, and its uncommitted writes (`own`). An item goes
`Lookup` → `Collect` → `StoreArtifact` → `ReadPosture` → `CloseHistory` →
`Write` (the savepoint). `Write` waits while another transaction holds an
uncommitted row with the same key; on a conflict the savepoint rolls back and
the winner is looked up. `Commit`, `Abort`, `Deadlock` end or break
transactions; `Age` lets a record outlive the window. The four kinds of
job differ in their key and in what they do with a failed item.

- `ImplementsLedger`: the write path implements `EvidenceLedger` — artifacts are
  put, and only what was put is promised by a committed row.
- `ExplicitKeyOnce`: a caller's key names one finding for ever, however
  requests race.
- `ImplicitHitIsFresh`: without a key an old finding is an answer only inside
  the window (or in the pre-hash format).
- `CellsAgree`, `NoCellVanishes`: while transactions follow one another, posture,
  finding and history agree, and a batch leaves every cell in the denominator of
  the score.
- `CurrentIsCited` is the first half of `CellsAgree` without that condition, and
  is violated (section 7).

### AgentAudit — `app/services/agent_audit.py`

State: action rows (hash, predecessor, created_at), the head row, whether the
agent identity exists; per transaction the row in hand and the head it loaded.
`Register` → `ReadPrev` → `ReadHead` → `Flush` → `Commit` is `record_action` in
the transaction of a draft; `Lose` and `Alter` damage committed records.
`created_at` may be ahead of the clock by up to `Skew`.

- `ChainResolves`: no interleaving or rollback leaves a dangling link or a head
  naming a missing record.
- `OvercountMeansLoss`: a head that counts more actions than there are means a
  loss; lost updates only make it count too few.
- `OrderlyChainIsJudged`: for a log written one draft at a time on one clock,
  `verify_chain` is exact: it accepts an undamaged log and reports damage for
  ever.
- `HonestChainVerifies` drops the condition, and is violated (section 7).

### EvidenceStore — `app/evidence.py`, `app/services/integrity.py`

The backend (file or S3) is chosen at the start. `Acquire`, `AppendSome`,
`AppendRest` are the lock, a write that may stop in the middle of a line, and
its end with fsync; `Put` is a put with `Attempts` tries, whose answer may be
lost. `Commit` makes the row visible after `store()` returned. `LoadRows` and
`ReadStore` are the two reads of `verify`; `Damage` edits a row's columns or the
hash it is compared by, clears its `record_hash`, edits columns no hash covers,
edits the artifact's hash, or removes the artifact. A row without a `record_hash`
(`Bare`) is compared with its artifact alone, as the code does.

`StoreKeepsItsWord` is three things: acknowledged artifacts are found again,
except that each torn line spoils at most the one appended to it; verify reports
only what is damaged or unreadable, although writers go on while it runs; and
what was damaged when verify loaded the rows, and can be seen by what it compares
(`Visible`), is reported, even on a listing cut short.

### MerkleLog — `app/services/merkle.py`

Hashes are terms, so equal hashes are hashes of equal things; a node hashes the
set of its children because the code sorts the pair. Rows get their
place when made and are seen when they commit.

`TreeIsBinding`: the present root equals an anchor's only if the leaves are the
anchored ones, none added, altered or removed; and every record has a proof that
verifies, and that proof verifies no other leaf, for every size of tree up to the
bound.

### ResilientClient, Paging — `app/connectors/http_client.py`

`ResilientClient` is the retry loop of several threads and the breaker they
share: a request is sent in one step and answered in another. `Paging` is one
walk of `get_all_pages` over any link structure; what the client does to one
request is `Fetch` or `FailedFetch` there.

- `CompleteOrNothing`: a returned list is the whole collection in order, no
  page twice, to its end or to a next link whose URL has a comma or a semicolon
  (`Delimited`), which `_next_link` does not make out.
- `LeakIsBounded`: from an opening of the circuit to the next success no more
  than callers × retries requests get past it while it is open.
- `OpenEnds` (liveness): an open circuit lets a probe through or closes.

*Fairness*: requests have a timeout (per read, so a server that drips bytes can
delay one; the model takes an answer as eventual), sleeps end, and time
passes. Nothing makes a caller begin or the service recover. `MCSpec` asks this
fairness of the behaviours in which the client moves.

### Scoring — `waivers.py`, `remediation.py`, `compliance_summary`

State: posture rows (status, weight), waivers (term, expiry, stored status), the
rows a listing is about to mark, a clock. A listing loads lapsed rows in one
step and writes them in another; everything else is one step. Scores are
fractions: rounding is left out. Criticality is doubled to be whole.

- `ProjectionIsExact`: the score the queue projects for its head is the one that
  fixing the head gives, and the index the scores use suppresses a failure
  exactly when `active_for` finds a waiver.
- `WaiverNeverLowers`: a new waiver never lowers a score of the summary.
- `EndedForGood`: a waiver revoked or lapsed is never in force again, whatever
  a listing writes over it.

### TemporalLog, AsOfMap — `bitemporal.py`, `posture_history.py`

A log keeps a sequence of intervals per key. `ImplementsAsOf`: under in-order
puts (`BackDated` is FALSE) the log implements a map from moments to values: a
put changes the answers from its moment on and no earlier one. `ReadersAgree`:
the database query of `posture_history.as_of` finds what the in-memory log
finds.

### PolicyFindings, RiskRegister — `app/services/integration.py`

`PolicyFindings` is `evaluate_policies_to_findings`: `Look` loads the open
finding of the next control, `Settle` is the `get_or_create` of its posture row,
whose insert waits for another's, `Commit` writes what changed; `Triage` gives a
finding any lifecycle, as `update_finding` does. A decision "error" writes nothing,
one "not_applicable" is written as a failure (`Recorded`). The findings of a control are a sequence of
rows, so a finding is named by its control and its place. `RiskRegister` is `ai_system_to_risk`
(`Project`, `Link`), `escalate_risks_from_threat` (`Escalate`, `Raise`, `Skip`)
and the service's create, update and delete, each entry committed on its own; an
update may set title, category and impact.

- `OpenFindingsAreTrue`: however runs overlap, no passing policy keeps an open
  finding, although commits write single columns, unless a person opened that
  finding again while it passed; and while runs follow one another a control has
  one open finding besides those people opened again, whatever triage does in
  between.
- `LinkedHasItsRisk`: the entry an answer "linked" names is there and the system's
  own until it is deleted, renamed or moved to another category. It is checked
  for systems whose names do not end one another.

### ConnectorSync — `app/connectors/framework.py`, `safety.py`

A sync collects its evidence types (`Collected`, `Retry`, `GiveUp`), then deletes
and inserts the connector's items (`StartDelete`, `Deleted`: a DELETE sees what
was committed when it began and waits for other deleters), loads the state row
(`LoadRow`) and commits. The gate is evaluated once: the environment does not
change while a process runs.

`SyncIsTrue`: while syncs follow one another, the state row describes the last
one and its items are the only ones; however they overlap, the items of the one
that committed last are there, and live evidence is never partial.

### Telemetry, AwsConnector, AzureConnector, GcpConnector, SaasConnectors, CheckPack — `app/connectors/`

Pure operators. A *world* is what is true at the vendor, which reads fail,
which members of a list cannot be read, and which settings, or the list itself,
are missing from an answer that did arrive (`absent`). Each probe is an operator from a world to
telemetry, a set of pairs `<<signal, value>>` in which what is unknown is absent.
`Resolve` chooses the probe that serves a check by asset kind and signals,
`Verdict` is `control_checks.evaluate`: pass, fail or error. `IngressExposure` reduces
firewall rules to the signals of the network checks. `CheckPack` holds the checks
of `data/control_checks.json`, the built-in ones, and the demo connector.
In `MCTelemetry` a behaviour has two steps: collect, judge.

- `VerdictsAreGrounded`: a verdict says what the answers say, where a missing setting
  reads as no; `Presumes` names the probes that go beyond what they read. And what
  passes is so at the vendor, but for `Lenient`: five cases of a probe that takes a
  part for the whole or a guess for an answer, a list that is missing, and a
  setting that is missing where the check wants it off. The demo connector
  can show every declarative check both passing and failing.
- `UnreadInterfaceIsUnknown` is violated (section 7).

### Standards — `ingestion.py`, `standards_ingest.py`, the adapters

A document is a record of the fields the code reads. `Planned` is what
normalizing and planning make of it, `Key` its external id, and `Ingest` records
it unless a finding of that id exists, or one under the former key format;
a second document follows the first. `WellFormed` says what a parsed document is,
and `ItemsAssumption` asks it of the documents that may arrive. They arrive in
`MCEvidence`, one after the other, beside the writers of the store.

- `FindingsAreFaithful`: nothing recorded says what no document said, and no
  document's finding is dropped except for one that is the same by the identity
  the code chose. `Sticks`, `Rerated` and `Hollow` name where that identity is
  coarse.
- `SummariesAgree`: the counts the policies read agree with the findings planned
  from the same document.

### Cel — `policy_as_code/cel.py`, `evaluator.py`

The pattern language compiled to Python's, and the expression language: tokens,
the recursive-descent parser and the evaluator. Its run builds a tree, writes it
down with the fewest brackets its precedence allows, and reads it with the code's
parser. `CelIsExact`: a pattern matches a text exactly when the fragment it was
written for does; an expression is read back as the tree it was written from,
and its value is the reference semantics', errors included. `has()` asks of a value
without failing, but for an error of Python's that is none of the evaluator's own
(`Crash`), which passes through it.

The module also holds the language of the policies, `SafeEvaluator`: `Walk` values an
expression over a report, or raises, and `FreeNames` are the fields its text shows.

### PolicyEngine — `engine.py`

The language is a parameter: `Outcome`, `Fields`, `Ambiguous` and `Consults` are what the
engine, and its property, ask of it, and MCTelemetry gives them the meaning they have in
Cel. `EngineAssumption`: evaluating an expression asks for no field its text does not show.
`LoadPolicy` validates every rule on empty evidence; `EvaluateAll` decides all
policies, then downgrades those whose requirement does not pass. `PassIsEarned`:
a control passes only if every field its rules came to ask for was observed, all
rules hold, and what it requires passes; its severity is at least that of each
failed rule and of its base. `Unguarded` and `Alone` name the limits (section 7). A policy's parameters
are part of its expressions, so no field of the evidence has a parameter's name.

### Api — `app/main.py`, `app/auth.py`

`Routes` is the table of all routes: method, path, required permission, how far
the handler looks, what it changes. A request is matched in the order of
declaration (`Dispatch`), then refused, forbidden, missed or served (`Refuse`,
`Forbid`, `Miss`, `Serve`) by what `ParseKeys` makes of the declared keys.
`ChangesAreWarranted`: what was changed of a tenant's data was changed with a key
whose declared entry names the tenant and whose role has that duty (`Duties`,
stated apart from the permissions of the routes), and every request is served by
the route it asked for. The keys that may be declared are any sequences of
`Declarations`; `TableAssumption` says what the proof takes from the table.

### Hardening — `app/hardening.py`

`Request` is one request to the sliding-window limiter, with the client's
address behind `Hops` trusted proxies and the sweep of idle buckets every `SweepEvery`
requests. `Send` and `Return` are the application's side of a response as it
passes the compression.

- `LimitIsHonoured`: no caller is admitted more often than the limit into any
  window, whatever it forges and whenever buckets are swept; one refused is
  admitted when it comes back as late as `Retry-After` told it, unless its bucket
  let a request in meanwhile; and a refusal still passes the layers that give it
  its request id and count it.
- `ResponseIsDelivered`: whatever is held back, the client receives the messages
  the application sent, in order and once; a body is packed only for a client that
  accepts it, whole, and under a start that announces it.

### Audits — `app/services/audit_service.py`

State: audits, checklist lines, evidence requests, the posture they look at and
up to two requests under way. `Create` → `Reload` → `Seed` is the creation in its
two commits; `Refresh` → `Look` → `Load` → `Write` reads the posture row by row
before it loads the lines; `Review` → `Decide` is a patch that writes only what
differs from what it loaded; `Delete`, `Die` come in between.

- `ChecklistIsCurrent`: after a refresh that read the posture as it is, with no
  older one under way, every line shows the worst status there is.
- `ReviewStands`: a reviewer's decision changes only by a decision on that line,
  never by a refresh that loaded the line earlier.

### Enforcement — `app/services/enforcement.py`, `app/app.py`

State: `data.json` (its document, its length, whether it ends where it should),
its time stamp, the cache, the requests between read, open and write, and the
counters. `AcknowledgedModeShows`: while no switch is writing, readers are told
the modes last acknowledged, whatever was cached, unless switches overlapped, one
was killed, or two fell into one tick of the clock (`spoiled`). `AccountsAgree`:
the counts by host, by node and in the ring agree with each other, but for entries
that failed once they had counted for their node (`partial`), and with what was
acknowledged unless a batch was refused half way.

### Documents — `evidence_graph.py`, `attestation.py`, `evidence_policy.py`, `resolver.py`

State: documents, their concept hits, one attestation per control, the day, and
up to two requests under way of three. An upload replaces the document of its
reference: `Upload`, `Clear`, `Cleared`, `Store`, then the refresh; `Confirm`,
`Attest` load and save a hit or an attestation, writing only changed columns;
`Delete`, `Kill`, `Pass` (200 days).

`EvidenceStands`: what the policy accepts a person vouched for within the year
(`VouchedWithinTheYear`); a hit is of a document on file and of one reading of it,
unless two requests rewrote that document at once (`OneReading`); and the
resolver's answer is the policy's, but for the age of a sign-off that nothing else
backs (`OneAnswer`). The two find the hits of a control by different data: the policy
by the lexicon, the resolver by the concepts of the control's binding (`HitsFor`).
That the two files agree is an assumption (`StrategiesFollowTheLexicon`); they do,
for all 159 controls that have a document strategy.
`RenewalRenews` is violated (section 7).

### Dependencies — `dependency_graph.py`, `simulator.py`

`Graph` merges curated, derived and shared-concept edges, keeping the better one
of a pair; `Visit` is one turn of the breadth-first loop. `BlastIsExact`, when the
queue is empty: the controls reported are exactly those reached within the
depth asked, each with its gravest severity over all paths, and a control is
said to have failed if and only if a chain of hard edges fails it — save a tie
with a soft edge.

### Trust — `grc_platforms/`, `trust_graph.py`, `services/trust_telemetry.py`

`Fetch`, `Clear`, `Cleared`, `Store`, `Abandon` are the sync of one platform over
its pages, each item mapped by the platform's own declaration first (`Declares`, at a
confidence of 0.9) and by the crosswalk otherwise (`Resolved`); `Connect`, `Collect`, `Judge` and `Pass` — connectors, their evidence,
verdicts and days — feed the lanes. The composite is the average of the lanes that
have something to say.

- `TrustIsEarned`: what is held of a platform is the report last acknowledged,
  unless two of its syncs overlapped; a failure in it leaves the control no
  inherited trust, whatever the others report, where failures score nothing; and
  an older attestation gives no more trust.
- `AgeNeverHelps`: a step in which nothing is learnt raises no trust and lowers
  no residual risk.

## 5. Runs and bounds

| Run | Model | Bounds | States | Shows |
|---|---|---|---|---|
| `scheduler_progress` | MCScheduler | 2 replicas and 1 schedule, or 1 replica and 2 schedules; lease 3, ticks up to 4, 2 crashes, 1 manual run | 298 000 | the three properties of the runner |
| `assessment` | MCAssessment | 2 workers, 2 cells and one with a pre-hash record, 8 kinds of request, 2 transactions | 977 000 | the properties of the write path |
| `posture_two_writers` | MCAssessment | 1 cell, 3 transactions | until found | CurrentIsCited is violated |
| `agent_log` | MCAudit | 3 drafts at once, 4 actions, skew 1, 2 damaged; 2 clerks at once of 3, 2 controls, 2 assets, 1 audit | 735 000 | AgentAudit and Audits |
| `agent_log_fork` | AgentAudit | 2 drafts, no skew, no damage | until found | HonestChainVerifies is violated |
| `evidence` | MCEvidence | 2 writers, 2 artifacts, 2 attempts, 1 check, 2 kinds of damage; trees of up to 5 rows, 1 of them damaged, 1 anchor; 2 hosts, 2 switches, 2 batches; 2 document requests at once of 3, 2 controls, 400 days; 2 documents of a standard | 783 000 | EvidenceStore, MerkleLog, Enforcement, Documents, Standards |
| `sign_off_renewed` | MCEvidence | 2 document requests | until found | RenewalRenews is violated |
| `http` | MCHttp | 5 pages, cap 4; 3 threads, threshold 3, cooldown 2, 2 retries; 1 client, 1 key, 2 proxies, limit 2, window 2; every route, 2 tenants | 270 000 | Paging, ResilientClient, Hardening, Api |
| `scores` | MCScores | 3 rows of weight 0 or 5, 1 waiver; 2 waivers, 2 listings, clock up to 2; 2 keys, 3 puts each, 3 moments | 94 000 | Scoring and TemporalLog |
| `writers` | MCWriters | 2 policy runs at once of 3, 2 controls, 2 triages; 2 calls at once of 3, 2 entries, impact up to 2; 3 syncs; 2 GRC syncs at once of 3, 2 platforms; days 14 and 16, up to 30 | 744 000 | PolicyFindings, RiskRegister, ConnectorSync, Trust |
| `telemetry` | MCTelemetry | every probe, 2 failing reads, 1 missing setting, lists of 2; 2 operators of a pattern and of an expression, texts of 2; 3 policies; 3 curated edges between 4 controls | 704 000 | the connectors, Cel, PolicyEngine, Dependencies |
| `telemetry_exposure` | MCTelemetry | no failing reads but those of list members | until found | UnreadInterfaceIsUnknown is violated |

Why they are enough:

- A lease of three units and ticks of four let a lease run out under its holder;
  two replicas are thief and victim, and further ones only add more of each. A
  list of two schedules lets the first one's commit expire the session under
  the second, which is deleted; replicas contend row by row, so they contend
  for one schedule in the other behaviours. The theorem LeaseSafety holds for
  any number of both.
- A race in the write path needs two transactions; two cells are needed for
  opposite orders, one record of the old format for its branch. Two
  transactions in all also cover the re-assessment after a record has aged.
- Three drafts make a fork whose branches a third one sees, four actions let
  appends follow damage.
- A tree of five leaves has an odd level and a node promoted twice.
- Two artifacts and two kinds of damage make a row that is edited after its hash was
  cleared, and one that is whole beside one that is not.
- Five pages under a cap of four give a collection that is shorter, exactly as
  long and longer than the cap, and every loop.
- Threshold 3 with three threads lets the circuit open by failures of different
  threads while others are in their retries.
- Three equal or different moments order three puts in every way.
- Runs of each writer follow one another and overlap: of three, two at a time
  and one more after them.
- A probe guards its reads one by one, so two failing reads show every pair of
  guards, and looks at its settings one by one, so each is missing in turn; a list of
  two has a member read and one not.
- Two documents are enough for one to be taken for the other; two operators
  for every pair of neighbours in the precedence.
- Three policies make a chain of requirements and a cycle. Three curated edges
  with the derived ones give diamonds, cycles and paths of a soft and a hard edge.
- Two switches give an overlap, a text of every length follow every other, and a
  reader between any two steps. 200 days twice pass the year of a sign-off on the
  second step and not on the first; days 14 and 16 pass 15 and 30 days, the limits
  of freshness, in either order.
- One audit with two clerks has a review, a refresh and a deletion overlap in
  pairs.

The order of the policies, the names that end one another, the controls,
platforms, crosswalks, reports, policies and traffic of the trust fusion
(MCWriters), the controls a framework has in scope (MCAudit), the lexicon, the
rules, the answers, the batches and the documents of MCEvidence, the cells, terms and
criticalities of MCScores and the headers of MCHttp are constants whose values the
cfg gives or takes from definitions named `MC...`, so the theorems are about every
value of them.

Symmetry is used for workers, writers and requests, in runs without
liveness. Symmetric sets are never ordered nor chosen from by the models.

Deadlock is checked in every passing run but `telemetry`, whose behaviours are
over when their one question is answered, and not in `sign_off_renewed`.

## 6. Proofs

| Module | Theorem | Property | Inductive invariant |
|---|---|---|---|
| `Scheduler_proofs` | TypeCorrect, LeaseSafety, Exclusion, NoStaleRerun | type, LeaseHonoured, ExclusiveWhileLeased, StaleListNeverReruns | `LeaseInv` |
| `Assessment_proofs` | EvidenceIsBacked, Refinement | EvidenceBacked, ImplementsLedger | `LedgerInv` |
| | KeysAreSpentOnce | ExplicitKeyOnce | `KeyInv` on `Shape` |
| | OldAnswersAreFresh | ImplicitHitIsFresh | `IdInv` on `Shape` |
| | CellsAgreeAlone, BatchCoversItsCells | CellsAgree, NoCellVanishes | `AloneInv` on all of these |
| `Audit_proofs` | LinksResolve, NoOvercount | ChainResolves, OvercountMeansLoss | `AuditInv` |
| | OrderlyChainsAreJudged | OrderlyChainIsJudged | `JudgedInv` |
| | ChecklistsAreCurrent, ReviewsStand | ChecklistIsCurrent, ReviewStands | `EngagementInv` |
| `Evidence_proofs` | StoreAlwaysKeepsItsWord | StoreKeepsItsWord | `StoreInv` |
| | AcknowledgedModesShow | AcknowledgedModeShows | `BundleInv` |
| | EvidenceHolds | EvidenceStands | `DocsInv` |
| | DecisionsAreAccounted | AccountsAgree | `AccountsInv` |
| | RootsBind | TreeIsBinding | `LogInv` |
| | FindingsStayFaithful, SummariesStayAgreed | FindingsAreFaithful, SummariesAgree | `IntakeInv` |
| `Http_proofs` | WholeCollection | CompleteOrNothing | `Trail` |
| | LeakStaysBounded | LeakIsBounded | `ClientInv` |
| | LimitsAreHonoured | LimitIsHonoured | `LimiterInv` |
| | ResponsesAreDelivered | ResponseIsDelivered | `GzipInv` |
| | ChangesStayWarranted | ChangesAreWarranted | `ApiInv` |
| `Scores_proofs` | TypeCorrect, WaiversEndForGood | type, EndedForGood | `FiguresInv` |
| | ProjectionsAreExact, WaiversNeverLower | ProjectionIsExact, WaiverNeverLowers | `FiguresInv` |
| | PassesAreEarned | PassIsEarned | `EngineInv` |
| | OneOpenInvariant, Implements, ReadersAlwaysAgree | OneOpen, ImplementsAsOf, ReadersAgree | `ChainInv` |
| `Writers_proofs` | SyncsAreTrue | SyncIsTrue | `SyncInv` |
| | AnswersStand | LinkedHasItsRisk | `RegisterInv` |
| | OpenFindingsStayTrue | OpenFindingsAreTrue | `PolicyInv` |
| | TrustStaysEarned | TrustIsEarned | `EarnedInv` |
| | TimeNeverHelps | AgeNeverHelps | `LanesOK` and `EarnedInv` |

They hold for every number of replicas, cells, requests, drafts, audits, pages,
keys, writers, rows and hosts and for every bound, under the assumptions the
modules name: bounds are natural numbers, the markers for "nobody" and "none" are
no replica, number or page, a lease lasts at least one unit, platforms are finitely
many, and a policy of the trust fusion has no bonus and no weight of a lane below
nothing. Where a theorem needs more, its statement says so:

- TemporalLog: `~BackDated`. BatchCoversItsCells: a caller's key names one cell
  (`KeysNameCells`). OrderlyChainsAreJudged: the log has had its head from the
  first record (`Legacy = 0`). AnswersStand: no system's name ends another's.
  Section 7 says what happens otherwise.
- PassesAreEarned: `EngineAssumption`, any language of which an expression asks for no
  field but those of its text. Of the code's language TLC evaluates it for the
  expressions of the run; for all of them it is an induction over expressions.
- FindingsStayFaithful, SummariesStayAgreed: `ItemsAssumption`, that is well-formed
  documents, an object of threat intelligence whose id is nobody's CVE, and a
  fingerprint that is nobody's list of places. The code joins these names into
  one text and could not tell them apart either; the formats do.
- EvidenceHolds: the bindings follow the lexicon, as the two data files do, and the rules ask for confirmation and for renewal within 365 days
  (`RulesAreStrict`), as every rule of `app/data/evidence_policy.json` does; the
  runs check it of the rules they use.

The invariants, and what each is needed for:

- *LeaseInv*. LeaseHonoured is about rows that exist; a row can be created while
  a worker still holds its name. `BusyNotNew` — a worker is never busy with a
  row not yet created — closes that case. A release is conditional on the
  holder, a claim on the lease having run out by the claimer's own clock, which
  is never ahead of the present; that is why a late `now` cannot steal. Exclusion
  follows: of two replicas busy with one schedule one's lease has run out.
- *LedgerInv*. The artifact of an attempt and all that a transaction promises is
  stored already. Storing comes before the savepoint and committing last, in
  every interleaving and on every failure path; so each step is a `Put`, a
  `Promise` or a stutter of `EvidenceLedger`.
- *KeyInv, IdInv*. `Shape` is the type of the rows and what a transaction knows at
  each point of its program. Every finding holds a key; a key that does not
  carry a number is held once among the committed rows, among a transaction's own
  and between the two, because a savepoint is released only while nobody has the
  key. For the window it takes more: no two transactions hold one number, so the
  record looked up is the one that was answered with.
- *AloneInv*. While transactions follow one another, what the open one would
  commit is consistent cell by cell (`View`), what it read is what it still sees
  (`Plan`), and every cell of a batch behind it has a posture row (`Covered`). A
  savepoint that rolls back, an abort and a deadlock return to the committed
  rows, which are consistent too.
- *AuditInv*. `NamesInv`: hashes in hand are fresh and distinct. `LinksInv`:
  while nothing is damaged, the predecessor in hand is a committed record and
  the head loaded counts no more than there are now. A predecessor is read from
  committed rows and rows are not removed, so the link resolves whenever the
  transaction commits.
- *JudgedInv*. Names are never used again (`FreshInv`), the head counts every
  record there ever was (`CountInv`), and each record is chained to the one before
  it (`ChainInv`). Then damage shows: a record removed is missing from the count
  or leaves a gap, one altered no longer has its hash, and what is appended later
  repairs neither.
- *EngagementInv*. `CleanInv`: a clean refresh saw the posture as it is, every
  refresh of the same audit did, and what it saw of a line is still so.
  `CurrentInv`: the lines of a refreshed audit say the posture, and no request
  under way will write another status. A review and a refresh of one line meet
  in the row: each writes only the columns it changed. ReviewStands follows for
  every number of both.
- *StoreInv*. Ids in hand are distinct and not committed (`IdsInv`), only the
  holder of the lock appends (`LockInv`), and what is missing, plus the line that
  a foreign tail will still spoil, is no more than the lines that were torn
  (`TornInv`). Reports are about rows that were committed and damaged when the
  check loaded them, and damage that a check can see stays to be seen until then
  (`ReportInv`).
- *BundleInv*. Unless two switches met or shared a tick, the one under way writes
  what is shown but for its host (`SwitchInv`); between its two steps the file is
  empty, so every version looked up since then has length nought, and the version
  of a whole file is none that was looked up before (`FileInv`).
- *DocsInv*. `VouchInv`: a sign-off, and a confirmed hit, is no younger than the
  day a person last vouched for the control: only a confirmation of the hit's own
  concept marks it, and it vouches for all controls of the concept. `RewriteInv`:
  a document that no two requests rewrote at a time has one rewriter at most, is
  on file unless new, and all its hits are in that one's hands when it stores or
  removes; other requests only mark hits.
- *Trail*. While the walk goes on, what was collected follows the links from the
  first page without repetition, and the next URL is the link of the last page.
- *ClientInv*. What has leaked, and the retries that callers have begun to spend,
  is no more than callers times retries (`LeakInv`): an open circuit lets nobody
  begin, so every request past it is one retry fewer to come.
- *LimiterInv*. A bucket holds the last admissions of its caller, the ones before
  have left the window, and any admission lies more than a window before the one
  `Limit` later: that survives a bucket being swept and begun again. A refused
  caller was told a time past the window of the last `Limit` ones.
- *GzipInv*. At any moment the messages went out as they came (`Through`), the
  start is held until there is a body (`Held`), or the only body went out packed
  under a start that says so (`PackedInv`).
- *ChainInv* (of the log). Each interval of a key ends where its successor starts
  and only the last one is open; `Closed` then touches the last interval alone, an
  answer is the value of the one interval that covers the moment, and a put
  replaces exactly the answers from its moment on. The database query breaks ties
  the other way; a chain has none to break.
- *SyncInv*. `CollectInv`: what a sync holds when it stops collecting is every
  type or nothing, so live evidence is whole. `AloneInv`: a sync nothing overlaps
  deletes all there is and loads the state row as it stays until its commit,
  which is why the row it writes describes the only items.
- *RegisterInv*. An entry is committed with the answer "linked" and keeps its title
  and category: an escalation that loaded its rows long ago writes the impact alone.
  Only a deletion, or an edit that renames or moves the entry, undoes the answer.
- *PolicyInv*. `LoadedInv`: what a run loads is an open finding, which stays in
  its place, of a policy it decided; `OpenInv`: an open finding is of a policy
  that fails, or was opened again by a person. `TurnInv`: while runs follow one
  another no open finding appears that the run under way did not load, but by a
  person, so it closes or keeps the only other one.
- *FiguresInv*. `WaiverTypeOK`: no step takes a row away or moves its expiry, none
  but the first insert makes it active, and the clock does not run back, so the
  two writers that race, a revocation and a listing, can only end a waiver.
  `RowsOK` types the posture. The projection of one waiver more then differs from
  the score by the rows of its own cell: the sums split there.
- *EngineInv*. Policies and evidence stay as they were, and what is decided is what
  `Evaluate` says of each policy, held against the first pass. A pass needs every
  undeclared signal, which are the fields the rules show and so all they ask for;
  its requirements passed the first pass, and one without requirements of its own
  passes the second as well (`PassIsGiven`). There is a highest severity among
  those above the base (`HighestExists`).
- *AccountsInv*. Each place of a batch is counted once for its host and once for
  its node, but for one that fails in between and is counted as `partial`, so the
  two sums differ by those, and the length of the ring
  follows the sum by host until the ring is full (`RingInv`, `SumsInv`). A node that is online
  has decided something (`OnlineInv`).
- *LogInv*. An anchor's root is the root of its leaves. That it is of no others is
  a fact about trees of any size: the leaves of a node are a stretch of them all,
  and two nodes with one hash, of two trees or at two heights of one, hold each
  leaf equally often, by least counterexample on the sum of the heights; promoted
  nodes fall out because a promotion keeps the stretch. A proof of inclusion
  leads level by level to the node above the leaf and ends with the root; the last
  place where two leaves combined with one proof could come to agree is the first.
- *IntakeInv*. What arrived are items of the table, of one format, and only a bill of
  materials has findings under the former key (`Arrivals`). What is on record was
  planned from an item that arrived (`IsPlanned`), and every plan of such an item
  is on record under its key, or was under the former one (`IsOnRecord`). The
  rest is about keys: two plans of one key agree in what `SameThing` compares and
  in their status, unless the identity is one that `Coarse` or `Sticks` names
  (`KeysTell`). The summaries then agree because they and the findings come
  from the same items: a severity is the worst of the ratings (`WorstRating`),
  and an object of threat intelligence leads to one finding at most
  (`IsCounted`).
- *EarnedInv*. Each request has a number of its own, under which nothing is stored
  but by itself; rows are told apart by platform, sync and place. So a sync that
  meets no other holds the whole report or has cleared the platform. An
  older attestation in place of a younger one lowers the least figure where they
  conflict and the sum where they agree.
- *LanesOK*. The types behind the lanes. A figure of a lane wanes (`Wanes`): it may
  fall, but not to nothing, so no lane drops out of the average when time passes.
- *ApiInv*. A served request was matched to its route, and what the key's entry
  grants is no more than the entry warrants. What is known of the table of routes
  (`TableIsGuarded`: every route that changes data asks for a tenant and for a
  permission to change it; `TableIsReached`: no route hides another) is settled by evaluation of
  that one table, `TableAssumption`; keys, headers, tenants and requests are any.

Each invariant was checked by TLC before it was proved. Sets and sequences of
unbounded length are handled without induction over data where one record, one
caller or one interval suffices, and otherwise by least counterexamples: the
least number that would break a statement (`LeastNumber`). A recursive function
exists and is what its equation says by least counterexample too; sums over finite
sets are proved to count units (`SumIsCount` in `Sums`), whence they split, grow
and agree.

Only model-checked:

- The liveness properties DueIsAttempted and OpenEnds: fairness and ENABLED are
  beyond the proof system.
- VerdictsAreGrounded, CelIsExact: the operators of the connectors and of Cel, checked
  over bounded inputs. Patterns, parser and evaluator are recursive, and what they
  compute is induction over data; the verdicts are a statement about the worlds of
  some forty probes, each a case of its own, which the run enumerates.
- BlastIsExact: it is a statement about the weights the run uses, not about
  all. `simulator.py` keeps an effect rounded to three places and compares the
  next one, unrounded, with it. Of two chains into one control whose effects differ by
  less than the rounding, the weaker one can leave its level if it comes first:
  0.2997 is kept as 0.300, and a following 0.3000 is not greater.

## 7. Known deviations

Disagreements between the code and its documentation met while modelling. The
four of the first list are checked as runs. The others were found by the models or by reading
for them; the properties of section 4 are stated so that they hold in
spite of them, and name the condition.

Runs:

- `posture_two_writers` (`assessment.py`, `_upsert_posture`). Two transactions
  load the same posture row; the UPDATE of the second carries only the columns
  that differ from what it loaded, so the row keeps the first one's status under
  the second one's finding. The comment in `_commit_finding` says of this race
  that the current state stays correct.
- `agent_log_fork` (`agent_audit.py`, `record_action`). The latest action is
  read without a lock: two overlapping drafts chain to the same one, the head
  loses a count, and `verify_chain` reports "tampering shapes" for ever.
- `sign_off_renewed` (`attestation.py`). A sign-off repeated with the same words
  changes no column, so nothing is written, `updated_at` stays, and the policy
  asks for a renewal that was given.
- `telemetry_exposure` (`secondary.py`). A network interface that cannot be read
  is passed over, and the machine is reported as not reachable from outside.

Write path and schedule runner:

- `now` is read once per tick, so a claim late in a slow tick takes a lease that
  has already run out, against the comment on LEASE_SECONDS.
- Two concurrent transitions of a cell leave two open history intervals.
- When `uq_posture_key` collides instead of the key, the handler finds no winner
  and `run_batch` records ERROR over a verdict that was evaluated.
- A record under the pre-hash key never goes stale, so it answers every later
  request.
- A scheduled run only counts a failed item: a cell never assessed keeps no
  posture row. A batch that is twice the victim of a deadlock loses its cell the
  same way.
- The default external id carries the status and never ages: a control that
  fails, is fixed and fails again is skipped as ingested.

Logs:

- A replica's clock ahead of another's makes later appends chain to the same
  record although they do not overlap. A log older than the head gets a head
  that counts one. A tenant's first two drafts can both be roots, which the fork
  check skips.
- A line torn by a full disk or a killed process is continued by the next append,
  whose artifact is then unreadable although `store()` returned.
- A listing that fails is used as it is, and artifacts that are there are
  reported missing. The telemetry is not hashed again: only the recorded hash is
  compared. The docstring of `integrity.py` says that any edit of an evidence row is
  detected: a row whose `record_hash` is empty, or was cleared, is not checked, nor
  are columns the hash does not cover. A report names
  fifty rows and counts the others.
- `proof` builds the tree of today's rows: once another row commits, the
  proof of an anchored record leads to a root no anchor has.

Connectors:

- After the first cooldown a failed probe leaves the circuit closed:
  `_opened_at` is set only when it is zero and only a success clears it. A 403
  or 404 counts as a failure of the service, and a breaker is shared by all
  tenants.
- A collection of exactly `max_pages` pages is refused as one that exceeds them. A
  next link whose URL has a comma or a semicolon reads as none, since the header is
  split at both, and the pages so far are returned as the whole.
- Overlapping syncs leave both their items: a DELETE does not see rows committed
  after it began. The state row keeps the columns that looked unchanged to the
  last sync. A collection that failed reports status ok: the handler that sets
  "degraded" never runs.
- Some calls through the registry (`GET /connectors`, assessments, discovery, the
  resolver) do not ask `live_allowed`.

Figures and governance:

- `priorities` counts a waived failure's weight in its denominator and
  `compliance_summary` does not: an estate whose failures are all waived scores
  100 in one and nothing in the other.
- Two overlapping policy runs each add an open finding; a passing policy's
  finding is stored resolved and never found again, so every rerun adds one. A
  decision "not_applicable" is written as a failure. `update_finding` takes any
  lifecycle: a finding of a passing policy can be opened again, and then stays open
  until the next run, or beside a second one.
  The posture row may mix the status of one with the finding of the other.
- Two calls for one system make two risks; a system whose name ends another's is
  linked to the other's entry; an escalation writes an impact computed from its
  list over a higher one; a rerun raises the same entries again. An entry whose
  title or category was edited is no longer found as its system's, and the next
  projection makes another.
- A put that starts before the open interval leaves two open intervals.

Verdicts:

- Probes that take a part for the whole (`Presumes`): CloudTrail, GuardDuty and
  the interfaces of an Azure machine when some cannot be read; a range of more
  than 4096 ports counts as every port; Snyk's first page is all its issues; any
  protected branch of a GitLab project protects the default one; a Jira status
  that contains "approv" is an approval; the host commands of the SSH connector end
  in `|| true`. The Azure machine, Snyk, GitLab and Jira can pass against the
  facts (`Lenient`); the others err towards failing.
- A setting that is missing from an answer reads as off, and a missing list as an
  empty one. Where a check wants the setting on this errs towards failing; where it
  wants it off, or wants the list to hold nothing bad, it passes: public access of
  databases and servers, public addresses and interfaces of machines, keys of the
  root account, policies attached to users, console access, open ports of firewalls
  and security groups. A GitHub repository that does not say its default branch is
  asked about "main"; a Splunk index without `disabled` counts as logging.
- Rules of firewalls and security groups are read without their protocol, so one
  that lets in ICMP alone counts as open ports, which errs towards failing; rules
  that deny are not read, whatever their priority. The members of a list are modelled
  whole: in the code an AWS key without a date counts as new, a scanner's finding
  without a severity as not critical, a rule without a direction or ports as
  opening nothing.
- Policies: a nested field that is missing and a collection that is no list count
  as nothing, so an `all` over them passes; names of functions and declared
  signals are not guarded (`Unguarded`); a requirement is followed for one link
  (`Alone`); loading validates on no evidence and misses what a short circuit
  hides; an unknown severity ranks lowest. A field of the evidence with the name of
  a policy's parameter takes its place (`evaluator.py`): the model keeps them apart.
- Expressions: anchors apply to the whole pattern and `{n}` is literal; a string
  token with a bracket's text is taken for the bracket; lists may be indexed from
  the end and by a boolean; `true` equals 1; `||` and `&&` do not absorb errors;
  `has()` lets an error through that is Python's, such as that of comparing a list
  with a number, and is no answer then.
- Documents of standards: a fingerprint stands for rule and line in SARIF;
  CycloneDX vulnerabilities without an id, and SPDX packages with one name and
  version, are one; a key of the former format suppresses every component's
  finding; a verdict after the first of an id without status is skipped
  (`Sticks`); the first rating of an id counts (`Rerated`); an empty signature or
  a bare certificate counts as signed (`Hollow`); OCSF "fatal" is recorded as
  medium; two standards with one unmapped reference share a key.
- A tie between a hard and a soft edge: a control is reported "weakened" though a
  hard failure of the same severity reaches it. Names in a simulation's question
  are not brought to canonical spelling, as the graph's are; the run asks
  canonically.

HTTP surface and enforcement:

- When every declared key entry is refused, authentication is off outside
  production; ChangesAreWarranted excludes that.
- `set_mode` reads, changes and writes without a lock: one of two overlapping
  switches is lost, or their texts mix and leave a file that cannot be parsed.
  While the file is empty readers see no hosts; a process killed then leaves it
  empty and every later switch is refused. Two switches in one tick with texts
  of one length leave the cache with the first.
- A batch of decision logs with a malformed entry is refused half way; the node
  sends it again and what came before is counted twice, though the docstring
  says that nothing is ever raised. An entry whose host header is a list or an object
  fails after it was counted for its node and before its host.

Audits, documents, trust:

- A review that repeats what it loaded writes nothing, so another's later
  decision stays although both were acknowledged. An audit whose creation dies
  between its commits has no checklist, for ever; a deletion during the seeding
  leaves lines of no audit; evidence requests are accepted for audits that do not
  exist. A refresh that read an older posture may commit last. `readiness_pct`
  rounds 99.5 up to 100.
- A deletion that overlaps a new upload of the document leaves hits of no
  document, which still count as evidence; two overlapping uploads double them;
  an upload discards confirmations. Deleting a hit or a document leaves the
  attestation it gave rise to. The owner of a non_compliant attestation counts as
  signing off in the owner's role. `/resolve` accepts a sign-off of any age. Hits
  of the lexicon (0.5) stay below the least confidence accepted (0.6). Nothing
  signs documents.
- A platform's sync stops at twenty pages without saying so, and counts a page of
  another shape as empty; the age of an attestation is fixed at the sync; two
  tests of one platform count as two sources; attestations that are all errors
  are told as a pass; overlapping syncs of a platform double its rows.
- Evidence of a demo collection counts in full for a connector that could go
  live; a lane that drops out raises the composite of the others.

## 8. Not modelled

- Policy authoring (draft, approve, activate), connector instances, the health
  cache, drift, trends and freshness rules, remediation optimizer, fragility,
  the telemetry plane of the resolver: planned, section 2.
- The crawler: nothing in the repository calls it.
- The dispatch of obligations and the follow-through lane of trust: nothing
  fills or calls them.
- Catalogues and reporting: lookup and presentation; nothing interleaves.
- Asset discovery and health checks of connectors; listings and exports of
  audits, documents and enforcement: they only read, and no decision follows.
- Of the expression language doubles, conversions, `lower` and `upper`, the order of strings and
  lists, and the lexer; of OCSF the telemetry of configuration events.
- Content-Security-Policy and the fixed security headers: constants.
- Configuration and start-up checks: read once; the settings a model depends on
  are its constants.
- SQLite's retry on a locked database: the models are of the PostgreSQL
  deployment, where rows and keys make transactions wait.
- Hash functions, HMACs and signatures: taken as injective and unforgeable.
