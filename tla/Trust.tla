------------------------------- MODULE Trust -------------------------------
(***************************************************************************)
(* Trust in a control, fused from what others attest, what was collected,  *)
(* what the policies said and what enforcement saw: the GRC platforms'     *)
(* syncs (app/grc_platforms/base.py, crosswalk.py, service.py), their      *)
(* scores (grc_platforms/trust_telemetry.py), the strength of connector    *)
(* evidence (services/trust_graph.py) and the composite of the lanes       *)
(* (services/trust_telemetry.py).                                          *)
(*                                                                         *)
(* Requests run on threads.  A sync deletes a platform's attestations and  *)
(* inserts the new ones in one transaction, after the platform answered.   *)
(* Fractions are per mille, confidences percentages, ages days.            *)
(***************************************************************************)
EXTENDS Integers, Sequences, FiniteSets, FiniteSetsExt, Functions

CONSTANTS Controls,
          Platforms,
          Declares,    \* platform -> [reference -> control], its own mapping
          Speaks,      \* platform -> sequence of frameworks it declares
          Crosswalks,  \* framework -> [reference -> [control, quality]]
          Reports,     \* sequences of pages of results a platform may return
          MaxPages,    \* pages read of a report, 20
          Connectors,  \* connector -> set of controls its evidence is for
          Policies,    \* trust policies that may be in force
          Traffic,     \* what enforcement may have seen: [control, mode, requests, blocked]
          Requests,    \* requests in progress
          Days,        \* by how many days time may pass at once
          MaxDay,      \* bound: the last day considered
          MaxSteps,    \* bound: syncs, collections and verdicts
          None

Statuses == {"pass", "fail", "error", "not_applicable"}

Lanes == {"native", "inherited", "policy", "enforcement"}

Quality == [exact |-> 95, partial |-> 70, heuristic |-> 50]

\* Ages are whole days.
Results == [ref : STRING, status : STRING, fresh : Int \cup {None}, named : BOOLEAN]

\* A policy before it is brought into range; what is not is written so.
Given == [status : [Statuses -> Int], fresh : Int, stale : Int, floor : Int, unknown : Int,
          conflict : Int, bonus : [1..3 -> Nat], lanes : [Lanes -> Nat]]

Hosts == [control : Controls, mode : {"shadow", "enforce"}, requests : Nat, blocked : Nat]

TrustAssumption ==
  /\ None \notin Int /\ IsFiniteSet(Platforms)
  /\ DOMAIN Declares = Platforms
  /\ Speaks \in [Platforms -> Seq(DOMAIN Crosswalks)]
  /\ \A fw \in DOMAIN Crosswalks : \A ref \in DOMAIN Crosswalks[fw] :
       Crosswalks[fw][ref].quality \in DOMAIN Quality
  /\ Reports \subseteq Seq(Seq(Results))
  /\ Connectors \in [DOMAIN Connectors -> SUBSET Controls]
  /\ Policies \subseteq Given
  /\ \A hosts \in Traffic : IsFiniteSet(hosts) /\ hosts \subseteq Hosts
  /\ Days \subseteq Nat \ {0} /\ MaxPages \in Nat \ {0}

VARIABLES attested,  \* committed attestations
          request,   \* what each request has still to do
          connected, \* connectors that may go live and answer the health check
          evidence,  \* connector -> [live, at] of its last sync, or None
          verdicts,  \* control -> [pass, at] by the policies, or None
          traffic,   \* the counters of the enforcement plane
          day, steps,
          reported,  \* history variable: platform -> its last acknowledged [report, sync]
          crossed    \* history variable: platforms two syncs rewrote at a time

vars == <<attested, request, connected, evidence, verdicts, traffic, day, steps, reported, crossed>>

Idle == [at |-> "idle"]

Quiet ==
  /\ request = [p \in Requests |-> Idle]
  /\ connected \in SUBSET DOMAIN Connectors
  /\ evidence = [k \in DOMAIN Connectors |-> None]
  /\ verdicts = [c \in Controls |-> None]
  /\ traffic \in Traffic
  /\ day = 0
  /\ crossed = {}

Init ==
  /\ Quiet /\ steps = 0
  /\ attested = {}
  /\ reported = [f \in Platforms |-> [report |-> <<>>, sync |-> 0]]

-----------------------------------------------------------------------------
(* What a platform's results mean here. *)

\* The frameworks a platform declares are tried in order, then any other,
\* whose mapping is only guessed at.
Translated(platform, ref) ==
  LET known    == {fw \in DOMAIN Crosswalks : ref \in DOMAIN Crosswalks[fw]}
      declared == {i \in DOMAIN Speaks[platform] : Speaks[platform][i] \in known}
      first    == Crosswalks[Speaks[platform][Min(declared)]][ref]
  IN  CASE declared # {} -> [control |-> first.control, conf |-> Quality[first.quality]]
        [] declared = {} /\ known # {} ->
             [control |-> Crosswalks[CHOOSE fw \in known : TRUE][ref].control,
              conf |-> Quality["heuristic"]]
        [] OTHER -> [control |-> None, conf |-> 40]

\* The mapping a platform's profile declares comes first.
Resolved(platform, ref) ==
  IF ref \in DOMAIN Declares[platform]
  THEN [control |-> Declares[platform][ref], conf |-> 90]
  ELSE Translated(platform, ref)

\* A row: the attestation, told from others like it by where it comes from.
Attestation(platform, result, row) ==
  LET to == Resolved(platform, result.ref)
      old == result.fresh # None /\ result.fresh > 30
  IN  [platform |-> platform, row |-> row, control |-> to.control, fresh |-> result.fresh,
       status |-> IF result.status \in Statuses THEN result.status ELSE "error",
       conf |-> IF old THEN (7 * to.conf + 5) \div 10 ELSE to.conf]

\* bulk_ingest of a page; a result without an id is passed over.
Ingested(platform, page, n, sync) ==
  {Attestation(platform, page[i], <<sync, n, i>>) : i \in {j \in DOMAIN page : page[j].named}}

\* The rows made of the first pages.
Rows(platform, report, sync) ==
  UNION {Ingested(platform, report[n], n, sync) :
           n \in 1..(IF Len(report) < MaxPages THEN Len(report) ELSE MaxPages)}

-----------------------------------------------------------------------------
(* The scores. *)

Clamp(x) == IF x < 0 THEN 0 ELSE IF x > 1000 THEN 1000 ELSE x

\* A policy is brought into range before it is used.
Validated(policy) ==
  LET fresh == IF policy.fresh < 0 THEN 0 ELSE policy.fresh
  IN  [policy EXCEPT !.fresh = fresh,
                     !.stale = IF policy.stale > fresh THEN policy.stale ELSE fresh + 1,
                     !.floor = Clamp(policy.floor), !.unknown = Clamp(policy.unknown),
                     !.conflict = Clamp(policy.conflict),
                     !.status = [s \in DOMAIN policy.status |-> Clamp(policy.status[s])]]

\* Full weight while fresh, falling to the floor when stale.
Faded(age, pol) ==
  LET span == pol.stale - pol.fresh
  IN  (1000 * span - (1000 - pol.floor) * (age - pol.fresh)) \div span

Freshness(fresh, pol) ==
  CASE fresh = None -> pol.unknown
    [] fresh # None /\ fresh <= pol.fresh -> 1000
    [] fresh # None /\ fresh >= pol.stale -> pol.floor
    [] OTHER -> Faded(fresh, pol)

Signal(a, pol) ==
  (((pol.status[a.status] * Freshness(a.fresh, pol)) \div 1000) * a.conf + 50) \div 100

\* MUTANT: attestations that disagree are averaged like any others.
InheritedAveraged(atts, pol) ==
  SumFunctionOnSet([a \in atts |-> Signal(a, pol)], atts) \div Cardinality(atts)

\* _control_trust: disagreement pulls the weakest signal down, agreement
\* lifts the average.
Inherited(atts, pol) ==
  LET signals == SumFunctionOnSet([a \in atts |-> Signal(a, pol)], atts)
      n == Cardinality(atts)
      bonus == pol.bonus[IF n < 3 THEN n ELSE 3]
      lifted == (signals * bonus) \div (1000 * n)
  IN  IF Cardinality({a.status : a \in atts}) > 1
      THEN (Min({Signal(a, pol) : a \in atts}) * pol.conflict) \div 1000
      ELSE Clamp(lifted)

Live(k) == k \in connected \/ (evidence[k] # None /\ evidence[k].live)

Fresh(k) == evidence[k] # None /\ day - evidence[k].at < 30

\* _control_strength of one connector: live and fresh, live, or only a demo.
Strength(k) ==
  CASE Live(k) /\ Fresh(k) -> 1000
    [] Live(k) /\ ~Fresh(k) -> 600
    [] ~Live(k) /\ evidence[k] # None -> 300
    [] OTHER -> 0

Backing(c) == {k \in DOMAIN Connectors : c \in Connectors[k]}

Native(c) == Max({0} \cup {Strength(k) : k \in Backing(c)})

\* computed_residual of a risk the control mitigates.
Residual(inherent, c) ==
  LET left == (inherent * (10000 - 6 * Native(c)) + 5000) \div 10000
  IN  IF left < 1 THEN 1 ELSE left

Aged(age) ==
  CASE age <= 1 -> 1000
    [] age >= 30 -> 300
    [] OTHER -> 1000 - (700 * age) \div 30

Verdict(c) == IF verdicts[c].pass THEN Aged(day - verdicts[c].at) ELSE 0

Enforced(t) ==
  IF t.mode = "enforce" THEN 1000
  ELSE Max({100, 700 - (2100 * t.blocked) \div t.requests})

\* Hosts with enough traffic; the best of a control's counts.
Seen(c) == {t \in traffic : t.control = c /\ t.requests >= 5}

Attests(c) == {a \in attested : a.control = c}

\* MUTANT: a verdict that has aged out is left out.
PresentWhileFresh(c) ==
  {l \in Lanes : \/ l = "native" /\ Native(c) > 0
                 \/ l = "inherited" /\ Attests(c) # {}
                 \/ l = "policy" /\ verdicts[c] # None /\ day - verdicts[c].at < 30
                 \/ l = "enforcement" /\ Seen(c) # {}}

Present(c) ==
  {l \in Lanes : \/ l = "native" /\ Native(c) > 0
                 \/ l = "inherited" /\ Attests(c) # {}
                 \/ l = "policy" /\ verdicts[c] # None
                 \/ l = "enforcement" /\ Seen(c) # {}}

Score(l, c, pol) ==
  CASE l = "native" -> Native(c)
    [] l = "inherited" -> ((Inherited(Attests(c), pol) + 5) \div 10) * 10
    [] l = "policy" -> Verdict(c)
    [] l = "enforcement" -> Max({Enforced(t) : t \in Seen(c)})

\* unified_trust: the lanes a control has, weighted; 0 .. 100.
Composite(c, policy) ==
  LET pol == Validated(policy)
      weight == SumFunctionOnSet(pol.lanes, Present(c))
      sum == SumFunctionOnSet([l \in Present(c) |-> pol.lanes[l] * Score(l, c, pol)], Present(c))
  IN  IF weight = 0 THEN 0 ELSE (sum + 5 * weight) \div (10 * weight)

-----------------------------------------------------------------------------
(* What happens. *)

Busy(p) == request[p].at # "idle"

Step == steps < MaxSteps /\ steps' = steps + 1

\* The platform has answered: nothing is changed before it has.
Fetch(p, platform, report) ==
  /\ ~Busy(p) /\ Step
  /\ request' = [request EXCEPT ![p] = [at |-> "clear", platform |-> platform, report |-> report,
                                        sync |-> steps, found |-> {}]]
  /\ crossed' = crossed \cup {f \in {platform} :
                                \E q \in Requests : Busy(q) /\ request[q].platform = f}
  /\ UNCHANGED <<attested, connected, evidence, verdicts, traffic, day, reported>>

\* The DELETE finds the platform's rows ...
Clear(p) ==
  /\ request[p].at = "clear"
  /\ request' = [request EXCEPT ![p].at = "clearing",
                   ![p].found = {a \in attested : a.platform = request[p].platform}]
  /\ UNCHANGED <<attested, connected, evidence, verdicts, traffic, day, steps, reported, crossed>>

\* ... and has them when no other sync does.
Cleared(p) ==
  /\ request[p].at = "clearing"
  /\ \A q \in Requests \ {p} : request[q].at = "cleared" => request[q].found \cap request[p].found = {}
  /\ request' = [request EXCEPT ![p].at = "cleared", ![p].found = @ \cap attested]
  /\ UNCHANGED <<attested, connected, evidence, verdicts, traffic, day, steps, reported, crossed>>

Store(p) ==
  /\ request[p].at = "cleared"
  /\ attested' = (attested \ request[p].found)
                   \cup Rows(request[p].platform, request[p].report, request[p].sync)
  /\ reported' = [reported EXCEPT ![request[p].platform] =
                     [report |-> request[p].report, sync |-> request[p].sync]]
  /\ request' = [request EXCEPT ![p] = Idle]
  /\ UNCHANGED <<connected, evidence, verdicts, traffic, day, steps, crossed>>

\* The platform fails or the process dies: the transaction is undone.
Abandon(p) ==
  /\ Busy(p)
  /\ request' = [request EXCEPT ![p] = Idle]
  /\ UNCHANGED <<attested, connected, evidence, verdicts, traffic, day, steps, reported, crossed>>

\* A connector's credentials, guard rails or health change.
Connect(k) ==
  /\ Step
  /\ connected' = IF k \in connected THEN connected \ {k} ELSE connected \cup {k}
  /\ UNCHANGED <<attested, request, evidence, verdicts, traffic, day, reported, crossed>>

\* A connector's sync ends, live or from the demo.
Collect(k, live) ==
  /\ Step
  /\ evidence' = [evidence EXCEPT ![k] = [live |-> live, at |-> day]]
  /\ UNCHANGED <<attested, request, connected, verdicts, traffic, day, reported, crossed>>

\* A policy run materialises its verdict.
Judge(c, pass) ==
  /\ Step
  /\ verdicts' = [verdicts EXCEPT ![c] = [pass |-> pass, at |-> day]]
  /\ UNCHANGED <<attested, request, connected, evidence, traffic, day, reported, crossed>>

Pass(n) ==
  /\ day + n <= MaxDay
  /\ day' = day + n
  /\ UNCHANGED <<attested, request, connected, evidence, verdicts, traffic, steps, reported, crossed>>

SyncNext ==
  \E p \in Requests :
    \/ \E platform \in Platforms, report \in Reports : Fetch(p, platform, report)
    \/ Clear(p) \/ Cleared(p) \/ Store(p) \/ Abandon(p)

LaneNext ==
  \/ \E k \in DOMAIN Connectors : Connect(k)
  \/ \E k \in DOMAIN Connectors, live \in BOOLEAN : Collect(k, live)
  \/ \E c \in Controls, pass \in BOOLEAN : Judge(c, pass)
  \/ \E n \in Days : Pass(n)

Next == SyncNext \/ LaneNext

Spec == Init /\ [][Next]_vars

-----------------------------------------------------------------------------
\* A platform's lane is what its last acknowledged sync brought, unless two
\* of its syncs rewrote it at a time (service.py).
LaneIsLastSync ==
  \A f \in Platforms \ crossed :
    {a \in attested : a.platform = f} = Rows(f, reported[f].report, reported[f].sync)

\* A failure any platform last reported of a control leaves the control no
\* inherited trust, whatever the others say (grc_platforms/trust_telemetry.py).
FailureIsHeard ==
  \A f \in Platforms \ crossed :
    \A a \in Rows(f, reported[f].report, reported[f].sync), policy \in Policies :
      a.control # None /\ a.status = "fail" /\ Validated(policy).status["fail"] = 0 =>
        Score("inherited", a.control, Validated(policy)) = 0

\* Of two attestations that differ in age the older gives no more trust.
OlderIsNoBetter ==
  \A c \in Controls, policy \in Policies :
    \A a \in Attests(c), days \in {8, 31, 90, 400} :
      LET pol == Validated(policy)
          older == [a EXCEPT !.fresh = IF @ # None /\ @ > days THEN @ ELSE days]
      IN  a.fresh # None =>
            Inherited((Attests(c) \ {a}) \cup {older}, pol) <= Inherited(Attests(c), pol)

\* Inherited trust is earned: the lane is current, heeds failures, and ages.
TrustIsEarned == LaneIsLastSync /\ FailureIsHeard /\ OlderIsNoBetter

\* Where nothing new is learnt, trust in a control never rises and the
\* residual of a risk it mitigates never falls: stale evidence weighs less,
\* it does not drop out (trust_telemetry.py, trust_graph.py).
AgeNeverHelps ==
  [][day' # day /\ UNCHANGED <<attested, connected, evidence, verdicts, traffic>> =>
       \A c \in Controls :
         /\ \A policy \in Policies : Composite(c, policy)' <= Composite(c, policy)
         /\ \A inherent \in {1, 12, 25} : Residual(inherent, c)' >= Residual(inherent, c)]_vars
=============================================================================
