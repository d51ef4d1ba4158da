------------------------------ MODULE MCWriters ------------------------------
(* Bounds for model-checking the services whose transactions replace or      *)
(* update rows other transactions hold, and the scores made of such rows:    *)
(* PolicyFindings, RiskRegister, ConnectorSync and Trust.  They share no     *)
(* rows; one behaviour exercises one of them, the others stay as they began. *)
EXTENDS ConnectorSync, SequencesExt

CONSTANTS c1, c2, New,
          Order, Runs, MaxRuns, MaxTriage,
          Systems, EndsWith, RegisterCalls, MaxCalls, MaxRisks, MaxImpact,
          vanta, drata, hub, Measures, Platforms, Declares, Speaks, Crosswalks, Reports, Connectors, Policies,
          Traffic, GrcCalls, Days, MaxDay, MaxSteps, MaxPages

VARIABLES part,
          finding, posture, pos, decided, found, cell, runsBegun, triaged, runsOverlapped, reopened,
          risk, call, linked, riskBegun,
          attested, request, connected, evidence, verdicts, traffic, day, steps, reported, crossed

MCOrder == <<c1, c2>>

\* No system's name ends another's.
MCEndsWith == {<<s, s>> : s \in Systems}

runVars  == <<finding, posture, pos, decided, found, cell, runsBegun, triaged, runsOverlapped, reopened>>
riskVars == <<risk, call, linked, riskBegun>>
trustVars == <<attested, request, connected, evidence, verdicts, traffic, day, steps, reported, crossed>>

\* A reference that vanta maps itself and two frameworks know, one that only
\* the second framework of drata knows, and one that nobody does.
MCCrosswalks ==
  [SOC2 |-> [cc6 |-> [control |-> c1, quality |-> "exact"]],
   CIS |-> [cc6 |-> [control |-> c2, quality |-> "partial"],
            s5 |-> [control |-> c2, quality |-> "partial"]]]

Result(ref, status, fresh, named) ==
  [ref |-> ref, status |-> status, fresh |-> fresh, named |-> named]

MCReports ==
  {<<<<Result("cc6", "pass", 3, TRUE), Result("cc6", "odd", 3, FALSE)>>>>,
   <<<<Result("cc6", "odd", 40, TRUE)>>, <<Result("s5", "fail", None, TRUE)>>,
     <<Result("s5", "pass", 3, TRUE)>>>>,
   <<<<Result("s5", "pass", 40, TRUE), Result("x", "pass", 3, TRUE)>>, <<>>,
     <<Result("cc6", "fail", 3, TRUE)>>>>}

\* The policy as delivered, and one out of range in every field.
Delivered ==
  [status |-> [pass |-> 1000, not_applicable |-> 500, error |-> 300, fail |-> 0],
   fresh |-> 7, stale |-> 90, floor |-> 250, unknown |-> 600,
   bonus |-> <<1000, 1150, 1250>>, conflict |-> 350,
   lanes |-> [native |-> 30, inherited |-> 20, policy |-> 25, enforcement |-> 15]]
OutOfRange ==
  [Delivered EXCEPT !.fresh = 100, !.stale = 50, !.floor = 1500, !.conflict = 3000,
                    !.status["pass"] = 2000, !.lanes["native"] = 0]

Host(control, mode, requests, blocked) ==
  [control |-> control, mode |-> mode, requests |-> requests, blocked |-> blocked]
MCTraffic ==
  {{}, {Host(c1, "shadow", 8, 3), Host(c1, "enforce", 4, 0), Host(c2, "shadow", 9, 1)}}

Findings == INSTANCE PolicyFindings WITH begun <- runsBegun, overlapped <- runsOverlapped
Register == INSTANCE RiskRegister WITH Calls <- RegisterCalls, begun <- riskBegun

MCDeclares == vanta :> [cc6 |-> c1] @@ drata :> <<>>
MCSpeaks == vanta :> <<>> @@ drata :> <<"SOC2", "CIS">>
MCConnectors == hub :> {c1}
MCPolicies == {Delivered, OutOfRange}

Fusion == INSTANCE Trust WITH Requests <- GrcCalls, Controls <- Measures

ASSUME Findings!PolicyAssumption
ASSUME Register!RegisterAssumption
ASSUME SyncAssumption
ASSUME Fusion!TrustAssumption

\* Platforms that have already been synced, or not.
Reporting ==
  /\ steps = 1
  /\ \E report \in [Platforms -> Reports \cup {<<>>}] :
       /\ reported = [f \in Platforms |-> [report |-> report[f], sync |-> 0]]
       /\ attested = UNION {Fusion!Rows(f, report[f], 0) : f \in Platforms}

MCInit ==
  /\ Init /\ Findings!Init /\ Register!Init
  /\ \/ part = "sync"
     \/ part \in {"policies", "risks", "platforms", "lanes"} /\ ~canGoLive
  /\ \/ part # "lanes" /\ Fusion!Init /\ traffic = {} /\ connected = {}
     \/ part = "lanes" /\ Fusion!Quiet /\ Reporting

PolicyStep == part = "policies" /\ Findings!Next /\ UNCHANGED <<part, vars, riskVars, trustVars>>

RegisterStep == part = "risks" /\ Register!Next /\ UNCHANGED <<part, vars, runVars, trustVars>>

SyncStep == part = "sync" /\ Next /\ UNCHANGED <<part, runVars, riskVars, trustVars>>

PlatformStep ==
  part = "platforms" /\ Fusion!SyncNext /\ UNCHANGED <<part, vars, runVars, riskVars>>

LaneStep ==
  part = "lanes" /\ Fusion!LaneNext /\ UNCHANGED <<part, vars, runVars, riskVars>>

\* Trust comes to rest at its bounds.
Rest == part \in {"platforms", "lanes"} /\ UNCHANGED <<part, vars, runVars, riskVars, trustVars>>

MCNext == PolicyStep \/ RegisterStep \/ SyncStep \/ PlatformStep \/ LaneStep \/ Rest

MCSpec == MCInit /\ [][MCNext]_<<part, vars, runVars, riskVars, trustVars>>

\* Requests of one kind are interchangeable.
Requests == Permutations(Runs) \cup Permutations(RegisterCalls) \cup Permutations(Calls)

\* PolicyFindings: findings still open say what the policies last said.
OpenFindingsAreTrue == Findings!OpenFindingsAreTrue

\* RiskRegister: an answer "linked" is true until the entry is deleted.
LinkedHasItsRisk == Register!LinkedHasItsRisk

\* Trust: the inherited lane is current, heeds failures, and ages.
TrustIsEarned == Fusion!TrustIsEarned

\* Trust: where nothing new is learnt, trust never rises.
AgeNeverHelps == Fusion!AgeNeverHelps
=============================================================================
