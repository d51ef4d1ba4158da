------------------------------- MODULE MCAudit -------------------------------
(* Bounds for model-checking what an auditor works with: the agents' decision *)
(* log (AgentAudit) and the audit engagements with their checklists (Audits). *)
(* They share nothing; one behaviour exercises one of them, the other stays   *)
(* as it began.                                                               *)
EXTENDS AgentAudit, TLC

CONSTANTS c1, c2, x1, f1, f2, Clerks, Controls, Frameworks, InScope, Assets, Stages, Reviews, Answers,
          MaxCallers, MaxAudits, MaxRequests, MaxMoves

VARIABLES part, audits, lines, asked, assessed, call, made, moves, clean, fresh

\* Nothing of the catalogue crosswalks to f2.
MCInScope == [f \in Frameworks |-> IF f = f1 THEN {c1} ELSE {}]

Engagements == INSTANCE Audits WITH Callers <- Clerks

ASSUME Engagements!AuditAssumption

auditVars == <<audits, lines, asked, assessed, call, made, moves, clean, fresh>>

MCInit ==
  /\ Init /\ Engagements!Init
  /\ part \in {"log", "engagements"}
  /\ \A p \in DOMAIN assessed : assessed[p] = "fail" => part = "engagements" /\ p = <<c1, x1>>

LogStep == part = "log" /\ Next /\ UNCHANGED <<part, auditVars>>

EngagementStep == part = "engagements" /\ Engagements!Next /\ UNCHANGED <<part, vars>>

MCNext == LogStep \/ EngagementStep

MCSpec == MCInit /\ [][MCNext]_<<part, vars, auditVars>>

\* Transactions are interchangeable.
Transactions == Permutations(Workers)

\* Audits: a decision changes only by a decision.
ReviewStands == Engagements!ReviewStands

\* Audits: a refreshed checklist says the worst there is.
ChecklistIsCurrent == Engagements!ChecklistIsCurrent
=============================================================================
