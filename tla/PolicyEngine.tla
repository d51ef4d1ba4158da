---------------------------- MODULE PolicyEngine ----------------------------
(***************************************************************************)
(* Policies as code (policy_as_code/engine.py): a policy is rules over the *)
(* evidence of its control and over other controls; a set of policies is   *)
(* loaded, then all of them are decided together.  Rules are written in a  *)
(* language of which the engine asks only what the constants name.  The    *)
(* parameters of a policy are part of the expressions that name them: a    *)
(* field of the evidence under a parameter's name, which takes its place,  *)
(* is left out.                                                            *)
(***************************************************************************)
EXTENDS Naturals

CONSTANTS
  Texts,          \* the expressions of the policies
  Reports,        \* what may be reported of a control: signals' values
  Missing,        \* a field that is not there
  Outcome(_, _),  \* what an expression says of a report: "yes", "no" or "raised"
  Fields(_),      \* the fields it reads, by its text
  Ambiguous(_),   \* whether it calls a function that has the name of a field it reads
  Consults(_, _)  \* the fields evaluating it over a report asks for

VARIABLES policies,  \* control -> [rules, escalation, requires, signals, base]
          evidence,  \* control -> its report
          decisions, \* control -> [status, severity], empty before evaluate_all
          loaded     \* "written", "loaded", "refused" or "decided"

engine == <<policies, evidence, decisions, loaded>>

\* Evaluating an expression asks for no field its text does not show.
EngineAssumption ==
    \A e \in Texts : \A report \in Reports : Ambiguous(e) \/ Consults(e, report) \subseteq Fields(e)

\* Policies have been written, in the language, and evidence has been reported.
EngineInit ==
    /\ DOMAIN evidence = DOMAIN policies
    /\ \A c \in DOMAIN policies :
          /\ evidence[c] \in Reports
          /\ \A r \in policies[c].rules \cup policies[c].escalation : r.when \in Texts
    /\ decisions = <<>> /\ loaded = "written"

-----------------------------------------------------------------------------
\* Loading.  A policy is refused when an expression raises over no evidence:
\* what a short circuit or an empty list hides is not reached.

NoEvidence == [n \in {} |-> Missing]
Valid(p) == \A x \in p.rules \cup p.escalation : Outcome(x.when, NoEvidence) # "raised"

Inferred == {"inferred"}
\* Undeclared signals are those the rules read.
Signals(p) == IF p.signals # Inferred THEN p.signals
              ELSE UNION {Fields(r.when) : r \in p.rules}

LoadPolicy ==
    /\ loaded = "written"
    /\ loaded' = IF \A c \in DOMAIN policies : Valid(policies[c]) THEN "loaded" ELSE "refused"
    /\ UNCHANGED <<policies, evidence, decisions>>

-----------------------------------------------------------------------------
\* Deciding.

SevOrder == [info |-> 0, low |-> 1, medium |-> 2, high |-> 3, critical |-> 4]
SeverityRank(word) == IF word \in DOMAIN SevOrder THEN SevOrder[word] ELSE 0

\* MUTANT: a signal that is reported empty-handed counts as observed.
AbsentKeys(p, e) == {s \in Signals(p) : s \notin DOMAIN e}

IsAbsent(e, s) == s \notin DOMAIN e \/ e[s] = Missing
AbsentSignals(p, e) == {s \in Signals(p) : IsAbsent(e, s)}

Failed(p, e) == {r \in p.rules : Outcome(r.when, e) # "yes"}

\* The base severity, unless a rule that failed or an escalation is above it:
\* then the highest.  An escalation that raises is skipped.
Severity(p, e) ==
    LET raising == {x \in p.escalation : Outcome(x.when, e) = "yes"}
        said == {x.severity : x \in Failed(p, e) \cup raising}
        above == {s \in said : SeverityRank(s) > SeverityRank(p.base)}
    IN IF above = {} THEN p.base
       ELSE CHOOSE s \in above : \A t \in above : SeverityRank(t) <= SeverityRank(s)

Decision(status, severity) == [status |-> status, severity |-> severity]

\* composed: the status of the other controls is looked at.
Evaluate(p, e, composed, depStatus) ==
    LET known == p.requires \cap DOMAIN depStatus
        failing == composed /\ \E c \in known : depStatus[c] \in {"fail", "error"}
        unassessed == composed /\ \E c \in known : depStatus[c] = "not_applicable"
        unknown == composed /\ known # p.requires
    IN CASE AbsentSignals(p, e) # {} -> Decision("not_applicable", "info")
         [] AbsentSignals(p, e) = {} /\ (\E r \in p.rules : Outcome(r.when, e) = "raised")
              -> Decision("error", "info")
         [] OTHER ->
              IF Failed(p, e) = {} /\ ~failing /\ unassessed THEN Decision("not_applicable", "info")
              ELSE IF Failed(p, e) = {} /\ ~failing /\ ~unknown THEN Decision("pass", "info")
              ELSE Decision("fail", Severity(p, e))

\* The first pass decides every control by itself; requirements are then held
\* against what the first pass said of them.
First(c) == Evaluate(policies[c], evidence[c], FALSE, <<>>)

EvaluateAll ==
    /\ loaded = "loaded"
    /\ LET depStatus == [c \in DOMAIN policies |-> First(c).status]
       IN decisions' = [c \in DOMAIN policies |->
                          Evaluate(policies[c], evidence[c], TRUE, depStatus)]
    /\ loaded' = "decided"
    /\ UNCHANGED <<policies, evidence>>

EngineNext == LoadPolicy \/ EvaluateAll

EngineSpec == EngineInit /\ [][EngineNext]_engine

-----------------------------------------------------------------------------
\* What a decision may rest on.

\* Where the guard for absent signals does not reach: the author declared the
\* signals, or a field has the name of a function the rule calls.
Unguarded(p) == p.signals # Inferred \/ \E r \in p.rules : Ambiguous(r.when)

Observed(c) ==
    \A r \in policies[c].rules : \A n \in Consults(r.when, evidence[c]) : ~IsAbsent(evidence[c], n)

\* A requirement holds, unless it fails for its own requirements only: a chain
\* of requirements is followed for one link.
Alone(d) == First(d).status = "pass" /\ policies[d].requires # {}
RequirementsHold(c) ==
    \A d \in policies[c].requires :
        d \in DOMAIN policies /\ (decisions[d].status = "pass" \/ Alone(d))

\* A control passes only when every field its rules came to ask for was
\* observed, each of them holds, and what it requires passes too; one that
\* fails is no less severe than a rule of its that failed or than its own base
\* (Policy.evaluate: "we could not observe this" is not "it is fine").
PassIsEarned ==
    \A c \in DOMAIN decisions :
        /\ decisions[c].status = "pass" =>
             /\ Observed(c) \/ Unguarded(policies[c])
             /\ \A r \in policies[c].rules : Outcome(r.when, evidence[c]) = "yes"
             /\ RequirementsHold(c)
        /\ decisions[c].status = "fail" =>
             /\ \A r \in policies[c].rules :
                   Outcome(r.when, evidence[c]) # "yes" =>
                      SeverityRank(r.severity) <= SeverityRank(decisions[c].severity)
             /\ SeverityRank(policies[c].base) <= SeverityRank(decisions[c].severity)

=============================================================================
