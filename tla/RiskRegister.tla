---------------------------- MODULE RiskRegister ----------------------------
(***************************************************************************)
(* The risk register, app/services/grc_tprm.py, and the two flows of       *)
(* app/services/integration.py that write to it: ai_system_to_risk gives a *)
(* system its entry, escalate_risks_from_threat raises impacts.            *)
(*                                                                         *)
(* Every entry is committed on its own.  A call looks at the register in   *)
(* one step and writes in later ones.  An entry is a system's when its     *)
(* category is that of AI governance and the system's name ends its title; *)
(* EndsWith says which titles end with which names.  Anyone may enter such *)
(* an entry, rename it, move it to another category or link it to another  *)
(* control.  The threat pressure is there: without it an escalation does   *)
(* nothing.                                                                *)
(***************************************************************************)
EXTENDS Naturals, Sequences, FiniteSets

CONSTANTS Systems,   \* AI systems
          EndsWith,  \* <<s, t>>: the title for s ends with the name of t
          Calls,     \* requests in progress
          MaxCalls,  \* bound: requests in all
          MaxRisks,  \* bound: entries the register may hold
          MaxImpact, \* 5
          None

RegisterAssumption ==
  /\ EndsWith \subseteq Systems \X Systems
  /\ \A s \in Systems : <<s, s>> \in EndsWith
  /\ MaxImpact \in Nat \ {0}

VARIABLES risk,    \* id -> [system, vulnerable, impact], or None once deleted:
                   \* the system its title and category name, or None, and
                   \* whether its control is one of vulnerability management
          call,    \* call -> what it has still to do
          linked,  \* history variable: <<system, id>>, the answers "linked" whose
                   \* entry nobody has since deleted, renamed or moved
          begun    \* calls begun

vars == <<risk, call, linked, begun>>

Ids     == 1..Len(risk)
Entries == {i \in Ids : risk[i] # None}
Active  == {k \in Calls : call[k] # None}

Init ==
  /\ risk = <<>>
  /\ call = [k \in Calls |-> None]
  /\ linked = {}
  /\ begun = 0

MayBegin(k) ==
  /\ call[k] = None /\ begun < MaxCalls
  /\ begun' = begun + 1

Enter(system, vulnerable, impact) ==
  risk' = Append(risk, [system |-> system, vulnerable |-> vulnerable, impact |-> impact])

-----------------------------------------------------------------------------
\* ai_system_to_risk.

\* MUTANT: any entry of the category will do.
EntryForAnyone(s) == {i \in Entries : risk[i].system # None}

EntryFor(s) ==
  {i \in Entries : risk[i].system # None /\ <<risk[i].system, s>> \in EndsWith}

Project(k, s) ==
  /\ MayBegin(k)
  /\ \/ /\ \E i \in EntryFor(s) : linked' = linked \cup {<<s, i>>}
        /\ UNCHANGED call
     \/ /\ EntryFor(s) = {}
        /\ call' = [call EXCEPT ![k] = [todo |-> "enter", system |-> s, rows |-> {}]]
        /\ UNCHANGED linked
  /\ UNCHANGED risk

\* The impact comes from the band of the residual privacy risk.
Link(k) ==
  /\ call[k] # None /\ call[k].todo = "enter" /\ Len(risk) < MaxRisks
  /\ \E n \in 1..MaxImpact : Enter(call[k].system, FALSE, n)
  /\ linked' = linked \cup {<<call[k].system, Len(risk) + 1>>}
  /\ call' = [call EXCEPT ![k] = None]
  /\ UNCHANGED begun

-----------------------------------------------------------------------------
\* escalate_risks_from_threat.

Escalate(k) ==
  /\ MayBegin(k)
  /\ call' = [call EXCEPT ![k] =
                [todo |-> "raise", system |-> None,
                 rows |-> {<<i, risk[i].impact>> : i \in
                             {j \in Entries : /\ risk[j].vulnerable
                                              /\ risk[j].impact < MaxImpact}}]]
  /\ UNCHANGED <<risk, linked>>

Raised(impact) == impact + 1

\* The impact is computed from the list, the entry is written as it is now.
Raise(k) ==
  /\ call[k] # None /\ call[k].todo = "raise"
  /\ \E row \in call[k].rows :
       /\ row[1] \in Entries
       /\ risk' = [risk EXCEPT ![row[1]].impact = Raised(row[2])]
       /\ call' = [call EXCEPT ![k].rows = @ \ {row}]
  /\ UNCHANGED <<linked, begun>>

\* An entry that is gone is skipped, or fails the call if it was the first.
Skip(k) ==
  /\ call[k] # None /\ call[k].todo = "raise"
  /\ \E row \in call[k].rows :
       /\ row[1] \notin Entries
       /\ \E left \in {{}, call[k].rows \ {row}} :
            call' = [call EXCEPT ![k].rows = left]
  /\ UNCHANGED <<risk, linked, begun>>

Escalated(k) ==
  /\ call[k] # None /\ call[k].todo = "raise" /\ call[k].rows = {}
  /\ call' = [call EXCEPT ![k] = None]
  /\ UNCHANGED <<risk, linked, begun>>

-----------------------------------------------------------------------------
\* RiskService: create, update and delete, at any time.

Create ==
  /\ Len(risk) < MaxRisks
  /\ \E s \in Systems \cup {None}, v \in BOOLEAN, n \in 1..MaxImpact : Enter(s, v, n)
  /\ UNCHANGED <<call, linked, begun>>

\* The answers that name an entry other than i.
Elsewhere(i) == {answer \in linked : answer[2] # i}

\* A patch may set every field; one that leaves the entry to its system leaves
\* the answers as they are.
Update(i) ==
  /\ \E s \in Systems \cup {None}, v \in BOOLEAN, n \in 1..MaxImpact :
       /\ risk' = [risk EXCEPT ![i] = [system |-> s, vulnerable |-> v, impact |-> n]]
       /\ linked' = IF s = risk[i].system THEN linked ELSE Elsewhere(i)
  /\ UNCHANGED <<call, begun>>

Delete(i) ==
  /\ risk' = [risk EXCEPT ![i] = None]
  /\ linked' = Elsewhere(i)
  /\ UNCHANGED <<call, begun>>

\* The bounds are reached.
Quiet ==
  /\ Len(risk) = MaxRisks
  /\ begun = MaxCalls \/ Active = Calls
  /\ \A k \in Active : call[k].todo = "enter"
  /\ UNCHANGED vars

Next ==
  \/ \E k \in Calls : \/ \E s \in Systems : Project(k, s)
                      \/ Link(k) \/ Escalate(k) \/ Raise(k)
                      \/ Skip(k) \/ Escalated(k)
  \/ Create
  \/ \E i \in Entries : Update(i) \/ Delete(i)
  \/ Quiet

Spec == Init /\ [][Next]_vars

-----------------------------------------------------------------------------
\* A system "becomes a risk-register entry, linked back to the system": the
\* entry that an answer "linked" names is there and is the system's own until
\* someone deletes it, renames it or moves it to another category, however
\* projections, escalations from older lists and edits overlap.
LinkedHasItsRisk ==
  \A answer \in linked : answer[2] \in Entries /\ risk[answer[2]].system = answer[1]
=============================================================================
