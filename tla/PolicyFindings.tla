--------------------------- MODULE PolicyFindings ---------------------------
(***************************************************************************)
(* evaluate_policies_to_findings, app/services/integration.py: a policy    *)
(* run writes, in one transaction, a finding and a posture row for every   *)
(* policy it decided, while other runs and triage go on.                   *)
(*                                                                         *)
(* Transactions are READ COMMITTED.  A run loads a finding, adds or        *)
(* changes it, then looks for the posture row; what it changes it writes   *)
(* when it commits, and of a loaded row only the columns whose value it    *)
(* changed.  An inserted posture row is written at once, inside a          *)
(* savepoint, and its unique key makes another insert of it wait.  A run   *)
(* takes the controls in the order of the policies.  A finding is named by *)
(* its control and its place among the findings committed for it.          *)
(***************************************************************************)
EXTENDS Naturals, Sequences, FiniteSets, SequencesExt

CONSTANTS Order,     \* the controls of the policies, a sequence
          Runs,      \* policy runs
          MaxRuns,   \* bound: runs in all
          MaxTriage, \* bound: changes of a lifecycle by hand
          None,
          New        \* a posture row the run inserted

Controls   == Range(Order)
Verdicts   == {"pass", "fail", "error", "not_applicable"}
Lifecycles == {"open", "in_progress", "resolved", "risk_accepted"}
Finding    == [status : {"pass", "fail"}, lifecycle : Lifecycles]

\* What is written for a verdict: whatever is no pass is a failure, a policy that
\* does not apply too.
Recorded(verdict) ==
  IF verdict \in {"pass", "error"} THEN verdict ELSE "fail"

PolicyAssumption ==
  /\ Order \in Seq(Controls) /\ IsInjective(Order)
  /\ MaxRuns \in Nat /\ MaxTriage \in Nat
  /\ None \notin Nat \X Finding

VARIABLES finding,   \* control -> its committed findings, a sequence of rows
          posture,   \* control -> [status, finding], the committed rows
          pos,       \* steps each run has made, two for each control
          decided,   \* the verdicts of each run, as they are recorded
          found,     \* run, control -> the finding as loaded, or None
          cell,      \* run, control -> the posture row as loaded, or None
          begun,     \* runs begun
          triaged,   \* changes made by hand
          overlapped, \* history variable: two runs were once open together
          reopened   \* history variable: <<control, place, status>> of the
                     \* findings that someone set to open, as they were then

vars == <<finding, posture, pos, decided, found, cell, begun, triaged, overlapped, reopened>>

Full == 2 * Len(Order)
Idle == Full + 1

\* A run writes nothing for a policy that ended in an error.
Written(r) == {c \in Controls : decided[r][c] # "error"}

Active == {r \in Runs : pos[r] # Idle}

Fresh(r) == [c \in Controls |-> None]

Init ==
  /\ finding = [c \in Controls |-> <<>>] /\ posture = [c \in {} |-> None]
  /\ pos = [r \in Runs |-> Idle]
  /\ decided = [r \in Runs |-> [c \in Controls |-> "error"]]
  /\ found = [r \in Runs |-> Fresh(r)]
  /\ cell = [r \in Runs |-> Fresh(r)]
  /\ begun = 0 /\ triaged = 0
  /\ overlapped = FALSE
  /\ reopened = {}

-----------------------------------------------------------------------------
\* A run.

Begin(r) ==
  /\ pos[r] = Idle /\ begun < MaxRuns
  /\ overlapped' = (overlapped \/ Active # {})
  /\ begun' = begun + 1
  /\ pos' = [pos EXCEPT ![r] = 0]
  /\ \E d \in [Controls -> Verdicts] :
       decided' = [decided EXCEPT ![r] = [c \in Controls |-> Recorded(d[c])]]
  /\ UNCHANGED <<finding, posture, found, cell, triaged, reopened>>

Places(c) == 1..Len(finding[c])

OpenOf(c) == {i \in Places(c) : finding[c][i].lifecycle = "open"}

\* The posture row of c that a run can see, or that makes its insert wait.
Inserting(c) == {r \in Active : cell[r][c] = New}

At(r) == Order[pos[r] \div 2 + 1]

\* MUTANT: the open finding is not looked up.
LookAway(r) ==
  /\ pos[r] < Full /\ pos[r] % 2 = 0
  /\ pos' = [pos EXCEPT ![r] = @ + IF decided[r][At(r)] = "error" THEN 2 ELSE 1]
  /\ UNCHANGED <<finding, posture, decided, found, cell, begun, triaged, overlapped, reopened>>

\* The first half of a pass of the loop: the finding, or the next policy.
Look(r) ==
  /\ pos[r] < Full /\ pos[r] % 2 = 0
  /\ \/ /\ decided[r][At(r)] = "error"
        /\ pos' = [pos EXCEPT ![r] = @ + 2]
        /\ UNCHANGED found
     \/ /\ At(r) \in Written(r)
        /\ pos' = [pos EXCEPT ![r] = @ + 1]
        /\ \/ OpenOf(At(r)) = {} /\ UNCHANGED found
           \/ \E i \in OpenOf(At(r)) :
                found' = [found EXCEPT ![r][At(r)] = <<i, finding[At(r)][i]>>]
  /\ UNCHANGED <<finding, posture, decided, cell, begun, triaged, overlapped, reopened>>

\* The second half, get_or_create: the row is found, or inserted unless
\* another run is about to: then this one waits, and finds the winner's.
Settle(r) ==
  /\ pos[r] < Full /\ pos[r] % 2 = 1
  /\ \/ /\ At(r) \in DOMAIN posture
        /\ cell' = [cell EXCEPT ![r][At(r)] = posture[At(r)]]
     \/ /\ At(r) \notin DOMAIN posture /\ Inserting(At(r)) = {}
        /\ cell' = [cell EXCEPT ![r][At(r)] = New]
  /\ pos' = [pos EXCEPT ![r] = @ + 1]
  /\ UNCHANGED <<finding, posture, decided, found, begun, triaged, overlapped, reopened>>

NewFinding(r, c) ==
  [status    |-> decided[r][c],
   lifecycle |-> IF decided[r][c] = "fail" THEN "open" ELSE "resolved"]

\* A column is written when the value set differs from the value loaded.
Column(now, loaded, set) == IF set = loaded THEN now ELSE set

\* The row now as r, which loaded it, writes it.
Updated(r, c, now) ==
  LET loaded == found[r][c][2]
  IN  [now EXCEPT
         !.status = Column(@, loaded.status, decided[r][c]),
         !.lifecycle = IF decided[r][c] = "pass"
                       THEN Column(@, loaded.lifecycle, "resolved") ELSE @]

\* The findings of c when r has written its own.
Left(r, c) ==
  IF found[r][c] = None THEN Append(finding[c], NewFinding(r, c))
  ELSE [finding[c] EXCEPT ![found[r][c][1]] = Updated(r, c, @)]

\* The finding that r wrote for c.
FindingOf(r, c) == IF found[r][c] # None THEN found[r][c][1] ELSE Len(finding[c]) + 1

Row(r, c) ==
  IF cell[r][c] = New
  THEN [status |-> decided[r][c], finding |-> FindingOf(r, c)]
  ELSE [status  |-> Column(posture[c].status, cell[r][c].status, decided[r][c]),
        finding |-> Column(posture[c].finding, cell[r][c].finding, FindingOf(r, c))]

Forget(r) ==
  /\ pos' = [pos EXCEPT ![r] = Idle]
  /\ decided' = [decided EXCEPT ![r] = [c \in Controls |-> "error"]]
  /\ found' = [found EXCEPT ![r] = Fresh(r)]
  /\ cell' = [cell EXCEPT ![r] = Fresh(r)]
  /\ UNCHANGED <<begun, triaged, overlapped, reopened>>

Commit(r) ==
  /\ pos[r] = Full
  /\ finding' = [c \in Controls |-> IF c \in Written(r) THEN Left(r, c) ELSE finding[c]]
  /\ posture' = [c \in DOMAIN posture \cup Written(r) |->
                   IF c \in Written(r) THEN Row(r, c) ELSE posture[c]]
  /\ Forget(r)

\* The process dies or a statement fails: nothing of the run is kept.
Abort(r) ==
  /\ pos[r] # Idle
  /\ Forget(r)
  /\ UNCHANGED <<finding, posture>>

-----------------------------------------------------------------------------
\* update_finding: someone sets the lifecycle of a finding, whatever it was.
Triage(c, i) ==
  /\ triaged < MaxTriage
  /\ triaged' = triaged + 1
  /\ \E l \in Lifecycles \ {finding[c][i].lifecycle} :
       /\ finding' = [finding EXCEPT ![c][i].lifecycle = l]
       /\ reopened' = IF l = "open"
                      THEN reopened \cup {<<c, i, finding[c][i].status>>} ELSE reopened
  /\ UNCHANGED <<posture, pos, decided, found, cell, begun, overlapped>>

Done == Active = {} /\ begun = MaxRuns /\ UNCHANGED vars

Next ==
  \/ \E r \in Runs : Begin(r) \/ Look(r) \/ Settle(r) \/ Commit(r) \/ Abort(r)
  \/ \E c \in Controls : \E i \in Places(c) : Triage(c, i)
  \/ Done

Spec == Init /\ [][Next]_vars

-----------------------------------------------------------------------------
\* The open findings that a run opened, and nobody since.
Raised(c) == {i \in OpenOf(c) : \A status \in {"pass", "fail"} : <<c, i, status>> \notin reopened}

\* However runs overlap, no passing policy keeps an open finding, unless someone
\* opened that finding again while it passed: although a commit writes only the
\* columns a run saw change, the status and lifecycle of two runs never mix in
\* one row.  And "one open policy-finding per control": while runs follow one
\* another, a run updates the open finding, whatever triage does in between, and
\* a second one is open only where someone opened one again.
OpenFindingsAreTrue ==
  /\ \A c \in Controls : \A i \in OpenOf(c) :
       finding[c][i].status = "fail" \/ <<c, i, "pass">> \in reopened
  /\ ~overlapped => \A c \in Controls : Cardinality(Raised(c)) <= 1
=============================================================================
