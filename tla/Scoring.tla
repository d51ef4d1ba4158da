------------------------------- MODULE Scoring -------------------------------
(***************************************************************************)
(* Waivers, app/services/waivers.py, and the figures that are computed     *)
(* from posture rows and waivers: the compliance summary of                *)
(* app/services/assessment.py and the remediation queue of                 *)
(* app/services/remediation.py.                                            *)
(*                                                                         *)
(* A posture row is a cell with a status and a severity weight; an         *)
(* assessment, modelled in Assessment, may write any.  A request that      *)
(* lists waivers loads them in one step and commits the changes of         *)
(* _refresh_status in another; revoking and creating are one step each.    *)
(* Scores are kept as fractions, so their rounding is left out, and the    *)
(* criticality weights are doubled, so that they are whole.                *)
(***************************************************************************)
EXTENDS Integers, FiniteSets, FiniteSetsExt

CONSTANTS Cells,        \* <<control, asset>> of the posture rows
          Waivers,      \* waiver ids
          Terms,        \* <<control, asset>> a waiver may be created for
          Expiries,     \* values of expires_at
          Weights,      \* severity weights
          Criticality,  \* twice the criticality weight of each asset
          AnyAsset,     \* asset_id is null
          Never,        \* expires_at is null
          MaxClock, MaxListings

ScoringAssumption ==
  /\ Expiries \subseteq Nat \cup {Never}
  /\ Weights \subseteq Nat
  /\ \A t \in Terms : t = <<t[1], t[2]>>
  /\ MaxClock \in Nat

VARIABLES posture,   \* cell -> [status, weight], for the cells that have a row
          waiver,    \* id -> [term, expires, status], for those created
          listing,   \* the waivers a listing is about to mark expired
          listings,  \* listings begun
          clock

vars == <<posture, waiver, listing, listings, clock>>

Statuses == {"pass", "fail", "error", "not_applicable", "pending"}

Some(f, key, value) == [k \in DOMAIN f \cup {key} |-> IF k = key THEN value ELSE f[k]]

-----------------------------------------------------------------------------
\* Waivers in force.

Lapsed(w) == waiver[w].expires # Never /\ waiver[w].expires < clock

\* The status is stored, and nothing but a listing stores that a waiver
\* lapsed: the clock is read as well.
InForce(w) == waiver[w].status = "active" /\ ~Lapsed(w)

\* active_for: the rows of the control, one of which fits the asset.
ActiveFor(control, asset) ==
  {w \in DOMAIN waiver :
     /\ waiver[w].term[1] = control
     /\ InForce(w)
     /\ waiver[w].term[2] = AnyAsset \/ waiver[w].term[2] = asset}

\* MUTANT: a waiver for an asset is indexed under its control alone.
CoversByControl(control, asset) ==
  \E w \in DOMAIN waiver : InForce(w) /\ waiver[w].term[1] = control

\* active_index and WaiverIndex.covers.
Covers(control, asset) ==
  LET allAssets == {waiver[w].term[1] : w \in {v \in DOMAIN waiver :
                      InForce(v) /\ waiver[v].term[2] = AnyAsset}}
      specific  == {waiver[w].term : w \in {v \in DOMAIN waiver :
                      InForce(v) /\ waiver[v].term[2] # AnyAsset}}
  IN  control \in allAssets \/ <<control, asset>> \in specific

\* MUTANT: a waiver takes out the row whatever its status.
WaivedAnyStatus(cell) == Covers(cell[1], cell[2])

Waived(cell) == posture[cell].status = "fail" /\ Covers(cell[1], cell[2])

-----------------------------------------------------------------------------
\* compliance_summary.

NoScore == <<0, 0>>

Fraction(part, whole) == IF whole = 0 THEN NoScore ELSE <<part, whole>>

AtLeast(a, b) == a[1] * b[2] >= b[1] * a[2]

WeightOf(cells) == SumFunctionOnSet([c \in cells |-> posture[c].weight], cells)

\* A waived failure is left out of every figure but "waived".
Counted == {c \in DOMAIN posture : ~Waived(c)}

Having(cells, statuses) == {c \in cells : posture[c].status \in statuses}

ComplianceScore ==
  Fraction(Cardinality(Having(Counted, {"pass"})),
           Cardinality(Having(Counted, Statuses \ {"not_applicable"})))

RiskWeightedScore ==
  LET most == WeightOf(Having(Counted, {"pass", "fail"}))
  IN  Fraction(most - WeightOf(Having(Counted, {"fail"})), most)

-----------------------------------------------------------------------------
\* RemediationService.priorities: its denominator counts the waived failures.

Applicable == WeightOf(Having(DOMAIN posture, {"pass", "fail"}))

Queue == {c \in Having(DOMAIN posture, {"fail"}) : ~Covers(c[1], c[2])}

Priority(cell) == posture[cell].weight * Criticality[cell[2]]

\* The first n of the queue: rows of equal priority come in any order.
Tops(n) ==
  {top \in SUBSET Queue :
     /\ Cardinality(top) = IF n < Cardinality(Queue) THEN n ELSE Cardinality(Queue)
     /\ \A c \in top, d \in Queue \ top : Priority(c) >= Priority(d)}

Projected(top) ==
  Fraction(Applicable - (WeightOf(Queue) - WeightOf(top)), Applicable)

-----------------------------------------------------------------------------
\* Steps.

Init ==
  /\ posture = [c \in {} |-> 0] /\ waiver = [w \in {} |-> 0]
  /\ listing = {} /\ listings = 0 /\ clock = 0

Assess(cell) ==
  /\ \E s \in Statuses, n \in Weights :
       posture' = Some(posture, cell, [status |-> s, weight |-> n])
  /\ UNCHANGED <<waiver, listing, listings, clock>>

\* expires_at comes from the request and may lie in the past.
Create(w) ==
  /\ w \notin DOMAIN waiver
  /\ \E t \in Terms, e \in Expiries :
       waiver' = Some(waiver, w, [term |-> t, expires |-> e, status |-> "active"])
  /\ UNCHANGED <<posture, listing, listings, clock>>

Revoke(w) ==
  /\ w \in DOMAIN waiver
  /\ waiver' = [waiver EXCEPT ![w].status = "revoked"]
  /\ UNCHANGED <<posture, listing, listings, clock>>

\* The rows a listing loads while they are active and past their expiry.
List ==
  /\ listing = {} /\ listings < MaxListings
  /\ listing' = {w \in DOMAIN waiver : waiver[w].status = "active" /\ Lapsed(w)}
  /\ listings' = listings + 1
  /\ UNCHANGED <<posture, waiver, clock>>

\* MUTANT: the rows whose expiry was only looked at are written back as read.
ListCommitsTheRest ==
  /\ listing # {}
  /\ waiver' = [w \in DOMAIN waiver |->
                  [waiver[w] EXCEPT !.status = IF w \in listing THEN "expired"
                                                                ELSE "active"]]
  /\ listing' = {}
  /\ UNCHANGED <<posture, listings, clock>>

\* The end of the request writes the status column of the changed rows,
\* whatever it holds by now.
ListCommits ==
  /\ listing # {}
  /\ waiver' = [w \in DOMAIN waiver |->
                  IF w \in listing THEN [waiver[w] EXCEPT !.status = "expired"]
                                   ELSE waiver[w]]
  /\ listing' = {}
  /\ UNCHANGED <<posture, listings, clock>>

Tick ==
  /\ clock < MaxClock
  /\ clock' = clock + 1
  /\ UNCHANGED <<posture, waiver, listing, listings>>

Next ==
  \/ \E cell \in Cells : Assess(cell)
  \/ \E w \in Waivers : Create(w) \/ Revoke(w)
  \/ List \/ ListCommits \/ Tick

Spec == Init /\ [][Next]_vars

-----------------------------------------------------------------------------
\* The queue promises what fixing it gives: when the rows of its head pass,
\* its score is the one that was projected, and what still counts as failing
\* is what active_for finds no waiver for, although the scores ask the index.
ProjectionIsExact ==
  \A n \in 0..2 : \A top \in Tops(n) :
    LET fixed == [c \in DOMAIN posture |->
                    IF c \in top THEN [posture[c] EXCEPT !.status = "pass"]
                                 ELSE posture[c]]
        failing == {c \in DOMAIN fixed :
                      fixed[c].status = "fail" /\ ActiveFor(c[1], c[2]) = {}}
    IN  Projected(top) = Fraction(Applicable - WeightOf(failing), Applicable)

\* Accepting a risk never lowers a score of the summary: a new waiver leaves
\* it as it is, raises it, or leaves nothing to score.
WaiverNeverLowers ==
  [][(\E w \in Waivers : Create(w)) =>
       /\ AtLeast(ComplianceScore', ComplianceScore)
       /\ AtLeast(RiskWeightedScore', RiskWeightedScore)]_vars

\* A waiver that was revoked or has lapsed is never in force again, whatever
\* a listing writes over it.
EndedForGood ==
  [][\A w \in DOMAIN waiver : ~InForce(w) => ~InForce(w)']_vars
=============================================================================
