---------------------------- MODULE Scores_proofs ----------------------------
(***************************************************************************)
(* What is computed from posture.  The figures of Scoring: a waiver that   *)
(* has ended stays ended; the index of waivers and the query for them      *)
(* agree, so a projection is exact; and a waiver takes only failures out   *)
(* of a score.  The status over time of TemporalLog: in-order puts keep    *)
(* the intervals of a key in a chain, each ending where the next begins    *)
(* and the last one open.  In a chain at most one interval covers a        *)
(* moment, so a reader's answer does not depend on the order in which it   *)
(* looks at them, and the log implements a map from moments to values.     *)
(* The decisions of PolicyEngine, for policies written in any              *)
(* language of which EngineAssumption holds: a pass is earned.             *)
(***************************************************************************)
EXTENDS MCScores, PolicyEngine, Sums

\* What Scoring calls a sum or a number of things is what is meant here.
LEMMA SameSum ==
  ASSUME NEW f, NEW S
  PROVE  Scores!SumFunctionOnSet(f, S) = SumFunctionOnSet(f, S)
BY DEF Scores!SumFunctionOnSet, Scores!FoldFunctionOnSet, Scores!MapThenFoldSet,
       SumFunctionOnSet, FoldFunctionOnSet, MapThenFoldSet

LEMMA SameCardinality ==
  ASSUME NEW S
  PROVE  Scores!Cardinality(S) = Cardinality(S)
BY DEF Scores!Cardinality, Cardinality

Waiver == [term : Terms, expires : Expiries,
           status : {"active", "revoked", "expired"}]

\* The rows of the waivers table, the ones a listing is to mark among them.
WaiverTypeOK ==
  /\ DOMAIN waiver \subseteq Waivers
  /\ \A w \in DOMAIN waiver : waiver[w] \in Waiver
  /\ listing \subseteq DOMAIN waiver
  /\ clock \in Nat

\* The posture rows: there are finitely many of them.
RowsOK ==
  /\ IsFiniteSet(DOMAIN posture)
  /\ posture \in [DOMAIN posture -> [status : Scores!Statuses, weight : Nat]]

FiguresInv == WaiverTypeOK /\ RowsOK

\* Every step keeps the rows well formed: a listing writes to rows it loaded,
\* and none is ever removed.
LEMMA FiguresInvariant ==
  ASSUME Scores!ScoringAssumption
  PROVE  Scores!Spec => []FiguresInv
<1>1. Scores!Init => FiguresInv
  BY FS_EmptySet DEF Scores!Init, FiguresInv, WaiverTypeOK, RowsOK
<1>2. FiguresInv /\ [Scores!Next]_(Scores!vars) => FiguresInv'
  <2> SUFFICES ASSUME WaiverTypeOK, RowsOK, [Scores!Next]_(Scores!vars)
               PROVE  WaiverTypeOK' /\ RowsOK'
    BY DEF FiguresInv
  <2>1. ASSUME NEW cell \in Cells, Scores!Assess(cell) PROVE WaiverTypeOK' /\ RowsOK'
    <3>1. WaiverTypeOK'
      BY <2>1 DEF Scores!Assess, WaiverTypeOK
    <3>2. PICK s \in Scores!Statuses, n \in Weights :
            posture' = Scores!Some(posture, cell, [status |-> s, weight |-> n])
      BY <2>1 DEF Scores!Assess
    <3>3. /\ posture' = [k \in DOMAIN posture \cup {cell} |->
                           IF k = cell THEN [status |-> s, weight |-> n] ELSE posture[k]]
          /\ n \in Nat
      BY <3>2 DEF Scores!Some, Scores!ScoringAssumption
    <3>4. IsFiniteSet(DOMAIN posture \cup {cell})
      BY FS_AddElement DEF RowsOK
    <3> QED
      BY <3>1, <3>3, <3>4 DEF RowsOK
  <2>2. ASSUME NEW w \in Waivers, Scores!Create(w) PROVE WaiverTypeOK' /\ RowsOK'
    BY <2>2 DEF Scores!Create, Scores!Some, Waiver, WaiverTypeOK, RowsOK
  <2>3. ASSUME NEW w \in Waivers, Scores!Revoke(w) PROVE WaiverTypeOK' /\ RowsOK'
    BY <2>3 DEF Scores!Revoke, Waiver, WaiverTypeOK, RowsOK
  <2>4. CASE Scores!List
    BY <2>4 DEF Scores!List, WaiverTypeOK, RowsOK
  <2>5. CASE Scores!ListCommits
    BY <2>5 DEF Scores!ListCommits, Waiver, WaiverTypeOK, RowsOK
  <2>6. CASE Scores!Tick
    BY <2>6 DEF Scores!Tick, WaiverTypeOK, RowsOK
  <2>7. CASE UNCHANGED Scores!vars
    BY <2>7 DEF Scores!vars, WaiverTypeOK, RowsOK
  <2>8. QED
    BY <2>1, <2>2, <2>3, <2>4, <2>5, <2>6, <2>7 DEF Scores!Next
<1>3. QED
  BY <1>1, <1>2, PTL DEF Scores!Spec

\* A step that leaves a row's expiry alone, does not make it active and does
\* not turn the clock back cannot bring its waiver into force.
LEMMA StaysEnded ==
  ASSUME Scores!ScoringAssumption, WaiverTypeOK, WaiverTypeOK',
         NEW w \in DOMAIN waiver, w \in DOMAIN waiver',
         waiver'[w].expires = waiver[w].expires,
         waiver'[w].status = "active" => waiver[w].status = "active",
         clock <= clock'
  PROVE  ~Scores!InForce(w) => ~Scores!InForce(w)'
<1>1. waiver[w].expires \in Nat \cup {Never}
  BY DEF WaiverTypeOK, Waiver, Scores!ScoringAssumption
<1>2. Scores!Lapsed(w) => Scores!Lapsed(w)'
  BY <1>1 DEF Scores!Lapsed, WaiverTypeOK
<1>3. QED
  BY <1>2 DEF Scores!InForce

\* Revoked, marked or only past its expiry, a waiver never suppresses a
\* failure again: revoking races a listing that loaded the row while it was
\* active, and whichever commits last, the row is not active.
THEOREM WaiversEndForGood ==
  ASSUME Scores!ScoringAssumption
  PROVE  Scores!Spec => EndedForGood
<1>1. WaiverTypeOK /\ WaiverTypeOK' /\ [Scores!Next]_(Scores!vars)
        => [\A w \in DOMAIN waiver : ~Scores!InForce(w) => ~Scores!InForce(w)']_(Scores!vars)
  <2> SUFFICES ASSUME WaiverTypeOK, WaiverTypeOK', [Scores!Next]_(Scores!vars),
                      NEW w \in DOMAIN waiver
               PROVE  ~Scores!InForce(w) => ~Scores!InForce(w)'
    OBVIOUS
  <2> DEFINE Kept == /\ w \in DOMAIN waiver'
                     /\ waiver'[w].expires = waiver[w].expires
                     /\ waiver'[w].status = "active" => waiver[w].status = "active"
                     /\ clock <= clock'
  <2> SUFFICES Kept
    BY StaysEnded
  <2>0. clock \in Nat /\ waiver[w] \in Waiver
    BY DEF WaiverTypeOK
  <2>1. ASSUME NEW cell \in Cells, Scores!Assess(cell) PROVE Kept
    BY <2>0, <2>1 DEF Scores!Assess
  <2>2. ASSUME NEW v \in Waivers, Scores!Create(v) PROVE Kept
    BY <2>0, <2>2 DEF Scores!Create, Scores!Some
  <2>3. ASSUME NEW v \in Waivers, Scores!Revoke(v) PROVE Kept
    BY <2>0, <2>3 DEF Scores!Revoke, Waiver
  <2>4. CASE Scores!List
    BY <2>0, <2>4 DEF Scores!List
  <2>5. CASE Scores!ListCommits
    BY <2>0, <2>5 DEF Scores!ListCommits, Waiver
  <2>6. CASE Scores!Tick
    BY <2>0, <2>6 DEF Scores!Tick
  <2>7. CASE UNCHANGED Scores!vars
    BY <2>0, <2>7 DEF Scores!vars
  <2>8. QED
    BY <2>1, <2>2, <2>3, <2>4, <2>5, <2>6, <2>7 DEF Scores!Next
<1>2. FiguresInv => WaiverTypeOK
  BY DEF FiguresInv
<1>3. QED
  BY <1>1, <1>2, FiguresInvariant, PTL DEF Scores!Spec, EndedForGood, Scores!EndedForGood

-----------------------------------------------------------------------------
\* The two ways of asking for a waiver agree: active_for looks at the rows,
\* the scores ask an index of them.
LEMMA IndexAgrees ==
  ASSUME Scores!ScoringAssumption, WaiverTypeOK, NEW control, NEW asset
  PROVE  Scores!Covers(control, asset) <=> Scores!ActiveFor(control, asset) # {}
<1>1. \A w \in DOMAIN waiver : waiver[w].term = <<waiver[w].term[1], waiver[w].term[2]>>
  BY DEF WaiverTypeOK, Waiver, Scores!ScoringAssumption
<1> DEFINE Fits(w) == /\ w \in DOMAIN waiver /\ Scores!InForce(w)
                      /\ waiver[w].term[1] = control
                      /\ (waiver[w].term[2] = AnyAsset \/ waiver[w].term[2] = asset)
<1>2. Scores!ActiveFor(control, asset) # {} <=> \E w : Fits(w)
  BY DEF Scores!ActiveFor
<1>3. ASSUME NEW w, Fits(w) PROVE Scores!Covers(control, asset)
  <2>1. CASE waiver[w].term[2] = AnyAsset
    BY <1>3, <2>1 DEF Scores!Covers
  <2>2. CASE waiver[w].term[2] # AnyAsset
    <3>1. waiver[w].term = <<control, asset>>
      BY <1>1, <1>3, <2>2
    <3> QED
      BY <1>3, <2>2, <3>1 DEF Scores!Covers
  <2> QED
    BY <2>1, <2>2
<1>4. ASSUME Scores!Covers(control, asset) PROVE \E w : Fits(w)
  <2>1. CASE \E w \in DOMAIN waiver : /\ Scores!InForce(w) /\ waiver[w].term[2] = AnyAsset
                                      /\ waiver[w].term[1] = control
    BY <2>1
  <2>2. CASE \E w \in DOMAIN waiver : /\ Scores!InForce(w) /\ waiver[w].term[2] # AnyAsset
                                      /\ waiver[w].term = <<control, asset>>
    BY <2>2
  <2> QED
    BY <1>4, <2>1, <2>2 DEF Scores!Covers
<1> QED
  BY <1>2, <1>3, <1>4

\* The weight of cells is the sum of one function, whichever the cells.
AllWeights == [c \in DOMAIN posture |-> posture[c].weight]

LEMMA WeightIs ==
  ASSUME RowsOK, NEW cells, cells \subseteq DOMAIN posture
  PROVE  /\ IsFiniteSet(cells)
         /\ \A c \in cells : AllWeights[c] \in Nat
         /\ Scores!WeightOf(cells) = SumFunctionOnSet(AllWeights, cells)
         /\ Scores!WeightOf(cells) \in Nat
<1> DEFINE own == [c \in cells |-> posture[c].weight]
<1>1. IsFiniteSet(cells)
  BY FS_Subset DEF RowsOK
<1>2. \A c \in cells : own[c] \in Nat /\ AllWeights[c] = own[c]
  BY DEF RowsOK, AllWeights
<1>3. Scores!WeightOf(cells) = SumFunctionOnSet(own, cells)
  BY SameSum DEF Scores!WeightOf
<1> HIDE DEF own
<1>4. SumFunctionOnSet(own, cells) = SumFunctionOnSet(AllWeights, cells)
  BY <1>1, <1>2, SumAgrees
<1>5. SumFunctionOnSet(own, cells) \in Nat
  BY <1>1, <1>2, SumType
<1> QED
  BY <1>1, <1>2, <1>3, <1>4, <1>5

\* The weights of cells that share none add up.
LEMMA WeightAdds ==
  ASSUME RowsOK, NEW a, NEW b, a \subseteq DOMAIN posture, b \subseteq DOMAIN posture,
         a \cap b = {}
  PROVE  Scores!WeightOf(a \cup b) = Scores!WeightOf(a) + Scores!WeightOf(b)
<1>1. a \cup b \subseteq DOMAIN posture
  OBVIOUS
<1>2. IsFiniteSet(a) /\ IsFiniteSet(b) /\ \A c \in a \cup b : AllWeights[c] \in Nat
  BY <1>1, WeightIs
<1>3. SumFunctionOnSet(AllWeights, a \cup b)
        = SumFunctionOnSet(AllWeights, a) + SumFunctionOnSet(AllWeights, b)
  BY <1>2, SumSplits
<1> QED
  BY <1>1, <1>3, WeightIs

\* The projection is exact, for the head of the queue of any length: the rows
\* it fixes are failures no waiver covers, so what still counts as failing is
\* the rest of the queue, and the weights of the two add up to the queue's.
THEOREM ProjectionsAreExact ==
  ASSUME Scores!ScoringAssumption
  PROVE  Scores!Spec => []ProjectionIsExact
<1>1. FiguresInv => ProjectionIsExact
  <2> SUFFICES ASSUME WaiverTypeOK, RowsOK, NEW n \in 0..2, NEW top \in Scores!Tops(n)
               PROVE  LET fixed == [c \in DOMAIN posture |->
                                      IF c \in top THEN [posture[c] EXCEPT !.status = "pass"]
                                                   ELSE posture[c]]
                          failing == {c \in DOMAIN fixed :
                                        /\ fixed[c].status = "fail"
                                        /\ Scores!ActiveFor(c[1], c[2]) = {}}
                      IN  Scores!Projected(top)
                            = Scores!Fraction(Scores!Applicable - Scores!WeightOf(failing),
                                              Scores!Applicable)
    BY DEF FiguresInv, ProjectionIsExact, Scores!ProjectionIsExact
  <2> DEFINE fixed == [c \in DOMAIN posture |->
                         IF c \in top THEN [posture[c] EXCEPT !.status = "pass"]
                                      ELSE posture[c]]
             failing == {c \in DOMAIN fixed :
                           fixed[c].status = "fail" /\ Scores!ActiveFor(c[1], c[2]) = {}}
             queue == Scores!Queue
  <2>1. top \subseteq queue /\ queue \subseteq DOMAIN posture
    BY DEF Scores!Tops, Scores!Queue, Scores!Having
  <2>2. \A c \in DOMAIN posture :
          c \in queue <=> posture[c].status = "fail" /\ Scores!ActiveFor(c[1], c[2]) = {}
    BY IndexAgrees DEF Scores!Queue, Scores!Having
  <2>3. \A c \in DOMAIN posture :
          fixed[c].status = IF c \in top THEN "pass" ELSE posture[c].status
    BY DEF RowsOK
  <2>4. failing = queue \ top
    <3> HIDE DEF queue
    <3>1. DOMAIN fixed = DOMAIN posture
      OBVIOUS
    <3> HIDE DEF fixed
    <3> QED
      BY <2>1, <2>2, <2>3, <3>1
  <2> HIDE DEF failing, queue
  <2>5. Scores!WeightOf(queue) = Scores!WeightOf(top) + Scores!WeightOf(failing)
    <3>1. queue = top \cup failing /\ top \cap failing = {}
      BY <2>1, <2>4
    <3>2. top \subseteq DOMAIN posture /\ failing \subseteq DOMAIN posture
      BY <2>1, <2>4
    <3> QED
      BY <3>1, <3>2, WeightAdds
  <2>6. Scores!WeightOf(top) \in Nat /\ Scores!WeightOf(failing) \in Nat
    BY <2>1, <2>4, WeightIs
  <2>7. Scores!WeightOf(queue) - Scores!WeightOf(top) = Scores!WeightOf(failing)
    BY <2>5, <2>6
  <2>8. Scores!Projected(top)
          = Scores!Fraction(Scores!Applicable - Scores!WeightOf(failing), Scores!Applicable)
    BY <2>7 DEF Scores!Projected, queue
  <2> QED
    BY <2>8 DEF failing
<1> QED
  BY <1>1, FiguresInvariant, PTL

-----------------------------------------------------------------------------
\* What is scored against less is scored no lower.
LEMMA FractionGrows ==
  ASSUME NEW p \in Nat, NEW most \in Nat, NEW less \in Nat, less <= most
  PROVE  Scores!AtLeast(Scores!Fraction(p, less), Scores!Fraction(p, most))
<1>1. CASE less = 0
  BY <1>1 DEF Scores!AtLeast, Scores!Fraction, Scores!NoScore
<1>2. CASE less # 0
  <2>1. most # 0
    BY <1>2
  <2>2. PICK k \in Nat : most = less + k
    BY most - less \in Nat
  <2>3. p * (less + k) = p * less + p * k /\ p * k \in Nat /\ p * less \in Nat
    OBVIOUS
  <2>4. p * most >= p * less
    BY <2>2, <2>3
  <2> QED
    BY <1>2, <2>1, <2>4 DEF Scores!AtLeast, Scores!Fraction
<1> QED
  BY <1>1, <1>2

\* A new row takes no other out of force.
LEMMA CoversMore ==
  ASSUME NEW w \in Waivers, Scores!Create(w), NEW control, NEW asset,
         Scores!Covers(control, asset)
  PROVE  Scores!Covers(control, asset)'
<1>1. /\ DOMAIN waiver \subseteq DOMAIN waiver' /\ clock' = clock
      /\ \A v \in DOMAIN waiver : waiver'[v] = waiver[v]
  BY DEF Scores!Create, Scores!Some
<1>2. \A v \in DOMAIN waiver : v \in DOMAIN waiver' /\ (Scores!InForce(v) => Scores!InForce(v)')
  BY <1>1 DEF Scores!InForce, Scores!Lapsed
<1> QED
  BY <1>1, <1>2 DEF Scores!Covers

\* The two scores of the summary, of the rows that count.
ComplianceOf(counted) ==
  Scores!Fraction(Scores!Cardinality(Scores!Having(counted, {"pass"})),
                  Scores!Cardinality(Scores!Having(counted, Scores!Statuses \ {"not_applicable"})))

RiskWeightedOf(counted) ==
  LET most == Scores!WeightOf(Scores!Having(counted, {"pass", "fail"}))
  IN  Scores!Fraction(most - Scores!WeightOf(Scores!Having(counted, {"fail"})), most)

\* With fewer failures to count neither score is lower.
LEMMA FewerFailures ==
  ASSUME RowsOK, NEW more, NEW less, less \subseteq more, more \subseteq DOMAIN posture,
         \A c \in more \ less : posture[c].status # "pass"
  PROVE  /\ Scores!AtLeast(ComplianceOf(less), ComplianceOf(more))
         /\ Scores!AtLeast(RiskWeightedOf(less), RiskWeightedOf(more))
<1> DEFINE fine == Scores!Having(more, {"pass"})
           Bad(counted) == Scores!Having(counted, {"fail"})
           Whole(counted) == Scores!Having(counted, Scores!Statuses \ {"not_applicable"})
<1>1. /\ Scores!Having(less, {"pass"}) = fine /\ fine \subseteq DOMAIN posture
      /\ fine \subseteq Whole(less) /\ Whole(less) \subseteq Whole(more)
      /\ Whole(more) \subseteq DOMAIN posture
      /\ Bad(less) \subseteq Bad(more) /\ Bad(more) \subseteq DOMAIN posture
      /\ fine \cap Bad(more) = {}
  BY DEF Scores!Having, Scores!Statuses
<1>2. ASSUME NEW counted \in {less, more}
      PROVE  Scores!Having(counted, {"pass", "fail"}) = fine \cup Bad(counted)
  BY DEF Scores!Having
<1>3. Scores!AtLeast(ComplianceOf(less), ComplianceOf(more))
  <2> DEFINE p == Cardinality(fine)
             d == Cardinality(Whole(less))
             e == Cardinality(Whole(more))
  <2>1. ComplianceOf(less) = Scores!Fraction(p, d) /\ ComplianceOf(more) = Scores!Fraction(p, e)
    BY <1>1, SameCardinality DEF ComplianceOf
  <2>2. IsFiniteSet(fine) /\ IsFiniteSet(Whole(less)) /\ IsFiniteSet(Whole(more))
    BY <1>1, FS_Subset DEF RowsOK
  <2> HIDE DEF fine, Whole
  <2>3. p \in Nat /\ d \in Nat /\ e \in Nat /\ d <= e
    BY <1>1, <2>2, FS_Subset, FS_CardinalityType
  <2> QED
    BY <2>1, <2>3, FractionGrows
<1>4. Scores!AtLeast(RiskWeightedOf(less), RiskWeightedOf(more))
  <2> DEFINE good == Scores!WeightOf(fine)
             x == Scores!WeightOf(Bad(less))
             y == Scores!WeightOf(Bad(more))
             rest == Scores!WeightOf(Bad(more) \ Bad(less))
  <2> HIDE DEF fine, Bad
  <2>1. good \in Nat /\ x \in Nat /\ y \in Nat /\ rest \in Nat
    BY <1>1, WeightIs, Bad(less) \subseteq DOMAIN posture,
       Bad(more) \ Bad(less) \subseteq DOMAIN posture
  <2>2. y = x + rest
    <3>1. Bad(more) = Bad(less) \cup (Bad(more) \ Bad(less))
      BY <1>1
    <3>2. Scores!WeightOf(Bad(less) \cup (Bad(more) \ Bad(less))) = x + rest
      BY <1>1, WeightAdds, Bad(less) \subseteq DOMAIN posture,
         Bad(more) \ Bad(less) \subseteq DOMAIN posture
    <3> QED
      BY <3>1, <3>2
  <2>3. /\ Scores!WeightOf(fine \cup Bad(less)) = good + x
        /\ Scores!WeightOf(fine \cup Bad(more)) = good + y
    BY <1>1, WeightAdds, Bad(less) \subseteq DOMAIN posture, fine \cap Bad(less) = {}
  <2>4. /\ RiskWeightedOf(less) = Scores!Fraction((good + x) - x, good + x)
        /\ RiskWeightedOf(more) = Scores!Fraction((good + y) - y, good + y)
    BY <1>2, <2>3 DEF RiskWeightedOf, Bad
  <2> HIDE DEF good, x, y, rest
  <2>5. (good + x) - x = good /\ (good + y) - y = good /\ good + x <= good + y
    BY <2>1, <2>2
  <2>6. good + x \in Nat /\ good + y \in Nat
    BY <2>1
  <2>7. /\ RiskWeightedOf(less) = Scores!Fraction(good, good + x)
        /\ RiskWeightedOf(more) = Scores!Fraction(good, good + y)
    BY <2>4, <2>5
  <2> QED
    BY <2>1, <2>5, <2>6, <2>7, FractionGrows
<1> QED
  BY <1>3, <1>4

\* A waiver takes failures out of what is scored, and nothing that passes; so
\* it leaves what passes over a whole that is no greater.
THEOREM WaiversNeverLower ==
  ASSUME Scores!ScoringAssumption
  PROVE  Scores!Spec => WaiverNeverLowers
<1> DEFINE Better == /\ Scores!AtLeast(Scores!ComplianceScore', Scores!ComplianceScore)
                     /\ Scores!AtLeast(Scores!RiskWeightedScore', Scores!RiskWeightedScore)
<1>1. ASSUME RowsOK, NEW w \in Waivers, Scores!Create(w)
      PROVE  Better
  <2>1. posture' = posture
    BY <1>1 DEF Scores!Create
  <2>2. Scores!Counted' \subseteq Scores!Counted /\ Scores!Counted \subseteq DOMAIN posture
    BY <1>1, <2>1, CoversMore DEF Scores!Counted, Scores!Waived
  <2>3. \A c \in Scores!Counted \ Scores!Counted' : posture[c].status # "pass"
    BY <2>1 DEF Scores!Counted, Scores!Waived
  <2>4. /\ Scores!ComplianceScore = ComplianceOf(Scores!Counted)
        /\ Scores!RiskWeightedScore = RiskWeightedOf(Scores!Counted)
    BY DEF Scores!ComplianceScore, Scores!RiskWeightedScore, ComplianceOf, RiskWeightedOf
  <2>5. Scores!ComplianceScore' = ComplianceOf(Scores!Counted')
    BY <2>1 DEF Scores!ComplianceScore, ComplianceOf, Scores!Having
  <2>6. Scores!RiskWeightedScore' = RiskWeightedOf(Scores!Counted')
    BY <2>1 DEF Scores!RiskWeightedScore, RiskWeightedOf, Scores!Having, Scores!WeightOf
  <2> QED
    BY <1>1, <2>2, <2>3, <2>4, <2>5, <2>6, FewerFailures
<1>2. RowsOK => ((\E w \in Waivers : Scores!Create(w)) => Better)
  BY <1>1
<1>3. FiguresInv => RowsOK
  BY DEF FiguresInv
<1> QED
  BY <1>2, <1>3, FiguresInvariant, PTL DEF WaiverNeverLowers, Scores!WaiverNeverLowers

-----------------------------------------------------------------------------
\* The intervals of one key form a chain.
IsChain(rows) ==
  /\ \A i \in 1..Len(rows) :
       rows[i].to = IF i = Len(rows) THEN None ELSE rows[i + 1].from
  /\ \A i, j \in 1..Len(rows) : i <= j => rows[i].from <= rows[j].from

ChainInv == log \in [Keys -> Seq(Intervals)] /\ \A k \in Keys : IsChain(log[k])

\* What the constants are.
LEMMA TimesAreNumbers == Times \subseteq Nat /\ None \notin Nat /\ None \notin Values
  BY LogAssumption

\* The sequence a put leaves.
After(rows, v, t) == Append(Closed(rows, t), [from |-> t, to |-> None, value |-> v])

\* What a put does to the sequence of its key.
LEMMA AfterFacts ==
  ASSUME NEW rows \in Seq(Intervals), NEW v \in Values, NEW t \in Times
  PROVE  /\ After(rows, v, t) \in Seq(Intervals)
         /\ Len(After(rows, v, t)) = Len(rows) + 1
         /\ \A i \in 1..Len(rows) :
              /\ After(rows, v, t)[i].from = rows[i].from
              /\ After(rows, v, t)[i].value = rows[i].value
              /\ After(rows, v, t)[i].to = IF rows[i].to = None /\ rows[i].from <= t
                                           THEN t ELSE rows[i].to
         /\ After(rows, v, t)[Len(rows) + 1] = [from |-> t, to |-> None, value |-> v]
<1>0. \A i \in 1..Len(rows) :
        /\ Closed(rows, t)[i] \in Intervals
        /\ Closed(rows, t)[i].from = rows[i].from
        /\ Closed(rows, t)[i].value = rows[i].value
        /\ Closed(rows, t)[i].to = IF rows[i].to = None /\ rows[i].from <= t
                                   THEN t ELSE rows[i].to
  <2> SUFFICES ASSUME NEW i \in 1..Len(rows)
               PROVE  /\ Closed(rows, t)[i] \in Intervals
                      /\ Closed(rows, t)[i].from = rows[i].from
                      /\ Closed(rows, t)[i].value = rows[i].value
                      /\ Closed(rows, t)[i].to = IF rows[i].to = None /\ rows[i].from <= t
                                                 THEN t ELSE rows[i].to
    OBVIOUS
  <2>1. rows[i] \in Intervals
    OBVIOUS
  <2>2. rows[i] \in [from : Times, to : Times \cup {None}, value : Values]
    BY <2>1 DEF Intervals
  <2>3. Closed(rows, t)[i] = IF rows[i].to = None /\ rows[i].from <= t
                             THEN [rows[i] EXCEPT !.to = t] ELSE rows[i]
    BY DEF Closed
  <2> QED
    BY <2>2, <2>3 DEF Intervals
<1>1. /\ Closed(rows, t) \in Seq(Intervals)
      /\ Len(Closed(rows, t)) = Len(rows)
  BY <1>0 DEF Closed
<1>2. [from |-> t, to |-> None, value |-> v] \in Intervals
  BY DEF Intervals
<1>3. \A i \in 1..Len(rows) : After(rows, v, t)[i] = Closed(rows, t)[i]
  BY <1>1, <1>2 DEF After
<1> QED
  BY <1>0, <1>1, <1>2, <1>3 DEF After

\* An in-order put keeps the chain.
LEMMA ChainGrows ==
  ASSUME NEW rows \in Seq(Intervals), NEW v \in Values, NEW t \in Times,
         IsChain(rows), InOrder(rows, t)
  PROVE  IsChain(After(rows, v, t))
<1> DEFINE new == After(rows, v, t)
           n == Len(rows)
<1>1. n \in Nat /\ Len(new) = n + 1
  <2>1. n \in Nat
    OBVIOUS
  <2>2. Len(new) = n + 1
    BY AfterFacts, Zenon
  <2> QED
    BY <2>1, <2>2
<1>2. \A i \in 1..n : rows[i] \in Intervals /\ rows[i].from <= t
  BY DEF InOrder
<1>3. /\ \A i \in 1..n : new[i].from = rows[i].from
      /\ new[n + 1].from = t /\ new[n + 1].to = None
  <2>1. \A i \in 1..n : new[i].from = rows[i].from
    BY AfterFacts, Zenon
  <2>2. new[n + 1] = [from |-> t, to |-> None, value |-> v]
    BY AfterFacts, Zenon
  <2> QED
    BY <2>1, <2>2
<1>4. \A i \in 1..n : new[i].to = IF i = n THEN t ELSE rows[i].to
  <2> SUFFICES ASSUME NEW i \in 1..n PROVE new[i].to = IF i = n THEN t ELSE rows[i].to
    OBVIOUS
  <2>1. new[i].to = IF rows[i].to = None /\ rows[i].from <= t THEN t ELSE rows[i].to
    BY AfterFacts
  <2>2. CASE i = n
    BY <2>1, <2>2, <1>2 DEF IsChain
  <2>3. CASE i # n
    <3>1. i + 1 \in 1..n
      BY <2>3, <1>1
    <3>2. rows[i].to = rows[i + 1].from /\ rows[i + 1].from \in Nat
      BY <2>3, <3>1, <1>2, TimesAreNumbers DEF IsChain, Intervals
    <3> QED
      BY <2>1, <2>3, <3>2, TimesAreNumbers
  <2> QED
    BY <2>2, <2>3
<1>5. \A i \in 1..(n + 1) : new[i].to = IF i = n + 1 THEN None ELSE new[i + 1].from
  <2> SUFFICES ASSUME NEW i \in 1..(n + 1)
               PROVE  new[i].to = IF i = n + 1 THEN None ELSE new[i + 1].from
    OBVIOUS
  <2>1. CASE i = n + 1
    BY <2>1, <1>3
  <2>2. CASE i = n
    BY <2>2, <1>1, <1>3, <1>4
  <2>3. CASE i \in 1..n /\ i # n
    <3>1. i + 1 \in 1..n
      BY <2>3, <1>1
    <3>2. new[i].to = rows[i + 1].from
      BY <2>3, <1>4 DEF IsChain
    <3> QED
      BY <2>3, <3>1, <3>2, <1>1, <1>3
  <2> QED
    BY <1>1, <2>1, <2>2, <2>3
<1>6. \A i, j \in 1..(n + 1) : i <= j => new[i].from <= new[j].from
  <2> SUFFICES ASSUME NEW i \in 1..(n + 1), NEW j \in 1..(n + 1), i <= j
               PROVE  new[i].from <= new[j].from
    OBVIOUS
  <2>1. CASE j \in 1..n
    <3>1. i \in 1..n
      BY <2>1, <1>1
    <3> QED
      BY <2>1, <3>1, <1>3 DEF IsChain
  <2>2. CASE j = n + 1 /\ i \in 1..n
    BY <2>2, <1>2, <1>3
  <2>3. CASE j = n + 1 /\ i = n + 1
    BY <2>3, <1>3, TimesAreNumbers
  <2> QED
    BY <1>1, <2>1, <2>2, <2>3
<1> HIDE DEF new
<1> QED
  BY <1>1, <1>5, <1>6 DEF IsChain, n, new

\* At most one interval of a chain covers a moment.
LEMMA CoverUnique ==
  ASSUME NEW rows \in Seq(Intervals), IsChain(rows), NEW t \in Times,
         NEW i \in Covering(rows, t), NEW j \in Covering(rows, t)
  PROVE  i = j
<1>1. ASSUME NEW a \in Covering(rows, t), NEW b \in Covering(rows, t), a < b
      PROVE  FALSE
  <2>1. /\ a \in 1..Len(rows) /\ b \in 1..Len(rows) /\ Len(rows) \in Nat
        /\ rows[a].from <= t /\ (rows[a].to = None \/ t < rows[a].to)
        /\ rows[b].from <= t
    BY DEF Covering, Covers
  <2>2. a # Len(rows) /\ a + 1 \in 1..Len(rows) /\ a + 1 <= b
    BY <2>1, <1>1
  <2>3. rows[a].to = rows[a + 1].from /\ rows[a + 1].from <= rows[b].from
    BY <2>1, <2>2 DEF IsChain
  <2>4. rows[a + 1].from \in Nat /\ rows[b].from \in Nat /\ t \in Nat
    <3>1. rows[a + 1] \in Intervals /\ rows[b] \in Intervals
      BY <2>1, <2>2
    <3>2. rows[a + 1].from \in Times /\ rows[b].from \in Times
      BY <3>1 DEF Intervals
    <3> QED
      BY <3>2, TimesAreNumbers
  <2>5. t < rows[a + 1].from
    BY <2>1, <2>3, <2>4, TimesAreNumbers
  <2> QED
    BY <2>1, <2>3, <2>4, <2>5
<1>2. i \in Nat /\ j \in Nat
  BY DEF Covering
<1> QED
  BY <1>1, <1>2

\* The reader's answer is the value of the interval that covers the moment.
LEMMA ValueIs ==
  ASSUME NEW rows \in Seq(Intervals), IsChain(rows), NEW t \in Times,
         NEW i \in Covering(rows, t)
  PROVE  ValueAt(rows, t) = rows[i].value
<1>1. \A j \in Covering(rows, t) : j = i
  BY CoverUnique
<1>2. rows[i].from \in Nat /\ i \in Nat
  <2>1. i \in 1..Len(rows)
    BY DEF Covering
  <2>2. rows[i] \in Intervals
    BY <2>1
  <2>3. rows[i].from \in Times
    BY <2>2 DEF Intervals
  <2>4. rows[i].from \in Nat
    BY <2>3, TimesAreNumbers, Zenon
  <2> QED
    BY <2>1, <2>4
<1>3. \A j \in Covering(rows, t) : ~Precedes(rows, j, i)
  BY <1>1, <1>2 DEF Precedes
<1>4. FirstAt(rows, t) \in Covering(rows, t)
  BY <1>3 DEF FirstAt
<1> QED
  BY <1>1, <1>4 DEF ValueAt

-----------------------------------------------------------------------------
\* In-order puts keep every key's intervals in a chain.
THEOREM ChainInvariant == ASSUME ~BackDated PROVE Spec => []ChainInv
<1>1. Init => ChainInv
  <2> SUFFICES ASSUME Init PROVE ChainInv
    OBVIOUS
  <2>1. <<>> \in Seq(Intervals) /\ Len(<<>>) = 0
    OBVIOUS
  <2>2. \A k \in Keys : log[k] = <<>>
    BY DEF Init
  <2>3. log \in [Keys -> Seq(Intervals)]
    BY <2>1 DEF Init
  <2>4. IsChain(<<>>)
    BY <2>1 DEF IsChain
  <2> QED
    BY <2>2, <2>3, <2>4 DEF ChainInv
<1>2. ChainInv /\ [Next]_log => ChainInv'
  <2> SUFFICES ASSUME ChainInv, [Next]_log PROVE ChainInv'
    OBVIOUS
  <2>1. ASSUME NEW k \in Keys, NEW v \in Values, NEW t \in Times, Put(k, v, t)
        PROVE  ChainInv'
    <3>1. log[k] \in Seq(Intervals) /\ IsChain(log[k]) /\ InOrder(log[k], t)
      BY <2>1 DEF ChainInv, Put
    <3>2. log' = [log EXCEPT ![k] = After(log[k], v, t)]
      BY <2>1 DEF Put, After
    <3>3. After(log[k], v, t) \in Seq(Intervals) /\ IsChain(After(log[k], v, t))
      BY <3>1, AfterFacts, ChainGrows, Zenon
    <3>4. log' \in [Keys -> Seq(Intervals)]
      BY <3>2, <3>3 DEF ChainInv
    <3>5. ASSUME NEW m \in Keys PROVE IsChain(log'[m])
      <4>1. log'[m] = IF m = k THEN After(log[k], v, t) ELSE log[m]
        BY <3>2 DEF ChainInv
      <4> QED
        BY <4>1, <3>3 DEF ChainInv
    <3> QED
      BY <3>4, <3>5 DEF ChainInv
  <2>2. CASE UNCHANGED log
    BY <2>2 DEF ChainInv
  <2> QED
    BY <2>1, <2>2 DEF Next
<1> QED
  BY <1>1, <1>2, PTL DEF Spec

\* A chain has one open interval, the last.
THEOREM OneOpenInvariant == ASSUME ~BackDated PROVE Spec => []OneOpen
<1>1. ChainInv => OneOpen
  <2> SUFFICES ASSUME ChainInv, NEW k \in Keys,
                      NEW i \in 1..Len(log[k]), NEW j \in 1..Len(log[k]),
                      log[k][i].to = None, log[k][j].to = None
               PROVE  i = j
    BY DEF OneOpen
  <2>1. log[k] \in Seq(Intervals) /\ IsChain(log[k])
    BY DEF ChainInv
  <2>2. ASSUME NEW a \in 1..Len(log[k]), log[k][a].to = None, a # Len(log[k])
        PROVE  FALSE
    <3>1. a + 1 \in 1..Len(log[k])
      BY <2>1, <2>2
    <3>2. log[k][a + 1] \in Intervals
      BY <2>1, <3>1
    <3>3. log[k][a + 1].from \in Times
      BY <3>2 DEF Intervals
    <3>4. log[k][a].to = log[k][a + 1].from
      BY <2>1, <2>2 DEF IsChain
    <3> QED
      BY <2>2, <3>3, <3>4, TimesAreNumbers
  <2> QED
    BY <2>2
<1> QED
  BY <1>1, ChainInvariant, PTL

\* A put changes the answers from its moment on, and no others.
LEMMA ValueAfter ==
  ASSUME NEW rows \in Seq(Intervals), NEW v \in Values, NEW t \in Times,
         IsChain(rows), InOrder(rows, t), NEW s \in Times
  PROVE  ValueAt(After(rows, v, t), s) = IF t <= s THEN v ELSE ValueAt(rows, s)
<1> DEFINE new == After(rows, v, t)
           n == Len(rows)
<1>1. n \in Nat /\ s \in Nat /\ t \in Nat
  BY TimesAreNumbers
<1>2. new \in Seq(Intervals) /\ Len(new) = n + 1
  BY AfterFacts, Zenon
<1>3. \A i \in 1..n :
        /\ new[i].from = rows[i].from
        /\ new[i].value = rows[i].value
        /\ new[i].to = IF rows[i].to = None /\ rows[i].from <= t THEN t ELSE rows[i].to
  BY AfterFacts, Zenon
<1>4. new[n + 1].from = t /\ new[n + 1].to = None /\ new[n + 1].value = v
  <2>1. new[n + 1] = [from |-> t, to |-> None, value |-> v]
    BY AfterFacts, Zenon
  <2> QED
    BY <2>1
<1>5. IsChain(new)
  BY ChainGrows, Zenon
<1> HIDE DEF new
<1>6. CASE t <= s
  <2>1. n + 1 \in Covering(new, s)
    BY <1>1, <1>2, <1>4, <1>6 DEF Covering, Covers
  <2>2. ValueAt(new, s) = new[n + 1].value
    BY <1>2, <1>5, <2>1, ValueIs, Zenon
  <2> QED
    BY <1>4, <1>6, <2>2 DEF new
<1>7. CASE ~(t <= s)
  <2>1. \A i \in 1..n : Covers(new[i], s) <=> Covers(rows[i], s)
    <3> SUFFICES ASSUME NEW i \in 1..n PROVE Covers(new[i], s) <=> Covers(rows[i], s)
      OBVIOUS
    <3>1. rows[i].from <= t
      BY DEF InOrder
    <3>2. CASE rows[i].to = None
      <4>1. new[i].to = t
        BY <1>3, <3>1, <3>2
      <4>2. s < t
        BY <1>1, <1>7
      <4> QED
        BY <1>3, <3>2, <4>1, <4>2 DEF Covers
    <3>3. CASE rows[i].to # None
      <4>1. new[i].to = rows[i].to
        BY <1>3, <3>3
      <4> QED
        BY <1>3, <4>1 DEF Covers
    <3> QED
      BY <3>2, <3>3
  <2>2. ~Covers(new[n + 1], s)
    BY <1>4, <1>7 DEF Covers
  <2>3. 1..Len(new) = (1..n) \cup {n + 1}
    BY <1>1, <1>2
  <2>4. Covering(new, s) = Covering(rows, s)
    BY <2>1, <2>2, <2>3, Zenon DEF Covering, n
  <2>5. CASE Covering(rows, s) = {}
    BY <1>7, <2>4, <2>5 DEF ValueAt, new
  <2>6. CASE Covering(rows, s) # {}
    <3>1. PICK i \in Covering(rows, s) : TRUE
      BY <2>6
    <3>2. ValueAt(rows, s) = rows[i].value
      BY ValueIs, Zenon
    <3>3. i \in Covering(new, s)
      BY <2>4
    <3>4. ValueAt(new, s) = new[i].value
      BY <1>2, <1>5, <3>3, ValueIs, Zenon
    <3>5. i \in 1..n
      BY DEF Covering
    <3> QED
      BY <1>3, <1>7, <3>2, <3>4, <3>5 DEF new
  <2> QED
    BY <2>5, <2>6
<1> QED
  BY <1>6, <1>7

\* In-order puts implement the map from moments to values.
THEOREM Implements == ASSUME ~BackDated PROVE Spec => ImplementsAsOf
<1> DEFINE hd == [k \in Keys |-> [t \in Times |-> ValueAt(log[k], t)]]
           lt == [k \in Keys |-> LatestPut(log[k])]
<1>1. Init => AsOf!Init
  <2> SUFFICES ASSUME Init PROVE hd = [k \in Keys |-> [t \in Times |-> None]]
                               /\ lt = [k \in Keys |-> None]
    BY DEF AsOf!Init
  <2>1. \A k \in Keys : log[k] = <<>>
    BY DEF Init
  <2>2. \A t \in Times : Covering(<<>>, t) = {}
    BY DEF Covering
  <2>3. \A t \in Times : ValueAt(<<>>, t) = None
    BY <2>2 DEF ValueAt
  <2>4. LatestPut(<<>>) = None
    BY DEF LatestPut
  <2> QED
    BY <2>1, <2>3, <2>4
<1>2. ChainInv /\ [Next]_log => [AsOf!Next]_(AsOf!vars)
  <2> SUFFICES ASSUME ChainInv, [Next]_log PROVE [AsOf!Next]_(AsOf!vars)
    OBVIOUS
  <2>1. ASSUME NEW k \in Keys, NEW v \in Values, NEW t \in Times, Put(k, v, t)
        PROVE  AsOf!Put(k, v, t)
    <3> DEFINE new == After(log[k], v, t)
    <3>1. log[k] \in Seq(Intervals) /\ IsChain(log[k]) /\ InOrder(log[k], t)
      BY <2>1 DEF ChainInv, Put
    <3>2. \A m \in Keys : log'[m] = IF m = k THEN new ELSE log[m]
      BY <2>1 DEF ChainInv, Put, After
    <3>3. \A s \in Times : ValueAt(new, s) = IF t <= s THEN v ELSE ValueAt(log[k], s)
      BY <3>1, ValueAfter, Zenon
    <3>4. LatestPut(new) = <<v, t>>
      <4>1. /\ Len(log[k]) \in Nat
            /\ new \in Seq(Intervals) /\ Len(new) = Len(log[k]) + 1
            /\ new[Len(log[k]) + 1] = [from |-> t, to |-> None, value |-> v]
        <5>1. Len(log[k]) \in Nat
          BY <3>1
        <5> QED
          BY <3>1, <5>1, AfterFacts, ZenonT(60)
      <4> HIDE DEF new
      <4>2. new # <<>>
        BY <4>1
      <4> QED
        BY <4>1, <4>2 DEF LatestPut
    <3> HIDE DEF new
    <3>5. hd' = [hd EXCEPT ![k] = [s \in Times |-> IF t <= s THEN v ELSE hd[k][s]]]
      <4>1. \A m \in Keys : hd'[m] =
              IF m = k THEN [s \in Times |-> IF t <= s THEN v ELSE hd[k][s]] ELSE hd[m]
        <5> SUFFICES ASSUME NEW m \in Keys
                     PROVE  hd'[m] = IF m = k
                              THEN [s \in Times |-> IF t <= s THEN v ELSE hd[k][s]]
                              ELSE hd[m]
          OBVIOUS
        <5>1. hd'[m] = [s \in Times |-> ValueAt(log'[m], s)]
          OBVIOUS
        <5>2. CASE m = k
          BY <5>1, <5>2, <3>2, <3>3
        <5>3. CASE m # k
          BY <5>1, <5>3, <3>2
        <5> QED
          BY <5>2, <5>3
      <4> QED
        BY <4>1
    <3>6. lt' = [lt EXCEPT ![k] = <<v, t>>]
      BY <3>2, <3>4
    <3> QED
      BY <3>5, <3>6 DEF AsOf!Put
  <2>2. CASE UNCHANGED log
    <3>1. UNCHANGED <<hd, lt>>
      BY <2>2
    <3> QED
      BY <3>1 DEF AsOf!vars
  <2> QED
    BY <2>1, <2>2 DEF Next, AsOf!Next
<1> QED
  BY <1>1, <1>2, ChainInvariant, PTL DEF Spec, ImplementsAsOf, AsOf!Spec

\* With in-order puts the database query and the in-memory log answer alike,
\* although they break ties the opposite way: there are none to break.
THEOREM ReadersAlwaysAgree == ASSUME ~BackDated PROVE Spec => []ReadersAgree
<1>1. ChainInv => ReadersAgree
  <2> SUFFICES ASSUME ChainInv, NEW k \in Keys, NEW t \in Times
               PROVE  SnapshotAt(log[k], t) = {ValueAt(log[k], t)} \ {None}
    BY DEF ReadersAgree
  <2> DEFINE rows == log[k]
             last == {i \in Covering(rows, t) :
                        \A j \in Covering(rows, t) : rows[j].from <= rows[i].from}
  <2>1. rows \in Seq(Intervals) /\ IsChain(rows)
    BY DEF ChainInv
  <2>2. SnapshotAt(rows, t) = {rows[i].value : i \in last}
    BY DEF SnapshotAt
  <2>3. CASE Covering(rows, t) = {}
    BY <2>2, <2>3 DEF ValueAt
  <2>4. ASSUME NEW i \in Covering(rows, t) PROVE SnapshotAt(rows, t) = {ValueAt(rows, t)} \ {None}
    <3>1. rows[i] \in Intervals
      BY <2>1 DEF Covering
    <3>2. rows[i].from \in Nat /\ rows[i].value # None
      BY <3>1, TimesAreNumbers DEF Intervals
    <3>3. \A j \in Covering(rows, t) : j = i
      BY <2>1, CoverUnique, Zenon
    <3>4. last = {i}
      BY <3>2, <3>3
    <3>5. ValueAt(rows, t) = rows[i].value
      BY <2>1, ValueIs, Zenon
    <3> QED
      BY <2>2, <3>2, <3>4, <3>5
  <2> QED
    BY <2>3, <2>4
<1> QED
  BY <1>1, ChainInvariant, PTL

-----------------------------------------------------------------------------
(* PolicyEngine: what a decision rests on.                                  *)

LEMMA SeverityRanks == \A word : SeverityRank(word) \in 0..4
BY DEF SeverityRank, SevOrder

\* Of the severities above the base there is a highest.
LEMMA HighestExists ==
  ASSUME NEW S, S # {}
  PROVE  \E s \in S : \A t \in S : SeverityRank(t) <= SeverityRank(s)
<1> SUFFICES ASSUME \A s \in S : \E t \in S : SeverityRank(t) > SeverityRank(s)
             PROVE  FALSE
  BY SeverityRanks
<1> DEFINE Reached(n) == \E s \in S : SeverityRank(s) >= n
<1>1. ASSUME NEW n \in 0..4, Reached(n) PROVE Reached(n + 1)
  <2>1. PICK s \in S : SeverityRank(s) >= n
    BY <1>1
  <2>2. PICK t \in S : SeverityRank(t) > SeverityRank(s)
    OBVIOUS
  <2> QED
    BY <2>1, <2>2, SeverityRanks
<1>2. Reached(0)
  BY SeverityRanks
<1> HIDE DEF Reached
<1>3. Reached(1) /\ Reached(2) /\ Reached(3) /\ Reached(4) /\ Reached(5)
  <2>1. Reached(1)
    BY <1>1, <1>2
  <2>2. Reached(2)
    BY <1>1, <2>1
  <2>3. Reached(3)
    BY <1>1, <2>2
  <2>4. Reached(4)
    BY <1>1, <2>3
  <2> QED
    BY <1>1, <2>1, <2>2, <2>3, <2>4
<1> QED
  BY <1>3, SeverityRanks DEF Reached

\* A failure is as severe as its base and as every rule that failed.
LEMMA NoRuleIsAbove ==
  ASSUME NEW p, NEW e
  PROVE  /\ SeverityRank(p.base) <= SeverityRank(Severity(p, e))
         /\ \A r \in Failed(p, e) : SeverityRank(r.severity) <= SeverityRank(Severity(p, e))
<1> DEFINE said == {x.severity : x \in Failed(p, e) \cup {u \in p.escalation : Outcome(u.when, e) = "yes"}}
           above == {s \in said : SeverityRank(s) > SeverityRank(p.base)}
           highest == CHOOSE s \in above : \A t \in above : SeverityRank(t) <= SeverityRank(s)
<1>1. Severity(p, e) = IF above = {} THEN p.base ELSE highest
  BY DEF Severity
<1>2. \A r \in Failed(p, e) : r.severity \in said
  OBVIOUS
<1>3. above # {} => highest \in above /\ \A t \in above : SeverityRank(t) <= SeverityRank(highest)
  <2> HIDE DEF above
  <2> QED
    BY HighestExists
<1> HIDE DEF said, highest
<1>4. \A s \in said : s \in above \/ SeverityRank(s) <= SeverityRank(p.base)
  BY SeverityRanks
<1>5. CASE above = {}
  <2>1. Severity(p, e) = p.base
    BY <1>1, <1>5
  <2> HIDE DEF above
  <2> QED
    BY <1>2, <1>4, <1>5, <2>1, SeverityRanks
<1>6. CASE above # {}
  <2>1. Severity(p, e) = highest
    BY <1>1, <1>6
  <2>2. SeverityRank(highest) > SeverityRank(p.base)
    BY <1>3, <1>6
  <2> HIDE DEF above
  <2> QED
    BY <1>2, <1>3, <1>4, <1>6, <2>1, <2>2, SeverityRanks
<1> QED
  BY <1>5, <1>6

\* What a pass says of the control's own evidence, and of the requirements
\* where they are looked at.
LEMMA PassSays ==
  ASSUME NEW p, NEW e, NEW composed \in BOOLEAN, NEW dep,
         Evaluate(p, e, composed, dep).status = "pass"
  PROVE  /\ AbsentSignals(p, e) = {}
         /\ Failed(p, e) = {}
         /\ composed => \A c \in p.requires :
               c \in DOMAIN dep /\ dep[c] \notin {"fail", "error", "not_applicable"}
<1> DEFINE known == p.requires \cap DOMAIN dep
           failing == composed /\ \E c \in known : dep[c] \in {"fail", "error"}
           unassessed == composed /\ \E c \in known : dep[c] = "not_applicable"
           unknown == composed /\ known # p.requires
           raised == \E r \in p.rules : Outcome(r.when, e) = "raised"
           own == IF Failed(p, e) = {} /\ ~failing /\ unassessed THEN Decision("not_applicable", "info")
                  ELSE IF Failed(p, e) = {} /\ ~failing /\ ~unknown THEN Decision("pass", "info")
                  ELSE Decision("fail", Severity(p, e))
<1>1. Evaluate(p, e, composed, dep) =
        CASE AbsentSignals(p, e) # {} -> Decision("not_applicable", "info")
          [] AbsentSignals(p, e) = {} /\ raised -> Decision("error", "info")
          [] OTHER -> own
  BY DEF Evaluate
<1>2. AbsentSignals(p, e) = {}
  BY <1>1 DEF Decision
<1>3. ~raised
  <2> HIDE DEF raised
  <2> QED
    BY <1>1, <1>2 DEF Decision
<1>4. own.status = "pass"
  <2> HIDE DEF raised, own
  <2> QED
    BY <1>1, <1>2, <1>3
<1>5. Failed(p, e) = {} /\ ~failing /\ ~unassessed /\ ~unknown
  <2> HIDE DEF failing, unassessed, unknown
  <2> QED
    BY <1>4 DEF Decision
<1> QED
  BY <1>2, <1>5

\* Without requirements, or without looking at them, it is a pass as soon as that is so.
LEMMA PassIsGiven ==
  ASSUME NEW p, NEW e, NEW composed \in BOOLEAN, NEW dep,
         AbsentSignals(p, e) = {}, Failed(p, e) = {}, p.requires = {}
  PROVE  Evaluate(p, e, composed, dep).status = "pass"
<1>1. ~ \E r \in p.rules : Outcome(r.when, e) = "raised"
  BY DEF Failed
<1>2. Evaluate(p, e, composed, dep) = Decision("pass", "info")
  BY <1>1 DEF Evaluate
<1> QED
  BY <1>2 DEF Decision

LEMMA StatusIs ==
  ASSUME NEW p, NEW e, NEW composed \in BOOLEAN, NEW dep
  PROVE  /\ Evaluate(p, e, composed, dep).status \in {"pass", "fail", "error", "not_applicable"}
         /\ Evaluate(p, e, composed, dep).status = "fail" =>
               Evaluate(p, e, composed, dep).severity = Severity(p, e)
<1>1. \/ Evaluate(p, e, composed, dep) = Decision("not_applicable", "info")
      \/ Evaluate(p, e, composed, dep) = Decision("error", "info")
      \/ Evaluate(p, e, composed, dep) = Decision("pass", "info")
      \/ Evaluate(p, e, composed, dep) = Decision("fail", Severity(p, e))
  BY DEF Evaluate
<1> QED
  BY <1>1 DEF Decision

\* The policies are as they were written; what is decided is what evaluate_all
\* says of all of them, against its own first pass.
FirstPass == [c \in DOMAIN policies |-> First(c).status]

EngineInv ==
  /\ DOMAIN evidence = DOMAIN policies
  /\ \A c \in DOMAIN policies :
        /\ evidence[c] \in Reports
        /\ \A r \in policies[c].rules : r.when \in Texts
  /\ \/ DOMAIN decisions = {}
     \/ decisions = [c \in DOMAIN policies |-> Evaluate(policies[c], evidence[c], TRUE, FirstPass)]

LEMMA EngineInvariant == EngineSpec => []EngineInv
<1>1. EngineInit => EngineInv
  <2>1. DOMAIN <<>> = {}
    OBVIOUS
  <2> QED
    BY <2>1 DEF EngineInit, EngineInv
<1>2. EngineInv /\ [EngineNext]_engine => EngineInv'
  <2> SUFFICES ASSUME EngineInv, [EngineNext]_engine PROVE EngineInv'
    OBVIOUS
  <2>1. CASE LoadPolicy
    BY <2>1 DEF LoadPolicy, EngineInv, FirstPass, First
  <2>2. CASE EvaluateAll
    BY <2>2 DEF EvaluateAll, EngineInv, FirstPass, First
  <2>3. CASE UNCHANGED engine
    BY <2>3 DEF engine, EngineInv, FirstPass, First
  <2> QED
    BY <2>1, <2>2, <2>3 DEF EngineNext
<1> QED
  BY <1>1, <1>2, PTL DEF EngineSpec

\* A pass is earned, by what was observed, by every rule and by what it
\* requires, and a failure is as severe as its worst rule (Policy.evaluate,
\* PolicyEngine.evaluate_all).
THEOREM PassesAreEarned ==
  ASSUME EngineAssumption
  PROVE  EngineSpec => []PassIsEarned
<1>1. ASSUME EngineInv PROVE PassIsEarned
  <2> SUFFICES ASSUME NEW c \in DOMAIN decisions PROVE
        /\ decisions[c].status = "pass" =>
             /\ Observed(c) \/ Unguarded(policies[c])
             /\ \A r \in policies[c].rules : Outcome(r.when, evidence[c]) = "yes"
             /\ RequirementsHold(c)
        /\ decisions[c].status = "fail" =>
             /\ \A r \in policies[c].rules :
                   Outcome(r.when, evidence[c]) # "yes" =>
                      SeverityRank(r.severity) <= SeverityRank(decisions[c].severity)
             /\ SeverityRank(policies[c].base) <= SeverityRank(decisions[c].severity)
    BY DEF PassIsEarned
  <2>1. /\ c \in DOMAIN policies
        /\ \A d \in DOMAIN policies : decisions[d] = Evaluate(policies[d], evidence[d], TRUE, FirstPass)
    BY <1>1 DEF EngineInv
  <2>2. ASSUME decisions[c].status = "pass"
        PROVE  /\ AbsentSignals(policies[c], evidence[c]) = {}
               /\ Failed(policies[c], evidence[c]) = {}
               /\ \A d \in policies[c].requires : d \in DOMAIN policies /\ First(d).status = "pass"
    <3>1. Evaluate(policies[c], evidence[c], TRUE, FirstPass).status = "pass"
      BY <2>1, <2>2
    <3>2. /\ AbsentSignals(policies[c], evidence[c]) = {}
          /\ Failed(policies[c], evidence[c]) = {}
          /\ \A d \in policies[c].requires :
                d \in DOMAIN FirstPass /\ FirstPass[d] \notin {"fail", "error", "not_applicable"}
      BY <3>1, PassSays, Zenon
    <3>3. DOMAIN FirstPass = DOMAIN policies /\ \A d \in DOMAIN policies : FirstPass[d] = First(d).status
      BY DEF FirstPass
    <3>4. \A d : First(d).status \in {"pass", "fail", "error", "not_applicable"}
      BY StatusIs DEF First
    <3> QED
      BY <3>2, <3>3, <3>4
  <2>3. ASSUME decisions[c].status = "pass" PROVE Observed(c) \/ Unguarded(policies[c])
    <3> SUFFICES ASSUME ~Unguarded(policies[c]),
                        NEW r \in policies[c].rules, NEW n \in Consults(r.when, evidence[c])
                 PROVE  ~IsAbsent(evidence[c], n)
      BY DEF Observed
    <3>1. r.when \in Texts /\ evidence[c] \in Reports
      BY <1>1, <2>1 DEF EngineInv
    <3>2. policies[c].signals = Inferred /\ ~Ambiguous(r.when)
      BY DEF Unguarded
    <3>3. n \in Fields(r.when)
      BY <3>1, <3>2 DEF EngineAssumption
    <3>4. n \in Signals(policies[c])
      BY <3>2, <3>3 DEF Signals
    <3> QED
      BY <2>2, <2>3, <3>4 DEF AbsentSignals
  <2>4. ASSUME decisions[c].status = "pass", NEW r \in policies[c].rules
        PROVE  Outcome(r.when, evidence[c]) = "yes"
    BY <2>2, <2>4 DEF Failed
  <2>5. ASSUME decisions[c].status = "pass", NEW d \in policies[c].requires
        PROVE  d \in DOMAIN policies /\ (decisions[d].status = "pass" \/ Alone(d))
    <3>1. d \in DOMAIN policies /\ First(d).status = "pass"
      BY <2>2, <2>5
    <3>2. CASE policies[d].requires # {}
      BY <3>1, <3>2 DEF Alone
    <3>3. CASE policies[d].requires = {}
      <4>1. AbsentSignals(policies[d], evidence[d]) = {} /\ Failed(policies[d], evidence[d]) = {}
        BY <3>1, PassSays DEF First
      <4>2. Evaluate(policies[d], evidence[d], TRUE, FirstPass).status = "pass"
        BY <3>3, <4>1, PassIsGiven
      <4> QED
        BY <2>1, <3>1, <4>2
    <3> QED
      BY <3>2, <3>3
  <2>6. ASSUME decisions[c].status = "fail"
        PROVE  /\ \A r \in policies[c].rules :
                     Outcome(r.when, evidence[c]) # "yes" =>
                        SeverityRank(r.severity) <= SeverityRank(decisions[c].severity)
               /\ SeverityRank(policies[c].base) <= SeverityRank(decisions[c].severity)
    <3>1. decisions[c].severity = Severity(policies[c], evidence[c])
      <4>1. Evaluate(policies[c], evidence[c], TRUE, FirstPass).status = "fail" =>
               Evaluate(policies[c], evidence[c], TRUE, FirstPass).severity = Severity(policies[c], evidence[c])
        BY StatusIs, Zenon
      <4> QED
        BY <2>1, <2>6, <4>1
    <3>2. \A r \in policies[c].rules : Outcome(r.when, evidence[c]) # "yes" => r \in Failed(policies[c], evidence[c])
      BY DEF Failed
    <3> QED
      BY <3>1, <3>2, NoRuleIsAbove
  <2> QED
    BY <2>3, <2>4, <2>5, <2>6 DEF RequirementsHold
<1> QED
  BY <1>1, EngineInvariant, PTL

====
