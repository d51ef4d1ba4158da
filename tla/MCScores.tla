------------------------------ MODULE MCScores -------------------------------
(* Bounds for model-checking what is computed from posture: the scores and   *)
(* waivers of Scoring, and the status over time of TemporalLog.  They share  *)
(* no variable; one behaviour exercises one of them, the other stays as it   *)
(* began.  Scoring is taken twice: with rows of any status under one waiver, *)
(* and without rows under two waivers and the listings that refresh them.    *)
EXTENDS TemporalLog, TLC

CONSTANTS c1, c2, a1, a2, w1, w2,
          Cells, Waivers, Terms, Expiries, Weights, Criticality, AnyAsset, Never,
          MaxClock, MaxListings

VARIABLES part, posture, waiver, listing, listings, clock

scoreVars == <<posture, waiver, listing, listings, clock>>

MCCells == {<<c1, a1>>, <<c1, a2>>, <<c2, AnyAsset>>}

MCTerms == {<<c1, a1>>, <<c1, AnyAsset>>, <<c2, AnyAsset>>}

MCCriticality == (a1 :> 6) @@ (a2 :> 1) @@ (AnyAsset :> 2)

Scores == INSTANCE Scoring

ASSUME Scores!ScoringAssumption

MCInit == Init /\ Scores!Init /\ part \in {"figures", "waivers", "log"}

FiguresStep ==
  /\ part = "figures"
  /\ Scores!Next /\ DOMAIN waiver' \subseteq {w1} /\ listings' = 0
  /\ UNCHANGED <<part, log>>

WaiversStep ==
  /\ part = "waivers"
  /\ Scores!Next /\ posture' = posture
  /\ UNCHANGED <<part, log>>

LogStep == part = "log" /\ Next /\ UNCHANGED <<part, scoreVars>>

\* The bounds are reached.
Quiet ==
  /\ part = "log" /\ \A k \in Keys : Len(log[k]) = MaxPuts
  /\ UNCHANGED <<part, log, scoreVars>>

MCNext == FiguresStep \/ WaiversStep \/ LogStep \/ Quiet

MCSpec == MCInit /\ [][MCNext]_<<part, log, scoreVars>>

\* Scoring: the projected score is the one that fixing the head gives.
ProjectionIsExact == Scores!ProjectionIsExact

\* Scoring: a waiver never lowers a score.
WaiverNeverLowers == Scores!WaiverNeverLowers

\* Scoring: a waiver that has ended stays ended.
EndedForGood == Scores!EndedForGood
=============================================================================
