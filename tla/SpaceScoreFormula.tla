-------------------------- MODULE SpaceScoreFormula --------------------------
(***************************************************************************)
(* computeSpaceScore: a company's signals, each worth its weight times its     *)
(* confidence and half of that after every 180 days, and more of them the more  *)
(* types there are.  Ages are counted in whole halvings, where the exponential  *)
(* is exact; confidences are percents.                                        *)
(***************************************************************************)
EXTENDS Integers, FiniteSetsExt

\* Days to half the worth, and the age beyond which a signal counts no more.
HalfLife == 180
MaxAgeDays == 540

Active(signals) == {s \in signals : ~s.dismissed /\ s.age * HalfLife <= MaxAgeDays}

\* In eighths of a percent of a point.
Contribution(s) == (8 * s.weight * s.confidence) \div 2^s.age

\* Ten percent for every further type, forty at most.
Tenths(signals) == 10 + Min({4, Max({0, Cardinality({s.type : s \in signals}) - 1})})

\* A point, in tenths of eighths of percents.
Point == 8000

Score(signals) ==
  Min({100 * Point, MapThenSumSet(Contribution, Active(signals)) * Tenths(Active(signals))})

spaceScoreBand(score) ==
  CASE score >= 60 * Point -> "hot"
    [] score < 60 * Point /\ score >= 35 * Point -> "warm"
    [] score < 35 * Point /\ score >= 15 * Point -> "watch"
    [] score < 15 * Point -> "none"

\* The band shown: a company without a score is on watch too.
BandLabel(signals) ==
  LET band == spaceScoreBand(Score(signals)) IN IF band = "none" THEN "watch" ELSE band

\* The five that contribute most.
TopSignals(signals) ==
  {top \in SUBSET Active(signals) :
     /\ Cardinality(top) = Min({5, Cardinality(Active(signals))})
     /\ \A s \in top, r \in Active(signals) \ top : Contribution(s) >= Contribution(r)}
=============================================================================
