---------------------------- MODULE FeedbackTuning ----------------------------
(***************************************************************************)
(* tuneFromFeedback: the weights of components that stood out in leads voted   *)
(* down are nudged towards a floor.  The votes come as sums: samples, per      *)
(* component the points and how many scores had it, and per reason how often.  *)
(***************************************************************************)
EXTENDS ScoreRules

Rule(weight, of, from, by, low, high, reason, times) ==
  [weight |-> weight, of |-> of, from |-> from, by |-> by, low |-> low, high |-> high,
   reason |-> reason, times |-> times]

\* A component whose average is at least "from" lowers its weight by "by", within a
\* range; some rules ask for a reason given so many times.
Rules ==
  {Rule("landUsePriorityMax", "landUsePriority", 10, 2, 5, 15, "any", 0),
   Rule("absenteeOutOfState", "absentee", 20, 2, 10, 25, "any", 0),
   Rule("absenteeInState", "absentee", 20, 1, 5, 15, "any", 0),
   Rule("entity", "entity", 8, 2, 0, 10, "any", 0),
   Rule("multiParcel", "multiParcel", 8, 1, 0, 10, "any", 0),
   Rule("mortgageMaturity", "mortgageMaturity", 15, 2, 10, 25, "bad_timing", 3),
   Rule("zoningWatch", "zoningWatch", 10, 2, 4, 15, "wrong_asset", 3),
   Rule("probateEstate", "probateEstate", 12, 2, 8, 20, "any", 0),
   Rule("nearbyListing", "nearbyListing", 5, 1, 2, 10, "wrong_asset", 2),
   Rule("judgmentLien", "judgmentLien", 10, 2, 4, 15, "any", 0),
   Rule("taxSeverityMax", "taxSeverity", 6, 1, 2, 10, "bad_timing", 2),
   Rule("loanPressureMax", "loanPressure", 6, 1, 2, 10, "bad_timing", 2),
   Rule("vacancyProxy", "vacancyProxy", 5, 1, 2, 10, "wrong_asset", 2),
   Rule("submarketFitMax", "submarketFit", 3, 1, 0, 6, "wrong_asset", 3)}

MinSamples == 5

\* Averages at least n; a component no score had averages 0.
AtLeast(votes, c, n) == votes.count[c] > 0 /\ votes.sum[c] >= n * votes.count[c]

Given(votes, reason, times) == reason = "any" \/ votes.reasons[reason] >= times

\* Entity owners are only held against a lead whose owner has not held for long.
Applies(r, votes) ==
  /\ AtLeast(votes, r.of, r.from)
  /\ Given(votes, r.reason, r.times)
  /\ r.of = "entity" => ~AtLeast(votes, "holdPeriod", 20)

Tuned(w, votes) ==
  [k \in WeightNames |->
     IF votes.samples >= MinSamples /\ \E r \in Rules : r.weight = k /\ Applies(r, votes)
     THEN LET r == CHOOSE r \in Rules : r.weight = k /\ Applies(r, votes)
          IN Clamp(w[k] - r.by, r.low, r.high)
     ELSE w[k]]
=============================================================================
