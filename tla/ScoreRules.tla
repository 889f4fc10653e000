------------------------------ MODULE ScoreRules ------------------------------
(***************************************************************************)
(* The score of a parcel: the points each fact about it earns under the       *)
(* weights, their sum, and what the sentence names that says why to call now.  *)
(*                                                                           *)
(* A parcel is a record of what the rules read: days held (Absent without a   *)
(* deed date), where the owner's mail goes, counts, amounts in dollars (0 when *)
(* missing) and the types of its signals.  Shares are rounded half up; the     *)
(* code's products of floats may fall on the other side of a half.            *)
(***************************************************************************)
EXTENDS Integers

Absent == -1

Least(a, b) == IF a <= b THEN a ELSE b
Greatest(a, b) == IF a >= b THEN a ELSE b
Clamp(n, low, high) == Least(high, Greatest(low, n))
Rounded(n, d) == (2 * n + d) \div (2 * d)
Share(max, percent) == Rounded(max * percent, 100)

WeightNames ==
  {"holdPeriodMax", "absenteeInState", "absenteeOutOfState", "entity", "multiParcel",
   "landUsePriorityMax", "taxDelinquent", "taxSeverityMax", "mortgageMaturity", "loanPressureMax",
   "foreclosure", "recentSeller", "sosDissolved", "sosResolved", "fmvBoostMax", "oosDecayMax",
   "portfolioClusterMax", "zoningWatch", "permitActivity", "nearbyListing", "probateEstate",
   "floodRisk", "judgmentLien", "vacancyProxy", "submarketFitMax"}

DEFAULT_SCORE_WEIGHTS ==
  [holdPeriodMax |-> 40, absenteeInState |-> 15, absenteeOutOfState |-> 25, entity |-> 10,
   multiParcel |-> 10, landUsePriorityMax |-> 15, taxDelinquent |-> 15, taxSeverityMax |-> 8,
   mortgageMaturity |-> 20, loanPressureMax |-> 8, foreclosure |-> 25, recentSeller |-> 8,
   sosDissolved |-> 10, sosResolved |-> 3, fmvBoostMax |-> 5, oosDecayMax |-> 10,
   portfolioClusterMax |-> 8, zoningWatch |-> 12, permitActivity |-> 8, nearbyListing |-> 6,
   probateEstate |-> 18, floodRisk |-> 4, judgmentLien |-> 12, vacancyProxy |-> 7,
   submarketFitMax |-> 4]

\* Signals that make a lead hot; the others the score knows are cold.
HOT_SIGNAL_TYPES ==
  {"tax_delinquent", "mortgage_maturity", "foreclosure", "recent_seller", "sos_dissolved",
   "zoning_change", "permit_activity", "nearby_listing", "probate_estate", "tax_sale",
   "judgment_lien", "vacancy_proxy", "deed_comp"}
SignalTypes == HOT_SIGNAL_TYPES \cup {"sos_resolved", "flood_zone", "related_entity"}

----------------------------------------------------------------------------
\* Facts of the county's record.

\* At least y years held (a year has 365.25 days).
Held(days, y) == 4 * days >= 1461 * y

HoldPoints(days, max) ==
  CASE days = Absent \/ ~Held(days, 3) -> 0
    [] Held(days, 3) /\ ~Held(days, 7) -> Rounded((4 * days - 3 * 1461) * 15 * max, 4 * 1461 * 40)
    [] Held(days, 7) /\ ~Held(days, 10) -> Rounded(25 * max, 40)
    [] Held(days, 10) /\ ~Held(days, 15) -> Rounded(35 * max, 40)
    [] Held(days, 15) -> max

\* isAbsenteeOwner: mail to a box, to an address unlike the parcel's, or out of state.
Away(m) ==
  /\ m.street # "none"
  /\ m.street = "box" \/ m.situs = "none" \/ ~m.alike \/ m.state = "away"

OutOfState(m) == m.state = "away"

AbsenteePoints(m, w) ==
  IF ~Away(m) THEN 0 ELSE IF OutOfState(m) THEN w.absenteeOutOfState ELSE w.absenteeInState

TaxPoints(p, w) == IF p.tax > 0 /\ ~p.paid THEN w.taxDelinquent ELSE 0

TaxSeverity(tax, years, max) ==
  LET base == CASE tax >= 100000 -> max
                [] tax < 100000 /\ tax >= 50000 -> Share(max, 75)
                [] tax < 50000 /\ tax >= 15000 -> Share(max, 50)
                [] tax < 15000 /\ tax >= 5000 -> Share(max, 30)
                [] tax < 5000 -> 0
  IN IF tax <= 0 THEN 0
     ELSE IF years >= 2 THEN Least(max, base + IF years >= 3 THEN 2 ELSE 1)
     ELSE base

\* A loan of at least so many percent of the market value, if that is known.
Levered(loan, fmv, percent) == fmv > 0 /\ 100 * loan >= percent * fmv

\* With a loan that matures: by leverage, or else by the loan's size.
LoanPressure(loan, fmv, max) ==
  IF loan <= 0 THEN Share(max, 25)
  ELSE IF Levered(loan, fmv, 75) THEN max
  ELSE IF Levered(loan, fmv, 50) THEN Share(max, 70)
  ELSE IF Levered(loan, fmv, 30) THEN Share(max, 40)
  ELSE IF loan >= 2000000 THEN max
  ELSE IF loan >= 750000 THEN Share(max, 60)
  ELSE Share(max, 30)

FmvBoost(fmv, max) ==
  CASE fmv >= 2000000 -> max
    [] fmv < 2000000 /\ fmv >= 750000 -> Share(max, 70)
    [] fmv < 750000 /\ fmv >= 250000 -> Share(max, 40)
    [] fmv < 250000 -> 0

OosDecay(p, w) ==
  IF AbsenteePoints(p.mail, w) <= 0 \/ ~OutOfState(p.mail) \/ p.days = Absent \/ ~Held(p.days, 7) THEN 0
  ELSE IF Held(p.days, 20) THEN w.oosDecayMax
  ELSE IF Held(p.days, 15) THEN Share(w.oosDecayMax, 80)
  ELSE IF Held(p.days, 10) THEN Share(w.oosDecayMax, 55)
  ELSE Share(w.oosDecayMax, 35)

ClusterPoints(related, max) ==
  IF related >= 10 THEN max ELSE IF related >= 6 THEN Share(max, 75)
  ELSE IF related >= 3 THEN Share(max, 50) ELSE 0

----------------------------------------------------------------------------
\* Signals.

IfAny(types, signals, points) == IF types \cap signals # {} THEN points ELSE 0

SosBoost(signals, w) ==
  IF "sos_dissolved" \in signals THEN w.sosDissolved
  ELSE IfAny({"sos_resolved"}, signals, w.sosResolved)

\* The components a signal earns by itself: which types, and how many points.
SignalPoints(signals, w) ==
  [mortgageMaturity |-> IfAny({"mortgage_maturity"}, signals, w.mortgageMaturity),
   foreclosure |-> IfAny({"foreclosure", "tax_sale"}, signals, w.foreclosure),
   recentSeller |-> IfAny({"recent_seller", "deed_comp"}, signals, w.recentSeller),
   zoningWatch |-> IfAny({"zoning_change"}, signals, w.zoningWatch),
   permitActivity |-> IfAny({"permit_activity"}, signals, w.permitActivity),
   nearbyListing |-> IfAny({"nearby_listing"}, signals, w.nearbyListing),
   probateEstate |-> IfAny({"probate_estate"}, signals, w.probateEstate),
   floodRisk |-> IfAny({"flood_zone"}, signals, w.floodRisk),
   judgmentLien |-> IfAny({"judgment_lien"}, signals, w.judgmentLien),
   vacancyProxy |-> IfAny({"vacancy_proxy"}, signals, w.vacancyProxy)]

----------------------------------------------------------------------------
\* The components and their sum.

TaxDelinquent(p, w) ==
  Greatest(IfAny({"tax_delinquent"}, p.signals, w.taxDelinquent), TaxPoints(p, w))

\* What a mortgage about to mature adds, and what an amount of tax owed does.
MaturingLoan(p, w) ==
  IF IfAny({"mortgage_maturity"}, p.signals, w.mortgageMaturity) > 0
  THEN LoanPressure(p.loan, p.fmv, w.loanPressureMax) ELSE 0
OwedTax(p, w) ==
  IF TaxDelinquent(p, w) > 0 THEN TaxSeverity(p.tax, p.years, w.taxSeverityMax) ELSE 0

Cluster(p, w) ==
  Greatest(ClusterPoints(p.related, w.portfolioClusterMax),
           IfAny({"related_entity"}, p.signals, Share(w.portfolioClusterMax, 50)))

\* scoreParcel's other components: those no signal touches.
Standing(p, w) ==
  [holdPeriod |-> HoldPoints(p.days, w.holdPeriodMax),
   absentee |-> AbsenteePoints(p.mail, w),
   entity |-> IF p.entity THEN w.entity ELSE 0,
   multiParcel |-> IF p.count >= 3 THEN w.multiParcel ELSE 0,
   landUsePriority |-> Least(Greatest(0, p.landUse), w.landUsePriorityMax),
   fmvBoost |-> FmvBoost(p.fmv, w.fmvBoostMax),
   oosDecay |-> OosDecay(p, w),
   submarketFit |-> IF p.fits THEN w.submarketFitMax ELSE 0]

\* The terms of the sum: those no signal touches, those of signals alone, the others.
StandingSum(f) ==
  f.holdPeriod + f.absentee + f.entity + f.multiParcel + f.landUsePriority + f.fmvBoost + f.oosDecay
  + f.submarketFit
SignalSum(g) ==
  g.mortgageMaturity + g.foreclosure + g.recentSeller + g.zoningWatch + g.permitActivity
  + g.nearbyListing + g.probateEstate + g.floodRisk + g.judgmentLien + g.vacancyProxy
MixedSum(p, w) ==
  TaxDelinquent(p, w) + OwedTax(p, w) + MaturingLoan(p, w) + SosBoost(p.signals, w) + Cluster(p, w)

Sum(p, w) == StandingSum(Standing(p, w)) + SignalSum(SignalPoints(p.signals, w)) + MixedSum(p, w)

\* computeTotal.
Total(p, w) == Least(100, Greatest(0, Sum(p, w)))

----------------------------------------------------------------------------
\* The components of a stored Score row the why-now sentence looks at.
Stored(p, w) ==
  LET g == SignalPoints(p.signals, w)
  IN [foreclosure |-> g.foreclosure, taxDelinquent |-> TaxDelinquent(p, w),
      mortgageMaturity |-> g.mortgageMaturity, zoningWatch |-> g.zoningWatch,
      permitActivity |-> g.permitActivity, nearbyListing |-> g.nearbyListing,
      probateEstate |-> g.probateEstate, judgmentLien |-> g.judgmentLien,
      vacancyProxy |-> g.vacancyProxy, recentSeller |-> g.recentSeller,
      taxSeverity |-> OwedTax(p, w), loanPressure |-> MaturingLoan(p, w),
      submarketFit |-> IF p.fits THEN w.submarketFitMax ELSE 0, oosDecay |-> OosDecay(p, w)]

\* The catalysts it names, from the components of the newest stored row and the signals
\* read when the digest is made, which may be later than those that were scored.
Catalysts(c, signals) ==
  LET Named(types, points, phrase) == IF types \cap signals # {} \/ points > 0 THEN {phrase} ELSE {}
  IN Named({"foreclosure"}, c.foreclosure, "foreclosure activity")
     \cup Named({"tax_delinquent"}, c.taxDelinquent, "possible tax delinquency")
     \cup Named({"mortgage_maturity"}, c.mortgageMaturity, "inferred loan maturity window")
     \cup Named({"zoning_change"}, c.zoningWatch, "nearby zoning / land-use change")
     \cup Named({"permit_activity"}, c.permitActivity, "recent commercial permit activity")
     \cup Named({"nearby_listing"}, c.nearbyListing, "nearby listing / sale activity")
     \cup Named({"probate_estate"}, c.probateEstate, "possible estate / probate")
     \cup Named({"judgment_lien"}, c.judgmentLien, "judgment / lien pressure")
     \cup Named({"vacancy_proxy"}, c.vacancyProxy, "vacancy / lease-roll proxy")
     \cup (IF "deed_comp" \in signals \/ c.recentSeller > 0 THEN {"recent deed / sale comp"}
           ELSE Named({"recent_seller"}, 0, "recent deed / possible 1031 clock"))
     \cup Named({"sos_dissolved"}, 0, "SoS status")
     \cup Named({}, c.taxSeverity, "elevated tax amount")
     \cup Named({}, c.loanPressure, "material loan vs FMV")
     \cup Named({}, c.submarketFit, "priority submarket")
     \cup Named({}, c.oosDecay, "long-hold out-of-state landlord")

\* Whether the digest calls the lead hot, by the same signals.
HotLead(signals) == signals \cap HOT_SIGNAL_TYPES # {}
=============================================================================
