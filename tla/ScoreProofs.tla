------------------------------ MODULE ScoreProofs ------------------------------
(***************************************************************************)
(* Theorems about the two scores.  Of a parcel's score: what its rules promise *)
(* for every parcel and all weights, namely that a signal more never lowers a  *)
(* score, which hot leads the sentence about them explains though their signals *)
(* are newer than their score, and that tuning by votes keeps every weight it   *)
(* touches within its range.  Of a company's space score: what *)
(* becomes of its debounced recomputes, for any companies, signals and numbers *)
(* of batches, and any nightly runs beside them.                             *)
(***************************************************************************)
EXTENDS FeedbackTuning, SpaceScoreRefresh, TLAPS

Weights == [WeightNames -> Nat]

Mail == [street : {"none", "box", "street"}, situs : {"none", "street"}, alike : BOOLEAN,
         state : {"none", "home", "away"}]

\* What the rules read of a parcel.
Facts == [days : Int, mail : Mail, tax : Int, paid : BOOLEAN, years : Int, loan : Int, fmv : Int,
          related : Int, count : Int, landUse : Int, entity : BOOLEAN, fits : BOOLEAN,
          signals : SUBSET SignalTypes]

\* Every share of a weight is a natural number.
LEMMA ShareNat == ASSUME NEW max \in Nat, NEW percent \in Nat PROVE Share(max, percent) \in Nat
<1>1. max * percent \in Nat
  OBVIOUS
<1>2. \A n \in Nat : (2 * n + 100) \div 200 \in Nat
  OBVIOUS
<1>3. QED
  BY <1>1, <1>2 DEF Share, Rounded

\* The pressure of a loan and the severity of a tax are natural numbers.
LEMMA AmountsNat ==
  ASSUME NEW a \in Int, NEW b \in Int, NEW max \in Nat
  PROVE LoanPressure(a, b, max) \in Nat /\ TaxSeverity(a, b, max) \in Nat
<1>1. \A percent \in {25, 30, 40, 50, 60, 70, 75} : Share(max, percent) \in Nat
  BY ShareNat
<1>2. LoanPressure(a, b, max) \in Nat
  BY <1>1 DEF LoanPressure
<1> DEFINE base == CASE a >= 100000 -> max
                     [] a < 100000 /\ a >= 50000 -> Share(max, 75)
                     [] a < 50000 /\ a >= 15000 -> Share(max, 50)
                     [] a < 15000 /\ a >= 5000 -> Share(max, 30)
                     [] a < 5000 -> 0
<1>3. base \in Nat
  BY <1>1
<1>4. TaxSeverity(a, b, max) =
        IF a <= 0 THEN 0
        ELSE IF b >= 2 THEN Least(max, base + IF b >= 3 THEN 2 ELSE 1)
        ELSE base
  BY DEF TaxSeverity
<1> HIDE DEF base
<1>5. TaxSeverity(a, b, max) \in Nat
  BY <1>3, <1>4 DEF Least
<1>6. QED
  BY <1>2, <1>5

\* What no signal touches is a number.
LEMMA StandingInt ==
  ASSUME NEW p \in Facts, NEW w \in Weights
  PROVE Standing(p, w) \in [{"holdPeriod", "absentee", "entity", "multiParcel", "landUsePriority",
                             "fmvBoost", "oosDecay", "submarketFit"} -> Int]
<1>1. \A k \in WeightNames : w[k] \in Nat
  BY DEF Weights
<1>2. /\ w.holdPeriodMax \in Nat /\ w.absenteeInState \in Nat /\ w.absenteeOutOfState \in Nat
      /\ w.entity \in Nat /\ w.multiParcel \in Nat /\ w.landUsePriorityMax \in Nat
      /\ w.fmvBoostMax \in Nat /\ w.oosDecayMax \in Nat /\ w.submarketFitMax \in Nat
  BY <1>1 DEF WeightNames
<1>3. p.days \in Int /\ p.fmv \in Int /\ p.count \in Int /\ p.landUse \in Int
  BY DEF Facts
<1>4. \A n \in Int : Rounded(n, 40) \in Int /\ Rounded(n, 4 * 1461 * 40) \in Int
  BY DEF Rounded
<1>5. \A n, m \in Int : (4 * n - 3 * 1461) * 15 * m \in Int /\ 25 * m \in Int /\ 35 * m \in Int
  OBVIOUS
<1>6. HoldPoints(p.days, w.holdPeriodMax) \in Int
  BY <1>2, <1>3, <1>4, <1>5 DEF HoldPoints, Held
<1>7. AbsenteePoints(p.mail, w) \in Int
  BY <1>2 DEF AbsenteePoints
<1>8. FmvBoost(p.fmv, w.fmvBoostMax) \in Int
  BY <1>2, <1>3, ShareNat DEF FmvBoost
<1>9. OosDecay(p, w) \in Int
  <2>1. w.oosDecayMax \in Nat
    BY <1>2
  <2>2. /\ Share(w.oosDecayMax, 35) \in Nat /\ Share(w.oosDecayMax, 55) \in Nat
        /\ Share(w.oosDecayMax, 80) \in Nat
    BY <2>1, ShareNat
  <2>3. QED
    BY <2>1, <2>2 DEF OosDecay
<1>10. Least(Greatest(0, p.landUse), w.landUsePriorityMax) \in Int
  BY <1>2, <1>3 DEF Least, Greatest
<1>11. QED
  BY <1>2, <1>6, <1>7, <1>8, <1>9, <1>10 DEF Standing

----------------------------------------------------------------------------
\* One signal component: more signals never take its points away.
LEMMA IfAnyGrows ==
  ASSUME NEW S, NEW T, S \subseteq T, NEW types, NEW points \in Nat
  PROVE /\ IfAny(types, S, points) \in Nat /\ IfAny(types, T, points) \in Nat
        /\ IfAny(types, S, points) <= IfAny(types, T, points)
<1>1. types \cap S # {} => types \cap T # {}
  OBVIOUS
<1>2. QED
  BY <1>1 DEF IfAny

\* Another signal never lowers the score of a parcel (of scoreParcel, where a signal
\* counts in the sum, in the tax, in the loan and in the cluster), if a lapsed company is
\* worth no less than a registered one.
THEOREM MoreSignalsNeverHurt ==
  ASSUME NEW w \in Weights, w.sosResolved <= w.sosDissolved,
         NEW p \in Facts, NEW T \in SUBSET SignalTypes, p.signals \subseteq T
  PROVE Total(p, w) <= Total([p EXCEPT !.signals = T], w)
<1> DEFINE q == [p EXCEPT !.signals = T]
           S == p.signals
           f == Standing(p, w)
           g == SignalPoints(S, w)
           h == SignalPoints(T, w)
<1>1. \A k \in WeightNames : w[k] \in Nat
  BY DEF Weights
<1>2. /\ q \in Facts /\ q.signals = T /\ q.days = p.days /\ q.mail = p.mail /\ q.tax = p.tax
      /\ q.paid = p.paid /\ q.years = p.years /\ q.loan = p.loan /\ q.fmv = p.fmv
      /\ q.related = p.related /\ q.count = p.count /\ q.landUse = p.landUse
      /\ q.entity = p.entity /\ q.fits = p.fits
  BY DEF Facts
<1>3. Standing(q, w) = f
  BY <1>2 DEF Standing, OosDecay
<1>4. f \in [{"holdPeriod", "absentee", "entity", "multiParcel", "landUsePriority",
              "fmvBoost", "oosDecay", "submarketFit"} -> Int]
  BY StandingInt
<1> HIDE DEF q, f
<1>5. \A k \in WeightNames : \A types :
        /\ IfAny(types, S, w[k]) \in Nat /\ IfAny(types, T, w[k]) \in Nat
        /\ IfAny(types, S, w[k]) <= IfAny(types, T, w[k])
  BY <1>1, IfAnyGrows
<1>6. \A c \in {"mortgageMaturity", "foreclosure", "recentSeller", "zoningWatch", "permitActivity",
                "nearbyListing", "probateEstate", "floodRisk", "judgmentLien", "vacancyProxy"} :
        g[c] \in Nat /\ h[c] \in Nat /\ g[c] <= h[c]
  BY <1>5 DEF SignalPoints, WeightNames
<1>7. /\ TaxDelinquent(p, w) \in Nat /\ TaxDelinquent(q, w) \in Nat
      /\ TaxDelinquent(p, w) <= TaxDelinquent(q, w)
  <2>1. TaxPoints(q, w) = TaxPoints(p, w) /\ TaxPoints(p, w) \in Nat
    BY <1>1, <1>2 DEF TaxPoints, WeightNames
  <2>2. w.taxDelinquent = w["taxDelinquent"] /\ "taxDelinquent" \in WeightNames
    BY DEF WeightNames
  <2>3. QED
    BY <1>2, <1>5, <2>1, <2>2 DEF TaxDelinquent, Greatest
<1>8. /\ OwedTax(p, w) \in Nat /\ OwedTax(q, w) \in Nat /\ OwedTax(p, w) <= OwedTax(q, w)
  <2>1. w.taxSeverityMax \in Nat
    BY <1>1 DEF WeightNames
  <2>2. TaxSeverity(p.tax, p.years, w.taxSeverityMax) \in Nat
    BY <2>1, AmountsNat DEF Facts
  <2>3. QED
    BY <1>2, <1>7, <2>2 DEF OwedTax
<1>9. /\ MaturingLoan(p, w) \in Nat /\ MaturingLoan(q, w) \in Nat
      /\ MaturingLoan(p, w) <= MaturingLoan(q, w)
  <2>1. w.loanPressureMax \in Nat /\ "mortgageMaturity" \in WeightNames
    BY <1>1 DEF WeightNames
  <2>2. LoanPressure(p.loan, p.fmv, w.loanPressureMax) \in Nat
    BY <2>1, AmountsNat DEF Facts
  <2>3. QED
    BY <1>2, <1>5, <2>1, <2>2 DEF MaturingLoan
<1>10. /\ SosBoost(p.signals, w) \in Nat /\ SosBoost(q.signals, w) \in Nat
       /\ SosBoost(p.signals, w) <= SosBoost(q.signals, w)
  <2>1. w.sosResolved \in Nat /\ w.sosDissolved \in Nat
    BY <1>1 DEF WeightNames
  <2>2. QED
    BY <1>2, <2>1 DEF SosBoost, IfAny
<1>11. Cluster(p, w) \in Nat /\ Cluster(q, w) \in Nat /\ Cluster(p, w) <= Cluster(q, w)
  <2>1. w.portfolioClusterMax \in Nat
    BY <1>1 DEF WeightNames
  <2>2. /\ Share(w.portfolioClusterMax, 50) \in Nat /\ Share(w.portfolioClusterMax, 75) \in Nat
    BY <2>1, ShareNat
  <2>3. ClusterPoints(p.related, w.portfolioClusterMax) \in Nat
    BY <2>1, <2>2 DEF ClusterPoints
  <2>4. QED
    BY <1>2, <2>2, <2>3, IfAnyGrows DEF Cluster, Greatest
<1>12. StandingSum(f) \in Int
  BY <1>4 DEF StandingSum
<1>13. MixedSum(p, w) \in Int /\ MixedSum(q, w) \in Int /\ MixedSum(p, w) <= MixedSum(q, w)
  BY <1>7, <1>8, <1>9, <1>10, <1>11 DEF MixedSum
<1>14. \A e \in {g, h} :
         /\ e.mortgageMaturity \in Nat /\ e.foreclosure \in Nat /\ e.recentSeller \in Nat
         /\ e.zoningWatch \in Nat /\ e.permitActivity \in Nat /\ e.nearbyListing \in Nat
         /\ e.probateEstate \in Nat /\ e.floodRisk \in Nat /\ e.judgmentLien \in Nat
         /\ e.vacancyProxy \in Nat
  <2> HIDE DEF g, h
  <2>1. QED
    BY <1>6
<1>15. SignalSum(g) \in Int /\ SignalSum(h) \in Int /\ SignalSum(g) <= SignalSum(h)
  <2> HIDE DEF g, h
  <2>1. /\ g.mortgageMaturity <= h.mortgageMaturity /\ g.foreclosure <= h.foreclosure
        /\ g.recentSeller <= h.recentSeller /\ g.zoningWatch <= h.zoningWatch
        /\ g.permitActivity <= h.permitActivity /\ g.nearbyListing <= h.nearbyListing
        /\ g.probateEstate <= h.probateEstate /\ g.floodRisk <= h.floodRisk
        /\ g.judgmentLien <= h.judgmentLien /\ g.vacancyProxy <= h.vacancyProxy
    BY <1>6
  <2>2. QED
    BY <1>14, <2>1 DEF SignalSum
<1>16. /\ Sum(p, w) = StandingSum(f) + SignalSum(g) + MixedSum(p, w)
       /\ Sum(q, w) = StandingSum(f) + SignalSum(h) + MixedSum(q, w)
  BY <1>2, <1>3 DEF Sum, f
<1> HIDE DEF g, h
<1>17. Sum(p, w) \in Int /\ Sum(q, w) \in Int /\ Sum(p, w) <= Sum(q, w)
  BY <1>12, <1>13, <1>15, <1>16
<1>18. QED
  BY <1>17 DEF Total, Least, Greatest, q

----------------------------------------------------------------------------
\* A lead the digest calls hot has a catalyst in its why-now sentence, although the
\* sentence reads the components of the newest stored score and hotness the signals as
\* they are later; unless its only hot signal is a sale for tax, which is named only
\* through its points (why-now.service.ts:64), and the score was stored before it and
\* without a foreclosure, or foreclosures are worth nothing.
THEOREM HotLeadExplained ==
  ASSUME NEW p, NEW w, NEW signals, HotLead(signals)
  PROVE \/ Catalysts(Stored(p, w), signals) # {}
        \/ /\ signals \cap HOT_SIGNAL_TYPES = {"tax_sale"}
           /\ ~(w.foreclosure > 0) \/ p.signals \cap {"foreclosure", "tax_sale"} = {}
<1> DEFINE c == Stored(p, w)
<1>1. ASSUME w.foreclosure > 0, p.signals \cap {"foreclosure", "tax_sale"} # {}
      PROVE Catalysts(c, signals) # {}
  <2>1. c.foreclosure = SignalPoints(p.signals, w).foreclosure
    BY DEF Stored
  <2>2. SignalPoints(p.signals, w).foreclosure = w.foreclosure
    BY <1>1 DEF SignalPoints, IfAny
  <2> HIDE DEF c
  <2>3. "foreclosure activity" \in Catalysts(c, signals)
    BY <1>1, <2>1, <2>2 DEF Catalysts
  <2>4. QED
    BY <2>3
<1> HIDE DEF c
<1>2. ASSUME NEW type \in signals, type \in HOT_SIGNAL_TYPES, type # "tax_sale"
      PROVE Catalysts(c, signals) # {}
  <2>1. CASE type \in {"deed_comp", "recent_seller"}
    <3>1. \/ "recent deed / sale comp" \in Catalysts(c, signals)
          \/ "recent deed / possible 1031 clock" \in Catalysts(c, signals)
      BY <1>2, <2>1 DEF Catalysts
    <3>2. QED
      BY <3>1
  <2>2. type = "foreclosure" => "foreclosure activity" \in Catalysts(c, signals)
    BY <1>2 DEF Catalysts
  <2>3. type = "tax_delinquent" => "possible tax delinquency" \in Catalysts(c, signals)
    BY <1>2 DEF Catalysts
  <2>4. type = "mortgage_maturity" => "inferred loan maturity window" \in Catalysts(c, signals)
    BY <1>2 DEF Catalysts
  <2>5. type = "zoning_change" => "nearby zoning / land-use change" \in Catalysts(c, signals)
    BY <1>2 DEF Catalysts
  <2>6. type = "permit_activity" => "recent commercial permit activity" \in Catalysts(c, signals)
    BY <1>2 DEF Catalysts
  <2>7. type = "nearby_listing" => "nearby listing / sale activity" \in Catalysts(c, signals)
    BY <1>2 DEF Catalysts
  <2>8. type = "probate_estate" => "possible estate / probate" \in Catalysts(c, signals)
    BY <1>2 DEF Catalysts
  <2>9. type = "judgment_lien" => "judgment / lien pressure" \in Catalysts(c, signals)
    BY <1>2 DEF Catalysts
  <2>10. type = "vacancy_proxy" => "vacancy / lease-roll proxy" \in Catalysts(c, signals)
    BY <1>2 DEF Catalysts
  <2>11. type = "sos_dissolved" => "SoS status" \in Catalysts(c, signals)
    BY <1>2 DEF Catalysts
  <2>12. QED
    BY <1>2, <2>1, <2>2, <2>3, <2>4, <2>5, <2>6, <2>7, <2>8, <2>9, <2>10, <2>11 DEF HOT_SIGNAL_TYPES
<1>3. ASSUME Catalysts(c, signals) = {} PROVE signals \cap HOT_SIGNAL_TYPES = {"tax_sale"}
  BY <1>2, <1>3 DEF HotLead
<1>4. QED
  BY <1>1, <1>3 DEF c

----------------------------------------------------------------------------
\* No weight has two rules.
LEMMA OneRule == ASSUME NEW r \in Rules, NEW s \in Rules, r.weight = s.weight PROVE r = s
BY DEF Rules, Rule

\* A weight within its range stays there under tuning and is never raised, whatever the
\* votes and however often the same votes are counted ("one bad week cannot zero a
\* catalyst", feedback-tuning.service.ts:21); entity, multiParcel and submarketFit may
\* reach zero.
THEOREM TunedStaysInRange ==
  ASSUME NEW w \in [WeightNames -> Int], NEW votes, NEW r \in Rules, w[r.weight] \in r.low..r.high
  PROVE Tuned(w, votes)[r.weight] \in r.low..w[r.weight]
<1> DEFINE k == r.weight
           Chosen == CHOOSE s \in Rules : s.weight = k /\ Applies(s, votes)
<1>1. /\ k \in WeightNames /\ r.low \in Int /\ r.high \in Int /\ r.by \in Nat /\ r.low <= r.high
  BY DEF Rules, Rule, WeightNames
<1>2. CASE votes.samples >= MinSamples /\ \E s \in Rules : s.weight = k /\ Applies(s, votes)
  <2>1. Chosen \in Rules /\ Chosen.weight = k
    BY <1>2
  <2>2. Chosen = r
    BY <2>1, OneRule
  <2>3. Tuned(w, votes)[k] = Clamp(w[k] - r.by, r.low, r.high)
    BY <1>1, <1>2, <2>2 DEF Tuned
  <2>4. QED
    BY <1>1, <2>3 DEF Clamp, Least, Greatest
<1>3. CASE ~(votes.samples >= MinSamples /\ \E s \in Rules : s.weight = k /\ Applies(s, votes))
  BY <1>1, <1>3 DEF Tuned
<1>4. QED
  BY <1>2, <1>3

\* The weights the system starts with are within the ranges.
THEOREM DefaultsInRange == \A r \in Rules : DEFAULT_SCORE_WEIGHTS[r.weight] \in r.low..r.high
BY DEF Rules, Rule, DEFAULT_SCORE_WEIGHTS

----------------------------------------------------------------------------
(* The space score: recomputes, debounced.                                  *)

\* Company c is on its way to a recompute that is yet to read its signals.
OnItsWay(c) ==
  \/ c \in stored
  \/ c \in pending /\ timer
  \/ \E t \in tasks : t.company = c /\ t.at = "signals"

\* Every unread company is on its way, until the first failure.
IInv ==
  /\ failures \in Nat
  /\ failures = 0 => \A c \in unread : OnItsWay(c)

----------------------------------------------------------------------------
(* A step that fails nothing keeps the invariant if it leaves each unread     *)
(* company on its way.                                                      *)
LEMMA KeptWhenOnTheWay ==
  ASSUME IInv, UNCHANGED failures,
         \A c \in unread' : (c \in unread => OnItsWay(c)) => OnItsWay(c)'
  PROVE  IInv'
BY DEF IInv

(* The signal is stored and its company is still to be enqueued.            *)
LEMMA StoreKeeps ==
  ASSUME IInv, NEW s \in Signals, NEW d \in Companies, Store(s, d)
  PROVE  IInv'
<1>1. ASSUME NEW c \in unread', c \in unread => OnItsWay(c) PROVE OnItsWay(c)'
  <2>1. CASE c = d
    BY <2>1 DEF Store, OnItsWay
  <2>2. CASE c # d
    BY <1>1, <2>2 DEF Store, OnItsWay
  <2> QED
    BY <2>1, <2>2
<1> QED
  BY <1>1, KeptWhenOnTheWay DEF Store

(* The company joins those that wait, and the timer is set for all of them.  *)
LEMMA EnqueueKeeps ==
  ASSUME IInv, NEW d \in Companies, Enqueue(d)
  PROVE  IInv'
<1>1. ASSUME NEW c \in unread', c \in unread => OnItsWay(c) PROVE OnItsWay(c)'
  <2>1. OnItsWay(c)
    BY <1>1 DEF Enqueue
  <2>2. CASE c = d
    BY <2>2 DEF Enqueue, OnItsWay
  <2>3. CASE c # d
    BY <2>1, <2>3 DEF Enqueue, OnItsWay
  <2> QED
    BY <2>2, <2>3
<1> QED
  BY <1>1, KeptWhenOnTheWay DEF Enqueue

(* Every company that waits gets a recompute when the timer fires.          *)
LEMMA FireKeeps ==
  ASSUME IInv, Fire
  PROVE  IInv'
<1>1. PICK b \in FreeBatches : tasks' = tasks \cup {Recompute(c, b) : c \in pending}
  BY DEF Fire
<1>2. ASSUME NEW c \in unread', c \in unread => OnItsWay(c) PROVE OnItsWay(c)'
  <2>1. OnItsWay(c)
    BY <1>2 DEF Fire
  <2>2. CASE c \in pending
    <3>1. Recompute(c, b) \in tasks'
      BY <1>1, <2>2
    <3>2. Recompute(c, b).company = c /\ Recompute(c, b).at = "signals"
      BY DEF Recompute
    <3> QED
      BY <3>1, <3>2 DEF OnItsWay
  <2>3. CASE c \notin pending
    BY <1>1, <2>1, <2>3 DEF Fire, OnItsWay
  <2> QED
    BY <2>2, <2>3
<1> QED
  BY <1>2, KeptWhenOnTheWay DEF Fire

(* A recompute that goes on or ends takes no other one from its company, and  *)
(* once it has read the signals its company has none unread.                 *)
LEMMA TaskKeeps ==
  ASSUME IInv, NEW t \in tasks, TaskStep(t)
  PROVE  IInv'
<1>1. /\ tasks \ {t} \subseteq tasks'
      /\ UNCHANGED <<stored, pending, timer, failures>>
      /\ unread' \subseteq unread
      /\ t.at = "signals" => t.company \notin unread'
  BY DEF TaskStep, ReadSignals, ReadExisting, Upsert, Step
<1>2. ASSUME NEW c \in unread', c \in unread => OnItsWay(c) PROVE OnItsWay(c)'
  <2>1. OnItsWay(c)
    BY <1>1, <1>2
  <2>2. CASE \E u \in tasks : u.company = c /\ u.at = "signals"
    <3>1. PICK u \in tasks : u.company = c /\ u.at = "signals"
      BY <2>2
    <3>2. u # t
      BY <1>1, <3>1
    <3> QED
      BY <1>1, <3>1, <3>2 DEF OnItsWay
  <2>3. CASE ~ \E u \in tasks : u.company = c /\ u.at = "signals"
    BY <1>1, <2>1, <2>3 DEF OnItsWay
  <2> QED
    BY <2>2, <2>3
<1> QED
  BY <1>1, <1>2, KeptWhenOnTheWay

(* The night adds recomputes and takes none away.                           *)
LEMMA NightKeeps ==
  ASSUME IInv, StartNight \/ NightNext
  PROVE  IInv'
<1>1. tasks \subseteq tasks' /\ UNCHANGED <<stored, pending, timer, unread, failures>>
  BY DEF StartNight, NightNext
<1>2. ASSUME NEW c \in unread', c \in unread => OnItsWay(c) PROVE OnItsWay(c)'
  BY <1>1, <1>2 DEF OnItsWay
<1> QED
  BY <1>1, <1>2, KeptWhenOnTheWay

(* The invariant holds in every state.                                      *)
THEOREM InvariantHolds == Spec => []IInv
<1>1. Init => IInv
  BY DEF Init, IInv
<1>2. ASSUME IInv, [Next]_vars PROVE IInv'
  <2>1. CASE \E t \in tasks : FailTask(t)
    BY <1>2, <2>1 DEF FailTask, IInv
  <2>2. CASE Crash
    BY <1>2, <2>2 DEF Crash, IInv
  <2>3. CASE UNCHANGED vars
    BY <1>2, <2>3 DEF vars, memory, IInv, OnItsWay
  <2> QED
    BY <1>2, <2>1, <2>2, <2>3, StoreKeeps, EnqueueKeeps, FireKeeps, TaskKeeps, NightKeeps
       DEF Next
<1> QED
  BY <1>1, <1>2, PTL DEF Spec

(* SpaceScoreService.enqueue: while nothing fails, no burst is coalesced      *)
(* away.                                                                    *)
THEOREM NoBurstLost == Spec => []NoGainForgotten
<1>1. IInv => NoGainForgotten
  BY DEF IInv, NoGainForgotten, OnItsWay
<1> QED
  BY <1>1, InvariantHolds, PTL

----------------------------------------------------------------------------
(* Types                                                                   *)

Tasks == [company : Companies, batch : Nightly..MaxBatches,
          at : {"signals", "existing", "upsert"},
          signals : SUBSET Signals, previous : SUBSET Signals]

Memory == [running : BOOLEAN, left : SUBSET Companies]

Scores == [score : SUBSET Signals, previous : SUBSET Signals]

(* A recompute made for a batch or for the night is one of the tasks.        *)
LEMMA RecomputeIsTask ==
  ASSUME SpaceScoreAssumption, NEW c \in Companies, NEW b \in Nightly..MaxBatches
  PROVE  Recompute(c, b) \in Tasks
BY DEF Recompute, Tasks

(* What the statements of a recompute make of a task and of the scores.      *)
LEMMA TaskTypes ==
  ASSUME TypeOK, NEW t \in tasks, TaskStep(t)
  PROVE  TypeOK'
<1>1. t \in Tasks
  BY DEF TypeOK, Tasks
<1>2. spaceScore \in [Companies -> Scores]
  BY DEF TypeOK, Scores
<1>3. CASE ReadSignals(t)
  <2>1. [t EXCEPT !.at = "existing", !.signals = SignalsOf(t.company)] \in Tasks
    BY <1>1 DEF Tasks, SignalsOf
  <2> QED
    BY <1>3, <2>1 DEF TypeOK, Tasks, ReadSignals, Step
<1>4. CASE ReadExisting(t)
  <2>1. spaceScore[t.company].score \in SUBSET Signals
    BY <1>1, <1>2 DEF Tasks, Scores
  <2>2. [t EXCEPT !.at = "upsert", !.previous = spaceScore[t.company].score] \in Tasks
    BY <1>1, <2>1 DEF Tasks
  <2> QED
    BY <1>4, <2>2 DEF TypeOK, Tasks, ReadExisting, Step
<1>5. CASE Upsert(t)
  <2>1. [score |-> t.signals, previous |-> t.previous] \in Scores
    BY <1>1 DEF Tasks, Scores
  <2>2. spaceScore' \in [Companies -> Scores]
    BY <1>2, <1>5, <2>1 DEF Upsert
  <2> QED
    BY <1>5, <2>2 DEF TypeOK, Upsert, Scores
<1> QED
  BY <1>3, <1>4, <1>5 DEF TaskStep

(* The nightly run adds one recompute at a time.                            *)
LEMMA NightTypes ==
  ASSUME SpaceScoreAssumption, TypeOK, NightNext
  PROVE  TypeOK'
<1>1. nightly \in Memory /\ NightOff \in Memory
  BY DEF TypeOK, Memory, NightOff
<1>2. tasks \subseteq Tasks
  BY DEF TypeOK, Tasks
<1>3. CASE nightly.left = {}
  BY <1>1, <1>3 DEF TypeOK, Memory, NightNext
<1>4. CASE nightly.left # {}
  <2>1. PICK c \in nightly.left :
          /\ nightly' = [nightly EXCEPT !.left = @ \ {c}]
          /\ tasks' = tasks \cup {Recompute(c, Nightly)}
    BY <1>4 DEF NightNext
  <2>2. c \in Companies /\ Nightly \in Nightly..MaxBatches
    BY <1>1 DEF Memory, Nightly, SpaceScoreAssumption
  <2>3. Recompute(c, Nightly) \in Tasks
    BY <2>2, RecomputeIsTask
  <2>4. nightly' \in Memory
    BY <1>1, <2>1 DEF Memory
  <2> QED
    BY <1>2, <2>1, <2>3, <2>4 DEF TypeOK, Tasks, Memory, NightNext
<1> QED
  BY <1>3, <1>4

(* Scores, waiting companies and recomputes keep their types for any companies, *)
(* signals and batches (SpaceScoreService).                                    *)
THEOREM TypeCorrect == Spec => []TypeOK
<1> USE SpaceScoreAssumption
<1>1. ASSUME Init PROVE TypeOK
  <2>1. company \in [Signals -> Companies \cup {Nobody}] /\ spaceScore \in [Companies -> Scores]
    BY <1>1 DEF Init, Scores
  <2>2. stores \in 0..MaxStores /\ failures \in 0..MaxFailures
    BY <1>1 DEF Init, SpaceScoreAssumption
  <2>3. timer \in BOOLEAN /\ nightly \in Memory
    BY <1>1 DEF Init, NightOff, Memory
  <2>4. stored = {} /\ pending = {} /\ tasks = {} /\ unread = {}
    BY <1>1 DEF Init
  <2> QED
    BY <2>1, <2>2, <2>3, <2>4, Zenon DEF TypeOK, Scores, Memory
<1>2. ASSUME TypeOK, [Next]_vars PROVE TypeOK'
  <2>1. ASSUME NEW s \in Signals, NEW c \in Companies, Store(s, c) PROVE TypeOK'
    BY <1>2, <2>1 DEF TypeOK, Store, SpaceScoreAssumption
  <2>2. ASSUME NEW c \in Companies, Enqueue(c) PROVE TypeOK'
    BY <1>2, <2>2 DEF TypeOK, Enqueue
  <2>3. CASE Fire
    <3>1. PICK b \in FreeBatches : tasks' = tasks \cup {Recompute(c, b) : c \in pending}
      BY <2>3 DEF Fire
    <3>2. b \in Nightly..MaxBatches
      BY <3>1 DEF FreeBatches, Nightly, SpaceScoreAssumption
    <3>3. \A c \in pending : Recompute(c, b) \in Tasks
      BY <1>2, <3>2, RecomputeIsTask DEF TypeOK
    <3>4. tasks' \subseteq Tasks
      BY <1>2, <3>1, <3>3 DEF TypeOK, Tasks
    <3>5. timer' \in BOOLEAN /\ pending' = {}
      BY <2>3 DEF Fire
    <3> QED
      BY <1>2, <2>3, <3>4, <3>5, Zenon DEF TypeOK, Fire, Tasks
  <2>4. CASE \E t \in tasks : TaskStep(t)
    BY <1>2, <2>4, TaskTypes
  <2>5. CASE \E t \in tasks : FailTask(t)
    BY <1>2, <2>5 DEF TypeOK, FailTask, NightOff, SpaceScoreAssumption
  <2>6. CASE StartNight
    BY <1>2, <2>6 DEF TypeOK, StartNight
  <2>7. CASE NightNext
    BY <1>2, <2>7, NightTypes
  <2>8. CASE Crash
    <3>1. failures' \in 0..MaxFailures
      BY <1>2, <2>8 DEF TypeOK, Crash, SpaceScoreAssumption
    <3>2. timer' \in BOOLEAN /\ nightly' \in Memory
      BY <2>8 DEF Crash, NightOff, Memory
    <3>3. stored' = {} /\ pending' = {} /\ tasks' = {}
      BY <2>8 DEF Crash
    <3> QED
      BY <1>2, <2>8, <3>1, <3>2, <3>3, Zenon DEF TypeOK, Crash, Memory
  <2>9. CASE UNCHANGED vars
    BY <1>2, <2>9 DEF TypeOK, vars, memory
  <2> QED
    BY <1>2, <2>1, <2>2, <2>3, <2>4, <2>5, <2>6, <2>7, <2>8, <2>9 DEF Next
<1> QED
  BY <1>1, <1>2, PTL DEF Spec
=============================================================================
