---------------------------- MODULE IndustrialDesk ----------------------------
(***************************************************************************)
(* Industrial buildings: what is known of one, how a client's requirement is   *)
(* matched against them, how much of the stock is verified, and the quarterly   *)
(* report.  A number that is not known is Absent.                             *)
(*                                                                           *)
(* A building says what its parcel is (active, industrial, its submarket, its   *)
(* market value), what its row holds (sf, clear, docks, yard, rail, verified,   *)
(* marked as listed) and whether a signal lists it.                            *)
(***************************************************************************)
EXTENDS Integers, FiniteSets

Absent == -1
Smaller(a, b) == IF a <= b THEN a ELSE b
Larger(a, b) == IF a >= b THEN a ELSE b

----------------------------------------------------------------------------
\* inferFromAssessor: the first field of the county's row that makes sense.
FirstThat(values, Fits(_)) ==
  LET Fit == {i \in DOMAIN values : Fits(values[i])}
  IN IF Fit = {} THEN Absent ELSE values[CHOOSE i \in Fit : \A j \in Fit : i <= j]

Plausible(sf) == sf > 500
Year(y) == 1800 <= y /\ y <= 2100

\* getByPin: what is stored, or else inferred; only what is stored can be verified.
Display(stored, verified, inferred) ==
  [value |-> IF stored # Absent THEN stored ELSE inferred,
   verified |-> stored # Absent /\ verified]

----------------------------------------------------------------------------
\* Requirements.

\* update: a field that is not given stays, one given as null is cleared.
Updated(requirement, body) ==
  [k \in DOMAIN requirement |-> IF k \in DOMAIN body THEN body[k] ELSE requirement[k]]

\* The hard filters; a building whose size is not known meets no bound of size.
Passes(r, b) ==
  /\ r.minSf # Absent => b.sf # Absent /\ b.sf >= r.minSf
  /\ r.maxSf # Absent => b.sf # Absent /\ b.sf <= r.maxSf
  /\ r.rail => b.rail
  /\ r.submarkets # {} => b.submarket \in r.submarkets

ClearPoints(r, b) ==
  IF r.minClear = Absent THEN 0
  ELSE IF b.clear # Absent /\ b.clear >= r.minClear THEN Smaller(30, 3 * (b.clear - r.minClear))
  ELSE -10

\* In hundredths below: docks count by ratio.
DockPoints(r, b) ==
  IF r.minDocks = Absent \/ b.docks = Absent THEN 0
  ELSE Smaller(1500, (800 * b.docks) \div Larger(1, r.minDocks))

YardPoints(r, b) ==
  IF r.minYard = Absent \/ b.yard = Absent THEN 0
  ELSE IF b.yard >= r.minYard THEN Smaller(15, 5 + 2 * (b.yard - r.minYard))
  ELSE -5

\* softScore, in hundredths.
SoftScore(r, b) == Larger(0, 100 * (40 + ClearPoints(r, b) + YardPoints(r, b)) + DockPoints(r, b))

Listed(b) == b.marked \/ b.signalled

\* Off-market buildings get 25 points.
MatchScore(r, b) == SoftScore(r, b) + IF Listed(b) THEN 0 ELSE 2500

\* Buildings of which something is known.
Known(b) == b.sf # Absent \/ b.clear # Absent \/ b.docks # Absent \/ b.yard # Absent

Matches(r, buildings) == {b \in buildings : Known(b) /\ b.active /\ Passes(r, b)}

\* b comes before c: by score, and of equal ones the off-market one.
Before(r, b, c) ==
  \/ MatchScore(r, b) > MatchScore(r, c)
  \/ MatchScore(r, b) = MatchScore(r, c) /\ ~Listed(b) /\ Listed(c)

\* The first of the list.
Answer(r, buildings, limit) ==
  {b \in Matches(r, buildings) :
     Cardinality({c \in Matches(r, buildings) : Before(r, c, b)}) < limit}

----------------------------------------------------------------------------
\* Coverage and the report.

\* At least twenty thousand square feet; of unknown size, at least a million dollars.
Eligible(b) ==
  /\ b.active /\ b.industrial
  /\ IF b.sf # Absent THEN b.sf >= 20000 ELSE b.fmv >= 1000000

VerifiedClear(b) == b.clear > 0 /\ b.verified

\* Rounded to a tenth of a percent.
Permille(n, of) == IF of = 0 THEN 0 ELSE (2000 * n + of) \div (2 * of)

Bucket(buildings, s) ==
  LET In == {b \in buildings : Eligible(b) /\ b.submarket = s}
  IN [submarket |-> s, eligible |-> Cardinality(In), verified |-> Cardinality({b \in In : VerifiedClear(b)}),
      permille |-> Permille(Cardinality({b \in In : VerifiedClear(b)}), Cardinality(In))]

\* bySubmarket: a bucket for each submarket with an eligible building.
Coverage(buildings) ==
  {Bucket(buildings, s) : s \in {b.submarket : b \in {c \in buildings : Eligible(c)}}}

\* The rows of the report: every verified building of known height, whatever its size
\* and whether its parcel is still active.
Reported(buildings, s) == {b \in buildings : b.verified /\ b.clear # Absent /\ b.submarket = s}

ReportRow(buildings, s) ==
  LET In == Reported(buildings, s)
  IN [submarket |-> s, count |-> Cardinality(In),
      rail |-> Permille(Cardinality({b \in In : b.rail}), Cardinality(In))]
=============================================================================
