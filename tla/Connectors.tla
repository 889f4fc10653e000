------------------------------ MODULE Connectors ------------------------------
(***************************************************************************)
(* What each signal connector makes of the rows of its feed: which rows it    *)
(* takes (fetch) and which drafts of signals a row becomes (normalize).       *)
(*                                                                           *)
(* Texts are abstract: a row says what the code's patterns find in it.  Days  *)
(* count from the oldest; a number that is missing is Absent.                 *)
(***************************************************************************)
EXTENDS Integers, FiniteSets

Absent == -1

\* A draft; the source's reference is what makes its signal unique.
Draft(source, ref, type, subtype, weight, row) ==
  [source |-> source, ref |-> ref, type |-> type, subtype |-> subtype, weight |-> weight,
   name |-> row.name, place |-> row.place,
   dot |-> IF source = "fmcsa" THEN row.dot ELSE "none"]

Lesser(a, b) == IF a < b THEN a ELSE b

----------------------------------------------------------------------------
\* FMCSA census: new carriers, and fleets that grow or shrink enough.

FmcsaFetch(rows) == {r \in rows : r.local}

\* At least three units and a fifth more; at least thirty percent fewer.
Grows(units, prior) == units - prior >= 3 /\ 100 * (units - prior) >= 20 * prior
Contracts(units, prior) == units < prior /\ 100 * (prior - units) >= 30 * prior

\* Ten and twice the growth in percent, forty at most (the percentage rounded down).
GrowthWeight(units, prior) == Lesser(40, 10 + 2 * ((100 * (units - prior)) \div prior))

FmcsaDrafts(r) ==
  IF r.isNew \/ r.prior = Absent
  THEN {Draft("fmcsa", <<"new", r.dot, r.month>>, "NEW_CARRIER", "", 25, r)}
  ELSE IF r.prior <= 0 THEN {}
  ELSE IF Grows(r.units, r.prior)
  THEN {Draft("fmcsa", <<"growth", r.dot, r.month>>, "FLEET_CHANGE", "growth",
              GrowthWeight(r.units, r.prior), r)}
  ELSE IF Contracts(r.units, r.prior)
  THEN {Draft("fmcsa", <<"contraction", r.dot, r.month>>, "FLEET_CHANGE", "contraction", 15, r)}
  ELSE {}

----------------------------------------------------------------------------
\* Import volumes: a consignee that grows, or a new one of some size.

ImportGrows(teu, prior) ==
  IF prior <= 0 THEN teu >= 20
  ELSE teu - prior >= 10 /\ 100 * (teu - prior) >= 25 * prior

ImportsFetch(rows, since) == {r \in rows : r.local /\ r.day >= since}

ImportsDrafts(r) ==
  IF r.local /\ ImportGrows(r.teu, r.prior)
  THEN {Draft("imports", <<r.name, r.day>>, "IMPORT_VOLUME", "growth", 30, r)}
  ELSE {}

----------------------------------------------------------------------------
\* Hiring: eight or more postings for warehouse work, of one company at one place
\* in sixty days.

Window == 60
SurgeSize == 8

\* toRawRecords: postings grouped by place and name; the others are left out.
Surges(postings, since, today) ==
  LET Wanted == {p \in postings : p.fits /\ p.day >= since}
      Recent(k) == {p \in Wanted : <<p.place, p.name>> = k /\ today - p.day <= Window}
      Groups == {<<p.place, p.name>> : p \in Wanted}
  IN {[name |-> k[2], place |-> k[1], count |-> Cardinality(Recent(k)),
       last |-> CHOOSE d \in {p.day : p \in Recent(k)} : \A p \in Recent(k) : p.day <= d] :
        k \in {j \in Groups : Cardinality(Recent(j)) >= SurgeSize}}

\* Surges a feed has counted itself.
CountedSurges(surges) == {g \in surges : g.count >= SurgeSize}

\* normalizeSurge.
HiringDrafts(surge) ==
  IF surge.count >= SurgeSize
  THEN {Draft("hiring", <<surge.name, surge.place, surge.last>>, "HIRING_SURGE",
              "warehouse_production", 25, surge)}
  ELSE {}

----------------------------------------------------------------------------
\* UCC filings, from a feed or joined of the state's two files.

\* What equipment the collateral speaks of; the first that fits decides.
Equipment == <<"material_handling", "production_equipment", "fleet", "forklift">>
EquipmentWeight == <<35, 30, 25, 15>>

\* filterTargetCounties: a filing without a county is let through.
InCounties(filings, since) == {f \in filings : f.county \in {"none", "target"} /\ f.day >= since}

\* The parties whose role says debtor, or says nothing; or else some party; or else
\* the filing's own row.
DebtorRows(filing, parties) ==
  LET Related == {p \in parties : p.number = filing.number}
      Debtors == {p \in Related : p.role \in {"debtor", "none"}}
  IN IF Debtors # {} THEN Debtors
     ELSE IF Related # {} THEN {CHOOSE p \in Related : TRUE}
     ELSE {filing}

\* What row d says, or else row f.
Given(d, f) == IF d # "none" THEN d ELSE f

\* Several debtors make several filings, told apart by the first letters of their names.
Joined(f, rows) ==
  {[f EXCEPT !.number = IF Cardinality(rows) > 1 THEN <<f.number, d.short>> ELSE <<f.number>>,
             !.name = d.name, !.place = Given(d.place, @), !.county = Given(d.county, @)] : d \in rows}

\* joinUccBulkFiles; without a file of filings every debtor is a filing, and those of one
\* number are not told apart.
JoinUcc(filings, parties) ==
  IF filings # {} THEN UNION {Joined(f, DebtorRows(f, parties)) : f \in filings}
  ELSE UNION {Joined(p, {p}) : p \in {q \in parties : q.role \in {"debtor", "none"}}}

UccDrafts(f) ==
  LET Fit == {i \in 1..4 : Equipment[i] \in f.collateral}
      first == CHOOSE i \in Fit : \A j \in Fit : i <= j
  IN IF f.action = "termination"
     THEN {Draft("ucc", f.number, "EQUIPMENT_FINANCING", "termination", 20, f)}
     ELSE IF Fit = {} THEN {Draft("ucc", f.number, "EQUIPMENT_FINANCING", "generic", 8, f)}
     ELSE {Draft("ucc", f.number, "EQUIPMENT_FINANCING", Equipment[first], EquipmentWeight[first], f)}

----------------------------------------------------------------------------
\* SBA loans.

\* filterRows: a state, a county or an industry that is not given keeps no row out.
SbaFetch(rows, since) ==
  {r \in rows : /\ r.state \in {"none", "SC"}
                /\ r.county \in {"none", "target"}
                /\ r.industrial
                /\ r.day >= since}

SbaDrafts(r) ==
  {Draft("sba", <<r.program, r.loan>>, "SBA_LOAN", r.program, IF r.program = "504" THEN 30 ELSE 20, r)}

----------------------------------------------------------------------------
\* Aerial observations of yards.

\* classifyYardEvent: over 85 twice is an overflow, from over 60 to under 20 a
\* contraction.
YardEvent(coverage, prior) ==
  IF prior # Absent /\ coverage > 85 /\ prior > 85 THEN "overflow"
  ELSE IF prior # Absent /\ prior > 60 /\ coverage < 20 THEN "contraction"
  ELSE "observation"

AerialDrafts(obs) ==
  LET kind == YardEvent(obs.coverage, obs.prior)
  IN IF kind = "observation" \/ obs.name = "none" THEN {}
     ELSE {Draft("aerial", <<kind, obs.id>>, "YARD_UTILIZATION", kind,
                 IF kind = "overflow" THEN 35 ELSE 30, obs)}

----------------------------------------------------------------------------
\* ECHO: evaluations of air, classes of waste generators, water permits.

\* normalizeRcraUniverse: what a class is taken for.  "Very small" fits the pattern of the
\* small ones, which is tried before its own; what fits none stands as it is.
Universe(class) ==
  CASE class \in {"LQG", "large"} -> "LQG"
    [] class \in {"SQG", "small", "very small"} -> "SQG"
    [] class \in {"VSQG", "CESQG"} -> "VSQG"
    [] OTHER -> class

\* rcraRank orders them.
RcraRank(class) == CASE class = "LQG" -> 3 [] class = "SQG" -> 2 [] class = "VSQG" -> 1 [] OTHER -> 0

\* fetchRcra: a facility not known yet makes a baseline, a known one whose class is
\* another a change; without a class it is passed over.
RcraEvents(f, class, prior) ==
  IF class = "" \/ prior = class THEN {}
  ELSE IF prior = "none" THEN {<<"rcra_baseline", f, class>>}
  ELSE {<<"rcra_change", f, prior, class>>}

\* fetchCwa: once per permit, as new if it was issued since.
CwaEvents(f, issued, since, seen) ==
  IF seen THEN {}
  ELSE IF issued # Absent /\ issued >= since THEN {<<"npdes_new", f>>}
  ELSE {<<"npdes_baseline", f>>}

\* fetchAir: every evaluation since.
AirEvents(f, evaluated, since) ==
  IF evaluated # Absent /\ evaluated >= since THEN {<<"air_fce", f, evaluated>>} ELSE {}

\* The way a change goes that fetchRcra finds.
Direction(event) ==
  IF event[1] = "rcra_change" /\ RcraRank(event[4]) > RcraRank(event[3]) THEN "rcra_increase" ELSE "rcra_decrease"

\* The reference of an event is its key, and says what it was; what the class
\* changed to is the reference's last part.  The way it changed, the row says.
EchoDraft(event, direction, facility) ==
  LET kind == event[1]
      changed == kind = "rcra_change"
  IN Draft("echo", event,
           IF changed THEN "GENERATOR_STATUS_CHANGE" ELSE "ENV_PERMIT",
           IF changed THEN direction ELSE kind,
           CASE kind = "air_fce" -> 25
             [] kind = "rcra_change" -> 35
             [] kind = "npdes_new" -> 30
             [] kind = "echo_facility" -> 20
             [] OTHER -> 5,
           facility)
=============================================================================
