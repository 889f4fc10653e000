------------------------------ MODULE RuleChecks ------------------------------
(***************************************************************************)
(* The program's pure rules, evaluated over bounded inputs: what they promise  *)
(* and where they do not do what is written beside them.  Every assumption is  *)
(* evaluated by TLC before the run that extends this module.                   *)
(***************************************************************************)
EXTENDS Integers, Sequences, FiniteSets

LOCAL T == INSTANCE FeedbackTuning
LOCAL F == INSTANCE SpaceScoreFormula
LOCAL R == INSTANCE ParcelRecords
LOCAL C == INSTANCE Connectors
LOCAL D == INSTANCE IndustrialDesk
LOCAL V == INSTANCE EventFeeds
LOCAL L == INSTANCE DeskReads
LOCAL P == INSTANCE OwnerPeople
LOCAL U == INSTANCE StartUp

W == T!DEFAULT_SCORE_WEIGHTS

----------------------------------------------------------------------------
\* Score of a parcel.

\* Holding a parcel longer never lowers its hold points, also where the curve meets
\* the next step.
ASSUME HoldPointsNeverFall ==
  \A d \in 0..6000 : T!HoldPoints(d, W.holdPeriodMax) <= T!HoldPoints(d + 1, W.holdPeriodMax)

\* scoring.ts says higher leverage earns more pressure; but a large loan without any
\* known value earns the most, and knowing the value takes points away.
ASSUME KnownValueTakesPoints ==
  /\ T!LoanPressure(2100000, 0, 8) = 8
  /\ T!LoanPressure(2100000, 6000000, 8) = 3
  /\ T!LoanPressure(2100000, 8000000, 8) = 8

\* An owner without a mailing street is never called away, not even out of state.
ASSUME AwayNeedsMail ==
  \A situs \in {"none", "street"}, alike \in BOOLEAN, state \in {"none", "home", "away"} :
    ~T!Away([street |-> "none", situs |-> situs, alike |-> alike, state |-> state])

\* A sale for tax that is stored after the scoring makes its lead hot, and the sentence
\* about it names nothing; one that was there when it was scored is named.
Bare(signals) ==
  [days |-> 0, mail |-> [street |-> "none", situs |-> "none", alike |-> FALSE, state |-> "none"], tax |-> 0,
   paid |-> TRUE, years |-> 0, loan |-> 0, fmv |-> 0, related |-> 0, count |-> 1, landUse |-> 0,
   entity |-> FALSE, fits |-> FALSE, signals |-> signals]
ASSUME LateTaxSaleUnexplained ==
  /\ T!HotLead({"tax_sale"})
  /\ T!Catalysts(T!Stored(Bare({}), W), {"tax_sale"}) = {}
  /\ T!Catalysts(T!Stored(Bare({"tax_sale"}), W), {"tax_sale"}) # {}

----------------------------------------------------------------------------
\* Feedback.

Votes == [samples |-> 5,
          count |-> [c \in {r.of : r \in T!Rules} \cup {"holdPeriod"} |-> 5],
          sum |-> [c \in {r.of : r \in T!Rules} \cup {"holdPeriod"} |-> 125],
          reasons |-> [r \in {"bad_timing", "wrong_asset"} |-> 3]]

\* No two rules are about one weight, so the order of the rules does not matter.
ASSUME OneRuleAWeight == Cardinality({r.weight : r \in T!Rules}) = Cardinality(T!Rules)

\* The votes are read anew on every call: tuning twice on the same votes nudges twice,
\* and goes on so down to the floors.
Again[n \in 0..12] == IF n = 0 THEN W ELSE T!Tuned(Again[n - 1], Votes)
ASSUME SameVotesCountAgain ==
  /\ Again[2].absenteeOutOfState = W.absenteeOutOfState - 4
  /\ \A r \in T!Rules : T!Applies(r, Votes) => Again[12][r.weight] = r.low
  /\ Again[12] = T!Tuned(Again[12], Votes)

----------------------------------------------------------------------------
\* Space score.

Seen == [type : {"t", "u"}, weight : {15, 35}, confidence : {80}, age : {0, 1, 3, 4}, dismissed : BOOLEAN]

\* A signal more never lowers the score, and one dismissed or too old changes nothing.
ASSUME SignalsOnlyAdd ==
  \A a, b, s \in Seen :
    /\ F!Score({a, b}) <= F!Score({a, b, s}) /\ F!Score({a, b, s}) <= 100 * F!Point
    /\ s.dismissed \/ s.age = 4 => F!Score({a, b, s}) = F!Score({a, b})

\* The band shown is never none, although most companies have no score.
ASSUME EverybodyOnWatch == F!BandLabel({}) = "watch"

----------------------------------------------------------------------------
\* Rows of the county.

Rows == [pin : {"p"}, situs : {"none", "main", "other"}, street : {"none", "box", "main"},
         city : {"none", "town"}, state : {"none", "SC", "NC"}, zip : {"none", "z"},
         prop : {"c"}, use : {"u"}, name : {"none", "n"}, entity : {TRUE}]

\* The Owner row and the scoring run agree whether an owner is away if the row gives a
\* street, and differ on some owner of whom the county only gives a city.
ASSUME AbsenteeAgreesOnStreets ==
  /\ \A r \in Rows : r.street # "none" => (T!Away(R!MailSeen(r)) <=> T!Away(R!MailStored(r)))
  /\ \E r \in Rows : r.street = "none" /\ r.city = "town" /\ ~T!Away(R!MailSeen(r)) /\ T!Away(R!MailStored(r))

\* All owners without an address share one cluster key, and only they do.
ASSUME NoAddressOneCluster ==
  \A r \in Rows : R!ClusterKey(r) = <<"UNKNOWN">> <=>
                    r.street = "none" /\ r.city = "none" /\ r.state = "none" /\ r.zip = "none"

\* Where two boxes overlap the first decides, and still every submarket has a place of
\* its own.
ASSUME EverySubmarketReached ==
  \A i \in DOMAIN R!GREENVILLE_SUBMARKETS :
    LET own == R!GREENVILLE_SUBMARKETS[i]
    IN \E lat \in own.south..own.north, lon \in own.west..own.east : R!assignSubmarket(TRUE, lat, lon) = own.id

----------------------------------------------------------------------------
\* Connectors.

\* A fleet that grows enough to be told of has grown by a fifth, so its weight is always
\* the most there is.
ASSUME GrowthIsAlwaysForty ==
  \A prior \in 1..60, units \in 1..120 : C!Grows(units, prior) => C!GrowthWeight(units, prior) = 40

Postings == {[name |-> "n", place |-> "p", day |-> d, fits |-> TRUE] : d \in {3, 10, 17, 24, 31, 38, 45, 52}}

\* Eight postings in sixty days are a surge, but a run looks back thirty days only; and
\* each new posting makes a signal of the same surge under another reference.
ASSUME SurgeNeedsTheWholeWindow ==
  LET Refs(today, since) == {x.ref : x \in UNION {C!HiringDrafts(g) : g \in C!Surges(Postings, since, today)}}
  IN /\ Refs(55, 0) # {}
     /\ Refs(55, 25) = {}
     /\ LET more == Postings \cup {[name |-> "n", place |-> "p", day |-> 54, fits |-> TRUE]}
        IN {x.ref : x \in UNION {C!HiringDrafts(g) : g \in C!Surges(more, 0, 55)}} \cap Refs(55, 0) = {}

Debtor(name, number) ==
  [number |-> number, name |-> name, short |-> name, place |-> "a", role |-> "debtor",
   county |-> "none", day |-> 1, action |-> "filing", collateral |-> {"fleet"}]
UccRefs(filings) == {x.ref : x \in UNION {C!UccDrafts(f) : f \in filings}}

\* With a file of filings two debtors of one filing get a reference each; without it
\* they share one, and the later signal takes the place of the earlier.
ASSUME DebtorsToldApart ==
  LET two == {Debtor("n", "u"), Debtor("m", "u")}
      filing == {[Debtor("none", "u") EXCEPT !.role = "none"]}
  IN /\ Cardinality(UccRefs(C!JoinUcc(filing, two))) = 2
     /\ Cardinality(UccRefs(C!JoinUcc({}, two))) = 1

\* Loans and imports outside the state, the county, the industries or the time are left
\* out; every loan taken is told of, under a reference of its own.
Loans == [state : {"none", "SC", "NC"}, county : {"none", "target", "other"}, industrial : BOOLEAN, day : {1, 5},
          program : {"504", "7a"}, loan : {"l", "m"}, name : {"n"}, place : {"a"}]
ASSUME LoansAllTold ==
  LET taken == C!SbaFetch(Loans, 3)
  IN /\ \A r \in taken : r.state # "NC" /\ r.county # "other" /\ r.industrial /\ r.day = 5
     /\ {x.ref : x \in UNION {C!SbaDrafts(r) : r \in taken}} = {<<p, l>> : p \in {"504", "7a"}, l \in {"l", "m"}}

\* A consignee from nothing needs twenty; growth needs ten and a quarter.
ASSUME ImportBounds ==
  LET row(teu, prior) == [name |-> "n", place |-> "a", day |-> 5, local |-> TRUE, teu |-> teu, prior |-> prior]
      told == {<<teu, prior>> \in (0..60) \X {0, 30, 40, 48} : C!ImportsDrafts(row(teu, prior)) # {}}
  IN told = ((20..60) \X {0}) \cup ((40..60) \X {30}) \cup ((50..60) \X {40}) \cup ((60..60) \X {48})

\* A yard falls from crowded to empty or is over 85 twice; nothing else is told.
ASSUME YardEvents ==
  \A now, prior \in {C!Absent} \cup 0..100 :
    C!YardEvent(now, prior) # "observation" => prior > 60 /\ (now > 85 \/ now < 20)

----------------------------------------------------------------------------
\* Industrial requirements.

Buildings == [active : {TRUE}, industrial : {TRUE}, submarket : {"s"}, fmv : {0}, sf : {D!Absent, 20000, 40000},
              clear : {D!Absent, 20, 36}, docks : {D!Absent, 0, 8}, yard : {D!Absent, 1, 6}, rail : BOOLEAN, verified : BOOLEAN,
              marked : BOOLEAN, signalled : {FALSE}]
Need == [minSf |-> 30000, maxSf |-> D!Absent, minClear |-> 24, minDocks |-> 4, minYard |-> 3, rail |-> FALSE, submarkets |-> {}]

\* requirement-matching.service.ts says off-market ranks above listed: so it does for
\* the same building, but not for every two buildings.
ASSUME OffMarketOnlyBreaksNearTies ==
  LET found == D!Matches(Need, Buildings)
  IN /\ \A b \in found : D!Listed(b) => D!Before(Need, [b EXCEPT !.marked = FALSE], b)
     /\ \E b, c \in found : D!Listed(b) /\ ~D!Listed(c) /\ D!Before(Need, b, c)

\* Not to know a building's yard costs nothing, a yard too small does.
ASSUME UnknownYardBeatsSmallYard ==
  \A b \in {x \in Buildings : x.yard = D!Absent} :
    D!SoftScore(Need, b) > D!SoftScore(Need, [b EXCEPT !.yard = 1])

\* The share verified is never above a thousand permille, and the report counts
\* buildings that the coverage does not.
ASSUME CoverageBounded ==
  \A a, b \in {x \in Buildings : x.docks = 0 /\ x.rail /\ ~x.marked /\ x.yard = 1} :
    \A row \in D!Coverage({a, b}) : row.verified <= row.eligible /\ row.permille <= 1000
ASSUME ReportCountsMore ==
  \E b \in Buildings : ~D!Eligible(b) /\ D!ReportRow({b}, "s").count = 1

----------------------------------------------------------------------------
\* Feeds of events.

Shown(d) == [name |-> "n", day |-> d, venue |-> "v", host |-> "h", topics |-> {"homebuyer", "education"},
             density |-> "none", category |-> "none"]

\* The search drops what is of low density, the calendars of associations keep it.
ASSUME OnlyTheSearchDropsLow ==
  /\ V!EventbriteDrafts(TRUE, {Shown(5)}) = {}
  /\ \A x \in V!IcsDrafts(TRUE, {Shown(5), Shown(99)}, 1) : x.day = 5 /\ x.density = "low" /\ x.category = "education"
  /\ V!IcsDrafts(TRUE, {Shown(5)}, 1) # {}
  /\ V!HtmlDrafts(TRUE, FALSE, {Shown(5)}, 1) = {}

\* The placeholders are always within the window; those of two days are different
\* rows, so that a sync every day fills the table with them.
ASSUME PlaceholdersPileUp ==
  \A d \in 1..30 :
    /\ \A x \in V!SeedDrafts(d) : V!Upcoming(x, d)
    /\ {V!DedupeKey(x) : x \in V!SeedDrafts(d)} \cap {V!DedupeKey(x) : x \in V!SeedDrafts(d + 1)} = {}

Show == [s \in {"eventbrite", "ics", "bisnow"} |-> [up |-> s = "ics", shown |-> {Shown(5)}]]

\* A sync never leaves the calendar empty, unless it broke.
ASSUME SyncLeavesSomething ==
  /\ \A enabled \in SUBSET {"seed", "eventbrite", "ics", "bisnow"} : V!Synced(enabled, Show, TRUE, "none", 1) # {}
  /\ V!Synced({"eventbrite", "ics"}, Show, TRUE, "eventbrite", 1) = {}

----------------------------------------------------------------------------
\* What the agent is shown.

Lot(id, score, types) ==
  [id |-> id, pin |-> id, score |-> score, active |-> TRUE, commercial |-> TRUE, use |-> "u", absentee |-> "yes",
   owner |-> "o", state |-> "NC", zip |-> "z", held |-> 9, submarket |-> "s", contacts |-> {}, leads |-> {}, lat |-> L!Absent, lon |-> 0,
   signals |-> {[type |-> t, ends |-> 10, found |-> 1] : t \in types}]
Lots == {Lot("a", 80, {}), Lot("b", 60, {"tax_sale"}), Lot("c", 40, {"tax_sale"}), Lot("d", 20, {})}
Asked == [minScore |-> 0, use |-> "any", absentee |-> "any", limit |-> 1, offset |-> 0,
          hotOnly |-> TRUE, missingContact |-> FALSE]

\* The filter for hot parcels looks at a page already cut: a page comes short or empty
\* while there is more, though all pages together show every match.  The fallback that
\* reads without SQL shows parcels that are not hot at all.
ASSUME HotFilteredLate ==
  LET Shows(limit, offset) ==
        {m.id : m \in L!ListPage(Lots, [Asked EXCEPT !.limit = limit, !.offset = offset], 1)}
  IN /\ Shows(1, 0) = {}
     /\ \A limit \in 1..4 : UNION {Shows(limit, limit * n) : n \in 0..3} = {"b", "c"}
     /\ L!FallbackPages(Lots, Asked, 5000) = {{"a"}}

\* The day's page counts scores of parcels that are gone, so that more may be scored
\* than there are.
ASSUME ScoredMayExceedStock ==
  LET db == [parcels |-> {[l EXCEPT !.active = l.id # "a"] : l \in Lots}, runs |-> {}, reviews |-> {}, leads |-> {}, signals |-> {}]
  IN L!Today(db, 1).scored > L!Today(db, 1).commercial

\* To go to the next lead of the queue and back is to stay.
Calls == {[id |-> n, pin |-> n, touched |-> n, status |-> IF n = 3 THEN "dead" ELSE "sent",
           until |-> IF n = 5 THEN 9 ELSE 0] : n \in 1..6}
ASSUME NextAndBack ==
  \A some \in SUBSET Calls : \A l \in some :
    LET next == L!Neighbours(some, l.id, 5).next
    IN next # {} => \A n \in next : L!Neighbours(some, n, 5).prev = {l.pin}

\* The market narrative is told of signals that have expired, the other answers are not.
ASSUME NarrativeTellsExpired ==
  LET gone == {[type |-> "tax_sale", ends |-> 2, found |-> 1]}
      db == [parcels |-> {}, leads |-> {}, scores |-> {}, events |-> {}, comps |-> {}, signals |-> gone]
      llm == [enabled |-> TRUE, key |-> TRUE]
  IN /\ \A n \in L!Narrative(db, llm, "SC", 5) : n.catalysts = gone
     /\ L!Ask([length |-> 9], db, "none", llm, 5).facts.catalysts = {}

\* The buckets of a report hold every parcel in stock once, unless there are more than
\* are shown.
ASSUME BucketsHoldAll ==
  LET held(n) == [Lot(n, n, {}) EXCEPT !.held = n, !.use = n % 3]
      stats == L!ReportStats([parcels |-> {held(n) : n \in -1..18}, comps |-> {}], "SC", 0, 9)
      Count(rows, n) == Cardinality({<<r, k>> \in rows \X (1..n) : k <= r.count})
  IN Count(stats.holds, 20) = 20 /\ Count(stats.uses, 20) = 20 /\ stats.absentee.outOfState = 20

\* Without the model nobody learns that a parcel does not exist.
ASSUME UnavailableHidesUnknown ==
  \A key \in BOOLEAN : L!AboutParcel([parcels |-> {}], "p", [enabled |-> FALSE, key |-> key]) = "unavailable"

----------------------------------------------------------------------------
\* The digest's sections and the quarterly report.

\* A section's ranks run from one without a gap, whichever leads are in the digest; and
\* a lead that is hot stands among the estates as soon as its owner's name says estate.
ASSUME SectionRanksRun ==
  LET leads == {[rank |-> n, hot |-> n % 2 = 0, says |-> IF n > 4 THEN {"estate"} ELSE {}] : n \in 1..6}
  IN /\ \A some \in SUBSET leads : \A l \in some :
          LET its == {m \in some : L!Section(m) = L!Section(l)}
          IN {L!SectionRank(some, m) : m \in its} = 1..Cardinality(its)
     /\ L!Section([rank |-> 6, hot |-> TRUE, says |-> {"estate"}]) = "estate"

\* Dense events come first, but only among the twelve soonest.
ASSUME DenseEventCutOff ==
  LET soon == {[day |-> d, status |-> "new", density |-> IF d = 13 THEN "high" ELSE "medium"] : d \in 1..13}
  IN {e.day : e \in L!DigestEvents(soon, 1)} = 1..12

\* Who moved in the digest moved on the page of movers, too; a first score of twenty is
\* a move.
ASSUME MoversAgree ==
  LET rows == {[score |-> s, previous |-> p] : s \in {14, 20, 34, 55}, p \in {L!Absent, 0, 15}}
  IN /\ \A some \in {S \in SUBSET rows : Cardinality(S) \in 1..3 /\ \A x, y \in S : x.score = y.score => x = y} :
          L!Movers(some, 20) \subseteq L!MoversPage(some, 20)
     /\ [score |-> 20, previous |-> L!Absent] \in L!Movers(rows, 20)

\* Leads put off are to be left out of those written to lately, by a status no lead ever
\* has: a building whose lead was put off is missing from the matches.
ASSUME PutOffCountsAsWritten ==
  LET need == [minSf |-> 30000, maxSf |-> D!Absent, minClear |-> 24, minDocks |-> 4, minYard |-> 3,
               rail |-> FALSE, submarkets |-> {}]
      wants == {[client |-> "c", at |-> 1, active |-> TRUE, need |-> need]}
      Hall(leads) == [id |-> "b", active |-> TRUE, sf |-> 40000, clear |-> 36, docks |-> 8, yard |-> 6, rail |-> TRUE,
                   submarket |-> "s", marked |-> FALSE, signalled |-> FALSE, leads |-> leads]
  IN /\ L!RequirementMatches(wants, {Hall({})}, 30, 12) # {}
     /\ \A status \in L!LeadStatuses :
          L!RequirementMatches(wants, {Hall({[at |-> 29, status |-> status]})}, 30, 12) = {}

\* A quarter is mailed once at most, but a mail that fails leaves a report behind.
ASSUME ReportsOutnumberMails ==
  /\ \A mails \in BOOLEAN, fails \in [1..2 -> BOOLEAN], attempts \in 1..2 :
       LET q == L!Quarterly(mails, fails, attempts)
       IN q.mailed <= 1 /\ q.mailed <= q.reports /\ (~mails => q.reports = 1)
  /\ L!Quarterly(TRUE, <<TRUE, FALSE>>, 2) = [reports |-> 2, mailed |-> 1]
  /\ L!Quarterly(TRUE, <<TRUE, FALSE>>, 1) = [reports |-> 1, mailed |-> 0]

----------------------------------------------------------------------------
\* People behind an owner.

Mail(local, domain) == [local |-> local, domain |-> domain, dotted |-> FALSE]
Silent == [agent |-> P!NoName, officers |-> <<>>, members |-> <<>>]
NoSite == [emails |-> {}, phones |-> {}]
Everything == [register |-> 9, site |-> 9]
InfoAt(domain) == P!Person(P!NoName, "website_contact", Mail("info", domain))

\* Two addresses that differ in their domain only become one contact, the later one's.
ASSUME SameLocalPartCollapses ==
  LET rows == P!Refreshed(<<"o">>, <<>>, Silent, <<InfoAt("x"), InfoAt("y")>>, NoSite, Everything)
  IN Len(rows) = 1 /\ rows[1].email = Mail("info", "y")

\* owners.service.ts says that phones of the site are attached to the first contact of
\* the site: they are lost as soon as there is one.
ASSUME PhonesLostWithPeople ==
  LET Phones(people) == LET rows == P!Refreshed(<<"o">>, <<>>, Silent, people, [NoSite EXCEPT !.phones = {"t"}], Everything)
                        IN {rows[i].phone : i \in DOMAIN rows}
  IN Phones(<<>>) = {"t"} /\ Phones(<<InfoAt("x")>>) = {P!None}

\* To refresh again adds nobody; and an agent who is an officer as well is on file as an
\* officer only.
ASSUME RefreshTwiceAddsNobody ==
  \A agent \in {P!NoName, <<"n">>}, officers \in {<<>>, <<<<"n">>>>, <<<<"m">>, <<"n">>>>}, people \in {<<>>, <<InfoAt("x"), InfoAt("y")>>},
     phones \in {{}, {"t"}} :
    LET entity == [agent |-> agent, officers |-> officers, members |-> <<<<"k">>>>]
        Again2(rows) == P!Refreshed(<<"o">>, rows, entity, people, [NoSite EXCEPT !.phones = phones], Everything)
    IN /\ Again2(Again2(<<>>)) = Again2(<<>>)
       /\ agent = <<"n">> /\ officers # <<>> =>
            ~\E i \in DOMAIN Again2(<<>>) : Again2(<<>>)[i].role = "registered_agent"

\* An agent on file as a contact and as the owner's registered agent counts once for that
\* owner, and each parcel once.
ASSUME AgentsCountOnce ==
  LET stock == {[id |-> n, owner |-> "o", active |-> TRUE, commercial |-> TRUE, score |-> 10] : n \in 1..3}
      contact == [role |-> "registered_agent", name |-> <<"n">>, owner |-> "o"]
      rows == P!RankedAgents({contact}, {[id |-> "o", agent |-> <<"n">>], [id |-> "q", agent |-> <<"m">>]}, stock, {}, 15)
  IN rows = {[name |-> <<"n">>, owners |-> 1, parcels |-> 3, score |-> 30]}

\* An invite list may miss the best owner there is: what is read is cut before it is
\* sorted.
ASSUME InviteListMayMissBest ==
  LET lots == {[pin |-> n, score |-> n, active |-> TRUE, commercial |-> TRUE, use |-> "u", entity |-> FALSE,
                absentee |-> TRUE, workedLately |-> FALSE] : n \in 1..4}
      q == [use |-> "any", type |-> "any", minScore |-> 1, limit |-> 1]
      lists == P!InviteLists(lots, q)
  IN {{p.pin : p \in list} : list \in lists} = {{3}, {4}}

\* A capture goes to the nearest parcel, unless more are near than are read; and a pin
\* nobody has loses it its signal and its note.
ASSUME CaptureMayMissNearest ==
  LET away == [pin \in {"near", "far"} |-> IF pin = "near" THEN 10 ELSE 20]
      lots == {[pin |-> pin, active |-> TRUE, commercial |-> TRUE] : pin \in DOMAIN away}
      At(pin) == [valid |-> TRUE, pin |-> pin, note |-> TRUE]
      Pins(most) == {c.pin : c \in P!Captured(lots, At(P!None), away, most)}
  IN /\ Pins(80) = {"near"} /\ Pins(1) = {"near", "far"}
     /\ \A c \in P!Captured(lots, At("gone"), away, 80) : c.pin = "gone" /\ c.signals = 0 /\ c.notes = 0

\* admin.controller.ts says signals honor the delay of a probate lead: the signal is
\* alive, and hot, from the day it is pasted.
ASSUME ProbateDelayNotHeld ==
  LET lot == [Lot("a", 80, {}) EXCEPT !.signals = {P!ProbateSignal("a", 5, 60)}]
  IN L!Hot(lot, 5) /\ (CHOOSE s \in lot.signals : TRUE).visible > 5

----------------------------------------------------------------------------
\* Start.

\* A cron that cannot be registered takes those after it along; the next boot that
\* succeeds registers all.
ASSUME CronsAfterFailureMissing ==
  LET all == {U!Crons[i] : i \in DOMAIN U!Crons}
  IN /\ \A c \in all : U!RegisterCrons(U!RegisterCrons({}, {c}), {}) = all
     /\ U!RegisterCrons({}, {"rod-watch"}) = {"parcels-daily", "enrichment-daily"}
     /\ U!RegisterCrons(all, {"rod-watch"}) = all

\* Seeding never changes what is stored, however far it comes, and the weights read are
\* complete whatever is stored of them.
ASSUME SeedingKeepsStored ==
  LET keys == {"scoreWeights", "digestFmvFloor", "fieldMap"}
      defaults == [k \in {U!DefaultKeys[i] : i \in DOMAIN U!DefaultKeys} |-> "default"]
  IN /\ \A own \in SUBSET keys, upTo \in 0..8 :
          LET after == U!SeedDefaults([k \in own |-> "own"], defaults, upTo)
          IN /\ \A k \in own : after[k] = "own"
             /\ upTo = 8 => \A k \in DOMAIN defaults : U!getJson(after, k, "none") # "none"
     /\ DOMAIN U!MergeScoreWeights([holdPeriodMax |-> 1], W) = DOMAIN W

\* A flag that says no switches the model off, key or not; but a word it does not know
\* says nothing, so that with a key the model is on.
ASSUME OnlyKnownWordsSwitchOff ==
  /\ \A raw \in {"false", "0", "no", "off", "n"}, key \in BOOLEAN : ~U!resolveLlmEnabled(raw, key)
  /\ U!resolveLlmEnabled("disabled", TRUE) /\ ~U!resolveLlmEnabled("true", FALSE)

\* Wherever Redis is named by single variables the result is a connection, and a user
\* without a password is dropped.
ASSUME RedisFromParts ==
  \A host, user, password \in {U!None, "x"} :
    LET names == {"REDIS_URL", "REDIS_PRIVATE_URL", "redis_url", "REDIS_HOST", "REDISPORT", "REDIS_PORT",
                  "REDIS_USER", "REDIS_PASSWORD"}
        env == [n \in names \cup {"REDISHOST", "REDISUSER", "REDISPASSWORD"} |->
                  CASE n = "REDISHOST" -> host [] n = "REDISUSER" -> user [] n = "REDISPASSWORD" -> password
                    [] OTHER -> U!None]
    IN \E c \in U!buildRedisConnection(U!resolveRedisUrl(env)) :
         password = U!None => c.username = U!None /\ (host = U!None => c.host = "localhost")

Get(first) == [method |-> "GET", first |-> first, file |-> FALSE, dotted |-> FALSE]

\* Two controllers are missing from the prefixes: with the bundle beside the API, reading
\* from them gives the page, which the client takes for no JSON.  And screens that share
\* their first segment with a controller answer from the API when they are loaded anew.
ASSUME PageInsteadOfAnswer ==
  /\ {c \in U!Controllers : U!AnsweredBy(Get(c), TRUE) = "page"} = {"industrial", "requirements"}
  /\ \A c \in U!Controllers : U!AnsweredBy(Get(c), FALSE) \in {"api", "health"}
  /\ U!ClientReads([status |-> 200, json |-> FALSE]) = [result |-> "no json", token |-> TRUE]
  /\ {c \in U!Screens : U!AnsweredBy(Get(c), TRUE) = "api"} =
       {"notes", "drive-by", "parcels", "owners", "events", "agents", "admin"}

\* While the server fails any token passes; one that is refused is forgotten, one that
\* could not be tried is kept.
ASSUME AnyTokenWhileFailing ==
  /\ U!Login(FALSE, "wrong", 503) = [authenticated |-> TRUE, token |-> "wrong"]
  /\ \A status \in {401, 403, 404, 429} : U!Started("t", status) = [authenticated |-> FALSE, token |-> U!None]
  /\ U!Started("t", 0) = [authenticated |-> FALSE, token |-> "t"]

\* A draft always comes for a parcel that is known, after three calls at most; what the
\* model gives is used only if it can be read.
ASSUME DraftsAlwaysCome ==
  \A mode \in {"auto", "always", "never"}, enabled \in BOOLEAN, answers \in [1..3 -> {"fails", "prose", "json"}] :
    LET d == U!Drafts(mode, enabled, TRUE, answers)
    IN /\ d.source \in {"llm", "template"} /\ d.calls <= 3
       /\ d.source = "llm" <=> enabled /\ mode # "never" /\ \E n \in 1..3 : answers[n] = "json" /\ \A m \in 1..(n - 1) : answers[m] = "fails"
=============================================================================
