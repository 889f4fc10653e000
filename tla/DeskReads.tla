------------------------------ MODULE DeskReads ------------------------------
(***************************************************************************)
(* What the agent is shown: lists of parcels and leads, the day's page, the   *)
(* sections of the digest, rankings, and the facts the language model answers  *)
(* from.  Each is a query: which rows, in which order, how many, and what is   *)
(* left out only after they were counted.                                     *)
(*                                                                           *)
(* Times are days; a signal without an end expires on no day (Never).  Where    *)
(* rows are ordered their keys differ here: the database puts equal ones in    *)
(* any order.                                                                *)
(***************************************************************************)
EXTENDS ScoreRules, Sequences, FiniteSets

LOCAL D == INSTANCE IndustrialDesk

Never == 1000000

\* The rows from offset on, at most limit of them, the greatest key first.
Page(rows, Key(_), offset, limit) ==
  {r \in rows : LET ahead == Cardinality({q \in rows : Key(q) > Key(r)})
                IN offset <= ahead /\ ahead < offset + limit}
First(rows, Key(_), limit) == Page(rows, Key, 0, limit)

\* At most limit of the rows, no order being asked for.
Any(rows, limit) == {S \in SUBSET rows : Cardinality(S) = Least(limit, Cardinality(rows))}

Alive(s, today) == s.ends > today
Types(parcel, today) == {s.type : s \in {t \in parcel.signals : Alive(t, today)}}
Hot(parcel, today) == Types(parcel, today) \cap HOT_SIGNAL_TYPES # {}

InStock(parcel) == parcel.active /\ parcel.commercial

----------------------------------------------------------------------------
\* ParcelsService: a parcel's score is that of its newest Score row, or Absent;
\* absentee is "none" without an owner.

Scored(parcel, min) == min > 0 => parcel.score # Absent /\ parcel.score >= min
OfUse(parcel, use) == use # "any" => parcel.use = use
AbsenteeIs(parcel, absentee) == absentee # "any" => parcel.absentee = absentee
ByScore(parcel) == parcel.score

Listable(parcels, q) ==
  {p \in parcels : InStock(p) /\ Scored(p, q.minScore) /\ OfUse(p, q.use) /\ AbsenteeIs(p, q.absentee)}

PageSize(q) == Least(q.limit, 200)

\* attachListMeta: two of the filters look at what is attached to the rows of the page.
\* (The list keeps its own copy of HOT_SIGNAL_TYPES, the same types in another order.)
ListMeta(parcel, today) ==
  [id |-> parcel.id, hot |-> Hot(parcel, today), reachable |-> \E c \in parcel.contacts : c.phone \/ c.email,
   why |-> {l.why : l \in First({k \in parcel.leads : k.status # "dead"}, LAMBDA k : k.at, 1)}]

ListPage(parcels, q, today) ==
  {m \in {ListMeta(p, today) : p \in Page(Listable(parcels, q), ByScore, q.offset, PageSize(q))} :
     /\ q.hotOnly => m.hot
     /\ q.missingContact => ~m.reachable}

\* listWithPrismaClient: the same list from at most most rows read in no order (5000),
\* sorted after they are read, and without the two filters.
FallbackPages(parcels, q, most) ==
  {{p.id : p \in Page({r \in taken : Scored(r, q.minScore)}, ByScore, q.offset, PageSize(q))} :
     taken \in Any(Listable(parcels, [q EXCEPT !.minScore = 0]), most)}

\* getByPin: whatever is on file, expired or inactive too; and of the owner's other
\* parcels those in stock.
ByPin(parcels, pin) ==
  {[parcel |-> p, others |-> {o.pin : o \in {x \in parcels : p.owner # "none" /\ x.owner = p.owner /\ InStock(x)}}] :
     p \in {x \in parcels : x.pin = pin}}

\* mapPoints, and the box around them; hundredths of a degree.
MapPoints(parcels, min, limit) ==
  First({p \in parcels : InStock(p) /\ p.lat # Absent /\ Scored(p, min)}, ByScore, Least(limit, 1000))

GreatestOf(S) == CHOOSE x \in S : \A y \in S : y <= x
LeastOf(S) == CHOOSE x \in S : \A y \in S : x <= y

MapBounds(points) ==
  IF points = {} THEN [south |-> 3465, north |-> 3515, west |-> -8265, east |-> -8215]
  ELSE [south |-> LeastOf({p.lat : p \in points}) - 2, north |-> GreatestOf({p.lat : p \in points}) + 2,
        west |-> LeastOf({p.lon : p \in points}) - 2, east |-> GreatestOf({p.lon : p \in points}) + 2]

----------------------------------------------------------------------------
\* LeadsService.list, of a status or of all (no answer to a status there is not): those
\* touched last, not the ones put off unless they are asked for.
LeadStatuses == {"new", "sent", "contacted", "invited", "attended_event", "dead", "deal"}
Awake(lead, today) == lead.until < today
Touched(lead) == lead.touched
LeadList(leads, status, alsoPutOff, today) ==
  IF status \notin LeadStatuses \cup {"any"} THEN {}
  ELSE {First({l \in leads : (status # "any" => l.status = status) /\ (alsoPutOff \/ Awake(l, today))}, Touched, 200)}

\* Leads to call: those at work that are not put off.
Due(lead, today) == lead.status \in {"new", "sent", "contacted"} /\ Awake(lead, today)
CallQueue(leads, today, limit) == First({l \in leads : Due(l, today)}, Touched, limit)

\* neighbors: the leads before and after one in the queue of a hundred.
Neighbours(leads, id, today) ==
  LET queue == CallQueue(leads, today, 100)
      me == {l \in queue : l.id = id}
      Before == {l \in queue : \A m \in me : l.touched > m.touched}
      After == {l \in queue : \A m \in me : l.touched < m.touched}
  IN IF me = {} THEN [prev |-> {}, next |-> {}]
     ELSE [prev |-> {l.pin : l \in First(Before, LAMBDA l : -l.touched, 1)},
           next |-> {l.pin : l \in First(After, Touched, 1)}]

\* addFeedback and snooze take a few words and numbers only.
FeedbackKept(rating, reason) ==
  rating \in {"up", "down"} /\ reason \in {"none", "wrong_asset", "wrong_owner", "bad_timing", "other"}
SnoozedUntil(today, days) == IF days \in {30, 90} THEN today + days ELSE Absent

\* Hot signals found in the last days.
HotSignals(signals, today, days, limit, alsoExpired) ==
  First({s \in signals : s.type \in HOT_SIGNAL_TYPES /\ s.found >= today - days /\ (alsoExpired \/ Alive(s, today))},
        LAMBDA s : s.found, limit)

\* DashboardService.today.
Today(db, today) ==
  [commercial |-> Cardinality({p \in db.parcels : InStock(p)}),
   scored |-> Cardinality({p \in db.parcels : p.score # Absent}),
   hitl |-> Cardinality({r \in db.reviews : r.status = "pending"}),
   running |-> Cardinality(First({r \in db.runs : r.status = "running"}, LAMBDA r : r.started, 5)),
   jobs |-> First(db.runs, LAMBDA r : r.started, 8),
   queue |-> CallQueue(db.leads, today, 5),
   catalysts |-> HotSignals(db.signals, today, 7, 12, FALSE)]

----------------------------------------------------------------------------
\* REPORT_QUERIES: the stock in buckets, the fullest first, and the sales of a period.

Buckets(rows, Of(_), limit) ==
  First({[bucket |-> b, count |-> Cardinality({r \in rows : Of(r) = b})] : b \in {Of(r) : r \in rows}},
        LAMBDA x : x.count, limit)

HoldBucket(years) ==
  IF years = Absent THEN "unknown" ELSE IF years >= 15 THEN "15y+" ELSE IF years >= 10 THEN "10-14y"
  ELSE IF years >= 5 THEN "5-9y" ELSE "under_5y"

AbsenteeShare(stock, home) ==
  [total |-> Cardinality(stock), absentee |-> Cardinality({p \in stock : p.absentee = "yes"}),
   outOfState |-> Cardinality({p \in stock : p.state \notin {"none", home}})]

ReportStats(db, home, since, today) ==
  LET stock == {p \in db.parcels : InStock(p)}
      sold == {c \in db.comps : since <= c.at /\ c.at <= today}
  IN [uses |-> Buckets(stock, LAMBDA p : p.use, 20), zips |-> Buckets(stock, LAMBDA p : p.zip, 20),
      submarkets |-> Buckets(stock, LAMBDA p : p.submarket, 20),
      holds |-> Buckets(stock, LAMBDA p : HoldBucket(p.held), 5), absentee |-> AbsenteeShare(stock, home),
      comps |-> Cardinality(sold), priced |-> Cardinality({c \in sold : c.price # Absent})]

----------------------------------------------------------------------------
\* AnalyticsService.

Ready(llm) == llm.enabled /\ llm.key

\* What the model is told about one parcel: its signals, expired ones too.
ParcelFacts(parcels, pin) ==
  {[pin |-> pin, score |-> p.score,
    signals |-> {s.type : s \in First(p.signals, LAMBDA s : s.found, 15)},
    status |-> {l.status : l \in First(p.leads, LAMBDA l : l.at, 1)}] : p \in {x \in parcels : x.pin = pin}}

Facts(db, pin, today) ==
  [commercial |-> Cardinality({p \in db.parcels : InStock(p)}),
   queue |-> CallQueue(db.leads, today, 8),
   catalysts |-> HotSignals(db.signals, today, 7, 15, FALSE),
   events |-> First({e \in db.events : e.day >= today /\ e.status # "hidden"}, LAMBDA e : -e.day, 10),
   pipeline |-> Buckets(db.leads, LAMBDA l : l.status, Cardinality(db.leads)),
   submarkets |-> Buckets({p \in db.parcels : InStock(p) /\ p.submarket # "none"}, LAMBDA p : p.submarket, 10),
   parcel |-> ParcelFacts(db.parcels, pin)]

\* ask: refused before the model is; a pin nobody has is no mistake.
Ask(question, db, pin, llm, today) ==
  IF question.length = 0 THEN [answer |-> "question required"]
  ELSE IF question.length > 2000 THEN [answer |-> "question too long"]
  ELSE IF ~Ready(llm) THEN [answer |-> "unavailable"]
  ELSE [answer |-> "from facts", facts |-> Facts(db, pin, today)]

\* explainParcel and polishOutreach: without the model nobody learns whether the parcel
\* exists.
AboutParcel(db, pin, llm) ==
  IF ~Ready(llm) THEN "unavailable"
  ELSE IF {p \in db.parcels : p.pin = pin} = {} THEN "not found"
  ELSE "from facts"

\* marketNarrative: the eight newest Score rows go as recentHighScores, and the hot
\* signals of two weeks whether they have expired or not.
Narrative(db, llm, home, today) ==
  IF ~Ready(llm) THEN {}
  ELSE {[stats |-> ReportStats(db, home, today - 91, today),
         highScores |-> First(db.scores, LAMBDA s : s.at, 8),
         catalysts |-> HotSignals(db.signals, today, 14, 15, TRUE)]}

----------------------------------------------------------------------------
\* DigestService.preview: a lead stands in one section; says tells what its sentence
\* mentions, the owner's name included.

Estate(lead) == lead.says \cap {"probate", "estate"} # {}

Section(lead) == IF Estate(lead) THEN "estate" ELSE IF lead.hot THEN "hot" ELSE "evergreen"

\* The rank in a section is the place among the leads of that section.
SectionRank(leads, l) ==
  Cardinality({m \in leads : Section(m) = Section(l) /\ m.rank <= l.rank})

\* Events of the next two weeks: the first twelve, dense ones put first only then.
DigestEvents(events, today) ==
  First({e \in events : /\ today <= e.day /\ e.day <= today + 14
                        /\ e.status \in {"new", "approved"} /\ e.density \in {"high", "medium"}},
        LAMBDA e : -e.day, 12)
ShownBefore(d, e) == (d.density = "high" /\ e.density # "high") \/ (d.density = e.density /\ d.day < e.day)

\* selectMovers: companies of some score that gained twenty since the last time theirs
\* was computed; a first score gains all of it.
Gain(row) == row.score - IF row.previous = Absent THEN 0 ELSE row.previous
Movers(rows, limit) ==
  First({r \in First({x \in rows : x.score >= 15}, ByScore, 80) : Gain(r) >= 20}, ByScore, limit)

\* The page of movers reads fifty rows, and takes any gain of at least one.
MoversPage(rows, delta) ==
  {r \in First({x \in rows : x.score >= 15}, ByScore, 50) : Gain(r) >= Greatest(delta, 1)}

\* The page of referrals: what each source brought since, an unnamed one being "none",
\* of the five hundred newest.
Referrals(signals, since) ==
  LET told == First({s \in signals : s.type = "REFERRAL" /\ s.at >= since /\ ~s.dismissed}, LAMBDA s : s.at, 500)
  IN [total |-> Cardinality(told),
      sources |-> {[source |-> x, companies |-> {s.company : s \in {t \in told : t.from = x}},
                    count |-> Cardinality({s \in told : s.from = x})] : x \in {s.from : s \in told}}]

\* selectRequirementMatches: for the twenty newest requirements, buildings off the market
\* that nobody was written to about in three weeks.  A lead that was put off keeps its
\* status, so that it counts as well.
WrittenTo(parcel, today) == \E l \in parcel.leads : l.at >= today - 21 /\ l.status # "snoozed"

RequirementMatches(requirements, buildings, today, limit) ==
  LET asked == First({r \in requirements : r.active}, LAMBDA r : r.at, 20)
      measured == {b \in buildings : b.active /\ ({b.sf, b.clear, b.yard} # {Absent}) /\ ~WrittenTo(b, today)}
      pairs == {x \in asked \X measured : D!Passes(x[1].need, x[2]) /\ ~D!Listed(x[2])}
  IN First({[client |-> x[1].client, building |-> x[2].id, score |-> D!MatchScore(x[1].need, x[2])] : x \in pairs},
           ByScore, limit)

\* ReportsService.generateQuarterly: the row is there before the mail, so that a mail
\* that fails leaves a report, and each attempt of the job (one for the cron, two when
\* asked for by hand) leaves another.  fails tells of each attempt whether its mail does.
Quarterly(mails, fails, attempts) ==
  LET sent == {n \in 1..attempts : ~mails \/ ~fails[n]}
      ran == IF sent = {} THEN attempts ELSE LeastOf(sent)
  IN [reports |-> ran, mailed |-> IF mails /\ sent # {} THEN 1 ELSE 0]
=============================================================================
