---------------------------- MODULE EnrichmentPass ----------------------------
(***************************************************************************)
(* Enrichment: the passes of the worker (one at a time) go through the outside *)
(* sources step by step and write Signal rows; beside them requests enrich one *)
(* parcel, paste liens, capture drive-bys and refresh the review queue.  All of*)
(* them write signals by looking for the newest row of the parcel and type and *)
(* updating it, or creating one when there was none.                          *)
(*                                                                           *)
(* A source that cannot be read mostly counts as an empty one; where the code   *)
(* lets the error through, it ends the pass, or the section of a request.       *)
(***************************************************************************)
EXTENDS RodClient, SignalSources

CONSTANTS
  Owing,      \* parcels that owe tax at first
  Top,        \* the parcels of the highest scores
  Absentee,   \* owners who live elsewhere
  Unlocated,  \* parcels without coordinates
  Synced,     \* parcels the daily sync writes
  Cap,        \* skip traces per week
  MaxWeeks    \* bound of the model: weeks

ASSUME PassAssumption ==
  /\ Cap \in Nat /\ MaxWeeks \in Nat /\ Top \cup Owing \cup Synced \subseteq Parcels /\ Absentee \subseteq Owners
  /\ Keys = Parcels /\ Docs = Hits["deeds"]

VARIABLES
  rows,       \* rows[p][t]: Signal rows of parcel p and type t
  lapsed,     \* <<p, t>> whose newest row has expired
  unpaid,     \* parcels that owe tax and have no paid date
  sales,      \* parcels with a SaleComp row for the deed
  buyers,     \* parcels with an open exchange_buyer lead
  resolved,   \* owners the company register has answered for, in the last 30 days
  contacts,   \* contacts[o]: how many Contact rows name owner o's agent
  phones,     \* owners with a traced phone or email
  pending,    \* pending[p]: EnrichmentReview rows of p to be reviewed
  used, usedWeek,  \* the skip-trace counter, in memory, and the week it is for
  week,       \* the week, bounded by MaxWeeks
  passRow,    \* the SyncRun row of the latest pass
  told,       \* history: what the latest pass to ask was told of deeds
  owing,      \* history: parcels that have owed tax ever since the latest pass began
  sent,       \* history: skip traces sent this week
  slack,      \* history: what restarts and failed lookups have taken off the counter
  raced,      \* history: <<p, t>> that two tasks were about to write at once
  requeued    \* history: parcels whose review was reopened or raced for

tableVars == <<rows, lapsed, sales, buyers, raced>>
signalVars == <<tableVars, told, owing>>
traceVars == <<contacts, phones, used, usedWeek, sent, slack>>
ownVars == <<unpaid, resolved, pending, week, passRow, requeued>>
vars == <<deskVars, rodVars, signalVars, traceVars, ownVars>>

Init ==
  /\ DeskInit /\ RodInit
  /\ rows = [p \in Parcels |-> [t \in Types |-> 0]]
  /\ lapsed = {} /\ raced = {}
  /\ unpaid = Owing
  /\ told = Answer("off", {}) /\ owing = {}
  /\ sales = {} /\ buyers = {} /\ resolved = {} /\ phones = {}
  /\ contacts = [o \in Owners |-> 0]
  /\ pending = [p \in Parcels |-> 0] /\ requeued = {}
  /\ used = 0 /\ usedWeek = -1 /\ week = 0
  /\ passRow = "none"
  /\ sent = 0 /\ slack = 0

----------------------------------------------------------------------------
\* Tasks: what remains of the plan, and what the step at its head has left.

FullPass == <<"tax", "tax_sale", "foreclosure", "deeds", "zoning", "permits", "listings", "probate",
              "graph", "submarkets", "top", "flood", "hitl">>
RodWatch == <<"deeds", "top">>
TaxSync == <<"tax", "tax_sale", "foreclosure">>

Passes == {FullPass, RodWatch, TaxSync}

\* enrichParcelByPin.
OneParcel == <<"arcgis", "flood", "assessor", "sos", "rod", "nearby", "assessor">>

\* No row is about to be written.
NoWish == Wish("none", "none", "nothing")

Task(plan, pass, ps) ==
  [at |-> "step", plan |-> plan, pass |-> pass, on |-> ps, rest |-> {},
   todo |-> {}, wish |-> NoWish, found |-> FALSE, agents |-> {}]

Passing == {s \in Slots : task[s] # Idle /\ task[s].pass # <<>>}

StartPass(s, plan) ==
  /\ Passing = {}
  /\ Arrives(s)
  /\ Become(s, Task(plan, plan, Top))
  /\ passRow' = "running"
  /\ owing' = unpaid
  /\ UNCHANGED <<failures, rodVars, tableVars, told, traceVars, unpaid, resolved, pending, week, requeued>>

\* Requests: enrich a parcel, paste liens, capture a drive-by at a parcel, refresh
\* the queue of reviews.
StartRequest(s, plan, ps) ==
  /\ Arrives(s)
  /\ Become(s, Task(plan, <<>>, ps))
  /\ UNCHANGED <<failures, rodVars, signalVars, traceVars, ownVars>>

Step(s) == Head(task[s].plan)
At(s, at) == task[s] # Idle /\ task[s].at = at
AtStep(s, steps) == At(s, "step") /\ task[s].plan # <<>> /\ Step(s) \in steps

NextStep(t) ==
  [t EXCEPT !.at = "step", !.plan = Tail(@), !.todo = {}, !.wish = NoWish, !.found = FALSE]

\* The step at the head of the plan asks for these rows.
Asks(s, wishes) ==
  Become(s, IF wishes = {} THEN NextStep(task[s]) ELSE [task[s] EXCEPT !.at = "write", !.todo = wishes])

----------------------------------------------------------------------------
\* Signal rows.

\* Mutant: rows that have expired are not found.
FoundAlive(p, t) == rows[p][t] > 0 /\ <<p, t>> \notin lapsed

\* upsertSignal looks for the newest row of the parcel and type ...
FoundRow(p, t) == rows[p][t] > 0

Look(s) ==
  /\ At(s, "write")
  /\ \E w \in task[s].todo :
       Become(s, [task[s] EXCEPT !.at = "look", !.todo = @ \ {w}, !.wish = w,
                                 !.found = FoundRow(w.parcel, w.type)])
  /\ UNCHANGED <<calls, failures, rodVars, signalVars, traceVars, ownVars>>

Looking(p, t) ==
  {s \in Slots : At(s, "look") /\ task[s].wish.parcel = p /\ task[s].wish.type = t}

\* With its last row the step is done.
Back(t) ==
  IF t.todo = {} THEN NextStep(t) ELSE [t EXCEPT !.at = "write", !.wish = NoWish, !.found = FALSE]

\* ... and updates it, or makes one; what comes with the row is filed unless it is
\* there.
Write(s) ==
  /\ At(s, "look")
  /\ LET w == task[s].wish
         key == <<w.parcel, w.type>>
     IN /\ rows' = IF task[s].found THEN rows ELSE [rows EXCEPT ![w.parcel][w.type] = @ + 1]
        /\ lapsed' = IF w.until = "past" THEN lapsed \cup {key} ELSE lapsed \ {key}
        /\ sales' = IF w.with = "sale" THEN sales \cup {w.parcel} ELSE sales
        /\ buyers' = IF w.with = "lead" THEN buyers \cup {w.parcel} ELSE buyers
        /\ raced' = IF Cardinality(Looking(w.parcel, w.type)) > 1 THEN raced \cup {key} ELSE raced
  /\ Become(s, Back(task[s]))
  /\ UNCHANGED <<calls, failures, rodVars, told, owing, traceVars, ownVars>>

\* A row's time is up.
Lapses(p, t) ==
  /\ t \notin Lasting /\ rows[p][t] > 0 /\ <<p, t>> \notin lapsed
  /\ Fails
  /\ lapsed' = lapsed \cup {<<p, t>>}
  /\ UNCHANGED <<task, calls, rodVars, rows, sales, buyers, raced, told, owing, traceVars, ownVars>>

----------------------------------------------------------------------------
\* The steps that read a source.

\* What a step makes of what its source shows, if that is up.  Liens are pasted.
ListStep(src, up) ==
  CASE src = "tax_sale" -> TaxSaleWishes(TaxSaleList(up, Hits[src]))
    [] src = "foreclosure" -> ForeclosureWishes(ForeclosureRoster(up, Hits[src]))
    [] src = "zoning" -> PlanningWishes(RecentRezones(up, Hits[src]))
    [] src = "permits" -> PermitWishes(RecentPermits(up, Hits[src]))
    [] src = "listings" -> ListingWishes(ActiveListings(up, Hits[src]))
    [] src = "probate" -> ProbateWishes(RecentEstates(up, EstateFeed, Hits[src]))
    [] src = "liens" -> LienWishes(Hits[src])

AskList(s) ==
  /\ AtStep(s, Lists \ {"deeds"})
  /\ \/ Asks(s, ListStep(Step(s), TRUE)) /\ UNCHANGED failures
     \/ Asks(s, ListStep(Step(s), FALSE)) /\ Fails
  /\ UNCHANGED <<calls, rodVars, signalVars, traceVars, ownVars>>

\* Mutant: an error counts as an empty list, as with the other sources.
DeedAnswersSwallowed == [how : {"off", "page", "blank", "thrown"}, deeds : SUBSET Docs]

\* What the pass goes on with: an error is not an empty list.
DeedAnswers == [how : {"off", "page", "blank"}, deeds : SUBSET Docs]

AskDeeds(s) ==
  /\ AtStep(s, {"deeds"})
  /\ \E answer \in DeedAnswers :
       /\ SearchDeeds(answer)
       /\ Asks(s, DeedWishes(answer.deeds))
       /\ told' = answer
  /\ UNCHANGED <<calls, tableVars, owing, traceVars, ownVars>>

\* Steps that read the tables.
AskTables(s) ==
  /\ AtStep(s, {"tax", "graph", "drive_by"})
  /\ Asks(s, CASE Step(s) = "tax" -> TaxWishes(unpaid)
               [] Step(s) = "graph" -> GraphWishes(resolved)
               [] Step(s) = "drive_by" -> Wishes(task[s].on, "drive_by"))
  /\ UNCHANGED <<calls, failures, rodVars, signalVars, traceVars, ownVars>>

\* assignSubmarkets stamps parcels, which no signal depends on; the parcels and
\* listings near one are only read, for the answer.
PassesOver(s) ==
  /\ AtStep(s, {"submarkets", "nearby"})
  /\ Asks(s, {})
  /\ UNCHANGED <<calls, failures, rodVars, signalVars, traceVars, ownVars>>

\* lookupZone of each parcel: no answer counts as no zone.
AskFlood(s) ==
  /\ AtStep(s, {"flood"})
  /\ \E down \in {{}} \cup {{p} : p \in task[s].on} :
       /\ IF down = {} THEN UNCHANGED failures ELSE Fails
       /\ Asks(s, FloodWishes({p \in task[s].on : HighRisk(p \notin down, p \in Flooded)}))
  /\ UNCHANGED <<calls, rodVars, signalVars, traceVars, ownVars>>

\* lookupByPin of the assessor, and the summary at the end, always write a row.
AskAssessor(s) ==
  /\ AtStep(s, {"assessor"})
  /\ Asks(s, Wishes(Assessed(task[s].on), "property_scrape"))
  /\ UNCHANGED <<calls, failures, rodVars, signalVars, traceVars, ownVars>>

\* Parcels ps are written with the tax and the paid date the county has for them,
\* and with neither where it has none.
Recorded(ps) ==
  /\ unpaid' \in {unpaid \ ps, unpaid \cup ps}
  /\ owing' = owing \cap unpaid'
  /\ UNCHANGED <<failures, rodVars, tableVars, told, traceVars, resolved, pending, week, passRow, requeued>>

\* The county's record of the one parcel, if it has one and can be asked.
AskCounty(s) ==
  /\ AtStep(s, {"arcgis"})
  /\ \E ps \in {{}, task[s].on} : Recorded(ps)
  /\ Become(s, NextStep(task[s]))
  /\ UNCHANGED calls

\* The daily sync writes a parcel.
SyncWrites(p) == Recorded({p}) /\ UNCHANGED <<task, calls>>

----------------------------------------------------------------------------
\* enrichTopLeads: for each parcel of the top the company register, the deeds
\* office and the skip trace, one after the other.

TopPlan == <<"sos", "rod", "trace">>

\* The next parcel of the top; its three steps come before the rest of the plan.  The
\* owners are read with the parcels, and with them the agents known by then.
TopNext(s) ==
  /\ AtStep(s, {"top"})
  /\ IF task[s].on = {} THEN Become(s, NextStep([task[s] EXCEPT !.on = Top, !.agents = {}]))
     ELSE \E p \in task[s].on :
       Become(s, [task[s] EXCEPT !.plan = TopPlan \o @, !.on = {p}, !.rest = task[s].on \ {p},
                                 !.agents = IF task[s].on = Top THEN resolved ELSE @])
  /\ UNCHANGED <<calls, failures, rodVars, signalVars, traceVars, ownVars>>

The(s) == CHOOSE p \in task[s].on : TRUE
OwnerAt(s) == OwnerOf[The(s)]

\* The company register: in a pass only if the owner, as read at the start, was not
\* looked up for 30 days, and then the agent is filed as a contact once more.  Errors
\* are passed over, that of the register and those of the statements that file what
\* it answers.
AskRegister(s) ==
  /\ AtStep(s, {"sos"})
  /\ LET o == OwnerAt(s)
         fresh == s \in Passing /\ o \in task[s].agents
         filed == IF s \in Passing \/ contacts[o] = 0
                  THEN [contacts EXCEPT ![o] = IF @ = 2 THEN 2 ELSE @ + 1] ELSE contacts
     IN \/ /\ o \notin Entities \/ fresh
           /\ Asks(s, {}) /\ UNCHANGED <<failures, resolved, contacts>>
        \/ /\ o \in Entities /\ ~fresh /\ "known" \in RegisterAnswers
           /\ resolved' = resolved \cup {o}
           /\ \/ Asks(s, SosWishes(The(s))) /\ contacts' = filed /\ UNCHANGED failures
              \/ Asks(s, {}) /\ contacts' \in {contacts, filed} /\ Fails
        \/ /\ o \in Entities /\ ~fresh
           /\ Asks(s, {}) /\ UNCHANGED <<resolved, contacts>>
           /\ IF "unknown" \in RegisterAnswers THEN Fails \/ UNCHANGED failures ELSE Fails
  /\ UNCHANGED <<calls, rodVars, signalVars, phones, used, usedWeek, sent, slack,
                 unpaid, pending, week, passRow, requeued>>

AskMortgage(s) ==
  /\ AtStep(s, {"rod"})
  /\ \E answer \in {"far", "soon", "overdue", "nothing"} :
       /\ FindMortgage(The(s), Mortgages[The(s)], answer)
       /\ Asks(s, MortgageWishes(The(s), answer))
  /\ UNCHANGED <<calls, signalVars, traceVars, ownVars>>

\* ensureSkipWeek: the counter starts again with the week.
UsedNow == IF usedWeek = week THEN used ELSE 0

\* Mutant: one more than the cap.
MayTraceOneMore == UsedNow <= Cap

\* canSkipTrace.
MayTrace == UsedNow < Cap

\* Owners with an agent, as read at the start, or who live elsewhere.
Traceable(s) == OwnerAt(s) \in task[s].agents \cup Absentee

TopOn(t) == [t EXCEPT !.on = t.rest, !.rest = {}]

\* The lookup is sent ...
Trace(s) ==
  /\ AtStep(s, {"trace"})
  /\ used' = UsedNow /\ usedWeek' = week
  /\ IF MayTrace /\ Traceable(s)
     THEN Become(s, [task[s] EXCEPT !.at = "traced"]) /\ sent' = sent + 1
     ELSE Become(s, TopOn(NextStep(task[s]))) /\ UNCHANGED sent
  /\ UNCHANGED <<calls, failures, rodVars, signalVars, contacts, phones, slack, ownVars>>

\* ... and counted when it is answered, found or not; an error is not counted, and
\* one in filing what was found is passed over too.
Traced(s) ==
  /\ At(s, "traced")
  /\ \/ \E answer \in TraceAnswers :
          /\ used' = UsedNow + 1 /\ usedWeek' = week
          /\ phones' = IF answer = "found" THEN phones \cup {OwnerAt(s)} ELSE phones
          /\ UNCHANGED <<failures, slack>>
     \/ Fails /\ used' = UsedNow + 1 /\ usedWeek' = week /\ UNCHANGED <<phones, slack>>
     \/ Fails /\ slack' = slack + 1 /\ UNCHANGED <<used, usedWeek, phones>>
  /\ Become(s, TopOn(NextStep(task[s])))
  /\ UNCHANGED <<calls, rodVars, signalVars, contacts, sent, ownVars>>

NewWeek ==
  /\ week < MaxWeeks
  /\ week' = week + 1
  /\ sent' = 0 /\ slack' = 0
  /\ UNCHANGED <<deskVars, rodVars, signalVars, contacts, phones, used, usedWeek,
                 unpaid, resolved, pending, passRow, requeued>>

----------------------------------------------------------------------------
\* The queue of reviews.

\* What is missing of a parcel: register, mortgage, the phone of an owner who lives
\* elsewhere, coordinates.
Missing(p) ==
  \/ OwnerOf[p] \in Entities \ resolved
  \/ rows[p]["mortgage_maturity"] = 0
  \/ OwnerOf[p] \in Absentee \ phones
  \/ p \in Unlocated

\* Mutant: reviews that wait already are not looked at.
QueueableAgain(p) == Missing(p)

\* refreshQueue: the parcels of the top that lack something and do not wait yet.
Queueable(p) == pending[p] = 0 /\ Missing(p)

QueueReads(s) ==
  /\ AtStep(s, {"hitl"})
  /\ Become(s, [task[s] EXCEPT !.at = "queue", !.on = {p \in Top : Queueable(p)}])
  /\ UNCHANGED <<calls, failures, rodVars, signalVars, traceVars, ownVars>>

QueueAdds(s) ==
  /\ At(s, "queue")
  /\ \E p \in task[s].on :
       /\ pending' = [pending EXCEPT ![p] = @ + 1]
       /\ requeued' = IF \E r \in Slots \ {s} : At(r, "queue") /\ p \in task[r].on
                      THEN requeued \cup {p} ELSE requeued
       /\ Become(s, [task[s] EXCEPT !.on = @ \ {p}])
  /\ UNCHANGED <<calls, failures, rodVars, signalVars, traceVars, unpaid, resolved, week, passRow>>

QueueDone(s) ==
  /\ At(s, "queue") /\ task[s].on = {}
  /\ Become(s, NextStep(task[s]))
  /\ UNCHANGED <<calls, failures, rodVars, signalVars, traceVars, ownVars>>

\* update: the agent is done with a review, or opens it again.
Reviewed(s, p) ==
  /\ Arrives(s) /\ Ends(s)
  /\ pending[p] > 0
  /\ pending' = [pending EXCEPT ![p] = @ - 1]
  /\ UNCHANGED <<failures, rodVars, signalVars, traceVars, unpaid, resolved, week, passRow, requeued>>

Reopened(s, p) ==
  /\ Arrives(s) /\ Ends(s)
  /\ pending' = [pending EXCEPT ![p] = @ + 1]
  /\ requeued' = requeued \cup {p}
  /\ UNCHANGED <<failures, rodVars, signalVars, traceVars, unpaid, resolved, week, passRow>>

----------------------------------------------------------------------------
\* How tasks end.

TaskDone(s) ==
  /\ At(s, "step") /\ task[s].plan = <<>>
  /\ Ends(s)
  /\ passRow' = IF s \in Passing THEN "success" ELSE passRow
  /\ UNCHANGED <<calls, failures, rodVars, signalVars, traceVars, unpaid, resolved, pending, week, requeued>>

\* What throws is caught, and the next thing gone on with: the sections of a request
\* but the last, and in a pass, for each parcel of the top, register and deeds office.
Guarded(s) ==
  task[s].plan # <<>> /\ (IF s \in Passing THEN Step(s) \in {"sos", "rod"} ELSE Tail(task[s].plan) # <<>>)

\* Something throws: a pass is marked failed (and tried again by the queue), a request
\* is lost, unless it is caught.  (What a trace throws is among its answers.)
TaskFails(s) ==
  /\ task[s] # Idle
  /\ ~AtStep(s, {"trace"}) /\ ~At(s, "traced")
  /\ \/ Fails /\ UNCHANGED rodVars
     \/ AtStep(s, {"deeds"}) /\ SearchDeeds(Answer("thrown", {}))
  /\ IF Guarded(s) THEN Become(s, NextStep(task[s])) ELSE Ends(s)
  /\ passRow' = IF s \in Passing /\ ~Guarded(s) THEN "failed" ELSE passRow
  /\ UNCHANGED <<calls, signalVars, traceVars, unpaid, resolved, pending, week, requeued>>

\* A watch that is not set up is marked failed and ends without an error.
WatchSkipped(s) ==
  /\ ~rodReady /\ task[s] # Idle /\ task[s].pass = RodWatch /\ task[s].plan = RodWatch
  /\ Ends(s)
  /\ passRow' = "failed"
  /\ UNCHANGED <<calls, failures, rodVars, signalVars, traceVars, unpaid, resolved, pending, week, requeued>>

Restart ==
  /\ Fails
  /\ task' = [s \in Slots |-> Idle]
  /\ RodForgets
  /\ used' = 0 /\ usedWeek' = -1
  /\ slack' = slack + Cap
  /\ UNCHANGED <<calls, signalVars, contacts, phones, sent, ownVars>>

Quiet == UNCHANGED <<task, calls, signalVars, traceVars, ownVars>>

Next ==
  \/ \E s \in Slots :
       \/ \E plan \in Passes : StartPass(s, plan)
       \/ \E p \in Parcels : StartRequest(s, OneParcel, {p}) \/ StartRequest(s, <<"drive_by">>, {p})
       \/ StartRequest(s, <<"liens">>, {}) \/ StartRequest(s, <<"hitl">>, {})
       \/ Look(s) \/ Write(s)
       \/ AskList(s) \/ AskDeeds(s) \/ AskTables(s) \/ PassesOver(s) \/ AskFlood(s) \/ AskAssessor(s) \/ AskCounty(s)
       \/ TopNext(s) \/ AskRegister(s) \/ AskMortgage(s) \/ Trace(s) \/ Traced(s)
       \/ QueueReads(s) \/ QueueAdds(s) \/ QueueDone(s)
       \/ \E p \in Parcels : Reviewed(s, p) \/ Reopened(s, p)
       \/ TaskDone(s) \/ TaskFails(s) \/ WatchSkipped(s)
  \/ \E p \in Parcels, t \in Types : Lapses(p, t)
  \/ \E p \in Synced : SyncWrites(p)
  \/ NewWeek \/ Restart
  \/ SessionExpires /\ Quiet
  \/ CacheAges /\ Quiet

Spec == Init /\ [][Next]_vars

----------------------------------------------------------------------------
\* A parcel has two signals of one type only if two tasks were about to write it
\* at the same time (upsertSignal finds first and creates then, and nothing in the
\* table keeps a second row out).
DuplicatesNeedOverlap ==
  \A p \in Parcels, t \in Types : rows[p][t] > 1 => <<p, t>> \in raced

\* No more skip traces go out in a week than the cap allows, except for what a
\* restart (the counter is in memory) or a failed lookup (not counted) has lost.
SkipTraceCapped == sent <= Cap + slack

\* What a pass marked a success has seen to, although it writes row by row among
\* other writers and can die between any two: every parcel that has owed tax ever
\* since the pass began has the signal and, where the scraper is on, every deed the
\* pass was told of has made its seller.  What it was told is the deeds among one
\* page of what is recorded, unless an answer without documents was taken for none.
SuccessCovers ==
  [][\A s \in Passing : passRow = "running" /\ passRow' = "success" =>
       /\ task[s].pass # RodWatch => \A p \in owing : rows[p]["tax_delinquent"] > 0
       /\ task[s].pass # TaxSync /\ rodReady =>
            /\ told.how = "blank" \/ \E docs \in SUBSET Docs : IsPage(docs) /\ told.deeds = DeedsOf(docs)
            /\ \A p \in ByPin(told.deeds) : rows[p]["recent_seller"] > 0]_vars

\* A parcel waits for review at most once, unless the agent has reopened a review
\* or two refreshes of the queue overlapped.
WaitsOnce == \A p \in Parcels : pending[p] > 1 => p \in requeued
=============================================================================
