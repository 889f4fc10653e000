----------------------------- MODULE EventDesk ------------------------------
(***************************************************************************)
(* Events, the people who attend them, the owners those people may be, and    *)
(* the briefs mailed before an event.  Feeds bring events again and again     *)
(* (one row per dedupe key), pasted rosters bring people (one row per name    *)
(* and source), matching proposes owners, the agent confirms or rejects.      *)
(* Every morning a job briefs on the approved events of five days ahead.       *)
(*                                                                           *)
(* Which owners a name is equal or similar to, and which contacts and company *)
(* it shares with them, are given by the CONSTANTS; the county sync brings     *)
(* owners.  The clock goes from morning to morning, in units that divide the    *)
(* half window; the days between are as long as the time zone makes them.  A    *)
(* run reads the clock a moment after the morning has begun.                   *)
(***************************************************************************)
EXTENDS DeskTasks

CONSTANTS
  Events,      \* dedupe keys of events
  Times,       \* Times[e]: when e may start, within the date of its key
  Drafted,     \* Drafted[e]: the people a feed's draft of e may name
  Ahead,       \* from a run to the middle of its window (5 days)
  HalfWindow,  \* half the length of the window (12 hours)
  Days,        \* from one morning to the next (24 hours; 23 or 25 twice a year)
  MostBriefs,  \* events one run briefs on (20)
  Names,       \* normalised names on rosters
  Sources,     \* where a person may come from: pasted, OCR, broker directory, a feed
  Owners,      \* owners the county may bring
  Hits,        \* Hits[n]: the owners a name meets, per method
  Common,      \* as many owners of one name make it ambiguous (4)
  People,      \* ids a Person row may get
  MaxNow       \* bound of the model: the clock

ASSUME EventAssumption ==
  /\ {Ahead, MaxNow} \subseteq Nat /\ {HalfWindow, MostBriefs, Common} \subseteq Nat \ {0}
  /\ Days \subseteq Nat \ {0}
  /\ Times \in [Events -> SUBSET Nat \ {{}}]
  /\ Drafted \in [Events -> SUBSET Names]
  /\ Hits \in [Names -> [exact : SUBSET Owners, contact_name : SUBSET Owners,
                         trigram : SUBSET Owners, company : SUBSET Owners]]

VARIABLES
  now,        \* the last morning, bounded by MaxNow
  days,       \* history: how long the days were so far
  status,     \* status[e] of the Event rows, "none" without a row
  starts,     \* starts[e]: startsAt of the Event rows
  high,       \* high[e]: is the ownerDensity of the row "high"?
  person,     \* Person rows: [name, source]
  attends,    \* EventAttendee rows: <<event, person>>
  owners,     \* Owner rows
  match,      \* PersonOwnerMatch rows: match[p][o] = [method, confirmed]
  due,        \* is a brief job waiting in the queue?
  mailed,     \* mailed[e]: how often the morning job has mailed a brief on e
  steady,     \* history: events approved and high before their window and left so
  moved,      \* history: events a feed has moved when their window had opened
  disturbed   \* history: has a brief job failed, been late, been cut short or had too many?

matchVars == <<person, attends, owners, match>>
rowVars == <<status, starts, high>>
briefVars == <<now, days, due, mailed, steady, moved, disturbed>>
eventVars == <<rowVars, matchVars, briefVars>>

NoPerson == [name |-> "none", source |-> "none"]
NoMatch == [method |-> "none", confirmed |-> "none"]
Known == {p \in People : person[p] # NoPerson}

\* The morning from which on a run has an event of this start in its window, and
\* the one from which on none has.
OpensFor(start) == start - Ahead - HalfWindow
WindowOpens(e) == OpensFor(starts[e])
WindowCloses(e) == starts[e] - Ahead + HalfWindow

EventInit ==
  /\ now = 0
  /\ days = {}
  \* some events may be in the table and approved already
  /\ status \in [Events -> {"none", "approved"}]
  /\ starts \in {f \in [Events -> UNION {Times[e] : e \in Events}] : \A e \in Events : f[e] \in Times[e]}
  /\ high = [e \in Events |-> TRUE]
  /\ person = [p \in People |-> NoPerson]
  /\ attends = {}
  /\ owners = {}
  /\ match = [p \in People |-> [o \in Owners |-> NoMatch]]
  /\ due = TRUE
  /\ mailed = [e \in Events |-> 0]
  /\ steady = {e \in Events : status[e] = "approved" /\ now <= WindowOpens(e)}
  /\ moved = {}
  /\ disturbed = FALSE

----------------------------------------------------------------------------
\* Events.

\* Is e, with this row from now on, approved and high before its window, or has it been
\* so and not been moved?
Standing(e, st, dense, start) ==
  st = "approved" /\ dense /\ (now < OpensFor(start) \/ (e \in steady /\ start = starts[e]))

\* The row of e becomes this.
Write(e, st, dense, start) ==
  /\ status' = [status EXCEPT ![e] = st]
  /\ high' = [high EXCEPT ![e] = dense]
  /\ starts' = [starts EXCEPT ![e] = start]
  /\ steady' = IF Standing(e, st, dense, start) THEN steady \cup {e} ELSE steady \ {e}
  /\ moved' = IF start # starts[e] /\ now >= WindowOpens(e) THEN moved \cup {e} ELSE moved

\* upsertDraft: a known event is brought up to date, its start and density included,
\* and keeps its status.
Upsert(e, dense, start) == Write(e, IF status[e] = "none" THEN "new" ELSE status[e], dense, start)

\* A task on to the rest of a feed, and one on to people of a roster, with the rest
\* of the feed that brought it.
FeedOn(left) == IF left = {} THEN Idle ELSE [at |-> "feed", todo |-> left]

Roster(e, src, names, left) ==
  IF names = {} THEN FeedOn(left)
  ELSE [at |-> "roster", event |-> e, source |-> src, names |-> names, left |-> left]

\* syncAll, or a paste of the agent: the clients bring some of the events to come
\* (which, EventFeeds says) ...
Sync(s) ==
  /\ Arrives(s)
  /\ \E seen \in SUBSET {e \in Events : \E start \in Times[e] : now <= start} \ {{}} :
       Become(s, FeedOn(seen))
  /\ UNCHANGED <<failures, eventVars>>

\* ... which are stored one by one, each with the people its draft names.
Feed(s) ==
  /\ task[s].at = "feed"
  /\ \E e \in task[s].todo, dense \in BOOLEAN :
     \E start \in Times[e], src \in Sources, names \in SUBSET Drafted[e] :
       /\ Upsert(e, dense, start)
       /\ Become(s, Roster(e, src, names, task[s].todo \ {e}))
  /\ UNCHANGED <<calls, failures, matchVars, now, days, due, mailed, disturbed>>

\* updateStatus: the agent approves or hides an event, or has attended it.
SetEventStatus(s, e, st) ==
  /\ Arrives(s)
  /\ status[e] # "none"
  /\ Write(e, st, high[e], starts[e])
  /\ Become(s, IF st = "attended" THEN Awarding ELSE Idle)
  /\ UNCHANGED <<failures, matchVars, now, days, due, mailed, disturbed>>

----------------------------------------------------------------------------
\* People and their owners.

Matching(p, then) == [at |-> "match", person |-> p, then |-> then]

\* The agent pastes a roster, of an event or without one.
Paste(s, names, src, e) ==
  /\ Arrives(s)
  /\ e # "none" => status[e] # "none"
  /\ Become(s, Roster(e, src, names, {}))
  /\ UNCHANGED <<failures, eventVars>>

\* For one name after the other, upsertPerson looks for the person by name and
\* source ...
FindPerson(s) ==
  /\ task[s].at = "roster"
  /\ \E n \in task[s].names :
       LET key == [name |-> n, source |-> task[s].source]
           found == {q \in Known : person[q] = key}
       IN \E p \in (IF found = {} THEN {0} ELSE found) :
            Become(s, [at |-> "save", key |-> key, found |-> p, event |-> task[s].event,
                       names |-> task[s].names \ {n}, left |-> task[s].left])
  /\ UNCHANGED <<calls, failures, eventVars>>

\* ... and updates or makes the row (nothing keeps two requests from making one
\* each); then the attendee is linked and matched, and the roster goes on.
SavePerson(s) ==
  /\ task[s].at = "save"
  /\ \E p \in People :
       /\ IF task[s].found = 0 THEN p \notin Known ELSE p = task[s].found
       /\ person' = [person EXCEPT ![p] = task[s].key]
       /\ attends' = attends \cup ({task[s].event} \ {"none"}) \X {p}
       /\ Become(s, Matching(p, Roster(task[s].event, task[s].key.source, task[s].names, task[s].left)))
  /\ UNCHANGED <<calls, failures, rowVars, owners, match, briefVars>>

Confirmed(p, how) == {o \in Owners : match[p][o].confirmed = how}

\* Owners the agent has rejected for the person.
Suppressed(p) == Confirmed(p, "no")

Ambiguous(found) == Cardinality(found) >= Common

\* The owners in the table that each tier proposes for a name: equal names unless
\* ambiguous, equal contacts, similar names if no equal name counts, companies.
Proposed(n, tier) ==
  LET met(t) == Hits[n][t] \cap owners
      alike == met("exact") # {} /\ ~Ambiguous(met("exact"))
  IN CASE tier = "exact" -> IF Ambiguous(met("exact")) THEN {} ELSE met("exact")
       [] tier = "contact_name" -> met("contact_name")
       [] tier = "trigram" -> IF alike \/ Ambiguous(met("trigram")) THEN {} ELSE met("trigram")
       [] tier = "company" -> met("company")

Tiers == <<"exact", "contact_name", "trigram", "company">>

\* The candidates of a person, in the order they will be stored: tier by tier.
Candidates(p) ==
  [i \in DOMAIN Tiers |-> Proposed(person[p].name, Tiers[i]) \ Suppressed(p)]

\* matchPerson reads the rejections and the owners ...
MatchReads(s) ==
  /\ task[s].at = "match"
  /\ Become(s, [at |-> "store", person |-> task[s].person, todo |-> Candidates(task[s].person),
                then |-> task[s].then])
  /\ UNCHANGED <<calls, failures, eventVars>>

\* Mutant: storing a candidate opens the question again.
StoredAnew(row, method) == [method |-> method, confirmed |-> "open"]

\* What the upsert makes of a match: only a new one is left open.
Stored(row, method) ==
  [method |-> method, confirmed |-> IF row = NoMatch THEN "open" ELSE row.confirmed]

\* ... and stores the candidates one by one; a later tier overwrites the method
\* and the confidence of an earlier one.
MatchStores(s) ==
  /\ task[s].at = "store"
  /\ \E i \in DOMAIN Tiers, o \in Owners :
       /\ o \in task[s].todo[i]
       /\ \A j \in 1..(i - 1) : task[s].todo[j] = {}
       /\ match' = [match EXCEPT ![task[s].person][o] = Stored(@, Tiers[i])]
       /\ Become(s, [task[s] EXCEPT !.todo[i] = @ \ {o}])
  /\ UNCHANGED <<calls, failures, rowVars, person, attends, owners, briefVars>>

MatchEnds(s) ==
  /\ task[s].at = "store"
  /\ \A i \in DOMAIN Tiers : task[s].todo[i] = {}
  /\ Become(s, task[s].then)
  /\ UNCHANGED <<calls, failures, eventVars>>

\* setConfirmation: the agent's word on a pair, proposed or not.
SetConfirmation(s, p, o, word) ==
  /\ Arrives(s)
  /\ p \in Known /\ o \in owners
  /\ match' = [match EXCEPT ![p][o] =
       [method |-> IF @ = NoMatch THEN "manual" ELSE @.method, confirmed |-> word]]
  /\ Ends(s)
  /\ UNCHANGED <<failures, rowVars, person, attends, owners, briefVars>>

\* markMet: the link is stamped; the award is for the link, so only once.
MarkMet(s, e, p) ==
  /\ Arrives(s)
  /\ <<e, p>> \in attends
  /\ Become(s, Awarding)
  /\ UNCHANGED <<failures, eventVars>>

\* The county sync brings an owner.
OwnerComes(o) ==
  /\ o \notin owners
  /\ owners' = owners \cup {o}
  /\ UNCHANGED <<deskVars, rowVars, person, attends, match, briefVars>>

----------------------------------------------------------------------------
\* Briefs.

\* A brief on e, by hand or by the morning job, with what comes after it.
Brief(e, auto, todo) == [at |-> "brief", event |-> e, auto |-> auto, todo |-> todo]

BriefByHand(s, e) ==
  /\ Arrives(s)
  /\ status[e] # "none"
  /\ Become(s, Brief(e, FALSE, {}))
  /\ UNCHANGED <<failures, eventVars>>

\* Attendees who have no match that is open or confirmed.
Unmatched(e) ==
  {p \in Known : <<e, p>> \in attends /\ Confirmed(p, "open") \cup Confirmed(p, "yes") = {}}

\* generate reads the attendees who have no match ...
BriefReads(s) ==
  /\ task[s].at = "brief"
  /\ Become(s, [at |-> "rematch", event |-> task[s].event, people |-> Unmatched(task[s].event),
                auto |-> task[s].auto, todo |-> task[s].todo])
  /\ UNCHANGED <<calls, failures, eventVars>>

\* ... and has each of them matched once more.
BriefMatches(s) ==
  /\ task[s].at = "rematch"
  /\ \E p \in task[s].people : Become(s, Matching(p, [task[s] EXCEPT !.people = @ \ {p}]))
  /\ UNCHANGED <<calls, failures, eventVars>>

\* ... the brief is stored, and mailed if asked for; the morning job goes on with
\* its next event.
NextBrief(auto, todo) ==
  IF todo = {} THEN Idle ELSE LET e == CHOOSE d \in todo : TRUE IN Brief(e, auto, todo \ {e})

BriefWrites(s) ==
  /\ task[s].at = "rematch" /\ task[s].people = {}
  /\ mailed' = IF task[s].auto THEN [mailed EXCEPT ![task[s].event] = @ + 1] ELSE mailed
  /\ Become(s, NextBrief(task[s].auto, task[s].todo))
  /\ UNCHANGED <<calls, failures, rowVars, matchVars, now, days, due, steady, moved, disturbed>>

\* Mutant: a run an instant earlier, so that the windows of two mornings share a bound.
InWindowTwice(e) == starts[e] >= now + Ahead - HalfWindow /\ starts[e] <= now + Ahead + HalfWindow

\* The events a run of this moment briefs on, if they are approved and high.
InWindow(e) == starts[e] > now + Ahead - HalfWindow /\ starts[e] <= now + Ahead + HalfWindow

Briefing == {s \in Slots : "auto" \in DOMAIN task[s] /\ task[s].auto}
             \cup {s \in Slots : "then" \in DOMAIN task[s] /\ "auto" \in DOMAIN task[s].then /\ task[s].then.auto}

Upcoming == {e \in Events : status[e] = "approved" /\ high[e] /\ InWindow(e)}

\* autoGenerateUpcoming: approved events of the window with a high density, the
\* first MostBriefs in no order, one after the other.
MorningBriefs(s) ==
  /\ due /\ task[s] = Idle /\ Briefing = {}
  /\ due' = FALSE
  /\ \E todo \in SUBSET Upcoming :
       /\ Cardinality(todo) =
            IF Cardinality(Upcoming) < MostBriefs THEN Cardinality(Upcoming) ELSE MostBriefs
       /\ Become(s, NextBrief(TRUE, todo))
       /\ disturbed' = (disturbed \/ todo # Upcoming)
  /\ UNCHANGED <<calls, failures, rowVars, matchVars, now, days, mailed, steady, moved>>

\* A statement or the email fails: the job has one attempt, so the events after
\* it are not briefed on.
BriefFails(s) ==
  /\ s \in Briefing
  /\ Fails
  /\ disturbed' = TRUE
  /\ Ends(s)
  /\ UNCHANGED <<calls, rowVars, matchVars, now, days, due, mailed, steady, moved>>

\* A statement of a feed, a roster, a matching or a brief by hand fails: what was
\* stored before stays, and nothing more is.
StatementFails(s) ==
  /\ task[s].at \in {"feed", "roster", "save", "match", "store", "brief", "rematch"}
  /\ s \notin Briefing
  /\ Fails
  /\ Ends(s)
  /\ UNCHANGED <<calls, eventVars>>

\* The process dies and starts again: requests are gone, a brief job is found
\* stalled and runs once more from the beginning.
EventRestart ==
  /\ due' = (due \/ Briefing # {})
  /\ disturbed' = TRUE
  /\ UNCHANGED <<rowVars, matchVars, now, days, mailed, steady, moved>>

\* The next morning comes, and with it the next brief job.
Morning ==
  /\ \E day \in Days :
       /\ now + day <= MaxNow
       /\ now' = now + day
       /\ days' = days \cup {day}
  /\ due' = TRUE
  /\ disturbed' = (disturbed \/ due \/ Briefing # {})
  /\ UNCHANGED <<deskVars, rowVars, matchVars, mailed, steady, moved>>

----------------------------------------------------------------------------
EventStep(s) ==
  \/ Sync(s) \/ Feed(s) \/ StatementFails(s)
  \/ \E e \in Events : BriefByHand(s, e)
  \/ \E e \in Events, st \in {"approved", "hidden", "attended"} : SetEventStatus(s, e, st)
  \/ \E names \in SUBSET Names \ {{}}, src \in Sources, e \in Events \cup {"none"} : Paste(s, names, src, e)
  \/ FindPerson(s) \/ SavePerson(s) \/ MatchReads(s) \/ MatchStores(s) \/ MatchEnds(s)
  \/ \E p \in People, o \in Owners, word \in {"yes", "no"} : SetConfirmation(s, p, o, word)
  \/ \E e \in Events, p \in People : MarkMet(s, e, p)
  \/ BriefReads(s) \/ BriefMatches(s) \/ BriefWrites(s)
  \/ MorningBriefs(s) \/ BriefFails(s)

EventNext == Morning \/ (\E o \in Owners : OwnerComes(o)) \/ (\E s \in Slots : EventStep(s))

----------------------------------------------------------------------------
\* What the agent has rejected stays rejected until the agent says otherwise,
\* although matching may have read its candidates before the rejection.
RejectedStaysRejected ==
  [][\A p \in People, o \in Owners :
       match[p][o].confirmed = "no" /\ match'[p][o].confirmed # "no" =>
         \E s \in Slots : SetConfirmation(s, p, o, "yes")]_<<deskVars, eventVars>>

\* If no morning job was late, failed or had too many events: an event not moved within
\* its window is briefed on once at the most while no day is shorter than a window;
\* and one approved and high before its window, and left so, has been briefed on when
\* the window has closed, while no day is longer than a window.
AutoBriefOnce ==
  ~disturbed => \A e \in Events :
    /\ e \notin moved /\ (\A day \in days : day >= 2 * HalfWindow) => mailed[e] <= 1
    /\ e \in steady /\ now >= WindowCloses(e) /\ (\A day \in days : day <= 2 * HalfWindow) => mailed[e] >= 1
=============================================================================
