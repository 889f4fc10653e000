----------------------------- MODULE EventFeeds ------------------------------
(***************************************************************************)
(* The feeds of events, as what each client returns for what its source      *)
(* shows.  An entry is [name, day, venue, host, topics, density, category]:   *)
(* topics are the kinds of words in its name and host; density and category   *)
(* are what the source itself says, or "none".  Days count from any start.    *)
(***************************************************************************)
EXTENDS Integers, FiniteSets

\* A sync looks this many days ahead.
WindowDays == 90

Upcoming(x, now) == x.day \in now..(now + WindowDays)

\* The source's own word comes before the words of the name: homebuyers and
\* licence courses make it low, investors and associations high.
Density(x) ==
  IF x.density # "none" THEN x.density
  ELSE IF "homebuyer" \in x.topics THEN "low"
  ELSE IF "investor" \in x.topics THEN "high"
  ELSE "medium"

\* For the category the words come first.
Category(x) ==
  LET first == <<"conference", "education", "golf", "networking">>
      told == {i \in DOMAIN first : first[i] \in x.topics}
  IN IF told # {} THEN first[CHOOSE i \in told : \A j \in told : i <= j]
     ELSE IF x.category # "none" THEN x.category ELSE "networking"

Audience(x) ==
  CASE Density(x) = "low" -> "brokers"
    [] Density(x) = "high" -> IF "broker" \in x.topics THEN "mixed" ELSE "investors"
    [] OTHER -> "mixed"

Classified(x) == [x EXCEPT !.density = Density(x), !.category = Category(x)]

\* One row per name, day and venue: an entry moved to another day is another row.
DedupeKey(x) == <<x.name, x.day, x.venue>>

----------------------------------------------------------------------------
\* fetchUpcoming of each client.

\* The search itself has the window; events of low density are left out.  No token
\* and an HTTP error give nothing; a dead line throws, and ends the sync.
EventbriteDrafts(up, shown) ==
  IF up THEN {Classified(x) : x \in {y \in shown : Density(y) # "low"}} ELSE {}

\* An ICS feed gives no density or category and keeps what is low; any failure
\* gives nothing.
IcsDrafts(up, shown, now) ==
  IF up THEN {Classified([x EXCEPT !.density = "none", !.category = "none"]) :
                x \in {y \in shown : Upcoming(y, now)}}
  ELSE {}

\* A page is read by the language model, whose category stands before the words.
HtmlDrafts(up, llmOn, shown, now) ==
  IF up /\ llmOn
  THEN {[x EXCEPT !.density = Density(x),
                  !.category = IF @ # "none" THEN @ ELSE Category(x)] :
          x \in {y \in shown : Upcoming(y, now)}}
  ELSE {}

\* The calendar in the program: placeholders so many days from the day of the sync.
SeedOffsets ==
  [roundtable |-> 10, naiop |-> 18, ccim |-> 27, ucreia |-> 35, crew |-> 42, forum |-> 55,
   breakfast |-> 68]

SeedDrafts(now) ==
  {[name |-> t, day |-> now + SeedOffsets[t], venue |-> t, host |-> t, topics |-> {},
    density |-> IF t = "crew" THEN "medium" ELSE "high",
    category |-> CASE t = "forum" -> "conference" [] t = "ccim" -> "education"
                   [] OTHER -> "networking"] :
     t \in DOMAIN SeedOffsets}

----------------------------------------------------------------------------
\* buildClients: what the enabled sources of a sync return, source by source.
\* show[source] is what the source shows and whether it answers.
Fetched(enabled, show, llmOn, now) ==
  [source \in enabled |->
     CASE source = "seed" -> SeedDrafts(now)
       [] source = "eventbrite" -> EventbriteDrafts(show[source].up, show[source].shown)
       [] source = "ics" -> IcsDrafts(show[source].up, show[source].shown, now)
       [] OTHER -> HtmlDrafts(show[source].up, llmOn, show[source].shown, now)]

\* The order of the clients.
SyncOrder == <<"seed", "eventbrite", "ics", "postandcourier", "bisnow">>

\* syncAll: what the sync of a moment stores.  A throw at the source `broken` ends
\* it after the sources before; a sync that stored nothing falls back on the seeds.
Synced(enabled, show, llmOn, broken, now) ==
  LET drafts == Fetched(enabled, show, llmOn, now)
      Reached(i) == \A j \in 1..i : SyncOrder[j] # broken
      stored == UNION {drafts[SyncOrder[i]] :
                         i \in {j \in DOMAIN SyncOrder : SyncOrder[j] \in enabled /\ Reached(j)}}
  IN IF stored = {} /\ broken = "none" THEN SeedDrafts(now) ELSE stored

----------------------------------------------------------------------------
\* createManual and pasteEvents: what the agent types is classified like a feed's;
\* a line without a name or a readable date is reported and passed over.
ManualDraft(x) == Classified(x)
PastedDrafts(lines) == {ManualDraft(x) : x \in {y \in lines : y.name # "none" /\ y.day # "none"}}

\* The digest's list of the next two weeks: at most twelve, the earliest ones, so
\* that many of medium density may crowd out a later one of high density (events of
\* one day count as equally early).
ForDigest(rows, now) ==
  LET fit == {x \in rows : /\ x.day \in now..(now + 14)
                           /\ x.status \in {"new", "approved"}
                           /\ x.density \in {"high", "medium"}}
  IN {x \in fit : Cardinality({y \in fit : y.day < x.day}) < 12}

\* Is the calendar empty at boot?  Then the placeholders are put in.
SeededAtBoot(rows, now) ==
  IF \E x \in rows : x.day >= now /\ x.status # "hidden" THEN {} ELSE SeedDrafts(now)
=============================================================================
