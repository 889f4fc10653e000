----------------------------- MODULE SignalIntake -----------------------------
(***************************************************************************)
(* The intake of industrial signals: connector runs (one at a time, from the  *)
(* queue), pasted records, signals typed in, flights over yards, confirmed     *)
(* reviews and the form of a building, side by side.  Each draft of a signal   *)
(* is resolved to a company and a site, stored under its source's reference,   *)
(* and may leave a note at the building of the site.                          *)
(*                                                                           *)
(* A company is known by its normalized name, which is unique.  The raw rows    *)
(* kept beside the signals are left out: nothing reads them.                   *)
(***************************************************************************)
EXTENDS DeskTasks, Connectors

CONSTANTS
  Names,       \* normalized names of companies
  Alike,       \* Alike[n][m]: "same" from 0.85 on, "review" from 0.65 on, or "no"
  Places,      \* normalized addresses
  MatchOf,     \* MatchOf[a]: [how, parcel] of the likeliest parcel of address a
  Parcels,
  Runs,        \* Runs[k]: the drafts of a connector k that has a plain feed
  Pastes,      \* sets of drafts that may be pasted
  Typed,       \* drafts that may be typed in, their references aside
  Facilities,  \* facilities of the ECHO lists, by the key they go by in references
  Sited,       \* Sited[f]: [name, place] of facility f
  Longer,      \* Longer[f]: the other facilities whose keys begin with the key of f
  Named,       \* Named[f]: those whose rows name f as their registry or handler
  Lists,       \* what the lists may say: [air, waste, water], pairs of a facility and
               \* the day of its evaluation, its class, the day of its permit
  Modes,       \* what ECHO's connector may be set to: "live", "feed", "idle"
  EchoFeeds,   \* sets of drafts its own feed may hold
  Since,       \* the day connector runs look back to
  Room,        \* how many notes of a building 4000 characters hold
  Written,     \* what an agent may add to the notes in the form of a building
  YardOf,      \* YardOf[p]: [name, place] of whose yard a flight over p is said to be
  Coverages    \* what a flight may find covered of a yard

ASSUME IntakeAssumption ==
  /\ Alike \in [Names -> [Names -> {"same", "review", "no"}]]
  /\ \A a \in Places : MatchOf[a].how \in {"exact", "fuzzy", "review", "none"}
  /\ \A k \in DOMAIN Runs : \A d \in Runs[k] : d.source # "echo"
  /\ \A lists \in Lists : \A e \in lists.waste : e[1] \in Facilities /\ Universe(e[2]) # "none"
  /\ Longer \in [Facilities -> SUBSET Facilities] /\ Named \in [Facilities -> SUBSET Facilities]
  /\ Room \in Nat
  /\ Written \in Seq({Written[i] : i \in DOMAIN Written})

VARIABLES
  companies,   \* companies[n]: "none", or the DOT number of company n, or "" without one
  aliases,     \* aliases[n]: the companies that name n is an alias of, oldest first
  sites,       \* Site rows: [company, place, parcel]
  reviews,     \* ResolutionReview rows
  signals,     \* IndustrialSignal rows: [source, ref, company, parcel]
  waste,       \* references of those of ECHO's waste list, oldest first
  buildings,   \* parcels with a BuildingAttributes row
  notes,       \* notes[p]: the notes in that row
  flights,     \* flights[p]: coverages found over p, oldest first
  told,        \* history: the class of facility f stored last is told[f]
  flipped,     \* history: facilities that changed back to a class and then as before
  blurred,     \* history: those of which a class was stored without comparing, or may
               \* be taken from another's row
  retold,      \* history: those of which a change to the class stored last made a row
  misled       \* history: those of which a change from another class did

nameVars == <<companies, aliases, reviews>>
signalVars == <<signals, waste, told, flipped, blurred, retold, misled>>
noteVars == <<buildings, notes>>
restVars == <<sites, flights>>
vars == <<deskVars, nameVars, signalVars, noteVars, restVars>>

Init ==
  /\ DeskInit
  /\ companies = [n \in Names |-> "none"]
  /\ aliases = [n \in Names |-> <<>>]
  /\ sites = {} /\ reviews = {} /\ signals = {} /\ waste = <<>> /\ buildings = {}
  /\ notes = [p \in Parcels |-> <<>>]
  /\ flights = [p \in Parcels |-> <<>>]
  /\ told = [f \in Facilities |-> "none"]
  /\ flipped = {} /\ blurred = {} /\ retold = {} /\ misled = {}

----------------------------------------------------------------------------
\* What ECHO's connector knows of the past, it reads off the signals stored.

ClassIn(ref) == Universe(ref[Len(ref)])

\* The rows of a facility: changes by its key, baselines by any key that begins so.
Matches(ref, f) == ref[2] = f \/ (ref[1] = "rcra_baseline" /\ ref[2] \in Longer[f])
RowsOf(f) == {i \in DOMAIN waste : Matches(waste[i], f)}

\* Among the newest four hundred, those that name it.
RowsNaming(f) == {i \in DOMAIN waste : i > Len(waste) - 400 /\ waste[i][2] \in Named[f]}

NewestClass(rows) == ClassIn(waste[CHOOSE i \in rows : \A j \in rows : j <= i])

\* Mutant: the oldest row instead of the newest.
OldestClass(f) ==
  IF RowsOf(f) = {} THEN "none" ELSE ClassIn(waste[CHOOSE i \in RowsOf(f) : \A j \in RowsOf(f) : i <= j])

\* loadPriorRcra: the class of the newest row.  A change that happens a second time
\* updates the row of the first, which keeps its place.
PriorClass(f) ==
  IF RowsOf(f) # {} THEN NewestClass(RowsOf(f))
  ELSE IF RowsNaming(f) # {} THEN NewestClass(RowsNaming(f))
  ELSE "none"

\* hasPriorCwa.
PermitKnown(f) ==
  \E r \in signals : /\ r.source = "echo" /\ r.ref[1] \in {"npdes_new", "npdes_baseline"}
                     /\ r.ref[2] \in {f} \cup Longer[f] \cup Named[f]

\* What is new in a list.
Services == {"air", "waste", "water"}

EchoEvents(lists, service) ==
  CASE service = "air" -> UNION {AirEvents(e[1], e[2], Since) : e \in lists.air}
    [] service = "waste" -> UNION {RcraEvents(e[1], Universe(e[2]), PriorClass(e[1])) : e \in lists.waste}
    [] OTHER -> UNION {CwaEvents(e[1], e[2], Since, PermitKnown(e[1])) : e \in lists.water}

\* The drafts of those that could be read.
EchoFetch(lists, read) ==
  {EchoDraft(e, Direction(e), Sited[e[2]]) : e \in UNION {EchoEvents(lists, i) : i \in read}}

----------------------------------------------------------------------------
\* Tasks.

NoDraft == [name |-> "none", place |-> "none", dot |-> "none"]

Task(via, at, todo) ==
  [via |-> via, at |-> at, todo |-> todo, draft |-> NoDraft, company |-> "none",
   parcel |-> "none", prior |-> <<>>, note |-> "none", late |-> FALSE]

At(s, at) == task[s] # Idle /\ task[s].at = at
Goes(s, at) == Become(s, [task[s] EXCEPT !.at = at])

\* The task at one of the drafts todo, which come in some order; or done.
Following(via, todo) ==
  IF todo = {} THEN {Idle}
  ELSE {[Task(via, IF d.dot = "none" THEN "exact" ELSE "dot", todo \ {d}) EXCEPT !.draft = d] : d \in todo}

Begins(s, via, drafts) == \E t \in Following(via, drafts) : Become(s, t)
GoesOn(s) == Begins(s, task[s].via, task[s].todo)

\* A run whose drafts are stored without comparing goes by "feed".
RunVias == {"run", "feed"}
Running == {s \in Slots : task[s] # Idle /\ task[s].via \in RunVias}

\* The observation of flight i over p, against the flight before, of an earlier day.
Observation(p, i) ==
  [name |-> YardOf[p].name, place |-> YardOf[p].place, id |-> <<p, i>>, coverage |-> flights[p][i],
   prior |-> IF i = 1 THEN Absent ELSE flights[p][i - 1]]

AerialFetch == UNION {UNION {AerialDrafts(Observation(p, i)) : i \in DOMAIN flights[p]} : p \in Parcels}

\* ECHO's run: the rows of its feed as they are, or nothing when it is switched off, or
\* what is new in the lists, of which one may not be read.
EchoRun(s) ==
  \/ "feed" \in Modes /\ UNCHANGED failures /\ \E drafts \in EchoFeeds : Begins(s, "feed", drafts)
  \/ "idle" \in Modes /\ UNCHANGED failures /\ Begins(s, "run", {})
  \/ /\ "live" \in Modes
     /\ \E lists \in Lists :
          \/ UNCHANGED failures /\ Begins(s, "run", EchoFetch(lists, Services))
          \/ \E i \in Services : Fails /\ Begins(s, "run", EchoFetch(lists, Services \ {i}))

\* A connector's run.
StartRun(s) ==
  /\ Running = {} /\ Arrives(s)
  /\ \/ UNCHANGED failures /\ \E k \in DOMAIN Runs : Begins(s, "run", Runs[k])
     \/ UNCHANGED failures /\ Begins(s, "run", AerialFetch)
     \/ EchoRun(s)
  /\ UNCHANGED <<nameVars, signalVars, noteVars, restVars>>

Paste(s, drafts) ==
  /\ Arrives(s)
  /\ Begins(s, "paste", drafts)
  /\ UNCHANGED <<failures, nameVars, signalVars, noteVars, restVars>>

\* A signal typed in gets a reference of its own.
Manual(s, row) ==
  /\ Arrives(s)
  /\ Begins(s, "manual", {Draft("manual", <<"manual", calls>>, "REFERRAL", "", 25, row)})
  /\ UNCHANGED <<failures, nameVars, signalVars, noteVars, restVars>>

----------------------------------------------------------------------------
\* resolveCompany: by DOT number, by name, by alias, by likeness; or a new company.

Name(s) == task[s].draft.name
Dot(s) == task[s].draft.dot
Exists(n) == companies[n] # "none"
Resolved(s, n, at) == Become(s, [task[s] EXCEPT !.company = n, !.at = at])
NamesUnchanged == UNCHANGED <<calls, failures, nameVars, signalVars, noteVars, restVars>>

ByDot(s) ==
  /\ At(s, "dot")
  /\ \/ \E n \in Names : companies[n] = Dot(s) /\ Resolved(s, n, "alias_look")
     \/ (\A n \in Names : companies[n] # Dot(s)) /\ Goes(s, "exact")
  /\ NamesUnchanged

\* A company without a number gets the draft's.
ByName(s) ==
  /\ At(s, "exact")
  /\ IF ~Exists(Name(s)) THEN Goes(s, "alias")
     ELSE Resolved(s, Name(s), IF Dot(s) # "none" /\ companies[Name(s)] = "" THEN "number" ELSE "site")
  /\ NamesUnchanged

\* Numbers are unique.
NumberTaken(s) == Dot(s) # "none" /\ \E n \in Names : companies[n] = Dot(s)

WriteNumber(s) ==
  /\ At(s, "number") /\ ~NumberTaken(s)
  /\ companies' = [companies EXCEPT ![Name(s)] = Dot(s)]
  /\ Goes(s, "site")
  /\ UNCHANGED <<calls, failures, aliases, reviews, signalVars, noteVars, restVars>>

\* Mutant: aliases are not looked up.
AliasIgnored(n) == FALSE

AliasKnown(n) == aliases[n] # <<>>

ByAlias(s) ==
  /\ At(s, "alias")
  /\ IF AliasKnown(Name(s)) THEN Resolved(s, Head(aliases[Name(s)]), "site") ELSE Goes(s, "alike")
  /\ NamesUnchanged

\* Tasks that have found no alias of the name n, and still look or are about to write.
Resolving(n) ==
  {s \in Slots : task[s] # Idle /\ task[s].at \in {"alike", "review", "create"} /\ task[s].draft.name = n}

\* Tasks about to write notes of p read before.
Holding(p) == {s \in Slots : At(s, "note_write") /\ task[s].parcel = p}

\* The task goes on as t; for the others, what they have read is too old now.
BecomeAhead(s, t, others) ==
  task' = [r \in Slots |-> IF r = s THEN t
                           ELSE IF r \in others THEN [task[r] EXCEPT !.late = TRUE] ELSE task[r]]

\* The company most alike.
Likest(n, how) == {m \in Names : Exists(m) /\ Alike[n][m] = how}

ByLikeness(s) ==
  /\ At(s, "alike")
  /\ \/ \E m \in Likest(Name(s), "same") : Resolved(s, m, "alias_look")
     \/ /\ Likest(Name(s), "same") = {}
        /\ \/ \E m \in Likest(Name(s), "review") : Resolved(s, m, "review")
           \/ Likest(Name(s), "review") = {} /\ Goes(s, "create")
  /\ NamesUnchanged

\* ensureAlias.
AliasLook(s) ==
  /\ At(s, "alias_look")
  /\ Goes(s, IF \E i \in DOMAIN aliases[Name(s)] : aliases[Name(s)][i] = task[s].company
             THEN "site" ELSE "alias_write")
  /\ NamesUnchanged

AliasWrite(s) ==
  /\ At(s, "alias_write")
  /\ aliases' = [aliases EXCEPT ![Name(s)] = Append(@, task[s].company)]
  /\ BecomeAhead(s, [task[s] EXCEPT !.at = "site"], Resolving(Name(s)))
  /\ UNCHANGED <<calls, failures, companies, reviews, signalVars, noteVars, restVars>>

\* A name somewhat like another's: a review is filed, and the company made all the same.
FileReview(s) ==
  /\ At(s, "review")
  /\ reviews' = reviews \cup {[kind |-> "company", name |-> Name(s), candidate |-> task[s].company]}
  /\ Goes(s, "create")
  /\ UNCHANGED <<calls, failures, companies, aliases, signalVars, noteVars, restVars>>

CreateTaken(s) == Exists(Name(s)) \/ NumberTaken(s)

Create(s) ==
  /\ At(s, "create") /\ ~CreateTaken(s)
  /\ companies' = [companies EXCEPT ![Name(s)] = IF Dot(s) = "none" THEN "" ELSE Dot(s)]
  /\ Resolved(s, Name(s), "site")
  /\ UNCHANGED <<calls, failures, aliases, reviews, signalVars, noteVars, restVars>>

\* What is unique and taken meanwhile throws, and ends the run or the request.
Throws(s) ==
  /\ \/ At(s, "number") /\ NumberTaken(s)
     \/ At(s, "create") /\ CreateTaken(s)
  /\ Ends(s)
  /\ NamesUnchanged

----------------------------------------------------------------------------
\* resolveSite.

Place(s) == task[s].draft.place
Rows(s) == {r \in sites : r.company = task[s].company /\ r.place = Place(s)}

SiteLook(s) ==
  /\ At(s, "site")
  /\ \/ \E r \in Rows(s) : Become(s, [task[s] EXCEPT !.at = "store", !.parcel = r.parcel])
     \/ Place(s) = "none" /\ Goes(s, "store")
     \/ Place(s) # "none" /\ Rows(s) = {} /\ Goes(s, "site_write")
  /\ NamesUnchanged

\* An address that fits somewhat goes to review, and the site has no parcel.
SiteWrite(s) ==
  /\ At(s, "site_write")
  /\ LET match == MatchOf[Place(s)]
         parcel == IF match.how \in {"exact", "fuzzy"} THEN match.parcel ELSE "none"
     IN /\ sites' = sites \cup {[company |-> task[s].company, place |-> Place(s), parcel |-> parcel]}
        /\ reviews' = IF match.how # "review" THEN reviews
                      ELSE reviews \cup {[kind |-> "site", place |-> Place(s), company |-> task[s].company,
                                          parcel |-> match.parcel]}
        /\ Become(s, [task[s] EXCEPT !.at = "store", !.parcel = parcel])
  /\ UNCHANGED <<calls, failures, companies, aliases, signalVars, noteVars, flights>>

----------------------------------------------------------------------------
\* The signal, and its note.

Row(s) == [source |-> task[s].draft.source, ref |-> task[s].draft.ref,
           company |-> task[s].company, parcel |-> task[s].parcel]

Same(row) == {r \in signals : r.source = row.source /\ r.ref = row.ref}
TellsClass(row) == row.source = "echo" /\ row.ref[1] \in {"rcra_baseline", "rcra_change"}

\* maybeAnnotateBuilding: notes are made of permits and changes of class only.
Annotates(s) ==
  task[s].parcel # "none" /\ task[s].draft.type \in {"ENV_PERMIT", "GENERATOR_STATUS_CHANGE"}

\* The note leaves out which facility it is of, unless it names its permit.
NoteOf(ref) ==
  IF ref[1] \in {"air_fce", "rcra_baseline", "rcra_change"} THEN <<ref[1]>> \o SubSeq(ref, 3, Len(ref)) ELSE ref

\* What a class that is stored by task t tells.
HasRow(ref) == \E i \in DOMAIN waste : waste[i] = ref
Alone(t, f) == \A d \in t.todo : TellsClass(d) => d.ref[2] # f
Compared(t, f) == t.via = "run" /\ Alone(t, f)
TakenFrom(ref) == {f \in Facilities : ref[1] = "rcra_baseline" /\ ref[2] \in Longer[f]}

TellClass(t, ref) ==
  LET f == ref[2]
      change == ref[1] = "rcra_change"
      IfSo(holds) == IF holds THEN {f} ELSE {}
  IN /\ waste' = IF HasRow(ref) THEN waste ELSE Append(waste, ref)
     /\ told' = [told EXCEPT ![f] = ClassIn(ref)]
     /\ blurred' = blurred \cup TakenFrom(ref) \cup IfSo(~Compared(t, f))
     /\ flipped' = flipped \cup IfSo(change /\ HasRow(ref))
     /\ retold' = retold \cup IfSo(change /\ ~HasRow(ref) /\ told[f] = ClassIn(ref))
     /\ misled' = misled \cup IfSo(change /\ ~HasRow(ref) /\ told[f] \notin {"none", Universe(ref[3])})

\* upsert by reference: the row there is updated where it stands.
Store(s) ==
  /\ At(s, "store")
  /\ signals' = (signals \ Same(Row(s))) \cup {Row(s)}
  /\ IF TellsClass(Row(s)) THEN TellClass(task[s], Row(s).ref)
     ELSE UNCHANGED <<waste, told, flipped, blurred, retold, misled>>
  /\ IF Annotates(s) THEN Become(s, [task[s] EXCEPT !.at = "note", !.note = NoteOf(task[s].draft.ref)])
     ELSE GoesOn(s)
  /\ UNCHANGED <<calls, failures, nameVars, noteVars, restVars>>

\* A run goes on when a signal cannot be stored, or its note; a paste does not.
Skips(s) ==
  /\ At(s, "store") \/ At(s, "note") \/ At(s, "note_write")
  /\ task[s].via \in RunVias
  /\ Fails
  /\ GoesOn(s)
  /\ UNCHANGED <<calls, nameVars, signalVars, noteVars, restVars>>

\* What is read is of now.
ReadsNotes(s) ==
  Become(s, [task[s] EXCEPT !.at = "note_write", !.prior = notes[task[s].parcel], !.late = FALSE])

Noted(list, note) == \E i \in DOMAIN list : list[i] = note

NoteRead(s) ==
  /\ At(s, "note")
  /\ IF Noted(notes[task[s].parcel], task[s].note) THEN GoesOn(s)
     ELSE ReadsNotes(s)
  /\ UNCHANGED <<calls, failures, nameVars, signalVars, noteVars, restVars>>

\* Mutant: a note replaces those before it.
Replaced(prior, note) == <<note>>

\* The note goes to the end of what was read, and what has no room is cut off: the note,
\* and what the form may have written beyond the room before it.
Merged(prior, note) == SubSeq(Append(prior, note), 1, Lesser(Room, Len(prior) + 1))

Notes(s, now, t) ==
  /\ notes' = [notes EXCEPT ![task[s].parcel] = now]
  /\ buildings' = buildings \cup {task[s].parcel}
  /\ BecomeAhead(s, t, Holding(task[s].parcel))

AfterNote(t) ==
  IF t.via = "yard" THEN {[t EXCEPT !.at = "event"]} ELSE Following(t.via, t.todo)

NoteWrite(s) ==
  /\ At(s, "note_write")
  /\ \E t \in AfterNote(task[s]) : Notes(s, Merged(task[s].prior, task[s].note), t)
  /\ UNCHANGED <<calls, failures, nameVars, signalVars, restVars>>

----------------------------------------------------------------------------
\* A flight over a yard: its observation, its note and the signal it may make.

Flight(s, p, coverage) ==
  /\ Arrives(s)
  /\ flights' = [flights EXCEPT ![p] = Append(@, coverage)]
  /\ Become(s, [Task("yard", "yard", {}) EXCEPT !.parcel = p, !.note = <<"aerial", Len(flights[p]) + 1>>])
  /\ UNCHANGED <<failures, nameVars, signalVars, noteVars, sites>>

\* A building not known yet gets its row with the note in it.
YardRow(s) ==
  /\ At(s, "yard")
  /\ IF task[s].parcel \in buildings THEN Goes(s, "yard_note") /\ UNCHANGED noteVars
     ELSE Notes(s, <<task[s].note>>, [task[s] EXCEPT !.at = "yard_note"])
  /\ UNCHANGED <<calls, failures, nameVars, signalVars, restVars>>

YardNote(s) ==
  /\ At(s, "yard_note")
  /\ IF Noted(notes[task[s].parcel], task[s].note) THEN Goes(s, "event")
     ELSE ReadsNotes(s)
  /\ UNCHANGED <<calls, failures, nameVars, signalVars, noteVars, restVars>>

YardSignal(s) ==
  /\ At(s, "event")
  /\ Begins(s, "paste", AerialDrafts(Observation(task[s].parcel, task[s].note[2])))
  /\ UNCHANGED <<calls, failures, nameVars, signalVars, noteVars, restVars>>

\* upsertByPin: the form of a building replaces its notes by what it shows, however long.
Forms(p) == {<<>>, notes[p], notes[p] \o Written}

SaveBuilding(s, p, shown) ==
  /\ Arrives(s)
  /\ BecomeAhead(s, Idle, Holding(p))
  /\ shown \in Forms(p)
  /\ notes' = [notes EXCEPT ![p] = shown]
  /\ buildings' = buildings \cup {p}
  /\ UNCHANGED <<failures, nameVars, signalVars, restVars>>

----------------------------------------------------------------------------
\* Reviews: confirming one makes an alias of the candidate, or a second site.  A
\* review may be answered again.

ConfirmCompany(s, r) ==
  /\ r.kind = "company"
  /\ Arrives(s)
  /\ BecomeAhead(s, Idle, Resolving(r.name))
  /\ aliases' = [aliases EXCEPT ![r.name] = Append(@, r.candidate)]
  /\ UNCHANGED <<failures, companies, reviews, signalVars, noteVars, restVars>>

ConfirmSite(s, r) ==
  /\ Arrives(s) /\ Ends(s)
  /\ r.kind = "site"
  /\ sites' = sites \cup {[company |-> r.company, place |-> r.place, parcel |-> r.parcel]}
  /\ UNCHANGED <<failures, nameVars, signalVars, noteVars, flights>>

----------------------------------------------------------------------------
\* A statement throws: the run or the request ends with what it has done.
TaskFails(s) ==
  /\ task[s] # Idle
  /\ Fails
  /\ Ends(s)
  /\ UNCHANGED <<calls, nameVars, signalVars, noteVars, restVars>>

Restart ==
  /\ Fails
  /\ task' = [s \in Slots |-> Idle]
  /\ UNCHANGED <<calls, nameVars, signalVars, noteVars, restVars>>

Next ==
  \/ \E s \in Slots :
       \/ StartRun(s) \/ \E drafts \in Pastes : Paste(s, drafts)
       \/ \E row \in Typed : Manual(s, row)
       \/ ByDot(s) \/ ByName(s) \/ WriteNumber(s) \/ ByAlias(s) \/ ByLikeness(s)
       \/ AliasLook(s) \/ AliasWrite(s) \/ FileReview(s) \/ Create(s) \/ Throws(s)
       \/ SiteLook(s) \/ SiteWrite(s)
       \/ Store(s) \/ Skips(s) \/ NoteRead(s) \/ NoteWrite(s)
       \/ \E p \in Parcels, c \in Coverages : Flight(s, p, c)
       \/ YardRow(s) \/ YardNote(s) \/ YardSignal(s)
       \/ \E p \in Parcels : \E shown \in Forms(p) : SaveBuilding(s, p, shown)
       \/ \E r \in reviews : ConfirmCompany(s, r) \/ ConfirmSite(s, r)
       \/ TaskFails(s)
  \/ Restart

Spec == Init /\ [][Next]_vars

----------------------------------------------------------------------------
\* The company a name stands for, when it comes without a DOT number.
Answer(n) ==
  IF Exists(n) THEN n ELSE IF aliases[n] # <<>> THEN Head(aliases[n]) ELSE "none"

\* A name that has once been resolved keeps its company, whatever is resolved,
\* confirmed or reviewed after it, unless a task makes a company of the name whose
\* alias was written since it looked for one (resolveCompany looks in four places
\* before it writes).
NameKeepsCompany ==
  [][\A n \in Names : Answer(n) # "none" =>
       Answer(n)' = Answer(n) \/ \E s \in Resolving(n) : task[s].late /\ Create(s)]_vars

\* A change to the class of waste generator that was stored last makes no further row
\* (fetchRcra compares with the newest one), unless a class of the facility was stored
\* without comparing: from ECHO's own feed, from a paste, or when two rows of the list
\* go by one key; or unless its class may have been taken from the baseline of another
\* whose key begins with its own.  And a change that makes a row is one from the class
\* stored last, unless moreover the facility once went back and changed as before: the
\* row of the first change is updated and stays behind the row of the way back, which
\* from then on looks like the newest.
ChangeToldOnce == retold \subseteq blurred /\ misled \subseteq blurred \cup flipped

\* Notes of a building are lost only when its form is saved, when a task writes that
\* read them before another wrote, or from those a form has written beyond the room of
\* 4000 characters; and a note is only left out when those read fill the room.
Keeps(old, new) == Len(old) <= Len(new) /\ \A i \in 1..Len(old) : new[i] = old[i]

NotesKept ==
  [][\A p \in Parcels :
       /\ \/ Keeps(notes[p], notes'[p])
          \/ \E s \in Holding(p) : NoteWrite(s) /\ (task[s].late \/ Len(notes[p]) > Room)
          \/ \E s \in Slots, shown \in Forms(p) : SaveBuilding(s, p, shown)
       /\ \A s \in Holding(p) : NoteWrite(s) => Noted(notes'[p], task[s].note) \/ Len(task[s].prior) >= Room]_vars
=============================================================================
