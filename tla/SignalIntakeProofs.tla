-------------------------- MODULE SignalIntakeProofs --------------------------
(***************************************************************************)
(* Theorems about the intake of signals: for any names and likeness, any       *)
(* feeds, pastes and flights, any number of tasks side by side, failures and    *)
(* restarts.  The invariant says of each task what it still knows of what it    *)
(* has read (Fits): of its name, of the notes it adds to, and of the class of   *)
(* waste the run is about to tell.  Most steps write none of the tables it      *)
(* speaks of (Quiet), and one lemma keeps it over them all.                     *)
(***************************************************************************)
EXTENDS SignalIntake, SequenceTheorems, TLAPS

----------------------------------------------------------------------------
\* The invariant.

\* The fields of a task.
Fields == {"via", "at", "todo", "draft", "company", "parcel", "prior", "note", "late"}

TaskOK(t) == DOMAIN t = Fields /\ t.at # "idle"

TasksOK == DOMAIN task = Slots /\ \A s \in Slots : task[s] = Idle \/ TaskOK(task[s])

\* The tables, as far as the rest needs their form; a building without a row has no notes.
TablesOK ==
  /\ DOMAIN companies = Names /\ DOMAIN aliases = Names /\ DOMAIN notes = Parcels
  /\ \A n \in Names : \E S : aliases[n] \in Seq(S)
  /\ DOMAIN told = Facilities
  /\ \E S : waste \in Seq(S)
  /\ \A p \in Parcels : \E S : notes[p] \in Seq(S)
  /\ \A p \in Parcels : p \notin buildings => notes[p] = <<>>

\* What a task t still knows of the name of its draft: that its company is there, or that
\* it has no alias, unless it is late.
KnowsName(t) ==
  t.draft.name \in Names =>
    /\ t.at = "number" => t.draft.dot # "none" /\ Exists(t.draft.name)
    /\ t.at \in {"alike", "review", "create"} => aliases[t.draft.name] = <<>> \/ t.late

\* What it still knows of the notes it adds to.
KnowsNotes(t) ==
  t.at = "note_write" /\ t.parcel \in Parcels =>
    /\ \E S : t.prior \in Seq(S)
    /\ ~t.late => t.prior = notes[t.parcel]

\* The drafts of t that are still to be stored.
ToStore(t) == IF t.at \in {"note", "note_write"} THEN t.todo ELSE t.todo \cup {t.draft}

\* What a run tells of a class it has compared: a baseline of a facility that has no row, or
\* a change from the class of its newest row to another.
Fresh(ref) ==
  /\ ClassIn(ref) # "none"
  /\ ref[1] = "rcra_baseline" => told[ref[2]] = "none"
  /\ ref[1] = "rcra_change" =>
       /\ ref = <<"rcra_change", ref[2], ref[3], ClassIn(ref)>>
       /\ ref[3] # ClassIn(ref) /\ Universe(ref[3]) = ref[3]
       /\ told[ref[2]] = "none" \/ ref[3] = PriorClass(ref[2])

News(drafts) ==
  \A d \in drafts : TellsClass(d) => d.ref[2] \in Facilities /\ (d.ref[2] \in blurred \/ Fresh(d.ref))

BringsNews(t) == t.via = "run" => News(ToStore(t))

Fits(t) == KnowsName(t) /\ KnowsNotes(t) /\ BringsNews(t)

\* The runs that compare; there is one.
Comparing == {s \in Slots : task[s] # Idle /\ task[s].via = "run"}
OneRun == \A r, s \in Comparing : r = s

\* The newest row of facility f tells the class stored last, or else the class from which
\* the last change went that only updated its row.
Newest(f, i) == i \in RowsOf(f) /\ \A j \in RowsOf(f) : j <= i

Known(f) ==
  IF told[f] = "none" THEN \A i \in DOMAIN waste : waste[i][2] # f
  ELSE /\ \E i : Newest(f, i)
       /\ PriorClass(f) # "none"
       /\ \/ told[f] = PriorClass(f)
          \/ f \in flipped /\ HasRow(<<"rcra_change", f, PriorClass(f), told[f]>>)

NewestIsLast == \A f \in Facilities \ blurred : Known(f)

ClassesOK == NewestIsLast /\ ChangeToldOnce

IInv ==
  /\ TasksOK
  /\ TablesOK
  /\ \A s \in Slots : task[s] = Idle \/ Fits(task[s])
  /\ OneRun
  /\ ClassesOK

----------------------------------------------------------------------------
\* Tasks.

LEMMA IdleIsNone == Idle.at = "idle" /\ \A t : TaskOK(t) => t # Idle
BY DEF Idle, TaskOK

(* The table of tasks after one of them has gone on.                        *)
LEMMA BecomeFacts ==
  ASSUME TasksOK, NEW s \in Slots, NEW t, t = Idle \/ TaskOK(t), Become(s, t)
  PROVE  /\ TasksOK'
         /\ task'[s] = t
         /\ \A r \in Slots : r # s => task'[r] = task[r]
BY DEF TasksOK, Become

(* And after it has gone on ahead of others.                                *)
LEMMA AheadFacts ==
  ASSUME TasksOK, NEW s \in Slots, NEW t, t = Idle \/ TaskOK(t),
         NEW others, \A r \in others : task[r] # Idle, BecomeAhead(s, t, others)
  PROVE  /\ TasksOK'
         /\ task'[s] = t
         /\ \A r \in Slots : r # s => task'[r] = IF r \in others THEN [task[r] EXCEPT !.late = TRUE] ELSE task[r]
<1>1. /\ DOMAIN task' = Slots
      /\ task'[s] = t
      /\ \A r \in Slots : r # s => task'[r] = IF r \in others THEN [task[r] EXCEPT !.late = TRUE] ELSE task[r]
  BY DEF BecomeAhead
<1>2. ASSUME NEW r \in Slots, TaskOK(task[r]) PROVE TaskOK([task[r] EXCEPT !.late = TRUE])
  BY <1>2 DEF TaskOK, Fields
<1> QED
  BY <1>1, <1>2 DEF TasksOK

(* What a task that has become late still is.                               *)
LEMMA LateFacts ==
  ASSUME NEW u, TaskOK(u)
  PROVE  LET t == [u EXCEPT !.late = TRUE]
         IN  /\ TaskOK(t) /\ t.late
             /\ t.via = u.via /\ t.at = u.at /\ t.todo = u.todo /\ t.draft = u.draft
             /\ t.parcel = u.parcel /\ t.prior = u.prior
BY DEF TaskOK, Fields

(* The first task of drafts: it has looked at nothing yet.                  *)
LEMMA FollowingFacts ==
  ASSUME NEW via, NEW todo, NEW t \in Following(via, todo)
  PROVE  \/ t = Idle
         \/ /\ TaskOK(t) /\ t.via = via /\ t.at \in {"dot", "exact"}
            /\ t.draft \in todo /\ t.todo = todo \ {t.draft}
<1>1. CASE todo = {}
  BY <1>1 DEF Following
<1>2. CASE todo # {}
  <2>1. PICK d \in todo : t = [Task(via, IF d.dot = "none" THEN "exact" ELSE "dot", todo \ {d}) EXCEPT !.draft = d]
    BY <1>2 DEF Following
  <2>2. /\ DOMAIN t = Fields /\ t.via = via /\ t.at \in {"dot", "exact"}
        /\ t.draft = d /\ t.todo = todo \ {d}
    BY <2>1 DEF Task, Fields
  <2> QED
    BY <2>2 DEF TaskOK
<1> QED
  BY <1>1, <1>2

(* It fits, if its drafts are news.                                         *)
LEMMA FollowingFits ==
  ASSUME NEW via, NEW todo, NEW t \in Following(via, todo),
         via = "run" => News(todo)
  PROVE  t = Idle \/ (TaskOK(t) /\ t.via = via /\ Fits(t))
<1> SUFFICES ASSUME t # Idle PROVE TaskOK(t) /\ t.via = via /\ Fits(t)
  OBVIOUS
<1>1. /\ TaskOK(t) /\ t.via = via /\ t.at \in {"dot", "exact"}
      /\ t.draft \in todo /\ t.todo = todo \ {t.draft}
  BY FollowingFacts
<1>2. KnowsName(t) /\ KnowsNotes(t)
  BY <1>1 DEF KnowsName, KnowsNotes
<1>3. ToStore(t) = todo
  BY <1>1 DEF ToStore
<1>4. BringsNews(t)
  BY <1>1, <1>3 DEF BringsNews
<1> QED
  BY <1>1, <1>2, <1>4 DEF Fits

(* A part of what is news is news.                                          *)
LEMMA FewerNews ==
  ASSUME NEW drafts, NEW some \in SUBSET drafts, News(drafts)
  PROVE  News(some)
BY DEF News

(* A task goes on with its other drafts.                                    *)
LEMMA GoesOnFits ==
  ASSUME NEW u, TaskOK(u), Fits(u), NEW t \in Following(u.via, u.todo)
  PROVE  t = Idle \/ (TaskOK(t) /\ t.via = u.via /\ Fits(t))
<1>1. u.todo \subseteq ToStore(u)
  BY DEF ToStore
<1>2. u.via = "run" => News(u.todo)
  BY <1>1, FewerNews DEF Fits, BringsNews
<1> QED
  BY <1>2, FollowingFits

(* A task that goes on to another statement with its draft brings the same news.  *)
LEMMA SameNews ==
  ASSUME NEW u, NEW t, BringsNews(u), t.via = u.via, t.todo = u.todo, t.draft = u.draft,
         u.at \in {"note", "note_write"} => t.at \in {"note", "note_write"}
  PROVE  BringsNews(t)
<1> SUFFICES ASSUME t.via = "run" PROVE News(ToStore(t))
  BY DEF BringsNews
<1>1. News(ToStore(u))
  BY DEF BringsNews
<1>2. ToStore(t) \subseteq ToStore(u)
  BY DEF ToStore
<1> QED
  BY <1>1, <1>2, FewerNews

\* A task u goes on as t, to the statement a; what changes beside that is x.
Moves(u, a, x, t) ==
  t \in {[u EXCEPT !.at = a], [u EXCEPT !.company = x, !.at = a],
         [u EXCEPT !.at = a, !.parcel = x], [u EXCEPT !.at = a, !.note = x]}

(* What a task keeps that goes on to the statement a.                       *)
LEMMA MoveFacts ==
  ASSUME NEW u, TaskOK(u), NEW a, a # "idle", NEW x, NEW t, Moves(u, a, x, t)
  PROVE  /\ TaskOK(t) /\ t.at = a
         /\ t.via = u.via /\ t.todo = u.todo /\ t.draft = u.draft /\ t.late = u.late
BY DEF TaskOK, Fields, Moves

\* The statements before which a task must know something.
Knowing == {"number", "alike", "review", "create", "note_write"}

(* A task that goes on to a statement where nothing need be known.          *)
LEMMA MoveFits ==
  ASSUME NEW u, TaskOK(u), Fits(u), NEW a, a # "idle", NEW x, NEW t, Moves(u, a, x, t),
         a \notin Knowing, u.at \notin {"note", "note_write"}
  PROVE  TaskOK(t) /\ t.via = u.via /\ Fits(t)
<1>1. /\ TaskOK(t) /\ t.at = a
      /\ t.via = u.via /\ t.todo = u.todo /\ t.draft = u.draft /\ t.late = u.late
  BY MoveFacts
<1>2. BringsNews(t)
  BY <1>1, SameNews DEF Fits
<1> QED
  BY <1>1, <1>2 DEF Fits, KnowsName, KnowsNotes, Knowing

----------------------------------------------------------------------------
\* Steps that write none of the tables the invariant is about.

Unwritten == UNCHANGED <<companies, aliases, notes, buildings, waste, told, flipped, blurred, retold, misled>>

\* The task of slot s goes on as one that fits, or ends.
FitsOn(s) ==
  \E t : /\ Become(s, t)
         /\ t = Idle \/ (TaskOK(t) /\ Fits(t) /\ (t.via = "run" => s \in Comparing \/ Comparing = {}))

Quiet(s) ==
  \/ StartRun(s) \/ \E drafts \in Pastes : Paste(s, drafts)
  \/ \E row \in Typed : Manual(s, row)
  \/ ByDot(s) \/ ByName(s) \/ ByAlias(s) \/ ByLikeness(s)
  \/ AliasLook(s) \/ FileReview(s) \/ Throws(s)
  \/ SiteLook(s) \/ SiteWrite(s)
  \/ Skips(s) \/ NoteRead(s)
  \/ \E p \in Parcels, c \in Coverages : Flight(s, p, c)
  \/ YardNote(s) \/ YardSignal(s)
  \/ \E r \in reviews : ConfirmSite(s, r)
  \/ TaskFails(s)

(* The task at a statement.                                                 *)
LEMMA AtFacts ==
  ASSUME IInv, NEW s \in Slots, task[s] # Idle
  PROVE  /\ TaskOK(task[s]) /\ Fits(task[s])
         /\ task[s].via = "run" => s \in Comparing
BY DEF IInv, TasksOK, Comparing

(* A task that has gone on to the statement a by its own step.              *)
LEMMA Moved ==
  ASSUME IInv, NEW s \in Slots, task[s] # Idle, task[s].at \notin {"note", "note_write"},
         NEW a, a # "idle", a \notin Knowing, NEW x, NEW t,
         Moves(task[s], a, x, t),
         Become(s, t)
  PROVE  FitsOn(s)
BY AtFacts, MoveFits DEF FitsOn

(* One that has gone on to a statement where something must be known.       *)
LEMMA MovedKnowing ==
  ASSUME IInv, NEW s \in Slots, task[s] # Idle, task[s].at \notin {"note", "note_write"},
         NEW a \in {"number", "alike", "review", "create"}, NEW x, NEW t,
         Moves(task[s], a, x, t),
         Become(s, t),
         Name(s) \in Names =>
           /\ a = "number" => Dot(s) # "none" /\ Exists(Name(s))
           /\ a # "number" => aliases[Name(s)] = <<>> \/ task[s].late
  PROVE  FitsOn(s)
<1>1. TaskOK(task[s]) /\ Fits(task[s]) /\ (task[s].via = "run" => s \in Comparing)
  BY AtFacts
<1>2. /\ TaskOK(t) /\ t.at = a
      /\ t.via = task[s].via /\ t.todo = task[s].todo /\ t.draft = task[s].draft /\ t.late = task[s].late
  BY <1>1, MoveFacts
<1>3. BringsNews(t)
  BY <1>1, <1>2, SameNews DEF Fits
<1>4. KnowsName(t) /\ KnowsNotes(t)
  BY <1>2 DEF KnowsName, KnowsNotes, Name, Dot
<1> QED
  BY <1>1, <1>2, <1>3, <1>4 DEF FitsOn, Fits

(* A request that begins with drafts, or the run, if what it brings is news.  *)
LEMMA Begun ==
  ASSUME NEW s \in Slots, NEW via, NEW drafts, Begins(s, via, drafts),
         via = "run" => Comparing = {} /\ News(drafts)
  PROVE  FitsOn(s)
<1>1. PICK t \in Following(via, drafts) : Become(s, t)
  BY DEF Begins
<1>2. t = Idle \/ (TaskOK(t) /\ t.via = via /\ Fits(t))
  BY FollowingFits
<1> QED
  BY <1>1, <1>2 DEF FitsOn

(* A task that goes on with its other drafts.                               *)
LEMMA WentOn ==
  ASSUME IInv, NEW s \in Slots, task[s] # Idle, GoesOn(s)
  PROVE  FitsOn(s)
<1>1. PICK t \in Following(task[s].via, task[s].todo) : Become(s, t)
  BY DEF GoesOn, Begins
<1>2. t = Idle \/ (TaskOK(t) /\ t.via = task[s].via /\ Fits(t))
  BY AtFacts, GoesOnFits
<1> QED
  BY <1>1, <1>2, AtFacts DEF FitsOn

LEMMA Ended ==
  ASSUME NEW s \in Slots, Ends(s)
  PROVE  FitsOn(s)
BY DEF Ends, FitsOn

(* A task that reads notes now knows them.                                  *)
LEMMA ReadNow ==
  ASSUME IInv, NEW s \in Slots, task[s] # Idle, ReadsNotes(s)
  PROVE  FitsOn(s)
<1> DEFINE t == [task[s] EXCEPT !.at = "note_write", !.prior = notes[task[s].parcel], !.late = FALSE]
<1>1. TaskOK(task[s]) /\ Fits(task[s]) /\ (task[s].via = "run" => s \in Comparing)
  BY AtFacts
<1>2. /\ TaskOK(t) /\ t.at = "note_write" /\ t.prior = notes[t.parcel]
      /\ t.parcel \in Parcels => \E S : t.prior \in Seq(S)
      /\ t.via = task[s].via /\ t.todo = task[s].todo /\ t.draft = task[s].draft
  BY <1>1 DEF TaskOK, Fields, IInv, TablesOK
<1> HIDE DEF t
<1>3. BringsNews(t)
  BY <1>1, <1>2, SameNews DEF Fits
<1>4. KnowsName(t) /\ KnowsNotes(t)
  BY <1>2 DEF KnowsName, KnowsNotes
<1>5. Become(s, t)
  BY DEF ReadsNotes, t
<1> QED
  BY <1>1, <1>2, <1>3, <1>4, <1>5 DEF FitsOn, Fits

(* What a class is taken for is taken for itself.                           *)
LEMMA UniverseTwice == \A c : Universe(Universe(c)) = Universe(c)
BY DEF Universe

LEMMA PriorIsClass ==
  ASSUME NEW f
  PROVE  Universe(PriorClass(f)) = PriorClass(f)
<1>1. Universe("none") = "none"
  BY DEF Universe
<1>2. \A rows : Universe(NewestClass(rows)) = NewestClass(rows)
  BY UniverseTwice DEF NewestClass, ClassIn
<1> QED
  BY <1>1, <1>2 DEF PriorClass

(* What an event of the waste list says is fresh.                           *)
LEMMA EventIsFresh ==
  ASSUME NewestIsLast, NEW f \in Facilities, NEW c, Universe(c) # "none",
         NEW e \in RcraEvents(f, Universe(c), PriorClass(f))
  PROVE  /\ e[1] \in {"rcra_baseline", "rcra_change"} /\ e[2] = f
         /\ f \in blurred \/ Fresh(e)
<1>1. PICK k : k = Universe(c) /\ k # "none" /\ Universe(k) = k
  BY UniverseTwice
<1>2. CASE PriorClass(f) = "none"
  <2>1. e = <<"rcra_baseline", f, k>>
    BY <1>1, <1>2 DEF RcraEvents
  <2>2. Len(e) = 3 /\ e[1] = "rcra_baseline" /\ e[2] = f /\ e[3] = k
    BY <2>1
  <2>3. ClassIn(e) = k
    BY <1>1, <2>2 DEF ClassIn
  <2>4. f \notin blurred => told[f] = "none"
    BY <1>2 DEF NewestIsLast, Known
  <2> QED
    BY <1>1, <2>2, <2>3, <2>4 DEF Fresh
<1>3. CASE PriorClass(f) # "none"
  <2>1. e = <<"rcra_change", f, PriorClass(f), k>> /\ PriorClass(f) # k
    BY <1>1, <1>3 DEF RcraEvents
  <2>2. PICK q : q = PriorClass(f)
    OBVIOUS
  <2>3. e = <<"rcra_change", f, q, k>>
    BY <2>1, <2>2
  <2>4. Len(e) = 4 /\ e[1] = "rcra_change" /\ e[2] = f /\ e[3] = q /\ e[4] = k
    BY <2>3
  <2>5. ClassIn(e) = k
    BY <1>1, <2>4 DEF ClassIn
  <2>6. Universe(q) = q
    BY <2>2, PriorIsClass
  <2> QED
    BY <1>1, <2>1, <2>2, <2>3, <2>4, <2>5, <2>6 DEF Fresh
<1> QED
  BY <1>2, <1>3

(* What the lists of ECHO bring is news.                                    *)
LEMMA EchoBringsNews ==
  ASSUME NewestIsLast, NEW lists \in Lists, NEW read
  PROVE  News(EchoFetch(lists, read))
<1> SUFFICES ASSUME NEW d \in EchoFetch(lists, read), TellsClass(d)
             PROVE  d.ref[2] \in Facilities /\ (d.ref[2] \in blurred \/ Fresh(d.ref))
  BY DEF News
<1>1. PICK i \in read : \E e \in EchoEvents(lists, i) : d = EchoDraft(e, Direction(e), Sited[e[2]])
  BY DEF EchoFetch
<1>2. PICK e \in EchoEvents(lists, i) : d = EchoDraft(e, Direction(e), Sited[e[2]])
  BY <1>1
<1>3. d.ref = e
  BY <1>2 DEF EchoDraft, Draft
<1>4. e[1] \in {"rcra_baseline", "rcra_change"}
  BY <1>3 DEF TellsClass
<1>5. CASE i = "air"
  <2>1. PICK x \in lists.air : e \in AirEvents(x[1], x[2], Since)
    BY <1>5 DEF EchoEvents
  <2> QED
    BY <1>4, <2>1 DEF AirEvents
<1>6. CASE i = "waste"
  <2>1. PICK x \in lists.waste : e \in RcraEvents(x[1], Universe(x[2]), PriorClass(x[1]))
    BY <1>6 DEF EchoEvents
  <2>2. x[1] \in Facilities /\ Universe(x[2]) # "none"
    BY IntakeAssumption
  <2> QED
    BY <1>3, <2>1, <2>2, EventIsFresh
<1>7. CASE i \notin {"air", "waste"}
  <2>1. PICK x \in lists.water : e \in CwaEvents(x[1], x[2], Since, PermitKnown(x[1]))
    BY <1>7 DEF EchoEvents
  <2> QED
    BY <1>4, <2>1 DEF CwaEvents
<1> QED
  BY <1>5, <1>6, <1>7

(* The run begins.                                                          *)
LEMMA StartRunQuiet ==
  ASSUME IInv, NEW s \in Slots, StartRun(s)
  PROVE  FitsOn(s) /\ Unwritten
<1>1. Comparing = {} /\ Unwritten
  BY DEF StartRun, Running, RunVias, Comparing, Unwritten, nameVars, signalVars, noteVars
<1> SUFFICES FitsOn(s)
  BY <1>1
<1>2. ASSUME NEW drafts, \A d \in drafts : d.source # "echo", Begins(s, "run", drafts) PROVE FitsOn(s)
  <2>1. News(drafts)
    BY <1>2 DEF News, TellsClass
  <2> QED
    BY <1>1, <1>2, <2>1, Begun
<1>3. CASE \E k \in DOMAIN Runs : Begins(s, "run", Runs[k])
  BY <1>2, <1>3, IntakeAssumption
<1>4. CASE Begins(s, "run", AerialFetch)
  <2>1. ASSUME NEW o, NEW d \in AerialDrafts(o) PROVE d.source = "aerial"
    BY <2>1 DEF AerialDrafts, Draft
  <2>2. \A d \in AerialFetch : d.source # "echo"
    BY <2>1 DEF AerialFetch
  <2> QED
    BY <1>2, <1>4, <2>2
<1>5. ASSUME NEW lists \in Lists, NEW read, Begins(s, "run", EchoFetch(lists, read)) PROVE FitsOn(s)
  BY <1>1, <1>5, EchoBringsNews, Begun DEF IInv, ClassesOK
<1>6. ASSUME NEW drafts, Begins(s, "feed", drafts) PROVE FitsOn(s)
  BY <1>6, Begun
<1>7. CASE Begins(s, "run", {})
  BY <1>2, <1>7
<1>8. CASE EchoRun(s)
  BY <1>5, <1>6, <1>7, <1>8 DEF EchoRun
<1> QED
  BY <1>1, <1>3, <1>4, <1>8 DEF StartRun

(* Resolving a company, as far as it only looks, or files a review.         *)
LEMMA LooksQuiet ==
  ASSUME IInv, NEW s \in Slots,
         ByDot(s) \/ ByName(s) \/ ByAlias(s) \/ ByLikeness(s) \/ AliasLook(s) \/ FileReview(s) \/ Throws(s)
  PROVE  FitsOn(s) /\ Unwritten
<1>1. Unwritten
  BY DEF ByDot, ByName, ByAlias, ByLikeness, AliasLook, FileReview, Throws, NamesUnchanged, Unwritten,
         nameVars, signalVars, noteVars
<1> SUFFICES FitsOn(s)
  BY <1>1
<1>2. CASE ByDot(s)
  <2>1. PICK a \in {"alias_look", "exact"} :
          \/ \E n : Become(s, [task[s] EXCEPT !.company = n, !.at = a])
          \/ Become(s, [task[s] EXCEPT !.at = a])
    BY <1>2 DEF ByDot, Resolved, Goes
  <2> QED
    BY <1>2, <2>1, Moved DEF ByDot, At, Moves, Knowing
<1>3. CASE ByName(s)
  <2>1. CASE ~Exists(Name(s))
    BY <1>3, <2>1, Moved DEF ByName, At, Goes, Moves, Knowing
  <2>2. CASE Exists(Name(s)) /\ Dot(s) # "none" /\ companies[Name(s)] = ""
    BY <1>3, <2>2, MovedKnowing DEF ByName, At, Resolved, Moves
  <2>3. CASE Exists(Name(s)) /\ ~(Dot(s) # "none" /\ companies[Name(s)] = "")
    BY <1>3, <2>3, Moved DEF ByName, At, Resolved, Moves, Knowing
  <2> QED
    BY <2>1, <2>2, <2>3
<1>4. CASE ByAlias(s)
  <2>1. CASE AliasKnown(Name(s))
    BY <1>4, <2>1, Moved DEF ByAlias, At, Resolved, Moves, Knowing
  <2>2. CASE ~AliasKnown(Name(s))
    BY <1>4, <2>2, MovedKnowing DEF ByAlias, At, Goes, Moves, AliasKnown
  <2> QED
    BY <2>1, <2>2
<1>5. CASE ByLikeness(s)
  <2>1. Name(s) \in Names => aliases[Name(s)] = <<>> \/ task[s].late
    BY <1>5, AtFacts DEF ByLikeness, At, Fits, KnowsName, Name
  <2>2. PICK a \in {"alias_look", "review", "create"} :
          \/ \E n : Become(s, [task[s] EXCEPT !.company = n, !.at = a])
          \/ Become(s, [task[s] EXCEPT !.at = a])
    BY <1>5 DEF ByLikeness, Resolved, Goes
  <2>3. CASE a = "alias_look"
    BY <1>5, <2>2, <2>3, Moved DEF ByLikeness, At, Moves, Knowing
  <2>4. CASE a # "alias_look"
    BY <1>5, <2>1, <2>2, <2>4, MovedKnowing DEF ByLikeness, At, Moves
  <2> QED
    BY <2>3, <2>4
<1>6. CASE AliasLook(s)
  <2>1. PICK a \in {"site", "alias_write"} : Become(s, [task[s] EXCEPT !.at = a])
    BY <1>6 DEF AliasLook, Goes
  <2> QED
    BY <1>6, <2>1, Moved DEF AliasLook, At, Moves, Knowing
<1>7. CASE FileReview(s)
  <2>1. Name(s) \in Names => aliases[Name(s)] = <<>> \/ task[s].late
    BY <1>7, AtFacts DEF FileReview, At, Fits, KnowsName, Name
  <2> QED
    BY <1>7, <2>1, MovedKnowing DEF FileReview, At, Goes, Moves
<1>8. CASE Throws(s)
  BY <1>8, Ended DEF Throws
<1> QED
  BY <1>1, <1>2, <1>3, <1>4, <1>5, <1>6, <1>7, <1>8

(* The others.                                                              *)
LEMMA OthersQuiet ==
  ASSUME IInv, NEW s \in Slots,
         \/ \E drafts \in Pastes : Paste(s, drafts)
         \/ \E row \in Typed : Manual(s, row)
         \/ SiteLook(s) \/ SiteWrite(s) \/ Skips(s) \/ NoteRead(s)
         \/ \E p \in Parcels, c \in Coverages : Flight(s, p, c)
         \/ YardNote(s) \/ YardSignal(s)
         \/ \E r \in reviews : ConfirmSite(s, r)
         \/ TaskFails(s)
  PROVE  FitsOn(s) /\ Unwritten
<1>1. Unwritten
  BY DEF Paste, Manual, SiteLook, SiteWrite, Skips, NoteRead, Flight, YardNote, YardSignal, ConfirmSite,
         TaskFails, NamesUnchanged, Unwritten, nameVars, signalVars, noteVars
<1> SUFFICES FitsOn(s)
  BY <1>1
<1>2. CASE \E drafts \in Pastes : Paste(s, drafts)
  BY <1>2, Begun DEF Paste
<1>3. CASE \E row \in Typed : Manual(s, row)
  BY <1>3, Begun DEF Manual
<1>4. CASE SiteLook(s)
  <2>1. PICK a \in {"store", "site_write"} :
          \/ \E x : Become(s, [task[s] EXCEPT !.at = a, !.parcel = x])
          \/ Become(s, [task[s] EXCEPT !.at = a])
    BY <1>4 DEF SiteLook, Goes
  <2> QED
    BY <1>4, <2>1, Moved DEF SiteLook, At, Moves, Knowing
<1>5. CASE SiteWrite(s)
  <2>1. \E x : Become(s, [task[s] EXCEPT !.at = "store", !.parcel = x])
    BY <1>5 DEF SiteWrite
  <2> QED
    BY <1>5, <2>1, Moved DEF SiteWrite, At, Moves, Knowing
<1>6. CASE Skips(s)
  BY <1>6, WentOn DEF Skips, At
<1>7. CASE NoteRead(s)
  BY <1>7, WentOn, ReadNow DEF NoteRead, At
<1>8. ASSUME NEW p \in Parcels, NEW c \in Coverages, Flight(s, p, c) PROVE FitsOn(s)
  <2> DEFINE t == [Task("yard", "yard", {}) EXCEPT !.parcel = p, !.note = <<"aerial", Len(flights[p]) + 1>>]
  <2>1. TaskOK(t) /\ t.at = "yard" /\ t.via = "yard"
    BY DEF Task, TaskOK, Fields
  <2>2. Become(s, t)
    BY <1>8 DEF Flight
  <2> HIDE DEF t
  <2>3. Fits(t)
    BY <2>1 DEF Fits, KnowsName, KnowsNotes, BringsNews
  <2> QED
    BY <2>1, <2>2, <2>3 DEF FitsOn
<1>9. CASE YardNote(s)
  <2>1. task[s] # Idle /\ task[s].at = "yard_note"
    BY <1>9 DEF YardNote, At
  <2>2. CASE Goes(s, "event")
    BY <2>1, <2>2, Moved DEF Goes, Moves, Knowing
  <2>3. CASE ReadsNotes(s)
    BY <2>1, <2>3, ReadNow
  <2> QED
    BY <1>9, <2>2, <2>3 DEF YardNote
<1>10. CASE YardSignal(s)
  BY <1>10, Begun DEF YardSignal
<1>11. CASE \E r \in reviews : ConfirmSite(s, r)
  BY <1>11, Ended DEF ConfirmSite
<1>12. CASE TaskFails(s)
  BY <1>12, Ended DEF TaskFails
<1> QED
  BY <1>1, <1>2, <1>3, <1>4, <1>5, <1>6, <1>7, <1>8, <1>9, <1>10, <1>11, <1>12

LEMMA QuietFacts ==
  ASSUME IInv, NEW s \in Slots, Quiet(s)
  PROVE  FitsOn(s) /\ Unwritten
BY StartRunQuiet, LooksQuiet, OthersQuiet DEF Quiet

----------------------------------------------------------------------------
\* The invariant is kept.

(* There is still one run, if the others are what they were.                *)
LEMMA StillOneRun ==
  ASSUME IInv, TasksOK', NEW s \in Slots,
         task'[s] # Idle /\ task'[s].via = "run" => s \in Comparing \/ Comparing = {},
         \A r \in Slots : r # s => \/ task'[r] = Idle
                                   \/ task[r] # Idle /\ task'[r].via = task[r].via
  PROVE  OneRun'
<1> SUFFICES ASSUME NEW r \in Comparing', NEW q \in Comparing' PROVE r = q
  BY DEF OneRun
<1>1. \A p \in {r, q} : p \in Slots /\ (p = s \/ p \in Comparing)
  BY DEF Comparing
<1>2. \A p, o \in Comparing : p = o
  BY DEF IInv, OneRun
<1>3. s \in {r, q} => s \in Comparing \/ Comparing = {}
  BY DEF Comparing
<1> QED
  BY <1>1, <1>2, <1>3

(* What the classes stored are, and what is told of them, while none is stored.          *)
classVars == <<waste, told, flipped, blurred, retold, misled>>

LEMMA ClassesKept ==
  ASSUME ClassesOK, UNCHANGED classVars
  PROVE  ClassesOK'
<1>1. \A f : PriorClass(f)' = PriorClass(f) /\ RowsOf(f)' = RowsOf(f) /\ told'[f] = told[f]
  BY DEF PriorClass, RowsOf, RowsNaming, NewestClass, classVars
<1>2. \A ref : HasRow(ref)' <=> HasRow(ref)
  BY DEF HasRow, classVars
<1>3. \A f : Known(f) => Known(f)'
  BY <1>1, <1>2 DEF Known, Newest, classVars
<1> QED
  BY <1>3 DEF ClassesOK, NewestIsLast, ChangeToldOnce, classVars

LEMMA NewsKept ==
  ASSUME UNCHANGED classVars
  PROVE  \A u : BringsNews(u) => BringsNews(u)'
<1>1. \A f : PriorClass(f)' = PriorClass(f)
  BY DEF PriorClass, RowsOf, RowsNaming, NewestClass, classVars
<1>2. \A ref : Fresh(ref) => Fresh(ref)'
  BY <1>1 DEF Fresh, classVars
<1>3. \A drafts : News(drafts) => News(drafts)'
  BY <1>2 DEF News, classVars
<1> QED
  BY <1>3 DEF BringsNews, ToStore

(* A task that fits then, by whatever name.                                 *)
LEMMA FitsThen ==
  ASSUME NEW r \in Slots, \E u : u = task'[r] /\ (u = Idle \/ Fits(u)')
  PROVE  (task[r] = Idle \/ Fits(task[r]))'
BY DEF Fits, KnowsName, KnowsNotes, BringsNews, News, Fresh, ToStore

LEMMA QuietKeeps ==
  ASSUME IInv, NEW s \in Slots, FitsOn(s), Unwritten
  PROVE  IInv'
<1>1. PICK t : /\ Become(s, t)
               /\ t = Idle \/ (TaskOK(t) /\ Fits(t) /\ (t.via = "run" => s \in Comparing \/ Comparing = {}))
  BY DEF FitsOn
<1>2. /\ TasksOK'
      /\ task'[s] = t
      /\ \A r \in Slots : r # s => task'[r] = task[r]
  BY <1>1, BecomeFacts DEF IInv
<1>3. TablesOK' /\ ClassesOK'
  <2>1. ClassesOK'
    BY ClassesKept DEF IInv, Unwritten, classVars
  <2> QED
    BY <2>1 DEF IInv, TablesOK, Unwritten
<1>4. ASSUME NEW u, Fits(u) PROVE Fits(u)'
  <2>1. (KnowsName(u) /\ KnowsNotes(u))'
    BY <1>4 DEF Fits, KnowsName, KnowsNotes, Exists, Unwritten
  <2>2. BringsNews(u)'
    BY <1>4, NewsKept DEF Fits, Unwritten, classVars
  <2> QED
    BY <2>1, <2>2 DEF Fits
<1>5. \A r \in Slots : task'[r] = Idle \/ Fits(task'[r])
  BY <1>1, <1>2 DEF IInv
<1>6. (\A r \in Slots : task[r] = Idle \/ Fits(task[r]))'
  BY <1>4, <1>5, FitsThen
<1>7. OneRun'
  BY <1>1, <1>2, IdleIsNone, StillOneRun DEF IInv, TasksOK
<1> QED
  BY <1>2, <1>3, <1>6, <1>7 DEF IInv

(* The invariant after a step, put together.                                *)
LEMMA Together ==
  ASSUME IInv, TasksOK', TablesOK', ClassesOK', NEW s \in Slots,
         \E u : /\ u = task'[s]
                /\ u = Idle \/ (Fits(u)' /\ (u.via = "run" => s \in Comparing \/ Comparing = {})),
         \A r \in Slots : r # s => \E u : /\ u = task'[r]
                                          /\ \/ u = Idle
                                             \/ Fits(u)' /\ task[r] # Idle /\ u.via = task[r].via
  PROVE  IInv'
<1>1. (\A r \in Slots : task[r] = Idle \/ Fits(task[r]))'
  BY FitsThen
<1>2. OneRun'
  BY StillOneRun
<1> QED
  BY <1>1, <1>2 DEF IInv

(* What a note merged with those before it is.                              *)
LEMMA MergedFacts ==
  ASSUME NEW S, NEW prior \in Seq(S), NEW note
  PROVE  /\ Merged(prior, note) \in Seq(S \cup {note})
         /\ Len(prior) <= Room => Keeps(prior, Merged(prior, note))
         /\ Len(prior) < Room => Noted(Merged(prior, note), note)
<1>1. PICK all : all = Append(prior, note)
  OBVIOUS
<1>2. /\ all \in Seq(S \cup {note}) /\ Len(all) = Len(prior) + 1
      /\ \A i \in 1..Len(prior) : all[i] = prior[i]
      /\ all[Len(prior) + 1] = note
  <2>1. prior \in Seq(S \cup {note}) /\ note \in S \cup {note}
    OBVIOUS
  <2> QED
    BY <1>1, <2>1, AppendProperties
<1>3. PICK n : n = Lesser(Room, Len(prior) + 1)
  OBVIOUS
<1>4. /\ n \in Nat /\ n <= Len(all) /\ Len(prior) \in Nat
      /\ Len(prior) <= Room => n >= Len(prior)
      /\ Len(prior) < Room => n = Len(prior) + 1
  BY <1>2, <1>3, IntakeAssumption DEF Lesser
<1>5. PICK cut : cut = SubSeq(all, 1, n)
  OBVIOUS
<1>6. /\ cut \in Seq(S \cup {note}) /\ Len(cut) = n
      /\ \A i \in 1..n : cut[i] = all[i]
  BY <1>2, <1>4, <1>5
<1>7. Merged(prior, note) = cut
  BY <1>1, <1>3, <1>5 DEF Merged
<1>8. Len(prior) <= Room => Keeps(prior, cut)
  BY <1>2, <1>4, <1>6 DEF Keeps
<1>9. Len(prior) < Room => Noted(cut, note)
  BY <1>2, <1>4, <1>6 DEF Noted
<1> QED
  BY <1>6, <1>7, <1>8, <1>9

(* A company is made, or gets its number.                                   *)
LEMMA CompanyKeeps ==
  ASSUME IInv, NEW s \in Slots, FitsOn(s),
         DOMAIN companies' = Names, \A n \in Names : Exists(n) => Exists(n)',
         UNCHANGED <<aliases, notes, buildings, waste, told, flipped, blurred, retold, misled>>
  PROVE  IInv'
<1>1. PICK t : /\ Become(s, t)
               /\ t = Idle \/ (TaskOK(t) /\ Fits(t) /\ (t.via = "run" => s \in Comparing \/ Comparing = {}))
  BY DEF FitsOn
<1>2. /\ TasksOK'
      /\ task'[s] = t
      /\ \A r \in Slots : r # s => task'[r] = task[r]
  BY <1>1, BecomeFacts DEF IInv
<1>3. TablesOK' /\ ClassesOK'
  <2>1. ClassesOK'
    BY ClassesKept DEF IInv, classVars
  <2> QED
    BY <2>1 DEF IInv, TablesOK
<1>4. ASSUME NEW u, Fits(u) PROVE Fits(u)'
  <2>1. (KnowsName(u) /\ KnowsNotes(u))'
    BY <1>4 DEF Fits, KnowsName, KnowsNotes
  <2>2. BringsNews(u)'
    BY <1>4, NewsKept DEF Fits, classVars
  <2> QED
    BY <2>1, <2>2 DEF Fits
<1>5. \A r \in Slots : task[r] = Idle \/ Fits(task[r])
  BY DEF IInv
<1> QED
  BY <1>1, <1>2, <1>3, <1>4, <1>5, Together

(* A name gets one more alias; who found none is late.                      *)
LEMMA AliasKeeps ==
  ASSUME IInv, NEW s \in Slots, NEW t, NEW n, NEW m,
         aliases' = [aliases EXCEPT ![n] = Append(@, m)],
         BecomeAhead(s, t, Resolving(n)),
         t = Idle \/ (TaskOK(t) /\ Fits(t) /\ t.at \notin Knowing /\ (t.via = "run" => s \in Comparing)),
         UNCHANGED <<companies, notes, buildings, waste, told, flipped, blurred, retold, misled>>
  PROVE  IInv'
<1>1. \A r \in Resolving(n) : task[r] # Idle
  BY DEF Resolving
<1>2. /\ TasksOK'
      /\ task'[s] = t
      /\ \A r \in Slots : r # s => task'[r] = IF r \in Resolving(n) THEN [task[r] EXCEPT !.late = TRUE] ELSE task[r]
  BY <1>1, AheadFacts DEF IInv
<1>3. ASSUME NEW k \in Names PROVE \E S : aliases'[k] \in Seq(S)
  <2>1. PICK S : aliases[k] \in Seq(S)
    BY DEF IInv, TablesOK
  <2>2. Append(aliases[k], m) \in Seq(S \cup {m})
    <3>1. aliases[k] \in Seq(S \cup {m})
      BY <2>1
    <3> QED
      BY <3>1
  <2> QED
    BY <2>1, <2>2 DEF IInv, TablesOK
<1>4. TablesOK' /\ ClassesOK'
  <2>1. ClassesOK'
    BY ClassesKept DEF IInv, classVars
  <2> QED
    BY <1>3, <2>1 DEF IInv, TablesOK
<1>5. ASSUME NEW u, KnowsNotes(u) /\ BringsNews(u) PROVE (KnowsNotes(u) /\ BringsNews(u))'
  BY <1>5, NewsKept DEF KnowsNotes, classVars
<1>6. t # Idle => Fits(t)'
  BY <1>5 DEF Fits, KnowsName, Knowing
<1>7. ASSUME NEW r \in Slots, r # s
      PROVE  \E u : /\ u = task'[r]
                    /\ \/ u = Idle
                       \/ Fits(u)' /\ task[r] # Idle /\ u.via = task[r].via
  <2>1. CASE task[r] = Idle
    BY <1>1, <1>2, <1>7, <2>1
  <2>2. CASE task[r] # Idle /\ r \in Resolving(n)
    <3>0. PICK u : u = [task[r] EXCEPT !.late = TRUE]
      OBVIOUS
    <3>1. TaskOK(task[r]) /\ Fits(task[r])
      BY <2>2, AtFacts
    <3>2. /\ TaskOK(u) /\ u.late
          /\ u.via = task[r].via /\ u.at = task[r].at /\ u.todo = task[r].todo /\ u.draft = task[r].draft
          /\ u.parcel = task[r].parcel /\ u.prior = task[r].prior
      BY <3>0, <3>1, LateFacts
    <3>3. u = task'[r]
      BY <1>2, <1>7, <2>2, <3>0
    <3>4. BringsNews(u) /\ KnowsNotes(u)
      <4>1. BringsNews(u)
        BY <3>1, <3>2, SameNews DEF Fits
      <4>2. KnowsNotes(u)
        BY <3>1, <3>2 DEF Fits, KnowsNotes
      <4> QED
        BY <4>1, <4>2
    <3>5. KnowsName(u)'
      BY <2>2, <3>2 DEF KnowsName, Resolving
    <3> QED
      BY <1>5, <2>2, <3>2, <3>3, <3>4, <3>5 DEF Fits
  <2>3. CASE task[r] # Idle /\ r \notin Resolving(n)
    <3> DEFINE u == task[r]
    <3>1. Fits(u) /\ u = task'[r]
      BY <1>2, <1>7, <2>3, AtFacts
    <3>2. u.at \in {"alike", "review", "create"} => u.draft.name # n
      BY <2>3 DEF Resolving
    <3> QED
      <4> SUFFICES ASSUME NEW v, v = u PROVE Fits(v)'
        BY <2>3, <3>1
      <4>1. Fits(v) /\ (v.at \in {"alike", "review", "create"} => v.draft.name # n)
        BY <3>1, <3>2
      <4> HIDE DEF u
      <4>2. KnowsName(v)'
        BY <4>1 DEF Fits, KnowsName, Exists, IInv, TablesOK
      <4> QED
        BY <1>5, <4>1, <4>2 DEF Fits
  <2> QED
    BY <2>1, <2>2, <2>3
<1> QED
  BY <1>2, <1>4, <1>6, <1>7, Together

(* Notes of a building are written; who had read them is late.              *)
LEMMA NotesKeep ==
  ASSUME IInv, NEW s \in Slots, NEW t, NEW p, NEW now, p \in Parcels => \E S : now \in Seq(S),
         notes' = [notes EXCEPT ![p] = now], buildings' = buildings \cup {p},
         BecomeAhead(s, t, Holding(p)),
         t = Idle \/ (TaskOK(t) /\ Fits(t) /\ t.at # "note_write" /\ (t.via = "run" => s \in Comparing)),
         UNCHANGED <<companies, aliases, waste, told, flipped, blurred, retold, misled>>
  PROVE  IInv'
<1>1. \A r \in Holding(p) : task[r] # Idle
  BY DEF Holding, At
<1>2. /\ TasksOK'
      /\ task'[s] = t
      /\ \A r \in Slots : r # s => task'[r] = IF r \in Holding(p) THEN [task[r] EXCEPT !.late = TRUE] ELSE task[r]
  BY <1>1, AheadFacts DEF IInv
<1>3. TablesOK' /\ ClassesOK'
  <2>1. ClassesOK'
    BY ClassesKept DEF IInv, classVars
  <2> QED
    BY <2>1 DEF IInv, TablesOK
<1>4. ASSUME NEW u, KnowsName(u) /\ BringsNews(u) PROVE (KnowsName(u) /\ BringsNews(u))'
  BY <1>4, NewsKept DEF KnowsName, Exists, classVars
<1>5. t # Idle => Fits(t)'
  BY <1>4 DEF Fits, KnowsNotes
<1>6. ASSUME NEW r \in Slots, r # s
      PROVE  \E u : /\ u = task'[r]
                    /\ \/ u = Idle
                       \/ Fits(u)' /\ task[r] # Idle /\ u.via = task[r].via
  <2>1. CASE task[r] = Idle
    BY <1>1, <1>2, <1>6, <2>1
  <2>2. CASE task[r] # Idle /\ r \in Holding(p)
    <3>1. PICK u : u = [task[r] EXCEPT !.late = TRUE]
      OBVIOUS
    <3>2. TaskOK(task[r]) /\ Fits(task[r])
      BY <2>2, AtFacts
    <3>3. /\ TaskOK(u) /\ u.late
          /\ u.via = task[r].via /\ u.at = task[r].at /\ u.todo = task[r].todo /\ u.draft = task[r].draft
          /\ u.parcel = task[r].parcel /\ u.prior = task[r].prior
      BY <3>1, <3>2, LateFacts
    <3>4. BringsNews(u) /\ KnowsName(u)
      BY <2>2, <3>2, <3>3, SameNews DEF Fits, KnowsName, Holding, At
    <3>5. KnowsNotes(u)'
      <4>1. u.at = "note_write" /\ u.parcel \in Parcels => \E S : u.prior \in Seq(S)
        BY <3>2, <3>3 DEF Fits, KnowsNotes
      <4> QED
        BY <3>3, <4>1 DEF KnowsNotes
    <3> QED
      BY <1>2, <1>4, <1>6, <2>2, <3>1, <3>3, <3>4, <3>5 DEF Fits
  <2>3. CASE task[r] # Idle /\ r \notin Holding(p)
    <3>1. Fits(task[r]) /\ task[r] = task'[r]
      BY <1>2, <1>6, <2>3, AtFacts
    <3>2. ~(task[r].at = "note_write" /\ task[r].parcel = p)
      BY <2>3 DEF Holding, At
    <3> SUFFICES ASSUME NEW u, u = task[r] PROVE Fits(u)'
      BY <2>3, <3>1
    <3>3. KnowsNotes(u)'
      BY <3>1, <3>2 DEF Fits, KnowsNotes, IInv, TablesOK
    <3> QED
      BY <1>4, <3>1, <3>3 DEF Fits
  <2> QED
    BY <2>1, <2>2, <2>3
<1> QED
  BY <1>2, <1>3, <1>5, <1>6, Together

(* A signal is stored: the invariant where the class is not told.           *)
LEMMA StoreFitsOn ==
  ASSUME IInv, NEW s \in Slots, Store(s)
  PROVE  FitsOn(s)
<1>1. task[s] # Idle /\ TaskOK(task[s]) /\ Fits(task[s]) /\ (task[s].via = "run" => s \in Comparing)
  BY AtFacts DEF Store, At
<1>2. CASE Annotates(s)
  <2>1. PICK t : t = [task[s] EXCEPT !.at = "note", !.note = NoteOf(task[s].draft.ref)]
    OBVIOUS
  <2>2. Become(s, t)
    BY <1>2, <2>1 DEF Store
  <2>3. /\ TaskOK(t) /\ t.at = "note"
        /\ t.via = task[s].via /\ t.todo = task[s].todo /\ t.draft = task[s].draft
    <3>1. Moves(task[s], "note", NoteOf(task[s].draft.ref), t)
      BY <2>1 DEF Moves
    <3> QED
      BY <1>1, <3>1, MoveFacts
  <2>4. BringsNews(t)
    BY <1>1, <2>3, SameNews DEF Fits
  <2> QED
    BY <1>1, <2>2, <2>3, <2>4 DEF FitsOn, Fits, KnowsName, KnowsNotes
<1>3. CASE ~Annotates(s)
  BY <1>1, <1>3, WentOn DEF Store
<1> QED
  BY <1>2, <1>3

(* After it, its draft is stored; what is left to store is the rest.        *)
LEMMA StoredLeaves ==
  ASSUME IInv, NEW s \in Slots, Store(s), task'[s] # Idle
  PROVE  task'[s].via = task[s].via /\ ToStore(task'[s]) = task[s].todo
<1>1. task[s] # Idle /\ TaskOK(task[s])
  BY AtFacts DEF Store, At
<1>2. DOMAIN task = Slots
  BY DEF IInv, TasksOK
<1>3. CASE Annotates(s)
  <2>1. task'[s] = [task[s] EXCEPT !.at = "note", !.note = NoteOf(task[s].draft.ref)]
    BY <1>2, <1>3 DEF Store, Become
  <2>2. Moves(task[s], "note", NoteOf(task[s].draft.ref), task'[s])
    BY <2>1 DEF Moves
  <2>3. /\ task'[s].at = "note" /\ task'[s].via = task[s].via /\ task'[s].todo = task[s].todo
    BY <1>1, <2>2, MoveFacts
  <2> QED
    BY <2>3 DEF ToStore
<1>4. CASE ~Annotates(s)
  <2>1. PICK t \in Following(task[s].via, task[s].todo) : Become(s, t)
    BY <1>4 DEF Store, GoesOn, Begins
  <2>2. task'[s] = t
    BY <1>2, <2>1 DEF Become
  <2>3. /\ TaskOK(t) /\ t.via = task[s].via /\ t.at \in {"dot", "exact"}
        /\ t.draft \in task[s].todo /\ t.todo = task[s].todo \ {t.draft}
    BY <2>1, <2>2, FollowingFacts
  <2> QED
    BY <2>2, <2>3 DEF ToStore
<1> QED
  BY <1>3, <1>4

(* The rows after one more.                                                 *)
LEMMA RowAppended ==
  ASSUME NEW S, waste \in Seq(S), NEW ref, waste' = Append(waste, ref)
  PROVE  /\ waste' \in Seq(S \cup {ref})
         /\ DOMAIN waste' = DOMAIN waste \cup {Len(waste) + 1}
         /\ \A i \in DOMAIN waste : i \in Nat /\ i <= Len(waste) /\ waste'[i] = waste[i]
         /\ Len(waste) + 1 \in Nat /\ waste'[Len(waste) + 1] = ref
<1>1. waste \in Seq(S \cup {ref}) /\ ref \in S \cup {ref}
  OBVIOUS
<1> QED
  BY <1>1, AppendProperties

\* The rows before a step that stores a class under ref, or after it.
StoresRow(ref) == waste' = IF HasRow(ref) THEN waste ELSE Append(waste, ref)

(* A row that is not one of f leaves the newest one of f.                   *)
LEMMA OtherRow ==
  ASSUME NEW S, waste \in Seq(S), NEW ref, StoresRow(ref), NEW f, ~Matches(ref, f), NEW i, Newest(f, i)
  PROVE  Newest(f, i)' /\ PriorClass(f)' = PriorClass(f)
<1>1. RowsOf(f)' = RowsOf(f) /\ \A j \in RowsOf(f) : waste'[j] = waste[j]
  <2>1. CASE HasRow(ref)
    BY <2>1 DEF StoresRow, RowsOf
  <2>2. CASE ~HasRow(ref)
    BY <2>2, RowAppended DEF StoresRow, RowsOf
  <2> QED
    BY <2>1, <2>2
<1>2. Newest(f, i)'
  BY <1>1 DEF Newest
<1>3. PICK j : j = CHOOSE k \in RowsOf(f) : \A l \in RowsOf(f) : l <= k
  OBVIOUS
<1>4. j \in RowsOf(f)
  BY <1>3 DEF Newest
<1>5. NewestClass(RowsOf(f)) = ClassIn(waste[j]) /\ NewestClass(RowsOf(f))' = ClassIn(waste'[j])
  BY <1>1, <1>3 DEF NewestClass
<1> QED
  BY <1>1, <1>2, <1>4, <1>5 DEF PriorClass

(* A new one of f is the newest.                                            *)
LEMMA OwnRow ==
  ASSUME NEW S, waste \in Seq(S), NEW ref, ~HasRow(ref), StoresRow(ref), NEW f, Matches(ref, f)
  PROVE  (\E i : Newest(f, i))' /\ PriorClass(f)' = ClassIn(ref)
<1>1. PICK n \in Nat : n = Len(waste) + 1
  OBVIOUS
<1>2. /\ DOMAIN waste' = DOMAIN waste \cup {n}
      /\ \A i \in DOMAIN waste : i \in Nat /\ i <= n /\ i # n
      /\ waste'[n] = ref
  <2>1. waste' = Append(waste, ref)
    BY DEF StoresRow
  <2> QED
    BY <1>1, <2>1, RowAppended
<1>3. n \in RowsOf(f)' /\ \A j \in RowsOf(f)' : j <= n /\ j \in Nat
  BY <1>2 DEF RowsOf
<1>4. \A k \in RowsOf(f)' : (\A l \in RowsOf(f)' : l <= k) => k = n
  BY <1>3
<1>5. (CHOOSE k \in RowsOf(f)' : \A l \in RowsOf(f)' : l <= k) = n
  BY <1>3, <1>4
<1>6. NewestClass(RowsOf(f))' = ClassIn(ref)
  BY <1>2, <1>5 DEF NewestClass
<1>7. Newest(f, n)'
  BY <1>3 DEF Newest
<1> QED
  BY <1>3, <1>6, <1>7 DEF PriorClass

(* What is known of the other facilities stays so.                          *)
LEMMA TellKeepsOther ==
  ASSUME IInv, NEW t, NEW ref, TellClass(t, ref), NEW f \in Facilities, f # ref[2], f \notin blurred'
  PROVE  /\ Known(f)' /\ told'[f] = told[f]
         /\ told[f] # "none" => PriorClass(f)' = PriorClass(f)
<1>1. f \notin blurred /\ f \notin TakenFrom(ref) /\ told'[f] = told[f] /\ StoresRow(ref)
      /\ (f \in flipped => f \in flipped')
  BY DEF TellClass, StoresRow, IInv, TablesOK
<1>2. Known(f) /\ \E S : waste \in Seq(S)
  BY <1>1 DEF IInv, ClassesOK, NewestIsLast, TablesOK
<1>3. ~Matches(ref, f)
  BY <1>1 DEF Matches, TakenFrom
<1>4. PICK S : waste \in Seq(S)
  BY <1>2
<1>5. \A i \in DOMAIN waste' : waste'[i][2] = f => i \in DOMAIN waste /\ waste'[i] = waste[i]
  <2>1. CASE HasRow(ref)
    BY <1>1, <2>1 DEF StoresRow
  <2>2. CASE ~HasRow(ref)
    BY <1>1, <1>4, <2>2, RowAppended DEF StoresRow
  <2> QED
    BY <2>1, <2>2
<1>6. \A x : HasRow(x) => HasRow(x)'
  <2>1. CASE HasRow(ref)
    BY <1>1, <2>1 DEF StoresRow, HasRow
  <2>2. CASE ~HasRow(ref)
    BY <1>1, <1>4, <2>2, RowAppended DEF StoresRow, HasRow
  <2> QED
    BY <2>1, <2>2
<1>7. CASE told[f] = "none"
  BY <1>1, <1>2, <1>5, <1>7 DEF Known
<1>8. CASE told[f] # "none"
  <2>1. PICK i : Newest(f, i)
    BY <1>2, <1>8 DEF Known
  <2>2. Newest(f, i)' /\ PriorClass(f)' = PriorClass(f)
    BY <1>1, <1>3, <1>4, <2>1, OtherRow
  <2> QED
    BY <1>1, <1>2, <1>6, <1>8, <2>2 DEF Known
<1> QED
  BY <1>7, <1>8

(* And what is told of the facility itself, by a run that compared.         *)
LEMMA TellKeepsOwn ==
  ASSUME IInv, NEW t, NEW ref, NEW f, f = ref[2], TellClass(t, ref), f \in Facilities, f \notin blurred,
         ref[1] \in {"rcra_baseline", "rcra_change"}, Fresh(ref)
  PROVE  Known(f)' /\ f \notin retold' /\ (f \in misled' => f \in flipped')
<1>1. /\ StoresRow(ref) /\ told'[f] = ClassIn(ref)
      /\ ref[1] = "rcra_change" /\ HasRow(ref) => f \in flipped'
      /\ f \in retold' => f \in retold \/ (ref[1] = "rcra_change" /\ ~HasRow(ref) /\ told[f] = ClassIn(ref))
      /\ f \in misled' => f \in misled \/ (ref[1] = "rcra_change" /\ ~HasRow(ref) /\ told[f] \notin {"none", Universe(ref[3])})
      /\ flipped \subseteq flipped'
  BY DEF TellClass, StoresRow, IInv, TablesOK
<1>2. Known(f) /\ f \notin retold /\ (f \in misled => f \in flipped)
  BY DEF IInv, ClassesOK, NewestIsLast, ChangeToldOnce
<1>3. PICK S : waste \in Seq(S)
  BY DEF IInv, TablesOK
<1>4. PICK c : c = ClassIn(ref) /\ c # "none"
  BY DEF Fresh
<1>5. Matches(ref, f)
  BY DEF Matches
<1>6. CASE told[f] = "none"
  <2>1. ~HasRow(ref)
    BY <1>2, <1>6 DEF Known, HasRow
  <2>2. (\E i : Newest(f, i))' /\ PriorClass(f)' = c
    BY <1>1, <1>3, <1>4, <1>5, <2>1, OwnRow
  <2>3. Known(f)'
    BY <1>1, <1>4, <2>2 DEF Known
  <2> QED
    BY <1>1, <1>2, <1>4, <1>6, <2>3
<1>7. CASE told[f] # "none"
  <2>1. PICK q : q = ref[3] /\ q = PriorClass(f) /\ ref = <<"rcra_change", f, q, c>> /\ q # c /\ Universe(q) = q
                 /\ ref[1] = "rcra_change"
    BY <1>4, <1>7 DEF Fresh
  <2>2. /\ \E i : Newest(f, i)
        /\ q # "none"
        /\ told[f] = q \/ (f \in flipped /\ HasRow(<<"rcra_change", f, q, told[f]>>))
    BY <1>2, <1>7, <2>1 DEF Known
  <2>3. CASE HasRow(ref)
    <3>1. waste' = waste
      BY <1>1, <2>3 DEF StoresRow
    <3>2. PriorClass(f)' = q /\ (\E i : Newest(f, i))'
      BY <2>1, <2>2, <3>1 DEF PriorClass, RowsOf, RowsNaming, NewestClass, Newest
    <3>3. HasRow(<<"rcra_change", f, q, c>>)'
      BY <2>1, <2>3, <3>1 DEF HasRow
    <3>4. Known(f)'
      BY <1>1, <1>4, <2>1, <2>2, <2>3, <3>2, <3>3 DEF Known
    <3> QED
      BY <1>1, <1>2, <2>3, <3>4
  <2>4. CASE ~HasRow(ref)
    <3>1. (\E i : Newest(f, i))' /\ PriorClass(f)' = c
      BY <1>1, <1>3, <1>4, <1>5, <2>4, OwnRow
    <3>2. Known(f)'
      BY <1>1, <1>4, <3>1 DEF Known
    <3>3. told[f] # c
      BY <2>1, <2>2, <2>4
    <3>4. told[f] # q => f \in flipped'
      BY <1>1, <2>2
    <3> QED
      BY <1>1, <1>2, <1>4, <2>1, <3>2, <3>3, <3>4
  <2> QED
    BY <2>3, <2>4
<1> QED
  BY <1>6, <1>7

(* A class is told: if the run does it, it had nothing else to tell of that facility.     *)
LEMMA TellingKeeps ==
  ASSUME IInv, NEW s \in Slots, Store(s), TellsClass(Row(s))
  PROVE  IInv'
<1>0. PICK d : d = task[s].draft
  OBVIOUS
<1>1. task[s] # Idle /\ task[s].at = "store" /\ TaskOK(task[s]) /\ Fits(task[s])
  BY AtFacts DEF Store, At
<1>2. PICK t : /\ Become(s, t)
               /\ t = Idle \/ (TaskOK(t) /\ Fits(t) /\ (t.via = "run" => s \in Comparing \/ Comparing = {}))
  BY StoreFitsOn DEF FitsOn
<1>3. /\ TasksOK'
      /\ task'[s] = t
      /\ \A r \in Slots : r # s => task'[r] = task[r]
  BY <1>2, BecomeFacts DEF IInv
<1>4. TellClass(task[s], d.ref) /\ UNCHANGED <<companies, aliases, notes, buildings>>
  BY <1>0 DEF Store, Row, nameVars, noteVars
<1>5. d \in ToStore(task[s]) /\ TellsClass(d) /\ d.ref[1] \in {"rcra_baseline", "rcra_change"}
  BY <1>0, <1>1 DEF ToStore, TellsClass, Row
<1>6. PICK f : f = d.ref[2]
  OBVIOUS
<1>7. /\ blurred \subseteq blurred' /\ flipped \subseteq flipped'
      /\ retold' \subseteq retold \cup {f} /\ misled' \subseteq misled \cup {f}
      /\ f \notin blurred' => task[s].via = "run" /\ \A e \in task[s].todo : TellsClass(e) => e.ref[2] # f
  BY <1>4, <1>6 DEF TellClass, Compared, Alone
<1>8. task[s].via = "run" /\ f \notin blurred => f \in Facilities /\ Fresh(d.ref)
  BY <1>1, <1>5, <1>6 DEF Fits, BringsNews, News
<1>9. f \notin blurred' => Known(f)' /\ f \notin retold' /\ (f \in misled' => f \in flipped')
  BY <1>4, <1>5, <1>6, <1>7, <1>8, TellKeepsOwn
<1>10. ClassesOK'
  <2>1. NewestIsLast'
    BY <1>4, <1>6, <1>9, TellKeepsOther DEF NewestIsLast
  <2>2. ChangeToldOnce'
    BY <1>7, <1>9 DEF IInv, ClassesOK, ChangeToldOnce
  <2> QED
    BY <2>1, <2>2 DEF ClassesOK
<1>11. TablesOK'
  <2>1. PICK S : waste \in Seq(S)
    BY DEF IInv, TablesOK
  <2>2. waste' = waste \/ waste' = Append(waste, d.ref)
    BY <1>4 DEF TellClass
  <2>3. \E U : waste' \in Seq(U)
    BY <2>1, <2>2, RowAppended
  <2>4. DOMAIN told' = Facilities
    BY <1>4 DEF TellClass, IInv, TablesOK
  <2> QED
    BY <1>4, <2>3, <2>4 DEF IInv, TablesOK
<1>12. ASSUME NEW u, Fits(u) PROVE (KnowsName(u) /\ KnowsNotes(u))'
  BY <1>4, <1>12 DEF Fits, KnowsName, KnowsNotes, Exists
<1>13. ASSUME NEW drafts, News(drafts), f \in blurred' \/ \A e \in drafts : TellsClass(e) => e.ref[2] # f
       PROVE  News(drafts)'
  <2> SUFFICES ASSUME NEW e \in drafts, TellsClass(e), e.ref[2] \notin blurred'
               PROVE  e.ref[2] \in Facilities /\ Fresh(e.ref)'
    BY <1>13 DEF News, TellsClass
  <2>1. PICK x : x = e.ref
    OBVIOUS
  <2>2. PICK g : g = x[2]
    OBVIOUS
  <2>3. g \in Facilities /\ g # f /\ Fresh(x)
    BY <1>7, <1>13, <2>1, <2>2 DEF News
  <2>4. told'[g] = told[g] /\ (told[g] # "none" => PriorClass(g)' = PriorClass(g))
    BY <1>4, <1>6, <2>1, <2>2, <2>3, TellKeepsOther
  <2>5. Fresh(x)'
    BY <2>2, <2>3, <2>4 DEF Fresh
  <2> QED
    BY <2>1, <2>2, <2>3, <2>5
<1>14. ASSUME t # Idle PROVE BringsNews(t)'
  <2> SUFFICES ASSUME t.via = "run" PROVE News(ToStore(t))'
    BY DEF BringsNews, ToStore
  <2>1. ToStore(t) = task[s].todo /\ task[s].via = "run"
    BY <1>3, <1>14, StoredLeaves
  <2>2. PICK drafts : drafts = task[s].todo
    OBVIOUS
  <2>3. News(drafts)
    BY <1>1, <2>1, <2>2, FewerNews DEF Fits, BringsNews, ToStore
  <2>4. News(drafts)'
    BY <1>7, <1>13, <2>2, <2>3
  <2> QED
    BY <2>1, <2>2, <2>4 DEF ToStore
<1>15. ASSUME NEW r \in Slots, r # s, task[r] # Idle PROVE task[r].via = "run" => f \in blurred'
  <2> SUFFICES ASSUME task[r].via = "run", f \notin blurred' PROVE FALSE
    OBVIOUS
  <2>1. r \in Comparing /\ s \in Comparing
    BY <1>1, <1>7, <1>15 DEF Comparing
  <2> QED
    BY <1>15, <2>1 DEF IInv, OneRun
<1>16. ASSUME NEW r \in Slots, r # s, task[r] # Idle PROVE \E u : u = task'[r] /\ Fits(u)' /\ u.via = task[r].via
  <2> SUFFICES ASSUME NEW u, u = task[r] PROVE Fits(u)'
    BY <1>3, <1>16
  <2>1. Fits(u) /\ (u.via = "run" => f \in blurred')
    BY <1>15, <1>16, AtFacts
  <2>2. PICK drafts : drafts = ToStore(u)
    OBVIOUS
  <2>3. u.via = "run" => News(drafts)'
    BY <1>13, <2>1, <2>2 DEF Fits, BringsNews
  <2>4. BringsNews(u)'
    BY <2>2, <2>3 DEF BringsNews, ToStore
  <2> QED
    BY <1>12, <2>1, <2>4 DEF Fits
<1>17. t = Idle \/ (Fits(t)' /\ (t.via = "run" => s \in Comparing \/ Comparing = {}))
  BY <1>2, <1>12, <1>14 DEF Fits
<1>18. \A r \in Slots : r # s => \E u : /\ u = task'[r]
                                        /\ u = Idle \/ (Fits(u)' /\ task[r] # Idle /\ u.via = task[r].via)
  BY <1>3, <1>16
<1> QED
  BY <1>3, <1>10, <1>11, <1>17, <1>18, Together

LEMMA StoreKeeps ==
  ASSUME IInv, NEW s \in Slots, Store(s)
  PROVE  IInv'
<1>1. CASE TellsClass(Row(s))
  BY <1>1, TellingKeeps
<1>2. CASE ~TellsClass(Row(s))
  <2>1. Unwritten
    BY <1>2 DEF Store, Unwritten, nameVars, noteVars
  <2> QED
    BY <2>1, StoreFitsOn, QuietKeeps
<1> QED
  BY <1>1, <1>2

(* The other steps that write one of the tables.                            *)
LEMMA WriteNumberKeeps ==
  ASSUME IInv, NEW s \in Slots, WriteNumber(s)
  PROVE  IInv'
<1>1. task[s] # Idle /\ task[s].at = "number" /\ Fits(task[s])
  BY AtFacts DEF WriteNumber, At
<1>2. FitsOn(s)
  BY <1>1, Moved DEF WriteNumber, Goes, Moves, Knowing
<1>3. Name(s) \in Names => Dot(s) # "none"
  BY <1>1 DEF Fits, KnowsName, Name, Dot
<1>4. DOMAIN companies' = Names /\ \A n \in Names : Exists(n) => Exists(n)'
  BY <1>3 DEF WriteNumber, Exists, IInv, TablesOK
<1> QED
  BY <1>2, <1>4, CompanyKeeps DEF WriteNumber, signalVars, noteVars

LEMMA CreateKeeps ==
  ASSUME IInv, NEW s \in Slots, Create(s)
  PROVE  IInv'
<1>1. task[s] # Idle /\ task[s].at = "create"
  BY DEF Create, At
<1>2. FitsOn(s)
  BY <1>1, Moved DEF Create, Resolved, Moves, Knowing
<1>3. DOMAIN companies' = Names /\ \A n \in Names : Exists(n) => Exists(n)'
  BY DEF Create, Exists, IInv, TablesOK
<1> QED
  BY <1>2, <1>3, CompanyKeeps DEF Create, signalVars, noteVars

LEMMA AliasWriteKeeps ==
  ASSUME IInv, NEW s \in Slots, AliasWrite(s)
  PROVE  IInv'
<1>1. task[s] # Idle /\ task[s].at = "alias_write" /\ TaskOK(task[s]) /\ Fits(task[s])
      /\ (task[s].via = "run" => s \in Comparing)
  BY AtFacts DEF AliasWrite, At
<1>2. PICK t : t = [task[s] EXCEPT !.at = "site"]
  OBVIOUS
<1>3. Moves(task[s], "site", 0, t)
  BY <1>2 DEF Moves
<1>4. TaskOK(t) /\ t.via = task[s].via /\ Fits(t) /\ t.at = "site"
  BY <1>1, <1>3, MoveFits, MoveFacts DEF Knowing
<1> QED
  BY <1>1, <1>2, <1>4, AliasKeeps DEF AliasWrite, Knowing, signalVars, noteVars

LEMMA ConfirmCompanyKeeps ==
  ASSUME IInv, NEW s \in Slots, NEW r, ConfirmCompany(s, r)
  PROVE  IInv'
BY AliasKeeps DEF ConfirmCompany, signalVars, noteVars

LEMMA NoteWriteKeeps ==
  ASSUME IInv, NEW s \in Slots, NoteWrite(s)
  PROVE  IInv'
<1>1. task[s] # Idle /\ task[s].at = "note_write" /\ TaskOK(task[s]) /\ Fits(task[s])
      /\ (task[s].via = "run" => s \in Comparing)
  BY AtFacts DEF NoteWrite, At
<1>2. PICK t \in AfterNote(task[s]) : Notes(s, Merged(task[s].prior, task[s].note), t)
  BY DEF NoteWrite
<1>3. t = Idle \/ (TaskOK(t) /\ Fits(t) /\ t.at # "note_write" /\ (t.via = "run" => s \in Comparing))
  <2>1. CASE task[s].via = "yard"
    <3>1. t = [task[s] EXCEPT !.at = "event"]
      BY <1>2, <2>1 DEF AfterNote
    <3>2. TaskOK(t) /\ t.at = "event" /\ t.via = "yard"
      BY <1>1, <2>1, <3>1 DEF TaskOK, Fields
    <3> QED
      BY <3>2 DEF Fits, KnowsName, KnowsNotes, BringsNews
  <2>2. CASE task[s].via # "yard"
    <3>1. t \in Following(task[s].via, task[s].todo)
      BY <1>2, <2>2 DEF AfterNote
    <3>2. t = Idle \/ (TaskOK(t) /\ t.via = task[s].via /\ Fits(t))
      BY <1>1, <3>1, GoesOnFits
    <3>3. t = Idle \/ t.at \in {"dot", "exact"}
      BY <3>1, FollowingFacts
    <3> QED
      BY <1>1, <3>2, <3>3
  <2> QED
    BY <2>1, <2>2
<1>4. task[s].parcel \in Parcels => \E S : Merged(task[s].prior, task[s].note) \in Seq(S)
  BY <1>1, MergedFacts DEF Fits, KnowsNotes
<1> QED
  BY <1>2, <1>3, <1>4, NotesKeep DEF NoteWrite, Notes, nameVars, signalVars

LEMMA YardRowKeeps ==
  ASSUME IInv, NEW s \in Slots, YardRow(s)
  PROVE  IInv'
<1>1. task[s] # Idle /\ task[s].at = "yard" /\ TaskOK(task[s]) /\ Fits(task[s])
      /\ (task[s].via = "run" => s \in Comparing)
  BY AtFacts DEF YardRow, At
<1>2. CASE task[s].parcel \in buildings
  <2>1. Unwritten
    BY <1>2 DEF YardRow, Unwritten, nameVars, signalVars, noteVars
  <2>2. FitsOn(s)
    BY <1>1, <1>2, Moved DEF YardRow, Goes, Moves, Knowing
  <2> QED
    BY <2>1, <2>2, QuietKeeps
<1>3. CASE task[s].parcel \notin buildings
  <2>1. PICK t : t = [task[s] EXCEPT !.at = "yard_note"]
    OBVIOUS
  <2>2. Moves(task[s], "yard_note", 0, t)
    BY <2>1 DEF Moves
  <2>3. TaskOK(t) /\ t.via = task[s].via /\ Fits(t) /\ t.at = "yard_note"
    BY <1>1, <2>2, MoveFits, MoveFacts DEF Knowing
  <2>4. Notes(s, <<task[s].note>>, t)
    BY <1>3, <2>1 DEF YardRow
  <2>5. <<task[s].note>> \in Seq({task[s].note})
    OBVIOUS
  <2> QED
    BY <1>1, <2>3, <2>4, <2>5, NotesKeep DEF YardRow, Notes, nameVars, signalVars
<1> QED
  BY <1>2, <1>3

LEMMA SaveBuildingKeeps ==
  ASSUME IInv, NEW s \in Slots, NEW p, NEW shown, SaveBuilding(s, p, shown)
  PROVE  IInv'
<1>1. ASSUME p \in Parcels PROVE \E S : shown \in Seq(S)
  <2>1. PICK S : notes[p] \in Seq(S)
    BY <1>1 DEF IInv, TablesOK
  <2>2. PICK T : Written \in Seq(T)
    BY IntakeAssumption
  <2>3. notes[p] \in Seq(S \cup T) /\ Written \in Seq(S \cup T) /\ <<>> \in Seq(S \cup T)
    BY <2>1, <2>2
  <2>4. notes[p] \o Written \in Seq(S \cup T)
    BY <2>3, ConcatProperties
  <2> QED
    BY <2>3, <2>4 DEF SaveBuilding, Forms
<1> QED
  BY <1>1, NotesKeep DEF SaveBuilding, nameVars, signalVars

LEMMA RestartKeeps ==
  ASSUME IInv, Restart
  PROVE  IInv'
<1>1. task' = [s \in Slots |-> Idle]
  BY DEF Restart
<1>2. TasksOK' /\ OneRun'
  BY <1>1 DEF TasksOK, OneRun, Comparing
<1>3. TablesOK' /\ ClassesOK'
  <2>1. ClassesOK'
    BY ClassesKept DEF Restart, IInv, classVars, signalVars
  <2> QED
    BY <2>1 DEF Restart, IInv, TablesOK, nameVars, signalVars, noteVars
<1>4. (\A s \in Slots : task[s] = Idle \/ Fits(task[s]))'
  BY <1>1
<1> QED
  BY <1>2, <1>3, <1>4 DEF IInv

LEMMA InitInv ==
  ASSUME Init
  PROVE  IInv
<1>1. TasksOK /\ OneRun /\ \A s \in Slots : task[s] = Idle
  BY DEF Init, DeskInit, TasksOK, OneRun, Comparing
<1>2. \A n \in Names : aliases[n] \in Seq({})
  BY DEF Init
<1>3. TablesOK /\ ClassesOK
  <2>1. waste \in Seq({}) /\ waste = <<>> /\ \A p \in Parcels : notes[p] \in Seq({}) /\ notes[p] = <<>>
    BY DEF Init
  <2>2. /\ \A n \in Names : \E S : aliases[n] \in Seq(S)
        /\ \A p \in Parcels : \E S : notes[p] \in Seq(S)
        /\ \E S : waste \in Seq(S)
    BY <1>2, <2>1
  <2>3. TablesOK
    BY <2>1, <2>2 DEF Init, TablesOK
  <2>4. \A f \in Facilities : Known(f)
    BY <2>1 DEF Init, Known
  <2> QED
    BY <2>3, <2>4 DEF Init, ClassesOK, NewestIsLast, ChangeToldOnce
<1> QED
  BY <1>1, <1>3 DEF IInv

\* The steps that are not quiet.
Writes(s) ==
  \/ WriteNumber(s) \/ AliasWrite(s) \/ Create(s) \/ Store(s) \/ NoteWrite(s) \/ YardRow(s)
  \/ \E p \in Parcels : \E shown \in Forms(p) : SaveBuilding(s, p, shown)
  \/ \E r \in reviews : ConfirmCompany(s, r)

(* Every step is quiet, or writes, or is the restart.                       *)
LEMMA NextCases ==
  ASSUME Next
  PROVE  (\E s \in Slots : Quiet(s) \/ Writes(s)) \/ Restart
BY DEF Next, Quiet, Writes

LEMMA NextInv ==
  ASSUME IInv, [Next]_vars
  PROVE  IInv'
<1>1. ASSUME NEW s \in Slots, Quiet(s) PROVE IInv'
  BY <1>1, QuietFacts, QuietKeeps
<1>2. ASSUME NEW s \in Slots, Writes(s) PROVE IInv'
  BY <1>2, WriteNumberKeeps, AliasWriteKeeps, CreateKeeps, StoreKeeps, NoteWriteKeeps, YardRowKeeps,
     SaveBuildingKeeps, ConfirmCompanyKeeps DEF Writes
<1>3. CASE Restart
  BY <1>3, RestartKeeps
<1>4. CASE UNCHANGED vars
  <2>1. ClassesOK' /\ \A u : BringsNews(u) => BringsNews(u)'
    BY <1>4, ClassesKept, NewsKept DEF IInv, vars, signalVars, classVars
  <2>2. TasksOK' /\ TablesOK' /\ OneRun'
    BY <1>4 DEF vars, deskVars, nameVars, signalVars, noteVars, IInv, TasksOK, TablesOK, OneRun, Comparing
  <2>3. \A u : Fits(u) => Fits(u)'
    BY <1>4, <2>1 DEF vars, nameVars, noteVars, Fits, KnowsName, Exists, KnowsNotes
  <2>4. \A r \in Slots : task'[r] = Idle \/ Fits(task'[r])
    BY <1>4 DEF vars, deskVars, IInv
  <2>5. (\A r \in Slots : task[r] = Idle \/ Fits(task[r]))'
    BY <2>3, <2>4, FitsThen
  <2> QED
    BY <2>1, <2>2, <2>5 DEF IInv
<1> QED
  BY <1>1, <1>2, <1>3, <1>4, NextCases

LEMMA Invariant == Spec => []IInv
<1>1. Init => IInv
  BY InitInv
<1>2. IInv /\ [Next]_vars => IInv'
  BY NextInv
<1> QED
  BY <1>1, <1>2, PTL DEF Spec

(* A change to the class stored last makes no further row (fetchRcra, loadPriorRcra,       *)
(* runConnector), unless a class of the facility was stored without comparing, or its       *)
(* class may have been taken from the baseline of another; and the change that makes a row *)
(* is one from the class stored last, unless moreover a change was repeated before.         *)
THEOREM ChangesToldOnce == Spec => []ChangeToldOnce
<1>1. IInv => ChangeToldOnce
  BY DEF IInv, ClassesOK
<1> QED
  BY <1>1, Invariant, PTL

----------------------------------------------------------------------------
\* What a step may never do.

(* What a name stands for depends on companies and aliases only.            *)
LEMMA SameAnswer ==
  ASSUME UNCHANGED <<companies, aliases>>
  PROVE  \A n \in Names : Answer(n)' = Answer(n)
BY DEF Answer, Exists

LEMMA AliasKeepsAnswer ==
  ASSUME IInv, NEW k, NEW m, aliases' = [aliases EXCEPT ![k] = Append(@, m)], UNCHANGED companies
  PROVE  \A n \in Names : Answer(n) # "none" => Answer(n)' = Answer(n)
<1> SUFFICES ASSUME NEW n \in Names, Answer(n) # "none", ~Exists(n) PROVE Answer(n)' = Answer(n)
  BY DEF Answer, Exists
<1>1. aliases[n] # <<>> /\ Answer(n) = Head(aliases[n])
  BY DEF Answer
<1>2. PICK S : aliases[n] \in Seq(S)
  BY DEF IInv, TablesOK
<1>3. aliases[n] \in Seq(S \cup {m}) /\ m \in S \cup {m}
  BY <1>2
<1>4. /\ Append(aliases[n], m) # <<>>
      /\ Append(aliases[n], m)[1] = aliases[n][1]
      /\ Head(Append(aliases[n], m)) = Head(aliases[n])
  BY <1>1, <1>3, AppendProperties
<1>5. aliases'[n] # <<>> /\ Head(aliases'[n]) = Head(aliases[n])
  BY <1>1, <1>4 DEF IInv, TablesOK
<1> QED
  BY <1>1, <1>5 DEF Answer, Exists

LEMMA StepKeepsAnswer ==
  ASSUME IInv, [Next]_vars, NEW n \in Names, Answer(n) # "none"
  PROVE  Answer(n)' = Answer(n) \/ \E s \in Resolving(n) : task[s].late /\ Create(s)
<1>1. ASSUME NEW s \in Slots, Quiet(s) PROVE Answer(n)' = Answer(n)
  BY <1>1, QuietFacts, SameAnswer DEF Unwritten
<1>2. ASSUME NEW s \in Slots, WriteNumber(s) PROVE Answer(n)' = Answer(n)
  <2>1. task[s].at = "number" /\ Fits(task[s])
    BY <1>2, AtFacts DEF WriteNumber, At
  <2>2. Name(s) \in Names => Dot(s) # "none" /\ Exists(Name(s))
    BY <2>1 DEF Fits, KnowsName, Name, Dot
  <2>3. Exists(n)' <=> Exists(n)
    BY <1>2, <2>2 DEF WriteNumber, Exists, IInv, TablesOK
  <2> QED
    BY <1>2, <2>3 DEF Answer, WriteNumber
<1>3. ASSUME NEW s \in Slots, Create(s)
      PROVE  Answer(n)' = Answer(n) \/ \E r \in Resolving(n) : task[r].late /\ Create(r)
  <2>1. task[s] # Idle /\ task[s].at = "create" /\ Fits(task[s])
    BY <1>3, AtFacts DEF Create, At
  <2>2. CASE Name(s) # n
    BY <1>3, <2>2 DEF Create, Answer, Exists, IInv, TablesOK
  <2>3. CASE Name(s) = n
    <3>1. aliases[n] # <<>>
      BY <1>3, <2>3 DEF Answer, Create, CreateTaken
    <3>2. task[s].late
      BY <2>1, <2>3, <3>1 DEF Fits, KnowsName, Name
    <3>3. s \in Resolving(n)
      BY <2>1, <2>3 DEF Resolving, Name
    <3> QED
      BY <1>3, <3>2, <3>3
  <2> QED
    BY <2>2, <2>3
<1>4. ASSUME NEW s \in Slots, AliasWrite(s) \/ \E r \in reviews : ConfirmCompany(s, r) PROVE Answer(n)' = Answer(n)
  BY <1>4, AliasKeepsAnswer DEF AliasWrite, ConfirmCompany
<1>5. ASSUME NEW s \in Slots,
             \/ Store(s) \/ NoteWrite(s) \/ YardRow(s)
             \/ \E p \in Parcels : \E shown \in Forms(p) : SaveBuilding(s, p, shown)
      PROVE  Answer(n)' = Answer(n)
  BY <1>5, SameAnswer DEF Store, NoteWrite, YardRow, SaveBuilding, nameVars
<1>6. CASE Restart
  BY <1>6, SameAnswer DEF Restart, nameVars
<1>7. CASE UNCHANGED vars
  BY <1>7, SameAnswer DEF vars, nameVars
<1> QED
  BY <1>1, <1>2, <1>3, <1>4, <1>5, <1>6, <1>7, NextCases DEF Writes

(* A name that stands for a company goes on to stand for it, whatever is resolved,         *)
(* confirmed or typed in beside it (resolveCompany, ensureAlias, resolveReview), unless a   *)
(* company is made of the name by a task that looked for aliases before one was written.    *)
THEOREM NamesKeepCompanies == Spec => NameKeepsCompany
<1>1. IInv /\ [Next]_vars =>
        \A n \in Names : Answer(n) # "none" =>
          Answer(n)' = Answer(n) \/ \E s \in Resolving(n) : task[s].late /\ Create(s)
  BY StepKeepsAnswer
<1> QED
  BY <1>1, Invariant, PTL DEF Spec, NameKeepsCompany

\* What the notes of p may suffer by a step.
KeptAt(p) ==
  /\ \/ Keeps(notes[p], notes'[p])
     \/ \E s \in Holding(p) : NoteWrite(s) /\ (task[s].late \/ Len(notes[p]) > Room)
     \/ \E s \in Slots, shown \in Forms(p) : SaveBuilding(s, p, shown)
  /\ \A s \in Holding(p) : NoteWrite(s) => Noted(notes'[p], task[s].note) \/ Len(task[s].prior) >= Room

(* The task that writes a note: what it leaves out has no room.             *)
LEMMA NoteWritten ==
  ASSUME IInv, NEW p \in Parcels, NEW s \in Holding(p), NoteWrite(s)
  PROVE  /\ Noted(notes'[p], task[s].note) \/ Len(task[s].prior) >= Room
         /\ Keeps(notes[p], notes'[p]) \/ task[s].late \/ Len(notes[p]) > Room
<1>1. s \in Slots /\ task[s].parcel = p /\ task[s].at = "note_write" /\ Fits(task[s])
  BY AtFacts DEF Holding, At
<1>2. PICK prior, note : prior = task[s].prior /\ note = task[s].note
  OBVIOUS
<1>3. PICK S : prior \in Seq(S)
  BY <1>1, <1>2 DEF Fits, KnowsNotes
<1>4. notes'[p] = Merged(prior, note)
  BY <1>1, <1>2 DEF NoteWrite, Notes, IInv, TablesOK
<1>5. task[s].late \/ prior = notes[p]
  BY <1>1, <1>2 DEF Fits, KnowsNotes
<1>6. Len(prior) \in Nat /\ Room \in Nat
  BY <1>3, IntakeAssumption
<1>7. /\ Len(prior) <= Room => Keeps(prior, Merged(prior, note))
      /\ Len(prior) < Room => Noted(Merged(prior, note), note)
  BY <1>3, MergedFacts
<1> QED
  BY <1>2, <1>4, <1>5, <1>6, <1>7

LEMMA StepKeepsNotes ==
  ASSUME IInv, [Next]_vars, NEW p \in Parcels
  PROVE  KeptAt(p)
<1> SUFFICES \/ Keeps(notes[p], notes'[p])
             \/ \E s \in Holding(p) : NoteWrite(s) /\ (task[s].late \/ Len(notes[p]) > Room)
             \/ \E s \in Slots, shown \in Forms(p) : SaveBuilding(s, p, shown)
  BY NoteWritten DEF KeptAt
<1>1. ASSUME UNCHANGED notes \/ notes'[p] = notes[p] PROVE Keeps(notes[p], notes'[p])
  <2>1. PICK S : notes[p] \in Seq(S)
    BY DEF IInv, TablesOK
  <2> QED
    BY <1>1, <2>1 DEF Keeps
<1>2. ASSUME NEW s \in Slots, Quiet(s) PROVE Keeps(notes[p], notes'[p])
  BY <1>2, <1>1, QuietFacts DEF Unwritten
<1>3. ASSUME NEW s \in Slots,
             \/ WriteNumber(s) \/ AliasWrite(s) \/ Create(s) \/ Store(s)
             \/ \E r \in reviews : ConfirmCompany(s, r)
      PROVE  Keeps(notes[p], notes'[p])
  BY <1>3, <1>1 DEF WriteNumber, AliasWrite, Create, Store, ConfirmCompany, noteVars
<1>4. ASSUME NEW s \in Slots, NoteWrite(s)
      PROVE  \/ Keeps(notes[p], notes'[p])
             \/ \E r \in Holding(p) : NoteWrite(r) /\ (task[r].late \/ Len(notes[p]) > Room)
  <2>1. CASE task[s].parcel # p
    <3>1. notes'[p] = notes[p]
      BY <1>4, <2>1 DEF NoteWrite, Notes, IInv, TablesOK
    <3> QED
      BY <1>1, <3>1
  <2>2. CASE task[s].parcel = p
    <3>1. s \in Holding(p)
      BY <1>4, <2>2 DEF Holding, NoteWrite
    <3> QED
      BY <1>4, <3>1, NoteWritten
  <2> QED
    BY <2>1, <2>2
<1>5. ASSUME NEW s \in Slots, YardRow(s) PROVE Keeps(notes[p], notes'[p])
  <2>1. CASE notes'[p] = notes[p]
    BY <1>1, <2>1
  <2>2. CASE notes'[p] # notes[p]
    <3>1. notes[p] = <<>> /\ notes'[p] = <<task[s].note>>
      BY <1>5, <2>2 DEF YardRow, Notes, noteVars, IInv, TablesOK
    <3> QED
      BY <3>1 DEF Keeps
  <2> QED
    BY <2>1, <2>2
<1>6. ASSUME NEW s \in Slots, NEW q \in Parcels, NEW shown \in Forms(q), SaveBuilding(s, q, shown)
      PROVE  \/ Keeps(notes[p], notes'[p])
             \/ \E r \in Slots, some \in Forms(p) : SaveBuilding(r, p, some)
  <2>1. CASE q = p
    BY <1>6, <2>1
  <2>2. CASE q # p
    <3>1. notes'[p] = notes[p]
      BY <1>6, <2>2 DEF SaveBuilding, IInv, TablesOK
    <3> QED
      BY <1>1, <3>1
  <2> QED
    BY <2>1, <2>2
<1>7. CASE Restart
  BY <1>7, <1>1 DEF Restart, noteVars
<1>8. CASE UNCHANGED vars
  BY <1>8, <1>1 DEF vars, noteVars
<1> QED
  BY <1>2, <1>3, <1>4, <1>5, <1>6, <1>7, <1>8, NextCases DEF Writes

(* Notes of a building are lost only when its form is saved, when a task writes that read  *)
(* them before another wrote, or from those a form has written beyond the room they have;   *)
(* and a note is only left out when those read fill the room (maybeAnnotateBuilding, the    *)
(* flights' own note).                                                                      *)
THEOREM NotesLastOtherwise == Spec => NotesKept
<1>1. IInv /\ [Next]_vars => \A p \in Parcels : KeptAt(p)
  BY StepKeepsNotes
<1> QED
  BY <1>1, Invariant, PTL DEF Spec, NotesKept, KeptAt
=============================================================================
