--------------------------- MODULE AgentDeskProofs ---------------------------
(***************************************************************************)
(* Theorems about the agent's desk, for any requests side by side, any people, *)
(* owners and names, and any failures.                                      *)
(***************************************************************************)
EXTENDS AgentDesk, FiniteSetTheorems, TLAPS

Methods == {"none", "manual", "exact", "contact_name", "trigram", "company"}
Words == {"none", "open", "yes", "no"}

MatchRows == [method : Methods, confirmed : Words]

MatchOK == match \in [People -> [Owners -> MatchRows]]

\* The table in which the row of a pair is replaced.
With(p, o, row) == [match EXCEPT ![p][o] = row]

----------------------------------------------------------------------------
(* A table in which one pair is replaced.                                   *)
LEMMA OnePair ==
  ASSUME MatchOK, NEW p \in People, NEW o \in Owners, NEW row \in MatchRows,
         match' = With(p, o, row)
  PROVE  /\ MatchOK'
         /\ match'[p][o] = row
         /\ \A q \in People, r \in Owners : q # p \/ r # o => match'[q][r] = match[q][r]
BY DEF MatchOK, With

(* A stored candidate keeps the agent's word.                               *)
LEMMA StoredFacts ==
  ASSUME NEW row \in MatchRows, NEW i \in DOMAIN Tiers
  PROVE  /\ Stored(row, Tiers[i]) \in MatchRows
         /\ row.confirmed = "no" => Stored(row, Tiers[i]).confirmed = "no"
<1>1. Tiers[i] \in Methods
  BY DEF Tiers, Methods
<1> QED
  BY <1>1 DEF Stored, MatchRows, NoMatch, Words

(* What an owner has been told stays: a rejection is lifted by the agent only. *)
StaysRejected ==
  \A p \in People, o \in Owners :
    match[p][o].confirmed = "no" /\ match'[p][o].confirmed # "no" =>
      \E s \in Slots : SetConfirmation(s, p, o, "yes")

(* Storing a candidate, and giving a word, keep the table and what was rejected. *)
LEMMA StoreKeeps ==
  ASSUME MatchOK, NEW s \in Slots, MatchStores(s)
  PROVE  MatchOK' /\ StaysRejected
<1> DEFINE p == task[s].person
<1>1. PICK i \in DOMAIN Tiers, o \in Owners :
        match' = [match EXCEPT ![p][o] = Stored(@, Tiers[i])]
  BY DEF MatchStores
<1>2. CASE p \in People
  <2>1. match[p][o] \in MatchRows
    BY <1>2 DEF MatchOK
  <2>2. /\ Stored(match[p][o], Tiers[i]) \in MatchRows
        /\ match[p][o].confirmed = "no" => Stored(match[p][o], Tiers[i]).confirmed = "no"
    BY <2>1, StoredFacts
  <2>3. match' = With(p, o, Stored(match[p][o], Tiers[i]))
    BY <1>1, <1>2 DEF MatchOK, With
  <2> HIDE DEF p
  <2> QED
    BY <1>2, <2>2, <2>3, OnePair DEF StaysRejected
<1>3. CASE p \notin People
  <2>1. match' = match
    BY <1>1, <1>3 DEF MatchOK
  <2> QED
    BY <2>1 DEF StaysRejected, MatchOK
<1> QED
  BY <1>2, <1>3

LEMMA ConfirmationKeeps ==
  ASSUME MatchOK, NEW s \in Slots, NEW p \in People, NEW o \in Owners,
         NEW word \in {"yes", "no"}, SetConfirmation(s, p, o, word)
  PROVE  MatchOK' /\ StaysRejected
<1> DEFINE method == IF match[p][o] = NoMatch THEN "manual" ELSE match[p][o].method
           row == [method |-> method, confirmed |-> word]
<1>1. match[p][o] \in MatchRows
  BY DEF MatchOK
<1>2. row \in MatchRows /\ row.confirmed = word
  BY <1>1 DEF MatchRows, Methods, Words
<1>3. match' = With(p, o, row)
  BY DEF SetConfirmation, MatchOK, With
<1> HIDE DEF row
<1>4. /\ MatchOK' /\ match'[p][o] = row
      /\ \A q \in People, r \in Owners : q # p \/ r # o => match'[q][r] = match[q][r]
  BY <1>2, <1>3, OnePair
<1>5. CASE word = "no"
  BY <1>2, <1>4, <1>5 DEF StaysRejected
<1>6. CASE word = "yes"
  BY <1>4, <1>6 DEF StaysRejected
<1> QED
  BY <1>4, <1>5, <1>6

(* All other steps of the desk leave the table alone.                       *)
LEMMA OtherEventSteps ==
  ASSUME NEW s \in Slots, EventStep(s),
         ~ MatchStores(s),
         ~ \E p \in People, o \in Owners, word \in {"yes", "no"} : SetConfirmation(s, p, o, word)
  PROVE  UNCHANGED match
BY DEF EventStep, Sync, Feed, StatementFails, BriefByHand, SetEventStatus, Paste, FindPerson, SavePerson,
       MatchReads, MatchEnds, MarkMet, BriefReads, BriefMatches, BriefWrites,
       MorningBriefs, BriefFails, eventVars, matchVars, briefVars

(* So does every step of the desk.                                          *)
LEMMA StepKeeps == MatchOK /\ [Next]_vars => MatchOK' /\ StaysRejected
<1> SUFFICES ASSUME MatchOK, [Next]_vars PROVE MatchOK' /\ StaysRejected
  OBVIOUS
<1>1. ASSUME NEW s \in Slots, EventStep(s) PROVE MatchOK' /\ StaysRejected
  <2>1. CASE MatchStores(s)
    BY <2>1, StoreKeeps
  <2>2. CASE \E p \in People, o \in Owners, word \in {"yes", "no"} : SetConfirmation(s, p, o, word)
    BY <2>2, ConfirmationKeeps
  <2>3. CASE UNCHANGED match
    BY <2>3 DEF MatchOK, StaysRejected
  <2> QED
    BY <1>1, <2>1, <2>2, <2>3, OtherEventSteps
<1>2. CASE UNCHANGED match
  BY <1>2 DEF MatchOK, StaysRejected
<1> QED
  BY <1>1, <1>2
     DEF Next, EventNext, Morning, OwnerComes, Restart, EventRestart, vars, eventVars, matchVars

(* MatchingService: what the agent has rejected stays rejected until the agent *)
(* says otherwise, however many matchings read their candidates before.        *)
THEOREM RejectionLasts == Spec => RejectedStaysRejected
<1>1. Init => MatchOK
  BY DEF Init, EventInit, MatchOK, NoMatch, MatchRows, Methods, Words
<1>2. StaysRejected => [StaysRejected]_<<deskVars, eventVars>>
  OBVIOUS
<1>3. MatchOK /\ [Next]_vars => MatchOK' /\ [StaysRejected]_<<deskVars, eventVars>>
  BY StepKeeps
<1> QED
  BY <1>1, <1>3, PTL DEF Spec, RejectedStaysRejected, StaysRejected

----------------------------------------------------------------------------
(* The push to the CRM.                                                     *)

\* What a task is, as far as a push is concerned: only PushReads begins one, and a
\* matching goes on as something else.
Function(t) == t = [f \in DOMAIN t |-> t[f]] /\ "at" \in DOMAIN t
NoPush(t) == Function(t) /\ t.at \notin {"push", "answer"}

\* What a matching goes on as: nothing, or the rest of a brief.
After(t) == NoPush(t) /\ t.at \notin {"match", "store"}

TaskOK(t) ==
  /\ Function(t)
  /\ t.at \in {"push", "answer"} =>
       /\ {"todo", "known", "owed", "waits"} \subseteq DOMAIN t
       /\ {"auto", "then"} \cap DOMAIN t = {}
       /\ t.todo \subseteq Leads
  /\ t.at = "answer" =>
       /\ {"lead", "took"} \subseteq DOMAIN t
       /\ t.lead \in Leads /\ t.took \in BOOLEAN
  /\ t.at \in {"match", "store"} => "then" \in DOMAIN t /\ After(t.then)

TasksOK == task = [s \in Slots |-> task[s]] /\ \A s \in Slots : TaskOK(task[s])

(* A task that is no push, and its updates away from "at" and "then".        *)
LEMMA NoPushOK ==
  ASSUME NEW t, NoPush(t), t.at \notin {"match", "store"}
  PROVE  TaskOK(t)
BY DEF NoPush, TaskOK

(* What an update of another field leaves of a task.                        *)
LEMMA UpdateFacts ==
  ASSUME NEW t, Function(t), NEW x, NEW v, x # "at"
  PROVE  LET u == [t EXCEPT ![x] = v]
         IN /\ Function(u) /\ DOMAIN u = DOMAIN t
            /\ \A y \in DOMAIN t : y # x => u[y] = t[y]
            /\ u.at = t.at
BY DEF Function

CrmOK ==
  /\ pushed \in [Leads -> SUBSET {"success", "failed", "dry_run"}]
  /\ taken \in [Leads -> Nat]
  /\ unheard \in [Leads -> Nat]
  /\ overlap \in BOOLEAN

InFlight(l) == \E s \in Slots : task[s].at = "answer" /\ task[s].took /\ task[s].lead = l

\* While no two pushes have overlapped, the one push knows of every success among the
\* leads it has before it, and asks the CRM about such a lead only.
OnePush ==
  /\ \A s, t \in Pushing : s = t
  /\ \A s \in Pushing, l \in Leads :
       l \in task[s].todo /\ "success" \in pushed[l] => l \in task[s].known
  /\ \A s \in Slots : task[s].at = "answer" => task[s].lead \in task[s].todo \ task[s].known

\* What the CRM has taken is a success on file or still to be answered.
Accounted(l) == taken[l] <= 1 /\ (taken[l] = 1 => "success" \in pushed[l] \/ InFlight(l))

PushInv ==
  /\ TasksOK /\ CrmOK
  /\ ~overlap => OnePush /\ \A l \in Leads : unheard[l] = 0 => Accounted(l)

(* The table of tasks after one of them has gone on.                        *)
LEMMA BecomeFacts ==
  ASSUME TasksOK, NEW s \in Slots, NEW t, TaskOK(t), Become(s, t)
  PROVE  /\ TasksOK'
         /\ task'[s] = t
         /\ \A r \in Slots : r # s => task'[r] = task[r]
<1>1. task' = [r \in Slots |-> IF r = s THEN t ELSE task[r]]
  BY DEF TasksOK, Become
<1> QED
  BY <1>1, Zenon DEF TasksOK

(* A step of a task to one that is no push; a lead whose answer it awaited is   *)
(* counted as unheard.                                                      *)
LEMMA ElsewhereKeeps ==
  ASSUME PushInv, NEW s \in Slots, NEW t, TaskOK(t), Become(s, t),
         t.at \notin {"push", "answer"}, UNCHANGED <<pushed, taken, overlap>>,
         unheard' \in [Leads -> Nat],
         \A k \in Leads : unheard'[k] = 0 =>
           unheard[k] = 0 /\ ~(task[s].at = "answer" /\ task[s].took /\ task[s].lead = k)
  PROVE  PushInv'
<1>1. /\ TasksOK' /\ task'[s] = t
      /\ \A r \in Slots : r # s => task'[r] = task[r]
  BY BecomeFacts DEF PushInv
<1>2. Pushing' = Pushing \ {s}
  BY <1>1 DEF Pushing
<1>3. \A l \in Leads : unheard'[l] = 0 /\ InFlight(l) => InFlight(l)'
  BY <1>1 DEF InFlight
<1>4. ASSUME OnePush PROVE OnePush'
  <2>1. \A r, q \in Pushing' : r = q
    BY <1>2, <1>4 DEF OnePush
  <2>2. \A r \in Pushing' : r \in Slots /\ r # s
    BY <1>2 DEF Pushing
  <2>3. \A r \in Pushing', l \in Leads :
          l \in task'[r].todo /\ "success" \in pushed'[l] => l \in task'[r].known
    BY <1>1, <1>2, <1>4, <2>2 DEF OnePush
  <2>4. \A r \in Slots : task'[r].at = "answer" => task'[r].lead \in task'[r].todo \ task'[r].known
    BY <1>1, <1>4 DEF OnePush
  <2> QED
    BY <2>1, <2>3, <2>4 DEF OnePush
<1> QED
  BY <1>1, <1>3, <1>4 DEF PushInv, CrmOK, Accounted

(* A step that touches neither tasks nor pushes.                            *)
LEMMA NothingKeeps ==
  ASSUME PushInv, UNCHANGED <<task, pushed, taken, unheard, overlap>>
  PROVE  PushInv'
BY DEF PushInv, TasksOK, CrmOK, OnePush, Accounted, InFlight, Pushing

----------------------------------------------------------------------------
(* Steps that do not push.                                                  *)

\* The task of slot s, no awaited answer of the CRM, goes on as something else than
\* a push.
GoesOn(s) ==
  /\ task[s].at # "answer"
  /\ \E t : TaskOK(t) /\ t.at \notin {"push", "answer"} /\ Become(s, t)

(* Such a step keeps the invariant; what goes on plainly is such a step.    *)
LEMMA GoingOnKeeps ==
  ASSUME PushInv, NEW s \in Slots, GoesOn(s), UNCHANGED <<pushed, taken, unheard, overlap>>
  PROVE  PushInv'
<1>1. unheard' = unheard /\ unheard \in [Leads -> Nat]
  BY DEF PushInv, CrmOK
<1> QED
  BY <1>1, ElsewhereKeeps DEF GoesOn

LEMMA PlainGoesOn ==
  ASSUME NEW s \in Slots, task[s].at # "answer", NEW t, After(t), Become(s, t)
  PROVE  GoesOn(s)
BY NoPushOK DEF GoesOn, After, NoPush

(* What tasks go on as most of the time.                                    *)
LEMMA IdleFacts == After(Idle) /\ After(Awarding) /\ Idle.at = "idle" /\ Awarding.at = "award"
BY DEF Idle, Awarding, After, NoPush, Function

LEMMA NextBriefFacts ==
  ASSUME NEW auto, NEW todo
  PROVE  After(NextBrief(auto, todo))
BY IdleFacts DEF NextBrief, Brief, After, NoPush, Function

LEMMA RosterFacts ==
  ASSUME NEW e, NEW src, NEW names, NEW left
  PROVE  After(FeedOn(left)) /\ After(Roster(e, src, names, left))
<1>1. After(FeedOn(left))
  BY IdleFacts DEF FeedOn, After, NoPush, Function
<1> QED
  BY <1>1 DEF Roster, After, NoPush, Function

(* Requests that come in.                                                   *)
LEMMA ArrivalsGoOn ==
  ASSUME NEW s \in Slots,
         \/ Sync(s)
         \/ \E e \in Events : BriefByHand(s, e)
         \/ \E e \in Events, st \in {"approved", "hidden", "attended"} : SetEventStatus(s, e, st)
         \/ \E names \in SUBSET Names \ {{}}, src \in Sources, e \in Events \cup {"none"} :
              Paste(s, names, src, e)
         \/ \E p \in People, o \in Owners, word \in {"yes", "no"} : SetConfirmation(s, p, o, word)
         \/ \E e \in Events, p \in People : MarkMet(s, e, p)
  PROVE  GoesOn(s)
<1>1. task[s].at # "answer"
  BY IdleFacts DEF Arrives, Sync, BriefByHand, SetEventStatus, Paste, SetConfirmation, MarkMet
<1>2. CASE Sync(s)
  BY <1>1, <1>2, RosterFacts, PlainGoesOn DEF Sync
<1>3. CASE \E e \in Events : BriefByHand(s, e)
  <2>1. PICK e : Become(s, Brief(e, FALSE, {}))
    BY <1>3 DEF BriefByHand
  <2>2. After(Brief(e, FALSE, {}))
    BY DEF Brief, After, NoPush, Function
  <2> QED
    BY <1>1, <2>1, <2>2, PlainGoesOn
<1>4. CASE \E e \in Events, st \in {"approved", "hidden", "attended"} : SetEventStatus(s, e, st)
  BY <1>1, <1>4, IdleFacts, PlainGoesOn DEF SetEventStatus
<1>5. CASE \E names \in SUBSET Names \ {{}}, src \in Sources, e \in Events \cup {"none"} :
             Paste(s, names, src, e)
  BY <1>1, <1>5, RosterFacts, PlainGoesOn DEF Paste
<1>6. CASE \E p \in People, o \in Owners, word \in {"yes", "no"} : SetConfirmation(s, p, o, word)
  BY <1>1, <1>6, IdleFacts, PlainGoesOn DEF SetConfirmation, Ends
<1>7. CASE \E e \in Events, p \in People : MarkMet(s, e, p)
  BY <1>1, <1>7, IdleFacts, PlainGoesOn DEF MarkMet
<1> QED
  BY <1>2, <1>3, <1>4, <1>5, <1>6, <1>7

(* Statements of jobs and requests about events.                            *)
LEMMA FeedGoesOn ==
  ASSUME NEW s \in Slots, TaskOK(task[s]), Feed(s) \/ FindPerson(s) \/ StatementFails(s)
  PROVE  GoesOn(s)
<1>1. task[s].at # "answer"
  BY DEF Feed, FindPerson, StatementFails
<1>2. CASE Feed(s)
  BY <1>1, <1>2, RosterFacts, PlainGoesOn DEF Feed
<1>3. CASE FindPerson(s)
  <2>1. PICK key, p, e, names, left :
          Become(s, [at |-> "save", key |-> key, found |-> p, event |-> e, names |-> names, left |-> left])
    BY <1>3 DEF FindPerson
  <2>2. After([at |-> "save", key |-> key, found |-> p, event |-> e, names |-> names, left |-> left])
    BY DEF After, NoPush, Function
  <2> QED
    BY <1>1, <2>1, <2>2, PlainGoesOn
<1>4. CASE StatementFails(s)
  BY <1>1, <1>4, IdleFacts, PlainGoesOn DEF StatementFails, Ends
<1> QED
  BY <1>2, <1>3, <1>4

(* Rosters and matching: a matching goes on as what came with it.           *)
LEMMA MatchingGoesOn ==
  ASSUME NEW s \in Slots, TaskOK(task[s]),
         SavePerson(s) \/ MatchReads(s) \/ MatchStores(s) \/ MatchEnds(s)
  PROVE  GoesOn(s)
<1>1. CASE SavePerson(s)
  <2>1. PICK p, e, src, names, left : Become(s, Matching(p, Roster(e, src, names, left)))
    BY <1>1 DEF SavePerson
  <2> DEFINE then == Roster(e, src, names, left)
  <2>2. After(then)
    BY RosterFacts
  <2> HIDE DEF then
  <2>3. TaskOK(Matching(p, then)) /\ Matching(p, then).at = "match"
    BY <2>2 DEF Matching, TaskOK, Function
  <2>4. Become(s, Matching(p, then))
    BY <2>1 DEF then
  <2> QED
    BY <1>1, <2>3, <2>4 DEF GoesOn, SavePerson
<1>2. CASE MatchReads(s)
  <2> DEFINE t == [at |-> "store", person |-> task[s].person, todo |-> Candidates(task[s].person),
                   then |-> task[s].then]
  <2>1. task[s].at = "match" /\ Become(s, t)
    BY <1>2 DEF MatchReads
  <2>2. TaskOK(t) /\ t.at = "store"
    BY <2>1 DEF TaskOK, Function
  <2> QED
    BY <2>1, <2>2 DEF GoesOn
<1>3. CASE MatchStores(s)
  <2>1. task[s].at = "store"
    BY <1>3 DEF MatchStores
  <2>2. PICK i \in DOMAIN Tiers, o \in Owners : Become(s, [task[s] EXCEPT !.todo[i] = @ \ {o}])
    BY <1>3 DEF MatchStores
  <2> DEFINE left == [task[s].todo EXCEPT ![i] = @ \ {o}]
             t == [task[s] EXCEPT !["todo"] = left]
  <2>3. Become(s, t)
    BY <2>2, Zenon
  <2> HIDE DEF left
  <2>4. Function(t) /\ DOMAIN t = DOMAIN task[s] /\ t.at = "store"
    BY <2>1, UpdateFacts DEF TaskOK
  <2>5. "then" \in DOMAIN task[s] => t["then"] = task[s]["then"]
    BY UpdateFacts DEF TaskOK
  <2> HIDE DEF t
  <2>6. TaskOK(t)
    BY <2>1, <2>4, <2>5 DEF TaskOK
  <2> QED
    BY <2>1, <2>3, <2>4, <2>6 DEF GoesOn
<1>4. CASE MatchEnds(s)
  <2>1. task[s].at = "store" /\ Become(s, task[s].then)
    BY <1>4 DEF MatchEnds
  <2>2. After(task[s].then)
    BY <2>1 DEF TaskOK
  <2> QED
    BY <2>1, <2>2, PlainGoesOn
<1> QED
  BY <1>1, <1>2, <1>3, <1>4

(* Briefs.                                                                  *)
LEMMA BriefGoesOn ==
  ASSUME NEW s \in Slots, TaskOK(task[s]),
         BriefReads(s) \/ BriefMatches(s) \/ BriefWrites(s) \/ MorningBriefs(s) \/ BriefFails(s)
  PROVE  GoesOn(s)
<1>1. CASE BriefReads(s)
  <2> DEFINE t == [at |-> "rematch", event |-> task[s].event, people |-> Unmatched(task[s].event),
                   auto |-> task[s].auto, todo |-> task[s].todo]
  <2>1. task[s].at = "brief" /\ Become(s, t)
    BY <1>1 DEF BriefReads
  <2>2. After(t)
    BY DEF After, NoPush, Function
  <2> QED
    BY <2>1, <2>2, PlainGoesOn
<1>2. CASE BriefMatches(s)
  <2>1. PICK p \in task[s].people : Become(s, Matching(p, [task[s] EXCEPT !.people = @ \ {p}]))
    BY <1>2 DEF BriefMatches
  <2>2. task[s].at = "rematch"
    BY <1>2 DEF BriefMatches
  <2> DEFINE u == [task[s] EXCEPT !["people"] = task[s].people \ {p}]
  <2>3. Function(u) /\ u.at = "rematch"
    BY <2>2, UpdateFacts DEF TaskOK
  <2>4. After(u)
    BY <2>3 DEF After, NoPush
  <2>5. Become(s, Matching(p, u))
    BY <2>1
  <2> HIDE DEF u
  <2>6. TaskOK(Matching(p, u)) /\ Matching(p, u).at = "match"
    BY <2>4 DEF Matching, TaskOK, Function
  <2> QED
    BY <2>2, <2>5, <2>6 DEF GoesOn
<1>3. CASE BriefWrites(s)
  BY <1>3, NextBriefFacts, PlainGoesOn DEF BriefWrites
<1>4. CASE MorningBriefs(s)
  BY <1>4, NextBriefFacts, IdleFacts, PlainGoesOn DEF MorningBriefs
<1>5. CASE BriefFails(s)
  <2>1. task[s].at # "answer"
    BY <1>5 DEF BriefFails, Briefing, TaskOK
  <2> QED
    BY <1>5, <2>1, IdleFacts, PlainGoesOn DEF BriefFails, Ends
<1> QED
  BY <1>1, <1>2, <1>3, <1>4, <1>5

(* All steps about events.                                                  *)
LEMMA EventStepGoesOn ==
  ASSUME PushInv, NEW s \in Slots, EventStep(s)
  PROVE  GoesOn(s)
<1>1. TaskOK(task[s])
  BY DEF PushInv, TasksOK
<1> QED
  BY <1>1, ArrivalsGoOn, FeedGoesOn, MatchingGoesOn, BriefGoesOn DEF EventStep

(* Requests about leads.                                                    *)
LEMMA LeadRequestsGoOn ==
  ASSUME NEW s \in Slots,
         \/ \E p \in Parcels : CreateLook(s, p) \/ DigestFiles(s, p)
         \/ CreateInsert(s)
         \/ \E l \in Leads, st \in Used : SetStatus(s, l, st)
         \/ \E l \in Leads, o \in Outcomes : LogOutcome(s, l, o)
         \/ \E l \in Leads : Snooze(s, l)
         \/ FileNote(s) \/ PushEnds(s) \/ DryRunThrows(s)
  PROVE  GoesOn(s) /\ UNCHANGED <<pushed, taken, unheard, overlap>>
<1>1. task[s].at # "answer"
  BY IdleFacts
     DEF Arrives, CreateLook, DigestFiles, CreateInsert, SetStatus, LogOutcome, Snooze, FileNote, PushEnds,
         DryRunThrows
<1>2. UNCHANGED <<pushed, taken, unheard, overlap>>
  BY DEF CreateLook, DigestFiles, CreateInsert, SetStatus, LogOutcome, Snooze, FileNote, PushEnds,
         DryRunThrows, crmVars, leadVars
<1>3. CASE \E p \in Parcels : CreateLook(s, p)
  <2>1. PICK p : Become(s, IF OpenLeads(p) # {} THEN Idle ELSE [at |-> "create", parcel |-> p])
    BY <1>3 DEF CreateLook
  <2>2. After([at |-> "create", parcel |-> p])
    BY DEF After, NoPush, Function
  <2> QED
    BY <1>1, <1>2, <2>1, <2>2, IdleFacts, PlainGoesOn
<1>4. CASE Become(s, Idle) \/ Become(s, Awarding)
  BY <1>1, <1>2, <1>4, IdleFacts, PlainGoesOn
<1>5. \/ \E p \in Parcels : CreateLook(s, p)
      \/ Become(s, Idle) \/ Become(s, Awarding)
  BY DEF DigestFiles, CreateInsert, SetStatus, LogOutcome, Snooze, FileNote, PushEnds, DryRunThrows, Ends
<1> QED
  BY <1>3, <1>4, <1>5

(* A push reads its batch: the leads and what has been pushed of them.      *)
LEMMA PushReadsKeeps ==
  ASSUME PushInv, NEW s \in Slots, PushReads(s)
  PROVE  PushInv'
<1>1. PICK todo, known, owed, waits :
        /\ known \subseteq todo /\ todo \subseteq Leads
        /\ \A l \in todo : "success" \in pushed[l] => l \in known
        /\ Become(s, [at |-> "push", todo |-> todo, known |-> known, owed |-> owed, waits |-> waits])
  <2>1. PICK todo \in Batches : Become(s,
          [at |-> "push", todo |-> todo, known |-> todo \cap Succeeded, owed |-> todo,
           waits |-> IF Cardinality(Succeeded) < Batch THEN Eligible \ Succeeded ELSE {}])
    BY DEF PushReads
  <2>2. /\ todo \in SUBSET Leads
        /\ \A l \in todo : "success" \in pushed[l] => l \in todo \cap Succeeded
    BY DEF Batches, Eligible, Rows, Succeeded
  <2> QED
    BY <2>1, <2>2
<1> DEFINE t == [at |-> "push", todo |-> todo, known |-> known, owed |-> owed, waits |-> waits]
<1>2. TaskOK(t) /\ t.at = "push" /\ t.todo = todo /\ t.known = known
  BY <1>1 DEF TaskOK, Function
<1>3. Become(s, t)
  BY <1>1
<1> HIDE DEF t
<1>4. /\ TasksOK' /\ task'[s] = t
      /\ \A r \in Slots : r # s => task'[r] = task[r]
  BY <1>2, <1>3, BecomeFacts DEF PushInv
<1>5. /\ overlap' = (overlap \/ Pushing # {})
      /\ UNCHANGED <<pushed, taken, unheard>>
  BY DEF PushReads
<1>6. CrmOK'
  BY <1>5 DEF PushInv, CrmOK
<1>7. task[s].at = "idle"
  BY IdleFacts DEF PushReads, Arrives
<1>8. ASSUME ~overlap' PROVE OnePush' /\ \A l \in Leads : unheard'[l] = 0 => Accounted(l)'
  <2>1. ~overlap /\ Pushing = {}
    BY <1>5, <1>6, <1>8 DEF PushInv, CrmOK
  <2>2. Pushing' = {s}
    BY <1>2, <1>4, <2>1 DEF Pushing
  <2>3. OnePush'
    BY <1>1, <1>2, <1>4, <1>5, <2>1, <2>2 DEF OnePush, Pushing
  <2>4. \A l \in Leads : InFlight(l) => InFlight(l)'
    BY <1>4, <1>7 DEF InFlight
  <2> QED
    BY <1>5, <2>1, <2>3, <2>4 DEF PushInv, Accounted
<1> QED
  BY <1>4, <1>6, <1>8 DEF PushInv

(* A lead of the batch is done with.                                        *)
LEMMA RestFacts ==
  ASSUME NEW s \in Slots, TaskOK(task[s]), task[s].at \in {"push", "answer"}, NEW l
  PROVE  /\ TaskOK(Rest(s, l)) /\ Rest(s, l).at = "push"
         /\ Rest(s, l).todo = task[s].todo \ {l}
         /\ Rest(s, l).known = task[s].known /\ Rest(s, l).owed = task[s].owed
         /\ Rest(s, l).waits = task[s].waits
<1>1. /\ {"at", "todo", "known", "owed", "waits"} \subseteq DOMAIN task[s]
      /\ {"auto", "then"} \cap DOMAIN task[s] = {}
  BY DEF TaskOK, Function
<1>2. Rest(s, l) = [f \in DOMAIN task[s] |->
        IF f = "todo" THEN task[s].todo \ {l} ELSE IF f = "at" THEN "push" ELSE task[s][f]]
  BY <1>1, Zenon DEF Rest
<1>3. DOMAIN Rest(s, l) = DOMAIN task[s] /\ Function(Rest(s, l))
  BY <1>1, <1>2 DEF Function
<1>4. /\ Rest(s, l).at = "push"
      /\ Rest(s, l).todo = task[s].todo \ {l}
      /\ Rest(s, l).known = task[s].known /\ Rest(s, l).owed = task[s].owed
      /\ Rest(s, l).waits = task[s].waits
  BY <1>1, <1>2
<1> QED
  BY <1>1, <1>3, <1>4 DEF TaskOK

(* A result is recorded: the lead is done with, and what was taken is on file. *)
LEMMA RecordKeeps ==
  ASSUME PushInv, NEW s \in Slots, task[s].at \in {"push", "answer"},
         NEW l \in Leads, NEW word \in {"success", "failed", "dry_run"},
         Record(l, word), Become(s, Rest(s, l)), UNCHANGED <<taken, overlap>>,
         unheard' \in [Leads -> Nat], \A k \in Leads : unheard'[k] = 0 => unheard[k] = 0,
         task[s].at = "answer" =>
           l = task[s].lead /\ (task[s].took => word = "success" \/ unheard'[l] # 0)
  PROVE  PushInv'
<1>1. TaskOK(task[s])
  BY DEF PushInv, TasksOK
<1> DEFINE t == Rest(s, l)
<1>2. /\ TaskOK(t) /\ t.at = "push"
      /\ t.todo = task[s].todo \ {l} /\ t.known = task[s].known
  BY <1>1, RestFacts
<1> HIDE DEF t
<1>3. /\ TasksOK' /\ task'[s] = t
      /\ \A r \in Slots : r # s => task'[r] = task[r]
  BY <1>2, BecomeFacts DEF PushInv, t
<1>4. /\ pushed' \in [Leads -> SUBSET {"success", "failed", "dry_run"}]
      /\ pushed'[l] = pushed[l] \cup {word}
      /\ \A k \in Leads : k # l => pushed'[k] = pushed[k]
  BY DEF PushInv, CrmOK, Record
<1>5. CrmOK'
  BY <1>4 DEF PushInv, CrmOK
<1>6. ASSUME ~overlap PROVE OnePush' /\ \A k \in Leads : unheard'[k] = 0 => Accounted(k)'
  <2>1. OnePush /\ \A k \in Leads : unheard[k] = 0 => Accounted(k)
    BY <1>6 DEF PushInv
  <2>2. Pushing = {s}
    BY <2>1 DEF OnePush, Pushing
  <2>3. Pushing' = {s}
    BY <1>2, <1>3, <2>2 DEF Pushing
  <2>4. \A k \in Leads : k \in t.todo /\ "success" \in pushed'[k] => k \in t.known
    BY <1>2, <1>4, <2>1, <2>2 DEF OnePush
  <2>5. \A r \in Slots : task'[r].at # "answer"
    BY <1>2, <1>3, <2>2 DEF Pushing
  <2>6. OnePush'
    BY <1>3, <2>3, <2>4, <2>5 DEF OnePush
  <2>7. ASSUME NEW k \in Leads, unheard'[k] = 0 PROVE Accounted(k)'
    <3>1. Accounted(k)
      BY <2>1, <2>7
    <3>2. CASE "success" \in pushed[k]
      BY <1>4, <3>1, <3>2 DEF Accounted
    <3>3. CASE InFlight(k)
      <4>1. task[s].at = "answer" /\ task[s].took /\ task[s].lead = k
        BY <2>2, <3>3 DEF InFlight, Pushing
      <4> QED
        BY <1>4, <2>7, <3>1, <4>1 DEF Accounted
    <3> QED
      BY <3>1, <3>2, <3>3 DEF Accounted
  <2> QED
    BY <2>6, <2>7
<1> QED
  BY <1>3, <1>5, <1>6 DEF PushInv

(* Three statements record one.                                             *)
LEMMA AnswersKeep ==
  ASSUME PushInv, NEW s \in Slots, DryRun(s) \/ Answer(s) \/ AnswerLost(s)
  PROVE  PushInv'
<1> DEFINE l == task[s].lead
<1>1. TaskOK(task[s])
  BY DEF PushInv, TasksOK
<1>2. unheard \in [Leads -> Nat]
  BY DEF PushInv, CrmOK
<1>3. CASE DryRun(s)
  <2>1. task[s].at = "push"
    BY <1>3 DEF DryRun
  <2>2. PICK k \in ToPush(s) : Record(k, "dry_run") /\ Become(s, Rest(s, k))
    BY <1>3 DEF DryRun
  <2>3. k \in Leads
    BY <1>1, <2>1, <2>2 DEF ToPush, TaskOK
  <2> QED
    BY <1>2, <1>3, <2>1, <2>2, <2>3, RecordKeeps DEF DryRun
<1>4. CASE Answer(s)
  <2>1. /\ task[s].at = "answer" /\ l \in Leads /\ task[s].took \in BOOLEAN
        /\ Become(s, Rest(s, l))
        /\ Record(l, IF task[s].took THEN "success" ELSE "failed")
        /\ UNCHANGED <<taken, unheard, overlap>>
    BY <1>1, <1>4 DEF Answer, Heard, TaskOK
  <2> QED
    BY <1>2, <2>1, RecordKeeps
<1>5. CASE AnswerLost(s)
  <2>1. /\ task[s].at = "answer" /\ l \in Leads /\ task[s].took \in BOOLEAN
        /\ Become(s, Rest(s, l)) /\ Record(l, "failed")
        /\ unheard' = IF task[s].took THEN [unheard EXCEPT ![l] = @ + 1] ELSE unheard
        /\ UNCHANGED <<taken, overlap>>
    BY <1>1, <1>5 DEF AnswerLost, Unheard, TaskOK
  <2>2. /\ unheard' \in [Leads -> Nat] /\ \A k \in Leads : unheard'[k] = 0 => unheard[k] = 0
        /\ task[s].took => unheard'[l] # 0
    BY <1>2, <2>1
  <2> QED
    BY <2>1, <2>2, RecordKeeps
<1> QED
  BY <1>3, <1>4, <1>5

(* One records none: what the CRM took is unheard, and the push is over.     *)
LEMMA AnswerThrowsKeeps ==
  ASSUME PushInv, NEW s \in Slots, AnswerThrows(s)
  PROVE  PushInv'
<1> DEFINE l == task[s].lead
<1>1. /\ task[s].at = "answer" /\ Become(s, Idle)
      /\ unheard' = IF task[s].took THEN [unheard EXCEPT ![l] = @ + 1] ELSE unheard
      /\ UNCHANGED <<pushed, taken, overlap>>
  BY DEF AnswerThrows, Unheard, Ends
<1>2. l \in Leads /\ task[s].took \in BOOLEAN /\ unheard \in [Leads -> Nat]
  BY <1>1 DEF PushInv, TasksOK, TaskOK, CrmOK
<1>3. /\ unheard' \in [Leads -> Nat]
      /\ \A k \in Leads : unheard'[k] = 0 => unheard[k] = 0 /\ ~(task[s].took /\ l = k)
  BY <1>1, <1>2
<1>4. TaskOK(Idle) /\ Idle.at = "idle"
  BY IdleFacts, NoPushOK DEF After
<1> QED
  BY <1>1, <1>3, <1>4, ElsewhereKeeps

(* The CRM is called.                                                       *)
LEMMA PostKeeps ==
  ASSUME PushInv, NEW s \in Slots, Post(s)
  PROVE  PushInv'
<1>1. /\ TaskOK(task[s]) /\ task[s].at = "push"
      /\ UNCHANGED <<pushed, unheard, overlap>>
  BY DEF PushInv, TasksOK, Post
<1>2. PICK l \in ToPush(s), takes \in BOOLEAN :
        /\ taken' = IF takes THEN [taken EXCEPT ![l] = @ + 1] ELSE taken
        /\ Become(s, [at |-> "answer", todo |-> task[s].todo, known |-> task[s].known,
                      owed |-> task[s].owed, waits |-> task[s].waits, lead |-> l, took |-> takes])
  BY DEF Post
<1> DEFINE t == [at |-> "answer", todo |-> task[s].todo, known |-> task[s].known,
                 owed |-> task[s].owed, waits |-> task[s].waits, lead |-> l, took |-> takes]
<1>3. l \in Leads /\ l \in task[s].todo /\ l \notin task[s].known
  BY <1>1, <1>2 DEF ToPush, TaskOK
<1>4. /\ TaskOK(t) /\ t.at = "answer" /\ t.lead = l /\ t.took = takes
      /\ t.todo = task[s].todo /\ t.known = task[s].known
  BY <1>1, <1>3 DEF TaskOK, Function
<1>5. Become(s, t)
  BY <1>2
<1> HIDE DEF t
<1>6. /\ TasksOK' /\ task'[s] = t
      /\ \A r \in Slots : r # s => task'[r] = task[r]
  BY <1>4, <1>5, BecomeFacts DEF PushInv
<1>7. /\ taken' \in [Leads -> Nat]
      /\ \A k \in Leads : k # l \/ ~takes => taken'[k] = taken[k]
      /\ takes => taken'[l] = taken[l] + 1
  BY <1>2, <1>3 DEF PushInv, CrmOK
<1>8. CrmOK'
  BY <1>1, <1>7 DEF PushInv, CrmOK
<1>9. ASSUME ~overlap PROVE OnePush' /\ \A k \in Leads : unheard'[k] = 0 => Accounted(k)'
  <2>1. OnePush /\ \A k \in Leads : unheard[k] = 0 => Accounted(k)
    BY <1>9 DEF PushInv
  <2>2. Pushing = {s} /\ Pushing' = {s}
    BY <1>1, <1>4, <1>6, <2>1 DEF OnePush, Pushing
  <2>3. \A k \in Leads : k \in t.todo /\ "success" \in pushed'[k] => k \in t.known
    BY <1>1, <1>4, <2>1, <2>2 DEF OnePush
  <2>4. \A r \in Slots : task'[r].at = "answer" => r = s
    BY <2>2 DEF Pushing
  <2>5. OnePush'
    BY <1>3, <1>4, <1>6, <2>2, <2>3, <2>4 DEF OnePush
  <2>6. \A k \in Leads : ~InFlight(k)
    BY <1>1, <2>2 DEF InFlight, Pushing
  <2>7. "success" \notin pushed[l]
    BY <1>3, <2>1, <2>2 DEF OnePush
  <2>8. ASSUME NEW k \in Leads, unheard'[k] = 0 PROVE Accounted(k)'
    <3>1. Accounted(k)
      BY <1>1, <2>1, <2>8
    <3>2. CASE k = l /\ takes
      <4>1. taken[l] = 0
        BY <2>6, <2>7, <3>1, <3>2 DEF Accounted, PushInv, CrmOK
      <4>2. InFlight(l)'
        BY <1>4, <1>6, <3>2 DEF InFlight
      <4> QED
        BY <1>7, <3>2, <4>1, <4>2 DEF Accounted
    <3>3. CASE k # l \/ ~takes
      BY <1>1, <1>7, <2>6, <3>1, <3>3 DEF Accounted
    <3> QED
      BY <3>2, <3>3
  <2> QED
    BY <2>5, <2>8
<1> QED
  BY <1>1, <1>6, <1>8, <1>9 DEF PushInv

(* The process dies: what was in flight is counted as unheard.              *)
LEMMA RestartKeeps ==
  ASSUME DeskAssumption, PushInv, Restart
  PROVE  PushInv'
<1>1. task' = [s \in Slots |-> Idle] /\ UNCHANGED <<pushed, taken, overlap>>
  BY DEF Restart, LeadRestart
<1> DEFINE Cut(l) == {s \in Slots : task[s].at = "answer" /\ task[s].took /\ task[s].lead = l}
<1>2. \A l \in Leads : IsFiniteSet(Cut(l)) /\ Cardinality(Cut(l)) \in Nat
  BY FS_Subset, FS_CardinalityType DEF DeskAssumption
<1>3. unheard' = [l \in Leads |-> unheard[l] + Cardinality(Cut(l))]
  BY DEF Restart, LeadRestart
<1>4. \A l \in Leads : Cut(l) = {} => ~InFlight(l)
  BY DEF InFlight
<1>5. \A l \in Leads : Cardinality(Cut(l)) = 0 => Cut(l) = {}
  BY <1>2, FS_EmptySet
<1> HIDE DEF Cut
<1>6. unheard \in [Leads -> Nat]
  BY DEF PushInv, CrmOK
<1>7. \A l \in Leads : unheard[l] \in Nat /\ unheard'[l] = unheard[l] + Cardinality(Cut(l))
  BY <1>3, <1>6
<1>8. unheard' \in [Leads -> Nat]
  BY <1>2, <1>3, <1>6
<1>9. \A l \in Leads : unheard'[l] = 0 => unheard[l] = 0 /\ Cut(l) = {}
  <2> SUFFICES ASSUME NEW l \in Leads, unheard'[l] = 0 PROVE unheard[l] = 0 /\ Cut(l) = {}
    OBVIOUS
  <2>1. unheard[l] = 0 /\ Cardinality(Cut(l)) = 0
    BY <1>2, <1>7
  <2> QED
    BY <1>5, <2>1
<1>10. TaskOK(Idle) /\ Idle.at = "idle"
  BY IdleFacts, NoPushOK DEF After
<1>11. TasksOK' /\ Pushing' = {} /\ \A s \in Slots : task'[s].at = "idle"
  BY <1>1, <1>10 DEF TasksOK, Pushing
<1>12. OnePush'
  BY <1>11 DEF OnePush
<1> QED
  BY <1>1, <1>4, <1>8, <1>9, <1>11, <1>12 DEF PushInv, CrmOK, Accounted

(* Every step of the desk keeps the invariant.                              *)
LEMMA PushStepKeeps == DeskAssumption /\ PushInv /\ [Next]_vars => PushInv'
<1> SUFFICES ASSUME DeskAssumption, PushInv, [Next]_vars PROVE PushInv'
  OBVIOUS
<1>1. CASE LeadNext
  <2>1. CASE \E l \in Leads : SnoozeEnds(l)
    BY <2>1, NothingKeeps DEF SnoozeEnds, deskVars, crmVars
  <2>2. ASSUME NEW s \in Slots, LeadStep(s) PROVE PushInv'
    BY <2>2, LeadRequestsGoOn, GoingOnKeeps, PushReadsKeeps, PostKeeps, AnswersKeep, AnswerThrowsKeeps
       DEF LeadStep
  <2> QED
    BY <1>1, <2>1, <2>2 DEF LeadNext
<1>2. CASE EventNext /\ UNCHANGED leadVars
  <2>1. CASE Morning \/ \E o \in Owners : OwnerComes(o)
    BY <1>2, <2>1, NothingKeeps DEF Morning, OwnerComes, deskVars, leadVars
  <2>2. ASSUME NEW s \in Slots, EventStep(s) PROVE PushInv'
    BY <1>2, <2>2, EventStepGoesOn, GoingOnKeeps DEF leadVars
  <2> QED
    BY <1>2, <2>1, <2>2 DEF EventNext
<1>3. ASSUME NEW s \in Slots, Award(s), UNCHANGED leadVars PROVE PushInv'
  <2>1. GoesOn(s)
    BY <1>3, IdleFacts, PlainGoesOn DEF Award, Ends
  <2> QED
    BY <1>3, <2>1, GoingOnKeeps DEF leadVars
<1>4. CASE Restart
  BY <1>4, RestartKeeps
<1>5. CASE UNCHANGED vars
  BY <1>5, NothingKeeps DEF vars, deskVars, leadVars
<1> QED
  BY <1>1, <1>2, <1>3, <1>4, <1>5 DEF Next

(* Nothing is pushed at first.                                               *)
LEMMA PushInit == Init => PushInv
<1> SUFFICES ASSUME Init PROVE PushInv
  OBVIOUS
<1>1. TaskOK(Idle) /\ Idle.at = "idle"
  BY IdleFacts, NoPushOK DEF After
<1>2. TasksOK /\ \A s \in Slots : task[s].at = "idle"
  BY <1>1 DEF Init, DeskInit, TasksOK
<1>3. Pushing = {} /\ OnePush
  BY <1>2 DEF OnePush, Pushing
<1>4. CrmOK /\ \A l \in Leads : taken[l] = 0
  BY DEF Init, LeadInit, CrmOK
<1>5. \A l \in Leads : Accounted(l)
  BY <1>4 DEF Accounted
<1> QED
  BY <1>2, <1>3, <1>4, <1>5 DEF PushInv

(* CrmSyncService: the CRM gets a lead a second time only if it took it once    *)
(* unrecorded, or if two pushes overlapped, whatever else goes on at the desk.  *)
THEOREM PushedTwiceExplained == Spec => []DoublePushExplained
<1>1. PushInv => DoublePushExplained
  BY DEF PushInv, CrmOK, Accounted, DoublePushExplained
<1>2. PushInv /\ [Next]_vars => PushInv'
  BY PushStepKeeps, DeskAssumption
<1> QED
  BY <1>1, <1>2, PushInit, PTL DEF Spec

----------------------------------------------------------------------------
(* What a push leaves on record.                                            *)

\* A lead a push knows of has its success on file, one it owes a record is still
\* before it or has one, and if any wait, one of them is owed a record.
Covered(t, records) ==
  /\ \A l \in t.known : l \in Leads /\ "success" \in records[l]
  /\ \A l \in t.owed : l \in Leads /\ (l \in t.todo \/ records[l] # {})
  /\ t.waits # {} => t.waits \cap t.owed # {}

CoverInv == \A s \in Pushing : Covered(task[s], pushed)

\* Records are only added.
RecordsStay == \A l \in Leads : pushed[l] \subseteq pushed'[l]

(* All pushes but that of slot s are covered if they were, and that of s too.  *)
LEMMA CoverKeeps ==
  ASSUME PushInv, CoverInv, RecordsStay, NEW s \in Slots, NEW t, TaskOK(t), Become(s, t),
         t.at \in {"push", "answer"} => Covered(t, pushed')
  PROVE  CoverInv'
<1>1. /\ task'[s] = t
      /\ \A r \in Slots : r # s => task'[r] = task[r]
  BY BecomeFacts DEF PushInv
<1> SUFFICES ASSUME NEW r \in Pushing' PROVE Covered(task'[r], pushed')
  BY DEF CoverInv
<1>2. r \in Slots /\ task'[r].at \in {"push", "answer"}
  BY DEF Pushing
<1>3. CASE r = s
  BY <1>1, <1>2, <1>3 DEF Covered
<1>4. CASE r # s
  <2>1. task'[r] = task[r] /\ r \in Pushing
    BY <1>1, <1>2, <1>4 DEF Pushing
  <2>2. Covered(task[r], pushed)
    BY <2>1 DEF CoverInv
  <2> QED
    BY <2>1, <2>2 DEF Covered, RecordsStay
<1> QED
  BY <1>3, <1>4

(* A step that does not push touches no records.                            *)
LEMMA GoingOnCovers ==
  ASSUME PushInv, CoverInv, NEW s \in Slots, GoesOn(s), UNCHANGED pushed
  PROVE  CoverInv'
<1>1. RecordsStay
  BY DEF RecordsStay
<1> QED
  BY <1>1, CoverKeeps DEF GoesOn

(* A batch that the leads pushed before cannot fill holds one that waits.    *)
LEMMA BatchHasRoom ==
  ASSUME LeadAssumption, NEW todo \in Batches, Cardinality(Succeeded) < Batch,
         Eligible \ Succeeded # {}
  PROVE  (Eligible \ Succeeded) \cap todo # {}
<1> SUFFICES ASSUME todo \subseteq Succeeded PROVE FALSE
  BY DEF Batches
<1>1. IsFiniteSet(Eligible) /\ Cardinality(Eligible) \in Nat
  BY FS_Subset, FS_CardinalityType DEF LeadAssumption, Eligible, Rows
<1>2. IsFiniteSet(Succeeded) /\ Cardinality(Succeeded) \in Nat
  BY <1>1, FS_Subset, FS_CardinalityType DEF Succeeded
<1>3. Cardinality(todo) \in Nat /\ Cardinality(todo) <= Cardinality(Succeeded)
  BY <1>2, FS_Subset, FS_CardinalityType
<1>4. Cardinality(todo) = Cardinality(Eligible)
  BY <1>1, <1>2, <1>3 DEF Batches, LeadAssumption
<1>5. todo = Eligible
  BY <1>1, <1>4, FS_Subset DEF Batches
<1> QED
  BY <1>5

(* A push knows of successes on file, and has all it owes before it.        *)
LEMMA PushReadsCovers ==
  ASSUME LeadAssumption, PushInv, CoverInv, NEW s \in Slots, PushReads(s)
  PROVE  CoverInv'
<1> DEFINE waits == IF Cardinality(Succeeded) < Batch THEN Eligible \ Succeeded ELSE {}
           Reading(todo) == [at |-> "push", todo |-> todo, known |-> todo \cap Succeeded, owed |-> todo,
                             waits |-> waits]
<1>1. PICK todo \in Batches : Become(s, Reading(todo))
  BY DEF PushReads
<1>2. /\ todo \subseteq Leads
      /\ \A l \in todo \cap Succeeded : "success" \in pushed[l]
      /\ waits # {} => waits \cap todo # {}
  BY BatchHasRoom DEF Batches, Eligible, Rows, Succeeded
<1>3. UNCHANGED pushed /\ RecordsStay
  BY DEF PushReads, RecordsStay
<1> HIDE DEF waits
<1>4. TaskOK(Reading(todo)) /\ Covered(Reading(todo), pushed)
  BY <1>2 DEF TaskOK, Function, Covered
<1> HIDE DEF Reading
<1> QED
  BY <1>1, <1>3, <1>4, CoverKeeps

(* A result on record covers the lead that is done with.                    *)
LEMMA RecordCovers ==
  ASSUME PushInv, CoverInv, NEW s \in Slots, task[s].at \in {"push", "answer"},
         NEW l \in Leads, NEW word \in {"success", "failed", "dry_run"},
         Record(l, word), Become(s, Rest(s, l))
  PROVE  CoverInv'
<1>1. TaskOK(task[s]) /\ Covered(task[s], pushed)
  BY DEF PushInv, TasksOK, CoverInv, Pushing
<1> DEFINE t == Rest(s, l)
<1>2. /\ TaskOK(t) /\ t.todo = task[s].todo \ {l} /\ t.known = task[s].known
      /\ t.owed = task[s].owed /\ t.waits = task[s].waits
  BY <1>1, RestFacts
<1>3. Become(s, t)
  OBVIOUS
<1> HIDE DEF t
<1>4. /\ pushed'[l] = pushed[l] \cup {word}
      /\ \A k \in Leads : k # l => pushed'[k] = pushed[k]
  BY DEF PushInv, CrmOK, Record
<1>5. RecordsStay
  BY <1>4 DEF RecordsStay
<1>6. Covered(t, pushed')
  <2>1. \A k \in t.known : k \in Leads /\ "success" \in pushed'[k]
    BY <1>1, <1>2, <1>5 DEF Covered, RecordsStay
  <2>2. \A k \in t.owed : k \in Leads /\ (k \in t.todo \/ pushed'[k] # {})
    BY <1>1, <1>2, <1>4 DEF Covered
  <2>3. t.waits # {} => t.waits \cap t.owed # {}
    BY <1>1, <1>2 DEF Covered
  <2> QED
    BY <2>1, <2>2, <2>3 DEF Covered
<1> QED
  BY <1>2, <1>3, <1>5, <1>6, CoverKeeps

(* A step that touches neither tasks nor records.                           *)
LEMMA UntouchedCovers ==
  ASSUME CoverInv, UNCHANGED <<task, pushed>>
  PROVE  CoverInv'
BY DEF CoverInv, Pushing

(* The statements of a push.                                                *)
LEMMA PushCovers ==
  ASSUME PushInv, CoverInv, NEW s \in Slots,
         DryRun(s) \/ Post(s) \/ Answer(s) \/ AnswerLost(s) \/ AnswerThrows(s)
  PROVE  CoverInv'
<1>1. TaskOK(task[s]) /\ task[s].at \in {"push", "answer"} /\ Covered(task[s], pushed)
  BY DEF PushInv, TasksOK, DryRun, Post, Answer, AnswerLost, AnswerThrows, CoverInv, Pushing
<1>2. CASE DryRun(s)
  <2>1. PICK l \in ToPush(s) : Record(l, "dry_run") /\ Become(s, Rest(s, l))
    BY <1>2 DEF DryRun
  <2>2. l \in Leads
    BY <1>1, <2>1 DEF ToPush, TaskOK
  <2> QED
    BY <1>1, <2>1, <2>2, RecordCovers
<1>3. CASE Post(s)
  <2>1. PICK l \in ToPush(s), takes \in BOOLEAN :
          Become(s, [at |-> "answer", todo |-> task[s].todo, known |-> task[s].known,
                     owed |-> task[s].owed, waits |-> task[s].waits, lead |-> l, took |-> takes])
    BY <1>3 DEF Post
  <2> DEFINE t == [at |-> "answer", todo |-> task[s].todo, known |-> task[s].known,
                   owed |-> task[s].owed, waits |-> task[s].waits, lead |-> l, took |-> takes]
  <2>2. TaskOK(t) /\ Covered(t, pushed)
    BY <1>1, <2>1 DEF ToPush, TaskOK, Function, Covered
  <2>3. Become(s, t)
    BY <2>1
  <2>4. UNCHANGED pushed /\ RecordsStay
    BY <1>3 DEF Post, RecordsStay
  <2> HIDE DEF t
  <2> QED
    BY <2>2, <2>3, <2>4, CoverKeeps
<1>4. CASE Answer(s) \/ AnswerLost(s)
  <2>1. /\ task[s].lead \in Leads
        /\ Become(s, Rest(s, task[s].lead))
        /\ \E word \in {"success", "failed", "dry_run"} : Record(task[s].lead, word)
    BY <1>1, <1>4 DEF Answer, AnswerLost, Heard, TaskOK
  <2> QED
    BY <1>1, <2>1, RecordCovers
<1>5. CASE AnswerThrows(s)
  <2>1. Become(s, Idle) /\ RecordsStay
    BY <1>5 DEF AnswerThrows, Ends, RecordsStay
  <2>2. TaskOK(Idle) /\ Idle.at = "idle"
    BY IdleFacts, NoPushOK DEF After
  <2> QED
    BY <2>1, <2>2, CoverKeeps
<1> QED
  BY <1>2, <1>3, <1>4, <1>5

(* Every step of the desk.                                                  *)
LEMMA CoverStepKeeps == LeadAssumption /\ PushInv /\ CoverInv /\ [Next]_vars => CoverInv'
<1> SUFFICES ASSUME LeadAssumption, PushInv, CoverInv, [Next]_vars PROVE CoverInv'
  OBVIOUS
<1>1. CASE LeadNext
  <2>1. CASE \E l \in Leads : SnoozeEnds(l)
    BY <2>1, UntouchedCovers DEF SnoozeEnds, deskVars, crmVars
  <2>2. ASSUME NEW s \in Slots, LeadStep(s) PROVE CoverInv'
    BY <2>2, LeadRequestsGoOn, GoingOnCovers, PushReadsCovers, PushCovers DEF LeadStep
  <2> QED
    BY <1>1, <2>1, <2>2 DEF LeadNext
<1>2. CASE EventNext /\ UNCHANGED leadVars
  <2>1. CASE Morning \/ \E o \in Owners : OwnerComes(o)
    BY <1>2, <2>1, UntouchedCovers DEF Morning, OwnerComes, deskVars, leadVars
  <2>2. ASSUME NEW s \in Slots, EventStep(s) PROVE CoverInv'
    BY <1>2, <2>2, EventStepGoesOn, GoingOnCovers DEF leadVars
  <2> QED
    BY <1>2, <2>1, <2>2 DEF EventNext
<1>3. ASSUME NEW s \in Slots, Award(s), UNCHANGED leadVars PROVE CoverInv'
  <2>1. GoesOn(s)
    BY <1>3, IdleFacts, PlainGoesOn DEF Award, Ends
  <2> QED
    BY <1>3, <2>1, GoingOnCovers DEF leadVars
<1>4. CASE Restart
  BY <1>4, IdleFacts DEF Restart, CoverInv, Pushing
<1>5. CASE UNCHANGED vars
  BY <1>5, UntouchedCovers DEF vars, deskVars, leadVars
<1> QED
  BY <1>1, <1>2, <1>3, <1>4, <1>5 DEF Next

\* What a push that ends leaves.
EndCovers ==
  \A s \in Slots : task[s].at = "push" /\ PushEnds(s) =>
    /\ \A l \in task[s].owed : pushed[l] # {}
    /\ task[s].waits # {} => \E l \in task[s].waits : pushed[l] # {}

(* CrmSyncService: a push that nothing threw out of leaves every lead of its batch *)
(* with a record, and gets to one that waits while those pushed before cannot      *)
(* fill a batch, however many leads, pushes and failures there are.               *)
THEOREM EveryLeadOnRecord == Spec => BatchCovered
<1>1. Init => PushInv /\ CoverInv
  <2>1. Init => CoverInv
    BY IdleFacts DEF Init, DeskInit, CoverInv, Pushing
  <2> QED
    BY <2>1, PushInit
<1>2. PushInv /\ CoverInv /\ [Next]_vars => (PushInv /\ CoverInv)'
  BY PushStepKeeps, CoverStepKeeps, DeskAssumption, LeadAssumption
<1>3. PushInv /\ CoverInv => EndCovers
  <2> SUFFICES ASSUME CoverInv, NEW s \in Slots, task[s].at = "push", PushEnds(s)
               PROVE  /\ \A l \in task[s].owed : pushed[l] # {}
                      /\ task[s].waits # {} => \E l \in task[s].waits : pushed[l] # {}
    BY DEF EndCovers
  <2>1. Covered(task[s], pushed)
    BY DEF CoverInv, Pushing
  <2>2. task[s].todo \subseteq task[s].known
    BY DEF PushEnds, ToPush
  <2>3. \A l \in task[s].owed : pushed[l] # {}
    BY <2>1, <2>2 DEF Covered
  <2> QED
    BY <2>1, <2>3 DEF Covered
<1>4. EndCovers => [EndCovers]_<<deskVars, leadVars>>
  OBVIOUS
<1> QED
  BY <1>1, <1>2, <1>3, <1>4, PTL DEF Spec, BatchCovered, EndCovers

----------------------------------------------------------------------------
(* The morning briefs.                                                      *)

\* The events a brief of the morning job is still to be mailed on, and those of a
\* task, which may be a matching in the middle of that brief.
Own(t) == IF "auto" \in DOMAIN t /\ t.auto THEN {t.event} \cup t.todo ELSE {}
Left(t) == Own(t) \cup (IF "then" \in DOMAIN t THEN Own(t.then) ELSE {})

\* What tasks look like as far as briefs are concerned.
BriefSteps == {"match", "store", "brief", "rematch"}

Plain(t) ==
  /\ t.at \notin BriefSteps /\ {"auto", "then"} \cap DOMAIN t = {}
  /\ t.at = "feed" => t.todo \subseteq Events
  /\ t.at \in {"roster", "save"} => t.left \subseteq Events

IsBrief(t) ==
  /\ t.at \in {"brief", "rematch"}
  /\ {"event", "auto", "todo"} \subseteq DOMAIN t /\ "then" \notin DOMAIN t
  /\ t.event \in Events /\ t.auto \in BOOLEAN /\ t.todo \subseteq Events \ {t.event}

Whole(t) == Plain(t) \/ IsBrief(t)

ShapeOK(t) ==
  \/ Whole(t)
  \/ /\ t.at \in {"match", "store"}
     /\ "auto" \notin DOMAIN t /\ "then" \in DOMAIN t /\ Whole(t.then)

ShapesOK == \A s \in Slots : ShapeOK(task[s])

EventStatuses == {"none", "new", "approved", "hidden", "attended"}

DayOK ==
  /\ now \in Nat /\ due \in BOOLEAN /\ disturbed \in BOOLEAN
  /\ mailed \in [Events -> Nat]
  /\ status \in [Events -> EventStatuses]
  /\ starts \in [Events -> Nat]
  /\ high \in [Events -> BOOLEAN]
  /\ steady \subseteq Events
  /\ \A e \in steady : status[e] = "approved" /\ high[e]

\* No day so far was shorter than a window; none was longer.
LongDays == \A day \in days : day >= 2 * HalfWindow
ShortDays == \A day \in days : day <= 2 * HalfWindow

\* With days as long as windows: has the job of a morning in e's window begun?  Not if the
\* job of the first of them is still due.
Met(e) == IF due THEN WindowCloses(e) <= now ELSE WindowOpens(e) <= now

\* No event that has stayed where it was is mailed twice, or again, ...
AtMostOnce ==
  \A e \in Events \ moved :
    /\ mailed[e] <= 1
    /\ mailed[e] = 1 => Met(e)
    /\ \A s \in Slots : e \in Left(task[s]) => WindowOpens(e) <= now /\ mailed[e] = 0

\* ... and none that was approved in time is forgotten.
AtLeastOnce ==
  \A e \in steady : Met(e) => mailed[e] >= 1 \/ \E s \in Slots : e \in Left(task[s])

\* While no brief job has failed or been late: one runs at a time, none is due while
\* one runs, and what it has before it is still in its window or has been disturbed.
Mornings ==
  /\ \A s, r \in Briefing : s = r
  /\ due => Briefing = {}
  /\ \A s \in Slots : \A e \in Left(task[s]) :
       e \in Events /\ (e \in steady => now < WindowCloses(e))
  /\ LongDays => AtMostOnce
  /\ ShortDays => AtLeastOnce

BriefInv == ShapesOK /\ DayOK /\ (~disturbed => Mornings)

----------------------------------------------------------------------------
(* Who is briefing has events left.                                         *)
LEMMA BriefingLeft == Briefing = {s \in Slots : Left(task[s]) # {}}
BY DEF Briefing, Left, Own

(* Tasks and what they have left.                                           *)
LEMMA WholeLeft ==
  ASSUME NEW t, Whole(t)
  PROVE  ShapeOK(t) /\ Left(t) = Own(t) /\ (Plain(t) => Left(t) = {})
BY DEF Whole, ShapeOK, Plain, IsBrief, Left, Own

LEMMA IdleShape == Plain(Idle) /\ Plain(Awarding) /\ Whole(Idle)
BY DEF Idle, Awarding, Plain, BriefSteps, Whole

LEMMA PlainShape ==
  ASSUME NEW t, ShapeOK(t), t.at \notin BriefSteps
  PROVE  Plain(t) /\ Left(t) = {}
<1>1. Plain(t)
  BY DEF ShapeOK, Whole, IsBrief, BriefSteps
<1> QED
  BY <1>1, WholeLeft DEF Whole

LEMMA MatchingShape ==
  ASSUME NEW p, NEW t, Whole(t)
  PROVE  ShapeOK(Matching(p, t)) /\ Left(Matching(p, t)) = Left(t)
<1>1. Left(t) = Own(t)
  BY WholeLeft
<1>2. /\ Matching(p, t).at = "match" /\ DOMAIN Matching(p, t) = {"at", "person", "then"}
      /\ Matching(p, t).then = t
  BY DEF Matching
<1> QED
  BY <1>1, <1>2 DEF ShapeOK, Left, Own

LEMMA NextBriefShape ==
  ASSUME NEW auto \in BOOLEAN, NEW todo \in SUBSET Events
  PROVE  /\ Whole(NextBrief(auto, todo))
         /\ Left(NextBrief(auto, todo)) = IF auto THEN todo ELSE {}
<1>1. CASE todo = {}
  BY <1>1, IdleShape, WholeLeft DEF NextBrief
<1>2. CASE todo # {}
  <2> DEFINE e == CHOOSE d \in todo : TRUE
             t == Brief(e, auto, todo \ {e})
  <2>1. e \in todo
    BY <1>2
  <2>2. NextBrief(auto, todo) = t
    BY <1>2 DEF NextBrief
  <2> HIDE DEF e
  <2>3. IsBrief(t) /\ t.auto = auto /\ t.event = e /\ t.todo = todo \ {e} /\ "auto" \in DOMAIN t
    BY <2>1 DEF IsBrief, Brief
  <2> HIDE DEF t
  <2>4. Whole(t) /\ Left(t) = Own(t)
    BY <2>3, WholeLeft DEF Whole
  <2> QED
    BY <2>1, <2>2, <2>3, <2>4 DEF Own
<1> QED
  BY <1>1, <1>2

(* The rest of a feed and a roster are plain.                                *)
LEMMA RosterShape ==
  ASSUME NEW e, NEW src, NEW names, NEW left \in SUBSET Events
  PROVE  Plain(FeedOn(left)) /\ Plain(Roster(e, src, names, left))
<1>1. Plain(FeedOn(left))
  BY IdleShape DEF FeedOn, Plain, BriefSteps
<1> QED
  BY <1>1 DEF Roster, Plain, BriefSteps

(* A task that has gone on as one that has some events left.                *)
TurnsTo(s, left) == \E t : ShapeOK(t) /\ Left(t) = left /\ Become(s, t)
Kept(s) == TurnsTo(s, Left(task[s]))

LEMMA Turned ==
  ASSUME TasksOK, ShapesOK, NEW s \in Slots, NEW left, TurnsTo(s, left)
  PROVE  /\ ShapesOK' /\ Left(task'[s]) = left
         /\ \A r \in Slots : r # s => Left(task'[r]) = Left(task[r])
<1>1. PICK t : ShapeOK(t) /\ Left(t) = left /\ Become(s, t)
  BY DEF TurnsTo
<1>2. task' = [r \in Slots |-> IF r = s THEN t ELSE task[r]]
  BY <1>1 DEF TasksOK, Become
<1>3. task'[s] = t /\ \A r \in Slots : r # s => task'[r] = task[r]
  BY <1>2
<1> QED
  BY <1>1, <1>3 DEF ShapesOK

(* A plain task that goes on plainly.                                       *)
LEMMA PlainKept ==
  ASSUME NEW s \in Slots, ShapeOK(task[s]), task[s].at \notin BriefSteps,
         NEW t, Plain(t), Become(s, t)
  PROVE  Kept(s)
<1>1. Left(task[s]) = {}
  BY PlainShape
<1>2. ShapeOK(t) /\ Left(t) = {}
  BY WholeLeft DEF Whole
<1> QED
  BY <1>1, <1>2 DEF Kept, TurnsTo

(* Requests that come in begin plainly or with a brief by hand.             *)
LEMMA ArrivalsKept ==
  ASSUME NEW s \in Slots, ShapeOK(task[s]),
         \/ Sync(s)
         \/ \E e \in Events : BriefByHand(s, e)
         \/ \E e \in Events, st \in {"approved", "hidden", "attended"} : SetEventStatus(s, e, st)
         \/ \E names \in SUBSET Names \ {{}}, src \in Sources, e \in Events \cup {"none"} :
              Paste(s, names, src, e)
         \/ \E p \in People, o \in Owners, word \in {"yes", "no"} : SetConfirmation(s, p, o, word)
         \/ \E e \in Events, p \in People : MarkMet(s, e, p)
  PROVE  Kept(s)
<1>1. task[s] = Idle
  BY DEF Arrives, Sync, BriefByHand, SetEventStatus, Paste, SetConfirmation, MarkMet
<1>2. task[s].at \notin BriefSteps /\ Left(task[s]) = {}
  BY <1>1, IdleShape, WholeLeft DEF Plain
<1>3. CASE Sync(s)
  BY <1>2, <1>3, RosterShape, PlainKept DEF Sync
<1>4. CASE \E e \in Events : BriefByHand(s, e)
  <2>1. PICK e \in Events : Become(s, Brief(e, FALSE, {}))
    BY <1>4 DEF BriefByHand
  <2> DEFINE t == Brief(e, FALSE, {})
  <2>2. IsBrief(t) /\ ~t.auto
    BY DEF Brief, IsBrief
  <2>3. Become(s, t)
    BY <2>1
  <2> HIDE DEF t
  <2>4. ShapeOK(t) /\ Left(t) = {}
    BY <2>2, WholeLeft DEF Whole, Own
  <2> QED
    BY <1>2, <2>3, <2>4 DEF Kept, TurnsTo
<1>5. CASE \E names \in SUBSET Names \ {{}}, src \in Sources, e \in Events \cup {"none"} :
             Paste(s, names, src, e)
  BY <1>2, <1>5, RosterShape, PlainKept DEF Paste
<1>6. CASE Become(s, Idle) \/ Become(s, Awarding)
  BY <1>2, <1>6, IdleShape, PlainKept
<1> QED
  BY <1>3, <1>4, <1>5, <1>6 DEF SetEventStatus, SetConfirmation, MarkMet, Ends

(* Storing the events of a feed, and looking for the people of a roster.      *)
LEMMA FeedKept ==
  ASSUME NEW s \in Slots, ShapeOK(task[s]), Feed(s) \/ FindPerson(s)
  PROVE  Kept(s)
<1>1. task[s].at \notin BriefSteps /\ Plain(task[s])
  BY PlainShape DEF Feed, FindPerson, BriefSteps
<1>2. CASE Feed(s)
  <2>1. PICK e, src, names : Become(s, Roster(e, src, names, task[s].todo \ {e}))
    BY <1>2 DEF Feed
  <2>2. task[s].todo \ {e} \in SUBSET Events
    BY <1>1, <1>2 DEF Feed, Plain
  <2> QED
    BY <1>1, <2>1, <2>2, RosterShape, PlainKept
<1>3. CASE FindPerson(s)
  <2> DEFINE left == task[s].left
  <2>1. PICK key, p, e, names :
          Become(s, [at |-> "save", key |-> key, found |-> p, event |-> e, names |-> names, left |-> left])
    BY <1>3 DEF FindPerson
  <2>2. Plain([at |-> "save", key |-> key, found |-> p, event |-> e, names |-> names, left |-> left])
    BY <1>1, <1>3 DEF FindPerson, Plain, BriefSteps
  <2> QED
    BY <1>1, <2>1, <2>2, PlainKept
<1> QED
  BY <1>2, <1>3

(* What fails was no brief of the morning job.                              *)
LEMMA FailureKept ==
  ASSUME NEW s \in Slots, ShapeOK(task[s]), StatementFails(s)
  PROVE  Kept(s)
<1>1. Left(task[s]) = {} /\ Become(s, Idle)
  BY BriefingLeft DEF StatementFails, Ends
<1> QED
  BY <1>1, IdleShape, WholeLeft DEF Kept, TurnsTo

(* A matching holds on to the brief it was begun for.                       *)
LEMMA MatchingKept ==
  ASSUME NEW s \in Slots, TaskOK(task[s]), ShapeOK(task[s]),
         SavePerson(s) \/ MatchReads(s) \/ MatchStores(s) \/ MatchEnds(s)
  PROVE  Kept(s)
<1>1. CASE SavePerson(s)
  <2> DEFINE left == task[s].left
  <2>1. PICK p, e, src, names : Become(s, Matching(p, Roster(e, src, names, left)))
    BY <1>1 DEF SavePerson
  <2>b. left \in SUBSET Events
    BY <1>1, PlainShape DEF SavePerson, Plain, BriefSteps
  <2> DEFINE then == Roster(e, src, names, left)
  <2>a. Whole(then) /\ Left(then) = {}
    BY <2>b, RosterShape, WholeLeft DEF Whole
  <2>2. ShapeOK(Matching(p, then)) /\ Left(Matching(p, then)) = {}
    BY <2>a, MatchingShape
  <2>3. Left(task[s]) = {}
    BY <1>1, PlainShape DEF SavePerson, BriefSteps
  <2> QED
    BY <2>1, <2>2, <2>3 DEF Kept, TurnsTo
<1>2. ASSUME task[s].at \in {"match", "store"}
      PROVE  /\ "auto" \notin DOMAIN task[s] /\ "then" \in DOMAIN task[s]
             /\ Whole(task[s].then) /\ Left(task[s]) = Left(task[s].then)
  <2>1. "auto" \notin DOMAIN task[s] /\ "then" \in DOMAIN task[s] /\ Whole(task[s].then)
    BY <1>2 DEF ShapeOK, Whole, Plain, IsBrief, BriefSteps
  <2>2. Left(task[s]) = Own(task[s].then)
    BY <2>1 DEF Left, Own
  <2> QED
    BY <2>1, <2>2, WholeLeft
<1>3. CASE MatchReads(s)
  <2> DEFINE t == [at |-> "store", person |-> task[s].person, todo |-> Candidates(task[s].person),
                   then |-> task[s].then]
  <2>1. task[s].at = "match" /\ Become(s, t)
    BY <1>3 DEF MatchReads
  <2>2. DOMAIN t = {"at", "person", "todo", "then"} /\ t.at = "store" /\ t.then = task[s].then
    OBVIOUS
  <2> HIDE DEF t
  <2>3. Whole(task[s].then) /\ Left(task[s]) = Left(task[s].then)
    BY <1>2, <2>1
  <2>4. Left(t) = Own(task[s].then)
    BY <2>2 DEF Left, Own
  <2>5. ShapeOK(t) /\ Left(t) = Left(task[s])
    BY <2>2, <2>3, <2>4, WholeLeft DEF ShapeOK
  <2> QED
    BY <2>1, <2>5 DEF Kept, TurnsTo
<1>4. CASE MatchStores(s)
  <2>1. task[s].at = "store"
    BY <1>4 DEF MatchStores
  <2>2. PICK i \in DOMAIN Tiers, o \in Owners : Become(s, [task[s] EXCEPT !.todo[i] = @ \ {o}])
    BY <1>4 DEF MatchStores
  <2> DEFINE left == [task[s].todo EXCEPT ![i] = @ \ {o}]
             t == [task[s] EXCEPT !["todo"] = left]
  <2>3. Become(s, t)
    BY <2>2, Zenon
  <2> HIDE DEF left
  <2>4. DOMAIN t = DOMAIN task[s] /\ t.at = "store"
    BY <2>1, UpdateFacts DEF TaskOK
  <2>5. "then" \in DOMAIN task[s] => t["then"] = task[s]["then"]
    BY UpdateFacts DEF TaskOK
  <2> HIDE DEF t
  <2>6. /\ "auto" \notin DOMAIN t /\ "then" \in DOMAIN t /\ Whole(t.then)
        /\ t.then = task[s].then /\ Left(task[s]) = Left(task[s].then)
    BY <1>2, <2>1, <2>4, <2>5
  <2>7. Left(t) = Own(t.then)
    BY <2>6 DEF Left, Own
  <2>8. ShapeOK(t) /\ Left(t) = Left(task[s])
    BY <2>4, <2>6, <2>7, WholeLeft DEF ShapeOK
  <2> QED
    BY <2>3, <2>8 DEF Kept, TurnsTo
<1>5. CASE MatchEnds(s)
  <2>1. task[s].at = "store" /\ Become(s, task[s].then)
    BY <1>5 DEF MatchEnds
  <2>2. Whole(task[s].then) /\ Left(task[s]) = Left(task[s].then)
    BY <1>2, <2>1
  <2> QED
    BY <2>1, <2>2, WholeLeft DEF Kept, TurnsTo
<1> QED
  BY <1>1, <1>3, <1>4, <1>5

(* A brief holds on to its event while it matches the event's people.       *)
LEMMA BriefKept ==
  ASSUME NEW s \in Slots, TaskOK(task[s]), ShapeOK(task[s]), BriefReads(s) \/ BriefMatches(s)
  PROVE  Kept(s)
<1>1. task[s].at \in {"brief", "rematch"} /\ IsBrief(task[s])
  BY DEF BriefReads, BriefMatches, ShapeOK, Whole, Plain, BriefSteps
<1>2. Left(task[s]) = Own(task[s])
  BY <1>1, WholeLeft DEF Whole
<1>3. CASE BriefReads(s)
  <2> DEFINE t == [at |-> "rematch", event |-> task[s].event, people |-> Unmatched(task[s].event),
                   auto |-> task[s].auto, todo |-> task[s].todo]
  <2>1. Become(s, t)
    BY <1>3 DEF BriefReads
  <2>2. /\ DOMAIN t = {"at", "event", "people", "auto", "todo"} /\ t.at = "rematch"
        /\ t.event = task[s].event /\ t.auto = task[s].auto /\ t.todo = task[s].todo
    OBVIOUS
  <2> HIDE DEF t
  <2>3. IsBrief(t) /\ Own(t) = Own(task[s])
    BY <1>1, <2>2 DEF IsBrief, Own
  <2> QED
    BY <1>2, <2>1, <2>3, WholeLeft DEF Whole, Kept, TurnsTo
<1>4. CASE BriefMatches(s)
  <2>1. PICK p \in task[s].people : Become(s, Matching(p, [task[s] EXCEPT !.people = @ \ {p}]))
    BY <1>4 DEF BriefMatches
  <2> DEFINE left == task[s].people \ {p}
             u == [task[s] EXCEPT !["people"] = left]
  <2>2. Become(s, Matching(p, u))
    BY <2>1
  <2>3. /\ DOMAIN u = DOMAIN task[s] /\ u.at = task[s].at
        /\ \A y \in DOMAIN task[s] : y # "people" => u[y] = task[s][y]
    BY UpdateFacts DEF TaskOK
  <2> HIDE DEF u
  <2>4. u.event = task[s].event /\ u.auto = task[s].auto /\ u.todo = task[s].todo
    BY <1>1, <2>3 DEF IsBrief
  <2>5. IsBrief(u) /\ Own(u) = Own(task[s])
    BY <1>1, <2>3, <2>4 DEF IsBrief, Own
  <2>6. ShapeOK(Matching(p, u)) /\ Left(Matching(p, u)) = Own(u)
    BY <2>5, MatchingShape, WholeLeft DEF Whole
  <2> QED
    BY <1>2, <2>2, <2>5, <2>6 DEF Kept, TurnsTo
<1> QED
  BY <1>3, <1>4

(* Requests about leads are plain.                                          *)
LEMMA LeadStepsKept ==
  ASSUME NEW s \in Slots, TaskOK(task[s]), ShapeOK(task[s]), LeadStep(s)
  PROVE  Kept(s)
<1>1. task[s].at \notin BriefSteps
  BY IdleFacts
     DEF LeadStep, Arrives, CreateLook, DigestFiles, CreateInsert, SetStatus, LogOutcome, Snooze,
         FileNote, PushReads, DryRun, DryRunThrows, Post, Answer, AnswerLost, AnswerThrows, PushEnds, BriefSteps
<1>2. CASE \E p \in Parcels : CreateLook(s, p)
  <2>1. PICK p : Become(s, IF OpenLeads(p) # {} THEN Idle ELSE [at |-> "create", parcel |-> p])
    BY <1>2 DEF CreateLook
  <2>2. Plain([at |-> "create", parcel |-> p])
    BY DEF Plain, BriefSteps
  <2> QED
    BY <1>1, <2>1, <2>2, IdleShape, PlainKept
<1>3. CASE PushReads(s)
  <2>1. PICK todo, known, owed, waits :
          Become(s, [at |-> "push", todo |-> todo, known |-> known, owed |-> owed, waits |-> waits])
    BY <1>3 DEF PushReads
  <2>2. Plain([at |-> "push", todo |-> todo, known |-> known, owed |-> owed, waits |-> waits])
    BY DEF Plain, BriefSteps
  <2> QED
    BY <1>1, <2>1, <2>2, PlainKept
<1>4. CASE DryRun(s) \/ Answer(s) \/ AnswerLost(s)
  <2>1. PICK l : Become(s, Rest(s, l)) /\ task[s].at \in {"push", "answer"}
    BY <1>4 DEF DryRun, Answer, AnswerLost, Heard
  <2>2. TaskOK(Rest(s, l)) /\ Rest(s, l).at = "push"
    BY <2>1, RestFacts
  <2>3. Plain(Rest(s, l))
    BY <2>2 DEF TaskOK, Plain, BriefSteps
  <2> QED
    BY <1>1, <2>1, <2>3, PlainKept
<1>5. CASE Post(s)
  <2>1. PICK l, takes :
          Become(s, [at |-> "answer", todo |-> task[s].todo, known |-> task[s].known,
                     owed |-> task[s].owed, waits |-> task[s].waits, lead |-> l, took |-> takes])
    BY <1>5 DEF Post
  <2>2. Plain([at |-> "answer", todo |-> task[s].todo, known |-> task[s].known,
               owed |-> task[s].owed, waits |-> task[s].waits, lead |-> l, took |-> takes])
    BY DEF Plain, BriefSteps
  <2> QED
    BY <1>1, <2>1, <2>2, PlainKept
<1>6. CASE Become(s, Idle) \/ Become(s, Awarding)
  BY <1>1, <1>6, IdleShape, PlainKept
<1> QED
  BY <1>2, <1>3, <1>4, <1>5, <1>6
     DEF LeadStep, DigestFiles, CreateInsert, SetStatus, LogOutcome, Snooze, FileNote, PushEnds,
         DryRunThrows, AnswerThrows, Ends

(* Windows as runs see them: a morning is in the window of an event from its   *)
(* opening until, two half windows later, its closing.                       *)
LEMMA WindowFacts ==
  ASSUME EventAssumption, DayOK, NEW e \in Events
  PROVE  /\ WindowOpens(e) \in Int /\ WindowCloses(e) = WindowOpens(e) + 2 * HalfWindow
         /\ HalfWindow \in Nat \ {0} /\ WindowOpens(e) < WindowCloses(e)
         /\ InWindow(e) <=> WindowOpens(e) <= now /\ now < WindowCloses(e)
<1>1. starts[e] \in Nat /\ Ahead \in Nat /\ HalfWindow \in Nat \ {0} /\ now \in Nat
  BY DEF EventAssumption, DayOK
<1> QED
  BY <1>1 DEF WindowOpens, OpensFor, WindowCloses, InWindow

(* Who is briefing, after a step.                                           *)
LEMMA BriefingLeftNext == Briefing' = {s \in Slots : Left(task'[s]) # {}}
BY DEF Briefing, Left, Own

\* A step that leaves the briefs alone, and rows too or all but that of one event.
Quiet ==
  /\ UNCHANGED <<now, days, due, mailed, disturbed>>
  /\ \/ UNCHANGED <<rowVars, steady, moved>>
     \/ \E e \in Events, st \in EventStatuses, dense \in BOOLEAN, start \in Nat : Write(e, st, dense, start)

\* What writing the row of e leaves of the others.
OthersAlone(e) ==
  /\ \A d \in Events : d # e =>
       /\ status'[d] = status[d] /\ starts'[d] = starts[d] /\ high'[d] = high[d]
  /\ \A d : d # e => (d \in steady' <=> d \in steady) /\ (d \in moved' <=> d \in moved)

(* What a written row is, and what comes of its event.                       *)
LEMMA WriteFacts ==
  ASSUME DayOK, NEW e \in Events, NEW st \in EventStatuses, NEW dense \in BOOLEAN, NEW start \in Nat,
         Write(e, st, dense, start)
  PROVE  /\ status' \in [Events -> EventStatuses] /\ starts' \in [Events -> Nat]
         /\ high' \in [Events -> BOOLEAN] /\ steady' \subseteq Events
         /\ status'[e] = st /\ starts'[e] = start /\ high'[e] = dense
         /\ OthersAlone(e)
         /\ e \in steady' => /\ st = "approved" /\ dense
                             /\ now < OpensFor(start) \/ (e \in steady /\ start = starts[e])
         /\ e \notin moved' => e \notin moved /\ (start = starts[e] \/ ~(now >= WindowOpens(e)))
<1>1. /\ status' = [status EXCEPT ![e] = st]
      /\ high' = [high EXCEPT ![e] = dense]
      /\ starts' = [starts EXCEPT ![e] = start]
  BY DEF Write
<1>2. /\ status' \in [Events -> EventStatuses] /\ starts' \in [Events -> Nat]
      /\ high' \in [Events -> BOOLEAN]
      /\ status'[e] = st /\ starts'[e] = start /\ high'[e] = dense
      /\ \A d \in Events : d # e =>
           /\ status'[d] = status[d] /\ starts'[d] = starts[d] /\ high'[d] = high[d]
  BY <1>1 DEF DayOK
<1>3. /\ steady' \subseteq Events
      /\ \A d : d # e => (d \in steady' <=> d \in steady)
      /\ e \in steady' => Standing(e, st, dense, start)
  BY DEF Write, DayOK
<1>4. /\ \A d : d # e => (d \in moved' <=> d \in moved)
      /\ e \notin moved' => e \notin moved /\ (start = starts[e] \/ ~(now >= WindowOpens(e)))
  BY DEF Write
<1> QED
  BY <1>2, <1>3, <1>4 DEF OthersAlone, Standing

(* A row written leaves the day as it should be.                             *)
LEMMA QuietDay ==
  ASSUME DayOK, Quiet
  PROVE  DayOK'
<1>1. CASE UNCHANGED <<rowVars, steady, moved>>
  BY <1>1 DEF Quiet, DayOK, rowVars
<1>2. ASSUME NEW e \in Events, NEW st \in EventStatuses, NEW dense \in BOOLEAN, NEW start \in Nat,
             Write(e, st, dense, start)
      PROVE  DayOK'
  <2>1. \A d \in steady' : status'[d] = "approved" /\ high'[d]
    BY <1>2, WriteFacts DEF DayOK, OthersAlone
  <2> QED
    BY <1>2, <2>1, WriteFacts DEF Quiet, DayOK
<1> QED
  BY <1>1, <1>2 DEF Quiet

(* An event whose row has not been written keeps what its row says of windows. *)
LEMMA SameWindow ==
  ASSUME NEW e, starts'[e] = starts[e], UNCHANGED <<now, due>>
  PROVE  /\ WindowOpens(e)' = WindowOpens(e) /\ WindowCloses(e)' = WindowCloses(e)
         /\ Met(e)' = Met(e)
BY DEF WindowOpens, OpensFor, WindowCloses, Met

(* The mornings, when a row is written.                                      *)
LEMMA WriteMornings ==
  ASSUME EventAssumption, DayOK, Mornings, UNCHANGED <<now, days, due, mailed>>,
         \A r \in Slots : Left(task'[r]) = Left(task[r]),
         NEW e \in Events, NEW st \in EventStatuses, NEW dense \in BOOLEAN, NEW start \in Nat,
         Write(e, st, dense, start), DayOK'
  PROVE  Mornings'
<1>1. Briefing' = Briefing
  BY BriefingLeft, BriefingLeftNext
<1>2. OthersAlone(e) /\ starts'[e] = start
  BY WriteFacts
<1>3. \A d \in Events : d # e =>
        /\ WindowOpens(d)' = WindowOpens(d) /\ WindowCloses(d)' = WindowCloses(d) /\ Met(d)' = Met(d)
  BY <1>2, SameWindow DEF OthersAlone
<1>4. start = starts[e] =>
        /\ WindowOpens(e)' = WindowOpens(e) /\ WindowCloses(e)' = WindowCloses(e) /\ Met(e)' = Met(e)
  BY <1>2, SameWindow
<1>5. /\ WindowOpens(e)' = OpensFor(start) /\ WindowOpens(e)' \in Int
      /\ WindowCloses(e)' = WindowOpens(e)' + 2 * HalfWindow
      /\ WindowOpens(e) \in Int /\ WindowCloses(e) = WindowOpens(e) + 2 * HalfWindow
      /\ HalfWindow \in Nat \ {0} /\ now \in Nat
  <2>1. /\ starts'[e] \in Nat /\ starts[e] \in Nat /\ Ahead \in Nat
        /\ HalfWindow \in Nat \ {0} /\ now \in Nat
    BY DEF EventAssumption, DayOK
  <2> QED
    BY <1>2, <2>1 DEF WindowOpens, OpensFor, WindowCloses
<1>6. e \in steady' => now < WindowOpens(e)' \/ (e \in steady /\ start = starts[e])
  BY <1>5, WriteFacts
<1>7. e \notin moved' => e \notin moved /\ (start = starts[e] \/ now < WindowOpens(e))
  <2>1. e \notin moved' => e \notin moved /\ (start = starts[e] \/ ~(now >= WindowOpens(e)))
    BY WriteFacts
  <2> QED
    BY <1>5, <2>1
<1>8. ASSUME NEW s \in Slots, NEW d \in Left(task'[s])
      PROVE  d \in Events /\ (d \in steady' => now' < WindowCloses(d)')
  <2>1. d \in Events /\ (d \in steady => now < WindowCloses(d))
    BY <1>8 DEF Mornings
  <2>2. CASE d = e
    BY <1>4, <1>5, <1>6, <2>1, <2>2
  <2>3. CASE d # e
    BY <1>2, <1>3, <2>1, <2>3 DEF OthersAlone
  <2> QED
    BY <2>2, <2>3
<1>9. ASSUME LongDays' PROVE AtMostOnce'
  <2>1. AtMostOnce
    BY <1>9 DEF LongDays, Mornings
  <2> SUFFICES ASSUME NEW d \in Events, d \notin moved'
               PROVE  /\ mailed[d] <= 1
                      /\ mailed[d] = 1 => Met(d)'
                      /\ \A s \in Slots : d \in Left(task[s]) => WindowOpens(d)' <= now /\ mailed[d] = 0
    BY DEF AtMostOnce
  <2>2. CASE d # e \/ start = starts[e]
    <3>1. d \notin moved /\ WindowOpens(d)' = WindowOpens(d) /\ Met(d)' = Met(d)
      BY <1>2, <1>3, <1>4, <1>7, <2>2 DEF OthersAlone
    <3> QED
      BY <2>1, <3>1 DEF AtMostOnce
  <2>3. CASE d = e /\ now < WindowOpens(e)
    <3>1. e \notin moved
      BY <1>7, <2>3
    <3>2. ~Met(e)
      BY <1>5, <2>3 DEF Met
    <3>3. mailed[e] <= 1 /\ mailed[e] # 1
      BY <2>1, <3>1, <3>2 DEF AtMostOnce
    <3>4. \A s \in Slots : e \notin Left(task[s])
      BY <1>5, <2>1, <2>3, <3>1 DEF AtMostOnce
    <3> QED
      BY <2>3, <3>3, <3>4
  <2> QED
    BY <1>7, <2>2, <2>3
<1>10. ASSUME ShortDays' PROVE AtLeastOnce'
  <2>1. AtLeastOnce
    BY <1>10 DEF ShortDays, Mornings
  <2> SUFFICES ASSUME NEW d \in steady', Met(d)'
               PROVE  mailed[d] >= 1 \/ \E s \in Slots : d \in Left(task[s])
    BY DEF AtLeastOnce
  <2>2. d \in Events
    BY DEF DayOK
  <2>3. CASE d = e
    <3>1. ~(now < WindowOpens(e)')
      BY <1>5, <2>3 DEF Met
    <3> QED
      BY <1>4, <1>6, <2>1, <2>3, <3>1 DEF AtLeastOnce
  <2>4. CASE d # e
    BY <1>2, <1>3, <2>1, <2>2, <2>4 DEF AtLeastOnce, OthersAlone
  <2> QED
    BY <2>3, <2>4
<1>11. (\A s, r \in Briefing' : s = r) /\ (due' => Briefing' = {})
  BY <1>1 DEF Mornings
<1> QED
  BY <1>8, <1>9, <1>10, <1>11 DEF Mornings

(* Steps of a slot that leave briefs alone.                                  *)
LEMMA QuietKeeps ==
  ASSUME EventAssumption, TasksOK, BriefInv, NEW s \in Slots, Kept(s), Quiet
  PROVE  BriefInv'
<1>1. ShapesOK' /\ \A r \in Slots : Left(task'[r]) = Left(task[r])
  <2>1. ShapesOK' /\ Left(task'[s]) = Left(task[s])
        /\ \A r \in Slots : r # s => Left(task'[r]) = Left(task[r])
    BY Turned DEF Kept, BriefInv
  <2> QED
    BY <2>1
<1>2. DayOK /\ DayOK'
  BY QuietDay DEF BriefInv
<1>3. ASSUME ~disturbed' PROVE Mornings'
  <2>1. Mornings /\ UNCHANGED <<now, days, due, mailed>>
    BY <1>3 DEF BriefInv, Quiet
  <2>2. CASE UNCHANGED <<rowVars, steady, moved>>
    <3>1. Briefing' = Briefing
      BY <1>1, BriefingLeft, BriefingLeftNext
    <3>2. /\ \A e : WindowOpens(e)' = WindowOpens(e) /\ WindowCloses(e)' = WindowCloses(e) /\ Met(e)' = Met(e)
          /\ UNCHANGED <<starts, steady, moved>>
      BY <2>1, <2>2, SameWindow DEF rowVars
    <3>3. /\ LongDays' => AtMostOnce'
          /\ ShortDays' => AtLeastOnce'
      BY <1>1, <2>1, <3>2 DEF Mornings, LongDays, ShortDays, AtMostOnce, AtLeastOnce
    <3> QED
      BY <1>1, <2>1, <3>1, <3>2, <3>3 DEF Mornings
  <2>3. ASSUME NEW e \in Events, NEW st \in EventStatuses, NEW dense \in BOOLEAN, NEW start \in Nat,
               Write(e, st, dense, start)
        PROVE  Mornings'
    BY <1>1, <1>2, <2>1, <2>3, WriteMornings
  <2> QED
    BY <2>2, <2>3 DEF Quiet
<1> QED
  BY <1>1, <1>2, <1>3 DEF BriefInv

(* The morning job reads the events of its window.                          *)
LEMMA MorningBriefsKeep ==
  ASSUME EventAssumption, TasksOK, BriefInv, NEW s \in Slots, MorningBriefs(s)
  PROVE  BriefInv'
<1>1. PICK todo \in SUBSET Upcoming :
        /\ Become(s, NextBrief(TRUE, todo))
        /\ disturbed' = (disturbed \/ todo # Upcoming)
  BY DEF MorningBriefs
<1>a. /\ due /\ Briefing = {} /\ due' = FALSE
      /\ UNCHANGED <<rowVars, now, days, mailed, steady, moved>>
  BY DEF MorningBriefs
<1>b. /\ \A e \in todo : e \in Events /\ InWindow(e)
      /\ disturbed' \in BOOLEAN
      /\ ~disturbed' => ~disturbed /\ todo = Upcoming
  BY <1>1 DEF Upcoming
<1>2. TurnsTo(s, todo)
  <2>1. todo \in SUBSET Events
    BY <1>b
  <2>2. Whole(NextBrief(TRUE, todo)) /\ Left(NextBrief(TRUE, todo)) = todo
    BY <2>1, NextBriefShape
  <2> QED
    BY <1>1, <2>2, WholeLeft DEF TurnsTo
<1>3. /\ ShapesOK' /\ Left(task'[s]) = todo
      /\ \A r \in Slots : r # s => Left(task'[r]) = Left(task[r])
  BY <1>2, Turned DEF BriefInv
<1>4. DayOK /\ DayOK'
  BY <1>a, <1>b DEF BriefInv, DayOK, rowVars
<1>5. ASSUME ~disturbed' PROVE Mornings'
  <2>1. Mornings
    BY <1>b, <1>5 DEF BriefInv
  <2>2. \A r \in Slots : Left(task[r]) = {}
    BY <1>a, BriefingLeft
  <2>3. Briefing' \subseteq {s}
    BY <1>3, <2>2, BriefingLeftNext
  <2>4. \A e \in Events :
          /\ WindowOpens(e)' = WindowOpens(e) /\ WindowCloses(e)' = WindowCloses(e)
          /\ (Met(e) <=> WindowCloses(e) <= now) /\ (Met(e)' <=> WindowOpens(e) <= now)
          /\ WindowOpens(e) \in Int /\ WindowCloses(e) \in Int /\ now \in Nat
          /\ WindowOpens(e) < WindowCloses(e)
          /\ InWindow(e) <=> WindowOpens(e) <= now /\ now < WindowCloses(e)
    BY <1>a, <1>4, WindowFacts DEF WindowOpens, OpensFor, WindowCloses, Met, rowVars, EventAssumption, DayOK
  <2>5. \A r \in Slots : \A e \in Left(task'[r]) :
          e \in Events /\ (e \in steady' => now' < WindowCloses(e)')
    BY <1>a, <1>b, <1>3, <2>2, <2>4
  <2>6. ASSUME LongDays' PROVE AtMostOnce'
    <3>1. AtMostOnce
      BY <1>a, <2>1, <2>6 DEF LongDays, Mornings
    <3> SUFFICES ASSUME NEW e \in Events, e \notin moved
                 PROVE  /\ mailed[e] <= 1
                        /\ mailed[e] = 1 => Met(e)'
                        /\ \A r \in Slots : e \in Left(task'[r]) => WindowOpens(e) <= now /\ mailed[e] = 0
      BY <1>a, <2>4 DEF AtMostOnce
    <3>b. mailed[e] \in Nat /\ mailed[e] <= 1 /\ (mailed[e] = 1 => Met(e))
      BY <1>4, <3>1 DEF AtMostOnce, DayOK
    <3>2. ASSUME e \in todo PROVE WindowOpens(e) <= now /\ mailed[e] = 0
      <4>1. InWindow(e) /\ ~Met(e)
        BY <1>b, <2>4, <3>2
      <4> QED
        BY <2>4, <3>b, <4>1
    <3>3. Met(e) => Met(e)'
      BY <2>4
    <3>4. \A r \in Slots : e \in Left(task'[r]) => e \in todo
      BY <1>3, <2>2
    <3> QED
      BY <3>b, <3>2, <3>3, <3>4
  <2>7. ASSUME ShortDays' PROVE AtLeastOnce'
    <3>1. AtLeastOnce
      BY <1>a, <2>1, <2>7 DEF ShortDays, Mornings
    <3> SUFFICES ASSUME NEW e \in steady, WindowOpens(e) <= now PROVE mailed[e] >= 1 \/ e \in todo
      BY <1>a, <1>3, <1>4, <2>4 DEF AtLeastOnce, DayOK
    <3>2. e \in Events /\ status[e] = "approved" /\ high[e]
      BY <1>4 DEF DayOK
    <3>3. CASE WindowCloses(e) <= now
      BY <2>2, <2>4, <3>1, <3>2, <3>3 DEF AtLeastOnce
    <3>4. CASE ~(WindowCloses(e) <= now)
      <4>1. InWindow(e)
        BY <2>4, <3>2, <3>4
      <4> QED
        BY <1>5, <1>b, <3>2, <4>1 DEF Upcoming
    <3> QED
      BY <3>3, <3>4
  <2>8. (\A r, q \in Briefing' : r = q) /\ (due' => Briefing' = {})
    BY <1>a, <2>3
  <2> QED
    BY <2>5, <2>6, <2>7, <2>8 DEF Mornings
<1> QED
  BY <1>3, <1>4, <1>5 DEF BriefInv

(* A brief is stored and mailed.                                            *)
LEMMA BriefWritesKeeps ==
  ASSUME EventAssumption, TasksOK, BriefInv, NEW s \in Slots, BriefWrites(s)
  PROVE  BriefInv'
<1> DEFINE event == task[s].event
           todo == task[s].todo
<1>1. /\ task[s].at = "rematch"
      /\ mailed' = IF task[s].auto THEN [mailed EXCEPT ![event] = @ + 1] ELSE mailed
      /\ Become(s, NextBrief(task[s].auto, todo))
      /\ UNCHANGED <<rowVars, now, days, due, steady, moved, disturbed>>
  BY DEF BriefWrites
<1>2. IsBrief(task[s])
  BY <1>1 DEF BriefInv, ShapesOK, ShapeOK, Whole, Plain, BriefSteps
<1>3. /\ event \in Events /\ todo \subseteq Events \ {event} /\ task[s].auto \in BOOLEAN
      /\ Left(task[s]) = IF task[s].auto THEN {event} \cup todo ELSE {}
  BY <1>2, WholeLeft DEF IsBrief, Whole, Own
<1>4. Whole(NextBrief(task[s].auto, todo))
      /\ Left(NextBrief(task[s].auto, todo)) = IF task[s].auto THEN todo ELSE {}
  BY <1>3, NextBriefShape
<1>5. CASE ~task[s].auto
  <2>1. Kept(s) /\ mailed' = mailed
    BY <1>1, <1>3, <1>4, <1>5, WholeLeft DEF Kept, TurnsTo
  <2>2. Quiet
    BY <1>1, <2>1 DEF Quiet
  <2> QED
    BY <2>1, <2>2, QuietKeeps
<1>6. CASE task[s].auto
  <2>1. TurnsTo(s, todo)
    BY <1>1, <1>4, <1>6, WholeLeft DEF TurnsTo
  <2>2. /\ ShapesOK' /\ Left(task'[s]) = todo
        /\ \A r \in Slots : r # s => Left(task'[r]) = Left(task[r])
    BY <2>1, Turned DEF BriefInv
  <2>3. /\ mailed' \in [Events -> Nat] /\ mailed \in [Events -> Nat]
        /\ mailed'[event] = mailed[event] + 1
        /\ \A e \in Events : e # event => mailed'[e] = mailed[e]
    BY <1>1, <1>3, <1>6 DEF BriefInv, DayOK
  <2>4. DayOK /\ DayOK'
    BY <1>1, <2>3 DEF BriefInv, DayOK, rowVars
  <2>5. ASSUME ~disturbed' PROVE Mornings'
    <3>1. Mornings
      BY <1>1, <2>5 DEF BriefInv
    <3>2. s \in Briefing /\ event \in Left(task[s]) /\ \A e \in todo : e \in Left(task[s])
      BY <1>3, <1>6, BriefingLeft
    <3>3. Briefing = {s} /\ ~due
      BY <3>1, <3>2 DEF Mornings
    <3>4. \A r \in Slots : r # s => Left(task[r]) = {}
      BY <3>3, BriefingLeft
    <3>5. Briefing' \subseteq {s}
      BY <2>2, <3>4, BriefingLeftNext
    <3>6. \A e : WindowOpens(e)' = WindowOpens(e) /\ WindowCloses(e)' = WindowCloses(e) /\ Met(e)' = Met(e)
      BY <1>1, SameWindow DEF rowVars
    <3>7. \A r \in Slots : \A e \in Left(task'[r]) :
            e \in Events /\ (e \in steady' => now' < WindowCloses(e)')
      <4> SUFFICES ASSUME NEW e \in todo PROVE e \in Events /\ (e \in steady => now < WindowCloses(e))
        BY <1>1, <2>2, <3>4, <3>6
      <4> QED
        BY <3>1, <3>2 DEF Mornings
    <3>8. ASSUME LongDays' PROVE AtMostOnce'
      <4>1. AtMostOnce
        BY <1>1, <3>1, <3>8 DEF LongDays, Mornings
      <4> SUFFICES ASSUME NEW e \in Events, e \notin moved
                   PROVE  /\ mailed'[e] <= 1
                          /\ mailed'[e] = 1 => Met(e)
                          /\ \A r \in Slots : e \in Left(task'[r]) => WindowOpens(e) <= now /\ mailed'[e] = 0
        BY <1>1, <3>6 DEF AtMostOnce
      <4>2. CASE e = event
        <5>1. WindowOpens(e) <= now /\ mailed[e] = 0
          BY <3>2, <4>1, <4>2 DEF AtMostOnce
        <5>2. mailed'[e] = 1
          BY <2>3, <4>2, <5>1
        <5>3. Met(e) /\ \A r \in Slots : e \notin Left(task'[r])
          BY <1>3, <2>2, <3>3, <3>4, <4>2, <5>1 DEF Met
        <5> QED
          BY <5>2, <5>3
      <4>3. CASE e # event
        <5>1. /\ mailed'[e] = mailed[e] /\ mailed[e] <= 1 /\ (mailed[e] = 1 => Met(e))
              /\ e \in Left(task[s]) => WindowOpens(e) <= now /\ mailed[e] = 0
          BY <2>3, <4>1, <4>3 DEF AtMostOnce
        <5>2. \A r \in Slots : e \in Left(task'[r]) => e \in Left(task[s])
          BY <2>2, <3>2, <3>4
        <5> QED
          BY <5>1, <5>2
      <4> QED
        BY <4>2, <4>3
    <3>9. ASSUME ShortDays' PROVE AtLeastOnce'
      <4>1. AtLeastOnce
        BY <1>1, <3>1, <3>9 DEF ShortDays, Mornings
      <4> SUFFICES ASSUME NEW e \in steady, Met(e)
                   PROVE  mailed'[e] >= 1 \/ e \in todo
        BY <1>1, <2>2, <3>6 DEF AtLeastOnce
      <4>2. e \in Events /\ mailed[e] \in Nat /\ mailed[event] \in Nat
        BY <1>3, <2>3, <2>4 DEF DayOK
      <4>3. CASE e = event
        BY <2>3, <4>2, <4>3
      <4>4. CASE e # event
        <5>1. mailed[e] >= 1 \/ \E r \in Slots : e \in Left(task[r])
          BY <4>1 DEF AtLeastOnce
        <5> QED
          BY <1>3, <1>6, <2>3, <3>4, <4>2, <4>4, <5>1
      <4> QED
        BY <4>3, <4>4
    <3>10. (\A r, q \in Briefing' : r = q) /\ (due' => Briefing' = {})
      BY <1>1, <3>3, <3>5
    <3> QED
      BY <3>7, <3>8, <3>9, <3>10 DEF Mornings
  <2> QED
    BY <2>2, <2>4, <2>5 DEF BriefInv
<1> QED
  BY <1>3, <1>5, <1>6

(* The next morning: if the job of the last one is through, nothing is missed   *)
(* and nothing comes again, as far as the day is as long as a window.         *)
LEMMA MorningKeeps ==
  ASSUME EventAssumption, BriefInv, Morning
  PROVE  BriefInv'
<1>1. /\ due' = TRUE /\ disturbed' = (disturbed \/ due \/ Briefing # {})
      /\ UNCHANGED <<task, rowVars, mailed, steady, moved>>
  BY DEF Morning, deskVars
<1>2. PICK day \in Days : now' = now + day /\ days' = days \cup {day}
  BY DEF Morning
<1>3. day \in Nat \ {0} /\ now \in Nat /\ DayOK
  BY DEF EventAssumption, BriefInv, DayOK
<1>4. ShapesOK' /\ DayOK'
  BY <1>1, <1>2, <1>3 DEF BriefInv, ShapesOK, DayOK, rowVars
<1>5. ASSUME ~disturbed' PROVE Mornings'
  <2>1. Mornings /\ ~due /\ Briefing = {}
    BY <1>1, <1>5 DEF BriefInv
  <2>2. \A r \in Slots : Left(task[r]) = {}
    BY <2>1, BriefingLeft
  <2>3. Briefing' = {}
    BY <1>1, <2>2, BriefingLeftNext
  <2>4. ASSUME NEW e \in Events
        PROVE  /\ Met(e) <=> WindowOpens(e) <= now
               /\ Met(e)' <=> WindowOpens(e) + 2 * HalfWindow <= now + day
               /\ WindowOpens(e) \in Int /\ HalfWindow \in Nat
    <3>1. /\ WindowOpens(e) \in Int /\ HalfWindow \in Nat
          /\ WindowCloses(e) = WindowOpens(e) + 2 * HalfWindow
      BY <1>3, WindowFacts
    <3>2. WindowCloses(e)' = WindowCloses(e)
      BY <1>1 DEF WindowCloses, rowVars
    <3> QED
      BY <1>1, <1>2, <2>1, <3>1, <3>2 DEF Met
  <2>5. ASSUME LongDays' PROVE AtMostOnce'
    <3>1. day >= 2 * HalfWindow /\ LongDays
      BY <1>2, <2>5 DEF LongDays
    <3>2. AtMostOnce
      BY <2>1, <3>1 DEF Mornings
    <3> SUFFICES ASSUME NEW e \in Events, e \notin moved
                 PROVE  mailed[e] <= 1 /\ (mailed[e] = 1 => Met(e)')
      BY <1>1, <2>2 DEF AtMostOnce
    <3>3. mailed[e] <= 1 /\ (mailed[e] = 1 => Met(e))
      BY <3>2 DEF AtMostOnce
    <3>4. Met(e) => Met(e)'
      BY <1>3, <2>4, <3>1
    <3> QED
      BY <3>3, <3>4
  <2>6. ASSUME ShortDays' PROVE AtLeastOnce'
    <3>1. day <= 2 * HalfWindow /\ ShortDays
      BY <1>2, <2>6 DEF ShortDays
    <3>2. AtLeastOnce
      BY <2>1, <3>1 DEF Mornings
    <3> SUFFICES ASSUME NEW e \in steady, Met(e)' PROVE mailed[e] >= 1
      BY <1>1 DEF AtLeastOnce
    <3>3. e \in Events
      BY <1>3 DEF DayOK
    <3>4. Met(e)
      BY <1>3, <2>4, <3>1, <3>3
    <3> QED
      BY <2>2, <3>2, <3>4 DEF AtLeastOnce
  <2> QED
    BY <1>1, <2>2, <2>3, <2>5, <2>6 DEF Mornings
<1> QED
  BY <1>4, <1>5 DEF BriefInv

(* A brief fails: it is seen.                                               *)
LEMMA BriefFailsKeeps ==
  ASSUME TasksOK, BriefInv, NEW s \in Slots, BriefFails(s)
  PROVE  BriefInv'
<1>1. /\ Become(s, Idle) /\ disturbed' = TRUE
      /\ UNCHANGED <<rowVars, now, due, mailed, steady>>
  BY DEF BriefFails, Ends
<1>2. TurnsTo(s, {})
  BY <1>1, IdleShape, WholeLeft DEF TurnsTo
<1>3. ShapesOK'
  BY <1>2, Turned DEF BriefInv
<1>4. DayOK'
  BY <1>1 DEF BriefInv, DayOK, rowVars
<1> QED
  BY <1>1, <1>3, <1>4 DEF BriefInv

LEMMA QuietIfUnchanged ==
  ASSUME UNCHANGED <<now, days, due, mailed, disturbed, rowVars, steady, moved>>
  PROVE  Quiet
BY DEF Quiet

(* What a feed brings again, and what the agent says of an event, is one row.  *)
LEMMA RowsQuiet ==
  ASSUME EventAssumption, DayOK, NEW s \in Slots, ShapeOK(task[s]),
         \/ Feed(s)
         \/ \E e \in Events, st \in {"approved", "hidden", "attended"} : SetEventStatus(s, e, st)
  PROVE  Quiet
<1>1. CASE Feed(s)
  <2>a. task[s].todo \subseteq Events
    BY <1>1, PlainShape DEF Feed, Plain, BriefSteps
  <2>1. PICK e \in Events, dense \in BOOLEAN : \E start \in Times[e] : Upsert(e, dense, start)
    BY <1>1, <2>a DEF Feed
  <2>b. PICK start \in Times[e] : Upsert(e, dense, start)
    BY <2>1
  <2>2. UNCHANGED <<now, days, due, mailed, disturbed>>
    BY <1>1 DEF Feed
  <2>3. start \in Nat
    BY DEF EventAssumption
  <2>4. \E st \in EventStatuses : Write(e, st, dense, start)
    BY <2>b DEF Upsert, DayOK, EventStatuses
  <2> QED
    BY <2>2, <2>3, <2>4 DEF Quiet
<1>2. CASE \E e \in Events, st \in {"approved", "hidden", "attended"} : SetEventStatus(s, e, st)
  <2>1. PICK e \in Events, st \in {"approved", "hidden", "attended"} : SetEventStatus(s, e, st)
    BY <1>2
  <2>2. /\ UNCHANGED <<now, days, due, mailed, disturbed>>
        /\ Write(e, st, high[e], starts[e])
    BY <2>1 DEF SetEventStatus
  <2>3. st \in EventStatuses /\ high[e] \in BOOLEAN /\ starts[e] \in Nat
    BY DEF DayOK, EventStatuses
  <2> QED
    BY <2>2, <2>3 DEF Quiet
<1> QED
  BY <1>1, <1>2

(* Every step about events.                                                 *)
LEMMA EventStepKeepsBriefs ==
  ASSUME EventAssumption, TasksOK, BriefInv, NEW s \in Slots, EventStep(s)
  PROVE  BriefInv'
<1>1. TaskOK(task[s]) /\ ShapeOK(task[s]) /\ DayOK
  BY DEF TasksOK, BriefInv, ShapesOK
<1>2. CASE MorningBriefs(s) \/ BriefWrites(s) \/ BriefFails(s)
  BY <1>2, MorningBriefsKeep, BriefWritesKeeps, BriefFailsKeeps
<1>3. CASE Feed(s)
  BY <1>1, <1>3, FeedKept, RowsQuiet, QuietKeeps
<1>4. CASE \E e \in Events, st \in {"approved", "hidden", "attended"} : SetEventStatus(s, e, st)
  BY <1>1, <1>4, ArrivalsKept, RowsQuiet, QuietKeeps
<1>5. CASE \/ Sync(s)
           \/ \E e \in Events : BriefByHand(s, e)
           \/ \E names \in SUBSET Names \ {{}}, src \in Sources, e \in Events \cup {"none"} :
                Paste(s, names, src, e)
           \/ \E p \in People, o \in Owners, word \in {"yes", "no"} : SetConfirmation(s, p, o, word)
           \/ \E e \in Events, p \in People : MarkMet(s, e, p)
  <2>1. Kept(s)
    BY <1>1, <1>5, ArrivalsKept
  <2>2. UNCHANGED <<now, days, due, mailed, disturbed, rowVars, steady, moved>>
    BY <1>5 DEF Sync, BriefByHand, Paste, SetConfirmation, MarkMet, eventVars, briefVars
  <2> QED
    BY <2>1, <2>2, QuietIfUnchanged, QuietKeeps
<1>6. CASE \/ FindPerson(s) \/ StatementFails(s)
           \/ SavePerson(s) \/ MatchReads(s) \/ MatchStores(s) \/ MatchEnds(s)
           \/ BriefReads(s) \/ BriefMatches(s)
  <2>1. Kept(s)
    BY <1>1, <1>6, FeedKept, FailureKept, MatchingKept, BriefKept
  <2>2. UNCHANGED <<now, days, due, mailed, disturbed, rowVars, steady, moved>>
    BY <1>6 DEF FindPerson, StatementFails, SavePerson, MatchReads, MatchStores, MatchEnds, BriefReads,
       BriefMatches, eventVars, briefVars
  <2> QED
    BY <2>1, <2>2, QuietIfUnchanged, QuietKeeps
<1> QED
  BY <1>2, <1>3, <1>4, <1>5, <1>6 DEF EventStep

(* A step that touches neither tasks nor briefs.                            *)
LEMMA UntouchedBriefs ==
  ASSUME BriefInv, UNCHANGED <<task, briefVars, rowVars>>
  PROVE  BriefInv'
<1>1. /\ ShapesOK' /\ DayOK' /\ Briefing' = Briefing
      /\ \A r \in Slots : Left(task'[r]) = Left(task[r])
  BY DEF BriefInv, ShapesOK, DayOK, Briefing, briefVars, rowVars
<1>2. \A e : WindowOpens(e)' = WindowOpens(e) /\ WindowCloses(e)' = WindowCloses(e) /\ Met(e)' = Met(e)
  BY SameWindow DEF briefVars, rowVars
<1>3. UNCHANGED <<now, days, due, mailed, steady, moved, disturbed>>
  BY DEF briefVars
<1>4. Mornings => (LongDays' => AtMostOnce') /\ (ShortDays' => AtLeastOnce')
  BY <1>1, <1>2, <1>3 DEF Mornings, LongDays, ShortDays, AtMostOnce, AtLeastOnce
<1>5. Mornings => Mornings'
  BY <1>1, <1>2, <1>3, <1>4 DEF Mornings
<1> QED
  BY <1>1, <1>3, <1>5 DEF BriefInv

(* Every step of the desk.                                                  *)
LEMMA BriefStepKeeps == EventAssumption /\ PushInv /\ BriefInv /\ [Next]_vars => BriefInv'
<1> SUFFICES ASSUME EventAssumption, PushInv, BriefInv, [Next]_vars PROVE BriefInv'
  OBVIOUS
<1>1. TasksOK /\ DayOK /\ \A s \in Slots : TaskOK(task[s]) /\ ShapeOK(task[s])
  BY DEF PushInv, TasksOK, BriefInv, ShapesOK
<1>2. CASE LeadNext /\ UNCHANGED eventVars
  <2>1. CASE \E l \in Leads : SnoozeEnds(l)
    BY <1>2, <2>1, UntouchedBriefs DEF SnoozeEnds, deskVars, eventVars
  <2>2. ASSUME NEW s \in Slots, LeadStep(s) PROVE BriefInv'
    <3>1. Quiet
      BY <1>2, QuietIfUnchanged DEF eventVars, briefVars
    <3> QED
      BY <1>1, <2>2, <3>1, LeadStepsKept, QuietKeeps
  <2> QED
    BY <1>2, <2>1, <2>2 DEF LeadNext
<1>3. CASE EventNext
  <2>1. CASE \E o \in Owners : OwnerComes(o)
    BY <2>1, UntouchedBriefs DEF OwnerComes, deskVars
  <2> QED
    BY <1>1, <1>3, <2>1, MorningKeeps, EventStepKeepsBriefs DEF EventNext
<1>4. ASSUME NEW s \in Slots, Award(s), UNCHANGED eventVars PROVE BriefInv'
  <2>1. task[s] = Awarding /\ Become(s, Idle)
    BY <1>4 DEF Award, Ends
  <2>2. Kept(s)
    BY <1>1, <2>1, IdleShape, PlainKept DEF Plain
  <2>3. Quiet
    BY <1>4, QuietIfUnchanged DEF eventVars, briefVars
  <2> QED
    BY <1>1, <2>2, <2>3, QuietKeeps
<1>5. CASE Restart
  <2>1. /\ task' = [s \in Slots |-> Idle] /\ disturbed' = TRUE
        /\ due' = (due \/ Briefing # {})
        /\ UNCHANGED <<rowVars, now, mailed, steady>>
    BY <1>5 DEF Restart, EventRestart
  <2>2. ShapesOK'
    BY <2>1, IdleShape, WholeLeft DEF ShapesOK
  <2>3. DayOK'
    BY <1>1, <2>1 DEF DayOK, rowVars
  <2> QED
    BY <2>1, <2>2, <2>3 DEF BriefInv
<1>6. CASE UNCHANGED vars
  BY <1>6, UntouchedBriefs DEF vars, deskVars, eventVars
<1> QED
  BY <1>2, <1>3, <1>4, <1>5, <1>6 DEF Next

(* The first morning's job is due before any steady event's window is over.    *)
LEMMA BriefInit == EventAssumption /\ Init => BriefInv
<1> SUFFICES ASSUME EventAssumption, Init PROVE BriefInv
  OBVIOUS
<1>1. /\ task = [s \in Slots |-> Idle] /\ now = 0 /\ due = TRUE /\ disturbed = FALSE
      /\ status \in [Events -> {"none", "approved"}] /\ mailed = [e \in Events |-> 0]
      /\ high = [e \in Events |-> TRUE]
      /\ steady = {e \in Events : status[e] = "approved" /\ now <= WindowOpens(e)}
  BY DEF Init, DeskInit, EventInit
<1>2. ShapesOK /\ \A s \in Slots : Left(task[s]) = {}
  BY <1>1, IdleShape, WholeLeft DEF ShapesOK
<1>3. starts \in [Events -> Nat]
  <2>1. PICK f \in [Events -> UNION {Times[e] : e \in Events}] :
          starts = f /\ \A e \in Events : f[e] \in Times[e]
    BY DEF Init, EventInit
  <2>2. \A e \in Events : f[e] \in Nat
    BY <2>1 DEF EventAssumption
  <2> QED
    BY <2>1, <2>2
<1>4. DayOK
  BY <1>1, <1>3 DEF DayOK, EventStatuses
<1>5. Briefing = {}
  BY <1>2, BriefingLeft
<1>6. \A e \in steady : ~Met(e)
  <2> SUFFICES ASSUME NEW e \in steady PROVE ~Met(e)
    OBVIOUS
  <2>1. e \in Events /\ now <= WindowOpens(e)
    BY <1>1
  <2>2. /\ WindowOpens(e) \in Int /\ WindowCloses(e) = WindowOpens(e) + 2 * HalfWindow
        /\ HalfWindow \in Nat \ {0} /\ now \in Nat
    BY <1>1, <1>4, <2>1, WindowFacts
  <2> QED
    BY <1>1, <2>1, <2>2 DEF Met
<1>7. AtMostOnce /\ AtLeastOnce
  BY <1>1, <1>2, <1>6 DEF AtMostOnce, AtLeastOnce
<1>8. Mornings
  BY <1>2, <1>5, <1>7 DEF Mornings
<1> QED
  BY <1>2, <1>4, <1>8 DEF BriefInv

(* When the window has closed, the run of that window is over.               *)
LEMMA BriefedOnce == EventAssumption /\ BriefInv => AutoBriefOnce
<1> SUFFICES ASSUME EventAssumption, BriefInv, ~disturbed, NEW e \in Events
             PROVE  /\ e \notin moved /\ LongDays => mailed[e] <= 1
                    /\ e \in steady /\ now >= WindowCloses(e) /\ ShortDays => mailed[e] >= 1
  BY DEF AutoBriefOnce, LongDays, ShortDays
<1>1. Mornings /\ DayOK /\ now \in Nat
  BY DEF BriefInv, DayOK
<1>2. e \notin moved /\ LongDays => mailed[e] <= 1
  BY <1>1 DEF Mornings, AtMostOnce
<1>3. ASSUME e \in steady, now >= WindowCloses(e), ShortDays PROVE mailed[e] >= 1
  <2>1. /\ WindowOpens(e) \in Int /\ WindowCloses(e) = WindowOpens(e) + 2 * HalfWindow
        /\ HalfWindow \in Nat \ {0}
    BY <1>1, WindowFacts
  <2>2. Met(e)
    BY <1>1, <1>3, <2>1 DEF Met
  <2>3. \A s \in Slots : e \notin Left(task[s])
    BY <1>1, <1>3, <2>1 DEF Mornings
  <2> QED
    BY <1>1, <1>3, <2>2, <2>3 DEF Mornings, AtLeastOnce
<1> QED
  BY <1>2, <1>3

(* BriefService: if no morning job was late, failed or had too many events, an    *)
(* event not moved within its window is briefed on once at the most while no day   *)
(* is shorter than a window, and one approved and high before its window, and left  *)
(* so, at least once by its end while no day is longer, whatever the times of the   *)
(* events, the feeds and the requests that go on beside the job.                  *)
THEOREM EachEventBriefedOnce == Spec => []AutoBriefOnce
<1>1. Init => PushInv /\ BriefInv
  BY PushInit, BriefInit, EventAssumption
<1>2. PushInv /\ BriefInv /\ [Next]_vars => (PushInv /\ BriefInv)'
  BY PushStepKeeps, BriefStepKeeps, DeskAssumption, EventAssumption
<1>3. PushInv /\ BriefInv => AutoBriefOnce
  BY BriefedOnce, EventAssumption
<1> QED
  BY <1>1, <1>2, <1>3, PTL DEF Spec
=============================================================================
