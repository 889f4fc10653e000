--------------------------- MODULE ProgressAwards ---------------------------
(***************************************************************************)
(* XP, streaks and badges.  An award records an XpEvent, then reads the     *)
(* progress row (making it if there is none), writes the sum back, and       *)
(* unlocks the badges whose criterion is met.  The database serialises the   *)
(* single statements and keeps its unique keys; nothing ties the statements  *)
(* of an award together, and requests run side by side.                      *)
(*                                                                           *)
(* A number of XP is kept as the set of the event keys it is the sum of; XP  *)
(* gives the number: an event of n XP has the units 1..n, and XP counts      *)
(* them.  A level is reached at the XP that levelFromXp needs.               *)
(***************************************************************************)
EXTENDS Integers, FiniteSets

CONSTANTS
  Procs,        \* requests served side by side
  Keys,         \* what can be awarded: records [action, entity]
  Reward,       \* Reward[action]: XP_REWARDS of the actions that have one
  CountBadges,  \* CountBadges[badge] = [action, atLeast]
  StreakBadges, \* StreakBadges[badge]: days in a row
  LevelBadges,  \* LevelBadges[badge]: level
  MaxDay,       \* bound of the model: the calendar
  MaxFailures   \* bound of the model: failed statements and deaths

\* What a request awards that only looks: no action of the code.
NoKey == [action |-> "none", entity |-> "none"]

ASSUME AwardsAssumption ==
  /\ IsFiniteSet(Keys) /\ NoKey \notin Keys
  /\ \A k \in Keys : Reward[k.action] \in Nat \ {0}
  /\ \A b \in DOMAIN CountBadges : CountBadges[b].atLeast \in Nat \ {0}
  /\ \A b \in DOMAIN LevelBadges : LevelBadges[b] \in Nat
  /\ MaxDay \in Nat /\ MaxFailures \in Nat

VARIABLES
  events,    \* XpEvent rows: a key and the day it was recorded
  row,       \* the UserProgress row: the keys its XP counts, streak, last day
  badges,    \* UserBadge rows
  proc,      \* proc[p]: the award or the reading p is at
  day,       \* the calendar, bounded by MaxDay
  failures   \* awards cut short, and failed statements

vars == <<events, row, badges, proc, day, failures>>

Badges == DOMAIN CountBadges \cup DOMAIN StreakBadges \cup DOMAIN LevelBadges

Never == -1
NoRow == [credit |-> {}, streak |-> -1, last |-> Never]
FirstRow == [credit |-> {}, streak |-> 0, last |-> Never]

Free == [at |-> "free", key |-> NoKey, new |-> NoRow, due |-> {}]

Recorded == {e.key : e \in events}
Units(k) == {k} \X (1..Reward[k.action])
XP(credit) == Cardinality(UNION {Units(k) : k \in credit})

\* The XP at which levelFromXp gives level n: 100 + 200 + ... + 100 * (n - 1).
XpOfLevel(n) == 50 * n * (n - 1)

Set(p, state) == proc' = [proc EXCEPT ![p] = state]

----------------------------------------------------------------------------
Init ==
  /\ events = {}
  /\ row = NoRow
  /\ badges = {}
  /\ proc = [p \in Procs |-> Free]
  /\ day = 0
  /\ failures = 0

\* Mutant: without the unique key an event is recorded as often as it comes.
RecordAgain(p, k) ==
  /\ proc[p] = Free
  /\ events' = events \cup {[key |-> k, day |-> day]}
  /\ Set(p, [Free EXCEPT !.at = "find", !.key = k])
  /\ UNCHANGED <<row, badges, day, failures>>

\* Mutant: the event is left to be recorded after the row is written.
RecordLater(p, k) ==
  /\ proc[p] = Free
  /\ k \notin Recorded
  /\ Set(p, [Free EXCEPT !.at = "find", !.key = k])
  /\ UNCHANGED <<events, row, badges, day, failures>>

\* xpEvent.create: the unique key lets a key in once.
Record(p, k) ==
  /\ proc[p] = Free
  /\ k \notin Recorded
  /\ events' = events \cup {[key |-> k, day |-> day]}
  /\ Set(p, [Free EXCEPT !.at = "find", !.key = k])
  /\ UNCHANGED <<row, badges, day, failures>>

\* xpEvent.create fails, for the unique key or for another reason: the award
\* is answered as a duplicate, with the progress as it is.
Skip(p, k) ==
  /\ proc[p] = Free
  /\ k \in Recorded \/ failures < MaxFailures
  /\ failures' = IF k \in Recorded THEN failures ELSE failures + 1
  /\ Set(p, [Free EXCEPT !.at = "look"])
  /\ UNCHANGED <<events, row, badges, day>>

\* getSummary, or an action without a reward: only ensureProgress.
Look(p) ==
  /\ proc[p] = Free
  /\ Set(p, [Free EXCEPT !.at = "look"])
  /\ UNCHANGED <<events, row, badges, day, failures>>

\* Mutant: a second award of a day is taken for another day.
NextStreakSameDay(before) ==
  IF before.last = Never THEN 1
  ELSE IF day - before.last <= 1 THEN before.streak + 1 ELSE 1

NextStreak(before) ==
  IF before.last = Never THEN 1
  ELSE CASE day - before.last = 0 -> (IF before.streak < 1 THEN 1 ELSE before.streak)
         [] day - before.last = 1 -> before.streak + 1
         [] OTHER -> 1

\* What an award of key k makes of the row that was read.
Awarded(before, k) ==
  [credit |-> before.credit \cup {k}, streak |-> NextStreak(before), last |-> day]

\* A row was read or made: an award computes the new row, a look is over.
GoOn(p, before) ==
  Set(p, IF proc[p].key = NoKey THEN Free
         ELSE [proc[p] EXCEPT !.at = "write", !.new = Awarded(before, proc[p].key)])

\* ensureProgress: findUnique.
FindRow(p) ==
  /\ proc[p].at \in {"find", "look"}
  /\ IF row = NoRow THEN Set(p, [proc[p] EXCEPT !.at = "make"]) ELSE GoOn(p, row)
  /\ UNCHANGED <<events, row, badges, day, failures>>

\* ensureProgress: create.
MakeRow(p) ==
  /\ proc[p].at = "make"
  /\ row = NoRow
  /\ row' = FirstRow
  /\ GoOn(p, FirstRow)
  /\ UNCHANGED <<events, badges, day, failures>>

\* Another request has made the row meanwhile: the unique key throws, and the
\* caller gets an error although the event is recorded.
MakeRowTwice(p) ==
  /\ proc[p].at = "make"
  /\ row # NoRow
  /\ failures' = failures + 1
  /\ Set(p, Free)
  /\ UNCHANGED <<events, row, badges, day>>

WriteRow(p) ==
  /\ proc[p].at = "write"
  /\ row' = proc[p].new
  /\ Set(p, [proc[p] EXCEPT !.at = "count"])
  /\ UNCHANGED <<events, badges, day, failures>>

CountOf(action) == Cardinality({k \in Recorded : k.action = action})

\* Mutant: one event less is enough.
UnlockedEarly(new) ==
  {b \in DOMAIN CountBadges : CountOf(CountBadges[b].action) + 1 >= CountBadges[b].atLeast}

\* Mutant: the number has to be passed, not hit.
UnlockedLate(new) ==
  {b \in DOMAIN CountBadges : CountOf(CountBadges[b].action) > CountBadges[b].atLeast}

\* The badges whose criterion holds: counts are those of the events now,
\* streak and level those of the award.
Unlocked(new) ==
  {b \in DOMAIN CountBadges : CountOf(CountBadges[b].action) >= CountBadges[b].atLeast}
  \cup {b \in DOMAIN StreakBadges : new.streak >= StreakBadges[b]}
  \cup {b \in DOMAIN LevelBadges : XP(new.credit) >= XpOfLevel(LevelBadges[b])}

\* evaluateBadges: groupBy.
CountEvents(p) ==
  /\ proc[p].at = "count"
  /\ Set(p, [proc[p] EXCEPT !.at = "unlock", !.due = Unlocked(proc[p].new)])
  /\ UNCHANGED <<events, row, badges, day, failures>>

\* evaluateBadges: userBadge.create, one at a time; a badge that is there
\* already is passed over.
Unlock(p) ==
  /\ proc[p].at = "unlock"
  /\ IF proc[p].due = {}
     THEN Set(p, Free) /\ UNCHANGED badges
     ELSE \E b \in proc[p].due :
            /\ badges' = badges \cup {b}
            /\ Set(p, [proc[p] EXCEPT !.due = @ \ {b}])
  /\ UNCHANGED <<events, row, day, failures>>

\* A statement fails or the process dies: the request ends where it is.
Fail(p) ==
  /\ proc[p] # Free
  /\ failures < MaxFailures
  /\ failures' = failures + 1
  /\ Set(p, Free)
  /\ UNCHANGED <<events, row, badges, day>>

\* Midnight, which an award may straddle once.
Midnight ==
  /\ day < MaxDay
  /\ \A p \in Procs : proc[p].key # NoKey =>
       \E e \in events : e.key = proc[p].key /\ e.day = day
  /\ day' = day + 1
  /\ UNCHANGED <<events, row, badges, proc, failures>>

Next ==
  \/ \E p \in Procs :
       \/ \E k \in Keys : Record(p, k) \/ Skip(p, k)
       \/ Look(p) \/ FindRow(p) \/ MakeRow(p) \/ MakeRowTwice(p)
       \/ WriteRow(p) \/ CountEvents(p) \/ Unlock(p)
       \/ Fail(p)
  \/ Midnight

Spec == Init /\ [][Next]_vars

----------------------------------------------------------------------------
(* Properties                                                              *)

Awarding(p) == proc[p].at \in {"write", "count", "unlock"}

Rows == [credit : SUBSET Keys, streak : Int, last : {Never} \cup 0..MaxDay]

Statements == {"free", "find", "look", "make", "write", "count", "unlock"}

\* The rows are of the kind the schema lets in, a request is at one of its
\* statements with what that statement needs, and no streak is longer than the
\* days there have been (nextStreak counts a day once).
TypeOK ==
  /\ events \subseteq [key : Keys, day : 0..MaxDay]
  /\ row \in Rows /\ row.streak <= row.last + 1
  /\ proc \in [Procs -> [at : Statements, key : Keys \cup {NoKey},
                        new : Rows, due : SUBSET Badges]]
  /\ \A p \in Procs : proc[p].new.streak <= proc[p].new.last + 1
  /\ badges \subseteq Badges
  /\ day \in 0..MaxDay /\ failures \in Nat

\* No XP comes from nowhere: the row, and every row about to be written, counts
\* only events that are recorded, even when awards overwrite each other.
XpIsEarned ==
  /\ row.credit \subseteq Recorded
  /\ \A p \in Procs : Awarding(p) => proc[p].new.credit \subseteq Recorded

\* No event is counted twice: an award in progress is the only one of its key,
\* and neither the row nor any other award counts it before it is written.
CountedOnce ==
  \A p \in Procs : proc[p].key # NoKey =>
    /\ \A q \in Procs \ {p} : proc[q].key # proc[p].key
    /\ proc[p].at \in {"find", "make", "write"} => proc[p].key \notin row.credit
    /\ proc[p].at \in {"find", "make", "write"} =>
         \A q \in Procs \ {p} : proc[p].key \notin proc[q].new.credit

\* A streak is made of days on which XP was earned, give or take an award that
\* straddled midnight: every day of it has an event of that day or of the day
\* before (nextStreak, under overlapping awards that write old rows back).
StreakIsEarned ==
  \A i \in 0..(row.streak - 1) :
    \E e \in events : e.day \in {row.last - i, row.last - i - 1}

\* A badge that counts events, or a level, is held only with the events that
\* it takes (evaluateBadges).
BadgesDeserved ==
  \A b \in badges :
    \/ b \in DOMAIN StreakBadges
    \/ b \in DOMAIN CountBadges
       /\ CountOf(CountBadges[b].action) >= CountBadges[b].atLeast
    \/ b \in DOMAIN LevelBadges /\ XP(Recorded) >= XpOfLevel(LevelBadges[b])

AtRest == \A p \in Procs : proc[p] = Free

\* "Badges unlock when you hit the number": once no award is in progress, the
\* last event of a count has unlocked its badge, unless an award was cut short.
CountBadgesUnlocked ==
  AtRest /\ failures = 0 =>
    \A b \in DOMAIN CountBadges :
      CountOf(CountBadges[b].action) >= CountBadges[b].atLeast => b \in badges

\* "Predictable XP" (QuestsPage.tsx:30): once no award is in progress and none
\* has failed, the XP shown are those of all the recorded events.
XpAddsUp == AtRest /\ failures = 0 => row.credit = Recorded
=============================================================================
