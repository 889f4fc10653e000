------------------------ MODULE ProgressAwardsProofs ------------------------
(***************************************************************************)
(* Theorems about awards, for any number of requests, keys and badges and    *)
(* any calendar.  What a row counts and how long its streak is must hold of   *)
(* the row in the table and of every row an award is about to write, since    *)
(* awards overwrite each other: RowFits says it of one row, and the           *)
(* invariant says it of all of them.  A badge rests on the events recorded    *)
(* when they were counted, and there are never fewer afterwards; and whoever  *)
(* records the event that fills a count is still on its way to the badge       *)
(* until somebody has unlocked it (BadgeInv).                                 *)
(***************************************************************************)
EXTENDS ProgressAwards, TLAPS, FiniteSetTheorems, FunctionTheorems

States == [at : Statements, key : Keys \cup {NoKey}, new : Rows, due : SUBSET Badges]

\* Each day of the row's streak has an event of that day or of the day before.
StreakHasEvents(r) ==
  \A i \in 0..(r.streak - 1) : \E e \in events : e.day \in {r.last - i, r.last - i - 1}

\* A row that only counts what is recorded, with a streak that is earned.
RowFits(r) ==
  /\ r \in Rows
  /\ r.streak <= r.last + 1
  /\ r.credit \subseteq Recorded
  /\ StreakHasEvents(r)

\* The event of key k is of today, or of yesterday's end.
Recent(k) == \E e \in events : e.key = k /\ e.day \in {day - 1, day}

IInv ==
  /\ events \subseteq [key : Keys, day : 0..MaxDay]
  /\ badges \subseteq Badges
  /\ day \in 0..MaxDay /\ failures \in Nat
  /\ RowFits(row)
  /\ proc \in [Procs -> States]
  /\ \A p \in Procs : RowFits(proc[p].new)
  /\ \A p \in Procs : proc[p].key # NoKey => Recent(proc[p].key)
  /\ \A p \in Procs : proc[p].at = "look" => proc[p].key = NoKey
  /\ CountedOnce

----------------------------------------------------------------------------
(* A row that has never counted anything fits whatever the events are.      *)
LEMMA EmptyRowsFit == RowFits(NoRow) /\ RowFits(FirstRow)
BY DEF RowFits, NoRow, FirstRow, Rows, Never, StreakHasEvents

(* The row that an award makes of a fitting row fits.                       *)
LEMMA AwardedFits ==
  ASSUME NEW before, RowFits(before), NEW k \in Keys, Recent(k), day \in 0..MaxDay,
         events \subseteq [key : Keys, day : 0..MaxDay], AwardsAssumption
  PROVE  RowFits(Awarded(before, k))
<1> DEFINE new == Awarded(before, k)
           n == NextStreak(before)
<1>1. /\ new.credit = before.credit \cup {k} /\ new.streak = n /\ new.last = day
      /\ new = [credit |-> before.credit \cup {k}, streak |-> n, last |-> day]
  BY DEF Awarded
<1>2. PICK e \in events : e.key = k /\ e.day \in {day - 1, day}
  BY DEF Recent
<1>3. e.day \in Int /\ day \in Int /\ before.last \in Int /\ before.streak \in Int
  BY AwardsAssumption DEF RowFits, Rows, Never, AwardsAssumption
<1>4. before.credit \subseteq Keys /\ k \in Recorded /\ before.credit \subseteq Recorded
  BY <1>2 DEF RowFits, Rows, Recorded
<1>5. \/ n = 1
      \/ n = before.streak /\ day = before.last /\ n >= 1
      \/ n = before.streak + 1 /\ day = before.last + 1
  BY <1>3 DEF NextStreak
<1>6. n \in Int /\ n <= day + 1
  BY <1>3, <1>5 DEF RowFits
<1>7. new \in Rows
  BY <1>1, <1>4, <1>6 DEF Rows
<1>8. StreakHasEvents(new)
  <2> SUFFICES ASSUME NEW i \in 0..(n - 1)
               PROVE  \E f \in events : f.day \in {day - i, day - i - 1}
    BY <1>1 DEF StreakHasEvents
  <2>1. CASE i = 0
    BY <2>1, <1>2, <1>3
  <2>2. CASE i # 0 /\ n = before.streak /\ day = before.last
    BY <2>2, <1>3 DEF RowFits, StreakHasEvents
  <2>3. CASE i # 0 /\ n = before.streak + 1 /\ day = before.last + 1
    <3>1. i - 1 \in 0..(before.streak - 1)
      BY <2>3, <1>3, <1>6
    <3>2. PICK f \in events : f.day \in {before.last - (i - 1), before.last - (i - 1) - 1}
      BY <3>1 DEF RowFits, StreakHasEvents
    <3>3. before.last - (i - 1) = day - i
      BY <2>3, <1>3
    <3> QED
      BY <3>2, <3>3
  <2> QED
    BY <1>5, <1>3, <1>6, <2>1, <2>2, <2>3
<1> QED
  BY <1>1, <1>4, <1>6, <1>7, <1>8 DEF RowFits

(* More events do not unfit a row.                                          *)
LEMMA MoreEvents ==
  ASSUME events \subseteq events', NEW r, RowFits(r)
  PROVE  RowFits(r)'
BY DEF RowFits, StreakHasEvents, Recorded

(* Replacing what one request is at leaves the others alone.                *)
LEMMA SetOne ==
  ASSUME proc \in [Procs -> States], NEW p \in Procs, NEW s \in States, Set(p, s)
  PROVE  /\ proc' \in [Procs -> States]
         /\ proc'[p] = s
         /\ \A q \in Procs \ {p} : proc'[q] = proc[q]
BY DEF Set

LEMMA InitInv == Init => IInv
<1> SUFFICES ASSUME Init PROVE IInv
  OBVIOUS
<1>1. Free \in States /\ Free.key = NoKey /\ Free.new = NoRow
  BY EmptyRowsFit DEF Free, States, Statements, RowFits
<1> QED
  BY <1>1, EmptyRowsFit, AwardsAssumption
     DEF Init, IInv, CountedOnce, AwardsAssumption

(* Going on with a fitting row, which counts none of the keys that are yet  *)
(* to be written, keeps the invariant; so does the row made on the way.     *)
LEMMA GoOnKeeps ==
  ASSUME IInv, NEW p \in Procs, NEW before, RowFits(before), GoOn(p, before),
         proc[p].at \in {"find", "look", "make"},
         \A q \in Procs : proc[q].key # NoKey /\ proc[q].at \in {"find", "make", "write"}
                            => proc[q].key \notin before.credit,
         row' = before, UNCHANGED <<events, badges, day, failures>>
  PROVE  IInv'
<1>1. Free \in States /\ Free.key = NoKey /\ Free.new = NoRow
  BY EmptyRowsFit DEF Free, States, Statements, RowFits
<1>2. proc \in [Procs -> States]
  BY DEF IInv
<1>3. CASE proc[p].key = NoKey
  <2>1. Set(p, Free)
    BY <1>3 DEF GoOn
  <2>2. /\ proc' \in [Procs -> States] /\ proc'[p] = Free
        /\ \A q \in Procs \ {p} : proc'[q] = proc[q]
    BY <1>1, <1>2, <2>1, SetOne
  <2>3. \A q \in Procs : RowFits(proc'[q].new)
    BY <1>1, <2>2, EmptyRowsFit DEF IInv
  <2>4. \A q \in Procs : proc'[q].key # NoKey => proc'[q] = proc[q] /\ q # p
    BY <1>1, <2>2
  <2>5. CountedOnce'
    BY <1>1, <2>2, <2>4 DEF IInv, CountedOnce, NoRow
  <2> QED
    BY <2>2, <2>3, <2>4, <2>5 DEF IInv, RowFits, StreakHasEvents, Recorded, Recent
<1>4. CASE proc[p].key # NoKey
  <2> DEFINE k == proc[p].key
             s == [proc[p] EXCEPT !.at = "write", !.new = Awarded(before, k)]
  <2>1. Set(p, s)
    BY <1>4 DEF GoOn
  <2>2. k \in Keys /\ Recent(k)
    BY <1>2, <1>4 DEF IInv, States
  <2>3. RowFits(Awarded(before, k))
    BY <2>2, AwardedFits, AwardsAssumption DEF IInv
  <2>4. s \in States /\ s.key = k /\ s.at = "write" /\ s.new = Awarded(before, k)
    BY <1>2, <2>3 DEF States, Statements, RowFits
  <2>5. /\ proc' \in [Procs -> States] /\ proc'[p] = s
        /\ \A q \in Procs \ {p} : proc'[q] = proc[q]
    BY <1>2, <2>1, <2>4, SetOne
  <2>6. \A q \in Procs : RowFits(proc'[q].new) /\ proc'[q].key = proc[q].key
    BY <2>3, <2>4, <2>5 DEF IInv
  <2>7. s.new.credit = before.credit \cup {k}
    BY <2>4 DEF Awarded
  <2>8. CountedOnce'
    <3> SUFFICES ASSUME NEW q \in Procs, proc'[q].key # NoKey
                 PROVE  /\ \A r \in Procs \ {q} : proc'[r].key # proc'[q].key
                        /\ proc'[q].at \in {"find", "make", "write"} => proc'[q].key \notin row'.credit
                        /\ proc'[q].at \in {"find", "make", "write"} =>
                             \A r \in Procs \ {q} : proc'[q].key \notin proc'[r].new.credit
      BY DEF CountedOnce
    <3>1. \A r \in Procs \ {q} : proc'[r].key # proc'[q].key
      BY <2>6 DEF IInv, CountedOnce
    <3>2. proc[q].at \in {"find", "make", "write"} => proc[q].key \notin before.credit
      BY <2>6
    <3>3. CASE q = p
      <4>1. proc[p].at \in {"find", "make"}  => k \notin before.credit
        BY <3>2, <3>3
      <4>2. proc[p].at \in {"find", "make"} => \A r \in Procs \ {p} : k \notin proc[r].new.credit
        BY <1>4 DEF IInv, CountedOnce
      <4>3. proc[p].at \in {"find", "make"}
        BY <1>4 DEF IInv
      <4> QED
        BY <3>1, <3>3, <4>1, <4>2, <4>3, <2>4, <2>5
    <3>4. CASE q # p
      <4>1. proc'[q] = proc[q] /\ proc[q].key # NoKey
        BY <3>4, <2>5
      <4>2. proc[q].at \in {"find", "make", "write"} =>
              \A r \in Procs \ {q} : proc[q].key \notin proc[r].new.credit
        BY <4>1 DEF IInv, CountedOnce
      <4>3. proc[q].key # k
        BY <3>4, <1>4 DEF IInv, CountedOnce
      <4>4. proc[q].at \in {"find", "make", "write"} => proc[q].key \notin s.new.credit
        BY <3>2, <4>3, <2>7
      <4> QED
        BY <3>1, <3>2, <4>1, <4>2, <4>4, <2>5
    <3> QED
      BY <3>3, <3>4
  <2>9. /\ \A q \in Procs : RowFits(proc[q].new)'
        /\ RowFits(row)'
    BY <2>6 DEF RowFits, StreakHasEvents, Recorded
  <2>10. \A q \in Procs : proc'[q].key # NoKey => Recent(proc[q].key)'
    BY <2>6 DEF IInv, Recent
  <2>11. \A q \in Procs : proc'[q].at = "look" => proc'[q].key = NoKey
    BY <2>4, <2>5 DEF IInv
  <2> QED
    BY <2>5, <2>8, <2>9, <2>10, <2>11 DEF IInv
<1> QED
  BY <1>3, <1>4

(* Moving a request on, with the same key and new row, keeps the invariant; *)
(* it may no longer be at a statement before its write unless it was.        *)
LEMMA MoveKeeps ==
  ASSUME IInv, NEW p \in Procs, NEW s \in States, Set(p, s),
         s.key = proc[p].key, s.new = proc[p].new,
         s.at = "look" => proc[p].at = "look",
         s.at \in {"find", "make", "write"} => 
            proc[p].at \in {"find", "make", "write"} \/ s.key = NoKey,
         UNCHANGED <<events, row, day>>,
         badges' \subseteq Badges, failures' \in Nat
  PROVE  IInv'
<1>1. /\ proc' \in [Procs -> States] /\ proc'[p] = s
      /\ \A q \in Procs \ {p} : proc'[q] = proc[q]
  BY SetOne DEF IInv
<1>2. \A q \in Procs : proc'[q].key = proc[q].key /\ proc'[q].new = proc[q].new
  BY <1>1
<1>3. /\ \A q \in Procs : RowFits(proc[q].new)'
      /\ RowFits(row)'
  BY <1>2 DEF IInv, RowFits, StreakHasEvents, Recorded
<1>4. \A q \in Procs : proc'[q].key # NoKey => Recent(proc[q].key)'
  BY <1>2 DEF IInv, Recent
<1>5. \A q \in Procs : proc'[q].at = "look" => proc'[q].key = NoKey
  BY <1>1 DEF IInv
<1>6. \A q \in Procs : proc'[q].key # NoKey /\ proc'[q].at \in {"find", "make", "write"}
                          => proc[q].at \in {"find", "make", "write"}
  BY <1>1
<1>7. CountedOnce'
  BY <1>2, <1>6 DEF IInv, CountedOnce
<1> QED
  BY <1>1, <1>3, <1>4, <1>5, <1>7 DEF IInv

(* A request that ends keeps the invariant.                                 *)
LEMMA EndKeeps ==
  ASSUME IInv, NEW p \in Procs, NEW s \in {Free, [Free EXCEPT !.at = "look"]}, Set(p, s),
         UNCHANGED <<events, row, badges, day>>,
         failures' \in Nat
  PROVE  IInv'
<1>1. s \in States /\ s.key = NoKey /\ s.new = NoRow
  BY EmptyRowsFit DEF Free, States, Statements, RowFits
<1>2. /\ proc' \in [Procs -> States] /\ proc'[p] = s
      /\ \A q \in Procs \ {p} : proc'[q] = proc[q]
  BY <1>1, SetOne DEF IInv
<1>3. /\ \A q \in Procs : RowFits(proc[q].new)'
      /\ RowFits(row)'
  BY <1>1, <1>2, EmptyRowsFit DEF IInv, RowFits, StreakHasEvents, Recorded
<1>4. \A q \in Procs : proc'[q].key # NoKey => q # p /\ proc'[q] = proc[q]
  BY <1>1, <1>2
<1>5. \A q \in Procs : proc'[q].key # NoKey => Recent(proc[q].key)'
  BY <1>4 DEF IInv, Recent
<1>6. \A q \in Procs : proc'[q].at = "look" => proc'[q].key = NoKey
  BY <1>1, <1>2 DEF IInv
<1>7. CountedOnce'
  BY <1>1, <1>2, <1>4 DEF IInv, CountedOnce, NoRow
<1> QED
  BY <1>2, <1>3, <1>5, <1>6, <1>7 DEF IInv

(* A new event starts an award of a key that nothing counts yet.            *)
LEMMA RecordKeeps ==
  ASSUME IInv, NEW p \in Procs, NEW k \in Keys, Record(p, k)
  PROVE  IInv'
<1> DEFINE s == [Free EXCEPT !.at = "find", !.key = k]
<1>1. s \in States /\ s.key = k /\ s.new = NoRow /\ s.at = "find"
  BY EmptyRowsFit DEF Free, States, Statements, RowFits
<1>2. /\ proc' \in [Procs -> States] /\ proc'[p] = s
      /\ \A q \in Procs \ {p} : proc'[q] = proc[q]
  BY <1>1, SetOne DEF IInv, Record
<1>3. /\ events' = events \cup {[key |-> k, day |-> day]}
      /\ events' \subseteq [key : Keys, day : 0..MaxDay]
      /\ k \notin Recorded
      /\ UNCHANGED <<row, badges, day, failures>>
  BY DEF Record, IInv
<1>4. /\ \A q \in Procs : RowFits(proc[q].new)'
      /\ RowFits(row)'
  <2>1. RowFits(NoRow)' /\ RowFits(row)'
    BY <1>3, EmptyRowsFit, MoreEvents DEF IInv, RowFits, StreakHasEvents, Recorded
  <2>2. \A q \in Procs \ {p} : RowFits(proc[q].new)'
    BY <1>2, <1>3 DEF IInv, RowFits, StreakHasEvents, Recorded
  <2> QED
    BY <1>1, <1>2, <2>1, <2>2
<1>5. \A q \in Procs : proc'[q].key # NoKey => Recent(proc[q].key)'
  <2>1. Recent(k)'
    <3> DEFINE e == [key |-> k, day |-> day]
    <3>1. e \in events' /\ e.key = k /\ e.day = day /\ day' = day
      BY <1>3
    <3> QED
      BY <3>1 DEF Recent
  <2>2. \A q \in Procs \ {p} : proc'[q].key # NoKey => Recent(proc[q].key)'
    BY <1>2, <1>3 DEF IInv, Recent
  <2> QED
    BY <1>1, <1>2, <2>1, <2>2
<1>6. \A q \in Procs : proc'[q].at = "look" => proc'[q].key = NoKey
  BY <1>1, <1>2 DEF IInv
<1>7. \A q \in Procs : proc[q].key # NoKey => proc[q].key # k
  BY <1>3 DEF IInv, Recent, Recorded
<1>8. k \notin row.credit /\ \A q \in Procs : k \notin proc[q].new.credit
  BY <1>3 DEF IInv, RowFits
<1>9. CountedOnce'
  <2> SUFFICES ASSUME NEW q \in Procs, proc'[q].key # NoKey
               PROVE  /\ \A r \in Procs \ {q} : proc'[r].key # proc'[q].key
                      /\ proc'[q].at \in {"find", "make", "write"} => proc'[q].key \notin row'.credit
                      /\ proc'[q].at \in {"find", "make", "write"} =>
                           \A r \in Procs \ {q} : proc'[q].key \notin proc'[r].new.credit
    BY DEF CountedOnce
  <2>1. CASE q = p
    BY <2>1, <1>1, <1>2, <1>3, <1>7, <1>8
  <2>2. CASE q # p
    <3>1. proc'[q] = proc[q] /\ proc[q].key # k
      BY <2>2, <1>2, <1>7
    <3>2. \A r \in Procs \ {q} : proc'[r].key # proc'[q].key
      BY <3>1, <1>1, <1>2 DEF IInv, CountedOnce
    <3>3. proc'[p].new.credit = {}
      BY <1>1, <1>2 DEF NoRow
    <3> QED
      BY <3>1, <3>2, <3>3, <1>2, <1>3 DEF IInv, CountedOnce
  <2> QED
    BY <2>1, <2>2
<1> QED
  BY <1>2, <1>3, <1>4, <1>5, <1>6, <1>9 DEF IInv

(* The row that an award writes counts no key that is still to be written.  *)
LEMMA WriteKeeps ==
  ASSUME IInv, NEW p \in Procs, WriteRow(p)
  PROVE  IInv'
<1> DEFINE s == [proc[p] EXCEPT !.at = "count"]
<1>1. s \in States /\ s.key = proc[p].key /\ s.new = proc[p].new /\ s.at = "count"
  BY DEF IInv, States, Statements
<1>2. /\ proc' \in [Procs -> States] /\ proc'[p] = s
      /\ \A q \in Procs \ {p} : proc'[q] = proc[q]
  BY <1>1, SetOne DEF IInv, WriteRow
<1>3. row' = proc[p].new /\ UNCHANGED <<events, badges, day, failures>>
  BY DEF WriteRow
<1>4. \A q \in Procs : proc'[q].key = proc[q].key /\ proc'[q].new = proc[q].new
  BY <1>1, <1>2
<1>5. /\ \A q \in Procs : RowFits(proc[q].new)'
      /\ RowFits(row)'
  BY <1>3, <1>4 DEF IInv, RowFits, StreakHasEvents, Recorded
<1>6. \A q \in Procs : proc'[q].key # NoKey => Recent(proc[q].key)'
  BY <1>3, <1>4 DEF IInv, Recent
<1>7. \A q \in Procs : proc'[q].at = "look" => proc'[q].key = NoKey
  BY <1>1, <1>2 DEF IInv
<1>8. CountedOnce'
  <2>1. \A q \in Procs : proc'[q].at \in {"find", "make", "write"} => q # p /\ proc'[q] = proc[q]
    BY <1>1, <1>2
  <2>2. \A q \in Procs \ {p} : proc[q].key # NoKey /\ proc[q].at \in {"find", "make", "write"}
                                   => proc[q].key \notin row'.credit
    BY <1>3 DEF IInv, CountedOnce
  <2> QED
    BY <1>4, <2>1, <2>2 DEF IInv, CountedOnce
<1> QED
  BY <1>2, <1>3, <1>5, <1>6, <1>7, <1>8 DEF IInv

(* Midnight finds every award with an event of the day that ends.           *)
LEMMA MidnightKeeps ==
  ASSUME IInv, Midnight
  PROVE  IInv'
<1>1. day' = day + 1 /\ day' \in 0..MaxDay /\ day \in Int
  BY AwardsAssumption DEF IInv, Midnight, AwardsAssumption
<1>2. UNCHANGED <<events, row, badges, proc, failures>>
  BY DEF Midnight
<1>3. \A q \in Procs : proc[q].key # NoKey => Recent(proc[q].key)'
  BY <1>1, <1>2 DEF Midnight, Recent
<1>4. /\ \A q \in Procs : RowFits(proc[q].new)'
      /\ RowFits(row)'
  BY <1>2 DEF IInv, RowFits, StreakHasEvents, Recorded
<1>5. CountedOnce'
  BY <1>2 DEF IInv, CountedOnce
<1> QED
  BY <1>1, <1>2, <1>3, <1>4, <1>5 DEF IInv
----------------------------------------------------------------------------
(* The invariant is preserved by every step.                                *)
LEMMA StepInv == IInv /\ [Next]_vars => IInv'
<1> SUFFICES ASSUME IInv, [Next]_vars PROVE IInv'
  OBVIOUS
<1>1. ASSUME NEW p \in Procs, NEW k \in Keys, Record(p, k) PROVE IInv'
  BY <1>1, RecordKeeps
<1>2. ASSUME NEW p \in Procs, NEW k \in Keys, Skip(p, k) PROVE IInv'
  BY <1>2, EndKeeps DEF Skip, IInv
<1>3. ASSUME NEW p \in Procs, Look(p) PROVE IInv'
  BY <1>3, EndKeeps DEF Look, IInv
<1>4. ASSUME NEW p \in Procs, FindRow(p) PROVE IInv'
  <2>1. CASE row = NoRow
    <3> DEFINE s == [proc[p] EXCEPT !.at = "make"]
    <3>1. s \in States /\ s.key = proc[p].key /\ s.new = proc[p].new /\ s.at = "make"
      BY DEF IInv, States, Statements
    <3>2. proc[p].at = "find" \/ s.key = NoKey
      BY <1>4, <3>1 DEF FindRow, IInv
    <3>3. Set(p, s) /\ UNCHANGED <<events, row, badges, day, failures>>
      BY <1>4, <2>1 DEF FindRow
    <3> QED
      BY <3>1, <3>2, <3>3, MoveKeeps DEF IInv
  <2>2. CASE row # NoRow
    <3>1. GoOn(p, row) /\ UNCHANGED <<events, row, badges, day, failures>>
      BY <1>4, <2>2 DEF FindRow
    <3>2. proc[p].at \in {"find", "look", "make"} /\ RowFits(row)
      BY <1>4 DEF FindRow, IInv
    <3>3. \A q \in Procs : proc[q].key # NoKey /\ proc[q].at \in {"find", "make", "write"}
                              => proc[q].key \notin row.credit
      BY DEF IInv, CountedOnce
    <3> QED
      BY <3>1, <3>2, <3>3, GoOnKeeps
  <2> QED
    BY <2>1, <2>2
<1>5. ASSUME NEW p \in Procs, MakeRow(p) PROVE IInv'
  <2>1. /\ GoOn(p, FirstRow) /\ row' = FirstRow /\ proc[p].at = "make"
        /\ UNCHANGED <<events, badges, day, failures>>
    BY <1>5 DEF MakeRow
  <2>2. FirstRow.credit = {}
    BY DEF FirstRow
  <2> QED
    BY <2>1, <2>2, EmptyRowsFit, GoOnKeeps
<1>6. ASSUME NEW p \in Procs, MakeRowTwice(p) PROVE IInv'
  BY <1>6, EndKeeps DEF MakeRowTwice, IInv
<1>7. ASSUME NEW p \in Procs, WriteRow(p) PROVE IInv'
  BY <1>7, WriteKeeps
<1>8. ASSUME NEW p \in Procs, CountEvents(p) PROVE IInv'
  <2> DEFINE s == [proc[p] EXCEPT !.at = "unlock", !.due = Unlocked(proc[p].new)]
  <2>1. Unlocked(proc[p].new) \in SUBSET Badges
    BY DEF Unlocked, Badges
  <2>2. s \in States /\ s.key = proc[p].key /\ s.new = proc[p].new /\ s.at = "unlock"
    BY <2>1 DEF IInv, States, Statements
  <2> QED
    BY <1>8, <2>2, MoveKeeps DEF CountEvents, IInv
<1>9. ASSUME NEW p \in Procs, Unlock(p) PROVE IInv'
  <2>1. CASE proc[p].due = {}
    BY <1>9, <2>1, EndKeeps DEF Unlock, IInv
  <2>2. CASE proc[p].due # {}
    <3>1. PICK b \in proc[p].due : badges' = badges \cup {b}
                                   /\ Set(p, [proc[p] EXCEPT !.due = @ \ {b}])
      BY <1>9, <2>2 DEF Unlock
    <3> DEFINE s == [proc[p] EXCEPT !.due = @ \ {b}]
    <3>2. s \in States /\ s.key = proc[p].key /\ s.new = proc[p].new /\ s.at = "unlock"
      BY <1>9 DEF IInv, States, Statements, Unlock
    <3>3. badges' \subseteq Badges
      BY <3>1 DEF IInv, States
    <3> QED
      BY <1>9, <3>1, <3>2, <3>3, MoveKeeps DEF Unlock, IInv
  <2> QED
    BY <2>1, <2>2
<1>10. ASSUME NEW p \in Procs, Fail(p) PROVE IInv'
  BY <1>10, EndKeeps DEF Fail, IInv
<1>11. CASE Midnight
  BY <1>11, MidnightKeeps
<1>12. CASE UNCHANGED vars
  BY <1>12 DEF vars, IInv, RowFits, StreakHasEvents, Recorded, Recent, CountedOnce
<1> QED
  BY <1>1, <1>2, <1>3, <1>4, <1>5, <1>6, <1>7, <1>8, <1>9, <1>10, <1>11, <1>12 DEF Next

(* The inductive invariant holds in every reachable state.                  *)
THEOREM InvariantHolds == Spec => []IInv
BY InitInv, StepInv, PTL DEF Spec

(* Rows and requests keep their types, and no streak is longer than the     *)
(* calendar, for any number of overlapping awards.                           *)
THEOREM TypeCorrect == Spec => []TypeOK
<1>1. IInv => TypeOK
  BY DEF IInv, TypeOK, RowFits, States
<1> QED
  BY <1>1, InvariantHolds, PTL

(* XP is never shown that no recorded event gives, whatever awards overlap, *)
(* overwrite each other or are cut short.                                    *)
THEOREM NoXpFromNowhere == Spec => []XpIsEarned
<1>1. IInv => XpIsEarned
  BY DEF IInv, XpIsEarned, RowFits
<1> QED
  BY <1>1, InvariantHolds, PTL

(* No event's XP is added twice: the key of an award in progress is nobody  *)
(* else's, and nobody has counted it before the award writes it.             *)
THEOREM NoDoubleXp == Spec => []CountedOnce
<1>1. IInv => CountedOnce
  BY DEF IInv
<1> QED
  BY <1>1, InvariantHolds, PTL

(* Every day of a streak is a day of XP, give or take a midnight straddled. *)
THEOREM StreaksAreEarned == Spec => []StreakIsEarned
<1>1. IInv => StreakIsEarned
  BY DEF IInv, RowFits, StreakHasEvents, StreakIsEarned
<1> QED
  BY <1>1, InvariantHolds, PTL

----------------------------------------------------------------------------
(* Badges                                                                   *)

\* The recorded events, or the streaks, are what badge b takes.
Deserved(b) ==
  \/ b \in DOMAIN StreakBadges
  \/ b \in DOMAIN CountBadges
     /\ CountOf(CountBadges[b].action) >= CountBadges[b].atLeast
  \/ b \in DOMAIN LevelBadges /\ XP(Recorded) >= XpOfLevel(LevelBadges[b])

\* Request p will unlock badge b: it has yet to count, or has counted enough.
OnTheWay(p, b) ==
  \/ proc[p].key # NoKey /\ proc[p].at \in {"find", "make", "write", "count"}
  \/ proc[p].at = "unlock" /\ b \in proc[p].due

Full(b) == CountOf(CountBadges[b].action) >= CountBadges[b].atLeast

BadgeInv ==
  /\ \A b \in badges : Deserved(b)
  /\ \A p \in Procs : \A b \in proc[p].due : Deserved(b)
  /\ failures = 0 =>
       \A b \in DOMAIN CountBadges :
         Full(b) => b \in badges \/ \E p \in Procs : OnTheWay(p, b)

(* The XP of finitely many keys are finitely many units.                    *)
LEMMA UnitsFinite ==
  ASSUME NEW credit \in SUBSET Keys
  PROVE  IsFiniteSet(UNION {Units(k) : k \in credit})
<1> DEFINE T == {Units(k) : k \in credit}
           f == [k \in credit |-> Units(k)]
<1>1. IsFiniteSet(credit)
  BY FS_Subset, AwardsAssumption DEF AwardsAssumption
<1>2. f \in Surjection(credit, T)
  BY DEF Surjection
<1>3. IsFiniteSet(T)
  BY <1>1, <1>2, FS_Surjection
<1>4. ASSUME NEW k \in credit PROVE IsFiniteSet(Units(k))
  <2>1. Reward[k.action] \in Int
    BY AwardsAssumption DEF AwardsAssumption
  <2>2. IsFiniteSet(1..Reward[k.action])
    BY <2>1, FS_Interval
  <2>3. IsFiniteSet({k})
    BY FS_Singleton
  <2> QED
    BY <2>2, <2>3, FS_Product DEF Units
<1> QED
  BY <1>3, <1>4, FS_UNION

(* More events are more XP.                                                 *)
LEMMA XpGrows ==
  ASSUME NEW less, NEW credit \in SUBSET Keys, less \subseteq credit
  PROVE  XP(less) \in Nat /\ XP(credit) \in Nat /\ XP(less) <= XP(credit)
<1>1. UNION {Units(k) : k \in less} \subseteq UNION {Units(k) : k \in credit}
  OBVIOUS
<1>2. IsFiniteSet(UNION {Units(k) : k \in credit}) /\ IsFiniteSet(UNION {Units(k) : k \in less})
  BY UnitsFinite
<1> QED
  BY <1>1, <1>2, FS_Subset, FS_CardinalityType DEF XP

(* The XP of a level is a number.                                           *)
LEMMA LevelsNumber == \A b \in DOMAIN LevelBadges : XpOfLevel(LevelBadges[b]) \in Int
BY AwardsAssumption DEF AwardsAssumption, XpOfLevel

(* What was deserved stays so: events are only added.                       *)
LEMMA DeservedStays ==
  ASSUME IInv, IInv', events \subseteq events', NEW b, Deserved(b)
  PROVE  Deserved(b)'
<1>1. Recorded \subseteq Recorded' /\ Recorded' \subseteq Keys
  BY DEF Recorded, IInv
<1>2. CASE b \in DOMAIN StreakBadges
  BY <1>2 DEF Deserved
<1>3. CASE b \in DOMAIN CountBadges /\ Full(b)
  <2> DEFINE a == CountBadges[b].action
             old == {k \in Recorded : k.action = a}
             new == {k \in Recorded' : k.action = a}
  <2>1. IsFiniteSet(new) /\ old \subseteq new
    BY <1>1, FS_Subset, AwardsAssumption DEF AwardsAssumption
  <2>2. Cardinality(old) \in Nat /\ Cardinality(new) \in Nat /\ Cardinality(old) <= Cardinality(new)
    BY <2>1, FS_Subset, FS_CardinalityType
  <2>3. CountBadges[b].atLeast \in Nat
    BY <1>3, AwardsAssumption DEF AwardsAssumption
  <2>4. CountOf(a) = Cardinality(old) /\ CountOf(a)' = Cardinality(new)
    BY DEF CountOf
  <2> QED
    BY <1>3, <2>2, <2>3, <2>4 DEF Deserved, Full
<1>4. CASE b \in DOMAIN LevelBadges /\ XP(Recorded) >= XpOfLevel(LevelBadges[b])
  <2>1. XP(Recorded) \in Nat /\ XP(Recorded)' \in Nat /\ XP(Recorded) <= XP(Recorded)'
    <3>1. XP(Recorded)' = XP(Recorded')
      BY DEF XP, Units
    <3> QED
      BY <1>1, <3>1, XpGrows
  <2> QED
    BY <1>4, <2>1, LevelsNumber DEF Deserved, XpOfLevel
<1> QED
  BY <1>2, <1>3, <1>4 DEF Deserved, Full

(* Badges are unlocked by whoever counted what they take.                   *)
LEMMA UnlockedDeserved ==
  ASSUME IInv, NEW p \in Procs, NEW b \in Unlocked(proc[p].new)
  PROVE  Deserved(b)
<1>1. proc[p].new.credit \subseteq Recorded /\ Recorded \subseteq Keys
  BY DEF IInv, RowFits, Recorded
<1>2. /\ XP(proc[p].new.credit) \in Nat /\ XP(Recorded) \in Nat
      /\ XP(proc[p].new.credit) <= XP(Recorded)
  BY <1>1, XpGrows
<1> QED
  BY <1>2, LevelsNumber DEF Unlocked, Deserved

(* What one request holds changes no other's, and what it still has to do    *)
(* towards a badge it goes on having to do, until it has unlocked it.        *)
LEMMA BadgeStep ==
  ASSUME IInv, BadgeInv, IInv', events \subseteq events',
         NEW p \in Procs, NEW s, proc' = [proc EXCEPT ![p] = s],
         badges \subseteq badges',
         \A b \in badges' : b \in badges \/ b \in proc[p].due,
         \A b \in s.due : b \in proc[p].due \/ Deserved(b),
         failures' = 0 => failures = 0,
         \A b \in DOMAIN CountBadges :
           failures' = 0 /\ Full(b)' =>
             \/ Full(b) /\ (OnTheWay(p, b) => b \in badges' \/ OnTheWay(p, b)')
             \/ OnTheWay(p, b)'
  PROVE  BadgeInv'
<1>1. proc'[p] = s /\ \A q \in Procs \ {p} : proc'[q] = proc[q]
  BY DEF IInv
<1>2. \A b : Deserved(b) => Deserved(b)'
  BY DeservedStays
<1>3. \A b \in badges' : Deserved(b)'
  BY <1>2 DEF BadgeInv
<1>4. ASSUME NEW q \in Procs, NEW b \in proc'[q].due PROVE Deserved(b)'
  BY <1>1, <1>2 DEF BadgeInv
<1>5. ASSUME failures' = 0, NEW b \in DOMAIN CountBadges, Full(b)'
      PROVE  b \in badges' \/ \E q \in Procs : OnTheWay(q, b)'
  <2>1. CASE OnTheWay(p, b)'
    BY <2>1
  <2>2. CASE Full(b) /\ (OnTheWay(p, b) => b \in badges' \/ OnTheWay(p, b)')
    <3>1. b \in badges \/ \E q \in Procs : OnTheWay(q, b)
      BY <1>5, <2>2 DEF BadgeInv
    <3>2. \A q \in Procs \ {p} : OnTheWay(q, b) => OnTheWay(q, b)'
      BY <1>1 DEF OnTheWay
    <3> QED
      BY <2>2, <3>1, <3>2
  <2> QED
    BY <1>5, <2>1, <2>2
<1> QED
  BY <1>3, <1>4, <1>5 DEF BadgeInv

(* Counts change with the events only.                                      *)
LEMMA CountsSame ==
  ASSUME events' = events
  PROVE  \A b : Full(b)' <=> Full(b)
BY DEF Full, CountOf, Recorded

(* At first no count is full and no badge is there.                         *)
LEMMA BadgeInit == Init => BadgeInv
<1> SUFFICES ASSUME Init PROVE BadgeInv
  OBVIOUS
<1>1. Recorded = {}
  BY DEF Init, Recorded
<1>2. \A p \in Procs : proc[p].due = {}
  BY DEF Init, Free
<1>3. badges = {}
  BY DEF Init
<1>4. ASSUME NEW b \in DOMAIN CountBadges PROVE ~ Full(b)
  <2>1. {k \in Recorded : k.action = CountBadges[b].action} = {}
    BY <1>1
  <2>2. CountOf(CountBadges[b].action) = 0
    BY <2>1, FS_EmptySet DEF CountOf
  <2> QED
    BY <2>2, AwardsAssumption DEF Full, AwardsAssumption
<1> QED
  BY <1>2, <1>3, <1>4 DEF BadgeInv

(* Every step of every request keeps what is deserved and on its way.       *)
LEMMA BadgeKeeps == IInv /\ IInv' /\ BadgeInv /\ [Next]_vars => BadgeInv'
<1> SUFFICES ASSUME IInv, IInv', BadgeInv, [Next]_vars PROVE BadgeInv'
  OBVIOUS
<1>0. Free.due = {} /\ failures \in Nat
  BY DEF Free, IInv
<1>1. ASSUME NEW p \in Procs, NEW k \in Keys, Record(p, k) PROVE BadgeInv'
  <2> DEFINE s == [Free EXCEPT !.at = "find", !.key = k]
  <2>1. /\ proc' = [proc EXCEPT ![p] = s] /\ events \subseteq events'
        /\ UNCHANGED <<badges, failures>>
    BY <1>1 DEF Record, Set
  <2>2. s.due = {} /\ s.key = k /\ s.at = "find"
    BY DEF Free
  <2>3. proc'[p] = s
    BY <2>1 DEF IInv
  <2>4. \A b : OnTheWay(p, b)'
    BY <2>2, <2>3, AwardsAssumption DEF OnTheWay, AwardsAssumption
  <2> HIDE DEF s
  <2> QED
    BY <2>1, <2>2, <2>4, BadgeStep
<1>2. ASSUME NEW p \in Procs, NEW k, Skip(p, k) \/ Look(p) PROVE BadgeInv'
  <2> DEFINE s == [Free EXCEPT !.at = "look"]
  <2>1. /\ proc[p] = Free /\ proc' = [proc EXCEPT ![p] = s]
        /\ UNCHANGED <<events, badges>> /\ failures' \in {failures, failures + 1}
    BY <1>2 DEF Skip, Look, Set
  <2>2. s.due = {} /\ \A b : ~ OnTheWay(p, b)
    BY <2>1 DEF Free, OnTheWay
  <2>3. failures' = 0 => failures = 0
    BY <1>0, <2>1
  <2>4. events \subseteq events' /\ badges \subseteq badges' /\ \A b \in badges' : b \in badges
    BY <2>1
  <2>5. \A b : Full(b)' <=> Full(b)
    BY <2>1, CountsSame
  <2> HIDE DEF s
  <2> QED
    BY <2>1, <2>2, <2>3, <2>4, <2>5, BadgeStep
<1>3. ASSUME NEW p \in Procs, NEW before, GoOn(p, before), proc[p].at \in {"find", "look", "make"},
             UNCHANGED <<events, badges, failures>>
      PROVE  BadgeInv'
  <2>1. CASE proc[p].key = NoKey
    <3>1. proc' = [proc EXCEPT ![p] = Free]
      BY <1>3, <2>1 DEF GoOn, Set
    <3>2. \A b : ~ OnTheWay(p, b)
      BY <1>3, <2>1 DEF OnTheWay
    <3> QED
      BY <1>0, <1>3, <3>1, <3>2, CountsSame, BadgeStep
  <2>2. CASE proc[p].key # NoKey
    <3> DEFINE s == [proc[p] EXCEPT !.at = "write", !.new = Awarded(before, proc[p].key)]
    <3>1. proc' = [proc EXCEPT ![p] = s]
      BY <1>3, <2>2 DEF GoOn, Set
    <3>2. s.due = proc[p].due /\ s.key = proc[p].key /\ s.at = "write"
      BY DEF IInv, States
    <3>3. proc'[p] = s
      BY <3>1 DEF IInv
    <3>4. \A b : OnTheWay(p, b)'
      BY <2>2, <3>2, <3>3 DEF OnTheWay
    <3> HIDE DEF s
    <3> QED
      BY <1>3, <3>1, <3>2, <3>4, BadgeStep
  <2> QED
    BY <2>1, <2>2
<1>4. ASSUME NEW p \in Procs, NEW s \in States, Set(p, s),
             s.due = proc[p].due, s.key = proc[p].key,
             s.at \in {"make", "count"}, proc[p].at # "unlock",
             UNCHANGED <<events, badges, failures>>
      PROVE  BadgeInv'
  <2>1. proc' = [proc EXCEPT ![p] = s] /\ proc'[p] = s
    BY <1>4 DEF Set, IInv
  <2>2. \A b : OnTheWay(p, b) => OnTheWay(p, b)'
    BY <1>4, <2>1 DEF OnTheWay
  <2> QED
    BY <1>4, <2>1, <2>2, CountsSame, BadgeStep
<1>5. ASSUME NEW p \in Procs, FindRow(p) PROVE BadgeInv'
  <2>1. proc[p].at \in {"find", "look"} /\ UNCHANGED <<events, badges, failures>>
    BY <1>5 DEF FindRow
  <2>2. CASE row = NoRow
    <3> DEFINE s == [proc[p] EXCEPT !.at = "make"]
    <3>1. Set(p, s)
      BY <1>5, <2>2 DEF FindRow
    <3>2. s \in States /\ s.due = proc[p].due /\ s.key = proc[p].key /\ s.at = "make"
      BY DEF IInv, States, Statements
    <3> HIDE DEF s
    <3> QED
      BY <1>4, <2>1, <3>1, <3>2
  <2>3. CASE row # NoRow
    <3>1. GoOn(p, row)
      BY <1>5, <2>3 DEF FindRow
    <3> QED
      BY <1>3, <2>1, <3>1
  <2> QED
    BY <2>2, <2>3
<1>6. ASSUME NEW p \in Procs, MakeRow(p) PROVE BadgeInv'
  BY <1>3, <1>6 DEF MakeRow
<1>7. ASSUME NEW p \in Procs, MakeRowTwice(p) \/ Fail(p) PROVE BadgeInv'
  <2>1. /\ proc' = [proc EXCEPT ![p] = Free] /\ failures' = failures + 1
        /\ UNCHANGED <<events, badges>>
    BY <1>7 DEF MakeRowTwice, Fail, Set
  <2>2. failures' # 0
    BY <1>0, <2>1
  <2>3. events \subseteq events' /\ badges \subseteq badges' /\ \A b \in badges' : b \in badges
    BY <2>1
  <2>4. Free.due = {}
    BY <1>0
  <2> QED
    BY <2>1, <2>2, <2>3, <2>4, BadgeStep
<1>8. ASSUME NEW p \in Procs, WriteRow(p) PROVE BadgeInv'
  <2> DEFINE s == [proc[p] EXCEPT !.at = "count"]
  <2>1. s \in States /\ s.due = proc[p].due /\ s.key = proc[p].key /\ s.at = "count"
    BY DEF IInv, States, Statements
  <2>2. Set(p, s) /\ proc[p].at = "write" /\ UNCHANGED <<events, badges, failures>>
    BY <1>8 DEF WriteRow
  <2> HIDE DEF s
  <2> QED
    BY <1>4, <2>1, <2>2
<1>9. ASSUME NEW p \in Procs, CountEvents(p) PROVE BadgeInv'
  <2> DEFINE s == [proc[p] EXCEPT !.at = "unlock", !.due = Unlocked(proc[p].new)]
  <2>1. proc' = [proc EXCEPT ![p] = s] /\ UNCHANGED <<events, badges, failures>>
    BY <1>9 DEF CountEvents, Set
  <2>2. s.due = Unlocked(proc[p].new) /\ s.at = "unlock"
    BY DEF IInv, States
  <2>3. proc'[p] = s
    BY <2>1 DEF IInv
  <2>4. \A b \in DOMAIN CountBadges : Full(b) => b \in Unlocked(proc[p].new)
    BY DEF Full, Unlocked
  <2>5. \A b \in DOMAIN CountBadges : Full(b) => OnTheWay(p, b)'
    BY <2>2, <2>3, <2>4 DEF OnTheWay
  <2> HIDE DEF s
  <2> QED
    BY <2>1, <2>2, <2>5, UnlockedDeserved, CountsSame, BadgeStep
<1>10. ASSUME NEW p \in Procs, Unlock(p) PROVE BadgeInv'
  <2>1. proc[p].at = "unlock" /\ UNCHANGED <<events, failures>>
    BY <1>10 DEF Unlock
  <2>2. CASE proc[p].due = {}
    <3>1. proc' = [proc EXCEPT ![p] = Free] /\ UNCHANGED badges
      BY <1>10, <2>2 DEF Unlock, Set
    <3>2. \A b : ~ OnTheWay(p, b)
      BY <2>1, <2>2 DEF OnTheWay
    <3> QED
      BY <1>0, <2>1, <3>1, <3>2, CountsSame, BadgeStep
  <2>3. CASE proc[p].due # {}
    <3>1. PICK c \in proc[p].due : badges' = badges \cup {c}
                                   /\ Set(p, [proc[p] EXCEPT !.due = @ \ {c}])
      BY <1>10, <2>3 DEF Unlock
    <3> DEFINE s == [proc[p] EXCEPT !.due = @ \ {c}]
    <3>2. s.due = proc[p].due \ {c} /\ s.at = "unlock"
      BY <2>1 DEF IInv, States
    <3>3. proc' = [proc EXCEPT ![p] = s] /\ proc'[p] = s
      BY <3>1 DEF Set, IInv
    <3>4. \A b : OnTheWay(p, b) => b \in badges' \/ OnTheWay(p, b)'
      BY <2>1, <3>1, <3>2, <3>3 DEF OnTheWay
    <3> HIDE DEF s
    <3> QED
      BY <2>1, <3>1, <3>2, <3>3, <3>4, CountsSame, BadgeStep
  <2> QED
    BY <2>2, <2>3
<1>11. CASE Midnight \/ UNCHANGED vars
  <2>1. UNCHANGED <<events, badges, proc, failures>>
    BY <1>11 DEF Midnight, vars
  <2>2. \A b : Deserved(b) => Deserved(b)'
    BY <2>1, DeservedStays
  <2>3. \A q \in Procs : \A b : OnTheWay(q, b) => OnTheWay(q, b)'
    BY <2>1 DEF OnTheWay
  <2> QED
    BY <2>1, <2>2, <2>3, CountsSame DEF BadgeInv
<1>12. \/ \E p \in Procs : \/ \E k \in Keys : Record(p, k) \/ Skip(p, k)
                           \/ Look(p) \/ FindRow(p) \/ MakeRow(p) \/ MakeRowTwice(p)
                           \/ WriteRow(p) \/ CountEvents(p) \/ Unlock(p) \/ Fail(p)
       \/ Midnight \/ UNCHANGED vars
  BY DEF Next
<1>13. CASE \E p \in Procs, k \in Keys : Record(p, k) \/ Skip(p, k)
  BY <1>1, <1>2, <1>13
<1>14. CASE \E p \in Procs : Look(p) \/ FindRow(p) \/ MakeRow(p) \/ MakeRowTwice(p)
                             \/ WriteRow(p) \/ CountEvents(p) \/ Unlock(p) \/ Fail(p)
  <2>1. PICK p \in Procs : Look(p) \/ FindRow(p) \/ MakeRow(p) \/ MakeRowTwice(p)
                          \/ WriteRow(p) \/ CountEvents(p) \/ Unlock(p) \/ Fail(p)
    BY <1>14
  <2> QED
    BY <1>2, <1>5, <1>6, <1>7, <1>8, <1>9, <1>10, <2>1
<1> QED
  BY <1>11, <1>12, <1>13, <1>14

(* What is deserved and on its way holds in every reachable state.          *)
THEOREM BadgesHold == Spec => []BadgeInv
BY InvariantHolds, BadgeInit, BadgeKeeps, PTL DEF Spec

(* No badge of a count or a level is unlocked before the recorded events     *)
(* are what it takes (evaluateBadges), whatever awards overlap or fail.      *)
THEOREM BadgesAreDeserved == Spec => []BadgesDeserved
<1>1. BadgeInv => BadgesDeserved
  BY DEF BadgeInv, BadgesDeserved, Deserved
<1> QED
  BY <1>1, BadgesHold, PTL

(* "Badges unlock when you hit the number": once every award has ended and   *)
(* none was cut short, each count that is full has its badge.                *)
THEOREM FullCountsHaveBadges == Spec => []CountBadgesUnlocked
<1>1. BadgeInv => CountBadgesUnlocked
  <2> SUFFICES ASSUME BadgeInv, AtRest, failures = 0, NEW b \in DOMAIN CountBadges, Full(b)
               PROVE  b \in badges
    BY DEF CountBadgesUnlocked, Full
  <2>1. \A p \in Procs : ~ OnTheWay(p, b)
    BY DEF AtRest, OnTheWay, Free
  <2> QED
    BY <2>1 DEF BadgeInv
<1> QED
  BY <1>1, BadgesHold, PTL
=============================================================================
