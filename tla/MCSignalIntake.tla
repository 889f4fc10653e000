---------------------------- MODULE MCSignalIntake ----------------------------
(* Names: n1, n2 somewhat like it, n3 much like it; n3 is also n1's carrier renamed.     *)
(* Facilities: f and fg, whose key begins with f's; h, a handler named in the rows of f. *)
EXTENDS SignalIntake, TLC

N == {"n1", "n2", "n3"}

AlikeOf ==
  [n \in N |-> [m \in N |->
     IF n = m \/ {n, m} = {"n1", "n3"} THEN "same"
     ELSE IF {n, m} = {"n1", "n2"} THEN "review" ELSE "no"]]

Matching == [a \in {"a1", "a2"} |-> [how |-> IF a = "a1" THEN "exact" ELSE "review", parcel |-> "p1"]]

Plant == [name |-> "n1", place |-> "a1"]
Yards == [p \in {"p1"} |-> Plant]

Carrier(name, prior, units) ==
  [dot |-> "d", name |-> name, place |-> "none", local |-> TRUE, isNew |-> FALSE, month |-> units,
   prior |-> prior, units |-> units]

Filing == [number |-> "u", name |-> "n2", place |-> "a2", county |-> "target", day |-> 2,
           action |-> "filing", collateral |-> {"fleet", "forklift"}]
Party == [number |-> "u", name |-> "n2", short |-> "n", place |-> "a2", role |-> "debtor",
          county |-> "none", day |-> 2, action |-> "filing", collateral |-> {}]

Feeds == [fmcsa |-> UNION {FmcsaDrafts(r) : r \in FmcsaFetch({Carrier("n1", Absent, 10)})}]

Pasted ==
  {FmcsaDrafts(Carrier("n3", 10, 14)),
   UNION {UccDrafts(f) : f \in InCounties(JoinUcc({Filing}, {Party}), 0)}}

Refer == {[name |-> "n3", place |-> "none"]}

Own == <<<<"own">>, <<"own">>>>

\* The classes of three facilities, and a plant whose changes leave notes.
Three == {"f", "fg", "h"}
Four == Three \cup {"plant"}
Off == [name |-> "n1", place |-> "none"]
SitedAt == [f \in Four |-> IF f = "plant" THEN Plant ELSE Off]
Begins4 == [f \in Four |-> IF f = "f" THEN {"fg"} ELSE {}]
Names4 == [f \in Four |-> IF f = "h" THEN {"f"} ELSE {}]
Waste(pairs) == [air |-> {}, waste |-> pairs, water |-> {}]
AllLists ==
  {[air |-> {<<"f", 2>>}, waste |-> {<<"f", "LQG">>, <<"fg", "">>}, water |-> {}],
   Waste({<<"f", "very small">>}), Waste({<<"f", "SQG">>, <<"f", "LQG">>}),
   Waste({<<"f", "CESQG">>, <<"fg", "large">>}), Waste({<<"h", "SQG">>})}
  \cup {[air |-> {}, waste |-> {<<"plant", c>>}, water |-> {<<"plant", 1>>}] : c \in {"LQG", "SQG"}}
FeedRows == {{EchoDraft(<<"rcra_change", "f", "LQG", "small">>, "rcra_increase", Off)}}
AllPastes == Pasted \cup {{EchoDraft(<<"rcra_change", "h", "LQG", "SQG">>, "rcra_decrease", Off)}}

Symmetry == Permutations(Slots)

\* The run explores the classes of the three facilities by themselves, with all its
\* requests, and everything else without them, with three requests and failures.
Drafts == UNION {task[s].todo \cup ({task[s].draft} \ {NoDraft}) : s \in {r \in Slots : task[r] # Idle}}
OfClasses(row) == row.source = "echo" /\ row.ref[2] \in Three

ClassesOnly == (\A row \in signals \cup Drafts : OfClasses(row)) /\ buildings = {} /\ \A p \in Parcels : flights[p] = <<>>
OtherwiseOnly == (\A row \in signals \cup Drafts : ~OfClasses(row)) /\ calls + failures <= 3
OneSubject == ClassesOnly \/ OtherwiseOnly
=============================================================================
