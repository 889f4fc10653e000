------------------------- MODULE EnrichmentPassProofs -------------------------
(***************************************************************************)
(* Theorems about the enrichment: for any parcels, owners and sources, any     *)
(* passes and requests side by side, any failures and restarts.               *)
(***************************************************************************)
EXTENDS EnrichmentPass, FiniteSetTheorems, SequenceTheorems, TLAPS

----------------------------------------------------------------------------
\* The types.

\* Steps of the plans, and those of the plans of requests.
RequestSteps == {"arcgis", "flood", "assessor", "sos", "rod", "nearby", "drive_by", "liens", "hitl"}
Steps == RequestSteps \cup {"tax", "tax_sale", "foreclosure", "deeds", "zoning", "permits", "listings",
                            "probate", "graph", "submarkets", "top", "trace"}

WishRows == [parcel : Parcels, type : Types, with : {"nothing", "sale", "lead"},
             until : {"never", "later", "past"}]

Tasks == [at : {"step", "write", "look", "traced", "queue"}, plan : Seq(Steps), pass : {<<>>} \cup Passes,
          on : SUBSET Parcels, rest : SUBSET Parcels, todo : SUBSET WishRows,
          wish : WishRows \cup {NoWish}, found : BOOLEAN, agents : SUBSET Owners]

\* The steps that look at one parcel, and those after which none of them is left.
OnOne == {"sos", "rod", "trace"}
Last == {"trace", "top", "hitl"}

Holds(plan, step) == \E i \in 1..Len(plan) : plan[i] = step

TaskOK(t) ==
  /\ t \in Tasks
  /\ t.at # "step" => t.plan # <<>>
  /\ t.at = "look" => t.wish \in WishRows
  /\ t.at = "traced" => t.pass # <<>> /\ Head(t.plan) = "trace"
  /\ t.at = "queue" => Head(t.plan) = "hitl"
  /\ t.pass = <<>> => t.plan \in Seq(RequestSteps)
  /\ \A i, j \in 1..Len(t.plan) : i < j /\ t.plan[i] \in Last => t.plan[j] \notin OnOne
  /\ (\E step \in OnOne : Holds(t.plan, step)) => \E p \in Parcels : t.on = {p}

TasksOK == task \in [Slots -> Tasks \cup {Idle}] /\ \A s \in Slots : task[s] = Idle \/ TaskOK(task[s])

TypeInv ==
  /\ TasksOK
  /\ rows \in [Parcels -> [Types -> Nat]]
  /\ pending \in [Parcels -> Nat]
  /\ unpaid \subseteq Parcels
  /\ resolved \subseteq Owners
  /\ used \in Nat /\ week \in Nat /\ usedWeek \in Int
  /\ sent \in Nat /\ slack \in Nat
  /\ rodReady \in BOOLEAN

(* Idle is none of the tasks.                                               *)
LEMMA IdleIsNone == Idle \notin Tasks /\ \A t \in Tasks : t # Idle /\ t.at # "idle"
BY DEF Idle, Tasks

(* A plan without its first step.                                           *)
LEMMA TailFacts ==
  ASSUME NEW S, NEW q \in Seq(S), q # <<>>
  PROVE  /\ Head(q) = q[1] /\ 1 \in 1..Len(q)
         /\ Tail(q) \in Seq(S) /\ Len(Tail(q)) = Len(q) - 1
         /\ \A i \in 1..Len(Tail(q)) : Tail(q)[i] = q[i + 1] /\ i + 1 \in 1..Len(q)
BY HeadTailProperties

(* The task goes on with its next step.                                     *)
LEMMA NextStepOK ==
  ASSUME NEW t, TaskOK(t), t.plan # <<>>
  PROVE  TaskOK(NextStep(t))
<1> DEFINE u == NextStep(t)
<1>1. /\ t.plan \in Seq(Steps)
      /\ t.pass = <<>> => t.plan \in Seq(RequestSteps)
  BY DEF TaskOK, Tasks
<1>2. /\ Tail(t.plan) \in Seq(Steps)
      /\ t.pass = <<>> => Tail(t.plan) \in Seq(RequestSteps)
  BY <1>1, TailFacts
<1>3. u \in Tasks /\ u.at = "step" /\ u.plan = Tail(t.plan) /\ u.pass = t.pass /\ u.on = t.on
  BY <1>2 DEF NextStep, TaskOK, Tasks
<1>4. \A i \in 1..Len(u.plan) : u.plan[i] = t.plan[i + 1] /\ i + 1 \in 1..Len(t.plan)
  BY <1>1, <1>3, TailFacts
<1>5. \A i, j \in 1..Len(u.plan) : i < j /\ u.plan[i] \in Last => u.plan[j] \notin OnOne
  <2> SUFFICES ASSUME NEW i \in 1..Len(u.plan), NEW j \in 1..Len(u.plan), i < j, u.plan[i] \in Last
               PROVE  u.plan[j] \notin OnOne
    OBVIOUS
  <2>1. i + 1 < j + 1 /\ i + 1 \in 1..Len(t.plan) /\ j + 1 \in 1..Len(t.plan)
    BY <1>4
  <2> QED
    BY <1>4, <2>1 DEF TaskOK
<1>6. ASSUME NEW step \in OnOne, Holds(u.plan, step) PROVE \E p \in Parcels : u.on = {p}
  <2>1. Holds(t.plan, step)
    BY <1>4, <1>6 DEF Holds
  <2> QED
    BY <1>3, <2>1 DEF TaskOK
<1> QED
  BY <1>2, <1>3, <1>5, <1>6 DEF TaskOK

(* The table of tasks after one of them has gone on.                        *)
LEMMA BecomeFacts ==
  ASSUME TasksOK, NEW s \in Slots, NEW t, t = Idle \/ TaskOK(t), Become(s, t)
  PROVE  /\ TasksOK'
         /\ task'[s] = t
         /\ \A r \in Slots : r # s => task'[r] = task[r]
<1>1. t \in Tasks \cup {Idle}
  BY DEF TaskOK
<1>2. /\ task'[s] = t
      /\ \A r \in Slots : r # s => task'[r] = task[r]
      /\ task' \in [Slots -> Tasks \cup {Idle}]
  BY <1>1 DEF TasksOK, Become
<1> QED
  BY <1>2 DEF TasksOK

(* A task at one of its steps, and how it goes on.                          *)
LEMMA AtStepFacts ==
  ASSUME TasksOK, NEW s \in Slots, NEW some, AtStep(s, some)
  PROVE  TaskOK(task[s]) /\ task[s].at = "step" /\ task[s].plan # <<>> /\ Head(task[s].plan) \in some
BY DEF TasksOK, AtStep, At, Step

LEMMA WishesOK ==
  ASSUME NEW ps \in SUBSET Parcels, NEW t \in Types, NEW with \in {"nothing", "sale", "lead"}
  PROVE  /\ Wishes(ps, t) \subseteq WishRows
         /\ \A p \in ps : Wish(p, t, with) \in WishRows
BY DEF Wishes, Wish, WishRows

LEMMA AsksOK ==
  ASSUME TasksOK, NEW s \in Slots, NEW some, AtStep(s, some),
         NEW wishes \in SUBSET WishRows, Asks(s, wishes)
  PROVE  /\ TasksOK'
         /\ task'[s] = IF wishes = {} THEN NextStep(task[s])
                                      ELSE [task[s] EXCEPT !.at = "write", !.todo = wishes]
         /\ \A r \in Slots : r # s => task'[r] = task[r]
<1>1. TaskOK(task[s]) /\ task[s].plan # <<>>
  BY AtStepFacts
<1>2. TaskOK(NextStep(task[s]))
  BY <1>1, NextStepOK
<1> DEFINE t == [task[s] EXCEPT !.at = "write", !.todo = wishes]
<1>3. /\ t \in Tasks /\ t.at = "write" /\ t.plan = task[s].plan /\ t.pass = task[s].pass
      /\ t.on = task[s].on
  BY <1>1 DEF TaskOK, Tasks
<1>4. TaskOK(t)
  BY <1>1, <1>3 DEF TaskOK
<1> HIDE DEF t
<1>5. Become(s, IF wishes = {} THEN NextStep(task[s]) ELSE t)
  BY DEF Asks, t
<1>6. TaskOK(IF wishes = {} THEN NextStep(task[s]) ELSE t)
  BY <1>2, <1>4
<1> QED
  BY <1>5, <1>6, BecomeFacts DEF t

----------------------------------------------------------------------------
(* What the steps ask for are rows of the table.                            *)
LEMMA ListWishesOK ==
  ASSUME NEW src \in Lists \ {"deeds"}, NEW up \in BOOLEAN
  PROVE  ListStep(src, up) \in SUBSET WishRows
<1> DEFINE shown == Hits[src]
<1>1. \A h \in shown : {"pin", "finds"} \subseteq DOMAIN h /\ h.finds \subseteq Parcels
  BY SourceAssumption DEF Lists
<1>2. \A hits : ByPin(hits) \subseteq Parcels
  BY DEF ByPin, Named
<1>3. \A h \in TextsOf(shown) : h.finds \subseteq Parcels
  BY <1>1 DEF TextsOf
<1>4. \A h \in PinsOf(shown) : h.finds \subseteq Parcels
  BY <1>1 DEF PinsOf
<1>5. \A h : h.finds \subseteq Parcels => Found(h) \subseteq Parcels
  BY DEF Found, Named
<1>6. \A ps \in SUBSET Parcels, t \in Types : Wishes(ps, t) \subseteq WishRows
  BY WishesOK
<1>7. CASE src \in {"tax_sale", "foreclosure"}
  BY <1>2, <1>6, <1>7 DEF ListStep, TaxSaleWishes, ForeclosureWishes, Types
<1>8. CASE src = "zoning"
  <2> DEFINE hits == RecentRezones(up, shown)
  <2>1. \A h \in hits : h.finds \subseteq Parcels
    BY <1>3, <1>4 DEF RecentRezones
  <2>2. UNION {IF h.pin = "none" THEN h.finds ELSE Named(h) : h \in hits} \subseteq Parcels
    BY <2>1 DEF Named
  <2>3. ListStep(src, up) = PlanningWishes(hits)
    BY <1>8 DEF ListStep
  <2> HIDE DEF hits
  <2> QED
    BY <1>6, <2>2, <2>3 DEF PlanningWishes, Types
<1>9. CASE src = "permits"
  <2> DEFINE hits == RecentPermits(up, shown)
  <2>1. \A h \in hits : h.finds \subseteq Parcels
    BY <1>1 DEF RecentPermits
  <2>2. /\ UNION {Found(h) : h \in hits} \subseteq Parcels
        /\ UNION {Found(h) : h \in {g \in hits : g.vacant}} \subseteq Parcels
    BY <1>5, <2>1
  <2>3. ListStep(src, up) = PermitWishes(hits)
    BY <1>9 DEF ListStep
  <2> HIDE DEF hits
  <2> QED
    BY <1>6, <2>2, <2>3 DEF PermitWishes, Types
<1>10. CASE src = "listings"
  <2> DEFINE hits == ActiveListings(up, shown)
  <2>1. \A h \in hits : h.finds \subseteq Parcels
    BY <1>1 DEF ActiveListings
  <2>2. UNION {Found(h) : h \in hits} \subseteq Parcels
    BY <1>5, <2>1
  <2>3. ListStep(src, up) = ListingWishes(hits)
    BY <1>10 DEF ListStep
  <2> HIDE DEF hits
  <2> QED
    BY <1>2, <1>6, <2>2, <2>3 DEF ListingWishes, Types
<1>11. CASE src = "probate"
  <2> DEFINE hits == RecentEstates(up, EstateFeed, shown)
  <2>1. \A h \in hits : h.finds \subseteq Parcels
    BY <1>1, <1>3 DEF RecentEstates
  <2>2. UNION {Found(h) : h \in hits} \subseteq Parcels
    BY <1>5, <2>1
  <2>3. ListStep(src, up) = ProbateWishes(hits)
    BY <1>11 DEF ListStep
  <2> HIDE DEF hits
  <2> QED
    BY <1>6, <2>2, <2>3 DEF ProbateWishes, Types
<1>12. CASE src = "liens"
  BY <1>1, <1>6, <1>12 DEF ListStep, LienWishes, Types
<1> QED
  BY <1>7, <1>8, <1>9, <1>10, <1>11, <1>12 DEF Lists

LEMMA OtherWishesOK ==
  /\ \A hits \in SUBSET Hits["deeds"] : DeedWishes(hits) \in SUBSET WishRows
  /\ \A ps \in SUBSET Parcels : TaxWishes(ps) \in SUBSET WishRows /\ FloodWishes(ps) \in SUBSET WishRows
  /\ \A known : GraphWishes(known) \in SUBSET WishRows
  /\ \A p \in Parcels : SosWishes(p) \in SUBSET WishRows /\ \A answer : MortgageWishes(p, answer) \in SUBSET WishRows
<1>1. \A ps \in SUBSET Parcels, t \in Types : Wishes(ps, t) \subseteq WishRows
  BY WishesOK
<1>2. ASSUME NEW hits \in SUBSET Hits["deeds"] PROVE DeedWishes(hits) \in SUBSET WishRows
  <2>1. /\ ByPin(hits) \subseteq Parcels
        /\ UNION {h.finds : h \in hits} \subseteq Parcels
    BY SourceAssumption DEF ByPin, Named, Lists
  <2>2. {"recent_seller", "deed_comp"} \subseteq Types
    BY DEF Types
  <2>3. \A p \in ByPin(hits) : Wish(p, "deed_comp", "sale") \in WishRows
    BY <2>1, <2>2, WishesOK
  <2>4. \A p \in UNION {h.finds : h \in hits} : Wish(p, "recent_seller", "lead") \in WishRows
    BY <2>1, <2>2, WishesOK
  <2> QED
    BY <1>1, <2>1, <2>2, <2>3, <2>4 DEF DeedWishes
<1>3. ASSUME NEW p \in Parcels, NEW answer PROVE MortgageWishes(p, answer) \in SUBSET WishRows
  <2>1. [Wish(p, "mortgage_maturity", "nothing") EXCEPT !.until = "past"] \in WishRows
    BY DEF Wish, WishRows, Types
  <2> QED
    BY <1>1, <2>1 DEF MortgageWishes, Types
<1>4. \A known : GraphWishes(known) \in SUBSET WishRows
  BY <1>1 DEF GraphWishes, Types
<1>5. /\ \A ps \in SUBSET Parcels : TaxWishes(ps) \in SUBSET WishRows /\ FloodWishes(ps) \in SUBSET WishRows
      /\ \A p \in Parcels : SosWishes(p) \in SUBSET WishRows
  BY <1>1 DEF TaxWishes, FloodWishes, SosWishes, Types
<1> QED
  BY <1>2, <1>3, <1>4, <1>5

----------------------------------------------------------------------------
(* The types are kept.                                                      *)

\* Where plans begin.
Begun == Passes \cup {OneParcel, <<"drive_by">>, <<"liens">>, <<"hitl">>}

(* The plans of requests are none of the passes'.                           *)
LEMMA RequestPlans ==
  /\ \A plan \in {OneParcel, <<"drive_by">>, <<"liens">>, <<"hitl">>} : plan \notin Passes
  /\ \A plan \in Passes : plan # OneParcel
  /\ OneParcel \notin {<<"drive_by">>, <<"liens">>, <<"hitl">>}
<1>1. Len(OneParcel) = 7 /\ Len(FullPass) = 13 /\ Len(RodWatch) = 2 /\ Len(TaxSync) = 3
  BY DEF FullPass, RodWatch, TaxSync, OneParcel
<1>2. Len(<<"drive_by">>) = 1 /\ Len(<<"liens">>) = 1 /\ Len(<<"hitl">>) = 1
  OBVIOUS
<1> QED
  BY <1>1, <1>2 DEF Passes

(* What a plan holds where it begins.                                       *)
LEMMA PlanFacts ==
  ASSUME NEW plan \in Begun
  PROVE  /\ plan \in Seq(Steps) /\ plan # <<>>
         /\ plan \notin Passes => plan \in Seq(RequestSteps)
         /\ plan # OneParcel => \A i \in 1..Len(plan) : plan[i] \notin OnOne
         /\ plan = OneParcel => \A i \in 1..Len(plan) : plan[i] \notin Last
<1>1. CASE plan = FullPass
  <2>1. plan \in Seq(Steps) /\ Len(plan) = 13
    BY <1>1 DEF FullPass, Steps, RequestSteps
  <2>2. \A i \in 1..13 : plan[i] \notin OnOne
    BY <1>1 DEF FullPass, OnOne
  <2>3. plan \in Passes
    BY <1>1 DEF Passes
  <2> QED
    BY <2>1, <2>2, <2>3, RequestPlans
<1>2. CASE plan = RodWatch
  <2>1. plan \in Seq(Steps) /\ Len(plan) = 2
    BY <1>2 DEF RodWatch, Steps, RequestSteps
  <2>2. \A i \in 1..2 : plan[i] \notin OnOne
    BY <1>2 DEF RodWatch, OnOne
  <2>3. plan \in Passes
    BY <1>2 DEF Passes
  <2> QED
    BY <2>1, <2>2, <2>3, RequestPlans
<1>3. CASE plan = TaxSync
  <2>1. plan \in Seq(Steps) /\ Len(plan) = 3
    BY <1>3 DEF TaxSync, Steps, RequestSteps
  <2>2. \A i \in 1..3 : plan[i] \notin OnOne
    BY <1>3 DEF TaxSync, OnOne
  <2>3. plan \in Passes
    BY <1>3 DEF Passes
  <2> QED
    BY <2>1, <2>2, <2>3, RequestPlans
<1>4. CASE plan = OneParcel
  <2>1. plan \in Seq(Steps) /\ plan \in Seq(RequestSteps) /\ Len(plan) = 7
    BY <1>4 DEF OneParcel, Steps, RequestSteps
  <2>2. \A i \in 1..7 : plan[i] \notin Last
    BY <1>4 DEF OneParcel, Last
  <2> QED
    BY <1>4, <2>1, <2>2
<1>5. ASSUME NEW step \in {"drive_by", "liens", "hitl"}, plan = <<step>>
      PROVE  /\ plan \in Seq(Steps) /\ plan # <<>> /\ plan \in Seq(RequestSteps)
             /\ \A i \in 1..Len(plan) : plan[i] \notin OnOne
  <2>1. step \in Steps /\ step \in RequestSteps /\ step \notin OnOne
    BY DEF Steps, RequestSteps, OnOne
  <2> QED
    BY <1>5, <2>1
<1>6. \A step \in {"drive_by", "liens", "hitl"} : <<step>> # OneParcel
  BY RequestPlans
<1> QED
  BY <1>1, <1>2, <1>3, <1>4, <1>5, <1>6 DEF Begun, Passes

(* A task that begins.                                                      *)
LEMMA BeginsOK ==
  ASSUME NEW plan \in Begun, NEW pass \in {<<>>, plan}, pass = <<>> \/ pass \in Passes,
         pass = <<>> => plan \notin Passes,
         NEW ps \in SUBSET Parcels, plan = OneParcel => \E p \in Parcels : ps = {p}
  PROVE  TaskOK(Task(plan, pass, ps))
<1>1. /\ plan \in Seq(Steps)
      /\ plan \notin Passes => plan \in Seq(RequestSteps)
      /\ plan # OneParcel => \A i \in 1..Len(plan) : plan[i] \notin OnOne
      /\ plan = OneParcel => \A i \in 1..Len(plan) : plan[i] \notin Last
  BY PlanFacts
<1>2. NoWish \in WishRows \cup {NoWish}
  OBVIOUS
<1> DEFINE t == Task(plan, pass, ps)
<1>3. t \in Tasks /\ t.at = "step" /\ t.plan = plan /\ t.pass = pass /\ t.on = ps
  BY <1>1, <1>2 DEF Task, Tasks
<1> HIDE DEF t
<1>4. \A i, j \in 1..Len(plan) : i < j /\ plan[i] \in Last => plan[j] \notin OnOne
  BY <1>1
<1>5. (\E step \in OnOne : Holds(plan, step)) => \E p \in Parcels : ps = {p}
  BY <1>1 DEF Holds
<1>6. pass = <<>> => plan \in Seq(RequestSteps)
  BY <1>1
<1>7. TaskOK(t)
  BY <1>3, <1>4, <1>5, <1>6 DEF TaskOK
<1> QED
  BY <1>7 DEF t

LEMMA StartPassKeepsType ==
  ASSUME TypeInv, NEW s \in Slots, NEW plan \in Passes, StartPass(s, plan)
  PROVE  /\ TypeInv' /\ task[s] = Idle /\ task'[s] = Task(plan, plan, Top)
         /\ \A r \in Slots : r # s => task'[r] = task[r]
<1>1. plan # <<>> /\ plan # OneParcel
  BY DEF Passes, FullPass, RodWatch, TaxSync, OneParcel
<1>2. TaskOK(Task(plan, plan, Top))
  BY <1>1, BeginsOK, PassAssumption DEF Begun
<1>3. Become(s, Task(plan, plan, Top)) /\ task[s] = Idle
  BY DEF StartPass, Arrives
<1> QED
  BY <1>2, <1>3, BecomeFacts DEF TypeInv, StartPass, tableVars, traceVars, rodVars

LEMMA StartRequestKeepsType ==
  ASSUME TypeInv, NEW s \in Slots,
         \/ \E p \in Parcels : StartRequest(s, OneParcel, {p}) \/ StartRequest(s, <<"drive_by">>, {p})
         \/ StartRequest(s, <<"liens">>, {}) \/ StartRequest(s, <<"hitl">>, {})
  PROVE  /\ TypeInv'
         /\ task[s] = Idle
         /\ \E plan \in Begun : \E ps : task'[s] = Task(plan, <<>>, ps)
         /\ \A r \in Slots : r # s => task'[r] = task[r]
<1>1. PICK plan \in Begun, ps \in SUBSET Parcels :
        /\ StartRequest(s, plan, ps)
        /\ plan \notin Passes
        /\ plan = OneParcel => \E p \in Parcels : ps = {p}
  <2>1. {OneParcel, <<"drive_by">>, <<"liens">>, <<"hitl">>} \subseteq Begun
    BY DEF Begun
  <2>2. CASE \E p \in Parcels : StartRequest(s, OneParcel, {p})
    BY <2>1, <2>2, RequestPlans
  <2>3. CASE \E p \in Parcels : StartRequest(s, <<"drive_by">>, {p})
    BY <2>1, <2>3, RequestPlans
  <2>4. CASE StartRequest(s, <<"liens">>, {}) \/ StartRequest(s, <<"hitl">>, {})
    BY <2>1, <2>4, RequestPlans
  <2> QED
    BY <2>2, <2>3, <2>4
<1>2. TaskOK(Task(plan, <<>>, ps))
  BY <1>1, BeginsOK
<1>3. Become(s, Task(plan, <<>>, ps)) /\ task[s] = Idle
  BY <1>1 DEF StartRequest, Arrives
<1>4. UNCHANGED <<rodVars, signalVars, traceVars, ownVars>>
  BY <1>1 DEF StartRequest
<1>5. /\ TypeInv' /\ task'[s] = Task(plan, <<>>, ps)
      /\ \A r \in Slots : r # s => task'[r] = task[r]
  BY <1>2, <1>3, <1>4, BecomeFacts DEF TypeInv, signalVars, tableVars, traceVars, rodVars, ownVars
<1> QED
  BY <1>3, <1>5

\* The steps that read a source or a table and ask for rows.
Reads(s) ==
  \/ AskList(s) \/ AskDeeds(s) \/ AskTables(s) \/ PassesOver(s) \/ AskFlood(s) \/ AskAssessor(s)
  \/ AskRegister(s) \/ AskMortgage(s)

Reading == Steps \ {"top", "trace", "hitl", "arcgis"}

(* The parcel looked at, where the step is about one.                       *)
LEMMA TheOne ==
  ASSUME TasksOK, NEW s \in Slots, AtStep(s, OnOne)
  PROVE  The(s) \in Parcels /\ OwnerAt(s) \in Owners /\ task[s].on = {The(s)}
<1>1. TaskOK(task[s]) /\ task[s].plan # <<>> /\ Head(task[s].plan) \in OnOne
  BY AtStepFacts
<1>2. task[s].plan \in Seq(Steps)
  BY <1>1 DEF TaskOK, Tasks
<1>3. Holds(task[s].plan, Head(task[s].plan))
  BY <1>1, <1>2, TailFacts DEF Holds
<1>4. PICK p \in Parcels : task[s].on = {p}
  BY <1>1, <1>3 DEF TaskOK
<1>5. The(s) = p
  BY <1>4 DEF The
<1> QED
  BY <1>4, <1>5, SourceAssumption DEF OwnerAt

LEMMA ReadsAsk ==
  ASSUME TypeInv, NEW s \in Slots, Reads(s)
  PROVE  /\ AtStep(s, Reading)
         /\ \E wishes \in SUBSET WishRows : Asks(s, wishes)
<1>1. TasksOK
  BY DEF TypeInv
<1>2. CASE AskList(s)
  <2>1. AtStep(s, Lists \ {"deeds"})
    BY <1>2 DEF AskList
  <2>2. Step(s) \in Lists \ {"deeds"}
    BY <2>1 DEF AtStep
  <2>3. ListStep(Step(s), TRUE) \in SUBSET WishRows /\ ListStep(Step(s), FALSE) \in SUBSET WishRows
    BY <2>2, ListWishesOK
  <2>4. AtStep(s, Reading)
    BY <2>1 DEF AtStep, Lists, Reading, Steps, RequestSteps
  <2> QED
    BY <1>2, <2>3, <2>4 DEF AskList
<1>3. CASE AskDeeds(s)
  <2>1. \A answer \in DeedAnswers : answer.deeds \in SUBSET Hits["deeds"]
    BY PassAssumption DEF DeedAnswers
  <2>2. \E hits \in SUBSET Hits["deeds"] : Asks(s, DeedWishes(hits))
    BY <1>3, <2>1 DEF AskDeeds
  <2>3. AtStep(s, Reading)
    BY <1>3 DEF AskDeeds, AtStep, Reading, Steps, RequestSteps
  <2> QED
    BY <2>2, <2>3, OtherWishesOK
<1>4. CASE AskTables(s)
  <2>1. Step(s) \in {"tax", "graph", "drive_by"} /\ AtStep(s, Reading)
    BY <1>4 DEF AskTables, AtStep, Reading, Steps, RequestSteps
  <2>2. TaskOK(task[s])
    BY <1>1, <1>4, AtStepFacts DEF AskTables
  <2>3. TaxWishes(unpaid) \in SUBSET WishRows /\ GraphWishes(resolved) \in SUBSET WishRows
    BY OtherWishesOK DEF TypeInv
  <2>4. Wishes(task[s].on, "drive_by") \in SUBSET WishRows
    BY <2>2, WishesOK DEF TaskOK, Tasks, Types
  <2> QED
    BY <1>4, <2>1, <2>3, <2>4 DEF AskTables
<1>5. CASE PassesOver(s)
  BY <1>5 DEF PassesOver, AtStep, Reading, Steps, RequestSteps
<1>6. CASE AskFlood(s)
  <2>1. TaskOK(task[s]) /\ AtStep(s, Reading)
    BY <1>1, <1>6, AtStepFacts DEF AskFlood, AtStep, Reading, Steps, RequestSteps
  <2>2. \A down : {p \in task[s].on : HighRisk(p \notin down, p \in Flooded)} \in SUBSET Parcels
    BY <2>1 DEF TaskOK, Tasks
  <2> QED
    BY <1>6, <2>1, <2>2, OtherWishesOK DEF AskFlood
<1>7. CASE AskAssessor(s)
  <2>1. TaskOK(task[s]) /\ AtStep(s, Reading)
    BY <1>1, <1>7, AtStepFacts DEF AskAssessor, AtStep, Reading, Steps, RequestSteps
  <2>2. Wishes(Assessed(task[s].on), "property_scrape") \in SUBSET WishRows
    BY <2>1, WishesOK DEF TaskOK, Tasks, Types, Assessed
  <2> QED
    BY <1>7, <2>1, <2>2 DEF AskAssessor
<1>8. CASE AskRegister(s)
  <2>1. AtStep(s, OnOne) /\ AtStep(s, Reading)
    BY <1>8 DEF AskRegister, AtStep, OnOne, Reading, Steps, RequestSteps
  <2>2. SosWishes(The(s)) \in SUBSET WishRows
    BY <1>1, <2>1, TheOne, OtherWishesOK
  <2>3. Asks(s, SosWishes(The(s))) \/ Asks(s, {})
    BY <1>8 DEF AskRegister
  <2> QED
    BY <2>1, <2>2, <2>3
<1>9. CASE AskMortgage(s)
  <2>1. AtStep(s, OnOne) /\ AtStep(s, Reading)
    BY <1>9 DEF AskMortgage, AtStep, OnOne, Reading, Steps, RequestSteps
  <2>2. \A answer : MortgageWishes(The(s), answer) \in SUBSET WishRows
    BY <1>1, <2>1, TheOne, OtherWishesOK
  <2> QED
    BY <1>9, <2>1, <2>2 DEF AskMortgage
<1> QED
  BY <1>2, <1>3, <1>4, <1>5, <1>6, <1>7, <1>8, <1>9 DEF Reads

LEMMA ReadsKeepType ==
  ASSUME TypeInv, NEW s \in Slots, Reads(s)
  PROVE  /\ TypeInv'
         /\ AtStep(s, Reading)
         /\ \E wishes \in SUBSET WishRows :
              task'[s] = IF wishes = {} THEN NextStep(task[s])
                                        ELSE [task[s] EXCEPT !.at = "write", !.todo = wishes]
         /\ \A r \in Slots : r # s => task'[r] = task[r]
         /\ UNCHANGED <<tableVars, owing, used, usedWeek, sent, slack, unpaid, pending, week, passRow, requeued, rodReady>>
<1>1. TasksOK
  BY DEF TypeInv
<1>2. AtStep(s, Reading)
  BY ReadsAsk
<1>3. PICK wishes \in SUBSET WishRows : Asks(s, wishes)
  BY ReadsAsk
<1>4. /\ TasksOK'
      /\ task'[s] = IF wishes = {} THEN NextStep(task[s])
                                   ELSE [task[s] EXCEPT !.at = "write", !.todo = wishes]
      /\ \A r \in Slots : r # s => task'[r] = task[r]
  BY <1>1, <1>2, <1>3, AsksOK
<1>5. UNCHANGED <<tableVars, owing, used, usedWeek, sent, slack, unpaid, pending, week, passRow, requeued, rodReady>>
  BY DEF Reads, AskList, AskDeeds, AskTables, PassesOver, AskFlood, AskAssessor, AskRegister, AskMortgage,
         signalVars, tableVars, traceVars, ownVars, rodVars, SearchDeeds, FindMortgage
<1>6. resolved' \subseteq Owners
  <2>1. CASE AskRegister(s)
    <3>1. AtStep(s, OnOne)
      BY <2>1 DEF AskRegister, AtStep, OnOne
    <3>2. OwnerAt(s) \in Owners
      BY <1>1, <3>1, TheOne
    <3>3. resolved' = resolved \/ resolved' = resolved \cup {OwnerAt(s)}
      BY <2>1 DEF AskRegister
    <3> QED
      BY <3>2, <3>3 DEF TypeInv
  <2>2. CASE resolved' = resolved
    BY <2>2 DEF TypeInv
  <2> QED
    BY <2>1, <2>2 DEF Reads, AskList, AskDeeds, AskTables, PassesOver, AskFlood, AskAssessor, AskMortgage, ownVars
<1> QED
  BY <1>2, <1>4, <1>5, <1>6 DEF TypeInv, tableVars

(* The rows asked for are looked for and written, one after the other.      *)
LEMMA LookKeepsType ==
  ASSUME TypeInv, NEW s \in Slots, Look(s)
  PROVE  /\ TypeInv'
         /\ TaskOK(task[s]) /\ task[s].at = "write"
         /\ \E w \in task[s].todo :
              /\ w \in WishRows
              /\ task'[s] = [task[s] EXCEPT !.at = "look", !.todo = @ \ {w}, !.wish = w,
                                            !.found = FoundRow(w.parcel, w.type)]
         /\ \A r \in Slots : r # s => task'[r] = task[r]
<1>1. TaskOK(task[s]) /\ task[s].at = "write"
  BY DEF TypeInv, TasksOK, Look, At
<1>2. PICK w \in task[s].todo :
        Become(s, [task[s] EXCEPT !.at = "look", !.todo = @ \ {w}, !.wish = w, !.found = FoundRow(w.parcel, w.type)])
  BY DEF Look
<1> DEFINE t == [task[s] EXCEPT !.at = "look", !.todo = @ \ {w}, !.wish = w, !.found = FoundRow(w.parcel, w.type)]
<1>3. w \in WishRows
  BY <1>1 DEF TaskOK, Tasks
<1>4. FoundRow(w.parcel, w.type) \in BOOLEAN
  BY DEF FoundRow
<1>5. /\ t \in Tasks /\ t.at = "look" /\ t.plan = task[s].plan /\ t.pass = task[s].pass
      /\ t.on = task[s].on /\ t.wish = w
  BY <1>1, <1>3, <1>4 DEF TaskOK, Tasks
<1>6. TaskOK(t)
  BY <1>1, <1>3, <1>5 DEF TaskOK
<1> HIDE DEF t
<1>7. /\ TasksOK' /\ task'[s] = t
      /\ \A r \in Slots : r # s => task'[r] = task[r]
  BY <1>2, <1>6, BecomeFacts DEF TypeInv, t
<1>8. TypeInv'
  BY <1>7 DEF TypeInv, Look, signalVars, tableVars, traceVars, ownVars, rodVars
<1> QED
  BY <1>1, <1>3, <1>7, <1>8 DEF t

LEMMA BackOK ==
  ASSUME NEW t, TaskOK(t), t.at = "look"
  PROVE  TaskOK(Back(t))
<1>1. TaskOK(NextStep(t))
  BY NextStepOK DEF TaskOK
<1> DEFINE u == [t EXCEPT !.at = "write", !.wish = NoWish, !.found = FALSE]
<1>2. u \in Tasks /\ u.at = "write" /\ u.plan = t.plan /\ u.pass = t.pass /\ u.on = t.on
  BY DEF TaskOK, Tasks
<1>3. TaskOK(u)
  BY <1>2 DEF TaskOK
<1> QED
  BY <1>1, <1>3 DEF Back

LEMMA WriteKeepsType ==
  ASSUME TypeInv, NEW s \in Slots, Write(s)
  PROVE  /\ TypeInv'
         /\ TaskOK(task[s]) /\ task[s].at = "look" /\ task[s].wish \in WishRows
         /\ task'[s] = Back(task[s])
         /\ \A r \in Slots : r # s => task'[r] = task[r]
         /\ \A p \in Parcels, type \in Types :
              rows'[p][type] = IF p = task[s].wish.parcel /\ type = task[s].wish.type /\ ~task[s].found
                               THEN rows[p][type] + 1 ELSE rows[p][type]
<1>1. TaskOK(task[s]) /\ task[s].at = "look"
  BY DEF TypeInv, TasksOK, Write, At
<1>2. task[s].wish \in WishRows /\ task[s].found \in BOOLEAN
  BY <1>1 DEF TaskOK, Tasks
<1>3. TaskOK(Back(task[s]))
  BY <1>1, BackOK
<1>4. Become(s, Back(task[s]))
  BY DEF Write
<1>5. /\ TasksOK' /\ task'[s] = Back(task[s])
      /\ \A r \in Slots : r # s => task'[r] = task[r]
  BY <1>3, <1>4, BecomeFacts DEF TypeInv
<1> DEFINE w == task[s].wish
<1>6. w.parcel \in Parcels /\ w.type \in Types
  BY <1>2 DEF WishRows
<1>7. rows' = IF task[s].found THEN rows ELSE [rows EXCEPT ![w.parcel][w.type] = @ + 1]
  BY DEF Write
<1>8. rows \in [Parcels -> [Types -> Nat]]
  BY DEF TypeInv
<1>9. /\ rows' \in [Parcels -> [Types -> Nat]]
      /\ \A p \in Parcels, type \in Types :
           rows'[p][type] = IF p = w.parcel /\ type = w.type /\ ~task[s].found
                            THEN rows[p][type] + 1 ELSE rows[p][type]
  <2> HIDE DEF w
  <2> QED
    BY <1>2, <1>6, <1>7, <1>8
<1>10. TypeInv'
  BY <1>5, <1>9 DEF TypeInv, Write, rodVars, traceVars, ownVars
<1> QED
  BY <1>1, <1>2, <1>5, <1>9, <1>10

LEMMA CountyKeepsType ==
  ASSUME TypeInv, NEW s \in Slots, AskCounty(s)
  PROVE  /\ TypeInv'
         /\ AtStep(s, {"arcgis"}) /\ task'[s] = NextStep(task[s])
         /\ \A r \in Slots : r # s => task'[r] = task[r]
<1>1. AtStep(s, {"arcgis"}) /\ Become(s, NextStep(task[s]))
  BY DEF AskCounty
<1>2. TaskOK(NextStep(task[s]))
  BY <1>1, AtStepFacts, NextStepOK DEF TypeInv
<1>3. /\ TasksOK' /\ task'[s] = NextStep(task[s])
      /\ \A r \in Slots : r # s => task'[r] = task[r]
  BY <1>1, <1>2, BecomeFacts DEF TypeInv
<1>4. unpaid' \subseteq Parcels
  <2>1. task[s].on \subseteq Parcels
    BY <1>1, AtStepFacts DEF TypeInv, TaskOK, Tasks
  <2>2. \E ps \in {{}, task[s].on} : unpaid' \in {unpaid \ ps, unpaid \cup ps}
    BY DEF AskCounty, Recorded
  <2> QED
    BY <2>1, <2>2 DEF TypeInv
<1> QED
  BY <1>1, <1>3, <1>4 DEF TypeInv, AskCounty, Recorded, rodVars, tableVars, traceVars

(* What follows the head of a plan that is about the top.                   *)
LEMMA TopPlanFacts ==
  ASSUME NEW plan \in Seq(Steps), plan # <<>>, Head(plan) = "top",
         \A i, j \in 1..Len(plan) : i < j /\ plan[i] \in Last => plan[j] \notin OnOne
  PROVE  /\ \A step \in OnOne : ~Holds(plan, step)
         /\ TopPlan \o plan \in Seq(Steps) /\ TopPlan \o plan # <<>>
         /\ Len(TopPlan \o plan) = Len(plan) + 3
         /\ \A i \in 1..Len(plan) : (TopPlan \o plan)[i + 3] = plan[i]
         /\ \A i \in 1..3 : (TopPlan \o plan)[i] = TopPlan[i]
         /\ \A i, j \in 1..Len(TopPlan \o plan) :
              i < j /\ (TopPlan \o plan)[i] \in Last => (TopPlan \o plan)[j] \notin OnOne
<1>1. Head(plan) = plan[1] /\ 1 \in 1..Len(plan) /\ Len(plan) \in Nat
  BY TailFacts
<1>2. \A i \in 1..Len(plan) : plan[i] \notin OnOne
  <2>1. plan[1] \notin OnOne /\ plan[1] \in Last
    BY <1>1 DEF OnOne, Last
  <2>2. \A i \in 1..Len(plan) : i = 1 \/ 1 < i
    OBVIOUS
  <2> QED
    BY <1>1, <2>1, <2>2
<1>3. TopPlan \in Seq(Steps) /\ Len(TopPlan) = 3
  BY DEF TopPlan, Steps, RequestSteps
<1> DEFINE whole == TopPlan \o plan
<1>4. /\ whole \in Seq(Steps) /\ Len(whole) = Len(plan) + 3
      /\ \A i \in 1..Len(whole) : whole[i] = IF i <= 3 THEN TopPlan[i] ELSE plan[i - 3]
  <2>1. /\ whole \in Seq(Steps) /\ Len(whole) = Len(TopPlan) + Len(plan)
        /\ \A i \in 1..Len(TopPlan) + Len(plan) :
             whole[i] = IF i <= Len(TopPlan) THEN TopPlan[i] ELSE plan[i - Len(TopPlan)]
    BY <1>3, ConcatProperties, Zenon
  <2> HIDE DEF whole
  <2> QED
    BY <1>1, <1>3, <2>1
<1>5. whole # <<>>
  BY <1>1, <1>4
<1>6. /\ \A i \in 1..Len(plan) : whole[i + 3] = plan[i]
      /\ \A i \in 1..3 : whole[i] = TopPlan[i]
  BY <1>1, <1>4
<1>7. ASSUME NEW i \in 1..Len(whole), NEW j \in 1..Len(whole), i < j, whole[i] \in Last
      PROVE  whole[j] \notin OnOne
  <2>1. i \notin {1, 2}
    BY <1>6, <1>7 DEF TopPlan, Last
  <2>2. j > 3 /\ j - 3 \in 1..Len(plan)
    BY <1>1, <1>4, <1>7, <2>1
  <2> QED
    BY <1>2, <1>4, <2>2
<1> QED
  BY <1>2, <1>4, <1>5, <1>6, <1>7 DEF Holds

LEMMA TopNextKeepsType ==
  ASSUME TypeInv, NEW s \in Slots, TopNext(s)
  PROVE  /\ TypeInv'
         /\ TaskOK(task[s]) /\ AtStep(s, {"top"})
         /\ \/ \E u : TaskOK(u) /\ u.plan = task[s].plan /\ u.pass = task[s].pass /\ task'[s] = NextStep(u)
            \/ /\ TaskOK(task'[s]) /\ task'[s].at = "step" /\ task'[s].pass = task[s].pass
               /\ task'[s].plan = TopPlan \o task[s].plan
         /\ \A r \in Slots : r # s => task'[r] = task[r]
<1>1. /\ TaskOK(task[s]) /\ task[s].plan # <<>> /\ Head(task[s].plan) = "top" /\ AtStep(s, {"top"})
      /\ task[s].at = "step"
  <2>1. AtStep(s, {"top"})
    BY DEF TopNext
  <2> QED
    BY <2>1, AtStepFacts DEF TypeInv
<1>2. /\ task[s].plan \in Seq(Steps)
      /\ \A i, j \in 1..Len(task[s].plan) : i < j /\ task[s].plan[i] \in Last => task[s].plan[j] \notin OnOne
  BY <1>1 DEF TaskOK, Tasks
<1>3. /\ \A step \in OnOne : ~Holds(task[s].plan, step)
      /\ TopPlan \o task[s].plan \in Seq(Steps) /\ TopPlan \o task[s].plan # <<>>
      /\ \A i, j \in 1..Len(TopPlan \o task[s].plan) :
           i < j /\ (TopPlan \o task[s].plan)[i] \in Last => (TopPlan \o task[s].plan)[j] \notin OnOne
  BY <1>1, <1>2, TopPlanFacts
<1>4. task[s].pass # <<>>
  <2>1. "top" \notin RequestSteps
    BY DEF RequestSteps
  <2>2. task[s].pass = <<>> => Head(task[s].plan) \in RequestSteps
    <3>1. task[s].pass = <<>> => task[s].plan \in Seq(RequestSteps)
      BY <1>1 DEF TaskOK
    <3> QED
      BY <1>1, <3>1, HeadTailProperties
  <2> QED
    BY <1>1, <2>1, <2>2
<1>5. CASE task[s].on = {}
  <2> DEFINE u == [task[s] EXCEPT !.on = Top, !.agents = {}]
  <2>1. u \in Tasks /\ u.at = "step" /\ u.plan = task[s].plan /\ u.pass = task[s].pass
    BY <1>1, PassAssumption DEF TaskOK, Tasks
  <2>2. TaskOK(u)
    BY <1>1, <1>3, <2>1 DEF TaskOK
  <2> HIDE DEF u
  <2>3. TaskOK(NextStep(u))
    BY <1>1, <2>1, <2>2, NextStepOK
  <2>4. Become(s, NextStep(u))
    BY <1>5 DEF TopNext, u
  <2>5. /\ TasksOK' /\ task'[s] = NextStep(u)
        /\ \A r \in Slots : r # s => task'[r] = task[r]
    BY <2>3, <2>4, BecomeFacts DEF TypeInv
  <2>6. TypeInv'
    BY <2>5 DEF TypeInv, TopNext, rodVars, signalVars, tableVars, traceVars, ownVars
  <2> QED
    BY <1>1, <2>1, <2>2, <2>5, <2>6
<1>6. CASE task[s].on # {}
  <2>1. PICK p \in task[s].on :
          Become(s, [task[s] EXCEPT !.plan = TopPlan \o @, !.on = {p}, !.rest = task[s].on \ {p},
                                   !.agents = IF task[s].on = Top THEN resolved ELSE @])
    BY <1>6 DEF TopNext
  <2> DEFINE u == [task[s] EXCEPT !.plan = TopPlan \o @, !.on = {p}, !.rest = task[s].on \ {p},
                                  !.agents = IF task[s].on = Top THEN resolved ELSE @]
  <2>2. p \in Parcels /\ resolved \subseteq Owners
    BY <1>1 DEF TaskOK, Tasks, TypeInv
  <2>3. /\ u \in Tasks /\ u.at = "step" /\ u.plan = TopPlan \o task[s].plan /\ u.pass = task[s].pass
        /\ u.on = {p}
    BY <1>1, <1>3, <2>2 DEF TaskOK, Tasks
  <2>4. TaskOK(u)
    BY <1>3, <1>4, <2>2, <2>3 DEF TaskOK
  <2> HIDE DEF u
  <2>5. Become(s, u)
    BY <2>1 DEF u
  <2>6. /\ TasksOK' /\ task'[s] = u
        /\ \A r \in Slots : r # s => task'[r] = task[r]
    BY <2>4, <2>5, BecomeFacts DEF TypeInv
  <2>7. TypeInv'
    BY <2>6 DEF TypeInv, TopNext, rodVars, signalVars, tableVars, traceVars, ownVars
  <2> QED
    BY <1>1, <2>3, <2>4, <2>6, <2>7
<1> QED
  BY <1>5, <1>6

(* The parcel at hand is done with, or the review filed; what is left is about no *)
(* single parcel any more.                                                  *)
LEMMA NoneLeft ==
  ASSUME NEW t, TaskOK(t), t.plan # <<>>, Head(t.plan) \in Last,
         NEW u, u \in Tasks, u.plan = Tail(t.plan), u.pass = t.pass, u.at = "step"
  PROVE  TaskOK(u)
<1>1. /\ t.plan \in Seq(Steps) /\ 1 \in 1..Len(t.plan) /\ t.plan[1] \in Last
      /\ \A i \in 1..Len(u.plan) : u.plan[i] = t.plan[i + 1] /\ i + 1 \in 1..Len(t.plan)
  BY TailFacts DEF TaskOK, Tasks
<1>2. u.pass = <<>> => u.plan \in Seq(RequestSteps)
  BY TailFacts DEF TaskOK
<1>3. \A i \in 1..Len(u.plan) : u.plan[i] \notin OnOne
  <2> SUFFICES ASSUME NEW i \in 1..Len(u.plan) PROVE u.plan[i] \notin OnOne
    OBVIOUS
  <2>1. i + 1 \in 1..Len(t.plan) /\ 1 < i + 1
    BY <1>1
  <2> QED
    BY <1>1, <2>1 DEF TaskOK
<1> QED
  BY <1>2, <1>3 DEF TaskOK, Holds

LEMMA TopOnOK ==
  ASSUME NEW t, TaskOK(t), t.plan # <<>>, Head(t.plan) \in Last
  PROVE  /\ TaskOK(TopOn(NextStep(t)))
         /\ TopOn(NextStep(t)).plan = Tail(t.plan) /\ TopOn(NextStep(t)).pass = t.pass
         /\ TopOn(NextStep(t)).at = "step"
<1> DEFINE n == NextStep(t)
           u == TopOn(n)
<1>1. n \in Tasks /\ n.plan = Tail(t.plan) /\ n.pass = t.pass /\ n.at = "step"
  <2>1. TaskOK(n)
    BY NextStepOK
  <2> QED
    BY <2>1 DEF TaskOK, Tasks, NextStep
<1> HIDE DEF n
<1>2. u \in Tasks /\ u.plan = Tail(t.plan) /\ u.pass = t.pass /\ u.at = "step"
  BY <1>1 DEF TopOn, Tasks
<1> HIDE DEF u
<1>3. TaskOK(u)
  BY <1>2, NoneLeft
<1> QED
  BY <1>2, <1>3 DEF n, u

(* Skip traces belong to passes.                                            *)
LEMMA StepOfPass ==
  ASSUME TasksOK, NEW s \in Slots, NEW some, AtStep(s, some), some \cap RequestSteps = {}
  PROVE  task[s].pass # <<>>
<1>1. TaskOK(task[s]) /\ task[s].plan # <<>> /\ Head(task[s].plan) \in some
  BY AtStepFacts
<1>2. task[s].pass = <<>> => task[s].plan \in Seq(RequestSteps)
  BY <1>1 DEF TaskOK
<1>3. task[s].pass = <<>> => Head(task[s].plan) \in RequestSteps
  BY <1>1, <1>2, HeadTailProperties
<1> QED
  BY <1>1, <1>3

LEMMA TraceKeepsType ==
  ASSUME TypeInv, NEW s \in Slots, Trace(s)
  PROVE  /\ TypeInv'
         /\ TaskOK(task[s]) /\ AtStep(s, {"trace"}) /\ task[s].pass # <<>>
         /\ \/ /\ MayTrace /\ sent' = sent + 1
               /\ task'[s].at = "traced" /\ task'[s].plan = task[s].plan /\ task'[s].pass = task[s].pass
            \/ /\ sent' = sent
               /\ task'[s].at = "step" /\ task'[s].plan = Tail(task[s].plan) /\ task'[s].pass = task[s].pass
         /\ TaskOK(task'[s])
         /\ \A r \in Slots : r # s => task'[r] = task[r]
<1>1. AtStep(s, {"trace"})
  BY DEF Trace
<1>2. TaskOK(task[s]) /\ task[s].plan # <<>> /\ Head(task[s].plan) = "trace" /\ task[s].at = "step"
  BY <1>1, AtStepFacts DEF TypeInv
<1>3. task[s].pass # <<>>
  BY <1>1, StepOfPass DEF RequestSteps, TypeInv
<1>4. UsedNow \in Nat
  BY DEF UsedNow, TypeInv
<1>5. CASE MayTrace /\ Traceable(s)
  <2> DEFINE t == [task[s] EXCEPT !.at = "traced"]
  <2>1. /\ t \in Tasks /\ t.at = "traced" /\ t.plan = task[s].plan /\ t.pass = task[s].pass
        /\ t.on = task[s].on
    BY <1>2 DEF TaskOK, Tasks
  <2>2. TaskOK(t)
    BY <1>2, <1>3, <2>1 DEF TaskOK
  <2> HIDE DEF t
  <2>3. Become(s, t) /\ sent' = sent + 1
    BY <1>5 DEF Trace, t
  <2>4. /\ TasksOK' /\ task'[s] = t
        /\ \A r \in Slots : r # s => task'[r] = task[r]
    BY <2>2, <2>3, BecomeFacts DEF TypeInv
  <2>5. TypeInv'
    BY <1>4, <2>3, <2>4 DEF TypeInv, Trace, rodVars, signalVars, tableVars, ownVars
  <2> QED
    BY <1>1, <1>2, <1>3, <1>5, <2>1, <2>2, <2>3, <2>4, <2>5
<1>6. CASE ~(MayTrace /\ Traceable(s))
  <2> DEFINE t == TopOn(NextStep(task[s]))
  <2>1. TaskOK(t) /\ t.at = "step" /\ t.plan = Tail(task[s].plan) /\ t.pass = task[s].pass
    BY <1>2, TopOnOK DEF Last
  <2> HIDE DEF t
  <2>2. Become(s, t) /\ sent' = sent
    BY <1>6 DEF Trace, t
  <2>3. /\ TasksOK' /\ task'[s] = t
        /\ \A r \in Slots : r # s => task'[r] = task[r]
    BY <2>1, <2>2, BecomeFacts DEF TypeInv
  <2>4. TypeInv'
    BY <1>4, <2>2, <2>3 DEF TypeInv, Trace, rodVars, signalVars, tableVars, ownVars
  <2> QED
    BY <1>1, <1>2, <1>3, <2>1, <2>2, <2>3, <2>4
<1> QED
  BY <1>5, <1>6

LEMMA TracedKeepsType ==
  ASSUME TypeInv, NEW s \in Slots, Traced(s)
  PROVE  /\ TypeInv'
         /\ TaskOK(task[s]) /\ task[s].at = "traced" /\ task[s].pass # <<>>
         /\ task'[s].at = "step" /\ task'[s].plan = Tail(task[s].plan) /\ task'[s].pass = task[s].pass
         /\ TaskOK(task'[s])
         /\ \A r \in Slots : r # s => task'[r] = task[r]
<1>1. TaskOK(task[s]) /\ task[s].at = "traced"
  BY DEF TypeInv, TasksOK, Traced, At
<1>2. task[s].plan # <<>> /\ Head(task[s].plan) = "trace" /\ task[s].pass # <<>>
  BY <1>1 DEF TaskOK
<1> DEFINE t == TopOn(NextStep(task[s]))
<1>3. TaskOK(t) /\ t.at = "step" /\ t.plan = Tail(task[s].plan) /\ t.pass = task[s].pass
  BY <1>1, <1>2, TopOnOK DEF Last
<1> HIDE DEF t
<1>4. Become(s, t)
  BY DEF Traced, t
<1>5. /\ TasksOK' /\ task'[s] = t
      /\ \A r \in Slots : r # s => task'[r] = task[r]
  BY <1>3, <1>4, BecomeFacts DEF TypeInv
<1>6. used' \in Nat /\ usedWeek' \in Int /\ slack' \in Nat /\ sent' = sent
  BY DEF TypeInv, Traced, UsedNow
<1>7. TypeInv'
  BY <1>5, <1>6 DEF TypeInv, Traced, rodVars, signalVars, tableVars, ownVars
<1> QED
  BY <1>1, <1>2, <1>3, <1>5, <1>7

(* The queue of reviews.                                                    *)
LEMMA QueueReadsKeepsType ==
  ASSUME TypeInv, NEW s \in Slots, QueueReads(s)
  PROVE  /\ TypeInv'
         /\ TaskOK(task[s]) /\ AtStep(s, {"hitl"})
         /\ task'[s] = [task[s] EXCEPT !.at = "queue", !.on = {p \in Top : Queueable(p)}]
         /\ TaskOK(task'[s])
         /\ \A r \in Slots : r # s => task'[r] = task[r]
<1>1. AtStep(s, {"hitl"})
  BY DEF QueueReads
<1>2. TaskOK(task[s]) /\ task[s].plan # <<>> /\ Head(task[s].plan) = "hitl" /\ task[s].at = "step"
  BY <1>1, AtStepFacts DEF TypeInv
<1> DEFINE t == [task[s] EXCEPT !.at = "queue", !.on = {p \in Top : Queueable(p)}]
<1>3. {p \in Top : Queueable(p)} \subseteq Parcels
  BY PassAssumption
<1>4. /\ t \in Tasks /\ t.at = "queue" /\ t.plan = task[s].plan /\ t.pass = task[s].pass
  BY <1>2, <1>3 DEF TaskOK, Tasks
<1>5. /\ task[s].plan \in Seq(Steps) /\ 1 \in 1..Len(task[s].plan) /\ task[s].plan[1] = "hitl"
  BY <1>2, TailFacts DEF TaskOK, Tasks
<1>6. \A i \in 1..Len(task[s].plan) : task[s].plan[i] \notin OnOne
  <2> SUFFICES ASSUME NEW i \in 1..Len(task[s].plan) PROVE task[s].plan[i] \notin OnOne
    OBVIOUS
  <2>1. "hitl" \in Last /\ "hitl" \notin OnOne
    BY DEF Last, OnOne
  <2> QED
    BY <1>2, <1>5, <2>1 DEF TaskOK
<1>7. TaskOK(t)
  <2>1. \A step \in OnOne : ~Holds(t.plan, step)
    BY <1>4, <1>6 DEF Holds
  <2> HIDE DEF t
  <2> QED
    BY <1>2, <1>4, <2>1 DEF TaskOK
<1> HIDE DEF t
<1>8. Become(s, t)
  BY DEF QueueReads, t
<1>9. /\ TasksOK' /\ task'[s] = t
      /\ \A r \in Slots : r # s => task'[r] = task[r]
  BY <1>7, <1>8, BecomeFacts DEF TypeInv
<1>10. TypeInv'
  BY <1>9 DEF TypeInv, QueueReads, rodVars, signalVars, tableVars, traceVars, ownVars
<1> QED
  BY <1>1, <1>2, <1>7, <1>9, <1>10 DEF t

(* While reviews are filed the plan holds nothing about a single parcel.    *)
LEMMA Queueing ==
  ASSUME NEW t, TaskOK(t), t.at = "queue"
  PROVE  t.plan # <<>> /\ Head(t.plan) = "hitl" /\ \A step \in OnOne : ~Holds(t.plan, step)
<1>1. t.plan # <<>> /\ Head(t.plan) = "hitl" /\ t.plan \in Seq(Steps)
  BY DEF TaskOK, Tasks
<1>2. 1 \in 1..Len(t.plan) /\ t.plan[1] = "hitl"
  BY <1>1, TailFacts
<1>3. \A i \in 1..Len(t.plan) : t.plan[i] \notin OnOne
  <2> SUFFICES ASSUME NEW i \in 1..Len(t.plan) PROVE t.plan[i] \notin OnOne
    OBVIOUS
  <2>1. "hitl" \in Last /\ "hitl" \notin OnOne
    BY DEF Last, OnOne
  <2> QED
    BY <1>2, <2>1 DEF TaskOK
<1> QED
  BY <1>1, <1>3 DEF Holds

LEMMA QueueAddsKeepsType ==
  ASSUME TypeInv, NEW s \in Slots, QueueAdds(s)
  PROVE  /\ TypeInv'
         /\ TaskOK(task[s]) /\ task[s].at = "queue"
         /\ \E p \in task[s].on :
              /\ p \in Parcels
              /\ task'[s] = [task[s] EXCEPT !.on = @ \ {p}]
              /\ pending' = [pending EXCEPT ![p] = @ + 1]
              /\ requeued' = IF \E r \in Slots \ {s} : At(r, "queue") /\ p \in task[r].on
                             THEN requeued \cup {p} ELSE requeued
         /\ TaskOK(task'[s])
         /\ \A r \in Slots : r # s => task'[r] = task[r]
<1>1. TaskOK(task[s]) /\ task[s].at = "queue"
  BY DEF TypeInv, TasksOK, QueueAdds, At
<1>2. \A step \in OnOne : ~Holds(task[s].plan, step)
  BY <1>1, Queueing
<1>3. PICK p \in task[s].on :
        /\ pending' = [pending EXCEPT ![p] = @ + 1]
        /\ requeued' = IF \E r \in Slots \ {s} : At(r, "queue") /\ p \in task[r].on
                       THEN requeued \cup {p} ELSE requeued
        /\ Become(s, [task[s] EXCEPT !.on = @ \ {p}])
  BY DEF QueueAdds
<1> DEFINE t == [task[s] EXCEPT !.on = @ \ {p}]
<1>4. /\ t \in Tasks /\ t.at = "queue" /\ t.plan = task[s].plan /\ t.pass = task[s].pass
      /\ p \in Parcels
  BY <1>1 DEF TaskOK, Tasks
<1> HIDE DEF t
<1>5. TaskOK(t)
  BY <1>1, <1>2, <1>4 DEF TaskOK
<1>6. /\ TasksOK' /\ task'[s] = t
      /\ \A r \in Slots : r # s => task'[r] = task[r]
  BY <1>3, <1>5, BecomeFacts DEF TypeInv, t
<1>7. pending' \in [Parcels -> Nat]
  BY <1>3, <1>4 DEF TypeInv
<1>8. TypeInv'
  BY <1>6, <1>7 DEF TypeInv, QueueAdds, rodVars, signalVars, tableVars, traceVars
<1> QED
  BY <1>1, <1>3, <1>4, <1>5, <1>6, <1>8 DEF t

LEMMA QueueDoneKeepsType ==
  ASSUME TypeInv, NEW s \in Slots, QueueDone(s)
  PROVE  /\ TypeInv'
         /\ TaskOK(task[s]) /\ task[s].at = "queue"
         /\ task'[s] = NextStep(task[s])
         /\ \A r \in Slots : r # s => task'[r] = task[r]
<1>1. TaskOK(task[s]) /\ task[s].at = "queue"
  BY DEF TypeInv, TasksOK, QueueDone, At
<1>2. TaskOK(NextStep(task[s]))
  BY <1>1, Queueing, NextStepOK
<1>3. Become(s, NextStep(task[s]))
  BY DEF QueueDone
<1>4. /\ TasksOK' /\ task'[s] = NextStep(task[s])
      /\ \A r \in Slots : r # s => task'[r] = task[r]
  BY <1>2, <1>3, BecomeFacts DEF TypeInv
<1> QED
  BY <1>1, <1>4 DEF TypeInv, QueueDone, rodVars, signalVars, tableVars, traceVars, ownVars

(* The end of a task, and steps of no task.                                 *)
LEMMA EndsKeepType ==
  ASSUME TypeInv, NEW s \in Slots,
         TaskDone(s) \/ TaskFails(s) \/ WatchSkipped(s) \/ \E p \in Parcels : Reviewed(s, p) \/ Reopened(s, p)
  PROVE  /\ TypeInv'
         /\ task'[s] = Idle \/ (/\ TaskOK(task[s]) /\ task[s].plan # <<>> /\ task'[s] = NextStep(task[s])
                                /\ task[s].pass # <<>> => Head(task[s].plan) \in {"sos", "rod"})
         /\ \A r \in Slots : r # s => task'[r] = task[r]
<1> DEFINE Caught == /\ TaskOK(task[s]) /\ task[s].plan # <<>>
                     /\ task[s].pass # <<>> => Head(task[s].plan) \in {"sos", "rod"}
<1>1. Become(s, Idle) \/ (Caught /\ Become(s, NextStep(task[s])))
  <2>1. CASE TaskFails(s)
    <3>1. TaskOK(task[s])
      BY <2>1 DEF TaskFails, TypeInv, TasksOK
    <3>2. CASE ~Guarded(s)
      BY <2>1, <3>2 DEF TaskFails, Ends
    <3>3. CASE Guarded(s)
      <4>1. Caught
        BY <2>1, <3>1, <3>3 DEF Guarded, TaskFails, Passing, Step
      <4> QED
        BY <2>1, <3>3, <4>1 DEF TaskFails
    <3> QED
      BY <3>2, <3>3
  <2>2. CASE ~TaskFails(s)
    BY <2>2 DEF TaskDone, WatchSkipped, Reviewed, Reopened, Ends
  <2> QED
    BY <2>1, <2>2
<1>2. Caught => TaskOK(NextStep(task[s]))
  BY NextStepOK
<1>3. /\ TasksOK'
      /\ task'[s] = Idle \/ (Caught /\ task'[s] = NextStep(task[s]))
      /\ \A r \in Slots : r # s => task'[r] = task[r]
  <2> HIDE DEF Caught
  <2> QED
    BY <1>1, <1>2, BecomeFacts DEF TypeInv
<1>4. pending' \in [Parcels -> Nat]
  BY DEF TypeInv, TaskDone, TaskFails, WatchSkipped, Reviewed, Reopened
<1>5. UNCHANGED <<tableVars, unpaid, resolved, used, week, usedWeek, sent, slack, rodReady>>
  BY DEF TaskDone, TaskFails, WatchSkipped, Reviewed, Reopened, signalVars, tableVars, traceVars, rodVars, SearchDeeds
<1> QED
  BY <1>3, <1>4, <1>5 DEF TypeInv, tableVars

\* Steps that leave every task where it is.
Outside ==
  \/ NewWeek \/ (SessionExpires /\ Quiet) \/ (CacheAges /\ Quiet)
  \/ \E p \in Parcels, t \in Types : Lapses(p, t)
  \/ \E p \in Synced : SyncWrites(p)

LEMMA OutsideKeepsType ==
  ASSUME TypeInv, Outside
  PROVE  TypeInv' /\ UNCHANGED <<task, rows, raced, pending, requeued, passRow, rodReady>>
<1>1. UNCHANGED <<task, rows, raced, pending, requeued, passRow, rodReady, resolved, used, usedWeek>>
  BY DEF Outside, NewWeek, SessionExpires, CacheAges, Quiet, Lapses, SyncWrites, Recorded,
         deskVars, rodVars, signalVars, tableVars, traceVars, ownVars
<1>2. week' \in Nat /\ sent' \in Nat /\ slack' \in Nat
  <2>1. CASE NewWeek
    BY <2>1 DEF TypeInv, NewWeek
  <2>2. CASE UNCHANGED <<week, sent, slack>>
    BY <2>2 DEF TypeInv
  <2> QED
    BY <2>1, <2>2 DEF Outside, Quiet, Lapses, SyncWrites, Recorded, traceVars, ownVars
<1>3. unpaid' \subseteq Parcels
  <2>1. CASE unpaid' = unpaid
    BY <2>1 DEF TypeInv
  <2>2. CASE \E p \in Synced : SyncWrites(p)
    BY <2>2, PassAssumption DEF SyncWrites, Recorded, TypeInv
  <2> QED
    BY <2>1, <2>2 DEF Outside, NewWeek, Quiet, Lapses, ownVars
<1> QED
  BY <1>1, <1>2, <1>3 DEF TypeInv, TasksOK

LEMMA RestartKeepsType ==
  ASSUME TypeInv, Restart
  PROVE  /\ TypeInv' /\ \A s \in Slots : task'[s] = Idle
         /\ UNCHANGED <<rows, raced, pending, requeued, passRow, rodReady>>
<1>1. \A s \in Slots : task'[s] = Idle
  BY DEF Restart
<1>2. TasksOK'
  BY <1>1 DEF Restart, TasksOK
<1>3. used' \in Nat /\ usedWeek' \in Int /\ slack' \in Nat /\ sent' = sent
  BY PassAssumption DEF Restart, TypeInv
<1> QED
  BY <1>1, <1>2, <1>3 DEF TypeInv, Restart, RodForgets, signalVars, tableVars, ownVars

\* The steps of a slot, in the order of the lemmas above.
SlotStep(s) ==
  \/ \E plan \in Passes : StartPass(s, plan)
  \/ \/ \E p \in Parcels : StartRequest(s, OneParcel, {p}) \/ StartRequest(s, <<"drive_by">>, {p})
     \/ StartRequest(s, <<"liens">>, {}) \/ StartRequest(s, <<"hitl">>, {})
  \/ Reads(s) \/ Look(s) \/ Write(s) \/ AskCounty(s) \/ TopNext(s) \/ Trace(s) \/ Traced(s)
  \/ QueueReads(s) \/ QueueAdds(s) \/ QueueDone(s)
  \/ TaskDone(s) \/ TaskFails(s) \/ WatchSkipped(s) \/ \E p \in Parcels : Reviewed(s, p) \/ Reopened(s, p)

LEMMA NextIs == Next <=> (\E s \in Slots : SlotStep(s)) \/ Outside \/ Restart
BY Zenon DEF Next, SlotStep, Reads, Outside

LEMMA TypeStep ==
  ASSUME TypeInv, [Next]_vars
  PROVE  TypeInv'
<1>1. ASSUME NEW s \in Slots, SlotStep(s) PROVE TypeInv'
  BY <1>1, StartPassKeepsType, StartRequestKeepsType, ReadsKeepType, LookKeepsType, WriteKeepsType,
     CountyKeepsType, TopNextKeepsType, TraceKeepsType, TracedKeepsType, QueueReadsKeepsType,
     QueueAddsKeepsType, QueueDoneKeepsType, EndsKeepType DEF SlotStep
<1>2. CASE UNCHANGED vars
  BY <1>2 DEF TypeInv, TasksOK, vars, deskVars, rodVars, signalVars, tableVars, traceVars, ownVars
<1> QED
  BY <1>1, <1>2, NextIs, OutsideKeepsType, RestartKeepsType

LEMMA TypeInit == Init => TypeInv
<1> SUFFICES ASSUME Init PROVE TypeInv
  OBVIOUS
<1>1. TasksOK
  BY DEF Init, DeskInit, TasksOK
<1>2. rows \in [Parcels -> [Types -> Nat]] /\ pending \in [Parcels -> Nat]
  BY DEF Init
<1> QED
  BY <1>1, <1>2, PassAssumption DEF Init, RodInit, TypeInv

----------------------------------------------------------------------------
(* One pass at a time.                                                      *)
LEMMA NextStepFacts ==
  ASSUME NEW t \in Tasks
  PROVE  /\ NextStep(t).at = "step" /\ NextStep(t).plan = Tail(t.plan) /\ NextStep(t).pass = t.pass
         /\ NextStep(t).todo = {} /\ NextStep(t).found = FALSE
BY DEF NextStep, Tasks

\* A task begins as a pass only when there is none; what goes on stays what it is.
LEMMA PassKept ==
  ASSUME TypeInv, NEW s \in Slots, SlotStep(s)
  PROVE  /\ \A r \in Slots : r # s => task'[r] = task[r]
         /\ \/ Passing = {} /\ \E plan \in Passes : StartPass(s, plan)
            \/ task'[s] = Idle
            \/ task'[s].pass = <<>>
            \/ TaskOK(task[s]) /\ task'[s].pass = task[s].pass
<1>1. CASE \E plan \in Passes : StartPass(s, plan)
  <2>1. Passing = {}
    BY <1>1 DEF StartPass
  <2>2. \A r \in Slots : r # s => task'[r] = task[r]
    BY <1>1, StartPassKeepsType
  <2> QED
    BY <1>1, <2>1, <2>2
<1>2. CASE \/ \E p \in Parcels : StartRequest(s, OneParcel, {p}) \/ StartRequest(s, <<"drive_by">>, {p})
           \/ StartRequest(s, <<"liens">>, {}) \/ StartRequest(s, <<"hitl">>, {})
  <2>1. PICK plan \in Begun : \E ps : task'[s] = Task(plan, <<>>, ps)
    BY <1>2, StartRequestKeepsType
  <2>2. task'[s].pass = <<>>
    BY <2>1 DEF Task
  <2> QED
    BY <1>2, <2>2, StartRequestKeepsType
<1>3. CASE Reads(s)
  <2>1. TaskOK(task[s])
    BY <1>3, ReadsKeepType, AtStepFacts DEF TypeInv
  <2>2. PICK wishes : task'[s] = IF wishes = {} THEN NextStep(task[s])
                                 ELSE [task[s] EXCEPT !.at = "write", !.todo = wishes]
    BY <1>3, ReadsKeepType
  <2>3. task'[s].pass = task[s].pass
    <3>1. task[s] \in Tasks
      BY <2>1 DEF TaskOK
    <3> QED
      BY <2>2, <3>1, NextStepFacts DEF Tasks
  <2> QED
    BY <1>3, <2>1, <2>3, ReadsKeepType
<1>4. CASE Look(s)
  <2>1. TaskOK(task[s]) /\ task'[s].pass = task[s].pass
    <3>1. TaskOK(task[s])
      BY <1>4, LookKeepsType
    <3>2. task[s] \in Tasks
      BY <3>1 DEF TaskOK
    <3>3. PICK w : task'[s] = [task[s] EXCEPT !.at = "look", !.todo = @ \ {w}, !.wish = w,
                                             !.found = FoundRow(w.parcel, w.type)]
      BY <1>4, LookKeepsType
    <3> QED
      BY <3>1, <3>2, <3>3 DEF Tasks
  <2> QED
    BY <1>4, <2>1, LookKeepsType
<1>5. CASE Write(s)
  <2>1. TaskOK(task[s]) /\ task'[s] = Back(task[s])
    BY <1>5, WriteKeepsType
  <2>2. Back(task[s]).pass = task[s].pass
    BY <2>1, NextStepFacts DEF Back, TaskOK, Tasks
  <2> QED
    BY <1>5, <2>1, <2>2, WriteKeepsType
<1>6. CASE AskCounty(s)
  <2>1. TaskOK(task[s])
    BY <1>6, CountyKeepsType, AtStepFacts DEF TypeInv
  <2> QED
    BY <1>6, <2>1, CountyKeepsType, NextStepFacts DEF TaskOK
<1>7. CASE TopNext(s)
  <2>1. TaskOK(task[s]) /\ task'[s].pass = task[s].pass
    <3>1. \A u : TaskOK(u) => NextStep(u).pass = u.pass
      BY NextStepFacts DEF TaskOK
    <3> QED
      BY <1>7, <3>1, TopNextKeepsType
  <2> QED
    BY <1>7, <2>1, TopNextKeepsType
<1>8. CASE Trace(s) \/ Traced(s)
  BY <1>8, TraceKeepsType, TracedKeepsType
<1>9. CASE QueueReads(s)
  <2>1. TaskOK(task[s]) /\ task'[s].pass = task[s].pass
    BY <1>9, QueueReadsKeepsType DEF TaskOK, Tasks
  <2> QED
    BY <1>9, <2>1, QueueReadsKeepsType
<1>10. CASE QueueAdds(s)
  <2>1. TaskOK(task[s]) /\ task'[s].pass = task[s].pass
    <3>1. TaskOK(task[s])
      BY <1>10, QueueAddsKeepsType
    <3>2. task[s] \in Tasks
      BY <3>1 DEF TaskOK
    <3>3. PICK p : task'[s] = [task[s] EXCEPT !.on = @ \ {p}]
      BY <1>10, QueueAddsKeepsType
    <3> QED
      BY <3>1, <3>2, <3>3 DEF Tasks
  <2> QED
    BY <1>10, <2>1, QueueAddsKeepsType
<1>11. CASE QueueDone(s)
  BY <1>11, QueueDoneKeepsType, NextStepFacts DEF TaskOK
<1>12. CASE TaskDone(s) \/ TaskFails(s) \/ WatchSkipped(s) \/ \E p \in Parcels : Reviewed(s, p) \/ Reopened(s, p)
  BY <1>12, EndsKeepType, NextStepFacts DEF TaskOK
<1> QED
  BY <1>1, <1>2, <1>3, <1>4, <1>5, <1>6, <1>7, <1>8, <1>9, <1>10, <1>11, <1>12 DEF SlotStep

OnePass == \A s, r \in Passing : s = r

LEMMA OnePassStep ==
  ASSUME TypeInv, OnePass, [Next]_vars
  PROVE  OnePass'
<1>1. ASSUME NEW s \in Slots, SlotStep(s) PROVE OnePass'
  <2>1. CASE Passing = {}
    BY <1>1, <2>1, PassKept DEF OnePass, Passing
  <2>2. CASE Passing # {}
    <3>1. Passing' \subseteq Passing
      <4>1. task'[s] = Idle \/ task'[s].pass = <<>> \/ (task[s] # Idle /\ task'[s].pass = task[s].pass)
        BY <1>1, <2>2, PassKept, IdleIsNone DEF TaskOK
      <4>2. \A r \in Slots : r # s => task'[r] = task[r]
        BY <1>1, PassKept
      <4> QED
        BY <4>1, <4>2 DEF Passing
    <3> QED
      BY <3>1 DEF OnePass
  <2> QED
    BY <2>1, <2>2
<1>2. CASE Outside \/ UNCHANGED vars
  BY <1>2, OutsideKeepsType DEF OnePass, Passing, vars, deskVars
<1>3. CASE Restart
  BY <1>3, RestartKeepsType DEF OnePass, Passing
<1> QED
  BY <1>1, <1>2, <1>3, NextIs

----------------------------------------------------------------------------
(* The cap of the skip traces.                                              *)

\* Traces that are sent and not answered: of the one pass, so at most one.
InTrace == {s \in Slots : At(s, "traced")}

\* What was sent this week has been counted, is on its way, or was taken off the
\* counter; and the counter, which is never of a week to come, does not pass the cap.
TraceInv ==
  /\ usedWeek <= week
  /\ UsedNow <= Cap
  /\ IF InTrace = {} THEN sent <= UsedNow + slack
     ELSE UsedNow < Cap /\ sent <= UsedNow + slack + 1

counterVars == <<used, usedWeek, week, sent, slack>>

LEMMA TracingPasses ==
  ASSUME TypeInv, NEW s \in InTrace
  PROVE  s \in Passing /\ TaskOK(task[s]) /\ task[s].at = "traced" /\ Head(task[s].plan) = "trace"
<1>1. s \in Slots /\ task[s] # Idle /\ TaskOK(task[s]) /\ task[s].at = "traced"
  BY DEF InTrace, At, TypeInv, TasksOK
<1> QED
  BY <1>1 DEF TaskOK, Passing

(* Most steps end a task, or bring it to its next step or to rows it asks for. *)
LEMMA PlainStep ==
  ASSUME TypeInv, NEW s \in Slots, SlotStep(s),
         ~Look(s), ~Write(s), ~Trace(s), ~Traced(s), ~QueueReads(s), ~QueueAdds(s)
  PROVE  /\ task'[s] = Idle \/ task'[s].at \in {"step", "write"}
         /\ \A r \in Slots : r # s => task'[r] = task[r]
         /\ UNCHANGED <<rows, raced>>
         /\ task[s] = Idle \/ task[s].at # "traced"
         /\ UNCHANGED counterVars
<1>1. UNCHANGED counterVars /\ UNCHANGED <<rows, raced>>
  <2>1. CASE Reads(s)
    BY <2>1, ReadsKeepType DEF tableVars, counterVars
  <2>2. CASE ~Reads(s)
    BY <2>2 DEF SlotStep, StartPass, StartRequest, AskCounty, Recorded, TopNext, QueueDone, TaskDone, TaskFails,
                WatchSkipped, Reviewed, Reopened, signalVars, tableVars, traceVars, ownVars, counterVars
  <2> QED
    BY <2>1, <2>2
<1>2. task[s] = Idle \/ task[s].at # "traced"
  <2>1. CASE WatchSkipped(s)
    <3>1. task[s].plan = RodWatch /\ Head(RodWatch) = "deeds"
      BY <2>1 DEF WatchSkipped, RodWatch
    <3> QED
      BY <3>1 DEF TypeInv, TasksOK, TaskOK
  <2>2. CASE Reads(s)
    BY <2>2, ReadsKeepType DEF AtStep, At
  <2>3. CASE ~WatchSkipped(s) /\ ~Reads(s)
    BY <2>3 DEF SlotStep, StartPass, StartRequest, Arrives, AskCounty, TopNext, QueueDone, TaskDone,
                TaskFails, Reviewed, Reopened, AtStep, At
  <2> QED
    BY <2>1, <2>2, <2>3
<1>3. \A t : TaskOK(t) => t \in Tasks /\ NextStep(t).at = "step"
  BY NextStepFacts DEF TaskOK
<1>4. task'[s] = Idle \/ task'[s].at \in {"step", "write"}
  <2>1. CASE \E plan \in Passes : StartPass(s, plan)
    <3>1. PICK plan \in Passes : task'[s] = Task(plan, plan, Top)
      BY <2>1, StartPassKeepsType
    <3> QED
      BY <3>1 DEF Task
  <2>2. CASE \/ \E p \in Parcels : StartRequest(s, OneParcel, {p}) \/ StartRequest(s, <<"drive_by">>, {p})
             \/ StartRequest(s, <<"liens">>, {}) \/ StartRequest(s, <<"hitl">>, {})
    <3>1. PICK plan \in Begun : \E ps : task'[s] = Task(plan, <<>>, ps)
      BY <2>2, StartRequestKeepsType
    <3> QED
      BY <3>1 DEF Task
  <2>3. CASE Reads(s)
    <3>1. TaskOK(task[s])
      BY <2>3, ReadsKeepType, AtStepFacts DEF TypeInv
    <3>2. task[s] \in Tasks /\ NextStep(task[s]).at = "step"
      BY <1>3, <3>1
    <3>3. PICK wishes : task'[s] = IF wishes = {} THEN NextStep(task[s])
                                   ELSE [task[s] EXCEPT !.at = "write", !.todo = wishes]
      BY <2>3, ReadsKeepType
    <3> QED
      BY <3>2, <3>3 DEF Tasks
  <2>4. CASE AskCounty(s)
    BY <2>4, <1>3, CountyKeepsType, AtStepFacts DEF TypeInv
  <2>5. CASE TopNext(s)
    BY <2>5, <1>3, TopNextKeepsType
  <2>6. CASE QueueDone(s)
    BY <2>6, <1>3, QueueDoneKeepsType
  <2>7. CASE TaskDone(s) \/ TaskFails(s) \/ WatchSkipped(s) \/ \E p \in Parcels : Reviewed(s, p) \/ Reopened(s, p)
    BY <2>7, <1>3, EndsKeepType
  <2> QED
    BY <2>1, <2>2, <2>3, <2>4, <2>5, <2>6, <2>7 DEF SlotStep
<1>5. \A r \in Slots : r # s => task'[r] = task[r]
  BY PassKept
<1> QED
  BY <1>1, <1>2, <1>4, <1>5

(* So do those that look for rows, write them, or file reviews.             *)
LEMMA RowOrReviewStep ==
  ASSUME TypeInv, NEW s \in Slots, Look(s) \/ Write(s) \/ QueueReads(s) \/ QueueAdds(s)
  PROVE  /\ task[s].at \in {"step", "write", "look", "queue"}
         /\ Look(s) => task'[s].at = "look"
         /\ Write(s) => task'[s].at \in {"step", "write"}
         /\ QueueReads(s) \/ QueueAdds(s) => task'[s].at = "queue"
         /\ UNCHANGED counterVars
<1>1. \A t : TaskOK(t) => t \in Tasks /\ NextStep(t).at = "step"
  BY NextStepFacts DEF TaskOK
<1>2. UNCHANGED counterVars
  BY DEF Look, Write, QueueReads, QueueAdds, counterVars, traceVars, ownVars
<1>3. CASE Look(s)
  <2>1. task[s] \in Tasks /\ task[s].at = "write"
    BY <1>1, <1>3, LookKeepsType
  <2>2. PICK w : task'[s] = [task[s] EXCEPT !.at = "look", !.todo = @ \ {w}, !.wish = w,
                                           !.found = FoundRow(w.parcel, w.type)]
    BY <1>3, LookKeepsType
  <2> QED
    BY <1>2, <1>3, <2>1, <2>2 DEF Tasks, Look, Write, QueueReads, QueueAdds, AtStep, At
<1>4. CASE Write(s)
  <2>1. task[s] \in Tasks /\ task'[s] = Back(task[s]) /\ task[s].at = "look" /\ NextStep(task[s]).at = "step"
    BY <1>1, <1>4, WriteKeepsType
  <2> QED
    BY <1>2, <1>4, <2>1 DEF Back, Tasks, Look, Write, QueueReads, QueueAdds, AtStep, At
<1>5. CASE QueueReads(s)
  <2>1. task[s] \in Tasks
    BY <1>1, <1>5, QueueReadsKeepsType
  <2>2. task[s].at = "step" /\ task'[s].at = "queue"
    BY <1>5, <2>1, QueueReadsKeepsType DEF Tasks, AtStep, At
  <2> QED
    BY <1>2, <1>5, <2>2 DEF Look, Write, At
<1>6. CASE QueueAdds(s)
  <2>1. task[s] \in Tasks /\ task[s].at = "queue"
    BY <1>1, <1>6, QueueAddsKeepsType
  <2>2. PICK p : task'[s] = [task[s] EXCEPT !.on = @ \ {p}]
    BY <1>6, QueueAddsKeepsType
  <2>3. task'[s].at = "queue"
    BY <2>1, <2>2 DEF Tasks
  <2> QED
    BY <1>2, <1>6, <2>1, <2>3 DEF Look, Write, At
<1> QED
  BY <1>3, <1>4, <1>5, <1>6

LEMMA TraceInvStep ==
  ASSUME TypeInv, OnePass, TraceInv, [Next]_vars
  PROVE  TraceInv'
<1>1. \A s, r \in InTrace : s = r
  BY TracingPasses DEF OnePass
<1>2. ASSUME NEW s \in Slots, SlotStep(s) PROVE TraceInv'
  <2>1. \A r \in Slots : r # s => task'[r] = task[r]
    BY <1>2, PassKept
  <2>2. CASE Trace(s)
    <3>1. InTrace = {}
      <4>1. s \in Passing /\ s \notin InTrace
        BY <2>2, TraceKeepsType DEF Passing, InTrace, AtStep, At
      <4> QED
        BY <4>1, TracingPasses DEF OnePass
    <3>2. used' = UsedNow /\ usedWeek' = week /\ week' = week /\ slack' = slack
      BY <2>2 DEF Trace, ownVars
    <3>3. UsedNow' = UsedNow /\ UsedNow \in Nat
      BY <3>2 DEF UsedNow, TypeInv
    <3>4. CASE task'[s].at = "traced"
      <4>1. MayTrace /\ sent' = sent + 1
        BY <2>2, <3>4, TraceKeepsType
      <4>2. s \in InTrace'
        BY <2>2, <3>4, TraceKeepsType, IdleIsNone DEF InTrace, At, TaskOK
      <4> QED
        BY <3>1, <3>2, <3>3, <4>1, <4>2, PassAssumption DEF TraceInv, MayTrace, TypeInv
    <3>5. CASE task'[s].at # "traced"
      <4>1. sent' = sent
        BY <2>2, <3>5, TraceKeepsType
      <4>2. InTrace' = {}
        BY <2>1, <3>1, <3>5 DEF InTrace, At
      <4> QED
        BY <3>1, <3>2, <3>3, <4>1, <4>2 DEF TraceInv, TypeInv
    <3> QED
      BY <3>4, <3>5
  <2>3. CASE Traced(s)
    <3>1. s \in InTrace
      BY <2>3 DEF Traced, InTrace
    <3>2. InTrace' = {}
      BY <1>1, <2>1, <2>3, <3>1, TracedKeepsType DEF InTrace, At
    <3>3. UsedNow < Cap /\ sent <= UsedNow + slack + 1
      BY <3>1 DEF TraceInv
    <3>4. UsedNow \in Nat /\ slack \in Nat /\ sent \in Nat /\ Cap \in Nat
      BY PassAssumption DEF UsedNow, TypeInv
    <3>5. sent' = sent /\ week' = week
      BY <2>3 DEF Traced, ownVars
    <3>6. CASE used' = UsedNow + 1 /\ usedWeek' = week /\ slack' = slack
      BY <3>2, <3>3, <3>4, <3>5, <3>6 DEF TraceInv, UsedNow, TypeInv
    <3>7. CASE slack' = slack + 1 /\ used' = used /\ usedWeek' = usedWeek
      BY <3>2, <3>3, <3>4, <3>5, <3>7 DEF TraceInv, UsedNow
    <3> QED
      BY <2>3, <3>6, <3>7 DEF Traced
  <2>4. CASE ~Trace(s) /\ ~Traced(s)
    <3>1. /\ task[s] = Idle \/ task[s].at # "traced"
          /\ task'[s] = Idle \/ task'[s].at # "traced"
          /\ UNCHANGED counterVars
      BY <1>2, <2>4, PlainStep, RowOrReviewStep
    <3>2. InTrace' = InTrace
      BY <2>1, <3>1 DEF InTrace, At
    <3> QED
      BY <3>1, <3>2 DEF TraceInv, UsedNow, counterVars
  <2> QED
    BY <2>2, <2>3, <2>4
<1>3. CASE Outside
  <2>1. InTrace' = InTrace
    BY <1>3, OutsideKeepsType DEF InTrace, At
  <2>2. CASE NewWeek
    <3>1. sent' = 0 /\ slack' = 0 /\ UNCHANGED <<used, usedWeek>> /\ week' = week + 1
      BY <2>2 DEF NewWeek
    <3>2. usedWeek' <= week' /\ UsedNow' = 0
      BY <3>1 DEF UsedNow, TypeInv, TraceInv
    <3>3. UsedNow \in Nat /\ Cap \in Nat
      BY PassAssumption DEF UsedNow, TypeInv
    <3> QED
      BY <2>1, <3>1, <3>2, <3>3 DEF TraceInv
  <2>3. CASE ~NewWeek
    <3>1. UNCHANGED counterVars
      BY <1>3, <2>3 DEF Outside, Quiet, Lapses, SyncWrites, Recorded, traceVars, ownVars, counterVars
    <3> QED
      BY <2>1, <3>1 DEF TraceInv, UsedNow, counterVars
  <2> QED
    BY <2>2, <2>3
<1>4. CASE Restart
  <2>1. InTrace' = {}
    BY <1>4, RestartKeepsType DEF InTrace, At
  <2>2. used' = 0 /\ usedWeek' = -1 /\ slack' = slack + Cap /\ sent' = sent /\ week' = week
    BY <1>4 DEF Restart, ownVars
  <2>3. /\ Cap \in Nat /\ UsedNow \in Nat /\ slack \in Nat /\ sent \in Nat /\ week \in Nat
        /\ UsedNow' = 0
    BY <2>2, PassAssumption DEF UsedNow, TypeInv
  <2>4. sent <= Cap + slack
    BY <2>3 DEF TraceInv
  <2>5. usedWeek' <= week' /\ UsedNow' <= Cap
    BY <2>2, <2>3
  <2>6. sent' <= UsedNow' + slack'
    BY <2>2, <2>3, <2>4
  <2> QED
    BY <2>1, <2>5, <2>6 DEF TraceInv
<1>5. CASE UNCHANGED vars
  BY <1>5 DEF TraceInv, UsedNow, InTrace, At, vars, deskVars, traceVars, ownVars
<1> QED
  BY <1>2, <1>3, <1>4, <1>5, NextIs

\* No more skip traces go out in a week than the cap allows, except for what restarts
\* and failed lookups have taken off the counter.
THEOREM SkipTracesCapped == Spec => []SkipTraceCapped
<1>1. Init => TypeInv /\ OnePass /\ TraceInv
  <2>1. Init => Passing = {} /\ InTrace = {}
    BY DEF Init, DeskInit, Passing, InTrace, At
  <2>2. Init => UsedNow = 0 /\ sent = 0 /\ slack = 0 /\ usedWeek = -1 /\ week = 0
    BY DEF Init, UsedNow
  <2> QED
    BY <2>1, <2>2, TypeInit, PassAssumption DEF OnePass, TraceInv
<1>2. TypeInv /\ OnePass /\ TraceInv /\ [Next]_vars => (TypeInv /\ OnePass /\ TraceInv)'
  BY TypeStep, OnePassStep, TraceInvStep
<1>3. TypeInv /\ TraceInv => SkipTraceCapped
  <2> SUFFICES ASSUME TypeInv, TraceInv PROVE SkipTraceCapped
    OBVIOUS
  <2>1. UsedNow \in Nat /\ sent \in Nat /\ slack \in Nat /\ Cap \in Nat
    BY PassAssumption DEF TypeInv, UsedNow
  <2> QED
    BY <2>1 DEF TraceInv, SkipTraceCapped
<1> QED
  BY <1>1, <1>2, <1>3, PTL DEF Spec

----------------------------------------------------------------------------
(* The queue of reviews.                                                    *)

\* A refresh of the queue is about to file a review of p.
Filing(p) == \E s \in Slots : At(s, "queue") /\ p \in task[s].on

\* Unless it was reopened or raced for, a parcel waits at most once, and one that a
\* review is being filed for does not wait yet.
WaitInv ==
  \A p \in Parcels : p \notin requeued => pending[p] <= 1 /\ (Filing(p) => pending[p] = 0)

(* Who is not at the queue after a step files nothing more than before.     *)
LEMMA FilesNoMore ==
  ASSUME NEW s \in Slots, \A r \in Slots : r # s => task'[r] = task[r],
         task'[s] = Idle \/ task'[s].at # "queue", NEW p
  PROVE  Filing(p)' => Filing(p)
BY DEF Filing, At

LEMMA WaitInvStep ==
  ASSUME TypeInv, WaitInv, [Next]_vars
  PROVE  WaitInv'
<1>1. ASSUME NEW s \in Slots, SlotStep(s) PROVE WaitInv'
  <2>1. \A r \in Slots : r # s => task'[r] = task[r]
    BY <1>1, PassKept
  <2>2. CASE QueueReads(s)
    <3>1. UNCHANGED <<pending, requeued>>
      BY <2>2 DEF QueueReads, ownVars
    <3>2. \A p : p \in task'[s].on => pending[p] = 0
      <4>1. task[s] \in Tasks
        BY <2>2, QueueReadsKeepsType DEF TaskOK
      <4>2. task'[s] = [task[s] EXCEPT !.at = "queue", !.on = {p \in Top : Queueable(p)}]
        BY <2>2, QueueReadsKeepsType
      <4> QED
        BY <4>1, <4>2 DEF Tasks, Queueable
    <3>3. \A p : Filing(p)' => Filing(p) \/ pending[p] = 0
      BY <2>1, <3>2 DEF Filing, At
    <3> QED
      BY <3>1, <3>3 DEF WaitInv
  <2>3. CASE QueueAdds(s)
    <3>1. task[s] \in Tasks /\ At(s, "queue")
      BY <2>3, QueueAddsKeepsType DEF TaskOK, QueueAdds
    <3>2. PICK p \in task[s].on :
            /\ p \in Parcels
            /\ task'[s] = [task[s] EXCEPT !.on = @ \ {p}]
            /\ pending' = [pending EXCEPT ![p] = @ + 1]
            /\ requeued' = IF \E r \in Slots \ {s} : At(r, "queue") /\ p \in task[r].on
                           THEN requeued \cup {p} ELSE requeued
      BY <2>3, QueueAddsKeepsType
    <3>3. task'[s].on = task[s].on \ {p}
      BY <3>1, <3>2 DEF Tasks
    <3>4. \A q : Filing(q)' => Filing(q)
      BY <2>1, <3>1, <3>3 DEF Filing, At
    <3>5. p \notin requeued' => ~Filing(p)'
      BY <2>1, <3>2, <3>3 DEF Filing, At
    <3>6. p \notin requeued' => pending[p] = 0
      <4>1. Filing(p)
        BY <3>1 DEF Filing
      <4>2. p \notin requeued' => p \notin requeued
        BY <3>2
      <4> QED
        BY <3>2, <4>1, <4>2 DEF WaitInv
    <3>7. ASSUME NEW q \in Parcels, q \notin requeued' PROVE pending'[q] <= 1 /\ (Filing(q)' => pending'[q] = 0)
      <4>1. q \notin requeued
        BY <3>2, <3>7
      <4>2. CASE q = p
        BY <3>2, <3>5, <3>6, <3>7, <4>2 DEF TypeInv
      <4>3. CASE q # p
        BY <3>2, <3>4, <4>1, <4>3 DEF TypeInv, WaitInv
      <4> QED
        BY <4>2, <4>3
    <3> QED
      BY <3>7 DEF WaitInv
  <2>4. CASE ~QueueReads(s) /\ ~QueueAdds(s)
    <3>1. task'[s] = Idle \/ task'[s].at # "queue"
      BY <1>1, <2>4, PlainStep, RowOrReviewStep, TraceKeepsType, TracedKeepsType
    <3>2. \A p : Filing(p)' => Filing(p)
      BY <2>1, <3>1, FilesNoMore
    <3>3. CASE \E p \in Parcels : Reviewed(s, p)
      <4>1. PICK p \in Parcels : Reviewed(s, p)
        BY <3>3
      <4>2. pending[p] > 0 /\ pending' = [pending EXCEPT ![p] = @ - 1] /\ requeued' = requeued
        BY <4>1 DEF Reviewed
      <4> QED
        BY <3>2, <4>2 DEF WaitInv, TypeInv
    <3>4. CASE \E p \in Parcels : Reopened(s, p)
      <4>1. PICK p \in Parcels : Reopened(s, p)
        BY <3>4
      <4>2. pending' = [pending EXCEPT ![p] = @ + 1] /\ requeued' = requeued \cup {p}
        BY <4>1 DEF Reopened
      <4> QED
        BY <3>2, <4>2 DEF WaitInv, TypeInv
    <3>5. CASE ~\E p \in Parcels : Reviewed(s, p) \/ Reopened(s, p)
      <4>1. UNCHANGED <<pending, requeued>>
        <5>1. CASE Reads(s)
          BY <5>1, ReadsKeepType
        <5>2. CASE ~Reads(s)
          BY <1>1, <2>4, <3>5, <5>2 DEF SlotStep, StartPass, StartRequest, Look, Write, AskCounty, Recorded,
             TopNext, Trace, Traced, QueueDone, TaskDone, TaskFails, WatchSkipped, ownVars
        <5> QED
          BY <5>1, <5>2
      <4> QED
        BY <3>2, <4>1 DEF WaitInv
    <3> QED
      BY <3>3, <3>4, <3>5
  <2> QED
    BY <2>2, <2>3, <2>4
<1>2. CASE Outside \/ UNCHANGED vars
  BY <1>2, OutsideKeepsType DEF WaitInv, Filing, At, vars, deskVars, ownVars
<1>3. CASE Restart
  <2>1. \A p : ~Filing(p)'
    BY <1>3, RestartKeepsType DEF Filing, At
  <2> QED
    BY <1>3, <2>1, RestartKeepsType DEF WaitInv
<1> QED
  BY <1>1, <1>2, <1>3, NextIs

\* A parcel waits for review at most once, unless its review was reopened or two
\* refreshes of the queue overlapped.
THEOREM ReviewsWaitOnce == Spec => []WaitsOnce
<1>1. Init => TypeInv /\ WaitInv
  <2>1. Init => \A p \in Parcels : pending[p] = 0
    BY DEF Init
  <2> QED
    BY <2>1, TypeInit DEF WaitInv
<1>2. TypeInv /\ WaitInv /\ [Next]_vars => (TypeInv /\ WaitInv)'
  BY TypeStep, WaitInvStep
<1>3. TypeInv /\ WaitInv => WaitsOnce
  BY DEF TypeInv, WaitInv, WaitsOnce
<1> QED
  BY <1>1, <1>2, <1>3, PTL DEF Spec

----------------------------------------------------------------------------
(* Rows of a parcel and type.                                               *)

\* Unless two tasks were about to write it at once, a parcel has one row of a type at
\* most, and none while someone who found none is about to make it; who found one is
\* right about it, rows being never deleted.
RowInv ==
  \A p \in Parcels, t \in Types :
    /\ <<p, t>> \notin raced => rows[p][t] <= 1 /\ \A s \in Looking(p, t) : ~task[s].found => rows[p][t] = 0
    /\ \A s \in Looking(p, t) : task[s].found => rows[p][t] > 0

(* Two who look for one row are more than one.                              *)
LEMMA TwoLooking ==
  ASSUME NEW p, NEW t, NEW s \in Looking(p, t), NEW r \in Looking(p, t), s # r
  PROVE  Cardinality(Looking(p, t)) > 1
<1>1. IsFiniteSet(Looking(p, t)) /\ {s} \in SUBSET Looking(p, t) /\ {s} # Looking(p, t)
  BY DeskAssumption, FS_Subset DEF Looking
<1>2. Cardinality({s}) = 1
  BY FS_Singleton
<1>3. Cardinality({s}) <= Cardinality(Looking(p, t)) /\ Cardinality({s}) # Cardinality(Looking(p, t))
  BY <1>1, FS_Subset
<1>4. Cardinality(Looking(p, t)) \in Nat
  BY <1>1, FS_CardinalityType
<1> QED
  BY <1>2, <1>3, <1>4

(* Who does not look after a step leaves the looks of the others as they were. *)
LEMMA LooksNoMore ==
  ASSUME NEW s \in Slots, \A r \in Slots : r # s => task'[r] = task[r],
         task'[s] = Idle \/ task'[s].at # "look", NEW p, NEW t
  PROVE  \A r \in Looking(p, t)' : r # s /\ r \in Looking(p, t) /\ task'[r] = task[r]
BY DEF Looking, At

(* A step by which no one starts to look, and that writes no row.           *)
LEMMA RowInvKept ==
  ASSUME RowInv, UNCHANGED <<rows, raced>>,
         \A p, t : \A r \in Looking(p, t)' : r \in Looking(p, t) /\ task'[r] = task[r]
  PROVE  RowInv'
BY DEF RowInv

LEMMA LookKeepsRows ==
  ASSUME TypeInv, RowInv, NEW s \in Slots, Look(s)
  PROVE  RowInv'
<1>1. TaskOK(task[s]) /\ \A r \in Slots : r # s => task'[r] = task[r]
  BY LookKeepsType
<1>2. task[s] \in Tasks
  BY <1>1 DEF TaskOK
<1>3. PICK w : task'[s] = [task[s] EXCEPT !.at = "look", !.todo = @ \ {w}, !.wish = w,
                                         !.found = FoundRow(w.parcel, w.type)]
  BY LookKeepsType
<1>4. UNCHANGED <<rows, raced>>
  BY DEF Look, signalVars, tableVars
<1>5. task'[s].wish = w /\ task'[s].found = FoundRow(w.parcel, w.type)
  BY <1>2, <1>3 DEF Tasks
<1> DEFINE right == FoundRow(w.parcel, w.type)
<1>6. (task'[s].found => right) /\ (~task'[s].found => ~right)
  <2>1. task'[s].found = right
    BY <1>5
  <2> HIDE DEF right
  <2> QED
    BY <2>1, Zenon
<1>7. ASSUME NEW p \in Parcels, NEW t \in Types, NEW r \in Looking(p, t)'
      PROVE  \/ r \in Looking(p, t) /\ task'[r] = task[r]
             \/ (task'[r].found => rows[p][t] > 0) /\ (~task'[r].found => ~(rows[p][t] > 0))
  <2>1. r \in Slots /\ At(r, "look")' /\ task'[r].wish.parcel = p /\ task'[r].wish.type = t
    BY <1>7 DEF Looking
  <2>2. CASE r = s
    BY <1>5, <1>6, <2>1, <2>2 DEF FoundRow
  <2>3. CASE r # s
    BY <1>1, <2>1, <2>3 DEF Looking, At
  <2> QED
    BY <2>2, <2>3
<1>8. \A p \in Parcels, t \in Types : rows[p][t] \in Nat
  BY DEF TypeInv
<1>9. ASSUME NEW p \in Parcels, NEW t \in Types
      PROVE  /\ <<p, t>> \notin raced =>
                  rows[p][t] <= 1 /\ \A r \in Looking(p, t)' : ~task'[r].found => rows[p][t] = 0
             /\ \A r \in Looking(p, t)' : task'[r].found => rows[p][t] > 0
  <2>1. /\ <<p, t>> \notin raced => rows[p][t] <= 1 /\ \A r \in Looking(p, t) : ~task[r].found => rows[p][t] = 0
        /\ \A r \in Looking(p, t) : task[r].found => rows[p][t] > 0
    BY DEF RowInv
  <2>2. ASSUME NEW r \in Looking(p, t)'
        PROVE  /\ task'[r].found => rows[p][t] > 0
               /\ <<p, t>> \notin raced /\ ~task'[r].found => rows[p][t] = 0
    <3>1. CASE r \in Looking(p, t) /\ task'[r] = task[r]
      BY <2>1, <3>1
    <3>2. CASE (task'[r].found => rows[p][t] > 0) /\ (~task'[r].found => ~(rows[p][t] > 0))
      BY <1>8, <3>2
    <3> QED
      BY <1>7, <2>2, <3>1, <3>2
  <2> QED
    BY <2>1, <2>2
<1> QED
  BY <1>4, <1>9 DEF RowInv

LEMMA WriteKeepsRows ==
  ASSUME TypeInv, RowInv, NEW s \in Slots, Write(s)
  PROVE  RowInv'
<1> DEFINE w == task[s].wish
<1>1. /\ w \in WishRows /\ task'[s].at \in {"step", "write"}
      /\ \A r \in Slots : r # s => task'[r] = task[r]
      /\ \A p \in Parcels, t \in Types :
           rows'[p][t] = IF p = w.parcel /\ t = w.type /\ ~task[s].found THEN rows[p][t] + 1 ELSE rows[p][t]
  BY WriteKeepsType, RowOrReviewStep
<1>2. s \in Looking(w.parcel, w.type)
  BY DEF Looking, Write
<1>3. raced' = IF Cardinality(Looking(w.parcel, w.type)) > 1 THEN raced \cup {<<w.parcel, w.type>>} ELSE raced
  BY DEF Write
<1>4. \A p, t : \A r \in Looking(p, t)' : r # s /\ r \in Looking(p, t) /\ task'[r] = task[r]
  BY <1>1, LooksNoMore
<1> HIDE DEF w
<1>5. \A p \in Parcels, t \in Types : rows[p][t] \in Nat
  BY DEF TypeInv
<1>6. ASSUME NEW p \in Parcels, NEW t \in Types
      PROVE  /\ <<p, t>> \notin raced' =>
                  rows'[p][t] <= 1 /\ \A r \in Looking(p, t)' : ~task'[r].found => rows'[p][t] = 0
             /\ \A r \in Looking(p, t)' : task'[r].found => rows'[p][t] > 0
  <2>1. \A r \in Looking(p, t)' : task'[r].found => rows'[p][t] > 0
    <3>1. \A r \in Looking(p, t) : task[r].found => rows[p][t] > 0
      BY DEF RowInv
    <3>2. rows[p][t] \in Nat /\ (rows'[p][t] = rows[p][t] \/ rows'[p][t] = rows[p][t] + 1)
      BY <1>1, <1>5
    <3> QED
      BY <1>4, <3>1, <3>2
  <2>2. CASE p = w.parcel /\ t = w.type
    <3>1. <<p, t>> \notin raced' => <<p, t>> \notin raced
      BY <1>3, <2>2
    <3>2. <<p, t>> \notin raced' => Looking(p, t)' = {}
      BY <1>2, <1>3, <1>4, <2>2, TwoLooking
    <3>3. <<p, t>> \notin raced' => rows'[p][t] <= 1
      BY <1>1, <1>2, <1>5, <2>2, <3>1 DEF RowInv, w
    <3> QED
      BY <2>1, <3>2, <3>3
  <2>3. CASE ~(p = w.parcel /\ t = w.type)
    <3>1. rows'[p][t] = rows[p][t] /\ (<<p, t>> \notin raced' => <<p, t>> \notin raced)
      BY <1>1, <1>3, <2>3
    <3> QED
      BY <1>4, <2>1, <3>1 DEF RowInv
  <2> QED
    BY <2>2, <2>3
<1> QED
  BY <1>6 DEF RowInv

LEMMA RowInvStep ==
  ASSUME TypeInv, RowInv, [Next]_vars
  PROVE  RowInv'
<1>1. ASSUME NEW s \in Slots, SlotStep(s), ~Look(s), ~Write(s) PROVE RowInv'
  <2>1. \A r \in Slots : r # s => task'[r] = task[r]
    BY <1>1, PassKept
  <2>2. task'[s] = Idle \/ task'[s].at # "look"
    BY <1>1, PlainStep, RowOrReviewStep, TraceKeepsType, TracedKeepsType
  <2>3. UNCHANGED <<rows, raced>>
    <3>1. CASE Trace(s) \/ Traced(s) \/ QueueReads(s) \/ QueueAdds(s)
      BY <3>1 DEF Trace, Traced, QueueReads, QueueAdds, signalVars, tableVars
    <3>2. CASE ~(Trace(s) \/ Traced(s) \/ QueueReads(s) \/ QueueAdds(s))
      BY <1>1, <3>2, PlainStep
    <3> QED
      BY <3>1, <3>2
  <2> QED
    BY <2>1, <2>2, <2>3, LooksNoMore, RowInvKept
<1>2. CASE Outside \/ UNCHANGED vars
  <2>1. UNCHANGED <<task, rows, raced>>
    BY <1>2, OutsideKeepsType DEF vars, deskVars, signalVars, tableVars
  <2> QED
    BY <2>1 DEF RowInv, Looking, At
<1>3. CASE Restart
  <2>1. UNCHANGED <<rows, raced>> /\ \A p, t : Looking(p, t)' = {}
    BY <1>3, RestartKeepsType DEF Looking, At
  <2> QED
    BY <2>1, RowInvKept
<1> QED
  BY <1>1, <1>2, <1>3, NextIs, LookKeepsRows, WriteKeepsRows

LEMMA RowInvInit == Init => RowInv
<1>1. Init => \A p \in Parcels, t \in Types : rows[p][t] = 0 /\ Looking(p, t) = {}
  BY DEF Init, DeskInit, Looking, At
<1> QED
  BY <1>1 DEF RowInv

\* A parcel has two signals of one type only if two tasks were about to write it at the
\* same time: nothing in the table keeps a second row out, the order of the steps does.
THEOREM RowsDoubleByOverlap == Spec => []DuplicatesNeedOverlap
<1>1. TypeInv /\ RowInv /\ [Next]_vars => (TypeInv /\ RowInv)'
  BY TypeStep, RowInvStep
<1>2. TypeInv /\ RowInv => DuplicatesNeedOverlap
  BY DEF TypeInv, RowInv, DuplicatesNeedOverlap
<1> QED
  BY <1>1, <1>2, TypeInit, RowInvInit, PTL DEF Spec

----------------------------------------------------------------------------
(* What a pass that succeeds has seen to.                                   *)

\* The step is still to come.
Ahead(t, step) == \E i \in 1..Len(t.plan) : t.plan[i] = step /\ (i > 1 \/ t.at = "step")

\* The row is about to be written, by the step that asked for it.
InHand(t, step, p, type) ==
  /\ t.plan # <<>> /\ Head(t.plan) = step
  /\ \/ t.at \in {"write", "look"} /\ \E w \in t.todo : w.parcel = p /\ w.type = type
     \/ t.at = "look" /\ t.wish.parcel = p /\ t.wish.type = type

\* The step is to come, or each of the parcels has its row or will have it.
Covers(t, step, type, ps, table) ==
  Ahead(t, step) \/ \A p \in ps : table[p][type] > 0 \/ InHand(t, step, p, type)

\* Parcels that the deeds the pass was told of name.
Sold == ByPin(told.deeds)

\* An answer that is the deeds of a page, unless none were read.
Honest(answer) ==
  answer.how = "blank" \/ \E docs \in SUBSET Docs : IsPage(docs) /\ answer.deeds = DeedsOf(docs)

\* What is remembered of the search for deeds is such an answer, and what has owed tax
\* since a pass began owes it.
HistoryInv ==
  /\ \A answer \in recent : Honest(answer)
  /\ owing \subseteq unpaid

CoverInv ==
  \A s \in Passing :
    /\ task[s].pass # RodWatch => Covers(task[s], "tax", "tax_delinquent", owing, rows)
    /\ task[s].pass # TaxSync /\ rodReady =>
         /\ Ahead(task[s], "deeds") \/ Honest(told)
         /\ Covers(task[s], "deeds", "recent_seller", Sold, rows)

(* What the search for deeds answers and remembers; errors are not remembered. *)
LEMMA SearchIsHonest ==
  ASSUME HistoryInv, NEW answer, SearchDeeds(answer)
  PROVE  /\ \A kept \in recent' : Honest(kept)
         /\ answer \in DeedAnswers /\ rodReady => Honest(answer)
<1>1. \A o : AnswerOf(o, answer) => Honest(answer) \/ answer = Answer("thrown", {})
  BY DEF AnswerOf, Honest, Answer
<1>2. answer = Answer("thrown", {}) => answer.how = "thrown"
  BY DEF Answer
<1>3. answer \in DeedAnswers => answer.how # "thrown"
  BY DEF DeedAnswers
<1>4. CASE UNCHANGED <<rodVars, failures>> /\ answer \in recent
  BY <1>4 DEF HistoryInv, Honest, rodVars
<1>5. CASE ~rodReady /\ UNCHANGED rodVars
  BY <1>5 DEF HistoryInv, Honest, rodVars
<1>6. CASE /\ \E o \in Outcomes : AnswerOf(o, answer)
           /\ recent' = IF answer.how = "thrown" THEN {} ELSE {answer}
  <2>1. Honest(answer) \/ answer = Answer("thrown", {})
    BY <1>1, <1>6
  <2> QED
    BY <1>2, <1>3, <1>6, <2>1
<1> QED
  BY <1>4, <1>5, <1>6 DEF SearchDeeds

LEMMA HistoryInvStep ==
  ASSUME TypeInv, HistoryInv, [Next]_vars
  PROVE  HistoryInv'
<1>1. \A answer \in recent' : Honest(answer)
  <2>1. CASE \E answer : SearchDeeds(answer)
    BY <2>1, SearchIsHonest
  <2>2. CASE recent' \in {recent, {}}
    BY <2>2 DEF HistoryInv
  <2>3. ASSUME NEW s \in Slots, SlotStep(s)
        PROVE  recent' \in {recent, {}} \/ \E answer : SearchDeeds(answer)
    BY <2>3 DEF SlotStep, Reads, AskList, AskDeeds, AskTables, PassesOver, AskFlood, AskAssessor,
       AskRegister, AskMortgage, FindMortgage, StartPass, StartRequest, Look, Write, AskCounty, Recorded,
       TopNext, Trace, Traced, QueueReads, QueueAdds, QueueDone, TaskDone, TaskFails, WatchSkipped,
       Reviewed, Reopened, rodVars
  <2>4. Outside \/ Restart \/ UNCHANGED vars => recent' \in {recent, {}}
    BY DEF Outside, NewWeek, SessionExpires, CacheAges, Lapses, SyncWrites, Recorded, Restart, RodForgets,
       vars, rodVars
  <2> QED
    BY <2>1, <2>2, <2>3, <2>4, NextIs
<1>2. owing' \subseteq unpaid'
  <2>1. CASE UNCHANGED <<owing, unpaid>>
    BY <2>1 DEF HistoryInv
  <2>2. CASE \E ps : Recorded(ps)
    BY <2>2 DEF Recorded
  <2>3. CASE \E s \in Slots, plan \in Passes : StartPass(s, plan)
    BY <2>3 DEF StartPass
  <2>4. ASSUME NEW s \in Slots, SlotStep(s), ~\E plan \in Passes : StartPass(s, plan)
        PROVE  UNCHANGED <<owing, unpaid>> \/ \E ps : Recorded(ps)
    <3>1. CASE Reads(s)
      BY <3>1, ReadsKeepType
    <3>2. CASE ~Reads(s)
      BY <2>4, <3>2 DEF SlotStep, StartRequest, Look, Write, AskCounty, TopNext, Trace, Traced, QueueReads,
         QueueAdds, QueueDone, TaskDone, TaskFails, WatchSkipped, Reviewed, Reopened, signalVars, ownVars
    <3> QED
      BY <3>1, <3>2
  <2>5. Outside \/ Restart \/ UNCHANGED vars => UNCHANGED <<owing, unpaid>> \/ \E ps : Recorded(ps)
    BY DEF Outside, NewWeek, Quiet, Lapses, SyncWrites, Restart, vars, signalVars, ownVars
  <2> QED
    BY <2>1, <2>2, <2>3, <2>4, <2>5, NextIs
<1> QED
  BY <1>1, <1>2 DEF HistoryInv, Honest

\* A table of rows that has lost none, and a set of parcels that has grown none.
Kept(ps, table, ps2, table2) ==
  ps2 \subseteq ps /\ \A p \in ps, type \in Types : table[p][type] > 0 => table2[p][type] > 0

\* The task goes on past a step that is neither of the two.
Moves(t, u) ==
  /\ t.plan # <<>>
  /\ Head(t.plan) \in {"tax", "deeds"} => t.at \in {"traced", "queue"}
  /\ u.plan = t.plan \/ (u.at = "step" /\ u.plan \in {Tail(t.plan), TopPlan \o t.plan})

(* A step still to come is to come after any other.                         *)
LEMMA AheadKept ==
  ASSUME NEW t, TaskOK(t), NEW u, NEW step, Ahead(t, step), t.plan # <<>>,
         t.at # "step" \/ Head(t.plan) # step,
         u.plan = t.plan \/ (u.at = "step" /\ u.plan \in {Tail(t.plan), TopPlan \o t.plan})
  PROVE  Ahead(u, step)
<1>1. t.plan \in Seq(Steps)
  BY DEF TaskOK, Tasks
<1>2. PICK i \in 1..Len(t.plan) : t.plan[i] = step /\ i > 1
  BY <1>1, TailFacts DEF Ahead
<1>3. CASE u.plan = t.plan
  BY <1>2, <1>3 DEF Ahead
<1>4. CASE u.at = "step" /\ u.plan = Tail(t.plan)
  <2>1. /\ Len(Tail(t.plan)) = Len(t.plan) - 1
        /\ \A j \in 1..Len(Tail(t.plan)) : Tail(t.plan)[j] = t.plan[j + 1]
    BY <1>1, TailFacts
  <2>2. i - 1 \in 1..Len(u.plan) /\ u.plan[i - 1] = t.plan[i]
    BY <1>1, <1>2, <1>4, <2>1
  <2> QED
    BY <1>2, <1>4, <2>2 DEF Ahead
<1>5. CASE u.at = "step" /\ u.plan = TopPlan \o t.plan
  <2>1. TopPlan \in Seq(Steps) /\ Len(TopPlan) = 3
    BY DEF TopPlan, Steps, RequestSteps
  <2>2. /\ Len(u.plan) = 3 + Len(t.plan)
        /\ \A j \in 1..3 + Len(t.plan) : u.plan[j] = IF j <= 3 THEN TopPlan[j] ELSE t.plan[j - 3]
    <3>1. /\ Len(TopPlan \o t.plan) = Len(TopPlan) + Len(t.plan)
          /\ \A j \in 1..Len(TopPlan) + Len(t.plan) :
               (TopPlan \o t.plan)[j] = IF j <= Len(TopPlan) THEN TopPlan[j] ELSE t.plan[j - Len(TopPlan)]
      BY <1>1, <2>1, ConcatProperties, Zenon
    <3> QED
      BY <1>5, <2>1, <3>1
  <2>3. i + 3 \in 1..Len(u.plan) /\ u.plan[i + 3] = t.plan[i]
    BY <1>1, <1>2, <2>2
  <2> QED
    BY <1>2, <1>5, <2>3 DEF Ahead
<1> QED
  BY <1>3, <1>4, <1>5

LEMMA MoveCovers ==
  ASSUME NEW t, TaskOK(t), NEW u, Moves(t, u), NEW step \in {"tax", "deeds"}, NEW type \in Types,
         NEW ps, NEW table, NEW ps2, NEW table2, Kept(ps, table, ps2, table2),
         Covers(t, step, type, ps, table)
  PROVE  Covers(u, step, type, ps2, table2)
<1>1. CASE Ahead(t, step)
  BY <1>1, AheadKept DEF Moves, Covers
<1>2. CASE \A p \in ps : table[p][type] > 0
  BY <1>2 DEF Kept, Covers
<1> QED
  BY <1>1, <1>2 DEF Moves, Covers, InHand

(* Where nothing happens to the task.                                       *)
LEMMA StayCovers ==
  ASSUME NEW t, NEW step, NEW type \in Types,
         NEW ps, NEW table, NEW ps2, NEW table2, Kept(ps, table, ps2, table2),
         Covers(t, step, type, ps, table)
  PROVE  Covers(t, step, type, ps2, table2)
BY DEF Kept, Covers

(* A step that reads a source: what it was for is asked for with it.        *)
AfterRead(t, wishes) == IF wishes = {} THEN NextStep(t) ELSE [t EXCEPT !.at = "write", !.todo = wishes]

AsksFor(wishes, type, ps) == \A p \in ps : \E w \in wishes : w.parcel = p /\ w.type = type

LEMMA ReadCovers ==
  ASSUME NEW t, TaskOK(t), t.at = "step", t.plan # <<>>, NEW wishes, NEW u,
         u = AfterRead(t, wishes),
         NEW step \in {"tax", "deeds"}, NEW type \in Types, NEW ps, NEW table,
         Head(t.plan) # step => Covers(t, step, type, ps, table),
         Head(t.plan) = step => AsksFor(wishes, type, ps)
  PROVE  Covers(u, step, type, ps, table)
<1>1. t \in Tasks
  BY DEF TaskOK
<1>2. u.plan = t.plan \/ (u.at = "step" /\ u.plan = Tail(t.plan))
  BY <1>1, NextStepFacts DEF Tasks, AfterRead
<1>3. CASE Head(t.plan) = step
  <2>1. CASE wishes = {}
    BY <1>3, <2>1 DEF Covers, AsksFor
  <2>2. CASE wishes # {}
    <3>1. u.at = "write" /\ u.todo = wishes /\ u.plan = t.plan
      BY <1>1, <2>2 DEF Tasks, AfterRead
    <3> QED
      BY <1>3, <3>1 DEF Covers, InHand, AsksFor
  <2> QED
    BY <2>1, <2>2
<1>4. CASE Head(t.plan) # step
  <2>1. CASE Ahead(t, step)
    BY <1>2, <1>4, <2>1, AheadKept DEF Covers
  <2>2. CASE ~Ahead(t, step)
    BY <1>4, <2>2 DEF Covers, InHand
  <2> QED
    BY <2>1, <2>2
<1> QED
  BY <1>3, <1>4

(* A row is looked for: it stays in hand.                                   *)
LEMMA LookCovers ==
  ASSUME NEW t, TaskOK(t), t.at = "write", NEW w \in t.todo, NEW found \in BOOLEAN, NEW u,
         u = [t EXCEPT !.at = "look", !.todo = @ \ {w}, !.wish = w, !.found = found],
         NEW step, NEW type, NEW ps, NEW table, Covers(t, step, type, ps, table)
  PROVE  Covers(u, step, type, ps, table)
<1>1. t \in Tasks /\ t.plan # <<>>
  BY DEF TaskOK
<1>2. u.at = "look" /\ u.plan = t.plan /\ u.todo = t.todo \ {w} /\ u.wish = w
  BY <1>1 DEF Tasks
<1>3. Ahead(t, step) => Ahead(u, step)
  BY <1>1, <1>2, AheadKept
<1>4. \A p : InHand(t, step, p, type) => InHand(u, step, p, type)
  BY <1>2 DEF InHand
<1> QED
  BY <1>3, <1>4 DEF Covers

(* A row is written: what was in hand is in hand still, or in the table.    *)
LEMMA WriteCovers ==
  ASSUME NEW t, TaskOK(t), t.at = "look",
         NEW step, NEW type \in Types, NEW ps, NEW table, NEW table2, Kept(ps, table, ps, table2),
         t.wish.parcel \in ps /\ t.wish.type = type => table2[t.wish.parcel][type] > 0,
         Covers(t, step, type, ps, table)
  PROVE  Covers(Back(t), step, type, ps, table2)
<1>1. t \in Tasks /\ t.plan # <<>>
  BY DEF TaskOK
<1>2. \/ t.todo = {} /\ Back(t) = NextStep(t)
      \/ Back(t).at = "write" /\ Back(t).plan = t.plan /\ Back(t).todo = t.todo
  BY <1>1 DEF Back, Tasks
<1>3. Back(t).plan = t.plan \/ (Back(t).at = "step" /\ Back(t).plan = Tail(t.plan))
  BY <1>1, <1>2, NextStepFacts
<1>4. Ahead(t, step) => Ahead(Back(t), step)
  BY <1>1, <1>3, AheadKept
<1>5. ASSUME NEW p \in ps, InHand(t, step, p, type)
      PROVE  table2[p][type] > 0 \/ InHand(Back(t), step, p, type)
  <2>1. CASE t.wish.parcel = p /\ t.wish.type = type
    BY <2>1
  <2>2. CASE \E w \in t.todo : w.parcel = p /\ w.type = type
    BY <1>2, <1>5, <2>2 DEF InHand
  <2> QED
    BY <1>5, <2>1, <2>2 DEF InHand
<1> QED
  BY <1>4, <1>5 DEF Covers, Kept

LEMMA SoldParcels == Sold \subseteq Parcels
BY DEF Sold, ByPin, Named

(* Rows are never deleted, and the scraper is not switched.                 *)
LEMMA SourcesKept ==
  ASSUME TypeInv, [Next]_vars
  PROVE  /\ \A p \in Parcels, type \in Types : rows[p][type] > 0 => rows'[p][type] > 0
         /\ rodReady' = rodReady
<1>1. \A p \in Parcels, type \in Types : rows[p][type] > 0 => rows'[p][type] > 0
  <2>1. CASE \E s \in Slots : Write(s)
    <3>1. PICK s \in Slots : Write(s)
      BY <2>1
    <3>2. \A p \in Parcels, type \in Types : rows'[p][type] = rows[p][type] \/ rows'[p][type] = rows[p][type] + 1
      BY <3>1, WriteKeepsType
    <3> QED
      BY <3>2 DEF TypeInv
  <2>2. CASE rows' = rows
    BY <2>2
  <2>3. ASSUME NEW s \in Slots, SlotStep(s), ~Write(s) PROVE rows' = rows
    <3>1. CASE Look(s) \/ Trace(s) \/ Traced(s) \/ QueueReads(s) \/ QueueAdds(s)
      BY <3>1 DEF Look, Trace, Traced, QueueReads, QueueAdds, signalVars, tableVars
    <3>2. CASE ~(Look(s) \/ Trace(s) \/ Traced(s) \/ QueueReads(s) \/ QueueAdds(s))
      BY <2>3, <3>2, PlainStep
    <3> QED
      BY <3>1, <3>2
  <2> QED
    BY <2>1, <2>2, <2>3, NextIs, OutsideKeepsType, RestartKeepsType DEF vars, signalVars, tableVars
<1>2. rodReady' = rodReady
  <2>1. ASSUME NEW s \in Slots, SlotStep(s) PROVE rodReady' = rodReady
    <3>1. CASE Reads(s)
      BY <3>1, ReadsKeepType
    <3>2. CASE ~Reads(s)
      BY <2>1, <3>2 DEF SlotStep, StartPass, StartRequest, Look, Write, AskCounty, TopNext, Trace, Traced,
         QueueReads, QueueAdds, QueueDone, TaskDone, TaskFails, WatchSkipped, Reviewed, Reopened,
         SearchDeeds, Recorded, rodVars
    <3> QED
      BY <3>1, <3>2
  <2> QED
    BY <2>1, NextIs, OutsideKeepsType, RestartKeepsType DEF vars, rodVars
<1> QED
  BY <1>1, <1>2

(* While a pass goes on, none of the parcels it has to cover is added, and only the *)
(* pass itself is told of deeds.                                            *)
LEMMA PassHistory ==
  ASSUME TypeInv, OnePass, [Next]_vars, NEW s \in Passing
  PROVE  owing' \subseteq owing /\ (told' = told \/ AskDeeds(s))
<1>1. ASSUME NEW r \in Slots, AskDeeds(r) PROVE r = s
  <2>1. TaskOK(task[r]) /\ task[r].plan # <<>> /\ Head(task[r].plan) = "deeds"
    BY <1>1, AtStepFacts DEF AskDeeds, TypeInv
  <2>2. task[r].pass # <<>>
    <3>1. task[r].plan \notin Seq(RequestSteps)
      BY <2>1, TailFacts DEF RequestSteps
    <3> QED
      BY <2>1, <3>1 DEF TaskOK
  <2>3. r \in Passing
    BY <2>1, <2>2, IdleIsNone DEF Passing, TaskOK
  <2> QED
    BY <2>3 DEF OnePass
<1>2. ASSUME NEW r \in Slots, SlotStep(r)
      PROVE  owing' \subseteq owing /\ (told' = told \/ AskDeeds(r))
  <2>1. CASE Reads(r)
    BY <2>1, ReadsKeepType DEF Reads, AskList, AskTables, PassesOver, AskFlood, AskAssessor, AskRegister,
       AskMortgage, signalVars
  <2>2. CASE ~Reads(r)
    BY <1>2, <2>2 DEF SlotStep, StartPass, StartRequest, Look, Write, AskCounty, Recorded, TopNext, Trace,
       Traced, QueueReads, QueueAdds, QueueDone, TaskDone, TaskFails, WatchSkipped, Reviewed, Reopened,
       signalVars
  <2> QED
    BY <2>1, <2>2
<1>3. Outside \/ Restart \/ UNCHANGED vars => owing' \subseteq owing /\ told' = told
  BY DEF Outside, NewWeek, Quiet, Lapses, SyncWrites, Recorded, Restart, vars, signalVars
<1> QED
  BY <1>1, <1>2, <1>3, NextIs

(* A task that asks for deeds goes on.                                      *)
LEMMA AskingMoves ==
  ASSUME TypeInv, NEW s \in Slots, AskDeeds(s)
  PROVE  task'[s] # task[s]
<1>1. AtStep(s, Reading) /\ TasksOK
  BY ReadsKeepType DEF Reads, TypeInv
<1>2. task[s] \in Tasks /\ task[s].at = "step" /\ task[s].plan \in Seq(Steps) /\ task[s].plan # <<>>
  BY <1>1, AtStepFacts DEF TaskOK, Tasks
<1>3. NextStep(task[s]).plan # task[s].plan
  <2>1. Len(Tail(task[s].plan)) = Len(task[s].plan) - 1 /\ Len(task[s].plan) \in Nat
    BY <1>2, TailFacts
  <2>2. ASSUME Tail(task[s].plan) = task[s].plan PROVE FALSE
    <3>1. Len(Tail(task[s].plan)) = Len(task[s].plan)
      BY <2>2, Zenon
    <3> QED
      BY <2>1, <3>1
  <2> QED
    BY <1>2, <2>2, NextStepFacts
<1>4. \A wishes : [task[s] EXCEPT !.at = "write", !.todo = wishes].at = "write"
  BY <1>2 DEF Tasks
<1>5. PICK wishes : task'[s] = IF wishes = {} THEN NextStep(task[s])
                               ELSE [task[s] EXCEPT !.at = "write", !.todo = wishes]
  BY ReadsKeepType DEF Reads
<1>6. CASE wishes = {}
  <2>1. task'[s] = NextStep(task[s])
    BY <1>5, <1>6
  <2> QED
    BY <1>3, <2>1
<1>7. CASE wishes # {}
  <2>1. task'[s] = [task[s] EXCEPT !.at = "write", !.todo = wishes]
    BY <1>5, <1>7
  <2>2. task'[s].at = "write"
    BY <1>4, <2>1
  <2> QED
    BY <1>2, <2>2
<1> QED
  BY <1>6, <1>7

(* How a pass goes on.                                                      *)
LEMMA PassGoesOn ==
  ASSUME TypeInv, NEW s \in Slots, SlotStep(s), s \in Passing'
  PROVE  \/ \E plan \in Passes : StartPass(s, plan)
         \/ /\ s \in Passing /\ TaskOK(task[s]) /\ task'[s].pass = task[s].pass
            /\ Reads(s) \/ Look(s) \/ Write(s) \/ Moves(task[s], task'[s])
<1> SUFFICES ASSUME ~\E plan \in Passes : StartPass(s, plan), ~Reads(s), ~Look(s), ~Write(s)
             PROVE  Moves(task[s], task'[s])
  BY PassKept, IdleIsNone DEF Passing, TaskOK
<1>1. task'[s] # Idle /\ task'[s].pass # <<>>
  BY DEF Passing
<1>2. \A t : TaskOK(t) => NextStep(t).at = "step" /\ NextStep(t).plan = Tail(t.plan)
  BY NextStepFacts DEF TaskOK
<1>3. CASE AskCounty(s)
  <2>1. TaskOK(task[s]) /\ task[s].at = "step" /\ task[s].plan # <<>> /\ Head(task[s].plan) = "arcgis"
    BY <1>3, CountyKeepsType, AtStepFacts DEF TypeInv
  <2> QED
    BY <1>2, <1>3, <2>1, CountyKeepsType DEF Moves
<1>4. CASE TopNext(s)
  <2>1. task[s].at = "step" /\ task[s].plan # <<>> /\ Head(task[s].plan) = "top"
    BY <1>4, TopNextKeepsType, AtStepFacts DEF TypeInv
  <2> QED
    BY <1>2, <1>4, <2>1, TopNextKeepsType DEF Moves
<1>5. CASE Trace(s)
  <2>1. task[s].at = "step" /\ task[s].plan # <<>> /\ Head(task[s].plan) = "trace"
    BY <1>5, TraceKeepsType, AtStepFacts DEF TypeInv
  <2> QED
    BY <1>5, <2>1, TraceKeepsType DEF Moves
<1>6. CASE Traced(s)
  <2>1. task[s].at = "traced" /\ task[s].plan # <<>>
    BY <1>6, TracedKeepsType DEF TaskOK
  <2> QED
    BY <1>6, <2>1, TracedKeepsType DEF Moves
<1>7. CASE QueueReads(s)
  <2>1. TaskOK(task[s]) /\ task[s].at = "step" /\ task[s].plan # <<>> /\ Head(task[s].plan) = "hitl"
    <3>1. AtStep(s, {"hitl"})
      BY <1>7 DEF QueueReads
    <3> QED
      BY <3>1, AtStepFacts DEF TypeInv
  <2>2. task'[s].plan = task[s].plan
    <3>1. task[s] \in Tasks
      BY <2>1 DEF TaskOK
    <3>2. task'[s] = [task[s] EXCEPT !.at = "queue", !.on = {p \in Top : Queueable(p)}]
      BY <1>7, QueueReadsKeepsType
    <3> QED
      BY <3>1, <3>2 DEF Tasks
  <2> QED
    BY <2>1, <2>2 DEF Moves
<1>8. CASE QueueAdds(s)
  <2>1. TaskOK(task[s]) /\ task[s].at = "queue" /\ task[s].plan # <<>>
    BY <1>8, QueueAddsKeepsType, Queueing
  <2>2. task[s] \in Tasks
    BY <2>1 DEF TaskOK
  <2>3. PICK p : task'[s] = [task[s] EXCEPT !.on = @ \ {p}]
    BY <1>8, QueueAddsKeepsType
  <2>4. task'[s].plan = task[s].plan
    BY <2>2, <2>3 DEF Tasks
  <2> QED
    BY <2>1, <2>4 DEF Moves
<1>9. CASE QueueDone(s)
  <2>1. TaskOK(task[s]) /\ task[s].at = "queue" /\ task[s].plan # <<>>
    BY <1>9, QueueDoneKeepsType, Queueing
  <2> QED
    BY <1>2, <1>9, <2>1, QueueDoneKeepsType DEF Moves
<1>10. CASE TaskDone(s) \/ TaskFails(s) \/ WatchSkipped(s) \/ \E p \in Parcels : Reviewed(s, p) \/ Reopened(s, p)
  <2>1. /\ TaskOK(task[s]) /\ task[s].plan # <<>> /\ task'[s] = NextStep(task[s])
        /\ task[s].pass # <<>> => Head(task[s].plan) \in {"sos", "rod"}
    BY <1>1, <1>10, EndsKeepType
  <2>2. task[s] \in Tasks
    BY <2>1 DEF TaskOK
  <2>3. task[s].pass # <<>>
    BY <1>1, <2>1, <2>2, NextStepFacts
  <2> QED
    BY <1>2, <2>1, <2>3 DEF Moves
<1>11. CASE \/ \E p \in Parcels : StartRequest(s, OneParcel, {p}) \/ StartRequest(s, <<"drive_by">>, {p})
            \/ StartRequest(s, <<"liens">>, {}) \/ StartRequest(s, <<"hitl">>, {})
  <2>1. PICK plan \in Begun : \E ps : task'[s] = Task(plan, <<>>, ps)
    BY <1>11, StartRequestKeepsType
  <2> QED
    BY <1>1, <2>1 DEF Task
<1> QED
  BY <1>3, <1>4, <1>5, <1>6, <1>7, <1>8, <1>9, <1>10, <1>11 DEF SlotStep

(* What a read asks for, where it is about the tax owed or the deeds.       *)
LEMMA ReadsSee ==
  ASSUME TypeInv, HistoryInv, NEW s \in Slots, Reads(s)
  PROVE  \E wishes :
           /\ task'[s] = AfterRead(task[s], wishes)
           /\ Head(task[s].plan) = "tax" => AsksFor(wishes, "tax_delinquent", owing)
           /\ Head(task[s].plan) = "deeds" => AsksFor(wishes, "recent_seller", Sold') /\ (rodReady => Honest(told'))
<1>1. AtStep(s, Reading) /\ TasksOK
  BY ReadsKeepType DEF TypeInv
<1>2. ASSUME NEW ps, NEW type, NEW p \in ps
      PROVE  \E w \in Wishes(ps, type) : w.parcel = p /\ w.type = type
  <2>1. Wish(p, type, "nothing") \in Wishes(ps, type)
    BY DEF Wishes
  <2>2. Wish(p, type, "nothing").parcel = p /\ Wish(p, type, "nothing").type = type
    BY DEF Wish
  <2> QED
    BY <2>1, <2>2
<1>3. CASE Head(task[s].plan) = "tax"
  <2>1. AskTables(s)
    BY <1>3 DEF Reads, AskList, AskDeeds, PassesOver, AskFlood, AskAssessor, AskRegister, AskMortgage,
                AtStep, Step, Lists
  <2>2. Asks(s, TaxWishes(unpaid)) /\ AtStep(s, {"tax", "graph", "drive_by"})
    BY <1>3, <2>1 DEF AskTables, Step
  <2>3. TaxWishes(unpaid) \in SUBSET WishRows
    BY OtherWishesOK DEF TypeInv
  <2>4. task'[s] = AfterRead(task[s], TaxWishes(unpaid))
    BY <1>1, <2>2, <2>3, AsksOK DEF AfterRead
  <2>5. AsksFor(TaxWishes(unpaid), "tax_delinquent", owing)
    BY <1>2 DEF TaxWishes, AsksFor, HistoryInv
  <2> QED
    BY <1>3, <2>4, <2>5
<1>4. CASE Head(task[s].plan) = "deeds"
  <2>1. AskDeeds(s)
    BY <1>4 DEF Reads, AskList, AskTables, PassesOver, AskFlood, AskAssessor, AskRegister, AskMortgage,
                AtStep, Step
  <2>2. PICK answer \in DeedAnswers : SearchDeeds(answer) /\ Asks(s, DeedWishes(answer.deeds)) /\ told' = answer
    BY <2>1 DEF AskDeeds
  <2> DEFINE wishes == DeedWishes(answer.deeds)
  <2>3. wishes \in SUBSET WishRows
    BY OtherWishesOK, PassAssumption DEF DeedAnswers
  <2>4. AsksFor(wishes, "recent_seller", Sold')
    <3>1. Sold' = ByPin(answer.deeds)
      BY <2>2 DEF Sold
    <3>2. Wishes(ByPin(answer.deeds), "recent_seller") \subseteq wishes
      BY DEF DeedWishes
    <3> QED
      BY <1>2, <3>1, <3>2 DEF AsksFor
  <2>5. rodReady => Honest(answer)
    BY <2>2, SearchIsHonest
  <2>6. rodReady => Honest(told')
    BY <2>2, <2>5 DEF Honest
  <2> HIDE DEF wishes
  <2>7. task'[s] = AfterRead(task[s], wishes)
    <3>1. AtStep(s, {"deeds"}) /\ Asks(s, wishes)
      BY <2>1, <2>2 DEF AskDeeds, wishes
    <3> QED
      BY <1>1, <2>3, <3>1, AsksOK DEF AfterRead
  <2> QED
    BY <1>4, <2>4, <2>6, <2>7
<1>5. CASE Head(task[s].plan) \notin {"tax", "deeds"}
  BY <1>5, ReadsKeepType DEF AfterRead
<1> QED
  BY <1>3, <1>4, <1>5

(* One part of the invariant, for the pass that takes the step.             *)
LEMMA OwnStepCovers ==
  ASSUME TypeInv, OnePass, RowInv, HistoryInv, [Next]_vars, NEW s \in Passing, TaskOK(task[s]), task'[s] # Idle,
         Reads(s) \/ Look(s) \/ Write(s) \/ Moves(task[s], task'[s]),
         NEW step, NEW type, NEW ps, NEW ps2,
         \/ step = "tax" /\ type = "tax_delinquent" /\ ps = owing /\ ps2 = owing'
         \/ step = "deeds" /\ type = "recent_seller" /\ ps = Sold /\ ps2 = Sold',
         Covers(task[s], step, type, ps, rows)
  PROVE  Covers(task'[s], step, type, ps2, rows')
<1> s \in Slots
  BY DEF Passing
<1>1. /\ step \in {"tax", "deeds"} /\ type \in Types /\ ps \subseteq Parcels
      /\ ~AskDeeds(s) => Kept(ps, rows, ps2, rows')
  <2>1. owing \subseteq Parcels /\ Sold \subseteq Parcels
    BY SoldParcels DEF TypeInv, HistoryInv
  <2>2. owing' \subseteq owing /\ (~AskDeeds(s) => Sold' = Sold)
    BY PassHistory DEF Sold
  <2> QED
    BY <2>1, <2>2, SourcesKept DEF Types, Kept
<1>2. CASE Reads(s)
  <2>1. rows' = rows /\ (step = "tax" => ps2 = ps)
    BY <1>2, ReadsKeepType DEF tableVars
  <2>2. task[s].at = "step" /\ task[s].plan # <<>>
    <3>1. AtStep(s, Reading)
      BY <1>2, ReadsKeepType
    <3> QED
      BY <3>1, AtStepFacts DEF TypeInv
  <2>3. PICK wishes :
           /\ task'[s] = AfterRead(task[s], wishes)
           /\ Head(task[s].plan) = step => AsksFor(wishes, type, ps2)
    <3>1. PICK wishes :
             /\ task'[s] = AfterRead(task[s], wishes)
             /\ Head(task[s].plan) = "tax" => AsksFor(wishes, "tax_delinquent", owing)
             /\ Head(task[s].plan) = "deeds" => AsksFor(wishes, "recent_seller", Sold')
      BY <1>2, ReadsSee
    <3>2. Head(task[s].plan) = step => AsksFor(wishes, type, ps2)
      BY <2>1, <3>1
    <3> QED
      BY <3>1, <3>2
  <2>4. Head(task[s].plan) # step => ps2 = ps
    <3>1. Head(task[s].plan) # "deeds" => ~AskDeeds(s)
      BY AtStepFacts DEF AskDeeds, TypeInv
    <3> QED
      BY <2>1, <3>1, PassHistory DEF Sold
  <2>5. Head(task[s].plan) # step => Covers(task[s], step, type, ps2, rows)
    BY <2>4
  <2>6. Covers(task'[s], step, type, ps2, rows)
    BY <1>1, <2>2, <2>3, <2>5, ReadCovers
  <2> QED
    BY <2>1, <2>6
<1>3. CASE Look(s)
  <2>1. rows' = rows /\ ps2 = ps
    BY <1>3 DEF Look, Sold, signalVars, tableVars
  <2>2. PICK w \in task[s].todo :
          task'[s] = [task[s] EXCEPT !.at = "look", !.todo = @ \ {w}, !.wish = w,
                                     !.found = FoundRow(w.parcel, w.type)]
    BY <1>3, LookKeepsType
  <2>3. FoundRow(w.parcel, w.type) \in BOOLEAN
    BY DEF FoundRow
  <2>4. task[s].at = "write"
    BY <1>3, LookKeepsType
  <2> QED
    BY <2>1, <2>2, <2>3, <2>4, LookCovers
<1>4. CASE Write(s)
  <2>1. ps2 = ps /\ task[s].at = "look" /\ task'[s] = Back(task[s]) /\ task[s].wish \in WishRows
    BY <1>4, WriteKeepsType DEF Write, Sold
  <2> ~AskDeeds(s)
    BY <2>1 DEF AskDeeds, AtStep, At
  <2>2. task[s].wish.parcel \in Parcels /\ task[s].wish.type \in Types
    BY <2>1 DEF WishRows
  <2>3. rows'[task[s].wish.parcel][task[s].wish.type] > 0
    <3> DEFINE p == task[s].wish.parcel
               t == task[s].wish.type
    <3>1. s \in Looking(p, t)
      BY <1>4 DEF Looking, Write
    <3>2. task[s].found => rows[p][t] > 0
      BY <2>2, <3>1 DEF RowInv
    <3>3. rows'[p][t] = IF ~task[s].found THEN rows[p][t] + 1 ELSE rows[p][t]
      BY <1>4, <2>2, WriteKeepsType
    <3>4. rows[p][t] \in Nat
      BY <2>2 DEF TypeInv
    <3> HIDE DEF p, t
    <3>5. rows'[p][t] > 0
      BY <3>2, <3>3, <3>4
    <3> QED
      BY <3>5 DEF p, t
  <2> QED
    BY <1>1, <2>1, <2>3, WriteCovers
<1>5. CASE Moves(task[s], task'[s])
  <2>1. ~AskDeeds(s)
    BY <1>5, AtStepFacts DEF Moves, AskDeeds, TypeInv
  <2> QED
    BY <1>1, <1>5, <2>1, MoveCovers
<1> QED
  BY <1>2, <1>3, <1>4, <1>5

(* What a pass has been told of deeds, or is to ask.                        *)
LEMMA ToldStep ==
  ASSUME TypeInv, OnePass, HistoryInv, [Next]_vars, NEW s \in Passing, TaskOK(task[s]), task'[s] # Idle,
         Reads(s) \/ Look(s) \/ Write(s) \/ Moves(task[s], task'[s]), rodReady,
         Ahead(task[s], "deeds") \/ Honest(told)
  PROVE  Ahead(task'[s], "deeds") \/ Honest(told')
<1> s \in Slots
  BY DEF Passing
<1>1. CASE AskDeeds(s)
  <2>1. AtStep(s, {"deeds"}) /\ Reads(s)
    BY <1>1 DEF AskDeeds, Reads
  <2>2. Head(task[s].plan) = "deeds"
    BY <2>1, AtStepFacts DEF TypeInv
  <2> QED
    BY <2>1, <2>2, ReadsSee
<1>2. CASE ~AskDeeds(s) /\ Honest(told)
  <2>1. told' = told
    BY <1>2, PassHistory
  <2> QED
    BY <1>2, <2>1 DEF Honest
<1>3. CASE ~AskDeeds(s) /\ Ahead(task[s], "deeds")
  <2>1. Covers(task[s], "deeds", "recent_seller", Parcels, rows)
    BY <1>3 DEF Covers
  <2>2. task[s] \in Tasks
    BY DEF TaskOK
  <2>3. CASE Reads(s)
    <3>1. AtStep(s, Reading)
      BY <2>3, ReadsKeepType
    <3>2. task[s].at = "step" /\ task[s].plan # <<>> /\ Head(task[s].plan) = Step(s)
      BY <3>1, AtStepFacts DEF TypeInv, Step
    <3>3. Head(task[s].plan) # "deeds"
      BY <1>3, <2>3, <3>2 DEF Reads, AskList, AskTables, PassesOver, AskFlood, AskAssessor, AskRegister,
         AskMortgage, AtStep, Lists
    <3>4. PICK wishes : task'[s] = AfterRead(task[s], wishes)
      BY <2>3, ReadsSee
    <3>5. task'[s].plan = task[s].plan \/ (task'[s].at = "step" /\ task'[s].plan = Tail(task[s].plan))
      BY <2>2, <3>4, NextStepFacts DEF Tasks, AfterRead
    <3> QED
      BY <1>3, <3>2, <3>3, <3>5, AheadKept
  <2>4. CASE Look(s)
    <3>1. task[s].at = "write" /\ task[s].plan # <<>>
      BY <2>4, LookKeepsType DEF TaskOK
    <3>2. PICK w : task'[s] = [task[s] EXCEPT !.at = "look", !.todo = @ \ {w}, !.wish = w,
                                             !.found = FoundRow(w.parcel, w.type)]
      BY <2>4, LookKeepsType
    <3>3. task'[s].plan = task[s].plan
      BY <2>2, <3>2 DEF Tasks
    <3> QED
      BY <1>3, <3>1, <3>3, AheadKept
  <2>5. CASE Write(s)
    <3>1. task[s].at = "look" /\ task[s].plan # <<>> /\ task'[s] = Back(task[s])
      BY <2>5, WriteKeepsType DEF TaskOK
    <3>2. task'[s].plan = task[s].plan \/ (task'[s].at = "step" /\ task'[s].plan = Tail(task[s].plan))
      BY <2>2, <3>1, NextStepFacts DEF Tasks, Back
    <3> QED
      BY <1>3, <3>1, <3>2, AheadKept
  <2>6. CASE Moves(task[s], task'[s])
    BY <1>3, <2>6, AheadKept DEF Moves
  <2> QED
    BY <2>3, <2>4, <2>5, <2>6
<1> QED
  BY <1>1, <1>2, <1>3

LEMMA CoverInvStep ==
  ASSUME TypeInv, OnePass, RowInv, HistoryInv, CoverInv, [Next]_vars
  PROVE  CoverInv'
<1> DEFINE Good(s) ==
      /\ task[s].pass # RodWatch => Covers(task[s], "tax", "tax_delinquent", owing, rows)
      /\ task[s].pass # TaxSync /\ rodReady =>
           /\ Ahead(task[s], "deeds") \/ Honest(told)
           /\ Covers(task[s], "deeds", "recent_seller", Sold, rows)
<1>1. {"tax_delinquent", "recent_seller"} \subseteq Types
  BY DEF Types
<1>2. ASSUME NEW s \in Passing', task'[s] = task[s] PROVE Good(s)'
  <2>1. s \in Passing
    BY <1>2 DEF Passing
  <2>2. told' = told /\ owing' \subseteq owing
    <3>1. ~AskDeeds(s)
      BY <1>2, <2>1, AskingMoves DEF Passing
    <3> QED
      BY <2>1, <3>1, PassHistory
  <2>3. Kept(owing, rows, owing', rows') /\ Kept(Sold, rows, Sold', rows')
    <3>1. owing \subseteq Parcels /\ Sold \subseteq Parcels /\ Sold' = Sold
      BY <2>2, SoldParcels DEF TypeInv, HistoryInv, Sold
    <3> QED
      BY <2>2, <3>1, SourcesKept DEF Kept
  <2>4. task[s].pass # RodWatch => Covers(task[s], "tax", "tax_delinquent", owing', rows')
    BY <1>1, <2>1, <2>3, StayCovers DEF CoverInv
  <2>5. task[s].pass # TaxSync /\ rodReady => Covers(task[s], "deeds", "recent_seller", Sold', rows')
    BY <1>1, <2>1, <2>3, StayCovers DEF CoverInv
  <2>6. task[s].pass # TaxSync /\ rodReady => Ahead(task[s], "deeds") \/ Honest(told')
    BY <2>1, <2>2 DEF CoverInv, Honest
  <2> QED
    BY <1>2, <2>4, <2>5, <2>6, SourcesKept
<1>3. ASSUME NEW s \in Slots, SlotStep(s), s \in Passing' PROVE Good(s)'
  <2>1. CASE \E plan \in Passes : StartPass(s, plan)
    <3>1. PICK plan \in Passes : task'[s] = Task(plan, plan, Top)
      BY <2>1, StartPassKeepsType
    <3>2. task'[s].at = "step" /\ task'[s].plan = plan /\ task'[s].pass = plan
      BY <3>1 DEF Task
    <3>3. plan = FullPass \/ plan = RodWatch \/ plan = TaxSync
      BY DEF Passes
    <3>4. /\ plan # RodWatch => Ahead(task'[s], "tax")
          /\ plan # TaxSync => Ahead(task'[s], "deeds")
      <4>1. CASE plan = FullPass
        <5>1. 1 \in 1..Len(plan) /\ 4 \in 1..Len(plan) /\ plan[1] = "tax" /\ plan[4] = "deeds"
          BY <4>1 DEF FullPass
        <5> QED
          BY <3>2, <5>1 DEF Ahead
      <4>2. CASE plan = RodWatch
        <5>1. 1 \in 1..Len(plan) /\ plan[1] = "deeds"
          BY <4>2 DEF RodWatch
        <5> QED
          BY <3>2, <4>2, <5>1 DEF Ahead
      <4>3. CASE plan = TaxSync
        <5>1. 1 \in 1..Len(plan) /\ plan[1] = "tax"
          BY <4>3 DEF TaxSync
        <5> QED
          BY <3>2, <4>3, <5>1 DEF Ahead
      <4> QED
        BY <3>3, <4>1, <4>2, <4>3
    <3> QED
      BY <3>2, <3>4 DEF Covers
  <2>2. CASE ~\E plan \in Passes : StartPass(s, plan)
    <3>1. /\ s \in Passing /\ TaskOK(task[s]) /\ task'[s].pass = task[s].pass /\ task'[s] # Idle
          /\ Reads(s) \/ Look(s) \/ Write(s) \/ Moves(task[s], task'[s])
      BY <1>3, <2>2, PassGoesOn DEF Passing
    <3>2. task[s].pass # RodWatch => Covers(task'[s], "tax", "tax_delinquent", owing', rows')
      BY <3>1, OwnStepCovers DEF CoverInv
    <3>3. task[s].pass # TaxSync /\ rodReady => Covers(task'[s], "deeds", "recent_seller", Sold', rows')
      BY <3>1, OwnStepCovers DEF CoverInv
    <3>4. task[s].pass # TaxSync /\ rodReady => Ahead(task'[s], "deeds") \/ Honest(told')
      BY <3>1, ToldStep DEF CoverInv
    <3> QED
      BY <3>1, <3>2, <3>3, <3>4, SourcesKept
  <2> QED
    BY <2>1, <2>2
<1>4. ASSUME NEW s \in Passing' PROVE Good(s)'
  <2>1. s \in Slots
    BY DEF Passing
  <2>2. CASE Outside \/ UNCHANGED vars
    BY <1>2, <2>2, OutsideKeepsType DEF vars, deskVars
  <2>3. CASE Restart
    BY <2>1, <2>3, RestartKeepsType DEF Passing
  <2>4. ASSUME NEW r \in Slots, SlotStep(r) PROVE Good(s)'
    <3>1. CASE r = s
      BY <1>3, <2>4, <3>1
    <3>2. CASE r # s
      <4>1. task'[s] = task[s]
        BY <2>1, <2>4, <3>2, PassKept
      <4> QED
        BY <1>2, <4>1
    <3> QED
      BY <3>1, <3>2
  <2> QED
    BY <2>2, <2>3, <2>4, NextIs
<1> QED
  BY <1>4 DEF CoverInv

LEMMA CoverInit == Init => HistoryInv /\ CoverInv
<1> SUFFICES ASSUME Init PROVE HistoryInv /\ CoverInv
  OBVIOUS
<1>1. recent = {} /\ owing = {}
  BY DEF Init, RodInit
<1>2. Passing = {}
  BY DEF Init, DeskInit, Passing
<1> QED
  BY <1>1, <1>2 DEF HistoryInv, CoverInv

(* Only the end of a pass marks it a success.                               *)
LEMMA SuccessIsDone ==
  ASSUME TypeInv, [Next]_vars, passRow = "running", passRow' = "success"
  PROVE  \E s \in Passing : At(s, "step") /\ task[s].plan = <<>>
<1>1. PICK s \in Slots : SlotStep(s)
  BY NextIs, OutsideKeepsType, RestartKeepsType DEF vars, ownVars
<1>2. CASE TaskDone(s)
  BY <1>2 DEF TaskDone
<1>3. CASE Reads(s)
  BY <1>3, ReadsKeepType
<1>4. CASE ~TaskDone(s) /\ ~Reads(s)
  BY <1>1, <1>4 DEF SlotStep, StartPass, StartRequest, Look, Write, AskCounty, Recorded, TopNext, Trace, Traced,
     QueueReads, QueueAdds, QueueDone, TaskFails, WatchSkipped, Reviewed, Reopened, ownVars
<1> QED
  BY <1>2, <1>3, <1>4

\* A pass that is marked a success has seen to every parcel that has owed tax since it
\* began and, where the scraper is on, to every deed it was told of, which are those of
\* one page of what is recorded unless the answer held no documents; whatever went wrong
\* on its way and whoever wrote the same rows meanwhile.
THEOREM PassesCover == Spec => SuccessCovers
<1> DEFINE Covered ==
      \A s \in Passing : passRow = "running" /\ passRow' = "success" =>
        /\ task[s].pass # RodWatch => \A p \in owing : rows[p]["tax_delinquent"] > 0
        /\ task[s].pass # TaxSync /\ rodReady =>
             /\ told.how = "blank" \/ \E docs \in SUBSET Docs : IsPage(docs) /\ told.deeds = DeedsOf(docs)
             /\ \A p \in ByPin(told.deeds) : rows[p]["recent_seller"] > 0
           IInv == TypeInv /\ OnePass /\ RowInv /\ HistoryInv /\ CoverInv
<1>1. Init => IInv
  <2>1. Init => OnePass
    BY DEF Init, DeskInit, Passing, OnePass
  <2> QED
    BY <2>1, TypeInit, RowInvInit, CoverInit
<1>2. IInv /\ [Next]_vars => IInv'
  BY TypeStep, OnePassStep, RowInvStep, HistoryInvStep, CoverInvStep
<1>3. IInv /\ [Next]_vars => [Covered]_vars
  <2> SUFFICES ASSUME IInv, [Next]_vars, NEW s \in Passing, passRow = "running", passRow' = "success"
               PROVE  /\ task[s].pass # RodWatch => \A p \in owing : rows[p]["tax_delinquent"] > 0
                      /\ task[s].pass # TaxSync /\ rodReady =>
                           Honest(told) /\ \A p \in Sold : rows[p]["recent_seller"] > 0
    BY DEF Sold, Honest
  <2>1. At(s, "step") /\ task[s].plan = <<>>
    BY SuccessIsDone DEF OnePass
  <2>2. \A step, p, type : ~Ahead(task[s], step) /\ ~InHand(task[s], step, p, type)
    BY <2>1 DEF Ahead, InHand, At
  <2> QED
    BY <2>2 DEF CoverInv, Covers
<1> QED
  BY <1>1, <1>2, <1>3, PTL DEF Spec, SuccessCovers
=============================================================================
