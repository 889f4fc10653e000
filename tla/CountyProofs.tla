----------------------------- MODULE CountyProofs -----------------------------
(***************************************************************************)
(* Theorems about the county's side: the request limiter, the pull of a layer *)
(* through it and the parcel sync that consumes the pull.                     *)
(*                                                                           *)
(* The limiter, for every set of callers, every limit and every number of     *)
(* retries: each action is an update of the phases and the queue followed by   *)
(* one ReleaseFrom (or by none, in Start), so the invariant is stated over a   *)
(* counter, a queue and phases, and one lemma says what ReleaseFrom does to it. *)
(*                                                                           *)
(* The sync, for any layer, any server and any number of runs, failures,       *)
(* crashes and restores.  Its theorems rest on these invariants: what the sync *)
(* has seen is active and what is active is in the table (Inventory); the      *)
(* SyncRun table has a row of the sync in progress and counts rows upserted    *)
(* (Ledger); what a pull has passed over so far is accounted for (PullInv);     *)
(* and while nobody edits the layer the pull delivers rows of it, each once     *)
(* (SeenInv, StableInv).                                                       *)
(***************************************************************************)
EXTENDS ArcGisSlots, ParcelSync, FiniteSetTheorems, FunctionTheorems, SequenceTheorems, TLAPS

----------------------------------------------------------------------------
\* The request limiter.

\* The callers that fetch under phases p.
FetchingIn(p) == {c \in Callers : p[c] = "fetching"}

\* QueueHoldsWaiters for phases p and queue q.
QueueMatches(p, q) ==
  /\ \A c \in Callers : p[c] = "waiting" <=> \E i \in 1..Len(q) : q[i] = c
  /\ \A i, j \in 1..Len(q) : q[i] = q[j] => i = j

\* Nobody queues while a slot is free, and the counter never passes the limit.
QueueOnlyWhenFull ==
  /\ active <= MaxConcurrency
  /\ waitQueue # <<>> => active = MaxConcurrency

\* A request in its backoff has an attempt left.
BackoffHasAttempt == \A c \in Callers : phase[c] = "backoff" => attempt[c] < MaxAttempts

IInv ==
  /\ TypeOK
  /\ CounterDrift
  /\ QueueHoldsWaiters
  /\ QueueOnlyWhenFull
  /\ BackoffHasAttempt

----------------------------------------------------------------------------
(* The callers that fetch form a finite set.                                *)
LEMMA FetchingFinite ==
  ASSUME NEW p
  PROVE  IsFiniteSet(FetchingIn(p)) /\ Cardinality(FetchingIn(p)) \in Nat
<1>1. FetchingIn(p) \in SUBSET Callers
  BY DEF FetchingIn
<1>2. IsFiniteSet(FetchingIn(p))
  BY <1>1, SlotsAssumption, FS_Subset
<1> QED
  BY <1>2, FS_CardinalityType

(* Moving caller c into the fetch adds one to the callers that fetch.       *)
LEMMA EnterFetch ==
  ASSUME NEW p \in [Callers -> Phases], NEW c \in Callers, p[c] # "fetching"
  PROVE  LET r == [p EXCEPT ![c] = "fetching"]
         IN  /\ r \in [Callers -> Phases]
             /\ Cardinality(FetchingIn(r)) = Cardinality(FetchingIn(p)) + 1
<1> DEFINE r == [p EXCEPT ![c] = "fetching"]
<1>1. FetchingIn(r) = FetchingIn(p) \cup {c}
  BY DEF FetchingIn
<1>2. c \notin FetchingIn(p)
  BY DEF FetchingIn
<1>3. r \in [Callers -> Phases]
  BY DEF Phases
<1> QED
  BY <1>1, <1>2, <1>3, FetchingFinite, FS_AddElement

(* Moving caller c from the fetch to another phase takes one away.          *)
LEMMA LeaveFetch ==
  ASSUME NEW p \in [Callers -> Phases], NEW c \in Callers, p[c] = "fetching",
         NEW to \in Phases \ {"fetching"}
  PROVE  LET r == [p EXCEPT ![c] = to]
         IN  /\ r \in [Callers -> Phases]
             /\ Cardinality(FetchingIn(r)) = Cardinality(FetchingIn(p)) - 1
<1> DEFINE r == [p EXCEPT ![c] = to]
<1>1. FetchingIn(r) = FetchingIn(p) \ {c}
  BY DEF FetchingIn
<1>2. c \in FetchingIn(p)
  BY DEF FetchingIn
<1>3. r \in [Callers -> Phases]
  OBVIOUS
<1> QED
  BY <1>1, <1>2, <1>3, FetchingFinite, FS_RemoveElement

(* A caller that does not fetch and moves to a phase that is not the fetch   *)
(* leaves the callers that fetch as they are.                                *)
LEMMA MoveOutside ==
  ASSUME NEW p \in [Callers -> Phases], NEW c \in Callers, p[c] # "fetching",
         NEW to \in Phases \ {"fetching"}
  PROVE  LET r == [p EXCEPT ![c] = to]
         IN  /\ r \in [Callers -> Phases]
             /\ FetchingIn(r) = FetchingIn(p)
BY DEF FetchingIn

(* Joining the queue keeps queue and phases in step.                        *)
LEMMA JoinQueue ==
  ASSUME NEW p \in [Callers -> Phases], NEW q \in Seq(Callers),
         QueueMatches(p, q), NEW c \in Callers, p[c] # "waiting"
  PROVE  /\ Append(q, c) \in Seq(Callers)
         /\ Append(q, c) # <<>>
         /\ QueueMatches([p EXCEPT ![c] = "waiting"], Append(q, c))
<1> DEFINE r == [p EXCEPT ![c] = "waiting"]
           s == Append(q, c)
<1>1. /\ s \in Seq(Callers) /\ s # <<>>
      /\ Len(s) = Len(q) + 1
      /\ \A i \in 1..Len(q) : s[i] = q[i]
      /\ s[Len(q) + 1] = c
  BY AppendProperties
<1>2. Len(q) \in Nat
  BY LenProperties
<1>3. \A i \in 1..Len(q) : q[i] \in Callers /\ q[i] # c
  <2>1. TAKE i \in 1..Len(q)
  <2>2. q[i] \in Callers
    BY ElementOfSeq
  <2> QED
    BY <2>2 DEF QueueMatches
<1>4. \A d \in Callers : r[d] = "waiting" <=> \E i \in 1..Len(s) : s[i] = d
  <2>1. TAKE d \in Callers
  <2>2. CASE d = c
    BY <1>1, <1>2, <2>2
  <2>3. CASE d # c
    <3>1. r[d] = "waiting" <=> \E i \in 1..Len(q) : q[i] = d
      BY <2>3 DEF QueueMatches
    <3>2. (\E i \in 1..Len(q) : q[i] = d) <=> \E i \in 1..Len(s) : s[i] = d
      BY <1>1, <1>2, <2>3
    <3> QED
      BY <3>1, <3>2
  <2> QED
    BY <2>2, <2>3
<1>5. \A i, j \in 1..Len(s) : s[i] = s[j] => i = j
  <2>1. \A i \in 1..Len(s) : i \in 1..Len(q) \/ i = Len(q) + 1
    BY <1>1, <1>2
  <2> QED
    BY <1>1, <1>2, <1>3, <2>1 DEF QueueMatches
<1> QED
  BY <1>1, <1>4, <1>5 DEF QueueMatches

(* A caller that is not queued may change to any phase but waiting.          *)
LEMMA QueueUntouched ==
  ASSUME NEW p \in [Callers -> Phases], NEW q \in Seq(Callers),
         QueueMatches(p, q), NEW c \in Callers, p[c] # "waiting",
         NEW to \in Phases \ {"waiting"}
  PROVE  QueueMatches([p EXCEPT ![c] = to], q)
BY DEF QueueMatches

(* Taking the first caller off the queue and into the fetch keeps queue and  *)
(* phases in step.                                                           *)
LEMMA LeaveQueue ==
  ASSUME NEW p \in [Callers -> Phases], NEW q \in Seq(Callers),
         QueueMatches(p, q), q # <<>>
  PROVE  /\ Head(q) \in Callers
         /\ p[Head(q)] = "waiting"
         /\ Tail(q) \in Seq(Callers)
         /\ QueueMatches([p EXCEPT ![Head(q)] = "fetching"], Tail(q))
<1> DEFINE h == Head(q)
           t == Tail(q)
           r == [p EXCEPT ![h] = "fetching"]
<1>1. /\ h \in Callers /\ t \in Seq(Callers)
      /\ Len(t) = Len(q) - 1
      /\ \A i \in 1..Len(t) : t[i] = q[i + 1]
  BY HeadTailProperties
<1>2. Len(q) \in Nat \ {0} /\ h = q[1]
  BY EmptySeq
<1>3. p[h] = "waiting"
  BY <1>1, <1>2 DEF QueueMatches
<1>4. \A d \in Callers : r[d] = "waiting" <=> \E i \in 1..Len(t) : t[i] = d
  <2>1. TAKE d \in Callers
  <2>2. (\E i \in 1..Len(t) : t[i] = d) <=> \E j \in 2..Len(q) : q[j] = d
    <3>1. ASSUME NEW i \in 1..Len(t), t[i] = d
          PROVE  \E j \in 2..Len(q) : q[j] = d
      BY <1>1, <1>2, <3>1
    <3>2. ASSUME NEW j \in 2..Len(q), q[j] = d
          PROVE  \E i \in 1..Len(t) : t[i] = d
      <4>1. j - 1 \in 1..Len(t) /\ t[j - 1] = q[j]
        BY <1>1, <1>2
      <4> QED
        BY <3>2, <4>1
    <3> QED
      BY <3>1, <3>2
  <2>3. CASE d = h
    <3>1. ~ \E j \in 2..Len(q) : q[j] = d
      BY <1>2, <2>3 DEF QueueMatches
    <3> QED
      BY <1>1, <2>2, <2>3, <3>1
  <2>4. CASE d # h
    <3>1. (\E j \in 2..Len(q) : q[j] = d) <=> \E j \in 1..Len(q) : q[j] = d
      BY <1>2, <2>4
    <3>2. r[d] = p[d]
      BY <1>1, <2>4
    <3> QED
      BY <2>2, <3>1, <3>2 DEF QueueMatches
  <2> QED
    BY <2>3, <2>4
<1>5. \A i, j \in 1..Len(t) : t[i] = t[j] => i = j
  <2>1. TAKE i, j \in 1..Len(t)
  <2>2. i + 1 \in 1..Len(q) /\ j + 1 \in 1..Len(q)
    BY <1>1, <1>2
  <2> QED
    BY <1>1, <2>2 DEF QueueMatches
<1> QED
  BY <1>1, <1>3, <1>4, <1>5 DEF QueueMatches

----------------------------------------------------------------------------
(* release() takes one off the difference between the counter and the        *)
(* requests in flight, whether or not it wakes somebody.                     *)
LEMMA ReleaseKeepsAccount ==
  ASSUME NEW a \in Int, NEW q \in Seq(Callers), NEW p \in [Callers -> Phases],
         NEW k \in Int,
         QueueMatches(p, q),
         a - 1 = Cardinality(FetchingIn(p)) - k,
         a - 1 < MaxConcurrency,
         q # <<>> => a = MaxConcurrency,
         ReleaseFrom(a, q, p)
  PROVE  /\ active' \in Int
         /\ waitQueue' \in Seq(Callers)
         /\ phase' \in [Callers -> Phases]
         /\ active' = Cardinality(FetchingIn(phase')) - k
         /\ QueueMatches(phase', waitQueue')
         /\ active' <= MaxConcurrency
         /\ waitQueue' # <<>> => active' = MaxConcurrency
         /\ \A d \in Callers : phase'[d] = "backoff" => p[d] = "backoff"
<1> USE SlotsAssumption
<1>1. CASE q = <<>>
  <2>1. active' = a - 1 /\ waitQueue' = q /\ phase' = p
    BY <1>1 DEF ReleaseFrom
  <2> QED
    BY <1>1, <2>1
<1>2. CASE q # <<>>
  <2>1. /\ active' = a /\ waitQueue' = Tail(q)
        /\ phase' = [p EXCEPT ![Head(q)] = "fetching"]
    BY <1>2 DEF ReleaseFrom
  <2>2. /\ Head(q) \in Callers /\ p[Head(q)] = "waiting"
        /\ Tail(q) \in Seq(Callers)
        /\ QueueMatches(phase', waitQueue')
    BY <1>2, <2>1, LeaveQueue
  <2>3. /\ phase' \in [Callers -> Phases]
        /\ Cardinality(FetchingIn(phase')) = Cardinality(FetchingIn(p)) + 1
    BY <2>1, <2>2, EnterFetch
  <2>4. active' = Cardinality(FetchingIn(phase')) - k
    <3>1. Cardinality(FetchingIn(p)) \in Nat
      BY FetchingFinite
    <3> QED
      BY <2>1, <2>3, <3>1
  <2>5. active' \in Int /\ active' <= MaxConcurrency /\ active' = MaxConcurrency
    BY <1>2, <2>1
  <2>6. \A d \in Callers : phase'[d] = "backoff" => p[d] = "backoff"
    BY <2>1, <2>2
  <2> QED
    BY <2>1, <2>2, <2>3, <2>4, <2>5, <2>6
<1> QED
  BY <1>1, <1>2

LEMMA InitInvariant == SlotsInit => IInv
<1> SUFFICES ASSUME SlotsInit PROVE IInv
  OBVIOUS
<1>1. TypeOK
  BY SlotsAssumption DEF SlotsInit, TypeOK, Phases
<1>2. CounterDrift
  <2>1. Fetching = {}
    BY DEF SlotsInit, Fetching
  <2> QED
    BY <2>1, FS_EmptySet DEF SlotsInit, CounterDrift
<1>3. QueueHoldsWaiters
  BY DEF SlotsInit, QueueHoldsWaiters
<1>4. QueueOnlyWhenFull /\ BackoffHasAttempt
  BY SlotsAssumption DEF SlotsInit, QueueOnlyWhenFull, BackoffHasAttempt
<1> QED
  BY <1>1, <1>2, <1>3, <1>4 DEF IInv

LEMMA StepInvariant == IInv /\ [Next]_slotVars => IInv'
<1> SUFFICES ASSUME IInv, [Next]_slotVars PROVE IInv'
  OBVIOUS
<1> USE SlotsAssumption
<1>1. /\ active \in Int /\ waitQueue \in Seq(Callers)
      /\ phase \in [Callers -> Phases]
      /\ attempt \in [Callers -> 0..MaxAttempts] /\ issued \in [Callers -> Nat]
      /\ surplus \in Nat
  BY DEF IInv, TypeOK
<1>2. /\ active = Cardinality(FetchingIn(phase)) - surplus
      /\ Cardinality(FetchingIn(phase)) \in Nat
  BY FetchingFinite DEF IInv, CounterDrift, Fetching, FetchingIn
<1>3. QueueMatches(phase, waitQueue)
  BY DEF IInv, QueueHoldsWaiters, QueueMatches
<1>4. active <= MaxConcurrency /\ (waitQueue # <<>> => active = MaxConcurrency)
  BY DEF IInv, QueueOnlyWhenFull
<1>a. \A d \in Callers : phase[d] = "backoff" => attempt[d] < MaxAttempts
  BY DEF IInv, BackoffHasAttempt
<1> DEFINE Goal == /\ active' \in Int
                   /\ waitQueue' \in Seq(Callers)
                   /\ phase' \in [Callers -> Phases]
                   /\ attempt' \in [Callers -> 0..MaxAttempts] /\ issued' \in [Callers -> Nat]
                   /\ surplus' \in Nat
                   /\ active' = Cardinality(FetchingIn(phase')) - surplus'
                   /\ QueueMatches(phase', waitQueue')
                   /\ active' <= MaxConcurrency
                   /\ waitQueue' # <<>> => active' = MaxConcurrency
                   /\ \A d \in Callers :
                        phase'[d] = "backoff" => attempt'[d] < MaxAttempts
<1>5. Goal => IInv'
  BY DEF IInv, TypeOK, CounterDrift, Fetching, FetchingIn, QueueHoldsWaiters,
         QueueMatches, QueueOnlyWhenFull, BackoffHasAttempt
<1>6. ASSUME NEW c \in Callers, Start(c)
      PROVE  Goal
  <2>1. /\ phase[c] = "idle"
        /\ attempt' \in [Callers -> 0..MaxAttempts] /\ issued' \in [Callers -> Nat]
        /\ surplus' = surplus
    BY <1>1, <1>6 DEF Start
  <2>b. \A d \in Callers : phase'[d] = "backoff" => attempt'[d] < MaxAttempts
    BY <1>1, <1>a, <1>6 DEF Start
  <2>2. CASE /\ SlotFree /\ active' = active + 1
             /\ phase' = [phase EXCEPT ![c] = "fetching"]
             /\ waitQueue' = waitQueue
    <3>1. QueueMatches(phase', waitQueue')
      BY <1>1, <1>3, <2>1, <2>2, QueueUntouched DEF Phases
    <3>2. /\ phase' \in [Callers -> Phases]
          /\ Cardinality(FetchingIn(phase')) = Cardinality(FetchingIn(phase)) + 1
      BY <1>1, <2>1, <2>2, EnterFetch
    <3>3. active < MaxConcurrency
      BY <2>2 DEF SlotFree
    <3> QED
      BY <1>1, <1>2, <1>4, <2>1, <2>2, <2>b, <3>1, <3>2, <3>3
  <2>3. CASE /\ ~SlotFree /\ active' = active
             /\ phase' = [phase EXCEPT ![c] = "waiting"]
             /\ waitQueue' = Append(waitQueue, c)
    <3>1. QueueMatches(phase', waitQueue') /\ waitQueue' \in Seq(Callers)
      BY <1>1, <1>3, <2>1, <2>3, JoinQueue
    <3>2. /\ phase' \in [Callers -> Phases]
          /\ FetchingIn(phase') = FetchingIn(phase)
      BY <1>1, <2>1, <2>3, MoveOutside DEF Phases
    <3>3. active = MaxConcurrency
      BY <1>1, <1>4, <2>3 DEF SlotFree
    <3> QED
      BY <1>1, <1>2, <2>1, <2>3, <2>b, <3>1, <3>2, <3>3
  <2> QED
    BY <1>6, <2>2, <2>3 DEF Start
<1>7. ASSUME NEW c \in Callers, ServerError(c) \/ FetchEnds(c)
      PROVE  Goal
  <2> PICK to \in {"backoff", "idle"} :
        /\ phase[c] = "fetching"
        /\ ReleaseFrom(active, waitQueue, [phase EXCEPT ![c] = to])
        /\ UNCHANGED <<attempt, issued, surplus>>
        /\ to = "backoff" => attempt[c] < MaxAttempts
    BY <1>7 DEF ServerError, FetchEnds, HasAttemptLeft
  <2> DEFINE p == [phase EXCEPT ![c] = to]
  <2>1. QueueMatches(p, waitQueue)
    BY <1>1, <1>3, QueueUntouched DEF Phases
  <2>2. /\ p \in [Callers -> Phases]
        /\ Cardinality(FetchingIn(p)) = Cardinality(FetchingIn(phase)) - 1
    BY <1>1, LeaveFetch DEF Phases
  <2>3. active - 1 = Cardinality(FetchingIn(p)) - surplus /\ active - 1 < MaxConcurrency
    BY <1>1, <1>2, <1>4, <2>2
  <2>b. \A d \in Callers : p[d] = "backoff" => attempt'[d] < MaxAttempts
    BY <1>1, <1>a
  <2> HIDE DEF p
  <2>4. ReleaseFrom(active, waitQueue, p)
    BY DEF p
  <2>5. surplus \in Int /\ surplus' = surplus
    BY <1>1
  <2>6. attempt' \in [Callers -> 0..MaxAttempts] /\ issued' \in [Callers -> Nat] /\ surplus' \in Nat
    BY <1>1
  <2>7. /\ active' \in Int /\ waitQueue' \in Seq(Callers)
        /\ phase' \in [Callers -> Phases]
        /\ active' = Cardinality(FetchingIn(phase')) - surplus
        /\ QueueMatches(phase', waitQueue')
        /\ active' <= MaxConcurrency
        /\ waitQueue' # <<>> => active' = MaxConcurrency
        /\ \A d \in Callers : phase'[d] = "backoff" => p[d] = "backoff"
    BY <1>1, <1>4, <2>1, <2>2, <2>3, <2>4, <2>5, ReleaseKeepsAccount
  <2> QED
    BY <2>5, <2>6, <2>7, <2>b
<1>8. ASSUME NEW c \in Callers, Retry(c)
      PROVE  Goal
  <2>1. /\ phase[c] = "backoff"
        /\ attempt' \in [Callers -> 0..MaxAttempts] /\ issued' \in [Callers -> Nat]
        /\ surplus' = surplus + 1
    BY <1>1, <1>a, <1>8 DEF Retry
  <2>b. \A d \in Callers \ {c} : phase[d] = "backoff" => attempt'[d] < MaxAttempts
    BY <1>1, <1>a, <1>8 DEF Retry
  <2>2. CASE /\ SlotFree
             /\ ReleaseFrom(active + 1, waitQueue, [phase EXCEPT ![c] = "fetching"])
    <3> DEFINE p == [phase EXCEPT ![c] = "fetching"]
    <3>1. QueueMatches(p, waitQueue)
      BY <1>1, <1>3, <2>1, QueueUntouched DEF Phases
    <3>2. /\ p \in [Callers -> Phases]
          /\ Cardinality(FetchingIn(p)) = Cardinality(FetchingIn(phase)) + 1
      BY <1>1, <2>1, EnterFetch
    <3>3. /\ (active + 1) - 1 = Cardinality(FetchingIn(p)) - (surplus + 1)
          /\ (active + 1) - 1 < MaxConcurrency
          /\ waitQueue = <<>>
      BY <1>1, <1>2, <1>4, <2>2, <3>2 DEF SlotFree
    <3>b. \A d \in Callers : p[d] = "backoff" => attempt'[d] < MaxAttempts
      BY <1>1, <2>b
    <3> HIDE DEF p
    <3>4. ReleaseFrom(active + 1, waitQueue, p)
      BY <2>2 DEF p
    <3>5. active + 1 \in Int /\ surplus + 1 \in Int /\ surplus + 1 \in Nat
      BY <1>1
    <3>6. /\ active' \in Int /\ waitQueue' \in Seq(Callers)
          /\ phase' \in [Callers -> Phases]
          /\ active' = Cardinality(FetchingIn(phase')) - (surplus + 1)
          /\ QueueMatches(phase', waitQueue')
          /\ active' <= MaxConcurrency
          /\ waitQueue' # <<>> => active' = MaxConcurrency
          /\ \A d \in Callers : phase'[d] = "backoff" => p[d] = "backoff"
      BY <1>1, <3>1, <3>2, <3>3, <3>4, <3>5, ReleaseKeepsAccount
    <3> QED
      BY <2>1, <3>5, <3>6, <3>b
  <2>3. CASE /\ ~SlotFree
             /\ ReleaseFrom(active, Append(waitQueue, c),
                            [phase EXCEPT ![c] = "waiting"])
    <3> DEFINE p == [phase EXCEPT ![c] = "waiting"]
               q == Append(waitQueue, c)
    <3>1. QueueMatches(p, q) /\ q \in Seq(Callers)
      BY <1>1, <1>3, <2>1, JoinQueue
    <3>2. /\ p \in [Callers -> Phases]
          /\ FetchingIn(p) = FetchingIn(phase)
      BY <1>1, <2>1, MoveOutside DEF Phases
    <3>3. /\ active - 1 = Cardinality(FetchingIn(p)) - (surplus + 1)
          /\ active - 1 < MaxConcurrency
          /\ active = MaxConcurrency
      BY <1>1, <1>2, <1>4, <2>3, <3>2 DEF SlotFree
    <3>b. \A d \in Callers : p[d] = "backoff" => attempt'[d] < MaxAttempts
      BY <1>1, <2>b
    <3> HIDE DEF p, q
    <3>4. ReleaseFrom(active, q, p)
      BY <2>3 DEF p, q
    <3>5. surplus + 1 \in Int /\ surplus + 1 \in Nat
      BY <1>1
    <3>6. /\ active' \in Int /\ waitQueue' \in Seq(Callers)
          /\ phase' \in [Callers -> Phases]
          /\ active' = Cardinality(FetchingIn(phase')) - (surplus + 1)
          /\ QueueMatches(phase', waitQueue')
          /\ active' <= MaxConcurrency
          /\ waitQueue' # <<>> => active' = MaxConcurrency
          /\ \A d \in Callers : phase'[d] = "backoff" => p[d] = "backoff"
      BY <1>1, <3>1, <3>2, <3>3, <3>4, <3>5, ReleaseKeepsAccount
    <3> QED
      BY <2>1, <3>5, <3>6, <3>b
  <2> QED
    BY <1>8, <2>2, <2>3 DEF Retry
<1>9. CASE UNCHANGED slotVars
  BY <1>9 DEF slotVars, IInv, TypeOK, CounterDrift, Fetching, QueueHoldsWaiters,
              QueueOnlyWhenFull, BackoffHasAttempt
<1> HIDE DEF Goal
<1> QED
  BY <1>5, <1>6, <1>7, <1>8, <1>9 DEF Next, CallerStep, Quiet

THEOREM InvariantHolds == Spec => []IInv
BY InitInvariant, StepInvariant, PTL DEF Spec

----------------------------------------------------------------------------
(* Type correctness of the limiter.                                         *)
THEOREM TypeCorrect == Spec => []TypeOK
<1>1. IInv => TypeOK
  BY DEF IInv
<1> QED
  BY <1>1, InvariantHolds, PTL

(* arcgis.client.ts: whatever the interleaving, each retry costs the counter *)
(* exactly one.                                                              *)
THEOREM DriftIsExact == Spec => []CounterDrift
<1>1. IInv => CounterDrift
  BY DEF IInv
<1> QED
  BY <1>1, InvariantHolds, PTL

(* Requests in flight exceed the limit by at most the retries made.          *)
THEOREM FlightBounded == Spec => []DriftBoundsFlight
<1>1. IInv => DriftBoundsFlight
  <2>1. Cardinality(Fetching) \in Nat
    BY FetchingFinite DEF Fetching, FetchingIn
  <2> QED
    BY <2>1, SlotsAssumption
    DEF IInv, TypeOK, CounterDrift, QueueOnlyWhenFull, DriftBoundsFlight
<1> QED
  BY <1>1, InvariantHolds, PTL

(* No resolver is lost and none is called twice.                             *)
THEOREM QueueSound == Spec => []QueueHoldsWaiters
<1>1. IInv => QueueHoldsWaiters
  BY DEF IInv
<1> QED
  BY <1>1, InvariantHolds, PTL

(* Somebody in flight will wake whoever waits.                               *)
THEOREM NobodyStranded == Spec => []NoStrandedWaiter
<1>1. IInv => NoStrandedWaiter
  <2> SUFFICES ASSUME IInv, waitQueue # <<>>
               PROVE  active = MaxConcurrency /\ Fetching # {}
    BY DEF NoStrandedWaiter
  <2>1. active = MaxConcurrency
    BY DEF IInv, QueueOnlyWhenFull
  <2>2. Cardinality(Fetching) # 0
    BY <2>1, SlotsAssumption DEF IInv, TypeOK, CounterDrift
  <2> QED
    BY <2>1, <2>2, FS_EmptySet
<1> QED
  BY <1>1, InvariantHolds, PTL

(* Slots are handed out in the order callers joined the queue.               *)
THEOREM FirstComeFirstServed == Spec => NoOvertaking
<1> DEFINE Fair == \A c \in Callers :
                     phase[c] # "fetching" /\ phase'[c] = "fetching" =>
                       \/ waitQueue = <<>>
                       \/ Head(waitQueue) = c
<1>1. IInv /\ [Next]_slotVars => [Fair]_slotVars
  <2> SUFFICES ASSUME IInv, Next, NEW c \in Callers,
                      phase[c] # "fetching", phase'[c] = "fetching",
                      waitQueue # <<>>
               PROVE  Head(waitQueue) = c
    BY DEF slotVars
  <2>1. ~SlotFree /\ waitQueue \in Seq(Callers) /\ phase \in [Callers -> Phases]
    BY SlotsAssumption DEF IInv, QueueOnlyWhenFull, SlotFree, TypeOK
  <2>2. ASSUME NEW d \in Callers, Start(d) PROVE FALSE
    BY <2>1, <2>2 DEF Start
  <2>3. ASSUME NEW d \in Callers, ServerError(d) \/ FetchEnds(d)
        PROVE  Head(waitQueue) = c
    <3>1. Head(waitQueue) \in Callers
      BY <2>1, HeadTailProperties
    <3> QED
      BY <2>1, <2>3, <3>1 DEF ServerError, FetchEnds, ReleaseFrom
  <2>4. ASSUME NEW d \in Callers, Retry(d)
        PROVE  Head(waitQueue) = c
    <3>1. Head(Append(waitQueue, d)) = Head(waitQueue) /\ Append(waitQueue, d) # <<>>
      BY <2>1, HeadTailAppend, AppendProperties
    <3>2. Head(waitQueue) \in Callers
      BY <2>1, HeadTailProperties
    <3> QED
      BY <2>1, <2>4, <3>1, <3>2 DEF Retry, ReleaseFrom
  <2> QED
    BY <2>2, <2>3, <2>4 DEF Next, CallerStep, Quiet, slotVars
<1> QED
  BY <1>1, InvariantHolds, PTL DEF Spec, NoOvertaking

----------------------------------------------------------------------------
\* The parcel sync.

\* The commercial parcels bound what a recovery or a restore makes active.
Inventory ==
  /\ seenPins \subseteq activePins /\ activePins \subseteq known
  /\ commercial \subseteq known

\* The variables that the inventory speaks of.
Parcels == <<known, activePins, commercial, seenPins>>

----------------------------------------------------------------------------
(* A row of the pull is seen and active together, or changes nothing.       *)
LEMMA TakeRowDoes ==
  ASSUME TakeRow
  PROVE  \/ UNCHANGED Parcels
         \/ \E pin : /\ seenPins' = seenPins \cup {pin}
                     /\ known' = known \cup {pin}
                     /\ activePins' = activePins \cup {pin}
                     /\ commercial' = commercial \cup {pin}
BY DEF TakeRow, Upsert, Parcels

(* So the inventory is kept.                                                *)
LEMMA TakeRowKeeps ==
  ASSUME Inventory, TakeRow
  PROVE  Inventory' /\ activePins \subseteq activePins'
BY TakeRowDoes DEF Inventory, Parcels

(* The deactivation leaves what was seen, and is not done when that is       *)
(* nothing.                                                                 *)
LEMMA SettleKeeps ==
  ASSUME Inventory, Settle
  PROVE  /\ Inventory'
         /\ activePins # {} => activePins' # {}
<1>1. /\ activePins' = IF Spared = "no" THEN activePins \ Retired ELSE activePins
      /\ UNCHANGED <<known, commercial, seenPins>>
  BY DEF Settle
<1>2. CASE Spared # "no"
  BY <1>1, <1>2 DEF Inventory
<1>3. CASE Spared = "no"
  <2>1. seenPins # {}
    BY <1>3 DEF Spared
  <2>2. seenPins \subseteq activePins' /\ activePins' \subseteq activePins
    BY <1>1, <1>3 DEF Inventory, Retired
  <2> QED
    BY <1>1, <2>1, <2>2 DEF Inventory
<1> QED
  BY <1>2, <1>3

(* A recovery or a restore makes all the commercial parcels active.         *)
LEMMA ReactivateKeeps ==
  ASSUME Inventory, activePins' = activePins \cup commercial,
         UNCHANGED <<known, commercial, seenPins>>
  PROVE  Inventory' /\ activePins \subseteq activePins'
BY DEF Inventory

(* Every step keeps the inventory, and none takes it to nothing.            *)
LEMMA StepKeeps ==
  ASSUME Inventory, [SyncNext]_allVars
  PROVE  /\ Inventory'
         /\ activePins # {} => activePins' # {}
<1>1. CASE \E s \in Sources : Begin(s)
  <2>1. seenPins' = {} /\ UNCHANGED <<known, activePins, commercial>>
    BY <1>1 DEF Begin
  <2> QED
    BY <2>1 DEF Inventory
<1>2. CASE UNCHANGED Parcels
  BY <1>2 DEF Inventory, Parcels
<1>3. CASE Count \/ Open \/ Pull \/ Succeed \/ Fail \/ Crash \/ HealCheck \/ CountyEdits
  <2>1. UNCHANGED Parcels
    BY <1>3 DEF Parcels, syncVars, Count, Open, Pull, Succeed, Fail, Crash, HealCheck,
                CountyEdits
  <2> QED
    BY <1>2, <2>1
<1>4. CASE TakeRow
  BY <1>4, TakeRowKeeps
<1>5. CASE Settle
  BY <1>5, SettleKeeps
<1>6. CASE Heal \/ RestoreAll
  <2>1. activePins' = activePins \cup commercial /\ UNCHANGED <<known, commercial, seenPins>>
    BY <1>6 DEF Heal, RestoreAll
  <2> QED
    BY <2>1, ReactivateKeeps
<1>8. CASE Reclassify
  BY <1>8 DEF Reclassify, Inventory
<1>7. CASE UNCHANGED allVars
  <2>1. UNCHANGED Parcels
    BY <1>7 DEF allVars, syncVars, Parcels
  <2> QED
    BY <1>2, <2>1
<1> QED
  BY <1>1, <1>3, <1>4, <1>5, <1>6, <1>7, <1>8 DEF SyncNext

(* The invariant holds from the first state on.                             *)
THEOREM InventoryHolds == SyncSpec => []Inventory
<1>1. Init => Inventory
  <2> SUFFICES ASSUME Init PROVE Inventory
    OBVIOUS
  <2>1. PICK past \in Pasts :
          known = past.known /\ activePins = past.active /\ commercial = past.commercial
    BY DEF Init
  <2> QED
    BY <2>1, SyncAssumption DEF SyncAssumption, Init, Inventory
<1>2. Inventory /\ [SyncNext]_allVars => Inventory'
  BY StepKeeps
<1> QED
  BY <1>1, <1>2, PTL DEF SyncSpec

----------------------------------------------------------------------------
(* runFullSync, recovery and restore: a parcel that the sync has seen stays  *)
(* active until the next sync.                                              *)
THEOREM SeenIsActive == SyncSpec => []SeenStayActive
<1>1. Inventory => SeenStayActive
  BY DEF Inventory, SeenStayActive
<1> QED
  BY <1>1, InventoryHolds, PTL

(* The guards of the deactivation: no step, of whatever sync, takes the      *)
(* inventory from some active parcels to none.                              *)
THEOREM InventoryNeverEmptied == SyncSpec => NeverEmptied
<1>1. Inventory /\ [SyncNext]_allVars
        => [activePins # {} => activePins' # {}]_allVars
  BY StepKeeps
<1> QED
  BY <1>1, InventoryHolds, PTL DEF SyncSpec, NeverEmptied

----------------------------------------------------------------------------
(* A row of the pull is a parcel seen, or none.                             *)
LEMMA TakeRowSees ==
  ASSUME TakeRow
  PROVE  [Table!Next]_(Table!vars)
<1>1. CASE UNCHANGED Parcels
  BY <1>1 DEF Parcels, Table!vars
<1>2. ASSUME NEW pin, seenPins' = seenPins \cup {pin}, known' = known \cup {pin},
             activePins' = activePins \cup {pin}
      PROVE  Table!Next
  <2>1. pin \in known' /\ Table!See(pin)
    BY <1>2 DEF Table!See
  <2> QED
    BY <2>1 DEF Table!Next
<1> QED
  BY <1>1, <1>2, TakeRowDoes

(* Every step of the sync is a step of the table, or leaves it alone.        *)
LEMMA StepMaps ==
  ASSUME Inventory, [SyncNext]_allVars
  PROVE  [Table!Next]_(Table!vars)
<1>1. CASE \E s \in Sources : Begin(s)
  BY <1>1 DEF Begin, Table!Next, Table!NewPull
<1>2. CASE \/ Count \/ Open \/ Pull \/ Succeed \/ Fail \/ Crash \/ HealCheck
           \/ CountyEdits \/ Reclassify
  BY <1>2 DEF Table!vars, syncVars, Count, Open, Pull, Succeed, Fail, Crash, HealCheck,
              CountyEdits, Reclassify
<1>3. CASE TakeRow
  BY <1>3, TakeRowSees
<1>4. CASE Settle
  <2>1. CASE Spared = "no"
    <3>1. seenPins # {}
      BY <2>1 DEF Spared
    <3> QED
      BY <1>4, <2>1, <3>1 DEF Inventory, Settle, Retired, Table!Next, Table!Retire
  <2>2. CASE Spared # "no"
    BY <1>4, <2>2 DEF Settle, Table!vars
  <2> QED
    BY <2>1, <2>2
<1>5. CASE Heal \/ RestoreAll
  BY <1>5 DEF Inventory, Heal, RestoreAll, Table!Next, Table!Recover
<1>6. CASE UNCHANGED allVars
  BY <1>6 DEF allVars, syncVars, Table!vars
<1> QED
  BY <1>1, <1>2, <1>3, <1>4, <1>5, <1>6 DEF SyncNext

(* runFullSync, recovery and restore keep the table's promises, for any      *)
(* layer, any server and any number of runs, failures and crashes.           *)
THEOREM InventoryKept == SyncSpec => KeepsInventory
<1>1. Init => Table!Init
  <2> SUFFICES ASSUME Init PROVE Table!Init
    OBVIOUS
  <2>1. PICK past \in Pasts : known = past.known /\ activePins = past.active
    BY DEF Init
  <2> QED
    BY <2>1, SyncAssumption DEF SyncAssumption, Init, Table!Init
<1>2. Inventory /\ [SyncNext]_allVars => [Table!Next]_(Table!vars)
  BY StepMaps
<1> QED
  BY <1>1, <1>2, InventoryHolds, PTL DEF SyncSpec, KeepsInventory, Table!Spec

----------------------------------------------------------------------------
\* The SyncRun table, and the row of the sync in progress.
Ledger ==
  /\ runs \in Seq(RunRows)
  /\ upserted \in Nat
  /\ pc # "idle" => Len(runs) > 0

(* A run's row is ended, its status and number written.                     *)
LEMMA EndOfRun ==
  ASSUME Ledger, pc # "idle", NEW end \in {"success", "failed"}, EndRun(end)
  PROVE  runs' \in Seq(RunRows)
<1> DEFINE n == Len(runs)
           ended == [source |-> runs[n].source, status |-> end, upserted |-> upserted]
<1>1. n \in 1..Len(runs) /\ runs[n] \in RunRows
  BY DEF Ledger
<1>2. ended \in RunRows
  BY <1>1 DEF RunRows, Ledger
<1>3. runs' = [runs EXCEPT ![n] = ended]
  BY DEF EndRun
<1> HIDE DEF ended
<1> QED
  BY <1>1, <1>2, <1>3 DEF Ledger

(* Every step keeps the ledger.                                             *)
LEMMA LedgerKept ==
  ASSUME Ledger, [SyncNext]_allVars
  PROVE  Ledger'
<1>1. ASSUME NEW s \in Sources, Begin(s) PROVE Ledger'
  <2>1. [source |-> s, status |-> "running", upserted |-> 0] \in RunRows
    BY DEF RunRows
  <2> QED
    BY <1>1, <2>1 DEF Ledger, Begin
<1>2. CASE Succeed
  <2>1. pc # "idle" /\ pc' = "idle" /\ upserted' = 0
    BY <1>2 DEF Succeed, Leave
  <2> QED
    BY <1>2, <2>1, EndOfRun DEF Ledger, Succeed
<1>3. CASE Fail
  <2>1. pc # "idle" /\ pc' = "idle" /\ upserted' = 0
    BY <1>3 DEF Fail, Leave, Syncing
  <2> QED
    BY <1>3, <2>1, EndOfRun DEF Ledger, Fail
<1>4. CASE Crash
  BY <1>4 DEF Crash, Leave, Ledger
<1>5. CASE TakeRow
  <2>1. UNCHANGED <<pc, runs>> /\ upserted' \in {upserted, upserted + 1}
    BY <1>5 DEF TakeRow
  <2> QED
    BY <2>1 DEF Ledger
<1>6. CASE \/ Count \/ Open \/ Pull \/ Settle \/ HealCheck \/ Heal \/ RestoreAll
           \/ CountyEdits \/ Reclassify
  <2>1. UNCHANGED <<runs, upserted>> /\ (pc' # "idle" => pc # "idle")
    BY <1>6 DEF syncVars, Count, Open, Pull, Settle, HealCheck, Heal, RestoreAll, CountyEdits,
                Reclassify
  <2> QED
    BY <2>1 DEF Ledger
<1>7. CASE UNCHANGED allVars
  BY <1>7 DEF allVars, syncVars, Ledger
<1> QED
  BY <1>1, <1>2, <1>3, <1>4, <1>5, <1>6, <1>7 DEF SyncNext

(* The ledger holds from the first state on.                                *)
THEOREM LedgerHolds == SyncSpec => []Ledger
<1>1. Init => Ledger
  BY SyncAssumption DEF Init, Ledger, SyncAssumption
<1>2. Ledger /\ [SyncNext]_allVars => Ledger'
  BY LedgerKept
<1> QED
  BY <1>1, <1>2, PTL DEF SyncSpec

(* PreviousUpserted is the number of the last success of the same source.    *)
LEMMA BaselineIsLast ==
  ASSUME Ledger, NEW i \in 1..Len(runs),
         runs[i].status = "success", runs[i].source = runs[Len(runs)].source,
         \A j \in (i + 1)..Len(runs) :
            runs[j].status = "success" => runs[j].source # runs[i].source
  PROVE  PreviousUpserted = runs[i].upserted
<1> DEFINE mine == {j \in 1..Len(runs) :
                      /\ runs[j].status = "success"
                      /\ runs[j].source = runs[Len(runs)].source}
<1>1. i \in mine
  OBVIOUS
<1>2. \A j \in mine : j <= i
  BY DEF Ledger
<1>3. \A k \in mine : (\A j \in mine : j <= k) => k = i
  BY <1>1, <1>2 DEF Ledger
<1>4. (CHOOSE k \in mine : \A j \in mine : j <= k) = i
  BY <1>1, <1>2, <1>3
<1> QED
  BY <1>1, <1>4 DEF PreviousUpserted

(* Only Settle ends a pull and goes on to close the run.                    *)
LEMMA SettlingIsSettle ==
  ASSUME [SyncNext]_allVars, Settling
  PROVE  Settle
BY DEF Settling, SyncNext, allVars, syncVars, Begin, Count, Open, Pull, TakeRow, Succeed, Fail,
       Crash, Leave, HealCheck, Heal, RestoreAll, CountyEdits, Reclassify

(* runFullSync's comparison with the last success: a sync that deactivates   *)
(* upserted at least DropPct percent of what the last success of its source  *)
(* did, whatever runs failed, crashed or were of another source in between.   *)
THEOREM DropsAreSpared == SyncSpec => FirstDropSpares
<1>1. ASSUME Ledger, [SyncNext]_allVars, NEW i \in 1..Len(runs),
             Settling, activePins' # activePins,
             runs[i].status = "success", runs[i].source = runs[Len(runs)].source,
             \A j \in (i + 1)..Len(runs) :
                runs[j].status = "success" => runs[j].source # runs[i].source
      PROVE  upserted >= Floor(DropPct, runs[i].upserted)
  <2>1. PreviousUpserted = runs[i].upserted
    BY <1>1, BaselineIsLast
  <2>2. Spared = "no"
    BY <1>1, SettlingIsSettle DEF Settle
  <2>3. NoDrop
    BY <2>2 DEF Spared
  <2>4. CASE runs[i].upserted = 0
    <3>1. Floor(DropPct, 0) = 0
      BY SyncAssumption DEF SyncAssumption, Floor
    <3> QED
      BY <3>1, <2>4, <1>1 DEF Ledger
  <2>5. CASE runs[i].upserted # 0
    BY <2>1, <2>3, <2>5 DEF NoDrop
  <2> QED
    BY <2>4, <2>5
<1>2. Ledger /\ [SyncNext]_allVars =>
        [\A i \in 1..Len(runs) :
           /\ Settling /\ activePins' # activePins
           /\ runs[i].status = "success" /\ runs[i].source = runs[Len(runs)].source
           /\ \A j \in (i + 1)..Len(runs) :
                runs[j].status = "success" => runs[j].source # runs[i].source
           => upserted >= Floor(DropPct, runs[i].upserted)]_allVars
  BY <1>1
<1> QED
  BY <1>2, LedgerHolds, PTL DEF SyncSpec, FirstDropSpares

----------------------------------------------------------------------------
(* The rows in their order                                                  *)

Below(S, r) == {s \in S : s < r}

(* Sets of rows are finite sets of numbers.                                 *)
LEMMA RowSets ==
  ASSUME NEW S \in SUBSET Rows
  PROVE  IsFiniteSet(S) /\ Cardinality(S) \in Nat /\ S \subseteq Nat
<1>1. IsFiniteSet(S)
  BY FS_Subset, PullAssumption DEF PullAssumption
<1> QED
  BY <1>1, FS_CardinalityType, PullAssumption DEF PullAssumption

(* Parts of a set of rows have no more rows.                                *)
LEMMA Fewer ==
  ASSUME NEW S \in SUBSET Rows, NEW T, T \subseteq S
  PROVE  Cardinality(T) \in Nat /\ Cardinality(S) \in Nat /\ Cardinality(T) <= Cardinality(S)
BY RowSets, FS_Subset

(* Two rows of a set have different ranks, in their order.                  *)
LEMMA RankOrder ==
  ASSUME NEW S \in SUBSET Rows, NEW r \in S, NEW s \in S, r < s
  PROVE  Cardinality(Below(S, r)) < Cardinality(Below(S, s))
<1>1. Below(S, r) \subseteq Below(S, s) /\ r \in Below(S, s) /\ r \notin Below(S, r)
  BY RowSets DEF Below
<1>2. Below(S, s) \in SUBSET Rows
  BY DEF Below
<1>3. /\ Cardinality(Below(S, r)) <= Cardinality(Below(S, s))
      /\ Cardinality(Below(S, s)) # Cardinality(Below(S, r))
  BY <1>1, <1>2, RowSets, FS_Subset
<1> QED
  BY <1>1, <1>2, <1>3, Fewer

(* The first k are at most k, and all of them lie before the others.        *)
LEMMA FirstFacts ==
  ASSUME NEW S \in SUBSET Rows, NEW k \in Nat
  PROVE  /\ First(S, k) \subseteq S
         /\ Cardinality(First(S, k)) <= k
         /\ \A a \in First(S, k), c \in S \ First(S, k) : a < c
<1>1. First(S, k) = {r \in S : Cardinality(Below(S, r)) < k}
  BY DEF First, Below
<1>2. \A r \in S : Cardinality(Below(S, r)) \in Nat
  BY RowSets DEF Below
<1>3. Cardinality(First(S, k)) <= k
  <2> DEFINE f == [r \in First(S, k) |-> Cardinality(Below(S, r))]
             b == k - 1
  <2>1. f \in [First(S, k) -> 0..b]
    BY <1>1, <1>2
  <2>2. \A r, s \in First(S, k) : f[r] = f[s] => r = s
    <3> SUFFICES ASSUME NEW r \in First(S, k), NEW s \in First(S, k), r # s PROVE f[r] # f[s]
      OBVIOUS
    <3>1. r \in S /\ s \in S /\ (r < s \/ s < r)
      BY <1>1, RowSets
    <3> QED
      BY <1>2, <3>1, RankOrder
  <2> HIDE DEF f
  <2>3. f \in Injection(First(S, k), 0..b)
    BY <2>1, <2>2 DEF Injection, IsInjective
  <2>4. IsFiniteSet(0..b) /\ Cardinality(0..b) = k
    <3>1. b \in Int /\ b = k - 1
      OBVIOUS
    <3> HIDE DEF b
    <3> QED
      BY <3>1, FS_Interval
  <2> QED
    BY <2>3, <2>4, FS_Injection
<1>4. ASSUME NEW a \in First(S, k), NEW c \in S \ First(S, k) PROVE a < c
  <2>1. a \in S /\ c \in S /\ Cardinality(Below(S, a)) < Cardinality(Below(S, c))
    BY <1>1, <1>2, <1>4
  <2>2. a # c
    BY <1>1, <1>4
  <2>3. ~ (c < a)
    BY <1>2, <2>1, RankOrder
  <2> QED
    BY <2>1, <2>2, <2>3, RowSets
<1> QED
  BY <1>1, <1>3, <1>4

(* Taking a row out moves one row at most into the first k.                 *)
LEMMA RemovalShifts ==
  ASSUME NEW S \in SUBSET Rows, NEW x \in S, NEW k \in Nat
  PROVE  \E y : First(S \ {x}, k) \subseteq First(S, k) \cup {y}
<1> DEFINE T == S \ {x}
<1>1. \A r \in T : /\ Cardinality(Below(S, r)) \in Nat /\ Cardinality(Below(T, r)) \in Nat
                   /\ Cardinality(Below(S, r)) <= Cardinality(Below(T, r)) + 1
  <2> SUFFICES ASSUME NEW r \in T
               PROVE  /\ Cardinality(Below(S, r)) \in Nat /\ Cardinality(Below(T, r)) \in Nat
                      /\ Cardinality(Below(S, r)) <= Cardinality(Below(T, r)) + 1
    OBVIOUS
  <2>1. Below(T, r) = Below(S, r) \ {x} /\ Below(S, r) \in SUBSET Rows /\ Below(T, r) \in SUBSET Rows
    BY DEF Below
  <2>2. IsFiniteSet(Below(S, r)) /\ Cardinality(Below(S, r)) \in Nat /\ Cardinality(Below(T, r)) \in Nat
    BY <2>1, RowSets
  <2>3. Cardinality(Below(S, r) \ {x}) =
          IF x \in Below(S, r) THEN Cardinality(Below(S, r)) - 1 ELSE Cardinality(Below(S, r))
    BY <2>2, FS_RemoveElement
  <2>4. Cardinality(Below(T, r)) = Cardinality(Below(S, r) \ {x})
    BY <2>1
  <2> HIDE DEF T
  <2> QED
    BY <2>2, <2>3, <2>4
<1>2. ASSUME NEW r \in First(T, k), r \notin First(S, k)
      PROVE  r \in T /\ Cardinality(Below(S, r)) = k
  <2>1. r \in T /\ r \in S /\ Cardinality(Below(T, r)) < k
    BY DEF First, Below
  <2>2. ~ (Cardinality(Below(S, r)) < k)
    BY <1>2, <2>1 DEF First, Below
  <2> QED
    BY <1>1, <2>1, <2>2
<1>3. \A r, s \in First(T, k) \ First(S, k) : r = s
  <2> SUFFICES ASSUME NEW r \in First(T, k) \ First(S, k), NEW s \in First(T, k) \ First(S, k), r # s
               PROVE  FALSE
    OBVIOUS
  <2>1. r \in S /\ s \in S /\ Cardinality(Below(S, r)) = k /\ Cardinality(Below(S, s)) = k
    BY <1>2
  <2>2. r < s \/ s < r
    BY <2>1, RowSets
  <2> QED
    BY <2>1, <2>2, RankOrder
<1> HIDE DEF T
<1>4. CASE First(T, k) \subseteq First(S, k)
  BY <1>4 DEF T
<1>5. CASE ~ (First(T, k) \subseteq First(S, k))
  <2>1. PICK y : y \in First(T, k) \ First(S, k)
    BY <1>5
  <2> QED
    BY <1>3, <2>1 DEF T
<1> QED
  BY <1>4, <1>5

(* Putting a row in moves no other row into the first k.                    *)
LEMMA AdditionShifts ==
  ASSUME NEW S \in SUBSET Rows, NEW x \in Rows, NEW k \in Nat
  PROVE  S \cap First(S \cup {x}, k) \subseteq First(S, k)
<1> SUFFICES ASSUME NEW r \in S, r \in First(S \cup {x}, k) PROVE r \in First(S, k)
  OBVIOUS
<1>1. Below(S, r) \subseteq Below(S \cup {x}, r) /\ Below(S \cup {x}, r) \in SUBSET Rows
  BY DEF Below
<1>2. /\ Cardinality(Below(S, r)) \in Nat /\ Cardinality(Below(S \cup {x}, r)) \in Nat
      /\ Cardinality(Below(S, r)) <= Cardinality(Below(S \cup {x}, r))
  BY <1>1, Fewer
<1>3. Cardinality(Below(S \cup {x}, r)) < k
  BY DEF First, Below
<1> QED
  BY <1>2, <1>3 DEF First, Below

----------------------------------------------------------------------------
(* The pull                                                                 *)

\* The generator will ask for more, or it will not.
GoesOn == stage = "fetch" \/ (stage = "yield" /\ more)
Ended == stage = "done" \/ (stage = "yield" /\ ~ more)

\* Where the generator's locals may be: the rows delivered and those of the page
\* lie before the OBJECTIDs still to be asked for.
PullShape ==
  /\ layer \subseteq Rows /\ present \subseteq layer
  /\ mode \in {"offset", "ids"} /\ stage \in {"off", "list", "fetch", "yield", "done"}
  /\ offset \in Nat /\ yields \in Nat /\ more \in BOOLEAN
  /\ removed \in Nat /\ added \in Nat /\ lost \in Nat
  /\ page \subseteq Rows /\ delivered \subseteq Rows /\ idsLeft \subseteq Rows
  /\ stage # "yield" => page = {}
  /\ stage = "list" => mode = "ids" /\ idsLeft = {} /\ delivered = {}
  /\ idsLeft # {} => mode = "ids"
  /\ Ended => idsLeft = {}
  /\ \A r \in delivered \cup page, s \in idsLeft : r < s

\* Rows that have been there all along and are neither delivered nor about to be.
Unseen == present \ (delivered \cup page)

\* Rows that the next page by offset will not hold.
Behind == First(layer, offset)

\* Rows put into the ranges still to be asked for, after they were listed.
Extra == {r \in layer \ idsLeft : \E a \in idsLeft : a <= r}

MissedInv ==
  /\ mode = "offset" /\ GoesOn => Cardinality(Unseen \cap Behind) <= removed
  /\ mode = "offset" /\ Ended => Cardinality(Unseen) <= lost + removed
  /\ mode = "ids" /\ (GoesOn \/ Ended) =>
       Cardinality(Unseen \ idsLeft) + Cardinality(Extra) <= lost + added

PullInv == PullShape /\ MissedInv

(* The sets that are counted are sets of rows.                              *)
LEMMA CountedSets ==
  ASSUME PullShape
  PROVE  Unseen \subseteq Rows /\ Extra \subseteq Rows /\ Behind \subseteq Rows
BY DEF PullShape, Unseen, Extra, Behind, First

(* Two sets of rows have no more rows together than each for itself.         *)
LEMMA TogetherFewer ==
  ASSUME NEW S \in SUBSET Rows, NEW T \in SUBSET Rows
  PROVE  Cardinality(S \cup T) <= Cardinality(S) + Cardinality(T)
<1>1. IsFiniteSet(S) /\ IsFiniteSet(T) /\ Cardinality(S) \in Nat /\ Cardinality(T) \in Nat
  BY RowSets
<1>2. Cardinality(S \cup T) = Cardinality(S) + Cardinality(T) - Cardinality(S \cap T)
  BY <1>1, FS_Union
<1>3. Cardinality(S \cap T) \in Nat
  BY RowSets
<1> QED
  BY <1>1, <1>2, <1>3

(* A step to a pull that has not begun, or is over and forgotten, has missed *)
(* nothing.                                                                 *)
LEMMA FreshPull ==
  ASSUME PullShape',
         \/ stage' \in {"off", "list"}
         \/ stage' = "fetch" /\ mode' = "offset" /\ offset' = 0
  PROVE  MissedInv'
<1>1. CASE stage' \in {"off", "list"}
  BY <1>1 DEF MissedInv, GoesOn, Ended
<1>2. CASE stage' = "fetch" /\ mode' = "offset" /\ offset' = 0
  <2> DEFINE S == Unseen' \cap Behind'
  <2>1. layer' \in SUBSET Rows /\ removed' \in Nat
    BY DEF PullShape
  <2>2. Cardinality(First(layer', 0)) <= 0 /\ First(layer', 0) \in SUBSET Rows
    BY <2>1, FirstFacts
  <2>3. S \subseteq First(layer', 0)
    BY <1>2 DEF Behind
  <2>4. Cardinality(S) <= removed'
    <3>1. /\ Cardinality(S) \in Nat /\ Cardinality(First(layer', 0)) \in Nat
          /\ Cardinality(S) <= Cardinality(First(layer', 0))
      BY <2>2, <2>3, Fewer
    <3> QED
      BY <2>1, <2>2, <3>1
  <2> QED
    BY <1>2, <2>4 DEF MissedInv, GoesOn, Ended
<1> QED
  BY <1>1, <1>2

(* The next page by offset covers what the offset passes.                    *)
LEMMA FetchOffsetKeeps ==
  ASSUME PullInv, FetchOffset
  PROVE  PullInv'
<1> DEFINE left == layer \ First(layer, offset)
<1>1. PICK n \in 0..PageSize, exceeded \in BOOLEAN :
        /\ page' = left \cap First(layer, offset + n)
        /\ more' = MaybeMore(n, exceeded)
        /\ offset' = offset + n
        /\ stage' = IF page' = {} THEN "done" ELSE "yield"
        /\ lost' = IF page' = {} \/ ~MaybeMore(n, exceeded) THEN Cardinality(left \ page') ELSE 0
  BY DEF FetchOffset, NextOffset, AfterEmptyPage
<1>2. /\ mode = "offset" /\ stage = "fetch" /\ page = {} /\ idsLeft = {}
      /\ UNCHANGED <<mode, idsLeft, yields, delivered, layerVars>>
  BY DEF FetchOffset, PullInv, PullShape
<1>3. left \subseteq Rows /\ left \ page' \subseteq Rows /\ page' \subseteq Rows
  BY <1>1 DEF PullInv, PullShape
<1>4. Cardinality(left \ page') \in Nat
  BY <1>3, RowSets
<1>5. offset' \in Nat /\ more' \in BOOLEAN /\ n \in Nat
  BY <1>1, PullAssumption DEF PullAssumption, MaybeMore, PullInv, PullShape
<1>6. PullShape'
  BY <1>1, <1>2, <1>3, <1>4, <1>5 DEF PullInv, PullShape, Ended, layerVars
<1>7. Unseen' \cap Behind' \subseteq Unseen \cap Behind
  <2>1. present' = present /\ delivered' = delivered /\ Behind' = First(layer, offset + n)
    BY <1>1, <1>2 DEF Behind, layerVars
  <2>2. present \subseteq layer
    BY DEF PullInv, PullShape
  <2> QED
    BY <1>1, <1>2, <2>1, <2>2 DEF Unseen, Behind
<1>8. Unseen' \subseteq (Unseen \cap Behind) \cup (left \ page')
  BY <1>1, <1>2 DEF Unseen, Behind, layerVars, PullInv, PullShape
<1>9. Unseen \cap Behind \in SUBSET Rows /\ Cardinality(Unseen \cap Behind) <= removed
  BY <1>2, CountedSets DEF PullInv, MissedInv, GoesOn
<1>10. removed' = removed /\ removed \in Nat /\ mode' = "offset"
  BY <1>2 DEF layerVars, PullInv, PullShape
<1>11. CASE GoesOn'
  <2>1. Cardinality(Unseen' \cap Behind') <= removed'
    BY <1>7, <1>9, <1>10, Fewer
  <2>2. ~ Ended'
    BY <1>11 DEF GoesOn, Ended
  <2> QED
    BY <1>6, <1>10, <2>1, <2>2 DEF PullInv, MissedInv
<1>12. CASE ~ GoesOn'
  <2>1. lost' = Cardinality(left \ page')
    BY <1>1, <1>12 DEF GoesOn
  <2>2. Cardinality(Unseen') <= Cardinality((Unseen \cap Behind) \cup (left \ page'))
    BY <1>3, <1>8, <1>9, Fewer
  <2>3. Cardinality((Unseen \cap Behind) \cup (left \ page'))
          <= Cardinality(Unseen \cap Behind) + Cardinality(left \ page')
    BY <1>3, <1>9, TogetherFewer
  <2>4. /\ Cardinality(Unseen') \in Nat /\ Cardinality(Unseen \cap Behind) \in Nat
        /\ Cardinality((Unseen \cap Behind) \cup (left \ page')) \in Nat
    BY <1>3, <1>8, <1>9, RowSets
  <2>5. Cardinality(Unseen') <= lost' + removed'
    BY <1>4, <1>9, <1>10, <2>1, <2>2, <2>3, <2>4
  <2> QED
    BY <1>6, <1>10, <1>12, <2>5 DEF PullInv, MissedInv
<1> QED
  BY <1>11, <1>12

(* Ranges: a row that was listed is in the answer of its range, or held      *)
(* back, or pushed out by a row put into the range since.                     *)
LEMMA FetchRangeKeeps ==
  ASSUME PullInv, FetchRange
  PROVE  PullInv'
<1> DEFINE batch == First(idsLeft, PageSize)
           found == {r \in layer : InRange(r, batch)}
           rest == idsLeft \ batch
           pushers == found \ batch
<1>1. PICK n \in 0..Cardinality(found) :
        /\ page' = First(found, n)
        /\ idsLeft' = rest
        /\ more' = (idsLeft' # {})
        /\ lost' = lost + HeldBack(found, page')
        /\ stage' = IF page' # {} THEN "yield" ELSE IF more' THEN "fetch" ELSE "done"
  BY DEF FetchRange
<1>2. /\ mode = "ids" /\ stage = "fetch" /\ page = {}
      /\ UNCHANGED <<mode, offset, yields, delivered, layerVars>>
  BY DEF FetchRange, PullInv, PullShape
<1>3. idsLeft \in SUBSET Rows /\ found \in SUBSET Rows /\ PageSize \in Nat /\ layer \subseteq Rows
  BY PullAssumption DEF PullAssumption, PullInv, PullShape
<1>4. /\ batch \subseteq idsLeft /\ Cardinality(batch) <= PageSize
      /\ \A a \in batch, c \in rest : a < c
  BY <1>3, FirstFacts
<1>5. IsFiniteSet(found) /\ Cardinality(found) \in Nat
  BY <1>3, RowSets
<1>6. page' \subseteq found
  BY <1>1, <1>3, <1>5, FirstFacts
<1>7. \A r \in found : (\E a \in batch : a <= r) /\ (\E b \in batch : r <= b)
  BY DEF InRange
<1>8. \A r \in found, c \in rest : r < c
  <2> SUFFICES ASSUME NEW r \in found, NEW c \in rest PROVE r < c
    OBVIOUS
  <2>1. PICK b \in batch : r <= b
    BY <1>7
  <2>2. b < c /\ r \in Nat /\ b \in Nat /\ c \in Nat
    BY <1>3, <1>4, RowSets
  <2> QED
    BY <2>1, <2>2
<1>9. pushers \subseteq Extra
  <2> SUFFICES ASSUME NEW r \in pushers PROVE r \in Extra
    OBVIOUS
  <2>1. r \in layer /\ r \in found /\ \E a \in idsLeft : a <= r
    BY <1>4, <1>7
  <2>2. r \notin rest
    BY <1>3, <1>8, <2>1, RowSets
  <2> QED
    BY <2>1, <2>2 DEF Extra
<1>10. Extra' \subseteq Extra \ pushers
  <2> SUFFICES ASSUME NEW r \in Extra' PROVE r \in Extra /\ r \notin found
    OBVIOUS
  <2>1. PICK a \in rest : r \in layer /\ r \notin rest /\ a <= r
    BY <1>1, <1>2 DEF Extra, layerVars
  <2>2. r \in Nat /\ a \in Nat
    BY <1>3, <2>1, RowSets
  <2>3. ~ (r < a)
    BY <2>1, <2>2
  <2> QED
    BY <1>4, <1>8, <2>1, <2>3 DEF Extra
<1>11. Unseen' \ rest \subseteq (Unseen \ idsLeft) \cup (found \ page')
  <2> SUFFICES ASSUME NEW r \in present, r \notin delivered, r \notin page', r \in batch
               PROVE  r \in found
    BY <1>1, <1>2 DEF Unseen, layerVars
  <2>1. r \in layer /\ r <= r
    BY <1>3, RowSets DEF PullInv, PullShape
  <2> QED
    BY <2>1 DEF InRange
<1> DEFINE h == HeldBack(found, page')
<1>12. /\ Cardinality(page') \in Nat /\ Cardinality(pushers) \in Nat /\ h \in Nat
       /\ Cardinality(found \ page') \in Nat
       /\ Cardinality(found \ page') <= h + Cardinality(pushers)
  <2>1. /\ Cardinality(page') \in Nat /\ Cardinality(pushers) \in Nat /\ Cardinality(batch) \in Nat
        /\ Cardinality(page') <= Cardinality(found)
    BY <1>3, <1>4, <1>6, RowSets, Fewer
  <2>2. Cardinality(found \ page') = Cardinality(found) - Cardinality(page')
    <3>1. found \cap page' = page'
      BY <1>6
    <3>2. Cardinality(found \ page') = Cardinality(found) - Cardinality(found \cap page')
      BY <1>5, FS_Difference
    <3> QED
      BY <3>1, <3>2
  <2>3. Cardinality(found) <= Cardinality(batch) + Cardinality(pushers)
    <3>1. batch \in SUBSET Rows /\ pushers \in SUBSET Rows /\ found \subseteq batch \cup pushers
      BY <1>3, <1>4
    <3>2. Cardinality(batch \cup pushers) <= Cardinality(batch) + Cardinality(pushers)
      BY <3>1, TogetherFewer
    <3>3. Cardinality(found) <= Cardinality(batch \cup pushers) /\ Cardinality(batch \cup pushers) \in Nat
      BY <3>1, Fewer
    <3> HIDE DEF pushers, batch, found
    <3> QED
      BY <1>5, <2>1, <3>2, <3>3
  <2>4. h = IF Cardinality(page') >= PageSize THEN 0
            ELSE IF Cardinality(found) <= PageSize THEN Cardinality(found) - Cardinality(page')
            ELSE PageSize - Cardinality(page')
    BY DEF HeldBack
  <2> HIDE DEF pushers, batch, found, h
  <2> QED
    BY <1>3, <1>4, <1>5, <2>1, <2>2, <2>3, <2>4
<1>13. PullShape'
  <2>1. lost' \in Nat /\ rest \subseteq Rows /\ page' \subseteq Rows
    BY <1>1, <1>3, <1>6, <1>12 DEF PullInv, PullShape
  <2>2. \A r \in delivered' \cup page', c \in idsLeft' : r < c
    BY <1>1, <1>2, <1>6, <1>8 DEF PullInv, PullShape
  <2> HIDE DEF rest, found, batch
  <2>3. Ended' => idsLeft' = {}
    BY <1>1 DEF Ended
  <2> QED
    BY <1>1, <1>2, <2>1, <2>2, <2>3 DEF PullInv, PullShape, layerVars
<1>14. Cardinality(Unseen' \ idsLeft') + Cardinality(Extra') <= lost' + added'
  <2>1. /\ Cardinality(Unseen \ idsLeft) + Cardinality(Extra) <= lost + added
        /\ lost \in Nat /\ added \in Nat /\ added' = added
    BY <1>2 DEF PullInv, MissedInv, GoesOn, layerVars, PullShape
  <2>2. Unseen \ idsLeft \in SUBSET Rows /\ Extra \in SUBSET Rows /\ found \ page' \in SUBSET Rows
    BY <1>3, CountedSets DEF PullInv
  <2>3. Cardinality(Unseen' \ idsLeft') <= Cardinality(Unseen \ idsLeft) + Cardinality(found \ page')
    <3>1. Cardinality(Unseen' \ idsLeft') <= Cardinality((Unseen \ idsLeft) \cup (found \ page'))
      BY <1>1, <1>11, <2>2, Fewer
    <3>2. /\ Cardinality(Unseen' \ idsLeft') \in Nat
          /\ Cardinality((Unseen \ idsLeft) \cup (found \ page')) \in Nat
      BY <1>1, <1>11, <2>2, Fewer
    <3>3. /\ Cardinality((Unseen \ idsLeft) \cup (found \ page'))
               <= Cardinality(Unseen \ idsLeft) + Cardinality(found \ page')
          /\ Cardinality(Unseen \ idsLeft) \in Nat /\ Cardinality(found \ page') \in Nat
      BY <2>2, TogetherFewer, RowSets
    <3> HIDE DEF found, rest
    <3> QED
      BY <3>1, <3>2, <3>3
  <2>4. Cardinality(Extra') + Cardinality(pushers) <= Cardinality(Extra)
    <3>1. IsFiniteSet(Extra) /\ Extra \cap pushers = pushers
      BY <1>9, <2>2, RowSets
    <3>2. Cardinality(Extra \ pushers) = Cardinality(Extra) - Cardinality(pushers)
      BY <3>1, FS_Difference
    <3>3. Cardinality(Extra') <= Cardinality(Extra \ pushers) /\ Cardinality(Extra') \in Nat
      BY <1>10, <2>2, Fewer
    <3>4. Cardinality(Extra) \in Nat
      BY <2>2, RowSets
    <3> HIDE DEF pushers
    <3> QED
      BY <1>12, <3>2, <3>3, <3>4
  <2>5. Cardinality(Unseen' \ idsLeft') \in Nat /\ Cardinality(Extra') \in Nat
    BY <1>13, CountedSets, RowSets DEF PullShape, Unseen, Extra
  <2>6. Cardinality(Unseen \ idsLeft) \in Nat /\ Cardinality(Extra) \in Nat
    BY <2>2, RowSets
  <2> HIDE DEF pushers, found, h
  <2> QED
    BY <1>1, <1>12, <2>1, <2>3, <2>4, <2>5, <2>6 DEF h
<1> QED
  BY <1>2, <1>13, <1>14 DEF PullInv, MissedInv

(* A row that is delivered was about to be.                                 *)
LEMMA YieldKeeps ==
  ASSUME PullInv, NEW r \in page, Yield(r)
  PROVE  PullInv'
<1>1. /\ stage = "yield" /\ page' = page \ {r} /\ delivered' = delivered \cup {r}
      /\ stage' = IF page' # {} THEN "yield" ELSE IF more THEN "fetch" ELSE "done"
      /\ yields' = yields + 1
      /\ UNCHANGED <<mode, offset, idsLeft, more, lost, layerVars>>
  BY DEF Yield
<1>2. PullShape'
  BY <1>1 DEF PullInv, PullShape, Ended, layerVars
<1>3. Unseen' = Unseen /\ Behind' = Behind /\ Extra' = Extra
  BY <1>1 DEF Unseen, Behind, Extra, layerVars
<1>4. (GoesOn' => GoesOn) /\ (Ended' => Ended)
  BY <1>1 DEF GoesOn, Ended, PullInv, PullShape
<1> QED
  BY <1>1, <1>2, <1>3, <1>4 DEF PullInv, MissedInv, layerVars

(* A pull begins: nothing is passed yet.                                    *)
LEMMA StartPullKeeps ==
  ASSUME PullInv, StartPull
  PROVE  PullInv'
<1>1. PullShape'
  BY PullAssumption DEF PullAssumption, StartPull, PullInv, PullShape, Ended
<1>2. stage' = "list" \/ (stage' = "fetch" /\ mode' = "offset" /\ offset' = 0)
  BY DEF StartPull
<1>3. MissedInv'
  BY <1>1, <1>2, FreshPull
<1> QED
  BY <1>1, <1>3 DEF PullInv

(* What is listed is all there is.                                          *)
LEMMA ListIdsKeeps ==
  ASSUME PullInv, ListIds
  PROVE  PullInv'
<1>1. /\ idsLeft' = layer /\ stage = "list" /\ mode = "ids" /\ page = {} /\ delivered = {}
      /\ stage' = IF layer = {} THEN "done" ELSE "fetch"
      /\ UNCHANGED <<mode, offset, page, more, yields, delivered, lost, layerVars>>
  BY DEF ListIds, PullInv, PullShape
<1>2. PullShape'
  BY <1>1 DEF PullInv, PullShape, Ended, layerVars
<1>3. Unseen' \ idsLeft' = {} /\ Extra' = {}
  BY <1>1 DEF Unseen, Extra, layerVars, PullInv, PullShape
<1>4. Cardinality({}) = 0
  BY FS_EmptySet
<1>5. Cardinality(Unseen' \ idsLeft') + Cardinality(Extra') <= lost' + added'
  <2>1. lost' \in Nat /\ added' \in Nat
    BY <1>2 DEF PullShape
  <2>2. \A u, e, l, a \in Nat : u = 0 /\ e = 0 => u + e <= l + a
    OBVIOUS
  <2>3. Cardinality(Unseen' \ idsLeft') = 0 /\ Cardinality(Extra') = 0
    BY <1>3, <1>4
  <2>4. Cardinality(Unseen' \ idsLeft') \in Nat /\ Cardinality(Extra') \in Nat
    BY <2>3
  <2> QED
    BY <2>1, <2>2, <2>3, <2>4, Zenon
<1> QED
  BY <1>1, <1>2, <1>5 DEF PullInv, MissedInv

(* A row that leaves the layer moves another one before the offset.          *)
LEMMA RemoveRowKeeps ==
  ASSUME PullInv, RemoveRow
  PROVE  PullInv'
<1>1. PICK r \in layer : layer' = layer \ {r} /\ present' = present \ {r}
  BY DEF RemoveRow
<1>2. /\ removed' = removed + 1 /\ UNCHANGED <<pullVars, added>>
      /\ removed \in Nat /\ added \in Nat /\ lost \in Nat /\ offset \in Nat
      /\ layer \in SUBSET Rows
  BY DEF RemoveRow, PullInv, PullShape
<1>3. PullShape'
  BY <1>1, <1>2 DEF PullInv, PullShape, Ended, pullVars
<1>4. UNCHANGED <<mode, offset, idsLeft, lost>> /\ (GoesOn' <=> GoesOn) /\ (Ended' <=> Ended)
  BY <1>2 DEF pullVars, GoesOn, Ended
<1>5. Unseen' \subseteq Unseen /\ Extra' \subseteq Extra
  BY <1>1, <1>2 DEF Unseen, Extra, pullVars
<1>6. Unseen \in SUBSET Rows /\ Extra \in SUBSET Rows /\ Unseen \cap Behind \in SUBSET Rows
      /\ Unseen' \in SUBSET Rows /\ Extra' \in SUBSET Rows
  BY <1>3, CountedSets DEF PullInv, PullShape, Unseen, Extra
<1>7. Cardinality(Unseen' \cap Behind') <= Cardinality(Unseen \cap Behind) + 1
  <2>1. PICK y : First(layer \ {r}, offset) \subseteq First(layer, offset) \cup {y}
    BY <1>2, RemovalShifts
  <2>2. Behind' = First(layer \ {r}, offset)
    BY <1>1, <1>4 DEF Behind
  <2>3. Unseen' \cap Behind' \subseteq (Unseen \cap Behind) \cup {y}
    BY <1>5, <2>1, <2>2 DEF Behind
  <2> DEFINE S == Unseen \cap Behind
             T == Unseen' \cap Behind'
  <2>4. IsFiniteSet(S) /\ Cardinality(S) \in Nat /\ Cardinality(T) \in Nat
    BY <1>6, RowSets
  <2>5. IsFiniteSet(S \cup {y}) /\ Cardinality(S \cup {y}) = IF y \in S THEN Cardinality(S) ELSE Cardinality(S) + 1
    BY <2>4, FS_AddElement
  <2>6. Cardinality(T) <= Cardinality(S \cup {y})
    BY <2>3, <2>5, FS_Subset
  <2> HIDE DEF S, T
  <2> QED
    BY <2>4, <2>5, <2>6 DEF S, T
<1>8. /\ Cardinality(Unseen') <= Cardinality(Unseen)
      /\ Cardinality(Extra') <= Cardinality(Extra)
      /\ Cardinality(Unseen' \ idsLeft') <= Cardinality(Unseen \ idsLeft)
  <2>1. Unseen' \ idsLeft' \subseteq Unseen \ idsLeft /\ Unseen \ idsLeft \in SUBSET Rows
    BY <1>4, <1>5, <1>6
  <2> QED
    BY <1>5, <1>6, <2>1, Fewer
<1>9. /\ Cardinality(Unseen) \in Nat /\ Cardinality(Unseen') \in Nat
      /\ Cardinality(Extra) \in Nat /\ Cardinality(Extra') \in Nat
      /\ Cardinality(Unseen \cap Behind) \in Nat /\ Cardinality(Unseen' \cap Behind') \in Nat
      /\ Cardinality(Unseen \ idsLeft) \in Nat /\ Cardinality(Unseen' \ idsLeft') \in Nat
  BY <1>6, RowSets
<1>10. mode = "offset" /\ GoesOn => Cardinality(Unseen' \cap Behind') <= removed'
  BY <1>2, <1>7, <1>9 DEF PullInv, MissedInv
<1>11. mode = "offset" /\ Ended => Cardinality(Unseen') <= lost' + removed'
  BY <1>2, <1>4, <1>8, <1>9 DEF PullInv, MissedInv
<1>12. mode = "ids" /\ (GoesOn \/ Ended) =>
         Cardinality(Unseen' \ idsLeft') + Cardinality(Extra') <= lost' + added'
  BY <1>2, <1>4, <1>8, <1>9 DEF PullInv, MissedInv
<1> QED
  BY <1>3, <1>4, <1>10, <1>11, <1>12 DEF PullInv, MissedInv

(* A row that enters the layer may be extra in a range to come.             *)
LEMMA AddRowKeeps ==
  ASSUME PullInv, AddRow
  PROVE  PullInv'
<1>1. PICK r \in Rows \ layer : layer' = layer \cup {r}
  BY DEF AddRow
<1>2. /\ added' = added + 1 /\ UNCHANGED <<pullVars, present, removed>>
      /\ removed \in Nat /\ added \in Nat /\ lost \in Nat /\ offset \in Nat
      /\ layer \in SUBSET Rows /\ present \subseteq layer
  BY DEF AddRow, PullInv, PullShape
<1>3. PullShape'
  BY <1>1, <1>2 DEF PullInv, PullShape, Ended, pullVars
<1>4. UNCHANGED <<mode, offset, idsLeft, lost>> /\ (GoesOn' <=> GoesOn) /\ (Ended' <=> Ended)
      /\ Unseen' = Unseen
  BY <1>2 DEF pullVars, GoesOn, Ended, Unseen
<1>5. Unseen' \cap Behind' \subseteq Unseen \cap Behind
  <2>1. layer \cap First(layer \cup {r}, offset) \subseteq First(layer, offset)
    BY <1>2, AdditionShifts
  <2>2. Behind' = First(layer \cup {r}, offset)
    BY <1>1, <1>4 DEF Behind
  <2> QED
    BY <1>2, <1>4, <2>1, <2>2 DEF Behind, Unseen
<1>6. Extra' \subseteq Extra \cup {r}
  BY <1>1, <1>4 DEF Extra
<1>7. Unseen \in SUBSET Rows /\ Extra \in SUBSET Rows /\ Extra' \in SUBSET Rows
      /\ Unseen \cap Behind \in SUBSET Rows
  BY <1>3, CountedSets DEF PullInv, PullShape, Extra
<1>8. Cardinality(Extra') <= Cardinality(Extra) + 1
  <2>1. IsFiniteSet(Extra) /\ Cardinality(Extra) \in Nat /\ Cardinality(Extra') \in Nat
    BY <1>7, RowSets
  <2>2. /\ IsFiniteSet(Extra \cup {r})
        /\ Cardinality(Extra \cup {r}) = IF r \in Extra THEN Cardinality(Extra) ELSE Cardinality(Extra) + 1
    BY <2>1, FS_AddElement
  <2>3. Cardinality(Extra') <= Cardinality(Extra \cup {r})
    BY <1>6, <2>2, FS_Subset
  <2> QED
    BY <2>1, <2>2, <2>3
<1>9. /\ Cardinality(Unseen' \cap Behind') <= Cardinality(Unseen \cap Behind)
      /\ Cardinality(Unseen' \cap Behind') \in Nat /\ Cardinality(Unseen \cap Behind) \in Nat
      /\ Cardinality(Unseen \ idsLeft) \in Nat
      /\ Cardinality(Extra) \in Nat /\ Cardinality(Extra') \in Nat
  BY <1>5, <1>7, Fewer, RowSets
<1>10. mode = "offset" /\ GoesOn => Cardinality(Unseen' \cap Behind') <= removed'
  BY <1>2, <1>9 DEF PullInv, MissedInv
<1>11. mode = "ids" /\ (GoesOn \/ Ended) =>
         Cardinality(Unseen' \ idsLeft') + Cardinality(Extra') <= lost' + added'
  BY <1>2, <1>4, <1>8, <1>9 DEF PullInv, MissedInv
<1> QED
  BY <1>2, <1>3, <1>4, <1>10, <1>11 DEF PullInv, MissedInv

(* Leaving the sync forgets the pull.                                       *)
LEMMA LeaveKeeps ==
  ASSUME PullInv, Leave
  PROVE  PullInv'
<1>1. PullShape' /\ stage' = "off"
  BY DEF Leave, PullInv, PullShape, layerVars, Ended
<1> QED
  BY <1>1, FreshPull DEF PullInv

(* Nothing else touches the pull or the layer.                              *)
LEMMA PullUntouched ==
  ASSUME PullInv, UNCHANGED <<pullVars, layer, present, removed, added>>
  PROVE  PullInv'
BY DEF PullInv, PullShape, MissedInv, GoesOn, Ended, Unseen, Behind, Extra, pullVars

(* Every step of the sync, the server and the county keeps it.              *)
LEMMA PullStepKeeps ==
  ASSUME PullInv, [SyncNext]_allVars
  PROVE  PullInv'
<1>1. CASE UNCHANGED vars
  BY <1>1, PullUntouched DEF vars, layerVars
<1>2. CASE Open
  BY <1>2, StartPullKeeps DEF Open
<1>3. CASE Pull
  BY <1>3, FetchOffsetKeeps, ListIdsKeeps, FetchRangeKeeps DEF Pull, PullStep
<1>4. CASE TakeRow
  BY <1>4, YieldKeeps DEF TakeRow
<1>5. CASE Succeed \/ Fail \/ Crash
  BY <1>5, LeaveKeeps DEF Succeed, Fail, Crash
<1>6. CASE CountyEdits
  BY <1>6, RemoveRowKeeps, AddRowKeeps DEF CountyEdits
<1>7. CASE (\E s \in Sources : Begin(s)) \/ Count \/ Settle \/ HealCheck \/ Heal \/ RestoreAll
           \/ UNCHANGED allVars
  <2>1. UNCHANGED vars
    BY <1>7 DEF Begin, Count, Settle, HealCheck, Heal, RestoreAll, allVars
  <2> QED
    BY <1>1, <2>1
<1>8. CASE Reclassify
  BY <1>8, PullUntouched DEF Reclassify
<1> QED
  BY <1>2, <1>3, <1>4, <1>5, <1>6, <1>7, <1>8 DEF SyncNext

(* What a pull passes over is accounted for in every reachable state.       *)
THEOREM PullHolds == SyncSpec => []PullInv
<1>1. Init => PullInv
  <2> SUFFICES ASSUME Init PROVE PullInv
    OBVIOUS
  <2>1. PullShape
    BY PullAssumption DEF PullAssumption, Init, InitPull, PullShape, Ended
  <2> QED
    BY <2>1 DEF PullInv, MissedInv, GoesOn, Ended, Init, InitPull
<1> QED
  BY <1>1, PullStepKeeps, PTL DEF SyncSpec

(* "Full paginated attribute pull": whatever the server answers and the      *)
(* county edits meanwhile, a pull that ends has missed no more of the rows    *)
(* that were there all along than were held back or moved by an edit.         *)
THEOREM MissedIsAccountedFor == SyncSpec => []MissedBounded
<1>1. PullInv => MissedBounded
  <2> SUFFICES ASSUME PullInv, stage = "done"
               PROVE  Cardinality(Missed) <= lost + (IF mode = "offset" THEN removed ELSE added)
    BY DEF MissedBounded
  <2>1. page = {} /\ idsLeft = {} /\ Missed = Unseen /\ lost \in Nat /\ added \in Nat
    BY DEF PullInv, PullShape, Ended, Missed, Unseen
  <2>2. CASE mode = "offset"
    BY <2>1, <2>2 DEF PullInv, MissedInv, Ended
  <2>3. CASE mode = "ids"
    <3>1. Cardinality(Unseen) \in Nat /\ Cardinality(Extra) \in Nat
      BY CountedSets, RowSets DEF PullInv
    <3>2. Unseen \ idsLeft = Unseen
      BY <2>1
    <3>3. Cardinality(Unseen) + Cardinality(Extra) <= lost + added
      BY <2>3, <3>2 DEF PullInv, MissedInv, Ended
    <3> QED
      BY <2>1, <2>3, <3>1, <3>3
  <2> QED
    BY <2>2, <2>3 DEF PullInv, PullShape
<1> QED
  BY <1>1, PullHolds, PTL

----------------------------------------------------------------------------
(* A layer that nobody edits                                                *)

\* What the sync has seen is what was delivered.
SeenInv ==
  /\ pc \in {"count", "open"} => seenPins = {}
  /\ pc = "pull" => seenPins = PinsOf(delivered)

\* While nobody edits the layer, the county's count is its size, and the pull
\* delivers rows of it, each once.
StableInv ==
  /\ expected \in Nat \cup {NoCount}
  /\ pc = "idle" => expected = NoCount
  /\ stable /\ expected # NoCount => expected = Cardinality(layer)
  /\ stable /\ pc = "pull" =>
       /\ present = layer /\ removed = 0 /\ added = 0
       /\ delivered \cup page \subseteq layer
       /\ delivered \cap page = {}
       /\ yields = Cardinality(delivered)
       /\ mode = "offset" /\ GoesOn => delivered \cup page \subseteq Behind

(* A row delivered is a PIN seen, or has none.                              *)
LEMMA SeenKept ==
  ASSUME SeenInv, [SyncNext]_allVars
  PROVE  SeenInv'
<1>1. CASE TakeRow
  <2>1. PICK r \in page :
          /\ delivered' = delivered \cup {r}
          /\ \/ PinOf[r] = NoPin /\ seenPins' = seenPins
             \/ PinOf[r] # NoPin /\ seenPins' = seenPins \cup {PinOf[r]}
    BY <1>1 DEF TakeRow, Yield
  <2>2. pc = "pull" /\ pc' = "pull"
    BY <1>1 DEF TakeRow
  <2>3. CASE PinOf[r] = NoPin
    BY <2>1, <2>2, <2>3 DEF SeenInv, PinsOf
  <2>4. CASE PinOf[r] # NoPin
    BY <2>1, <2>2, <2>4 DEF SeenInv, PinsOf
  <2> QED
    BY <2>1, <2>3, <2>4
<1>2. CASE Open
  <2>1. PinsOf({}) = {}
    BY DEF PinsOf
  <2> QED
    BY <1>2, <2>1 DEF Open, StartPull, SeenInv
<1>3. CASE \E s \in Sources : Begin(s)
  BY <1>3 DEF Begin, SeenInv
<1>4. CASE Succeed \/ Fail \/ Crash \/ Settle
  <2>1. pc' \in {"idle", "close"}
    BY <1>4 DEF Succeed, Fail, Crash, Leave, Settle
  <2> QED
    BY <2>1 DEF SeenInv
<1>5. CASE \/ Count \/ Pull \/ HealCheck \/ Heal \/ RestoreAll \/ CountyEdits \/ Reclassify
           \/ UNCHANGED allVars
  <2>1. /\ UNCHANGED <<seenPins, delivered>>
        /\ UNCHANGED pc \/ (pc = "count" /\ pc' = "open")
    BY <1>5 DEF Count, Pull, PullStep, FetchOffset, ListIds, FetchRange, HealCheck, Heal, RestoreAll,
                CountyEdits, RemoveRow, AddRow, Reclassify, syncVars, allVars, vars, pullVars
  <2> QED
    BY <2>1 DEF SeenInv, PinsOf
<1> QED
  BY <1>1, <1>2, <1>3, <1>4, <1>5 DEF SyncNext

(* A request to a layer nobody edits gets rows that were not delivered yet.  *)
LEMMA StableFetch ==
  ASSUME PullInv, StableInv, stable, pc = "pull", Pull
  PROVE  StableInv'
<1>1. UNCHANGED syncVars /\ pc' = "pull" /\ stable'
  BY DEF Pull, syncVars
<1>2. CASE FetchOffset
  <2>1. PICK n \in 0..PageSize :
          /\ page' = (layer \ First(layer, offset)) \cap First(layer, offset + n)
          /\ offset' = offset + n
    BY <1>2 DEF FetchOffset, NextOffset
  <2>2. stage = "fetch" /\ mode = "offset" /\ page = {} /\ UNCHANGED <<mode, idsLeft, yields, delivered, layerVars>>
    BY <1>2 DEF FetchOffset, PullInv, PullShape
  <2>3. delivered \subseteq First(layer, offset) /\ delivered \subseteq layer
    BY <2>2 DEF StableInv, GoesOn, Behind
  <2>4. First(layer, offset) \subseteq First(layer, offset + n)
    <3>1. \A r \in layer : Cardinality({s \in layer : s < r}) \in Nat
      BY RowSets DEF PullInv, PullShape
    <3>2. n \in Nat /\ offset \in Nat
      BY PullAssumption DEF PullAssumption, PullInv, PullShape
    <3> QED
      BY <3>1, <3>2 DEF First
  <2>5. delivered' \cup page' \subseteq Behind' /\ delivered' \cap page' = {}
        /\ delivered' \cup page' \subseteq layer'
    BY <2>1, <2>2, <2>3, <2>4 DEF Behind, layerVars
  <2> QED
    BY <1>1, <2>2, <2>5 DEF StableInv, syncVars, layerVars
<1>3. CASE ListIds
  BY <1>1, <1>3 DEF ListIds, StableInv, PullInv, PullShape, syncVars, layerVars
<1>4. CASE FetchRange
  <2> DEFINE batch == First(idsLeft, PageSize)
             found == {r \in layer : InRange(r, batch)}
  <2>1. stage = "fetch" /\ mode = "ids" /\ page = {} /\ UNCHANGED <<mode, yields, delivered, layerVars>>
    BY <1>4 DEF FetchRange, PullInv, PullShape
  <2>2. PICK n \in 0..Cardinality(found) : page' = First(found, n)
    BY <1>4 DEF FetchRange
  <2>3. page' \subseteq found
    BY <2>2 DEF First
  <2>4. \A r \in found, d \in delivered : r # d
    <3> SUFFICES ASSUME NEW r \in found, r \in delivered PROVE FALSE
      OBVIOUS
    <3>1. PICK a \in idsLeft : a <= r
      BY DEF InRange, First
    <3>2. r < a /\ r \in Nat /\ a \in Nat
      BY <3>1, RowSets DEF PullInv, PullShape
    <3> QED
      BY <3>1, <3>2
  <2>5. delivered' \cap page' = {} /\ delivered' \cup page' \subseteq layer'
    BY <2>1, <2>3, <2>4 DEF StableInv, layerVars
  <2> HIDE DEF found, batch
  <2> QED
    BY <1>1, <2>1, <2>5 DEF StableInv, syncVars, layerVars
<1> QED
  BY <1>2, <1>3, <1>4 DEF Pull, PullStep

(* A row is taken from those of the page.                                   *)
LEMMA StableYield ==
  ASSUME PullInv, StableInv, stable, TakeRow
  PROVE  StableInv'
<1>1. PICK r \in page : Yield(r)
  BY DEF TakeRow
<1>2. /\ pc = "pull" /\ pc' = "pull" /\ stable' /\ expected' = expected
      /\ page' = page \ {r} /\ delivered' = delivered \cup {r} /\ yields' = yields + 1
      /\ UNCHANGED <<mode, offset, layerVars>>
      /\ GoesOn' => GoesOn
  BY <1>1 DEF TakeRow, Yield, GoesOn, PullInv, PullShape
<1>3. /\ delivered \cap page = {} /\ yields = Cardinality(delivered) /\ delivered \cup page \subseteq layer
      /\ delivered \in SUBSET Rows
  BY <1>2 DEF StableInv, PullInv, PullShape
<1>4. IsFiniteSet(delivered) /\ r \notin delivered
  BY <1>3, RowSets
<1>5. yields' = Cardinality(delivered')
  BY <1>2, <1>3, <1>4, FS_AddElement
<1>6. delivered' \cup page' = delivered \cup page /\ delivered' \cap page' = {} /\ Behind' = Behind
  BY <1>2, <1>3 DEF Behind, layerVars
<1> QED
  BY <1>2, <1>5, <1>6 DEF StableInv, layerVars

(* The steps outside the pull.                                              *)
LEMMA StableKept ==
  ASSUME PullInv, StableInv, [SyncNext]_allVars
  PROVE  StableInv'
<1>1. CASE Pull /\ stable
  BY <1>1, StableFetch DEF Pull
<1>2. CASE TakeRow /\ stable
  BY <1>2, StableYield
<1>3. CASE (Pull \/ TakeRow) /\ ~ stable
  <2>1. UNCHANGED <<pc, expected, stable>>
    BY <1>3 DEF Pull, TakeRow, syncVars
  <2> QED
    BY <1>3, <2>1 DEF StableInv
<1>4. CASE Open
  <2>1. /\ pc' = "pull" /\ UNCHANGED <<expected, stable, layer>>
        /\ present' = layer /\ removed' = 0 /\ added' = 0
        /\ delivered' = {} /\ page' = {} /\ yields' = 0
    BY <1>4 DEF Open, StartPull
  <2>2. Cardinality({}) = 0
    BY FS_EmptySet
  <2> QED
    BY <2>1, <2>2, <1>4 DEF StableInv, Open
<1>5. CASE Count
  <2>1. /\ pc' = "open" /\ expected' \in {Cardinality(layer), NoCount} /\ layer' = layer
    BY <1>5 DEF Count, vars, layerVars
  <2>2. Cardinality(layer) \in Nat
    BY RowSets DEF PullInv, PullShape
  <2> QED
    BY <2>1, <2>2 DEF StableInv
<1>6. CASE (\E s \in Sources : Begin(s)) \/ Succeed \/ Fail \/ Crash
  <2>1. expected' = NoCount /\ pc' \in {"idle", "count"}
    BY <1>6 DEF Begin, Succeed, Fail, Crash, Leave
  <2> QED
    BY <2>1 DEF StableInv
<1>7. CASE CountyEdits
  BY <1>7 DEF CountyEdits, StableInv
<1>8. CASE Settle \/ HealCheck \/ Heal \/ RestoreAll \/ Reclassify \/ UNCHANGED allVars
  <2>1. /\ UNCHANGED <<pullVars, layer, present, removed, added, expected, stable>>
        /\ UNCHANGED pc \/ pc' = "close"
    BY <1>8 DEF Settle, HealCheck, Heal, RestoreAll, Reclassify, allVars, syncVars, vars, layerVars
  <2> QED
    BY <2>1 DEF StableInv, pullVars, GoesOn, Behind
<1> QED
  BY <1>1, <1>2, <1>3, <1>4, <1>5, <1>6, <1>7, <1>8 DEF SyncNext

(* What is seen and what is stable holds in every reachable state.          *)
THEOREM StableHolds == SyncSpec => [](SeenInv /\ StableInv)
<1>1. Init => SeenInv /\ StableInv
  BY DEF Init, SeenInv, StableInv
<1>2. PullInv /\ SeenInv /\ StableInv /\ [SyncNext]_allVars => (SeenInv /\ StableInv)'
  BY SeenKept, StableKept
<1> QED
  BY <1>1, <1>2, PullHolds, PTL DEF SyncSpec

(* Part of a whole, in percent, is no more than the whole.                  *)
LEMMA FloorOfWhole ==
  ASSUME NEW pct \in 0..100, NEW n \in Nat
  PROVE  Floor(pct, n) \in Nat /\ Floor(pct, n) <= n
<1>1. pct * n <= 100 * n /\ pct * n \in Nat
  OBVIOUS
<1> DEFINE m == pct * n
<1>2. m \in Nat /\ m <= 100 * n
  BY <1>1
<1> HIDE DEF m
<1>3. m \div 100 \in Nat /\ m \div 100 <= n
  BY <1>2
<1> QED
  BY <1>3 DEF Floor, m

(* The completeness guard: what a sync deactivates although the county still *)
(* has it is no more than the count allows to be missing.                    *)
LEMMA MistakesAtSettle ==
  ASSUME PullInv, SeenInv, StableInv, [SyncNext]_allVars,
         Settling, stable, activePins' # activePins
  PROVE  Cardinality(layer \ delivered) <= expected - Floor(CompletePct, expected)
<1>1. Settle /\ pc = "pull"
  BY SettlingIsSettle DEF Settling
<1>2. Spared = "no"
  BY <1>1 DEF Settle
<1>3. expected # NoCount /\ yields >= Floor(CompletePct, expected)
  BY <1>2 DEF Spared, Complete
<1>4. expected = Cardinality(layer) /\ expected \in Nat /\ layer \in SUBSET Rows
  BY <1>3 DEF StableInv, PullInv, PullShape
<1>5. delivered \subseteq layer /\ yields = Cardinality(delivered)
  BY <1>1 DEF StableInv
<1>6. IsFiniteSet(layer) /\ layer \cap delivered = delivered
  BY <1>4, <1>5, RowSets
<1>7. Cardinality(layer \ delivered) = expected - yields
  <2>1. Cardinality(layer \ delivered) = Cardinality(layer) - Cardinality(layer \cap delivered)
    BY <1>6, FS_Difference
  <2> QED
    BY <2>1, <1>4, <1>5, <1>6
<1>8. Floor(CompletePct, expected) \in Nat /\ yields \in Nat
  BY <1>4, FloorOfWhole, SyncAssumption DEF SyncAssumption, PullInv, PullShape
<1> QED
  BY <1>3, <1>4, <1>7, <1>8

(* The completeness guard of runFullSync: over a layer that nobody edited, a  *)
(* sync deactivates by mistake no more than the percentage it forgives.       *)
THEOREM MistakesAreFew == SyncSpec => MistakesBounded
<1>1. PullInv /\ SeenInv /\ StableInv /\ [SyncNext]_allVars =>
        [Settling /\ stable /\ activePins' # activePins =>
           Cardinality(layer \ delivered) <= expected - Floor(CompletePct, expected)]_allVars
  BY MistakesAtSettle
<1> QED
  BY <1>1, PullHolds, StableHolds, PTL DEF SyncSpec, MistakesBounded

(* A pull that met the layer as the county counted it and lost nothing has   *)
(* seen exactly its parcels, and found complete: only the comparison with     *)
(* the last success can spare the others.                                    *)
LEMMA ExactAtSettle ==
  ASSUME PullInv, SeenInv, StableInv, Inventory, MissedBounded, [SyncNext]_allVars,
         Settling, stable, lost = 0, expected # NoCount, PinsOf(layer) # {}
  PROVE  Spared = "drop" \/ activePins' = PinsOf(layer) \cup (activePins \ commercial)
<1>1. Settle /\ pc = "pull" /\ stage = "done"
  BY SettlingIsSettle DEF Settling, Settle
<1>2. /\ present = layer /\ removed = 0 /\ added = 0 /\ delivered \subseteq layer
      /\ yields = Cardinality(delivered) /\ expected = Cardinality(layer)
  BY <1>1 DEF StableInv
<1>3. layer \in SUBSET Rows /\ Missed \in SUBSET Rows
  BY DEF PullInv, PullShape, Missed
<1>4. delivered = layer
  <2>1. Cardinality(Missed) <= 0
    BY <1>1, <1>2 DEF MissedBounded
  <2>2. Cardinality(Missed) \in Nat /\ IsFiniteSet(Missed)
    BY <1>3, RowSets
  <2>3. Missed = {}
    BY <2>1, <2>2, FS_EmptySet
  <2> QED
    BY <1>2, <2>3 DEF Missed
<1>5. seenPins = PinsOf(layer) /\ seenPins # {} /\ seenPins \subseteq activePins
  BY <1>1, <1>4 DEF SeenInv, Inventory
<1>6. Complete
  <2>1. yields = expected /\ expected \in Nat
    BY <1>2, <1>3, <1>4, RowSets
  <2>2. Floor(CompletePct, expected) \in Nat /\ Floor(CompletePct, expected) <= expected
    BY <2>1, FloorOfWhole, SyncAssumption DEF SyncAssumption
  <2> QED
    BY <2>1, <2>2 DEF Complete
<1>7. Spared \in {"drop", "no"}
  BY <1>5, <1>6 DEF Spared
<1>8. Spared = "no" => activePins' = activePins \ (commercial \ seenPins)
  BY <1>1 DEF Settle, Retired
<1> QED
  BY <1>5, <1>7, <1>8

(* runFullSync on a layer that nobody edits: the active parcels are the       *)
(* county's and those that are no commercial ones as stored, unless the       *)
(* comparison with the last success spares others.                            *)
THEOREM ExactOnStableLayer == SyncSpec => ExactWhenStable
<1>1. PullInv /\ SeenInv /\ StableInv /\ Inventory /\ MissedBounded /\ [SyncNext]_allVars =>
        [Settling /\ stable /\ lost = 0 /\ expected # NoCount /\ PinsOf(layer) # {} =>
           Spared = "drop" \/ activePins' = PinsOf(layer) \cup (activePins \ commercial)]_allVars
  BY ExactAtSettle
<1> QED
  BY <1>1, PullHolds, StableHolds, InventoryHolds, MissedIsAccountedFor, PTL
     DEF SyncSpec, ExactWhenStable
=============================================================================
