---------------------------- MODULE ArcGisSlots ----------------------------
(***************************************************************************)
(* The request limiter of the county ArcGIS client: a counter `active', a  *)
(* queue of resolvers `waitQueue', and getJson, which takes a slot, fetches *)
(* and gives the slot back, with a retry after a 5xx answer.                *)
(*                                                                          *)
(* A caller is one asynchronous chain of getJson calls: the parcel sync, or *)
(* an HTTP request that enriches one parcel.  A step is one callback of the *)
(* event loop with the microtasks it queues.  release() resolves the first  *)
(* waiter, whose continuation (`active += 1') is the next microtask and     *)
(* runs before any other callback, so a release and the wake-up it causes   *)
(* are one step here.                                                       *)
(*                                                                          *)
(* The retry path releases twice: once before the backoff and once more in  *)
(* `finally', which runs as soon as the recursive call has taken its slot   *)
(* or joined the queue (it is returned, not awaited).  `surplus' counts     *)
(* those second releases; it is no variable of the code.                    *)
(***************************************************************************)
EXTENDS Integers, Sequences, FiniteSets

CONSTANTS
  Callers,         \* asynchronous chains that may call getJson
  MaxConcurrency,  \* arcgis.maxConcurrency (2 by default)
  MaxAttempts,     \* retries after a 5xx (5 in the code)
  MaxRequests      \* bound of the model: requests per caller

ASSUME SlotsAssumption ==
  /\ IsFiniteSet(Callers)
  /\ MaxConcurrency \in Nat \ {0}
  /\ MaxAttempts \in Nat
  /\ MaxRequests \in Nat

VARIABLES
  active,     \* the client's counter of slots in use
  waitQueue,  \* callers whose resolver is queued, first come first served
  phase,      \* where each caller's getJson stands
  attempt,    \* the `attempt' argument of each caller's current getJson
  issued,     \* requests started by each caller, bounded by MaxRequests
  surplus     \* releases beyond one per acquire

slotVars == <<active, waitQueue, phase, attempt, issued, surplus>>

Phases == {"idle", "waiting", "fetching", "backoff"}

Fetching == {c \in Callers : phase[c] = "fetching"}

----------------------------------------------------------------------------
SlotsInit ==
  /\ active = 0
  /\ waitQueue = <<>>
  /\ phase = [c \in Callers |-> "idle"]
  /\ attempt = [c \in Callers |-> 0]
  /\ issued = [c \in Callers |-> 0]
  /\ surplus = 0

\* Mutant: the resolver is shifted off the queue and never called.
ReleaseFromForgettingWaiter(a, q, p) ==
  /\ active' = a - 1
  /\ waitQueue' = IF q = <<>> THEN q ELSE Tail(q)
  /\ phase' = p

\* Mutant: `waitQueue.pop()', the newest waiter first.
ReleaseFromNewest(a, q, p) ==
  \/ /\ q = <<>>
     /\ active' = a - 1
     /\ waitQueue' = q
     /\ phase' = p
  \/ /\ q # <<>>
     /\ active' = a
     /\ waitQueue' = SubSeq(q, 1, Len(q) - 1)
     /\ phase' = [p EXCEPT ![q[Len(q)]] = "fetching"]

\* release(), from counter a, queue q and phases p: the slot goes back to the
\* counter, or to the first waiter, which counts itself again.
ReleaseFrom(a, q, p) ==
  \/ /\ q = <<>>
     /\ active' = a - 1
     /\ waitQueue' = q
     /\ phase' = p
  \/ /\ q # <<>>
     /\ active' = a
     /\ waitQueue' = Tail(q)
     /\ phase' = [p EXCEPT ![Head(q)] = "fetching"]

\* Mutant: acquire() compares with <= instead of <.
SlotFreeOffByOne == active <= MaxConcurrency

\* Line 191.
SlotFree == active < MaxConcurrency

\* getJson(url): takes a free slot or joins the queue.
Start(c) ==
  /\ phase[c] = "idle"
  /\ issued[c] < MaxRequests
  /\ issued' = [issued EXCEPT ![c] = @ + 1]
  /\ attempt' = [attempt EXCEPT ![c] = 0]
  /\ \/ /\ SlotFree
        /\ active' = active + 1
        /\ phase' = [phase EXCEPT ![c] = "fetching"]
        /\ UNCHANGED waitQueue
     \/ /\ ~SlotFree
        /\ waitQueue' = Append(waitQueue, c)
        /\ phase' = [phase EXCEPT ![c] = "waiting"]
        /\ UNCHANGED active
  /\ UNCHANGED surplus

\* Mutant: `attempt <= 5', one retry too many.
HasAttemptLeftOffByOne(c) == attempt[c] <= MaxAttempts

\* Line 215: attempt < 5.
HasAttemptLeft(c) == attempt[c] < MaxAttempts

\* A 5xx answer with attempts left: the slot is released and a timer is set.
ServerError(c) ==
  /\ phase[c] = "fetching"
  /\ HasAttemptLeft(c)
  /\ ReleaseFrom(active, waitQueue, [phase EXCEPT ![c] = "backoff"])
  /\ UNCHANGED <<attempt, issued, surplus>>

\* The backoff is over: the recursive getJson takes a slot or joins the queue,
\* and the `finally' of the call that got the 5xx releases once more.
Retry(c) ==
  /\ phase[c] = "backoff"
  /\ attempt' = [attempt EXCEPT ![c] = @ + 1]
  /\ surplus' = surplus + 1
  /\ \/ /\ SlotFree
        /\ ReleaseFrom(active + 1, waitQueue, [phase EXCEPT ![c] = "fetching"])
     \/ /\ ~SlotFree
        /\ ReleaseFrom(active, Append(waitQueue, c), [phase EXCEPT ![c] = "waiting"])
  /\ UNCHANGED issued

\* A 2xx answer, a 4xx, an ArcGIS error body, a network failure, or a 5xx with
\* no attempt left: getJson returns or throws, and `finally' releases the slot.
FetchEnds(c) ==
  /\ phase[c] = "fetching"
  /\ ReleaseFrom(active, waitQueue, [phase EXCEPT ![c] = "idle"])
  /\ UNCHANGED <<attempt, issued, surplus>>

\* Every caller has made its requests (the end of the bounded model).
Quiet ==
  /\ \A c \in Callers : phase[c] = "idle" /\ issued[c] = MaxRequests
  /\ UNCHANGED slotVars

CallerStep(c) == Start(c) \/ ServerError(c) \/ Retry(c) \/ FetchEnds(c)

Next == (\E c \in Callers : CallerStep(c)) \/ Quiet

Spec == SlotsInit /\ [][Next]_slotVars

\* undici ends every fetch (headers and body timeouts), and a timer fires.
Fairness ==
  \A c \in Callers :
    /\ WF_slotVars(ServerError(c) \/ FetchEnds(c))
    /\ WF_slotVars(Retry(c))

FairSpec == Spec /\ Fairness

----------------------------------------------------------------------------
\* The counter, the queue, and one phase and attempt per caller (getJson counts
\* attempts 0 to MaxAttempts).
TypeOK ==
  /\ active \in Int
  /\ waitQueue \in Seq(Callers)
  /\ phase \in [Callers -> Phases]
  /\ attempt \in [Callers -> 0..MaxAttempts]
  /\ issued \in [Callers -> Nat]
  /\ surplus \in Nat

\* Each retry leaves the counter one lower than the number of requests in
\* flight: the counter never recovers while the process lives.
CounterDrift == active = Cardinality(Fetching) - surplus

\* The requests in flight exceed the configured limit only by the number of
\* retries made since the process started.
DriftBoundsFlight == Cardinality(Fetching) <= MaxConcurrency + surplus

\* The queue holds exactly the callers that wait, each of them once: none is
\* woken twice, none is dropped.
QueueHoldsWaiters ==
  /\ \A c \in Callers :
       phase[c] = "waiting" <=> \E i \in 1..Len(waitQueue) : waitQueue[i] = c
  /\ \A i, j \in 1..Len(waitQueue) : waitQueue[i] = waitQueue[j] => i = j

\* A caller waits only while requests are in flight whose end will wake it.
NoStrandedWaiter ==
  waitQueue # <<>> => active = MaxConcurrency /\ Fetching # {}

\* While somebody waits, nobody who arrives later is served first: a caller
\* that enters the fetch leaves no older waiter behind.
NoOvertaking ==
  [][\A c \in Callers :
       phase[c] # "fetching" /\ phase'[c] = "fetching" =>
         \/ waitQueue = <<>>
         \/ Head(waitQueue) = c]_slotVars

\* Every request that starts comes to an end.
EveryRequestSettles ==
  \A c \in Callers : phase[c] # "idle" ~> phase[c] = "idle"

\* README.md:186, "max 2 concurrent ArcGIS requests": at most MaxConcurrency
\* requests are in flight.  It holds while no 5xx is retried.
ConcurrencyLimit == Cardinality(Fetching) <= MaxConcurrency
=============================================================================
