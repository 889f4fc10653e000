---------------------------- MODULE JobPipeline ----------------------------
(***************************************************************************)
(* The chain of background jobs that keeps the scores up to date: a parcel  *)
(* sync is followed by scoring, scoring by an enrichment pass, and every     *)
(* enrichment job by scoring again, this time without another pass.  The     *)
(* three queues are worked by one worker each, in the same process.          *)
(*                                                                           *)
(* BullMQ is external: a job that throws goes back to its queue while it has *)
(* attempts left; a job whose worker died is put back once ("stalled") and   *)
(* given up the second time.                                                 *)
(*                                                                           *)
(* What the jobs write is abstracted to one question: do the latest scores   *)
(* reflect the parcels and signals as they are (`stale')?                    *)
(***************************************************************************)
EXTENDS Integers, FiniteSets, Bags

CONSTANTS
  Triggers,     \* jobs that crons and admin requests add, once each: [name, left]
  MaxFailures,  \* bound of the model: jobs that throw and deaths of the process
  MaxStalled    \* BullMQ maxStalledCount (1 by default)

Queues == {"ingestion", "scoring", "enrichment"}

SyncJobs == {"parcels.fullSync", "parcels.dailySync"}
EnrichmentJobs == {"enrichment.pass", "rod.watch", "tax.delinquencySync"}
JobNames == SyncJobs \cup EnrichmentJobs \cup {"scoring.runAll"}

ASSUME PipelineAssumption ==
  /\ Triggers \subseteq [name : SyncJobs \cup EnrichmentJobs, left : Nat \ {0}]
  /\ MaxFailures \in Nat /\ MaxStalled \in Nat

VARIABLES
  waiting,     \* waiting[q]: bag of the jobs of queue q that wait or back off
  running,     \* running[q]: the job of q's worker and how far it is, or Idle
  stale,       \* data has changed since the latest complete scoring read it
  overtaken,   \* data has changed since the scoring in progress read it
  gaveUp,      \* a job was given up while the scores were out of date
  triggered,   \* jobs added from outside
  failures     \* jobs that threw and deaths of the process, bounded by MaxFailures

vars == <<waiting, running, stale, overtaken, gaveUp, triggered, failures>>

\* A job: its name, attempts left, whether scoring is to chain a pass
\* (job.data.chainEnrichment), and how often it has been found stalled.
Job(name, left, chain) == [name |-> name, left |-> left, chain |-> chain, stalled |-> 0]

Idle == [job |-> Job("none", 0, FALSE), at |-> "idle"]

QueueOf(name) ==
  IF name \in SyncJobs THEN "ingestion"
  ELSE IF name \in EnrichmentJobs THEN "enrichment"
  ELSE "scoring"

Put(w, j) == [w EXCEPT ![QueueOf(j.name)] = @ (+) SetToBag({j})]

----------------------------------------------------------------------------
Init ==
  /\ waiting = [q \in Queues |-> EmptyBag]
  /\ running = [q \in Queues |-> Idle]
  /\ stale = FALSE
  /\ overtaken = FALSE
  /\ gaveUp = FALSE
  /\ triggered = {}
  /\ failures = 0

\* A cron fires (one attempt) or the admin asks for a job (two or three).
Trigger(t) ==
  /\ t \notin triggered
  /\ triggered' = triggered \cup {t}
  /\ waiting' = Put(waiting, Job(t.name, t.left, TRUE))
  /\ UNCHANGED <<running, stale, overtaken, gaveUp, failures>>

\* An idle worker takes a job of its queue.
Take(q) ==
  /\ running[q] = Idle
  /\ \E j \in BagToSet(waiting[q]) :
       /\ waiting' = [waiting EXCEPT ![q] = @ (-) SetToBag({j})]
       /\ running' = [running EXCEPT ![q] = [job |-> j, at |-> "start"]]
  /\ UNCHANGED <<stale, overtaken, gaveUp, triggered, failures>>

At(q, name, stage) == running[q].at = stage /\ running[q].job.name \in name

\* runFullSync or an enrichment job has written what it found and returns.
Commit(q) ==
  /\ At(q, SyncJobs \cup EnrichmentJobs, "start")
  /\ running' = [running EXCEPT ![q].at = "chain"]
  /\ stale' = TRUE
  /\ overtaken' = TRUE
  /\ UNCHANGED <<waiting, gaveUp, triggered, failures>>

\* ScoringService.runAll begins to read: first the owners' counts, then their graphs, then
\* the parcels with their signals.  What changes after the first query counts as missed,
\* although the later ones may still see it.
ReadForScoring ==
  /\ At("scoring", {"scoring.runAll"}, "start")
  /\ running' = [running EXCEPT !["scoring"].at = "write"]
  /\ overtaken' = FALSE
  /\ UNCHANGED <<waiting, stale, gaveUp, triggered, failures>>

\* The last Score row is created: the scores are those of the data as read.
WriteScores ==
  /\ At("scoring", {"scoring.runAll"}, "write")
  /\ stale' = overtaken
  /\ gaveUp' = (gaveUp /\ overtaken)
  /\ running' = [running EXCEPT !["scoring"].at =
                   IF running["scoring"].job.chain THEN "chain" ELSE "done"]
  /\ UNCHANGED <<waiting, overtaken, triggered, failures>>

\* Mutant: chainScoring leaves chainEnrichment unset, which means yes.
FollowUpAlwaysChaining(name) ==
  IF name \in SyncJobs THEN Job("scoring.runAll", 3, TRUE)
  ELSE IF name = "scoring.runAll" THEN Job("enrichment.pass", 2, TRUE)
  ELSE Job("scoring.runAll", 2, TRUE)

\* Mutant: the daily sync chains the pass directly, which chains scoring only
\* for a pass of the cron.
FollowUpSkippingScoring(name) ==
  IF name \in SyncJobs THEN Job("enrichment.pass", 2, TRUE)
  ELSE IF name = "scoring.runAll" THEN Job("enrichment.pass", 2, TRUE)
  ELSE Job("enrichment.pass", 2, FALSE)

\* The job each processor adds when its own work is done.
FollowUp(name) ==
  IF name \in SyncJobs THEN Job("scoring.runAll", 3, TRUE)
  ELSE IF name = "scoring.runAll" THEN Job("enrichment.pass", 2, TRUE)
  ELSE Job("scoring.runAll", 2, FALSE)

\* The processor adds the next job of the chain.
Chain(q) ==
  /\ running[q].at = "chain"
  /\ waiting' = Put(waiting, FollowUp(running[q].job.name))
  /\ running' = [running EXCEPT ![q].at = "done"]
  /\ UNCHANGED <<stale, overtaken, gaveUp, triggered, failures>>

\* process() has returned and BullMQ marks the job completed.
Complete(q) ==
  /\ running[q].at = "done"
  /\ running' = [running EXCEPT ![q] = Idle]
  /\ UNCHANGED <<waiting, stale, overtaken, gaveUp, triggered, failures>>

Retryable(j) == j.left > 1

\* process() throws: the job is tried again while it has attempts left.  What
\* it had written stays: some rows of a sync or of an enrichment pass.  A
\* scoring that throws half way has written rows of data it may have read late,
\* but not all of them.
Throw(q) ==
  /\ running[q].at \in {"start", "write", "chain"}
  /\ failures < MaxFailures
  /\ failures' = failures + 1
  /\ running' = [running EXCEPT ![q] = Idle]
  /\ \/ UNCHANGED <<stale, overtaken>>
     \/ /\ At(q, SyncJobs \cup EnrichmentJobs, "start")
        /\ stale' = TRUE
        /\ overtaken' = TRUE
  /\ LET j == running[q].job
     IN  \/ /\ Retryable(j)
            /\ waiting' = Put(waiting, [j EXCEPT !.left = @ - 1])
            /\ UNCHANGED gaveUp
         \/ /\ ~Retryable(j)
            /\ gaveUp' = (gaveUp \/ stale')
            /\ UNCHANGED waiting
  /\ UNCHANGED triggered

\* Mutant: a stalled job is dropped.
RequeueNothing(w, q) == w

\* A stalled job goes back to its queue, once.
Requeue(w, q) ==
  IF running[q] # Idle /\ running[q].job.stalled < MaxStalled
  THEN Put(w, [running[q].job EXCEPT !.stalled = @ + 1])
  ELSE w

\* The process dies with the jobs of all three workers.
Crash ==
  /\ failures < MaxFailures
  /\ failures' = failures + 1
  /\ waiting' = Requeue(Requeue(Requeue(waiting, "ingestion"), "scoring"), "enrichment")
  /\ running' = [q \in Queues |-> Idle]
  /\ \/ UNCHANGED <<stale, overtaken>>
     \/ /\ \E q \in {"ingestion", "enrichment"} : running[q].at = "start"
        /\ stale' = TRUE
        /\ overtaken' = TRUE
  /\ gaveUp' = \/ gaveUp
               \/ /\ stale'
                  /\ \E q \in Queues :
                       running[q] # Idle /\ running[q].job.stalled >= MaxStalled
  /\ UNCHANGED triggered

AllIdle == \A q \in Queues : running[q] = Idle /\ waiting[q] = EmptyBag

\* Everything asked for is done (the end of the bounded model).
Quiet ==
  /\ AllIdle
  /\ triggered = Triggers
  /\ UNCHANGED vars

Work(q) == Commit(q) \/ Chain(q) \/ Complete(q) \/ Throw(q)

Next ==
  \/ \E t \in Triggers : Trigger(t)
  \/ \E q \in Queues : Take(q) \/ Work(q)
  \/ ReadForScoring \/ WriteScores
  \/ Crash \/ Quiet

Spec == Init /\ [][Next]_vars

\* A worker that is idle takes a job, and a job that runs gets on: it returns
\* or throws.
Fairness ==
  /\ \A q \in Queues : WF_vars(Take(q)) /\ WF_vars(Work(q))
  /\ WF_vars(ReadForScoring \/ WriteScores)

FairSpec == Spec /\ Fairness
----------------------------------------------------------------------------
Jobs == [name : JobNames, left : Nat \ {0}, chain : BOOLEAN, stalled : 0..MaxStalled]

Stages == {"start", "write", "chain", "done"}

\* Queues and workers hold jobs of their own kind that have an attempt left and
\* have not been found stalled too often.
TypeOK ==
  /\ \A q \in Queues :
       /\ IsABag(waiting[q]) /\ BagToSet(waiting[q]) \subseteq Jobs
       /\ \A j \in BagToSet(waiting[q]) : QueueOf(j.name) = q
  /\ \A q \in Queues :
       \/ running[q] = Idle
       \/ /\ running[q].job \in Jobs /\ QueueOf(running[q].job.name) = q
          /\ running[q].at \in Stages
  /\ stale \in BOOLEAN /\ overtaken \in BOOLEAN /\ gaveUp \in BOOLEAN
  /\ triggered \subseteq Triggers
  /\ failures \in 0..MaxFailures

\* Somebody is going to score the data as it is: a scoring that has not read
\* it yet or has read it as it is, or a job that will chain a scoring.
ScoringAhead ==
  \/ waiting["scoring"] # EmptyBag
  \/ running["scoring"].at = "start"
  \/ running["scoring"].at = "write" /\ ~overtaken
  \/ \E q \in {"ingestion", "enrichment"} :
       waiting[q] # EmptyBag \/ running[q].at \in {"start", "chain"}

\* Stale scores are always about to be replaced, at every step of every job and
\* after every failure and crash, unless a job ran out of attempts.
NoLostLink == stale => gaveUp \/ ScoringAhead

\* parcels-sync.processor.ts:26, enrichment.processor.ts:25: after a sync or an
\* enrichment the scores do become up to date, unless a job is given up.
EventuallyScored == stale ~> ~stale \/ gaveUp

\* The chain ends: scoring and enrichment do not keep each other going.
Drains == <>[]AllIdle
=============================================================================
