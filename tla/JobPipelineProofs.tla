------------------------- MODULE JobPipelineProofs -------------------------
(***************************************************************************)
(* Theorems about the chain of jobs, for any triggers, failures and stalls.   *)
(***************************************************************************)
EXTENDS JobPipeline, TLAPS

\* The bags of jobs that a queue can hold.
JobBags == UNION {[S -> Nat \ {0}] : S \in SUBSET Jobs}

\* What a worker can be at.
Runs == {Idle} \cup [job : Jobs, at : Stages]

\* Jobs wait for the worker of their kind and are worked by it.
Placed ==
  /\ \A q \in Queues : \A j \in DOMAIN waiting[q] : QueueOf(j.name) = q
  /\ \A q \in Queues : running[q] # Idle => QueueOf(running[q].job.name) = q

\* What a scoring missed since it read makes the scores stale already.
OvertakenIsStale == running["scoring"].at = "write" /\ overtaken => stale

Typed ==
  /\ waiting \in [Queues -> JobBags]
  /\ running \in [Queues -> Runs]
  /\ stale \in BOOLEAN /\ overtaken \in BOOLEAN /\ gaveUp \in BOOLEAN
  /\ triggered \subseteq Triggers
  /\ failures \in 0..MaxFailures

IInv == Typed /\ Placed /\ OvertakenIsStale /\ NoLostLink

----------------------------------------------------------------------------
(* Bags                                                                    *)

LEMMA EmptyBagFacts == EmptyBag \in JobBags /\ DOMAIN EmptyBag = {}
BY DEF EmptyBag, SetToBag, JobBags

LEMMA FilledHasJob ==
  ASSUME NEW b \in JobBags, b # EmptyBag
  PROVE  DOMAIN b # {}
BY DEF EmptyBag, SetToBag, JobBags

LEMMA AddToBag ==
  ASSUME NEW b \in JobBags, NEW j \in Jobs
  PROVE  /\ b (+) SetToBag({j}) \in JobBags
         /\ DOMAIN (b (+) SetToBag({j})) = DOMAIN b \cup {j}
<1>1. PICK S \in SUBSET Jobs : b \in [S -> Nat \ {0}]
  BY DEF JobBags
<1>2. b (+) SetToBag({j}) \in [S \cup {j} -> Nat \ {0}]
  BY <1>1 DEF (+), SetToBag
<1>3. S \cup {j} \in SUBSET Jobs
  BY <1>1
<1> QED
  BY <1>1, <1>2, <1>3 DEF JobBags

LEMMA TakeFromBag ==
  ASSUME NEW b \in JobBags, NEW j \in BagToSet(b)
  PROVE  /\ j \in Jobs
         /\ b (-) SetToBag({j}) \in JobBags
         /\ DOMAIN (b (-) SetToBag({j})) \subseteq DOMAIN b
<1>1. PICK S \in SUBSET Jobs : b \in [S -> Nat \ {0}]
  BY DEF JobBags
<1>2. j \in S
  BY <1>1 DEF BagToSet
<1> DEFINE c == b (-) SetToBag({j})
           D == DOMAIN c
<1>3. D \subseteq S /\ c \in [D -> Nat \ {0}]
  BY <1>1, <1>2 DEF (-), SetToBag
<1>4. D \in SUBSET Jobs
  BY <1>1, <1>3
<1> QED
  BY <1>1, <1>2, <1>3, <1>4 DEF JobBags

(* Adding a job empties no queue and fills its own.                         *)
LEMMA PutFacts ==
  ASSUME NEW w \in [Queues -> JobBags], NEW j \in Jobs
  PROVE  /\ Put(w, j) \in [Queues -> JobBags]
         /\ \A q \in Queues : w[q] # EmptyBag => Put(w, j)[q] # EmptyBag
         /\ QueueOf(j.name) \in Queues
         /\ Put(w, j)[QueueOf(j.name)] # EmptyBag
         /\ \A q \in Queues : \A i \in DOMAIN Put(w, j)[q] :
              i \in DOMAIN w[q] \/ (i = j /\ q = QueueOf(j.name))
<1> DEFINE k == QueueOf(j.name)
<1>1. k \in Queues
  BY DEF QueueOf, Queues
<1>2. /\ Put(w, j) = [w EXCEPT ![k] = w[k] (+) SetToBag({j})]
      /\ w[k] \in JobBags
  BY <1>1 DEF Put
<1>3. /\ w[k] (+) SetToBag({j}) \in JobBags
      /\ DOMAIN (w[k] (+) SetToBag({j})) = DOMAIN w[k] \cup {j}
  BY <1>2, AddToBag
<1> HIDE DEF k
<1>4. Put(w, j) \in [Queues -> JobBags]
  BY <1>1, <1>2, <1>3
<1>5. /\ Put(w, j)[k] = w[k] (+) SetToBag({j})
      /\ \A q \in Queues \ {k} : Put(w, j)[q] = w[q]
  BY <1>1, <1>2, <1>3
<1>6. Put(w, j)[k] # EmptyBag
  <2>1. j \in DOMAIN Put(w, j)[k]
    BY <1>3, <1>5
  <2> QED
    BY <2>1, EmptyBagFacts
<1>7. \A q \in Queues : \A i \in DOMAIN Put(w, j)[q] : i \in DOMAIN w[q] \/ (i = j /\ q = k)
  BY <1>1, <1>3, <1>5
<1>8. \A q \in Queues : w[q] # EmptyBag => Put(w, j)[q] # EmptyBag
  BY <1>5, <1>6
<1> QED
  BY <1>1, <1>4, <1>6, <1>7, <1>8 DEF k

----------------------------------------------------------------------------
LEMMA IdleFacts == Idle.at = "idle" /\ Idle \in Runs
BY DEF Idle, Runs

\* A worker that is at something has a job of its queue.
LEMMA Busy ==
  ASSUME IInv, NEW q \in Queues, running[q].at \in Stages
  PROVE  /\ running[q] # Idle
         /\ running[q] \in [job : Jobs, at : Stages]
         /\ running[q].job \in Jobs
         /\ QueueOf(running[q].job.name) = q
<1>1. running[q] # Idle
  BY IdleFacts DEF Stages
<1>2. running[q] \in Runs
  BY DEF IInv, Typed
<1> QED
  BY <1>1, <1>2 DEF IInv, Placed, Runs

(* The follow-up of a job is a job; syncs and enrichments are followed by    *)
(* scoring.                                                                 *)
LEMMA FollowUpFacts ==
  ASSUME PipelineAssumption, NEW j \in Jobs
  PROVE  /\ FollowUp(j.name) \in Jobs
         /\ QueueOf(j.name) # "scoring" => QueueOf(FollowUp(j.name).name) = "scoring"
BY DEF PipelineAssumption, FollowUp, Job, Jobs, JobNames, SyncJobs, EnrichmentJobs, QueueOf

LEMMA InitInv == PipelineAssumption /\ Init => IInv
<1> SUFFICES ASSUME PipelineAssumption, Init PROVE IInv
  OBVIOUS
<1>1. Typed
  <2>1. waiting \in [Queues -> JobBags] /\ running \in [Queues -> Runs]
    BY EmptyBagFacts, IdleFacts DEF Init
  <2>2. triggered \subseteq Triggers /\ failures \in 0..MaxFailures
    BY DEF Init, PipelineAssumption
  <2> QED
    BY <2>1, <2>2, Zenon DEF Init, Typed
<1>2. Placed
  BY EmptyBagFacts DEF Init, Placed
<1>3. "scoring" \in Queues
  BY DEF Queues
<1> QED
  BY <1>1, <1>2, <1>3, IdleFacts DEF Init, IInv, OvertakenIsStale, NoLostLink

----------------------------------------------------------------------------
(* A job put into its queue: the queues stay typed and placed, none that was  *)
(* filled is emptied, and if the job is for scoring, scoring is ahead.        *)
LEMMA PutKeeps ==
  ASSUME IInv, NEW j \in Jobs, waiting' = Put(waiting, j)
  PROVE  /\ waiting' \in [Queues -> JobBags]
         /\ \A q \in Queues : \A i \in DOMAIN waiting'[q] : QueueOf(i.name) = q
         /\ \A q \in Queues : waiting[q] # EmptyBag => waiting'[q] # EmptyBag
         /\ QueueOf(j.name) \in Queues
         /\ waiting'[QueueOf(j.name)] # EmptyBag
<1>1. waiting \in [Queues -> JobBags]
  BY DEF IInv, Typed
<1>2. /\ waiting' \in [Queues -> JobBags]
      /\ \A q \in Queues : waiting[q] # EmptyBag => waiting'[q] # EmptyBag
      /\ QueueOf(j.name) \in Queues
      /\ waiting'[QueueOf(j.name)] # EmptyBag
      /\ \A q \in Queues : \A i \in DOMAIN waiting'[q] :
           i \in DOMAIN waiting[q] \/ (i = j /\ q = QueueOf(j.name))
  BY <1>1, PutFacts
<1> QED
  BY <1>2 DEF IInv, Placed

LEMMA TriggerKeeps ==
  ASSUME PipelineAssumption, IInv, NEW t \in Triggers, Trigger(t)
  PROVE  IInv'
<1> DEFINE j == Job(t.name, t.left, TRUE)
<1>1. j \in Jobs /\ waiting' = Put(waiting, j)
  BY DEF PipelineAssumption, Trigger, Job, Jobs, JobNames
<1>2. /\ waiting' \in [Queues -> JobBags]
      /\ \A q \in Queues : \A i \in DOMAIN waiting'[q] : QueueOf(i.name) = q
      /\ \A q \in Queues : waiting[q] # EmptyBag => waiting'[q] # EmptyBag
  BY <1>1, PutKeeps
<1>3. Typed'
  BY <1>2 DEF IInv, Typed, Trigger
<1>4. Placed'
  BY <1>2 DEF IInv, Placed, Trigger
<1>5. OvertakenIsStale' /\ NoLostLink'
  BY <1>2 DEF IInv, OvertakenIsStale, NoLostLink, ScoringAhead, Trigger, Queues
<1> QED
  BY <1>3, <1>4, <1>5 DEF IInv

LEMMA TakeKeeps ==
  ASSUME IInv, NEW q \in Queues, Take(q)
  PROVE  IInv'
<1>1. PICK j \in BagToSet(waiting[q]) :
        /\ waiting' = [waiting EXCEPT ![q] = @ (-) SetToBag({j})]
        /\ running' = [running EXCEPT ![q] = [job |-> j, at |-> "start"]]
  BY DEF Take
<1>2. waiting \in [Queues -> JobBags] /\ running \in [Queues -> Runs]
  BY DEF IInv, Typed
<1> DEFINE rest == waiting[q] (-) SetToBag({j})
<1>3. j \in Jobs /\ rest \in JobBags /\ DOMAIN rest \subseteq DOMAIN waiting[q]
  BY <1>2, TakeFromBag
<1>4. j \in DOMAIN waiting[q]
  BY DEF BagToSet
<1>5. /\ waiting' \in [Queues -> JobBags]
      /\ waiting'[q] = rest
      /\ \A r \in Queues \ {q} : waiting'[r] = waiting[r]
  BY <1>1, <1>2, <1>3
<1>6. /\ running' \in [Queues -> Runs]
      /\ running'[q] = [job |-> j, at |-> "start"]
      /\ \A r \in Queues \ {q} : running'[r] = running[r]
  BY <1>1, <1>2, <1>3 DEF Runs, Stages
<1> HIDE DEF rest
<1>7. running'[q].at = "start" /\ running'[q].job = j
  BY <1>6
<1>8. Typed'
  BY <1>5, <1>6 DEF IInv, Typed, Take
<1>9. Placed'
  BY <1>3, <1>4, <1>5, <1>6, <1>7 DEF IInv, Placed
<1>10. OvertakenIsStale' /\ NoLostLink'
  BY <1>5, <1>6, <1>7
     DEF IInv, OvertakenIsStale, NoLostLink, ScoringAhead, Take, Queues
<1> QED
  BY <1>8, <1>9, <1>10 DEF IInv

(* What a worker is at changes; queues, scores and the other workers do not. *)
LEMMA StageFacts ==
  ASSUME IInv, NEW q \in Queues, running[q].at \in Stages, NEW stage \in Stages,
         running' = [running EXCEPT ![q].at = stage]
  PROVE  /\ running' \in [Queues -> Runs]
         /\ running'[q].at = stage /\ running'[q].job = running[q].job
         /\ \A r \in Queues \ {q} : running'[r] = running[r]
         /\ \A r \in Queues : running'[r] # Idle => QueueOf(running'[r].job.name) = r
<1>1. running[q] \in [job : Jobs, at : Stages] /\ QueueOf(running[q].job.name) = q
  BY Busy
<1>2. running \in [Queues -> Runs]
  BY DEF IInv, Typed
<1>3. running'[q] = [running[q] EXCEPT !.at = stage]
  BY <1>2
<1>4. /\ running'[q] \in [job : Jobs, at : Stages]
      /\ running'[q].at = stage /\ running'[q].job = running[q].job
  BY <1>1, <1>3
<1>5. running' \in [Queues -> Runs] /\ \A r \in Queues \ {q} : running'[r] = running[r]
  BY <1>2, <1>4 DEF Runs
<1> QED
  BY <1>1, <1>4, <1>5 DEF IInv, Placed

LEMMA CommitKeeps ==
  ASSUME IInv, NEW q \in Queues, Commit(q)
  PROVE  IInv'
<1>1. running[q].at = "start" /\ running[q].job.name \in SyncJobs \cup EnrichmentJobs
  BY DEF Commit, At
<1>2. QueueOf(running[q].job.name) = q
  BY <1>1, Busy DEF Stages
<1>3. q # "scoring"
  BY <1>1, <1>2 DEF QueueOf
<1>4. /\ running' \in [Queues -> Runs]
      /\ running'[q].at = "chain"
      /\ \A r \in Queues \ {q} : running'[r] = running[r]
      /\ \A r \in Queues : running'[r] # Idle => QueueOf(running'[r].job.name) = r
  BY <1>1, StageFacts DEF Commit, Stages
<1>5. Typed'
  BY <1>4 DEF IInv, Typed, Commit
<1>6. Placed'
  BY <1>4 DEF IInv, Placed, Commit
<1>7. OvertakenIsStale'
  BY DEF Commit, OvertakenIsStale
<1>8. ScoringAhead'
  BY <1>3, <1>4 DEF ScoringAhead, Queues
<1> QED
  BY <1>5, <1>6, <1>7, <1>8 DEF IInv, NoLostLink

LEMMA ReadKeeps ==
  ASSUME IInv, ReadForScoring
  PROVE  IInv'
<1>1. "scoring" \in Queues /\ running["scoring"].at = "start"
  BY DEF Queues, ReadForScoring, At
<1>2. /\ running' \in [Queues -> Runs]
      /\ running'["scoring"].at = "write"
      /\ \A r \in Queues : running'[r] # Idle => QueueOf(running'[r].job.name) = r
  BY <1>1, StageFacts DEF ReadForScoring, Stages
<1>3. Typed'
  BY <1>2 DEF IInv, Typed, ReadForScoring
<1>4. Placed'
  BY <1>2 DEF IInv, Placed, ReadForScoring
<1>5. OvertakenIsStale' /\ ScoringAhead'
  BY <1>2 DEF OvertakenIsStale, ScoringAhead, ReadForScoring
<1> QED
  BY <1>3, <1>4, <1>5 DEF IInv, NoLostLink

(* What changed since the scoring read was stale before: somebody else is     *)
(* ahead, or a job was given up.                                              *)
LEMMA WriteKeeps ==
  ASSUME IInv, WriteScores
  PROVE  IInv'
<1> DEFINE stage == IF running["scoring"].job.chain THEN "chain" ELSE "done"
<1>1. "scoring" \in Queues /\ running["scoring"].at = "write" /\ stage \in Stages
  BY DEF Queues, WriteScores, At, Stages
<1>2. /\ running' \in [Queues -> Runs]
      /\ running'["scoring"].at = stage
      /\ \A r \in Queues \ {"scoring"} : running'[r] = running[r]
      /\ \A r \in Queues : running'[r] # Idle => QueueOf(running'[r].job.name) = r
  BY <1>1, StageFacts DEF WriteScores, Stages
<1>3. Typed'
  <2>1. overtaken \in BOOLEAN /\ gaveUp \in BOOLEAN /\ stale' = overtaken
        /\ gaveUp' = (gaveUp /\ overtaken)
    BY DEF IInv, Typed, WriteScores
  <2>2. stale' \in BOOLEAN /\ gaveUp' \in BOOLEAN
    BY <2>1, Zenon
  <2> QED
    BY <1>2, <2>2 DEF IInv, Typed, WriteScores
<1>4. Placed'
  BY <1>2 DEF IInv, Placed, WriteScores
<1>5. OvertakenIsStale'
  BY DEF OvertakenIsStale, WriteScores
<1>6. ASSUME overtaken PROVE gaveUp' \/ ScoringAhead'
  <2>1. gaveUp \/ ScoringAhead
    BY <1>1, <1>6 DEF IInv, OvertakenIsStale, NoLostLink
  <2> QED
    BY <1>1, <1>2, <1>6, <2>1 DEF ScoringAhead, WriteScores, Queues
<1> QED
  BY <1>3, <1>4, <1>5, <1>6 DEF IInv, NoLostLink, WriteScores

(* A sync or an enrichment passes on to a scoring that waits; scoring itself   *)
(* passes nothing on that anybody relied on.                                  *)
LEMMA ChainKeeps ==
  ASSUME PipelineAssumption, IInv, NEW q \in Queues, Chain(q)
  PROVE  IInv'
<1>1. running[q].at = "chain" /\ running[q].at \in Stages
  BY DEF Chain, Stages
<1>2. running[q].job \in Jobs /\ QueueOf(running[q].job.name) = q
  BY <1>1, Busy
<1> DEFINE j == FollowUp(running[q].job.name)
<1>3. j \in Jobs /\ (q # "scoring" => QueueOf(j.name) = "scoring")
  BY <1>2, FollowUpFacts
<1>4. waiting' = Put(waiting, j)
  BY DEF Chain
<1> HIDE DEF j
<1>5. /\ waiting' \in [Queues -> JobBags]
      /\ \A r \in Queues : \A i \in DOMAIN waiting'[r] : QueueOf(i.name) = r
      /\ \A r \in Queues : waiting[r] # EmptyBag => waiting'[r] # EmptyBag
      /\ waiting'[QueueOf(j.name)] # EmptyBag
  BY <1>3, <1>4, PutKeeps
<1>6. /\ running' \in [Queues -> Runs]
      /\ running'[q].at = "done"
      /\ \A r \in Queues \ {q} : running'[r] = running[r]
      /\ \A r \in Queues : running'[r] # Idle => QueueOf(running'[r].job.name) = r
  BY <1>1, StageFacts DEF Chain, Stages
<1>7. Typed'
  BY <1>5, <1>6 DEF IInv, Typed, Chain
<1>8. Placed'
  BY <1>5, <1>6 DEF IInv, Placed, Chain
<1>9. OvertakenIsStale'
  BY <1>6 DEF IInv, OvertakenIsStale, Chain, Queues
<1>10. ScoringAhead => ScoringAhead'
  BY <1>1, <1>3, <1>5, <1>6 DEF ScoringAhead, Queues
<1> QED
  BY <1>7, <1>8, <1>9, <1>10 DEF IInv, NoLostLink, Chain

LEMMA CompleteKeeps ==
  ASSUME IInv, NEW q \in Queues, Complete(q)
  PROVE  IInv'
<1>1. running \in [Queues -> Runs] /\ running[q].at = "done"
  BY DEF IInv, Typed, Complete
<1>2. /\ running' \in [Queues -> Runs] /\ running'[q] = Idle
      /\ \A r \in Queues \ {q} : running'[r] = running[r]
  BY <1>1, IdleFacts DEF Complete
<1>3. Typed'
  BY <1>2 DEF IInv, Typed, Complete
<1>4. Placed'
  BY <1>2 DEF IInv, Placed, Complete
<1>5. OvertakenIsStale' /\ NoLostLink'
  BY <1>1, <1>2, IdleFacts
     DEF IInv, OvertakenIsStale, NoLostLink, ScoringAhead, Complete, Queues
<1> QED
  BY <1>3, <1>4, <1>5 DEF IInv

----------------------------------------------------------------------------
(* Failures                                                                *)

LEMMA RetryFacts ==
  ASSUME NEW j \in Jobs, Retryable(j)
  PROVE  /\ [j EXCEPT !.left = @ - 1] \in Jobs
         /\ [j EXCEPT !.left = @ - 1].name = j.name
BY DEF Retryable, Jobs

(* A job that throws waits again for the scoring it is or will add, or it is  *)
(* given up.                                                                *)
LEMMA ThrowKeeps ==
  ASSUME PipelineAssumption, IInv, NEW q \in Queues, Throw(q)
  PROVE  IInv'
<1> DEFINE j == running[q].job
           again == [j EXCEPT !.left = @ - 1]
<1>1. running[q].at \in Stages
  BY DEF Throw, Stages
<1>2. j \in Jobs /\ QueueOf(j.name) = q
  BY <1>1, Busy
<1>3. /\ running' = [running EXCEPT ![q] = Idle]
      /\ triggered' = triggered /\ failures < MaxFailures /\ failures' = failures + 1
  BY DEF Throw
<1>4. \/ stale' = stale /\ overtaken' = overtaken
      \/ stale' = TRUE /\ overtaken' = TRUE
  BY DEF Throw
<1>5. \/ Retryable(j) /\ waiting' = Put(waiting, again) /\ gaveUp' = gaveUp
      \/ ~Retryable(j) /\ gaveUp' = (gaveUp \/ stale') /\ waiting' = waiting
  BY DEF Throw
<1>6. /\ running' \in [Queues -> Runs] /\ running'[q] = Idle
      /\ \A r \in Queues \ {q} : running'[r] = running[r]
  BY <1>3, IdleFacts DEF IInv, Typed
<1>7. /\ waiting' \in [Queues -> JobBags]
      /\ \A r \in Queues : \A i \in DOMAIN waiting'[r] : QueueOf(i.name) = r
      /\ \A r \in Queues : waiting[r] # EmptyBag => waiting'[r] # EmptyBag
      /\ Retryable(j) => waiting'[q] # EmptyBag
  <2>1. CASE Retryable(j)
    <3>1. again \in Jobs /\ again.name = j.name
      BY <1>2, <2>1, RetryFacts
    <3>2. waiting' = Put(waiting, again)
      BY <1>5, <2>1
    <3> HIDE DEF again, j
    <3> QED
      BY <1>2, <3>1, <3>2, PutKeeps
  <2>2. CASE ~Retryable(j)
    BY <1>5, <2>2 DEF IInv, Typed, Placed
  <2> QED
    BY <2>1, <2>2
<1> HIDE DEF j, again
<1>8. stale' \in BOOLEAN /\ overtaken' \in BOOLEAN /\ gaveUp' \in BOOLEAN
  <2>1. stale \in BOOLEAN /\ overtaken \in BOOLEAN /\ gaveUp \in BOOLEAN
    BY DEF IInv, Typed
  <2>2. stale' \in BOOLEAN /\ overtaken' \in BOOLEAN
    BY <1>4, <2>1, Zenon
  <2> QED
    BY <1>5, <2>1, <2>2, Zenon
<1>9. failures' \in 0..MaxFailures
  BY <1>3 DEF IInv, Typed, PipelineAssumption
<1>10. Typed'
  BY <1>3, <1>6, <1>7, <1>8, <1>9 DEF IInv, Typed
<1>11. Placed'
  BY <1>6, <1>7 DEF IInv, Placed
<1>12. OvertakenIsStale'
  BY <1>4, <1>6, IdleFacts DEF IInv, OvertakenIsStale, Queues
<1>13. NoLostLink'
  <2> SUFFICES ASSUME stale', ~gaveUp' PROVE ScoringAhead'
    BY DEF NoLostLink
  <2>1. Retryable(j)
    BY <1>5, Zenon
  <2>2. waiting'[q] # EmptyBag
    BY <1>7, <2>1
  <2>3. CASE q # "scoring"
    BY <2>2, <2>3 DEF ScoringAhead, Queues
  <2>4. CASE q = "scoring"
    BY <2>2, <2>3 DEF ScoringAhead
  <2> QED
    BY <2>3, <2>4
<1> QED
  BY <1>10, <1>11, <1>12, <1>13 DEF IInv

PlacedIn(w) == \A q \in Queues : \A j \in DOMAIN w[q] : QueueOf(j.name) = q

(* A stalled job goes back to its queue while it may.                       *)
LEMMA RequeueFacts ==
  ASSUME PipelineAssumption, IInv, NEW q \in Queues,
         NEW w \in [Queues -> JobBags], PlacedIn(w)
  PROVE  /\ Requeue(w, q) \in [Queues -> JobBags] /\ PlacedIn(Requeue(w, q))
         /\ \A r \in Queues : w[r] # EmptyBag => Requeue(w, q)[r] # EmptyBag
         /\ running[q] # Idle /\ running[q].job.stalled < MaxStalled
              => Requeue(w, q)[q] # EmptyBag
<1>1. CASE running[q] # Idle /\ running[q].job.stalled < MaxStalled
  <2> DEFINE j == [running[q].job EXCEPT !.stalled = @ + 1]
  <2>1. running[q].at \in Stages
    BY <1>1 DEF IInv, Typed, Runs
  <2>2. running[q].job \in Jobs /\ QueueOf(running[q].job.name) = q
    BY <2>1, Busy
  <2>3. j \in Jobs /\ j.name = running[q].job.name
    BY <1>1, <2>2 DEF Jobs, PipelineAssumption
  <2>4. Requeue(w, q) = Put(w, j)
    BY <1>1 DEF Requeue
  <2> HIDE DEF j
  <2>5. /\ Put(w, j) \in [Queues -> JobBags]
        /\ \A r \in Queues : w[r] # EmptyBag => Put(w, j)[r] # EmptyBag
        /\ Put(w, j)[QueueOf(j.name)] # EmptyBag
        /\ \A r \in Queues : \A i \in DOMAIN Put(w, j)[r] :
             i \in DOMAIN w[r] \/ (i = j /\ r = QueueOf(j.name))
    BY <2>3, PutFacts
  <2> QED
    BY <2>2, <2>3, <2>4, <2>5 DEF PlacedIn
<1>2. CASE ~ (running[q] # Idle /\ running[q].job.stalled < MaxStalled)
  BY <1>2 DEF Requeue
<1> QED
  BY <1>1, <1>2

(* Each job at work goes back to its queue or is given up.                  *)
LEMMA CrashKeeps ==
  ASSUME PipelineAssumption, IInv, Crash
  PROVE  IInv'
<1> DEFINE a == Requeue(waiting, "ingestion")
           b == Requeue(a, "scoring")
<1>1. "ingestion" \in Queues /\ "scoring" \in Queues /\ "enrichment" \in Queues
  BY DEF Queues
<1>2. waiting \in [Queues -> JobBags] /\ PlacedIn(waiting)
  BY DEF IInv, Typed, Placed, PlacedIn
<1>3. /\ a \in [Queues -> JobBags] /\ PlacedIn(a)
      /\ \A r \in Queues : waiting[r] # EmptyBag => a[r] # EmptyBag
      /\ running["ingestion"] # Idle /\ running["ingestion"].job.stalled < MaxStalled
           => a["ingestion"] # EmptyBag
  BY <1>1, <1>2, RequeueFacts
<1> HIDE DEF a
<1>4. /\ b \in [Queues -> JobBags] /\ PlacedIn(b)
      /\ \A r \in Queues : a[r] # EmptyBag => b[r] # EmptyBag
      /\ running["scoring"] # Idle /\ running["scoring"].job.stalled < MaxStalled
           => b["scoring"] # EmptyBag
  BY <1>1, <1>3, RequeueFacts
<1> HIDE DEF b
<1>5. waiting' = Requeue(b, "enrichment")
  BY DEF Crash, a, b
<1>6. /\ waiting' \in [Queues -> JobBags] /\ PlacedIn(waiting')
      /\ \A r \in Queues : b[r] # EmptyBag => waiting'[r] # EmptyBag
      /\ running["enrichment"] # Idle /\ running["enrichment"].job.stalled < MaxStalled
           => waiting'["enrichment"] # EmptyBag
  BY <1>1, <1>4, <1>5, RequeueFacts
<1>7. \A r \in Queues :
        /\ waiting[r] # EmptyBag => waiting'[r] # EmptyBag
        /\ running[r] # Idle /\ running[r].job.stalled < MaxStalled
             => waiting'[r] # EmptyBag
  BY <1>3, <1>4, <1>6 DEF Queues
<1>8. running' = [q \in Queues |-> Idle]
  BY DEF Crash
<1>9. \/ stale' = stale /\ overtaken' = overtaken
      \/ /\ \E q \in {"ingestion", "enrichment"} : running[q].at = "start"
         /\ stale' = TRUE /\ overtaken' = TRUE
  BY DEF Crash
<1>10. gaveUp' = \/ gaveUp
                 \/ /\ stale'
                    /\ \E q \in Queues :
                         running[q] # Idle /\ running[q].job.stalled >= MaxStalled
  BY DEF Crash
<1>11. Typed'
  <2>1. stale \in BOOLEAN /\ overtaken \in BOOLEAN /\ gaveUp \in BOOLEAN
    BY DEF IInv, Typed
  <2>2. stale' \in BOOLEAN /\ overtaken' \in BOOLEAN
    BY <1>9, <2>1, Zenon
  <2>3. gaveUp' \in BOOLEAN
    BY <1>10, <2>1, <2>2, Zenon
  <2>4. failures' \in 0..MaxFailures /\ triggered' \subseteq Triggers
    BY DEF IInv, Typed, Crash
  <2>5. running' \in [Queues -> Runs]
    BY <1>8, IdleFacts
  <2> QED
    BY <1>6, <2>2, <2>3, <2>4, <2>5 DEF Typed
<1>12. Placed'
  BY <1>6, <1>8 DEF Placed, PlacedIn
<1>13. OvertakenIsStale'
  BY <1>1, <1>8, IdleFacts DEF OvertakenIsStale
<1>14. NoLostLink'
  <2> SUFFICES ASSUME stale', ~gaveUp' PROVE ScoringAhead'
    BY DEF NoLostLink
  <2>1. ~gaveUp /\ \A q \in Queues :
          ~ (running[q] # Idle /\ running[q].job.stalled >= MaxStalled)
    BY <1>10
  <2>2. \A q \in Queues : running[q].at \in Stages => waiting'[q] # EmptyBag
    <3> TAKE q \in Queues
    <3>1. HAVE running[q].at \in Stages
    <3>2. running[q] # Idle /\ running[q].job \in Jobs
      BY <3>1, Busy
    <3>3. running[q].job.stalled < MaxStalled
      BY <2>1, <3>2 DEF Jobs, PipelineAssumption
    <3> QED
      BY <1>7, <3>2, <3>3
  <2>3. CASE \E q \in {"ingestion", "enrichment"} : running[q].at = "start"
    BY <1>1, <2>2, <2>3 DEF ScoringAhead, Stages
  <2>4. CASE stale' = stale
    <3>1. ScoringAhead
      BY <2>1, <2>4 DEF IInv, NoLostLink
    <3> QED
      BY <1>1, <1>7, <2>2, <3>1 DEF ScoringAhead, Stages
  <2> QED
    BY <1>9, <2>3, <2>4
<1> QED
  BY <1>11, <1>12, <1>13, <1>14 DEF IInv

----------------------------------------------------------------------------
LEMMA NextInv == PipelineAssumption /\ IInv /\ [Next]_vars => IInv'
<1> SUFFICES ASSUME PipelineAssumption, IInv, [Next]_vars PROVE IInv'
  OBVIOUS
<1>1. ASSUME NEW t \in Triggers, Trigger(t) PROVE IInv'
  BY <1>1, TriggerKeeps
<1>2. ASSUME NEW q \in Queues, Take(q) PROVE IInv'
  BY <1>2, TakeKeeps
<1>3. ASSUME NEW q \in Queues, Work(q) PROVE IInv'
  BY <1>3, CommitKeeps, ChainKeeps, CompleteKeeps, ThrowKeeps DEF Work
<1>4. CASE ReadForScoring
  BY <1>4, ReadKeeps
<1>5. CASE WriteScores
  BY <1>5, WriteKeeps
<1>6. CASE Crash
  BY <1>6, CrashKeeps
<1>7. CASE UNCHANGED vars
  BY <1>7 DEF vars, IInv, Typed, Placed, OvertakenIsStale, NoLostLink, ScoringAhead
<1> QED
  BY <1>1, <1>2, <1>3, <1>4, <1>5, <1>6, <1>7 DEF Next, Quiet

LEMMA TypedAndPlaced == IInv => TypeOK
<1> SUFFICES ASSUME IInv PROVE TypeOK
  OBVIOUS
<1>1. ASSUME NEW b \in JobBags PROVE IsABag(b) /\ BagToSet(b) = DOMAIN b /\ DOMAIN b \subseteq Jobs
  BY DEF JobBags, IsABag, BagToSet
<1>2. \A q \in Queues : waiting[q] \in JobBags
  BY DEF IInv, Typed
<1>3. \A q \in Queues :
        /\ IsABag(waiting[q]) /\ BagToSet(waiting[q]) \subseteq Jobs
        /\ \A j \in BagToSet(waiting[q]) : QueueOf(j.name) = q
  BY <1>1, <1>2 DEF IInv, Placed
<1>4. ASSUME NEW q \in Queues, running[q] # Idle
      PROVE  /\ running[q].job \in Jobs /\ QueueOf(running[q].job.name) = q
             /\ running[q].at \in Stages
  BY <1>4 DEF IInv, Typed, Placed, Runs
<1> QED
  BY <1>3, <1>4 DEF IInv, Typed, TypeOK

LEMMA Invariant == Spec => []IInv
BY InitInv, NextInv, PipelineAssumption, PTL DEF Spec

(* Jobs wait for and are worked by the worker of their kind, with attempts     *)
(* left (queues.ts and the processors), for any triggers and failures.        *)
THEOREM TypeCorrect == Spec => []TypeOK
BY Invariant, TypedAndPlaced, PTL

(* However jobs throw and the process dies, stale scores are about to be       *)
(* replaced unless a job ran out of attempts (the follow-up job that each      *)
(* processor adds).                                                         *)
THEOREM LinkNeverLost == Spec => []NoLostLink
<1>1. IInv => NoLostLink
  BY DEF IInv
<1> QED
  BY <1>1, Invariant, PTL
=============================================================================
