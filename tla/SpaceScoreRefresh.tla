------------------------- MODULE SpaceScoreRefresh -------------------------
(***************************************************************************)
(* How companies' space scores follow their industrial signals.  Whoever     *)
(* stores a signal enqueues its company; a timer turns all companies that    *)
(* wait into a batch of recomputes that run side by side, also with those of  *)
(* earlier batches; every night all companies are recomputed one by one.     *)
(*                                                                           *)
(* The waiting companies and the timer are memory of the process.  A score    *)
(* is kept as the set of signals it was computed from.                       *)
(***************************************************************************)
EXTENDS Integers, FiniteSets

CONSTANTS
  Companies,
  Signals,      \* signals by their unique (source, sourceRef)
  MaxStores,    \* bound of the model: signals stored or moved
  MaxBatches,   \* bound of the model: batches not yet through
  MaxFailures   \* bound of the model: failed recomputes and deaths

ASSUME SpaceScoreAssumption ==
  IsFiniteSet(Companies) /\ {MaxStores, MaxBatches, MaxFailures} \subseteq Nat

VARIABLES
  company,   \* company[s]: the company that signal s belongs to, or Nobody
  spaceScore,\* spaceScore[c]: signals behind its score and behind the one before
  stored,    \* companies whose signal is stored but that are not yet enqueued
  pending,   \* companies that wait for the timer
  timer,     \* is the timer set?
  tasks,     \* recomputes: company, batch, statement, what was read
  nightly,   \* companies the nightly run has still to start, and is it running?
  unread,    \* companies that gained a signal no recompute has read yet
  stores,    \* signals stored or moved, bounded by MaxStores
  failures   \* failed recomputes and deaths, bounded by MaxFailures

memory == <<stored, pending, timer, tasks, nightly>>
vars == <<company, spaceScore, memory, unread, stores, failures>>

Nobody == "nobody"
Nightly == 0
SignalsOf(c) == {s \in Signals : company[s] = c}

Recompute(c, batch) == [company |-> c, batch |-> batch, at |-> "signals",
                        signals |-> {}, previous |-> {}]
NightOff == [running |-> FALSE, left |-> {}]

----------------------------------------------------------------------------
Init ==
  /\ company = [s \in Signals |-> Nobody]
  /\ spaceScore = [c \in Companies |-> [score |-> {}, previous |-> {}]]
  /\ stored = {}
  /\ pending = {}
  /\ timer = FALSE
  /\ tasks = {}
  /\ nightly = NightOff
  /\ unread = {}
  /\ stores = 0
  /\ failures = 0

\* industrialSignal.upsert: a new signal, or one that is now resolved to
\* another company, whose former company is not enqueued.
Store(s, c) ==
  /\ stores < MaxStores
  /\ stores' = stores + 1
  /\ company' = [company EXCEPT ![s] = c]
  /\ unread' = unread \cup {c}
  /\ stored' = stored \cup {c}
  /\ UNCHANGED <<spaceScore, pending, timer, tasks, nightly, failures>>

\* Mutant: a company is let wait only if no timer is set.
EnqueueUnlessTimer(c) ==
  /\ c \in stored
  /\ stored' = stored \ {c}
  /\ pending' = IF timer THEN pending ELSE pending \cup {c}
  /\ timer' = TRUE
  /\ UNCHANGED <<company, spaceScore, tasks, nightly, unread, stores, failures>>

Enqueue(c) ==
  /\ c \in stored
  /\ stored' = stored \ {c}
  /\ pending' = pending \cup {c}
  /\ timer' = TRUE
  /\ UNCHANGED <<company, spaceScore, tasks, nightly, unread, stores, failures>>

FreeBatches == {b \in 1..MaxBatches : \A t \in tasks : t.batch # b}

\* The timer fires: all that wait become one batch.
Fire ==
  /\ timer
  /\ \E b \in FreeBatches :
       tasks' = tasks \cup {Recompute(c, b) : c \in pending}
  /\ pending' = {}
  /\ timer' = FALSE
  /\ UNCHANGED <<company, spaceScore, stored, nightly, unread, stores, failures>>

Step(t, next) == tasks' = (tasks \ {t}) \cup {next}

\* recompute: the company's signals are read and scored.
ReadSignals(t) ==
  /\ t.at = "signals"
  /\ Step(t, [t EXCEPT !.at = "existing", !.signals = SignalsOf(t.company)])
  /\ unread' = unread \ {t.company}
  /\ UNCHANGED <<company, spaceScore, stored, pending, timer, nightly, stores, failures>>

\* recompute: the present score is read, to be kept as the previous one.
ReadExisting(t) ==
  /\ t.at = "existing"
  /\ Step(t, [t EXCEPT !.at = "upsert", !.previous = spaceScore[t.company].score])
  /\ UNCHANGED <<company, spaceScore, stored, pending, timer, nightly, unread,
                 stores, failures>>

\* Mutant: a score is only ever added to.
UpsertMerging(t) ==
  /\ t.at = "upsert"
  /\ spaceScore' = [spaceScore EXCEPT ![t.company] =
                      [score |-> @.score \cup t.signals, previous |-> t.previous]]
  /\ tasks' = tasks \ {t}
  /\ UNCHANGED <<company, stored, pending, timer, nightly, unread, stores, failures>>

Upsert(t) ==
  /\ t.at = "upsert"
  /\ spaceScore' = [spaceScore EXCEPT ![t.company] =
                      [score |-> t.signals, previous |-> t.previous]]
  /\ tasks' = tasks \ {t}
  /\ UNCHANGED <<company, stored, pending, timer, nightly, unread, stores, failures>>

\* signals.scoreNightly starts, and recomputes one company after the other.
StartNight ==
  /\ ~ nightly.running
  /\ nightly' = [running |-> TRUE, left |-> Companies]
  /\ UNCHANGED <<company, spaceScore, stored, pending, timer, tasks, unread,
                 stores, failures>>

NightTasks == {t \in tasks : t.batch = Nightly}

NightNext ==
  /\ nightly.running
  /\ NightTasks = {}
  /\ IF nightly.left = {}
     THEN nightly' = NightOff /\ UNCHANGED tasks
     ELSE \E c \in nightly.left :
            /\ nightly' = [nightly EXCEPT !.left = @ \ {c}]
            /\ tasks' = tasks \cup {Recompute(c, Nightly)}
  /\ UNCHANGED <<company, spaceScore, stored, pending, timer, unread, stores, failures>>

\* A statement of a recompute fails: that of a batch is logged and gone, that
\* of the night ends the whole run.
FailTask(t) ==
  /\ failures < MaxFailures
  /\ failures' = failures + 1
  /\ tasks' = tasks \ {t}
  /\ nightly' = IF t.batch = Nightly THEN NightOff ELSE nightly
  /\ UNCHANGED <<company, spaceScore, stored, pending, timer, unread, stores>>

\* The process dies with all it had in memory.
Crash ==
  /\ failures < MaxFailures
  /\ failures' = failures + 1
  /\ stored' = {} /\ pending' = {} /\ timer' = FALSE /\ tasks' = {}
  /\ nightly' = NightOff
  /\ UNCHANGED <<company, spaceScore, unread, stores>>

TaskStep(t) == ReadSignals(t) \/ ReadExisting(t) \/ Upsert(t)

Next ==
  \/ \E s \in Signals, c \in Companies : Store(s, c)
  \/ \E c \in Companies : Enqueue(c)
  \/ Fire
  \/ \E t \in tasks : TaskStep(t) \/ FailTask(t)
  \/ StartNight
  \/ NightNext
  \/ Crash

Spec == Init /\ [][Next]_vars

\* Timers fire, statements return, and the nightly job is run again and again.
Fairness ==
  /\ \A c \in Companies : WF_vars(Enqueue(c))
  /\ WF_vars(Fire)
  /\ WF_vars(\E t \in tasks : TaskStep(t))
  /\ WF_vars(StartNight)
  /\ WF_vars(NightNext)

LiveSpec == Spec /\ Fairness

----------------------------------------------------------------------------
(* Properties                                                              *)

\* Scores are sets of signals, and a recompute is of one of the batches.
TypeOK ==
  /\ company \in [Signals -> Companies \cup {Nobody}]
  /\ spaceScore \in [Companies -> [score : SUBSET Signals, previous : SUBSET Signals]]
  /\ stored \subseteq Companies /\ pending \subseteq Companies /\ unread \subseteq Companies
  /\ timer \in BOOLEAN
  /\ tasks \subseteq [company : Companies, batch : Nightly..MaxBatches,
                      at : {"signals", "existing", "upsert"},
                      signals : SUBSET Signals, previous : SUBSET Signals]
  /\ nightly \in [running : BOOLEAN, left : SUBSET Companies]
  /\ stores \in 0..MaxStores /\ failures \in 0..MaxFailures

\* "Debounced recompute - coalesces bursts" (SpaceScoreService.enqueue): no
\* burst is coalesced away.  While nothing fails, a company with a signal that
\* no recompute has read is on its way to be enqueued, waits for a timer that
\* is set, or has a recompute that is yet to read.
NoGainForgotten ==
  failures = 0 =>
    \A c \in unread :
      \/ c \in stored
      \/ c \in pending /\ timer
      \/ \E t \in tasks : t.company = c /\ t.at = "signals"

\* Whatever was lost with the process, overtaken by an older batch, or moved
\* to another company unnoticed, once no more signals come the scores become
\* those of the signals and stay so: the nightly run sees to it.
ScoresConverge == <>[](\A c \in Companies : spaceScore[c].score = SignalsOf(c))
=============================================================================
