------------------------------ MODULE DeskTasks ------------------------------
(***************************************************************************)
(* What the requests of the agent's desk and the jobs beside them have in    *)
(* common: they come in at slots of the one process, a bounded number of      *)
(* them, and go through their statements one await at a time, so that those   *)
(* of several slots interleave.  Most requests end with an award, which is    *)
(* ProgressAwards' business: here it only ends the request, or throws.        *)
(***************************************************************************)
EXTENDS Integers, FiniteSets, Sequences

CONSTANTS
  Slots,        \* requests and jobs served side by side
  MaxCalls,     \* bound of the model: requests and jobs begun
  MaxFailures   \* bound of the model: statements and calls that fail

ASSUME DeskAssumption == IsFiniteSet(Slots) /\ MaxCalls \in Nat /\ MaxFailures \in Nat

VARIABLES
  task,      \* task[s]: the request or job in slot s and the statement it is at
  calls,     \* requests and jobs begun, bounded by MaxCalls
  failures   \* failures so far, bounded by MaxFailures

deskVars == <<task, calls, failures>>

Idle == [at |-> "idle"]
Awarding == [at |-> "award"]

DeskInit ==
  /\ task = [s \in Slots |-> Idle]
  /\ calls = 0
  /\ failures = 0

\* The task of slot s goes on as t.
Become(s, t) == task' = [task EXCEPT ![s] = t]
Ends(s) == Become(s, Idle)

\* A request or job comes in at a free slot.
Arrives(s) ==
  /\ task[s] = Idle
  /\ calls < MaxCalls
  /\ calls' = calls + 1

\* A statement or call fails.
Fails == failures < MaxFailures /\ failures' = failures + 1

\* progress.award returns, or throws: either way the change it rewards is made.
\* (An award that throws makes updateStatus and markMet of an event answer that
\* there is no such event.)
Award(s) == task[s] = Awarding /\ Ends(s) /\ UNCHANGED <<calls, failures>>
=============================================================================
