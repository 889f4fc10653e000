------------------------------ MODULE LeadDesk ------------------------------
(***************************************************************************)
(* The pipeline of leads: a parcel becomes a lead by the agent's hand, by a  *)
(* digest or by enrichment; the agent moves it on, logs outcomes, puts it    *)
(* off, rates it; and a push copies contacted leads and deals to a CRM.      *)
(* Notes and drive-by captures are filed beside them.                        *)
(*                                                                           *)
(* Statements of requests side by side interleave.  The CRM is external: it  *)
(* may take a lead and still answer with an error, or take it when nobody    *)
(* hears the answer.                                                         *)
(***************************************************************************)
EXTENDS DeskTasks

CONSTANTS
  Leads,      \* ids a Lead row may get
  Parcels,    \* parcels of the county
  Batch,      \* leads read by one push (100)
  Worked,     \* leads that may be contacted before the model begins
  Used        \* statuses the agent sets: all, or some of them in a small instance

VARIABLES
  lead,       \* Lead rows, by id
  pushed,     \* CrmSync rows: pushed[l] are the statuses recorded for lead l
  webhook,    \* is CRM_WEBHOOK_URL set?
  taken,      \* history: how often the CRM has taken a lead
  unheard,    \* history: how often it did and no success was recorded
  overlap     \* history: have two pushes overlapped?

leadVars == <<lead, pushed, webhook, taken, unheard, overlap>>
crmVars == <<pushed, webhook, taken, unheard, overlap>>

Statuses == {"new", "sent", "contacted", "dead", "deal", "invited", "attended_event"}
ASSUME LeadAssumption ==
  IsFiniteSet(Leads) /\ Batch \in Nat \ {0} /\ Used \subseteq Statuses /\ Worked \subseteq Leads

Outcomes == {"connected", "voicemail", "wrong_number", "not_seller", "callback"}
AwardedStatuses == {"deal", "sent", "attended_event"}

OutcomeStatus(o) == IF o \in {"wrong_number", "not_seller"} THEN "dead" ELSE "contacted"

NoLead == [parcel |-> "none", kind |-> "none", status |-> "none", later |-> FALSE]
Rows == {l \in Leads : lead[l] # NoLead}

LeadInit ==
  \* some leads may be in the table and contacted already
  /\ \E old \in SUBSET Worked : \E home \in [old -> Parcels] : lead = [l \in Leads |->
       IF l \in old THEN [parcel |-> home[l], kind |-> "seller", status |-> "contacted", later |-> FALSE]
       ELSE NoLead]
  /\ pushed = [l \in Leads |-> {}]
  /\ webhook = TRUE
  /\ taken = [l \in Leads |-> 0]
  /\ unheard = [l \in Leads |-> 0]
  /\ overlap = FALSE

----------------------------------------------------------------------------
\* Leads as requests see them.

\* A seller lead of the parcel that is not dead.
OpenLeads(p) == {l \in Rows : lead[l].parcel = p /\ lead[l].kind = "seller" /\ lead[l].status # "dead"}

\* list: everything that is not put off.
Listed == {l \in Rows : ~lead[l].later}

\* A row for the parcel at an id not yet in use.
Insert(l, p, kind, status) ==
  /\ l \notin Rows
  /\ lead' = [lead EXCEPT ![l] = [parcel |-> p, kind |-> kind, status |-> status, later |-> FALSE]]

\* LeadsService.create: look for an open lead, ...
CreateLook(s, p) ==
  /\ Arrives(s)
  /\ Become(s, IF OpenLeads(p) # {} THEN Idle ELSE [at |-> "create", parcel |-> p])
  /\ UNCHANGED <<failures, leadVars>>

\* ... and file one if there was none.
CreateInsert(s) ==
  /\ task[s].at = "create"
  /\ \E l \in Leads : Insert(l, task[s].parcel, "seller", "new")
  /\ Ends(s)
  /\ UNCHANGED <<calls, failures, crmVars>>

\* A digest files its leads as sent, whatever leads the parcel has.
DigestFiles(s, p) ==
  /\ Arrives(s)
  /\ \E l \in Leads : Insert(l, p, "seller", "sent")
  /\ Ends(s)
  /\ UNCHANGED <<failures, crmVars>>

\* updateStatus: any status from any other; three of them are awarded.
SetStatus(s, l, st) ==
  /\ Arrives(s)
  /\ l \in Rows
  /\ lead' = [lead EXCEPT ![l].status = st]
  /\ Become(s, IF st \in AwardedStatuses THEN Awarding ELSE Idle)
  /\ UNCHANGED <<failures, crmVars>>

\* logOutcome: the outcome decides the status, and is awarded.
LogOutcome(s, l, o) ==
  /\ Arrives(s)
  /\ l \in Rows
  /\ lead' = [lead EXCEPT ![l].status = OutcomeStatus(o)]
  /\ Become(s, Awarding)
  /\ UNCHANGED <<failures, crmVars>>

\* snooze, and the day it ends.
Snooze(s, l) ==
  /\ Arrives(s)
  /\ l \in Listed
  /\ lead' = [lead EXCEPT ![l].later = TRUE]
  /\ Ends(s)
  /\ UNCHANGED <<failures, crmVars>>

SnoozeEnds(l) ==
  /\ l \in Rows \ Listed
  /\ lead' = [lead EXCEPT ![l].later = FALSE]
  /\ UNCHANGED <<deskVars, crmVars>>

\* NotesService.create and DrivebyService.create: a row of its own, then the
\* award, which the row's new id makes a new one each time.
FileNote(s) ==
  /\ Arrives(s)
  /\ Become(s, Awarding)
  /\ UNCHANGED <<failures, leadVars>>

----------------------------------------------------------------------------
\* CrmSyncService.syncEligible.

Eligible == {l \in Rows : lead[l].status \in {"contacted", "deal"}}
Pushing == {s \in Slots : task[s].at \in {"push", "answer"}}

Succeeded == {l \in Eligible : "success" \in pushed[l]}

\* As many of the eligible leads as one push reads: any, for the query has no order
\* and does not leave out those already pushed.
Batches ==
  {todo \in SUBSET Eligible :
     Cardinality(todo) = IF Cardinality(Eligible) < Batch THEN Cardinality(Eligible) ELSE Batch}

\* A batch is read, with the knowledge which of its leads were pushed.  What the push
\* has to answer for: "owed", all of the batch; "waits", the leads without success,
\* if those with one are too few to fill the batch.
PushReads(s) ==
  /\ Arrives(s)
  /\ \E todo \in Batches :
       Become(s, [at |-> "push", todo |-> todo, known |-> todo \cap Succeeded, owed |-> todo,
                  waits |-> IF Cardinality(Succeeded) < Batch THEN Eligible \ Succeeded ELSE {}])
  /\ overlap' = (overlap \/ Pushing # {})
  /\ UNCHANGED <<failures, lead, pushed, webhook, taken, unheard>>

\* Mutant: the lead's earlier success is not looked at.
ToPushAll(s) == task[s].todo

\* The leads of the batch still to be pushed; the others are skipped.
ToPush(s) == task[s].todo \ task[s].known

Rest(s, l) == [task[s] EXCEPT !.at = "push", !.todo = @ \ {l}]

Record(l, status) == pushed' = [pushed EXCEPT ![l] = @ \cup {status}]

\* Without a webhook the push is only written down.
DryRun(s) ==
  /\ task[s].at = "push" /\ ~webhook
  /\ \E l \in ToPush(s) : Record(l, "dry_run") /\ Become(s, Rest(s, l))
  /\ UNCHANGED <<calls, failures, lead, webhook, taken, unheard, overlap>>

\* The CRM gets the lead and takes it or not.
Post(s) ==
  /\ task[s].at = "push" /\ webhook
  /\ \E l \in ToPush(s), takes \in BOOLEAN :
       /\ taken' = IF takes THEN [taken EXCEPT ![l] = @ + 1] ELSE taken
       /\ Become(s, [at |-> "answer", todo |-> task[s].todo, known |-> task[s].known,
                     owed |-> task[s].owed, waits |-> task[s].waits, lead |-> l, took |-> takes])
  /\ UNCHANGED <<calls, failures, lead, pushed, webhook, unheard, overlap>>

\* Mutant: one refusal ends the push.
HeardAndGoOn(s, l) == [Rest(s, l) EXCEPT !.todo = IF task[s].took THEN @ ELSE {}]

\* The answer is heard and recorded.
Heard(s, l) == Rest(s, l)

Answer(s) ==
  /\ task[s].at = "answer"
  /\ LET l == task[s].lead IN
       /\ Record(l, IF task[s].took THEN "success" ELSE "failed")
       /\ Become(s, Heard(s, l))
  /\ UNCHANGED <<calls, failures, lead, webhook, taken, unheard, overlap>>

\* The dry run's row cannot be written: nothing catches that, and the push is over.
DryRunThrows(s) ==
  /\ task[s].at = "push" /\ ~webhook /\ ToPush(s) # {}
  /\ Fails
  /\ Ends(s)
  /\ UNCHANGED <<calls, leadVars>>

\* Nobody hears what the CRM made of lead l in slot s.
Unheard(s, l) == unheard' = IF task[s].took THEN [unheard EXCEPT ![l] = @ + 1] ELSE unheard

\* The answer is an error or is lost, or its row cannot be written: the push is
\* recorded as failed and goes on with the next lead ...
AnswerLost(s) ==
  /\ task[s].at = "answer"
  /\ Fails
  /\ LET l == task[s].lead IN
       /\ Record(l, "failed")
       /\ Unheard(s, l)
       /\ Become(s, Rest(s, l))
  /\ UNCHANGED <<calls, lead, webhook, taken, overlap>>

\* ... unless that row cannot be written either: then the push is over.
AnswerThrows(s) ==
  /\ task[s].at = "answer"
  /\ Fails
  /\ Unheard(s, task[s].lead)
  /\ Ends(s)
  /\ UNCHANGED <<calls, lead, pushed, webhook, taken, overlap>>

\* Every lead of the batch has been pushed or skipped.
PushEnds(s) ==
  /\ task[s].at = "push"
  /\ ToPush(s) = {}
  /\ Ends(s)
  /\ UNCHANGED <<calls, failures, leadVars>>

\* The process dies and starts again, perhaps with another configuration: the
\* requests in progress are gone.
LeadRestart ==
  /\ unheard' = [l \in Leads |->
       unheard[l] + Cardinality({s \in Slots : task[s].at = "answer" /\ task[s].took /\ task[s].lead = l})]
  /\ webhook' \in BOOLEAN
  /\ UNCHANGED <<lead, pushed, taken, overlap>>

----------------------------------------------------------------------------
LeadStep(s) ==
  \/ \E p \in Parcels : CreateLook(s, p) \/ DigestFiles(s, p)
  \/ CreateInsert(s)
  \/ \E l \in Leads, st \in Used : SetStatus(s, l, st)
  \/ \E l \in Leads, o \in Outcomes : LogOutcome(s, l, o)
  \/ \E l \in Leads : Snooze(s, l)
  \/ FileNote(s)
  \/ PushReads(s) \/ DryRun(s) \/ DryRunThrows(s) \/ Post(s)
  \/ Answer(s) \/ AnswerLost(s) \/ AnswerThrows(s) \/ PushEnds(s)

LeadNext == (\E l \in Leads : SnoozeEnds(l)) \/ (\E s \in Slots : LeadStep(s))

----------------------------------------------------------------------------
\* The CRM gets a lead a second time only if it took it once without a success
\* being recorded, or if two pushes overlapped (crm-sync.service.ts reads the
\* successes with the batch and writes each one after the call).
DoublePushExplained ==
  \A l \in Leads : taken[l] > 1 => unheard[l] > 0 \/ overlap

\* A push that nothing threw out of leaves every lead of its batch with a record,
\* whatever happened to the others; and while the leads pushed before cannot fill a
\* batch, it gets to one of those that wait (crm-sync.service.ts:26-49).
BatchCovered ==
  [][\A s \in Slots : task[s].at = "push" /\ PushEnds(s) =>
       /\ \A l \in task[s].owed : pushed[l] # {}
       /\ task[s].waits # {} => \E l \in task[s].waits : pushed[l] # {}]_<<deskVars, leadVars>>
=============================================================================
