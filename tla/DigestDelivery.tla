--------------------------- MODULE DigestDelivery ---------------------------
(***************************************************************************)
(* The weekly digest: choose the best scored parcels that have not been a   *)
(* lead lately, file one Lead row for each, email them, and mark the digest  *)
(* sent.  One worker runs one digest job at a time, while scoring appends    *)
(* Score rows and the county's parcels come and go under it.                 *)
(*                                                                           *)
(* BullMQ and the email provider are external: a job that throws runs again  *)
(* while it has attempts left, a job whose worker died runs again once, and  *)
(* an email may be delivered although the call failed.  A process started     *)
(* without RESEND_API_KEY and SMTP_URL only logs its emails (a dry run).     *)
(*                                                                           *)
(* Time is counted in steps that are long against one attempt and short      *)
(* against the exclusion window: the clock moves between attempts only.      *)
(***************************************************************************)
EXTENDS Integers, FiniteSets, SequencesExt

CONSTANTS
  Parcels,      \* commercial parcels
  Totals,       \* scores a scoring can give
  TopN,         \* leads per digest (digestTopN)
  Delta,        \* rise that readmits a recent lead (digestResendScoreDelta)
  Window,       \* length of the exclusion window (digestExclusionDays)
  Requests,     \* digest jobs that the cron and the admin add: [left, exclude]
  MaxJobs,      \* bound of the model: jobs added
  MaxCrashes,   \* bound of the model: deaths of the process
  MaxDelisted,  \* bound of the model: parcels that drop out
  MaxRows,      \* bound of the model: Score rows per parcel
  MaxNow        \* bound of the model: the clock

ASSUME DigestAssumption ==
  /\ IsFiniteSet(Parcels) /\ Totals \subseteq Nat /\ TopN \in Nat /\ Delta \in Nat \ {0} /\ Window \in Nat
  /\ Requests \subseteq [left : Nat \ {0}, exclude : SUBSET Parcels]
  /\ {MaxJobs, MaxCrashes, MaxDelisted, MaxRows, MaxNow} \subseteq Nat

VARIABLES
  now,        \* the clock
  listed,     \* parcels that are active, commercial and above the FMV floor
  scores,     \* scores[p]: the totals of p's Score rows, oldest first
  leads,      \* Lead rows of digests
  digests,    \* digests[d]: has Digest row d its sentAt?
  mails,      \* emails that a provider took for the recipients
  dry,        \* digests whose email was only logged (not code)
  waiting,    \* digest jobs that wait or back off
  running,    \* the job being worked and how far it is
  added,      \* jobs added, bounded by MaxJobs
  crashes     \* deaths of the process, bounded by MaxCrashes

tables == <<leads, digests, mails, dry>>
world == <<now, listed, scores, added>>
vars == <<now, listed, scores, tables, waiting, running, added, crashes>>

Nobody == [id |-> 0, left |-> 0, exclude |-> {}, stalled |-> FALSE]

\* What one run of a job holds in memory: the ranked rows, the next one to
\* consider, the parcels with a recent lead, the ranks picked, the digest made.
Run(job) == [job |-> job, at |-> "start", rows |-> <<>>, next |-> 1,
             recent |-> {}, picked |-> {}, digest |-> 0]

Idle == [Run(Nobody) EXCEPT !.at = "idle"]

----------------------------------------------------------------------------
Init ==
  /\ now = 0
  /\ listed = Parcels
  /\ scores = [p \in Parcels |-> <<>>]
  /\ leads = {}
  /\ digests = <<>>
  /\ mails = {}
  /\ dry = {}
  /\ waiting = {}
  /\ running = Idle
  /\ added = 0
  /\ crashes = 0

\* Scoring appends a row for a listed parcel.
Score(p, total) ==
  /\ p \in listed
  /\ Len(scores[p]) < MaxRows
  /\ scores' = [scores EXCEPT ![p] = Append(@, total)]
  /\ UNCHANGED <<now, listed, tables, waiting, running, added, crashes>>

\* A sync drops a parcel, or its value falls below the floor.
Delist(p) ==
  /\ p \in listed
  /\ Cardinality(Parcels \ listed) < MaxDelisted
  /\ listed' = listed \ {p}
  /\ UNCHANGED <<now, scores, tables, waiting, running, added, crashes>>

Tick ==
  /\ now < MaxNow
  /\ running = Idle
  /\ now' = now + 1
  /\ UNCHANGED <<listed, scores, tables, waiting, running, added, crashes>>

\* The Monday cron (one attempt, nothing excluded) or POST /admin/digest/send.
Request(r) ==
  /\ added < MaxJobs
  /\ added' = added + 1
  /\ waiting' = waiting \cup
       {[id |-> added + 1, left |-> r.left, exclude |-> r.exclude, stalled |-> FALSE]}
  /\ UNCHANGED <<now, listed, scores, tables, running, crashes>>

Take ==
  /\ running = Idle
  /\ \E job \in waiting :
       /\ waiting' = waiting \ {job}
       /\ running' = Run(job)
  /\ UNCHANGED <<world, tables, crashes>>

----------------------------------------------------------------------------
(* selectTopLeads(LongList)                                                *)

Scored == {p \in listed : scores[p] # <<>>}

\* The orders in which the latest scores can be gone through: best first.
Rankings ==
  LET row(p) == [parcel |-> p, total |-> Last(scores[p])]
  IN  {[i \in DOMAIN order |-> row(order[i])] :
         order \in {s \in SetToSeqs(Scored) :
                      \A i, j \in DOMAIN s :
                        i < j => Last(scores[s[i]]) >= Last(scores[s[j]])}}

RecentLeads == {l.parcel : l \in {m \in leads : m.at >= now - Window}}

ReadLatest ==
  /\ running.at = "start"
  /\ \E ranking \in Rankings :
       running' = [running EXCEPT !.at = "choosing", !.rows = ranking,
                                  !.recent = RecentLeads]
  /\ UNCHANGED <<world, tables, waiting, crashes>>

\* Mutant: a recent lead with no earlier row to compare with is let in.
ReadmittedWithoutPrior(row) ==
  LET history == scores[row.parcel]
  IN  Len(history) < 2 \/ row.total - history[Len(history) - 1] >= Delta

\* Has a recent lead risen enough?  The row is compared with the second last
\* row of the parcel's history as it is now.
Readmitted(row) ==
  LET history == scores[row.parcel]
  IN  Len(history) >= 2 /\ row.total - history[Len(history) - 1] >= Delta

Selects(row) == row.parcel \notin running.recent \/ Readmitted(row)

\* How many to choose before the request's exclusions are taken out.
LongListWithoutSurplus == TopN  \* mutant: no room for exclusions

LongList == 2 * TopN

Chosen(run) == run.next > Len(run.rows) \/ Cardinality(run.picked) >= LongList

Consider ==
  /\ running.at = "choosing"
  /\ ~ Chosen(running)
  /\ running' = [running EXCEPT
       !.next = @ + 1,
       !.picked = IF Selects(running.rows[running.next]) THEN @ \cup {running.next} ELSE @]
  /\ UNCHANGED <<world, tables, waiting, crashes>>

----------------------------------------------------------------------------
(* preview(send = true)                                                    *)

\* The first k of a set of ranks.
First(ranks, k) == {i \in ranks : Cardinality({j \in ranks : j < i}) < k}

\* The ranks the digest carries: the request's exclusions are taken from the long
\* list, the rest is cut to TopN.
Kept == {i \in running.picked : running.rows[i].parcel \notin running.job.exclude}
Carried == First(Kept, TopN)

\* Mutant: a digest row that was never sent is taken up again.
CreateDigestReusingUnsent ==
  /\ running.at = "choosing"
  /\ Chosen(running)
  /\ LET unsent == {d \in DOMAIN digests : ~ digests[d]}
     IN  /\ digests' = IF unsent = {} THEN Append(digests, FALSE) ELSE digests
         /\ running' = [running EXCEPT !.at = "filing", !.picked = Carried,
                          !.digest = IF unsent = {} THEN Len(digests) + 1
                                     ELSE CHOOSE d \in unsent : TRUE]
  /\ UNCHANGED <<world, leads, mails, dry, waiting, crashes>>

CreateDigest ==
  /\ running.at = "choosing"
  /\ Chosen(running)
  /\ digests' = Append(digests, FALSE)
  /\ running' = [running EXCEPT !.at = "filing", !.picked = Carried,
                                !.digest = Len(digests) + 1]
  /\ UNCHANGED <<world, leads, mails, dry, waiting, crashes>>

LeadsOf(d) == {l.parcel : l \in {m \in leads : m.digest = d}}

Picked(run) == {run.rows[i].parcel : i \in run.picked}

Filed(run, i) == run.rows[i].parcel \in LeadsOf(run.digest)

\* Leads are filed one at a time, in the order of their rank.
FileLead ==
  /\ running.at = "filing"
  /\ \E i \in running.picked :
       /\ ~ Filed(running, i)
       /\ \A j \in running.picked : j < i => Filed(running, j)
       /\ leads' = leads \cup
            {[parcel |-> running.rows[i].parcel, digest |-> running.digest, at |-> now]}
  /\ UNCHANGED <<world, digests, mails, dry, waiting, running, crashes>>

Email == [digest |-> running.digest, carries |-> Picked(running), at |-> now]

\* Mutant: the email goes out before the leads are all filed.
MailableEarly == running.at = "filing"

Mailable ==
  /\ running.at = "filing"
  /\ \A i \in running.picked : Filed(running, i)

\* send resolves: a provider took the email, or the process has none and the
\* email was logged.  Either may hold of each attempt: the process is started
\* anew in between with the environment of that day.
Mail ==
  /\ Mailable
  /\ \/ mails' = mails \cup {Email} /\ dry' = dry
     \/ dry' = dry \cup {running.digest} /\ mails' = mails
  /\ running' = [running EXCEPT !.at = "mailed"]
  /\ UNCHANGED <<world, leads, digests, waiting, crashes>>

\* The digest row gets its sentAt and the job is complete.
MarkSent ==
  /\ running.at = "mailed"
  /\ digests' = [digests EXCEPT ![running.digest] = TRUE]
  /\ running' = Idle
  /\ UNCHANGED <<world, leads, mails, dry, waiting, crashes>>

\* A failed job waits for its next attempt, if it has one.
GiveBack == IF running.job.left > 1
            THEN waiting \cup {[running.job EXCEPT !.left = @ - 1]}
            ELSE waiting

\* A query or a write fails, before the email or after it.
Throw ==
  /\ running # Idle
  /\ waiting' = GiveBack
  /\ running' = Idle
  /\ UNCHANGED <<world, tables, crashes>>

\* The provider reports an error for an email that it delivers all the same.
MailThenError ==
  /\ Mailable
  /\ mails' = mails \cup {Email}
  /\ waiting' = GiveBack
  /\ running' = Idle
  /\ UNCHANGED <<world, leads, digests, dry, crashes>>

\* The process dies: BullMQ puts a job back that was found stalled once.
Crash ==
  /\ crashes < MaxCrashes
  /\ running # Idle
  /\ crashes' = crashes + 1
  /\ waiting' = IF running.job.stalled THEN waiting
                ELSE waiting \cup {[running.job EXCEPT !.stalled = TRUE]}
  /\ running' = Idle
  /\ UNCHANGED <<world, tables>>

WorkerStep ==
  \/ Take \/ ReadLatest \/ Consider \/ CreateDigest \/ FileLead \/ Mail \/ MarkSent

Next ==
  \/ \E p \in Parcels : (\E t \in Totals : Score(p, t)) \/ Delist(p)
  \/ \E r \in Requests : Request(r)
  \/ Tick
  \/ WorkerStep
  \/ Throw \/ MailThenError \/ Crash

Spec == Init /\ [][Next]_vars

----------------------------------------------------------------------------
(* Properties                                                              *)

Spread(p) == {s \in ToSet(scores[p]) \X ToSet(scores[p]) : s[1] - s[2] >= Delta}

\* The recipients see a parcel again within the exclusion window only if its
\* recorded scores have moved by the resend delta (selectTopLeads), whatever
\* fails or is retried in between and however scoring runs meanwhile.
SteadyParcelsNotRepeated ==
  \A m, n \in mails : \A p \in m.carries \cap n.carries :
    m.digest < n.digest /\ n.at - m.at <= Window => Spread(p) # {}

\* What is emailed and what is on file agree: an email carries exactly the
\* parcels with a Lead row of its digest, and a digest has a sentAt only when
\* a provider has taken its email or the process that sent it had no provider.
\* The two never mix: what was only logged is not mailed later (preview).
MailIsOnFile ==
  /\ \A m \in mails : m.carries = LeadsOf(m.digest)
  /\ \A d \in DOMAIN digests : digests[d] => d \in dry \/ \E m \in mails : m.digest = d
  /\ \A m \in mails : m.digest \notin dry

\* No Digest row is emailed twice, and the Lead rows of one are of one moment:
\* a retried job makes a digest of its own (preview).
OneMailPerDigest ==
  /\ \A m, n \in mails : m.digest = n.digest => m = n
  /\ \A l, k \in leads : l.digest = k.digest => l.at = k.at

Fresh(run, i) == run.rows[i].parcel \notin run.recent \cup run.job.exclude

\* A digest leaves a fresh parcel out only when it is full of parcels that
\* rank before it, or when the request excludes more than TopN parcels, which
\* the surplus of the long list cannot make up for (preview, excludePins).
FreshLeftOutOnlyWhenFull ==
  running.at \in {"filing", "mailed"} =>
    \A i \in DOMAIN running.rows \ running.picked :
      Fresh(running, i) =>
        \/ Cardinality(running.picked) = TopN /\ \A j \in running.picked : j < i
        \/ Cardinality(running.job.exclude) > TopN

\* What the job table promises of digest.weekly, "Top N above FMV floor"
\* (README.md:115), less what was excluded or mailed within the window: the
\* email that goes out carries the TopN best.  Leads that an attempt filed
\* before its email failed are recent leads of the next attempt, so the best
\* parcels are passed over without having been sent.
MailCarriesTopN ==
  Mailable =>
    \A i \in DOMAIN running.rows :
      LET p == running.rows[i].parcel
      IN  \/ i > TopN
          \/ p \in Picked(running) \cup running.job.exclude
          \/ \E m \in mails : p \in m.carries /\ m.at >= now - Window
=============================================================================
