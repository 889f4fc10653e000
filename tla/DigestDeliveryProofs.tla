------------------------ MODULE DigestDeliveryProofs ------------------------
(***************************************************************************)
(* Theorems about what the digest files and mails, for any parcels, scores,   *)
(* requests, failures, retries and crashes.  All of them rest on one fact:     *)
(* every attempt makes a Digest row of its own, so what is filed under the     *)
(* row's number is this attempt's, and nothing has been mailed under it while  *)
(* it is being filed.                                                       *)
(***************************************************************************)
EXTENDS DigestDelivery, SequenceTheorems, FiniteSetTheorems, TLAPS

Fields == {"job", "at", "rows", "next", "recent", "picked", "digest"}

\* A run of a job has the fields of Run.
Shaped(r) == r = [f \in Fields |-> r[f]]

Numbers == 1..Len(digests)

\* What is filed and mailed has the number of a Digest row.
Numbered ==
  /\ digests \in Seq(BOOLEAN)
  /\ \A m \in mails : m.digest \in Numbers
  /\ dry \subseteq Numbers
  /\ \A l \in leads : l.digest \in Numbers
  /\ running.at \in {"filing", "mailed"} => running.digest \in Numbers

\* The digest being filed has not been mailed and has leads of this attempt only.
FilingItsOwn ==
  running.at = "filing" =>
    /\ \A m \in mails : m.digest # running.digest
    /\ running.digest \notin dry
    /\ \A l \in leads : l.digest = running.digest =>
         l.at = now /\ l.parcel \in Picked(running)

MailedIsOut ==
  running.at = "mailed" =>
    running.digest \in dry \/ \E m \in mails : m.digest = running.digest

IInv ==
  /\ Shaped(running) /\ Numbered /\ FilingItsOwn /\ MailedIsOut
  /\ MailIsOnFile /\ OneMailPerDigest

----------------------------------------------------------------------------
LEMMA IdleFacts == Shaped(Idle) /\ Idle.at = "idle"
BY DEF Shaped, Fields, Idle, Run

(* Going on to another stage keeps what the run holds.                      *)
LEMMA StageFacts ==
  ASSUME NEW r, Shaped(r), NEW stage
  PROVE  LET s == [r EXCEPT !.at = stage]
         IN  /\ Shaped(s) /\ s.at = stage
             /\ \A f \in Fields : f # "at" => s[f] = r[f]
BY DEF Shaped, Fields

(* Steps that leave the tables and the clock alone, with a worker that is not *)
(* filing or mailing after them.                                            *)
LEMMA NotFilingKeeps ==
  ASSUME IInv, UNCHANGED tables, Shaped(running)', (running.at \notin {"filing", "mailed"})'
  PROVE  IInv'
BY DEF IInv, Numbered, Numbers, FilingItsOwn, MailedIsOut, MailIsOnFile, LeadsOf,
       OneMailPerDigest, tables

(* Steps that leave the tables, the worker and the clock alone.              *)
LEMMA ElsewhereKeeps ==
  ASSUME IInv, UNCHANGED <<tables, running, now>>
  PROVE  IInv'
BY DEF IInv, Numbered, Numbers, FilingItsOwn, MailedIsOut, MailIsOnFile, LeadsOf,
       OneMailPerDigest, tables

(* The clock moves only while nobody files.                                 *)
LEMMA TickKeeps ==
  ASSUME IInv, Tick
  PROVE  IInv'
BY IdleFacts, NotFilingKeeps DEF Tick, IInv

LEMMA ChooseKeeps ==
  ASSUME IInv, ReadLatest \/ Consider
  PROVE  IInv'
<1>1. CASE ReadLatest
  <2>1. PICK ranking \in Rankings :
          running' = [running EXCEPT !.at = "choosing", !.rows = ranking,
                                     !.recent = RecentLeads]
    BY <1>1 DEF ReadLatest
  <2>2. Shaped(running') /\ running'.at = "choosing"
    BY <2>1 DEF IInv, Shaped, Fields
  <2> QED
    BY <1>1, <2>2, NotFilingKeeps DEF ReadLatest, Shaped
<1>2. CASE Consider
  <2>1. PICK n, p : running' = [running EXCEPT !.next = n, !.picked = p]
    BY <1>2 DEF Consider
  <2>2. Shaped(running') /\ running'.at = "choosing"
    BY <1>2, <2>1 DEF IInv, Shaped, Fields, Consider
  <2> QED
    BY <1>2, <2>2, NotFilingKeeps DEF Consider, Shaped
<1> QED
  BY <1>1, <1>2

(* A new row has a number under which nothing is filed or mailed.            *)
LEMMA CreateKeeps ==
  ASSUME IInv, CreateDigest
  PROVE  IInv'
<1> DEFINE d == Len(digests) + 1
<1>1. /\ digests' = Append(digests, FALSE)
      /\ UNCHANGED <<leads, mails, dry, now>>
      /\ running' = [running EXCEPT !.at = "filing", !.picked = Carried, !.digest = d]
  BY DEF CreateDigest, world
<1>2. Shaped(running') /\ running'.at = "filing" /\ running'.digest = d
  <2> DEFINE c == Carried
  <2>1. running' = [running EXCEPT !.at = "filing", !.picked = c, !.digest = d]
    BY <1>1
  <2> HIDE DEF c, d
  <2> QED
    BY <2>1 DEF IInv, Shaped, Fields
<1>3. digests \in Seq(BOOLEAN) /\ Len(digests) \in Nat
  BY DEF IInv, Numbered
<1>4. /\ digests' \in Seq(BOOLEAN) /\ Len(digests') = d
      /\ \A e \in Numbers : digests'[e] = digests[e] /\ e # d /\ e \in Numbers'
      /\ digests'[d] = FALSE /\ d \in Numbers' /\ DOMAIN digests' = Numbers \cup {d}
      /\ DOMAIN digests = Numbers
  BY <1>1, <1>3 DEF Numbers
<1>5. Numbered'
  BY <1>1, <1>2, <1>4 DEF IInv, Numbered
<1>6. FilingItsOwn' /\ MailedIsOut'
  BY <1>1, <1>2, <1>4 DEF IInv, Numbered, FilingItsOwn, MailedIsOut
<1>7. MailIsOnFile'
  BY <1>1, <1>4 DEF IInv, MailIsOnFile, LeadsOf
<1>8. OneMailPerDigest'
  BY <1>1 DEF IInv, OneMailPerDigest
<1> QED
  BY <1>2, <1>5, <1>6, <1>7, <1>8 DEF IInv, Shaped

(* A lead is filed under the number of the attempt that files it.            *)
LEMMA FileKeeps ==
  ASSUME IInv, FileLead
  PROVE  IInv'
<1>1. PICK i \in running.picked :
        leads' = leads \cup
          {[parcel |-> running.rows[i].parcel, digest |-> running.digest, at |-> now]}
  BY DEF FileLead
<1>2. running.at = "filing" /\ UNCHANGED <<digests, mails, dry, running, now>>
  BY DEF FileLead, world
<1> DEFINE l == [parcel |-> running.rows[i].parcel, digest |-> running.digest, at |-> now]
<1>3. /\ leads' = leads \cup {l}
      /\ l.parcel \in Picked(running) /\ l.digest = running.digest /\ l.at = now
  BY <1>1 DEF Picked
<1> HIDE DEF l
<1>4. Numbered'
  BY <1>2, <1>3 DEF IInv, Numbered, Numbers
<1>5. FilingItsOwn' /\ MailedIsOut'
  BY <1>2, <1>3 DEF IInv, FilingItsOwn, MailedIsOut
<1>6. \A m \in mails : LeadsOf(m.digest)' = LeadsOf(m.digest)
  BY <1>2, <1>3 DEF IInv, FilingItsOwn, LeadsOf
<1>7. MailIsOnFile'
  BY <1>2, <1>6 DEF IInv, MailIsOnFile
<1>8. OneMailPerDigest'
  BY <1>2, <1>3 DEF IInv, FilingItsOwn, OneMailPerDigest
<1> QED
  BY <1>2, <1>4, <1>5, <1>7, <1>8 DEF IInv, Shaped

(* The email that goes out is the first of its number and carries the leads    *)
(* filed under it.                                                          *)
LEMMA EmailFits ==
  ASSUME IInv, Mailable, mails' = mails \cup {Email}, UNCHANGED <<leads, digests, dry>>
  PROVE  /\ Email.digest = running.digest
         /\ MailIsOnFile' /\ OneMailPerDigest'
         /\ \A m \in mails' : m.digest \in Numbers
<1>1. Email.digest = running.digest /\ Email.carries = Picked(running)
  BY DEF Email
<1>2. running.at = "filing" /\ \A i \in running.picked : Filed(running, i)
  BY DEF Mailable
<1>3. LeadsOf(running.digest) \subseteq Picked(running)
  BY <1>2 DEF IInv, FilingItsOwn, LeadsOf
<1>4. Picked(running) \subseteq LeadsOf(running.digest)
  BY <1>2 DEF Filed, Picked
<1>5. MailIsOnFile'
  BY <1>1, <1>2, <1>3, <1>4 DEF IInv, MailIsOnFile, FilingItsOwn, LeadsOf
<1>6. OneMailPerDigest'
  BY <1>1, <1>2 DEF IInv, FilingItsOwn, OneMailPerDigest
<1> QED
  BY <1>1, <1>2, <1>5, <1>6 DEF IInv, Numbered

(* The email that is only logged is the only one of its number.              *)
LEMMA DryKeeps ==
  ASSUME IInv, Mailable, dry' = dry \cup {running.digest}, mails' = mails,
         UNCHANGED <<leads, digests, now>>, running' = [running EXCEPT !.at = "mailed"]
  PROVE  IInv'
<1>1. Shaped(running') /\ running'.at = "mailed" /\ running'.digest = running.digest
  BY StageFacts DEF IInv, Fields
<1>2. running.at = "filing"
  BY DEF Mailable
<1>3. Numbered'
  BY <1>1, <1>2 DEF IInv, Numbered, Numbers
<1>4. FilingItsOwn' /\ MailedIsOut'
  BY <1>1 DEF FilingItsOwn, MailedIsOut
<1>5. MailIsOnFile'
  BY <1>2 DEF IInv, FilingItsOwn, MailIsOnFile, LeadsOf
<1>6. OneMailPerDigest'
  BY DEF IInv, OneMailPerDigest
<1> QED
  BY <1>1, <1>3, <1>4, <1>5, <1>6 DEF IInv, Shaped

LEMMA MailKeeps ==
  ASSUME IInv, Mail, mails' = mails \cup {Email}, dry' = dry
  PROVE  IInv'
<1>1. /\ Mailable /\ mails' = mails \cup {Email} /\ UNCHANGED <<leads, digests, dry, now>>
      /\ running' = [running EXCEPT !.at = "mailed"]
  BY DEF Mail, world
<1>2. /\ Email.digest = running.digest /\ MailIsOnFile' /\ OneMailPerDigest'
      /\ \A m \in mails' : m.digest \in Numbers
  BY <1>1, EmailFits
<1>3. Shaped(running') /\ running'.at = "mailed" /\ running'.digest = running.digest
  BY <1>1, StageFacts DEF IInv, Fields
<1>4. Numbered'
  BY <1>1, <1>2, <1>3 DEF IInv, Numbered, Numbers, Mailable
<1>5. FilingItsOwn' /\ MailedIsOut'
  BY <1>1, <1>2, <1>3 DEF FilingItsOwn, MailedIsOut
<1> QED
  BY <1>2, <1>3, <1>4, <1>5 DEF IInv, Shaped

(* The same email, by a provider that reports an error.                     *)
LEMMA MailThenErrorKeeps ==
  ASSUME IInv, MailThenError
  PROVE  IInv'
<1>1. /\ Mailable /\ mails' = mails \cup {Email} /\ UNCHANGED <<leads, digests, dry>>
      /\ running' = Idle
  BY DEF MailThenError
<1>2. /\ MailIsOnFile' /\ OneMailPerDigest'
      /\ \A m \in mails' : m.digest \in Numbers
  BY <1>1, EmailFits
<1>3. Numbered' /\ FilingItsOwn' /\ MailedIsOut'
  BY <1>1, <1>2, IdleFacts DEF IInv, Numbered, Numbers, FilingItsOwn, MailedIsOut
<1> QED
  BY <1>1, <1>2, <1>3, IdleFacts DEF IInv, Shaped

(* A digest is marked sent after its email went out.                        *)
LEMMA MarkKeeps ==
  ASSUME IInv, MarkSent
  PROVE  IInv'
<1> DEFINE d == running.digest
<1>1. /\ running.at = "mailed" /\ digests' = [digests EXCEPT ![d] = TRUE]
      /\ UNCHANGED <<leads, mails, dry>> /\ running' = Idle
  BY DEF MarkSent
<1>2. /\ digests \in Seq(BOOLEAN) /\ d \in Numbers
      /\ d \in dry \/ \E m \in mails : m.digest = d
  BY <1>1 DEF IInv, Numbered, MailedIsOut
<1> HIDE DEF d
<1>3. /\ digests' \in Seq(BOOLEAN) /\ Len(digests') = Len(digests)
      /\ \A e \in DOMAIN digests' : e \in DOMAIN digests /\ (e = d \/ digests'[e] = digests[e])
  <2>1. DOMAIN digests = Numbers
    BY <1>2 DEF Numbers
  <2>2. DOMAIN digests' = Numbers /\ \A e \in Numbers : e = d \/ digests'[e] = digests[e]
    BY <1>1, <2>1, Zenon
  <2>3. digests' \in Seq(BOOLEAN)
    BY <1>1, <1>2, ExceptSeq DEF Numbers
  <2>4. Len(digests') = Len(digests)
    BY <1>1, <1>2, ExceptSeq DEF Numbers
  <2> QED
    BY <2>1, <2>2, <2>3, <2>4, Zenon
<1>4. Numbered' /\ FilingItsOwn' /\ MailedIsOut'
  BY <1>1, <1>3, IdleFacts DEF IInv, Numbered, Numbers, FilingItsOwn, MailedIsOut
<1>5. MailIsOnFile' /\ OneMailPerDigest'
  BY <1>1, <1>2, <1>3 DEF IInv, MailIsOnFile, OneMailPerDigest, LeadsOf
<1> QED
  BY <1>1, <1>4, <1>5, IdleFacts DEF IInv, Shaped

----------------------------------------------------------------------------
LEMMA InitInv == Init => IInv
<1> SUFFICES ASSUME Init PROVE IInv
  OBVIOUS
<1>1. running = Idle /\ leads = {} /\ mails = {} /\ dry = {} /\ digests = <<>>
  BY DEF Init
<1> QED
  BY <1>1, IdleFacts
     DEF IInv, Numbered, FilingItsOwn, MailedIsOut, MailIsOnFile, OneMailPerDigest

LEMMA NextInv == IInv /\ [Next]_vars => IInv'
<1> SUFFICES ASSUME IInv, [Next]_vars PROVE IInv'
  OBVIOUS
<1>1. CASE \E p \in Parcels : (\E t \in Totals : Score(p, t)) \/ Delist(p)
  BY <1>1, ElsewhereKeeps DEF Score, Delist
<1>2. CASE \E r \in Requests : Request(r)
  BY <1>2, ElsewhereKeeps DEF Request
<1>3. CASE Tick
  BY <1>3, TickKeeps
<1>4. CASE Take
  <2>1. PICK job \in waiting : running' = Run(job)
    BY <1>4 DEF Take
  <2>2. Shaped(running') /\ running'.at = "start"
    BY <2>1 DEF Shaped, Fields, Run
  <2> QED
    BY <1>4, <2>2, NotFilingKeeps DEF Take, Shaped
<1>5. CASE ReadLatest \/ Consider
  BY <1>5, ChooseKeeps
<1>6. CASE CreateDigest
  BY <1>6, CreateKeeps
<1>7. CASE FileLead
  BY <1>7, FileKeeps
<1>8. CASE Mail
  <2>1. CASE mails' = mails \cup {Email} /\ dry' = dry
    BY <1>8, <2>1, MailKeeps
  <2>2. CASE dry' = dry \cup {running.digest} /\ mails' = mails
    BY <1>8, <2>2, DryKeeps DEF Mail, world
  <2> QED
    BY <1>8, <2>1, <2>2 DEF Mail
<1>9. CASE MarkSent
  BY <1>9, MarkKeeps
<1>10. CASE Throw \/ Crash
  <2>1. UNCHANGED tables /\ running' = Idle
    BY <1>10 DEF Throw, Crash
  <2> QED
    BY <2>1, IdleFacts, NotFilingKeeps DEF Shaped
<1>11. CASE MailThenError
  BY <1>11, MailThenErrorKeeps
<1>12. CASE UNCHANGED vars
  BY <1>12, ElsewhereKeeps DEF vars
<1> QED
  BY <1>1, <1>2, <1>3, <1>4, <1>5, <1>6, <1>7, <1>8, <1>9, <1>10, <1>11, <1>12
     DEF Next, WorkerStep

LEMMA Invariant == Spec => []IInv
BY InitInv, NextInv, PTL DEF Spec

(* No Digest row is mailed twice, whatever is retried (preview makes a row     *)
(* per attempt), for any requests, failures and crashes.                     *)
THEOREM MailedOnce == Spec => []OneMailPerDigest
<1>1. IInv => OneMailPerDigest
  BY DEF IInv
<1> QED
  BY <1>1, Invariant, PTL

(* What goes out carries exactly the leads on file under its number; what is   *)
(* marked sent was taken by a provider, or logged by a process without one,    *)
(* and never both (preview, sendWeekly, EmailService.send).                    *)
THEOREM MailedIsFiled == Spec => []MailIsOnFile
<1>1. IInv => MailIsOnFile
  BY DEF IInv
<1> QED
  BY <1>1, Invariant, PTL

----------------------------------------------------------------------------
(* Whom a digest leaves out.                                                *)

Below(S, i) == {j \in S : j < i}
Rank(S) == [i \in S |-> Cardinality(Below(S, i))]

LEMMA UpTo ==
  ASSUME NEW n \in Nat
  PROVE  IsFiniteSet(0..(n - 1)) /\ Cardinality(0..(n - 1)) = n
<1> DEFINE b == n - 1
<1>1. b \in Int /\ b = n - 1
  OBVIOUS
<1> HIDE DEF b
<1>2. IsFiniteSet(0..b) /\ Cardinality(0..b) = IF 0 > b THEN 0 ELSE b - 0 + 1
  BY <1>1, FS_Interval
<1>3. IsFiniteSet(0..b) /\ Cardinality(0..b) = n
  BY <1>1, <1>2
<1> QED
  BY <1>3 DEF b

(* The ranks of n numbers are 0 to n - 1, each once.                        *)
LEMMA RankFacts ==
  ASSUME NEW S \in SUBSET Nat, IsFiniteSet(S)
  PROVE  /\ Cardinality(S) \in Nat
         /\ Rank(S) \in Bijection(S, 0..(Cardinality(S) - 1))
         /\ \A i, j \in S : i < j => Rank(S)[i] < Rank(S)[j]
<1> DEFINE n == Cardinality(S)
           R == Rank(S)
<1>1. n \in Nat
  BY FS_CardinalityType
<1>2. ASSUME NEW i \in S
      PROVE  /\ IsFiniteSet(Below(S, i)) /\ Cardinality(Below(S, i)) \in Nat
             /\ Cardinality(Below(S, i)) <= n - 1
  <2>1. IsFiniteSet(S \ {i}) /\ Cardinality(S \ {i}) = n - 1
    BY <1>2, FS_RemoveElement
  <2>2. Below(S, i) \in SUBSET (S \ {i})
    BY DEF Below
  <2> QED
    BY <2>1, <2>2, FS_Subset, FS_CardinalityType
<1>3. R \in [S -> 0..(n - 1)] /\ \A i \in S : R[i] = Cardinality(Below(S, i))
  BY <1>1, <1>2 DEF Rank
<1>4. ASSUME NEW i \in S, NEW j \in S, i < j PROVE R[i] < R[j]
  <2>1. IsFiniteSet(Below(S, i)) /\ IsFiniteSet(Below(S, j))
    BY <1>2
  <2>2. Below(S, i) \cup {i} \in SUBSET Below(S, j) /\ i \notin Below(S, i)
    <3>1. \A l \in S : l < i => l < j /\ l # i
      <4> SUFFICES ASSUME NEW l \in S, l < i PROVE l < j /\ l # i
        OBVIOUS
      <4>1. l \in Nat /\ i \in Nat /\ j \in Nat
        OBVIOUS
      <4> QED
        BY <1>4, <4>1
    <3>2. \A l \in Below(S, i) : l \in Below(S, j) /\ l # i
      BY <3>1 DEF Below
    <3>3. i \in Below(S, j)
      BY <1>4 DEF Below
    <3> QED
      BY <3>2, <3>3
  <2>3. Cardinality(Below(S, i) \cup {i}) = Cardinality(Below(S, i)) + 1
    BY <2>1, <2>2, FS_AddElement
  <2>4. Cardinality(Below(S, i) \cup {i}) <= Cardinality(Below(S, j))
    BY <2>1, <2>2, FS_Subset
  <2> QED
    BY <1>2, <1>3, <2>3, <2>4
<1>5. \A i, j \in S : R[i] = R[j] => i = j
  <2> SUFFICES ASSUME NEW i \in S, NEW j \in S, i # j PROVE R[i] # R[j]
    OBVIOUS
  <2>1. i \in Nat /\ j \in Nat /\ R[i] \in Nat /\ R[j] \in Nat
    BY <1>3
  <2>2. i < j \/ j < i
    BY <2>1
  <2> QED
    BY <1>4, <2>1, <2>2
<1> HIDE DEF R
<1>6. R \in Injection(S, 0..(n - 1))
  BY <1>3, <1>5 DEF Injection, IsInjective
<1>7. IsFiniteSet(0..(n - 1)) /\ Cardinality(0..(n - 1)) = n
  BY <1>1, UpTo
<1>8. R \in Surjection(S, 0..(n - 1))
  BY <1>6, <1>7, FS_Injection
<1>9. R \in Bijection(S, 0..(n - 1))
  BY <1>6, <1>8 DEF Bijection
<1> QED
  BY <1>1, <1>4, <1>9 DEF R

(* The first k of at least k numbers are k, and lie before all others.       *)
LEMMA FirstFacts ==
  ASSUME NEW S \in SUBSET Nat, IsFiniteSet(S), NEW k \in Nat
  PROVE  /\ First(S, k) \subseteq S
         /\ Cardinality(S) >= k => Cardinality(First(S, k)) = k
         /\ \A i \in S \ First(S, k) :
              Cardinality(S) >= k /\ \A j \in First(S, k) : j < i
<1> DEFINE n == Cardinality(S)
           R == Rank(S)
           F == First(S, k)
<1>1. /\ n \in Nat /\ R \in Bijection(S, 0..(n - 1))
      /\ \A i, j \in S : i < j => R[i] < R[j]
  BY RankFacts
<1>2. \A i \in S : R[i] = Cardinality(Below(S, i))
  BY DEF Rank
<1>3. F = {i \in S : R[i] < k}
  BY <1>2 DEF First, Below
<1> HIDE DEF R, F
<1>4. /\ R \in [S -> 0..(n - 1)]
      /\ \A i, j \in S : R[i] = R[j] => i = j
      /\ \A t \in 0..(n - 1) : \E i \in S : R[i] = t
  BY <1>1 DEF Bijection, Injection, Surjection, IsInjective
<1>5. ASSUME n >= k PROVE Cardinality(F) = k
  <2> DEFINE G == [i \in F |-> R[i]]
  <2>1. F \subseteq S /\ IsFiniteSet(F)
    BY <1>3, FS_Subset
  <2>2. G \in [F -> 0..(k - 1)]
    <3>1. \A i \in F : R[i] \in 0..(k - 1)
      BY <1>3, <1>4
    <3> QED
      BY <3>1
  <2>3. \A i, j \in F : G[i] = G[j] => i = j
    BY <1>4, <2>1
  <2>4. \A t \in 0..(k - 1) : \E i \in F : G[i] = t
    <3> SUFFICES ASSUME NEW t \in 0..(k - 1) PROVE \E i \in F : G[i] = t
      OBVIOUS
    <3>1. t \in 0..(n - 1)
      BY <1>1, <1>5
    <3>2. PICK i \in S : R[i] = t
      BY <1>4, <3>1
    <3>3. i \in F
      BY <1>3, <3>2
    <3> QED
      BY <3>2, <3>3
  <2> HIDE DEF G
  <2>5. G \in Bijection(F, 0..(k - 1))
    BY <2>2, <2>3, <2>4 DEF Bijection, Injection, Surjection, IsInjective
  <2>6. Cardinality(0..(k - 1)) = Cardinality(F)
    BY <2>1, <2>5, FS_Bijection DEF ExistsBijection
  <2> QED
    BY <2>6, UpTo
<1>6. ASSUME NEW i \in S, i \notin F PROVE n >= k /\ \A j \in F : j < i
  <2>1. R[i] >= k /\ R[i] \in 0..(n - 1)
    BY <1>3, <1>4, <1>6
  <2>2. ASSUME NEW j \in F PROVE j < i
    <3>1. j \in S /\ R[j] < k /\ R[j] \in Nat
      BY <1>3, <1>4
    <3>2. j # i /\ ~(i < j)
      BY <1>1, <2>1, <3>1
    <3> QED
      BY <3>1, <3>2
  <2> QED
    BY <1>1, <2>1, <2>2
<1> QED
  BY <1>3, <1>5, <1>6 DEF F

----------------------------------------------------------------------------
(* What a run has chosen from.                                              *)

Jobs == [id : Nat, left : Nat, exclude : SUBSET Parcels, stalled : BOOLEAN]
RowSet == [parcel : Parcels, total : Nat]
Holding == {"choosing", "filing", "mailed"}

WorldOK ==
  /\ now \in Nat /\ added \in Nat /\ listed \subseteq Parcels
  /\ scores \in [Parcels -> Seq(Nat)]
  /\ waiting \subseteq Jobs /\ running.job \in Jobs

\* The rows a run holds are ranked, a parcel each, and those picked have been
\* considered.
RanksOK ==
  /\ running.rows \in Seq(RowSet)
  /\ \A i, j \in DOMAIN running.rows :
       running.rows[i].parcel = running.rows[j].parcel => i = j
  /\ running.next \in 1..(Len(running.rows) + 1)
  /\ running.picked \subseteq 1..(running.next - 1)

Unbegun == running.next = 1 /\ running.picked = {}

\* No row of a parcel without a recent lead has been passed over.
NonePassedOver ==
  \A i \in 1..(running.next - 1) : running.rows[i].parcel \notin running.recent => i \in running.picked

ChoiceInv ==
  /\ WorldOK
  /\ running.at \in Holding => RanksOK
  /\ running.at = "start" => Unbegun
  /\ running.at = "choosing" => NonePassedOver
  /\ FreshLeftOutOnlyWhenFull

(* The world while the jobs stay what they are.                             *)
LEMMA JobFacts ==
  ASSUME DigestAssumption, WorldOK
  PROVE  /\ Nobody \in Jobs /\ GiveBack \subseteq Jobs
         /\ waiting \cup {[running.job EXCEPT !.stalled = TRUE]} \subseteq Jobs
         /\ \A r \in Requests :
              [id |-> added + 1, left |-> r.left, exclude |-> r.exclude, stalled |-> FALSE] \in Jobs
<1>1. Nobody \in Jobs
  BY DEF Nobody, Jobs
<1>2. GiveBack \subseteq Jobs
  <2>1. CASE running.job.left > 1
    <3>1. running.job.left - 1 \in Nat
      BY <2>1 DEF WorldOK, Jobs
    <3> DEFINE left == running.job.left - 1
    <3>2. GiveBack = waiting \cup {[running.job EXCEPT !.left = left]}
      BY <2>1 DEF GiveBack
    <3> HIDE DEF left
    <3>3. left \in Nat
      BY <3>1 DEF left
    <3>4. [running.job EXCEPT !.left = left] \in Jobs
      BY <3>3 DEF WorldOK, Jobs
    <3> QED
      BY <3>2, <3>4 DEF WorldOK
  <2>2. CASE ~(running.job.left > 1)
    BY <2>2 DEF GiveBack, WorldOK
  <2> QED
    BY <2>1, <2>2
<1>3. [running.job EXCEPT !.stalled = TRUE] \in Jobs
  BY DEF WorldOK, Jobs
<1>4. \A r \in Requests :
        [id |-> added + 1, left |-> r.left, exclude |-> r.exclude, stalled |-> FALSE] \in Jobs
  BY DEF DigestAssumption, WorldOK, Jobs
<1> QED
  BY <1>1, <1>2, <1>3, <1>4 DEF WorldOK

(* A run that holds nothing.                                                *)
LEMMA NoneHeld ==
  ASSUME WorldOK', (running.at \notin Holding)', (running.at = "start" => Unbegun)'
  PROVE  ChoiceInv'
BY DEF ChoiceInv, FreshLeftOutOnlyWhenFull, Holding

(* A step that leaves the run alone.                                        *)
LEMMA HeldKeeps ==
  ASSUME ChoiceInv, WorldOK', UNCHANGED running
  PROVE  ChoiceInv'
BY DEF ChoiceInv, RanksOK, Unbegun, NonePassedOver, FreshLeftOutOnlyWhenFull, Fresh

(* A ranking has a row for each parcel, with a total that is on record.      *)
LEMMA RankingFacts ==
  ASSUME DigestAssumption, WorldOK, NEW ranking \in Rankings
  PROVE  /\ ranking \in Seq(RowSet)
         /\ \A i, j \in DOMAIN ranking : ranking[i].parcel = ranking[j].parcel => i = j
         /\ \A i \in DOMAIN ranking : ranking[i].total \in ToSet(scores[ranking[i].parcel])
<1> DEFINE row(p) == [parcel |-> p, total |-> Last(scores[p])]
           n == Cardinality(Scored)
<1>1. PICK order \in SetToSeqs(Scored) : ranking = [i \in DOMAIN order |-> row(order[i])]
  BY DEF Rankings
<1>2. /\ order \in [1..n -> Scored]
      /\ \A i, j \in 1..n : i # j => order[i] # order[j]
  BY DEF SetToSeqs
<1>3. n \in Nat
  <2>1. Scored \in SUBSET Parcels
    BY DEF Scored, WorldOK
  <2> QED
    BY <2>1, FS_Subset, FS_CardinalityType DEF DigestAssumption
<1>4. ASSUME NEW p \in Scored PROVE row(p) \in RowSet /\ row(p).total \in ToSet(scores[p])
  <2>1. p \in Parcels /\ scores[p] \in Seq(Nat) /\ scores[p] # <<>>
    BY DEF Scored, WorldOK
  <2>2. Len(scores[p]) \in DOMAIN scores[p] /\ Last(scores[p]) = scores[p][Len(scores[p])]
    BY <2>1 DEF Last
  <2>3. Last(scores[p]) \in Nat /\ Last(scores[p]) \in ToSet(scores[p])
    BY <2>1, <2>2 DEF ToSet
  <2> QED
    BY <2>1, <2>3 DEF RowSet
<1>5. /\ DOMAIN ranking = 1..n
      /\ \A i \in 1..n : order[i] \in Scored /\ ranking[i] = row(order[i]) /\ ranking[i].parcel = order[i]
  BY <1>1, <1>2
<1> HIDE DEF n, row
<1>6. ranking \in [1..n -> RowSet]
  <2>1. ranking = [i \in 1..n |-> row(order[i])]
    BY <1>1, <1>2
  <2> QED
    BY <1>4, <1>5, <2>1
<1>7. ranking \in Seq(RowSet)
  BY <1>3, <1>6
<1>8. \A i \in 1..n : ranking[i].total \in ToSet(scores[ranking[i].parcel])
  BY <1>4, <1>5
<1> QED
  BY <1>2, <1>5, <1>7, <1>8

(* The latest scores are read.                                              *)
LEMMA ReadChooses ==
  ASSUME DigestAssumption, IInv, ChoiceInv, ReadLatest
  PROVE  /\ ChoiceInv' /\ Unbegun' /\ running'.at = "choosing" /\ running'.recent = RecentLeads
         /\ \A i \in DOMAIN running'.rows :
              running'.rows[i].total \in ToSet(scores[running'.rows[i].parcel])
<1>1. PICK ranking \in Rankings :
        running' = [running EXCEPT !.at = "choosing", !.rows = ranking, !.recent = RecentLeads]
  BY DEF ReadLatest
<1> DEFINE recent == RecentLeads
<1>2. running' = [running EXCEPT !.at = "choosing", !.rows = ranking, !.recent = recent]
  BY <1>1
<1> HIDE DEF recent
<1>3. /\ running'.at = "choosing" /\ running'.rows = ranking /\ running'.recent = recent
      /\ running'.job = running.job /\ running'.next = running.next
      /\ running'.picked = running.picked
  BY <1>2 DEF IInv, Shaped, Fields
<1>4. Unbegun /\ UNCHANGED <<world, waiting>>
  BY DEF ReadLatest, ChoiceInv
<1>5. /\ ranking \in Seq(RowSet)
      /\ \A i, j \in DOMAIN ranking : ranking[i].parcel = ranking[j].parcel => i = j
      /\ \A i \in DOMAIN ranking : ranking[i].total \in ToSet(scores[ranking[i].parcel])
  BY RankingFacts DEF ChoiceInv
<1>6. WorldOK' /\ Unbegun'
  BY <1>3, <1>4 DEF ChoiceInv, WorldOK, world, Unbegun
<1>7. RanksOK' /\ NonePassedOver'
  <2>1. 1 \in 1..(Len(ranking) + 1) /\ 1..(1 - 1) = {}
    BY <1>5
  <2> QED
    BY <1>3, <1>4, <1>5, <2>1 DEF RanksOK, NonePassedOver, Unbegun
<1> QED
  BY <1>3, <1>5, <1>6, <1>7 DEF ChoiceInv, FreshLeftOutOnlyWhenFull, recent

(* A row is considered.                                                     *)
LEMMA ConsiderFacts ==
  ASSUME IInv, ChoiceInv, Consider
  PROVE  LET i == running.next IN
         /\ running.at = "choosing" /\ RanksOK /\ NonePassedOver /\ i \in DOMAIN running.rows
         /\ UNCHANGED <<world, tables, waiting>>
         /\ running'.at = "choosing" /\ running'.rows = running.rows /\ running'.next = i + 1
         /\ running'.recent = running.recent /\ running'.job = running.job
         /\ running'.picked =
              IF Selects(running.rows[i]) THEN running.picked \cup {i} ELSE running.picked
<1> DEFINE i == running.next
           picks == IF Selects(running.rows[i]) THEN running.picked \cup {i} ELSE running.picked
<1>1. /\ running.at = "choosing" /\ ~Chosen(running)
      /\ running' = [running EXCEPT !.next = i + 1, !.picked = picks]
      /\ UNCHANGED <<world, tables, waiting>>
  BY DEF Consider
<1>2. RanksOK /\ NonePassedOver
  BY <1>1 DEF ChoiceInv, Holding
<1>3. i \in DOMAIN running.rows
  BY <1>1, <1>2 DEF Chosen, RanksOK
<1> HIDE DEF picks
<1>4. /\ running'.at = "choosing" /\ running'.rows = running.rows /\ running'.next = i + 1
      /\ running'.recent = running.recent /\ running'.job = running.job /\ running'.picked = picks
  BY <1>1 DEF IInv, Shaped, Fields
<1> QED
  BY <1>1, <1>2, <1>3, <1>4 DEF picks

LEMMA ConsiderChooses ==
  ASSUME IInv, ChoiceInv, Consider
  PROVE  ChoiceInv'
<1> DEFINE i == running.next
<1>1. /\ running.at = "choosing" /\ RanksOK /\ NonePassedOver /\ i \in DOMAIN running.rows
      /\ UNCHANGED <<world, tables, waiting>>
      /\ running'.at = "choosing" /\ running'.rows = running.rows /\ running'.next = i + 1
      /\ running'.recent = running.recent /\ running'.job = running.job
      /\ running'.picked =
           IF Selects(running.rows[i]) THEN running.picked \cup {i} ELSE running.picked
  BY ConsiderFacts
<1>2. running.rows \in Seq(RowSet) /\ i \in 1..Len(running.rows) /\ running.picked \subseteq 1..(i - 1)
  BY <1>1 DEF RanksOK
<1> HIDE DEF i
<1>3. /\ i + 1 \in 1..(Len(running.rows) + 1) /\ (i + 1) - 1 = i
      /\ 1..i = 1..(i - 1) \cup {i}
  BY <1>2
<1>4. RanksOK'
  BY <1>1, <1>2, <1>3 DEF RanksOK
<1>5. NonePassedOver'
  <2> SUFFICES ASSUME NEW j \in 1..i, running.rows[j].parcel \notin running.recent
               PROVE  j \in running'.picked
    BY <1>1, <1>3 DEF NonePassedOver
  <2>1. CASE j = i
    BY <1>1, <2>1 DEF Selects
  <2>2. CASE j # i
    <3>1. j \in 1..(i - 1)
      BY <1>2, <2>2
    <3> QED
      BY <1>1, <3>1 DEF NonePassedOver, i
  <2> QED
    BY <2>1, <2>2
<1>6. WorldOK'
  BY <1>1 DEF ChoiceInv, WorldOK, world
<1> QED
  BY <1>1, <1>4, <1>5, <1>6 DEF ChoiceInv, FreshLeftOutOnlyWhenFull

(* The exclusions take no more ranks out of the long list than they are.     *)
LEMMA KeptFacts ==
  ASSUME DigestAssumption, ChoiceInv, running.at = "choosing"
  PROVE  /\ Kept \in SUBSET Nat /\ IsFiniteSet(Kept) /\ Cardinality(Kept) \in Nat
         /\ Cardinality(running.picked) \in Nat /\ Cardinality(running.job.exclude) \in Nat
         /\ Cardinality(running.picked) <= Cardinality(Kept) + Cardinality(running.job.exclude)
<1> DEFINE picked == running.picked
           exclude == running.job.exclude
           out == picked \ Kept
<1>1. RanksOK /\ WorldOK
  BY DEF ChoiceInv, Holding
<1>2. /\ picked \subseteq 1..(running.next - 1) /\ running.next \in 1..(Len(running.rows) + 1)
      /\ running.rows \in Seq(RowSet)
  BY <1>1 DEF RanksOK
<1>3. running.next - 1 \in Nat /\ Len(running.rows) \in Nat
  BY <1>2
<1>4. picked \in SUBSET Nat /\ IsFiniteSet(picked) /\ picked \subseteq DOMAIN running.rows
  <2>1. IsFiniteSet(1..(running.next - 1))
    <3> DEFINE b == running.next - 1
    <3>1. 1 \in Int /\ b \in Int
      BY <1>3
    <3> HIDE DEF b
    <3>2. IsFiniteSet(1..b)
      BY <3>1, FS_Interval
    <3> QED
      BY <3>2 DEF b
  <2>2. picked \in SUBSET (1..(running.next - 1))
    BY <1>2
  <2>3. \A i \in picked : i \in Nat /\ i \in DOMAIN running.rows
    BY <1>2, <1>3
  <2> QED
    BY <2>1, <2>2, <2>3, FS_Subset
<1>5. IsFiniteSet(exclude)
  <2>1. exclude \in SUBSET Parcels
    BY <1>1 DEF WorldOK, Jobs
  <2> QED
    BY <2>1, FS_Subset DEF DigestAssumption
<1>6. Kept \subseteq picked /\ \A i \in out : running.rows[i].parcel \in exclude
  BY DEF Kept
<1> DEFINE g == [i \in out |-> running.rows[i].parcel]
<1>7. g \in Injection(out, exclude)
  <2>1. g \in [out -> exclude]
    BY <1>6
  <2>2. \A i, j \in out : g[i] = g[j] => i = j
    BY <1>1, <1>4 DEF RanksOK
  <2> HIDE DEF g
  <2> QED
    BY <2>1, <2>2 DEF Injection, IsInjective
<1> HIDE DEF g
<1>8. IsFiniteSet(out) /\ Cardinality(out) <= Cardinality(exclude)
  BY <1>5, <1>7, FS_Injection
<1>9. IsFiniteSet(Kept) /\ Kept \in SUBSET Nat
  BY <1>4, <1>6, FS_Subset
<1>10. Cardinality(out) = Cardinality(picked) - Cardinality(Kept)
  <2>1. picked \cap Kept = Kept
    BY <1>6
  <2> QED
    BY <1>4, <2>1, FS_Difference
<1>11. Cardinality(picked) \in Nat /\ Cardinality(Kept) \in Nat /\ Cardinality(exclude) \in Nat
  BY <1>4, <1>5, <1>9, FS_CardinalityType
<1> QED
  BY <1>8, <1>9, <1>10, <1>11

(* What has been considered and is fresh is picked, and whatever the digest does *)
(* not carry lies behind what it does.                                      *)
LEMMA CarriedFacts ==
  ASSUME DigestAssumption, ChoiceInv, running.at = "choosing", Chosen(running)
  PROVE  /\ Carried \subseteq running.picked
         /\ \A i \in DOMAIN running.rows \ Carried :
              Fresh(running, i) =>
                \/ Cardinality(Carried) = TopN /\ \A j \in Carried : j < i
                \/ Cardinality(running.job.exclude) > TopN
<1>1. RanksOK /\ NonePassedOver
  BY DEF ChoiceInv, Holding
<1>2. /\ running.picked \subseteq 1..(running.next - 1)
      /\ running.next \in 1..(Len(running.rows) + 1) /\ running.rows \in Seq(RowSet)
  BY <1>1 DEF RanksOK
<1>3. /\ Kept \in SUBSET Nat /\ IsFiniteSet(Kept) /\ Cardinality(Kept) \in Nat
      /\ Cardinality(running.picked) \in Nat /\ Cardinality(running.job.exclude) \in Nat
      /\ Cardinality(running.picked) <= Cardinality(Kept) + Cardinality(running.job.exclude)
  BY KeptFacts
<1>4. TopN \in Nat /\ LongList = 2 * TopN
  BY DEF DigestAssumption, LongList
<1>5. /\ Carried \subseteq Kept
      /\ Cardinality(Kept) >= TopN => Cardinality(Carried) = TopN
      /\ \A i \in Kept \ Carried : Cardinality(Kept) >= TopN /\ \A j \in Carried : j < i
  BY <1>3, <1>4, FirstFacts DEF Carried
<1>6. Kept \subseteq running.picked
  BY DEF Kept
<1>7. ASSUME NEW i \in DOMAIN running.rows, i \notin Carried, Fresh(running, i),
             ~(Cardinality(running.job.exclude) > TopN)
      PROVE  Cardinality(Carried) = TopN /\ \A j \in Carried : j < i
  <2>1. i \in 1..Len(running.rows)
    BY <1>2
  <2>2. CASE i < running.next
    <3>1. i \in 1..(running.next - 1)
      BY <1>2, <2>1, <2>2
    <3>2. i \in Kept
      BY <1>1, <1>7, <3>1 DEF Fresh, NonePassedOver, Kept
    <3> QED
      BY <1>5, <1>7, <3>2
  <2>3. CASE ~(i < running.next)
    <3>1. ~(running.next > Len(running.rows))
      BY <1>2, <2>1, <2>3
    <3>2. Cardinality(running.picked) >= LongList
      BY <3>1 DEF Chosen
    <3>3. Cardinality(Kept) >= TopN
      BY <1>3, <1>4, <1>7, <3>2
    <3>4. \A j \in Carried : j < i
      BY <1>2, <1>5, <1>6, <2>1, <2>3
    <3> QED
      BY <1>5, <3>3, <3>4
  <2> QED
    BY <2>2, <2>3
<1> QED
  BY <1>5, <1>6, <1>7

LEMMA CreateChooses ==
  ASSUME DigestAssumption, IInv, ChoiceInv, CreateDigest
  PROVE  /\ ChoiceInv' /\ running'.at = "filing" /\ running'.digest = Len(digests')
         /\ running'.rows = running.rows /\ running'.picked \subseteq running.picked
<1> DEFINE d == Len(digests) + 1
           c == Carried
<1>1. /\ running.at = "choosing" /\ Chosen(running)
      /\ running' = [running EXCEPT !.at = "filing", !.picked = c, !.digest = d]
      /\ digests' = Append(digests, FALSE) /\ UNCHANGED <<world, waiting>>
  BY DEF CreateDigest
<1>2. /\ c \subseteq running.picked
      /\ \A i \in DOMAIN running.rows \ c :
           Fresh(running, i) =>
             \/ Cardinality(c) = TopN /\ \A j \in c : j < i
             \/ Cardinality(running.job.exclude) > TopN
  BY <1>1, CarriedFacts
<1>3. d = Len(digests')
  BY <1>1 DEF IInv, Numbered
<1> HIDE DEF c, d
<1>4. /\ running'.at = "filing" /\ running'.rows = running.rows /\ running'.picked = c
      /\ running'.job = running.job /\ running'.recent = running.recent
      /\ running'.next = running.next /\ running'.digest = d
  BY <1>1 DEF IInv, Shaped, Fields
<1>5. WorldOK'
  BY <1>1, <1>4 DEF ChoiceInv, WorldOK, world
<1>6. RanksOK'
  BY <1>1, <1>2, <1>4 DEF ChoiceInv, RanksOK, Holding
<1>7. FreshLeftOutOnlyWhenFull'
  BY <1>2, <1>4 DEF FreshLeftOutOnlyWhenFull, Fresh
<1> QED
  BY <1>2, <1>3, <1>4, <1>5, <1>6, <1>7 DEF ChoiceInv

LEMMA MailChooses ==
  ASSUME IInv, ChoiceInv, Mail
  PROVE  ChoiceInv'
<1>1. /\ running' = [running EXCEPT !.at = "mailed"] /\ running.at = "filing"
      /\ UNCHANGED <<world, waiting>>
  BY DEF Mail, Mailable
<1>2. /\ running'.at = "mailed" /\ running'.rows = running.rows /\ running'.picked = running.picked
      /\ running'.job = running.job /\ running'.recent = running.recent
      /\ running'.next = running.next
  BY <1>1, StageFacts DEF IInv, Fields
<1>3. WorldOK'
  BY <1>1, <1>2 DEF ChoiceInv, WorldOK, world
<1> QED
  BY <1>1, <1>2, <1>3 DEF ChoiceInv, RanksOK, Holding, FreshLeftOutOnlyWhenFull, Fresh

(* A scoring, a parcel that drops out, a request, the clock.                *)
LEMMA WorldKeeps ==
  ASSUME DigestAssumption, ChoiceInv,
         \/ \E p \in Parcels : (\E t \in Totals : Score(p, t)) \/ Delist(p)
         \/ \E r \in Requests : Request(r)
         \/ Tick
  PROVE  WorldOK' /\ UNCHANGED running
<1>1. UNCHANGED running
  BY DEF Score, Delist, Request, Tick
<1>2. WorldOK
  BY DEF ChoiceInv
<1>3. ASSUME NEW p \in Parcels, NEW t \in Totals, Score(p, t) PROVE WorldOK'
  <2>1. t \in Nat /\ scores[p] \in Seq(Nat)
    BY <1>2 DEF DigestAssumption, WorldOK
  <2>2. Append(scores[p], t) \in Seq(Nat)
    BY <2>1
  <2>3. /\ scores' = [scores EXCEPT ![p] = Append(scores[p], t)]
        /\ UNCHANGED <<now, listed, waiting, added>>
    BY <1>3 DEF Score
  <2> DEFINE h == Append(scores[p], t)
  <2>4. scores' = [scores EXCEPT ![p] = h]
    BY <2>3
  <2>5. h \in Seq(Nat)
    BY <2>2
  <2> HIDE DEF h
  <2>6. scores' \in [Parcels -> Seq(Nat)]
    BY <1>2, <2>4, <2>5 DEF WorldOK
  <2> QED
    BY <1>1, <1>2, <2>3, <2>6 DEF WorldOK
<1>4. ASSUME NEW p \in Parcels, Delist(p) PROVE WorldOK'
  BY <1>1, <1>2, <1>4 DEF Delist, WorldOK
<1>5. ASSUME NEW r \in Requests, Request(r) PROVE WorldOK'
  <2> DEFINE job == [id |-> added + 1, left |-> r.left, exclude |-> r.exclude, stalled |-> FALSE]
  <2>1. /\ added' = added + 1 /\ waiting' = waiting \cup {job}
        /\ UNCHANGED <<now, listed, scores>>
    BY <1>5 DEF Request
  <2>2. job \in Jobs
    BY <1>2, JobFacts
  <2> HIDE DEF job
  <2> QED
    BY <1>1, <1>2, <2>1, <2>2 DEF WorldOK
<1>6. CASE Tick
  BY <1>1, <1>2, <1>6 DEF Tick, WorldOK
<1> QED
  BY <1>1, <1>3, <1>4, <1>5, <1>6

(* A job is taken, done, given back or lost.                                *)
LEMMA JobsKeep ==
  ASSUME DigestAssumption, ChoiceInv, Take \/ MarkSent \/ Throw \/ MailThenError \/ Crash
  PROVE  /\ ChoiceInv' /\ UNCHANGED <<world, leads>> /\ running'.at \in {"idle", "start"}
<1>1. WorldOK
  BY DEF ChoiceInv
<1>2. UNCHANGED <<world, leads>>
  BY DEF Take, MarkSent, Throw, MailThenError, Crash, tables
<1>3. CASE Take
  <2>1. PICK job \in waiting : waiting' = waiting \ {job} /\ running' = Run(job)
    BY <1>3 DEF Take
  <2>2. /\ running'.job = job /\ running'.at = "start" /\ running'.next = 1 /\ running'.picked = {}
    BY <2>1 DEF Run
  <2>3. WorldOK'
    BY <1>1, <1>2, <2>1, <2>2 DEF WorldOK, world
  <2>4. ChoiceInv'
    BY <2>2, <2>3, NoneHeld DEF Unbegun, Holding
  <2> QED
    BY <1>2, <2>2, <2>4
<1>4. CASE MarkSent \/ Throw \/ MailThenError \/ Crash
  <2>1. /\ running' = Idle
        /\ waiting' \subseteq waiting \/ waiting' = GiveBack
           \/ waiting' = waiting \cup {[running.job EXCEPT !.stalled = TRUE]}
    BY <1>4 DEF MarkSent, Throw, MailThenError, Crash
  <2>2. running'.job = Nobody /\ running'.at = "idle"
    BY <2>1 DEF Idle, Run
  <2>3. WorldOK'
    BY <1>1, <1>2, <2>1, <2>2, JobFacts DEF WorldOK, world
  <2>4. ChoiceInv'
    BY <2>2, <2>3, NoneHeld DEF Holding
  <2> QED
    BY <1>2, <2>2, <2>4
<1> QED
  BY <1>3, <1>4

LEMMA ChoiceInit == Init => ChoiceInv
<1> SUFFICES ASSUME Init PROVE ChoiceInv
  OBVIOUS
<1>1. running = Idle /\ now = 0 /\ added = 0 /\ listed = Parcels /\ waiting = {}
      /\ scores = [p \in Parcels |-> <<>>]
  BY DEF Init
<1>2. running.at = "idle" /\ running.job = Nobody /\ Nobody \in Jobs
  BY <1>1 DEF Idle, Run, Nobody, Jobs
<1>3. scores \in [Parcels -> Seq(Nat)]
  BY <1>1
<1> QED
  BY <1>1, <1>2, <1>3 DEF ChoiceInv, WorldOK, Holding, FreshLeftOutOnlyWhenFull

LEMMA ChoiceStepKeeps == DigestAssumption /\ IInv /\ ChoiceInv /\ [Next]_vars => ChoiceInv'
<1> SUFFICES ASSUME DigestAssumption, IInv, ChoiceInv, [Next]_vars PROVE ChoiceInv'
  OBVIOUS
<1>1. CASE \/ \E p \in Parcels : (\E t \in Totals : Score(p, t)) \/ Delist(p)
           \/ \E r \in Requests : Request(r)
           \/ Tick
  BY <1>1, WorldKeeps, HeldKeeps
<1>2. CASE Take \/ MarkSent \/ Throw \/ MailThenError \/ Crash
  BY <1>2, JobsKeep
<1>3. CASE ReadLatest \/ Consider \/ CreateDigest \/ Mail
  BY <1>3, ReadChooses, ConsiderChooses, CreateChooses, MailChooses
<1>4. CASE FileLead \/ UNCHANGED vars
  <2>1. UNCHANGED <<world, waiting, running>>
    BY <1>4 DEF FileLead, vars, world
  <2> QED
    BY <2>1, HeldKeeps DEF ChoiceInv, WorldOK, world
<1> QED
  BY <1>1, <1>2, <1>3, <1>4 DEF Next, WorkerStep

(* A digest leaves a parcel that was not sent lately out only if it is full of  *)
(* better ones, or if the request excludes more parcels than the surplus of the  *)
(* long list (selectTopLeads, preview), whatever is scored meanwhile.          *)
THEOREM OnlyFullDigestsLeaveOut == Spec => []FreshLeftOutOnlyWhenFull
<1>1. IInv /\ ChoiceInv /\ [Next]_vars => (IInv /\ ChoiceInv)'
  BY NextInv, ChoiceStepKeeps, DigestAssumption
<1>2. ChoiceInv => FreshLeftOutOnlyWhenFull
  BY DEF ChoiceInv
<1> QED
  BY <1>1, <1>2, InitInv, ChoiceInit, PTL DEF Spec

----------------------------------------------------------------------------
(* Whom the recipients see again.                                           *)

\* What an email carries is a lead of the moment it went out.
MailsAreLeads ==
  /\ \A l \in leads : l.at \in Nat
  /\ \A m \in mails : m.at \in Nat
  /\ \A m \in mails : \A p \in m.carries :
       p \in Parcels /\ \E l \in leads : l.parcel = p /\ l.at = m.at

Lately(m) == now - m.at <= Window

\* A run that chooses knows of all the parcels mailed lately, has its totals from the
\* record, and has picked such a parcel only if its scores have moved.
ChoosesMoved ==
  /\ \A m \in mails : \A p \in m.carries : Lately(m) => p \in running.recent
  /\ \A i \in DOMAIN running.rows :
       running.rows[i].total \in ToSet(scores[running.rows[i].parcel])
  /\ \A i \in running.picked :
       running.rows[i].parcel \in running.recent => Spread(running.rows[i].parcel) # {}

\* A run that files is the last, and files such a parcel only if its scores have moved.
FilesMoved ==
  /\ running.digest = Len(digests)
  /\ \A i \in running.picked, m \in mails :
       running.rows[i].parcel \in m.carries /\ Lately(m) => Spread(running.rows[i].parcel) # {}

RepeatInv ==
  /\ MailsAreLeads
  /\ running.at = "choosing" => ChoosesMoved
  /\ running.at = "filing" => FilesMoved
  /\ SteadyParcelsNotRepeated

(* Scores that have moved have moved for good.                              *)
LEMMA ScoresGrow ==
  ASSUME DigestAssumption, WorldOK, NEW p \in Parcels, NEW t \in Totals, Score(p, t), NEW q
  PROVE  /\ q \in Parcels => ToSet(scores[q]) \subseteq ToSet(scores'[q])
         /\ q \in Parcels /\ Spread(q) # {} => Spread(q)' # {}
<1>1. CASE q \in Parcels
  <2> DEFINE h == Append(scores[p], t)
  <2>1. scores' = [scores EXCEPT ![p] = h]
    BY DEF Score
  <2>2. scores[p] \in Seq(Nat) /\ t \in Nat
    BY DEF WorldOK, DigestAssumption
  <2>3. DOMAIN scores[p] \subseteq DOMAIN h /\ \A i \in DOMAIN scores[p] : h[i] = scores[p][i]
    <3>1. /\ DOMAIN scores[p] = 1..Len(scores[p]) /\ Len(scores[p]) \in Nat
          /\ DOMAIN h = 1..(Len(scores[p]) + 1)
      BY <2>2
    <3>2. \A i \in 1..Len(scores[p]) : h[i] = scores[p][i]
      BY <2>2
    <3> QED
      BY <3>1, <3>2
  <2>4. ToSet(scores[p]) \subseteq ToSet(h)
    BY <2>3, Zenon DEF ToSet
  <2> HIDE DEF h
  <2>5. ToSet(scores[q]) \subseteq ToSet(scores'[q])
    BY <1>1, <2>1, <2>4 DEF WorldOK
  <2>6. Spread(q) \subseteq Spread(q)'
    BY <2>5 DEF Spread
  <2> QED
    BY <2>5, <2>6
<1> QED
  BY <1>1

(* The parcels of the rows.                                                 *)
LEMMA RowParcels ==
  ASSUME RanksOK
  PROVE  /\ \A i \in DOMAIN running.rows : running.rows[i].parcel \in Parcels
         /\ running.picked \subseteq DOMAIN running.rows
<1>1. running.rows \in Seq(RowSet) /\ DOMAIN running.rows = 1..Len(running.rows)
      /\ Len(running.rows) \in Nat
  BY DEF RanksOK
<1>2. \A i \in DOMAIN running.rows : running.rows[i] \in RowSet
  BY <1>1
<1>3. running.picked \subseteq 1..(running.next - 1) /\ running.next \in 1..(Len(running.rows) + 1)
  BY DEF RanksOK
<1> QED
  BY <1>1, <1>2, <1>3 DEF RowSet

LEMMA ScoreRepeats ==
  ASSUME DigestAssumption, ChoiceInv, RepeatInv, NEW p \in Parcels, NEW t \in Totals, Score(p, t)
  PROVE  RepeatInv'
<1>1. WorldOK /\ UNCHANGED <<now, leads, digests, mails, running>>
  BY DEF ChoiceInv, Score, tables
<1>2. \A q \in Parcels : /\ ToSet(scores[q]) \subseteq ToSet(scores'[q])
                         /\ Spread(q) # {} => Spread(q)' # {}
  BY <1>1, ScoresGrow
<1>3. MailsAreLeads'
  BY <1>1 DEF RepeatInv, MailsAreLeads
<1>4. running.at \in Holding => /\ \A i \in DOMAIN running.rows : running.rows[i].parcel \in Parcels
                                /\ running.picked \subseteq DOMAIN running.rows
  BY RowParcels DEF ChoiceInv
<1>5. running.at = "choosing" => ChoosesMoved'
  BY <1>1, <1>2, <1>4 DEF RepeatInv, ChoosesMoved, Lately, Holding
<1>6. running.at = "filing" => FilesMoved'
  BY <1>1, <1>2, <1>4 DEF RepeatInv, FilesMoved, Lately, Holding
<1>7. SteadyParcelsNotRepeated'
  <2>1. \A m \in mails : \A q \in m.carries : q \in Parcels
    BY DEF RepeatInv, MailsAreLeads
  <2> QED
    BY <1>1, <1>2, <2>1 DEF RepeatInv, SteadyParcelsNotRepeated
<1> QED
  BY <1>1, <1>3, <1>5, <1>6, <1>7 DEF RepeatInv

(* A step that leaves leads, mails, digests, scores and the run alone, and the  *)
(* clock unless the run is over.                                            *)
LEMMA StillRepeats ==
  ASSUME RepeatInv, UNCHANGED <<scores, leads, mails, digests, running>>,
         UNCHANGED now \/ running = Idle
  PROVE  RepeatInv'
<1>1. MailsAreLeads' /\ SteadyParcelsNotRepeated'
  BY DEF RepeatInv, MailsAreLeads, SteadyParcelsNotRepeated, Spread
<1>2. CASE UNCHANGED now
  BY <1>1, <1>2 DEF RepeatInv, ChoosesMoved, FilesMoved, Lately, Spread
<1>3. CASE running = Idle
  BY <1>1, <1>3, IdleFacts DEF RepeatInv
<1> QED
  BY <1>2, <1>3

(* A lead is filed.                                                         *)
LEMMA FileRepeats ==
  ASSUME ChoiceInv, RepeatInv, FileLead
  PROVE  RepeatInv'
<1>1. PICK i \in running.picked :
        leads' = leads \cup
          {[parcel |-> running.rows[i].parcel, digest |-> running.digest, at |-> now]}
  BY DEF FileLead
<1>2. running.at = "filing" /\ now \in Nat /\ UNCHANGED <<now, scores, digests, mails, running>>
  BY DEF FileLead, world, ChoiceInv, WorldOK
<1> DEFINE l == [parcel |-> running.rows[i].parcel, digest |-> running.digest, at |-> now]
<1>3. leads' = leads \cup {l} /\ l.at = now
  BY <1>1
<1> HIDE DEF l
<1>4. MailsAreLeads'
  BY <1>2, <1>3 DEF RepeatInv, MailsAreLeads
<1> QED
  BY <1>2, <1>4
     DEF RepeatInv, ChoosesMoved, FilesMoved, Lately, Spread, SteadyParcelsNotRepeated

(* The recent leads are read: all parcels mailed lately are among them.       *)
LEMMA ReadRepeats ==
  ASSUME DigestAssumption, IInv, ChoiceInv, RepeatInv, ReadLatest
  PROVE  RepeatInv'
<1>1. /\ Unbegun' /\ running'.at = "choosing" /\ running'.recent = RecentLeads
      /\ \A i \in DOMAIN running'.rows :
           running'.rows[i].total \in ToSet(scores[running'.rows[i].parcel])
  BY ReadChooses
<1>2. UNCHANGED <<now, scores, leads, mails, digests>> /\ now \in Nat /\ Window \in Nat
  BY DEF ReadLatest, world, tables, ChoiceInv, WorldOK, DigestAssumption
<1>3. ASSUME NEW m \in mails, NEW p \in m.carries, Lately(m) PROVE p \in RecentLeads
  <2>1. PICK l \in leads : l.parcel = p /\ l.at = m.at
    BY DEF RepeatInv, MailsAreLeads
  <2>2. m.at \in Nat
    BY DEF RepeatInv, MailsAreLeads
  <2>3. l.at >= now - Window
    BY <1>2, <1>3, <2>1, <2>2 DEF Lately
  <2> QED
    BY <2>1, <2>3 DEF RecentLeads
<1>4. ChoosesMoved'
  BY <1>1, <1>2, <1>3 DEF ChoosesMoved, Lately, Unbegun
<1>5. MailsAreLeads' /\ SteadyParcelsNotRepeated'
  BY <1>2 DEF RepeatInv, MailsAreLeads, SteadyParcelsNotRepeated, Spread
<1> QED
  BY <1>1, <1>4, <1>5 DEF RepeatInv

(* A row whose parcel is let in again has moved.                            *)
LEMMA ReadmittedMoved ==
  ASSUME WorldOK, NEW row, row.parcel \in Parcels, row.total \in ToSet(scores[row.parcel]),
         Readmitted(row)
  PROVE  Spread(row.parcel) # {}
<1> DEFINE h == scores[row.parcel]
           before == h[Len(h) - 1]
<1>1. h \in Seq(Nat) /\ Len(h) >= 2 /\ row.total - before >= Delta
  BY DEF WorldOK, Readmitted
<1>2. Len(h) - 1 \in DOMAIN h
  BY <1>1
<1>3. before \in ToSet(h)
  BY <1>2 DEF ToSet
<1>4. <<row.total, before>> \in Spread(row.parcel)
  BY <1>1, <1>3 DEF Spread
<1> QED
  BY <1>4

LEMMA ConsiderRepeats ==
  ASSUME IInv, ChoiceInv, RepeatInv, Consider
  PROVE  RepeatInv'
<1> DEFINE i == running.next
           row == running.rows[i]
<1>1. /\ running.at = "choosing" /\ RanksOK /\ i \in DOMAIN running.rows
      /\ UNCHANGED <<world, tables, waiting>>
      /\ running'.at = "choosing" /\ running'.rows = running.rows
      /\ running'.recent = running.recent
      /\ running'.picked = IF Selects(row) THEN running.picked \cup {i} ELSE running.picked
  BY ConsiderFacts
<1>2. ChoosesMoved /\ WorldOK
  BY <1>1 DEF RepeatInv, ChoiceInv
<1>3. row.parcel \in Parcels /\ row.total \in ToSet(scores[row.parcel])
  BY <1>1, <1>2, RowParcels DEF ChoosesMoved
<1>4. Selects(row) /\ row.parcel \in running.recent => Spread(row.parcel) # {}
  BY <1>2, <1>3, ReadmittedMoved DEF Selects
<1> HIDE DEF i
<1>5. \A j \in running'.picked : running.rows[j].parcel \in running.recent =>
        Spread(running.rows[j].parcel) # {}
  BY <1>1, <1>2, <1>4 DEF ChoosesMoved
<1>6. UNCHANGED <<now, scores, leads, mails, digests>>
  BY <1>1 DEF world, tables
<1>7. ChoosesMoved'
  BY <1>1, <1>2, <1>5, <1>6 DEF ChoosesMoved, Lately, Spread
<1>8. MailsAreLeads' /\ SteadyParcelsNotRepeated'
  BY <1>6 DEF RepeatInv, MailsAreLeads, SteadyParcelsNotRepeated, Spread
<1> QED
  BY <1>1, <1>7, <1>8 DEF RepeatInv

LEMMA CreateRepeats ==
  ASSUME DigestAssumption, IInv, ChoiceInv, RepeatInv, CreateDigest
  PROVE  RepeatInv'
<1>1. /\ running'.at = "filing" /\ running'.digest = Len(digests')
      /\ running'.rows = running.rows /\ running'.picked \subseteq running.picked
  BY CreateChooses
<1>2. running.at = "choosing" /\ UNCHANGED <<now, scores, leads, mails>>
  BY DEF CreateDigest, world
<1>3. ChoosesMoved
  BY <1>2 DEF RepeatInv
<1>4. FilesMoved'
  BY <1>1, <1>2, <1>3 DEF ChoosesMoved, FilesMoved, Lately, Spread
<1>5. MailsAreLeads' /\ SteadyParcelsNotRepeated'
  BY <1>2 DEF RepeatInv, MailsAreLeads, SteadyParcelsNotRepeated, Spread
<1> QED
  BY <1>1, <1>4, <1>5 DEF RepeatInv

(* The email is the last digest's, and repeats a parcel only if it has moved.  *)
LEMMA EmailRepeats ==
  ASSUME IInv, ChoiceInv, RepeatInv, Mailable, mails' = mails \cup {Email},
         UNCHANGED <<scores, leads>>
  PROVE  MailsAreLeads' /\ SteadyParcelsNotRepeated'
<1>1. /\ Email.digest = running.digest /\ Email.at = now /\ now \in Nat
      /\ Email.carries = {running.rows[i].parcel : i \in running.picked}
  BY DEF Email, Picked, ChoiceInv, WorldOK
<1>2. running.at = "filing" /\ \A i \in running.picked : Filed(running, i)
  BY DEF Mailable
<1>3. FilesMoved /\ RanksOK
  BY <1>2 DEF RepeatInv, ChoiceInv, Holding
<1>4. ASSUME NEW p \in Email.carries
      PROVE  p \in Parcels /\ \E l \in leads : l.parcel = p /\ l.at = now
  <2>1. PICK i \in running.picked : p = running.rows[i].parcel
    BY <1>1
  <2>2. p \in LeadsOf(running.digest)
    BY <1>2, <2>1 DEF Filed
  <2>3. PICK l \in leads : l.digest = running.digest /\ l.parcel = p
    BY <2>2 DEF LeadsOf
  <2>4. l.at = now
    BY <1>2, <2>3 DEF IInv, FilingItsOwn
  <2>5. p \in Parcels
    BY <1>3, <2>1, RowParcels
  <2> QED
    BY <2>3, <2>4, <2>5
<1>5. MailsAreLeads'
  BY <1>1, <1>4 DEF RepeatInv, MailsAreLeads
<1>6. ASSUME NEW m \in mails', NEW n \in mails', NEW p \in m.carries \cap n.carries,
             m.digest < n.digest, n.at - m.at <= Window
      PROVE  Spread(p) # {}
  <2>1. CASE m \in mails /\ n \in mails
    BY <1>6, <2>1 DEF RepeatInv, SteadyParcelsNotRepeated
  <2>2. CASE m \in mails /\ n = Email
    <3>1. PICK i \in running.picked : p = running.rows[i].parcel
      BY <1>1, <2>2
    <3>2. Lately(m)
      BY <1>1, <1>6, <2>2 DEF Lately
    <3> QED
      BY <1>3, <2>2, <3>1, <3>2 DEF FilesMoved
  <2>3. CASE m = Email
    <3>1. m.digest = Len(digests)
      BY <1>1, <1>3, <2>3 DEF FilesMoved
    <3>2. n.digest \in Nat /\ Len(digests) \in Nat /\ n.digest <= Len(digests)
      <4>1. Len(digests) \in Nat
        BY DEF IInv, Numbered
      <4>2. n.digest \in Numbers
        BY <1>1, <1>2 DEF IInv, Numbered
      <4> QED
        BY <4>1, <4>2 DEF Numbers
    <3> QED
      BY <1>6, <3>1, <3>2
  <2> QED
    BY <2>1, <2>2, <2>3
<1>7. SteadyParcelsNotRepeated'
  BY <1>6 DEF SteadyParcelsNotRepeated, Spread
<1> QED
  BY <1>5, <1>7

LEMMA RepeatInit == Init => RepeatInv
BY IdleFacts DEF Init, RepeatInv, MailsAreLeads, SteadyParcelsNotRepeated

LEMMA RepeatStepKeeps == DigestAssumption /\ IInv /\ ChoiceInv /\ RepeatInv /\ [Next]_vars => RepeatInv'
<1> SUFFICES ASSUME DigestAssumption, IInv, ChoiceInv, RepeatInv, [Next]_vars PROVE RepeatInv'
  OBVIOUS
<1>1. ASSUME NEW p \in Parcels, NEW t \in Totals, Score(p, t) PROVE RepeatInv'
  BY <1>1, ScoreRepeats
<1>2. CASE (\E p \in Parcels : Delist(p)) \/ (\E r \in Requests : Request(r)) \/ Tick \/ UNCHANGED vars
  BY <1>2, StillRepeats DEF Delist, Request, Tick, vars, tables
<1>3. CASE Take \/ MarkSent \/ Throw \/ Crash
  <2>1. running'.at \in {"idle", "start"} /\ UNCHANGED <<world, leads>>
    BY <1>3, JobsKeep
  <2>2. UNCHANGED mails
    BY <1>3 DEF Take, MarkSent, Throw, Crash, tables
  <2>3. MailsAreLeads' /\ SteadyParcelsNotRepeated'
    BY <2>1, <2>2 DEF RepeatInv, MailsAreLeads, SteadyParcelsNotRepeated, Spread, world
  <2> QED
    BY <2>1, <2>3 DEF RepeatInv
<1>4. CASE ReadLatest \/ Consider \/ CreateDigest \/ FileLead
  BY <1>4, ReadRepeats, ConsiderRepeats, CreateRepeats, FileRepeats
<1>5. CASE Mail \/ MailThenError
  <2>1. /\ Mailable /\ UNCHANGED <<scores, leads>>
        /\ mails' = mails \cup {Email} \/ mails' = mails
        /\ running'.at \notin {"choosing", "filing"}
    <3>1. CASE Mail
      BY <3>1, StageFacts DEF Mail, world, IInv
    <3>2. CASE MailThenError
      BY <3>2, IdleFacts DEF MailThenError, world
    <3> QED
      BY <1>5, <3>1, <3>2
  <2>2. CASE mails' = mails \cup {Email}
    BY <2>1, <2>2, EmailRepeats DEF RepeatInv
  <2>3. CASE mails' = mails
    <3>1. UNCHANGED <<now, leads, mails>> /\ MailsAreLeads'
      BY <1>5, <2>1, <2>3 DEF Mail, MailThenError, world, RepeatInv, MailsAreLeads
    <3>2. SteadyParcelsNotRepeated'
      BY <2>1, <2>3 DEF RepeatInv, SteadyParcelsNotRepeated, Spread
    <3> QED
      BY <2>1, <3>1, <3>2 DEF RepeatInv
  <2> QED
    BY <2>1, <2>2, <2>3
<1> QED
  BY <1>1, <1>2, <1>3, <1>4, <1>5 DEF Next, WorkerStep

(* The recipients see a parcel again within the exclusion window only if its     *)
(* scores have moved by the delta (selectTopLeads, preview), for any parcels,    *)
(* scores, requests, retries, doubtful deliveries and crashes.                *)
THEOREM RepeatsHaveMoved == Spec => []SteadyParcelsNotRepeated
<1>1. Init => IInv /\ ChoiceInv /\ RepeatInv
  BY InitInv, ChoiceInit, RepeatInit
<1>2. IInv /\ ChoiceInv /\ RepeatInv /\ [Next]_vars => (IInv /\ ChoiceInv /\ RepeatInv)'
  BY NextInv, ChoiceStepKeeps, RepeatStepKeeps, DigestAssumption
<1>3. RepeatInv => SteadyParcelsNotRepeated
  BY DEF RepeatInv
<1> QED
  BY <1>1, <1>2, <1>3, PTL DEF Spec
=============================================================================
