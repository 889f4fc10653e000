----------------------------- MODULE OwnerPeople -----------------------------
(***************************************************************************)
(* People behind an owner: what a company's website gives away, how it and the *)
(* register of companies become Contact rows, the registered agents ranked by   *)
(* what they stand for, lists of owners to invite, and which parcel a capture   *)
(* from the road is filed under.                                              *)
(*                                                                           *)
(* An address of mail is a record [local, domain, dotted], NoMail if not given; a *)
(* name is a tuple of its words, NoName if not given.  Contact rows are a        *)
(* sequence, in the order the database keeps them.                              *)
(***************************************************************************)
EXTENDS Integers, FiniteSets, Sequences

LOCAL INSTANCE SequencesExt

None == "none"
NoName == <<>>
NoMail == [local |-> None, domain |-> None, dotted |-> FALSE]
Fewer(a, b) == IF a <= b THEN a ELSE b

----------------------------------------------------------------------------
\* Websites.  A page has people written out with their roles, mailto links, and
\* addresses and phones anywhere in it.

Guessed(email) == IF email.dotted THEN <<"guessed", email.local>> ELSE NoName

Person(name, role, email) == [name |-> name, role |-> role, email |-> email, phone |-> None]

\* extractContactsFromHtml: people as written, and a nameless one for each address
\* that is nobody's.  No person gets a phone.
People(page) ==
  LET written == {Person(p.name, p.role, p.email) : p \in page.written}
      linked == {Person(Guessed(e), "website_contact", e) : e \in page.links \ {p.email : p \in written}}
      rest == page.emails \ {p.email : p \in written \cup linked}
  IN written \cup linked \cup {Person(NoName, "website_contact", e) : e \in rest}

\* A page of the site that answers with a document of some length counts.
Readable(page) == page.up /\ page.long

\* lookupCompany: the first candidate that can be read, and the pages beside it; at
\* most most people (15).
Site(candidates, most) ==
  LET Good(c) == Readable(c.front) /\ c.html /\ ~c.guarded /\ ~c.blocked
      good == SelectSeq(candidates, Good)
      pages == IF good = <<>> THEN {} ELSE {good[1].front} \cup {p \in good[1].beside : Readable(p)}
      people == UNION {People(p) : p \in pages}
  IN [url |-> IF good = <<>> THEN None ELSE good[1].url,
      people |-> {S \in SUBSET people : Cardinality(S) = Fewer(most, Cardinality(people))},
      emails |-> UNION {p.emails : p \in pages},
      phones |-> UNION {p.phones : p \in pages}]

----------------------------------------------------------------------------
\* OwnersService.

Named(email) == IF email = NoMail THEN <<"website contact">> ELSE <<"website contact", email.local>>

\* upsertContact: a row with the same mail, or of the same name and source, is
\* updated, the first there is; else there is a new row.
Upserted(rows, c) ==
  LET Is == {i \in DOMAIN rows : \/ c.email # NoMail /\ rows[i].email = c.email
                                 \/ rows[i].name = c.name /\ rows[i].source = c.source}
      i == CHOOSE i \in Is : \A j \in Is : i <= j
  IN IF Is = {} THEN Append(rows, c)
     ELSE [rows EXCEPT ![i] = [@ EXCEPT !.name = c.name, !.role = c.role,
                                        !.email = IF c.email = NoMail THEN @ ELSE c.email,
                                        !.phone = IF c.phone = None THEN @ ELSE c.phone]]

Contact(name, role, email, phone, source) ==
  [name |-> name, role |-> role, email |-> email, phone |-> phone, source |-> source]

\* What the register gives: the agent, then the officers, or without any the members.
FromRegister(entity) ==
  (IF entity.agent = NoName THEN <<>> ELSE <<Contact(entity.agent, "registered_agent", NoMail, None, "sos")>>)
  \o (IF entity.officers # <<>>
      THEN [i \in DOMAIN entity.officers |-> Contact(entity.officers[i], "officer", NoMail, None, "sos")]
      ELSE [i \in DOMAIN entity.members |-> Contact(entity.members[i], "officer", NoMail, None, "sos")])

\* What the site gives: its people, then addresses that are nobody's, and if there
\* was neither, a phone under the owner's name.
FromSite(owner, people, site) ==
  LET told == [i \in DOMAIN people |->
                 Contact(IF people[i].name # NoName THEN people[i].name ELSE Named(people[i].email),
                         people[i].role, people[i].email, people[i].phone, "website")]
      rest == SetToSeq(site.emails \ {people[i].email : i \in DOMAIN people})
      unnamed == [i \in DOMAIN rest |-> Contact(Named(rest[i]), "website_contact", rest[i], None, "website")]
      orphan == {Contact(owner, "website_contact", NoMail, p, "website") : p \in site.phones}
  IN IF told \o unnamed = <<>> /\ orphan # {} THEN <<CHOOSE c \in orphan : TRUE>> ELSE told \o unnamed

\* refreshPeople: the register first, then the site.  Either may fail at any of its
\* rows; what was written before stays, and the answer says so.
Refreshed(owner, rows, entity, people, site, upTo) ==
  LET FirstOf(contacts, n) == SubSeq(contacts, 1, Fewer(n, Len(contacts)))
  IN FoldLeft(Upserted, rows, FirstOf(FromRegister(entity), upTo.register)
                              \o FirstOf(FromSite(owner, people, site), upTo.site))

----------------------------------------------------------------------------
\* AgentsService.rank: contacts first, then what the register says of owners in stock;
\* an owner and a parcel count once for an agent.

Stock(parcels, owner) == {p \in parcels : p.owner = owner /\ p.active /\ p.commercial}

\* Who stands for whom; a contact without a name is of the agent Unknown.
Stands(contacts, owners, parcels) ==
  {[agent |-> IF c.name = NoName THEN <<"Unknown">> ELSE c.name, owner |-> c.owner] :
     c \in {x \in contacts : x.role = "registered_agent"}}
  \cup {[agent |-> o.agent, owner |-> o.id] : o \in {x \in owners : x.agent # NoName /\ Stock(parcels, x.id) # {}}}

AgentRow(stands, parcels, agent) ==
  LET of == {s.owner : s \in {x \in stands : x.agent = agent}}
      its == UNION {Stock(parcels, o) : o \in of}
  IN [name |-> agent, owners |-> Cardinality(of), parcels |-> Cardinality(its),
      score |-> FoldLeft(LAMBDA sum, p : sum + p.score, 0, SetToSeq(its))]

AgentRows(contacts, owners, parcels, blocked) ==
  LET stands == Stands(contacts, owners, parcels)
  IN {AgentRow(stands, parcels, agent) : agent \in {s.agent : s \in stands} \ blocked}

Outranks(a, b) == a.parcels > b.parcels \/ (a.parcels = b.parcels /\ a.score > b.score)

RankedAgents(contacts, owners, parcels, blocked, limit) ==
  LET rows == AgentRows(contacts, owners, parcels, blocked)
  IN {r \in rows : Cardinality({x \in rows : Outranks(x, r)}) < Fewer(limit, 100)}

----------------------------------------------------------------------------
\* InviteListService.build: of the parcels in stock not worked lately, three times as
\* many as are wanted are read in no order, and only then filtered and sorted by score.

Invitable(parcels, q) ==
  {p \in parcels : /\ p.active /\ p.commercial
                   /\ q.use # "any" => p.use = q.use
                   /\ q.type = "entity" => p.entity
                   /\ q.type = "individual" => ~p.entity
                   /\ q.type = "absentee" => p.absentee
                   /\ ~p.workedLately}

InviteLists(parcels, q) ==
  LET all == Invitable(parcels, q)
      limit == Fewer(q.limit, 1000)
      Top(S) == {p \in S : Cardinality({r \in S : r.score > p.score}) < limit}
  IN {Top({p \in taken : p.score >= q.minScore}) :
        taken \in {S \in SUBSET all : Cardinality(S) = Fewer(3 * limit, Cardinality(all))}}

----------------------------------------------------------------------------
\* DrivebyService: the parcel named, or else the nearest within 250 metres of those
\* read, at most most (80) in no order.

Nearest(parcels, distance, most) ==
  LET near == {p \in parcels : p.active /\ p.commercial /\ distance[p.pin] <= 1000}
  IN {LET close == {p \in taken : distance[p.pin] <= 250}
      IN {p \in close : \A r \in close : distance[p.pin] <= distance[r.pin]} :
        taken \in {S \in SUBSET near : Cardinality(S) = Fewer(most, Cardinality(near))}}

\* The ways a capture may be filed, none if its place is not on earth or its photo too
\* large: a pin nobody has stays in the answer, but the capture belongs to no parcel, and
\* no signal and no note come of it.  The award is ProgressAwards'.
Captured(parcels, input, distance, most) ==
  LET Filed(found, said) ==
        [pin |-> said, parcel |-> {p.pin : p \in found}, signals |-> Cardinality(found),
         notes |-> IF input.note THEN Cardinality(found) ELSE 0]
  IN IF ~input.valid THEN {}
     ELSE IF input.pin # None THEN {Filed({p \in parcels : p.pin = input.pin}, input.pin)}
     ELSE UNION {IF found = {} THEN {Filed({}, None)} ELSE {Filed({p}, p.pin) : p \in found} :
                   found \in Nearest(parcels, distance, most)}

----------------------------------------------------------------------------
\* Lists pasted by the agent: a name that is not too short is looked for among the
\* owners, as it is or within a longer name, three of them at most and five parcels of
\* each.  For probate the longer name must not be a company's.

Namesakes(owners, row, companiesToo) ==
  {o \in owners : o.name = row.name \/ (row.name \in o.within /\ (companiesToo \/ ~o.entity))}

PasteHits(row, owners, parcels, companiesToo) ==
  LET found == IF row.short THEN {} ELSE Namesakes(owners, row, companiesToo)
      Their(taken) == UNION {Stock(parcels, o.id) : o \in taken}
      AFew(S, o) == Cardinality(S \cap Stock(parcels, o.id)) = Fewer(5, Cardinality(Stock(parcels, o.id)))
  IN UNION {{S \in SUBSET Their(taken) : \A o \in taken : AFew(S, o)} :
              taken \in {U \in SUBSET found : Cardinality(U) = Fewer(3, Cardinality(found))}}

\* A lien's second field is its amount if it begins with a digit, the third its case.
LienRow(fields) ==
  [name |-> fields[1], amount |-> IF Len(fields) > 1 /\ fields[2] \in Nat THEN fields[2] ELSE None,
   case |-> IF Len(fields) > 2 THEN fields[3] ELSE None]

\* The signal of an estate counts from the day it is pasted; visible, the day from which
\* it should be used, is written into it and read by nobody.
ProbateSignal(pin, today, delay) ==
  [pin |-> pin, type |-> "probate_estate", found |-> today, ends |-> today + 400, visible |-> today + delay]
=============================================================================
