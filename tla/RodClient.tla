------------------------------ MODULE RodClient ------------------------------
(***************************************************************************)
(* The client of the Register of Deeds: one session kept for the life of the *)
(* process, a cache of answers, and a web socket opened for each search.       *)
(*                                                                           *)
(* There is a search for the recent deeds, and one per parcel for its owner's  *)
(* latest mortgage.  Each asks for one page of documents of every kind, in no  *)
(* order of the client's, and picks from the page what it looks for.  What is  *)
(* recorded does not change in the model; what the client answers may.         *)
(***************************************************************************)
EXTENDS DeskTasks, SourceClients

CONSTANTS
  Keys,      \* what mortgages are searched for: parcels
  Docs,      \* documents recorded in the days the search looks back
  PageSize   \* documents of one page

ASSUME RodAssumption == PageSize \in Nat \ {0}

VARIABLES
  rodReady,  \* is the scraper switched on, with credentials?
  session,   \* the login kept: "none", "live" or, unnoticed, "expired"
  cache,     \* mortgages kept, by key; "none" without an answer
  recent     \* the answer kept about recent deeds, if there is one

rodVars == <<rodReady, session, cache, recent>>

RodInit ==
  /\ rodReady \in BOOLEAN
  /\ session = "none"
  /\ cache = [k \in Keys |-> "none"]
  /\ recent = {}

\* ensureSession: a session once kept is never asked whether it is still good.
Session == IF session = "none" THEN "live" ELSE session

\* What may come of one search on the socket: an answer, one without documents where
\* they are looked for, a rejection, an error, a close before any of these, or none
\* of them within the timeout; whichever is first settles it.
Outcomes == {"fulfilled", "blank", "rejected", "error", "closed", "timeout"}

\* A search fails of itself, or because the session has expired.
SearchOutcome(o) ==
  /\ o \in Outcomes
  /\ IF o = "fulfilled" THEN session # "expired" /\ UNCHANGED failures
     ELSE IF session = "expired" THEN o = "rejected" /\ UNCHANGED failures
     ELSE Fails

\* A page of the documents: all of them if they fit.
IsPage(docs) ==
  IF Cardinality(Docs) <= PageSize THEN docs = Docs
  ELSE docs \subseteq Docs /\ Cardinality(docs) = PageSize

\* An answer about deeds: the deeds, and (a history) where they come from.
Answer(how, deeds) == [how |-> how, deeds |-> deeds]

\* docsFromPayload, isDeedDoc: the deeds of the page; an answer without documents
\* counts as none.
AnswerOf(o, answer) ==
  CASE o = "fulfilled" -> \E docs \in SUBSET Docs : IsPage(docs) /\ answer = Answer("page", DeedsOf(docs))
    [] o = "blank" -> answer = Answer("blank", {})
    [] OTHER -> answer = Answer("thrown", {})

\* searchRecentDeeds: an answer kept is given without asking; what goes wrong is
\* thrown, and not remembered.
SearchDeeds(answer) ==
  \/ ~rodReady /\ answer = Answer("off", {}) /\ UNCHANGED <<rodVars, failures>>
  \/ rodReady /\ answer \in recent /\ UNCHANGED <<rodVars, failures>>
  \/ /\ rodReady /\ recent = {}
     /\ \E o \in Outcomes : SearchOutcome(o) /\ AnswerOf(o, answer)
     /\ recent' = IF answer.how = "thrown" THEN {} ELSE {answer}
     \* a login that fails leaves no session
     /\ session' \in {Session} \cup (IF answer.how = "thrown" THEN {session} ELSE {})
     /\ UNCHANGED <<rodReady, cache>>

\* findLatestMortgage: the first mortgage of the page, if one is on it; what goes
\* wrong is remembered as no mortgage, for an hour.
FindMortgage(k, recorded, answer) ==
  \/ ~rodReady /\ answer = "nothing" /\ UNCHANGED <<rodVars, failures>>
  \/ rodReady /\ cache[k] # "none" /\ answer = cache[k] /\ UNCHANGED <<rodVars, failures>>
  \/ /\ rodReady /\ cache[k] = "none"
     /\ \E o \in Outcomes :
          /\ SearchOutcome(o)
          /\ answer \in {"nothing"} \cup (IF o = "fulfilled" THEN recorded ELSE {})
          /\ session' \in {Session} \cup (IF o \in {"fulfilled", "blank"} THEN {} ELSE {session})
     /\ cache' = [cache EXCEPT ![k] = answer]
     /\ UNCHANGED <<rodReady, recent>>

\* The site forgets the session; the client does not know.
SessionExpires ==
  /\ session = "live"
  /\ Fails
  /\ session' = "expired"
  /\ UNCHANGED <<rodReady, cache, recent>>

\* The answers kept grow too old.
CacheAges ==
  /\ recent # {} \/ \E k \in Keys : cache[k] # "none"
  /\ cache' = [k \in Keys |-> "none"] /\ recent' = {}
  /\ Fails
  /\ UNCHANGED <<rodReady, session>>

\* A new process has neither session nor cache.
RodForgets ==
  session' = "none" /\ cache' = [k \in Keys |-> "none"] /\ recent' = {} /\ UNCHANGED rodReady
=============================================================================
