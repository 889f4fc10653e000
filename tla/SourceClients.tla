---------------------------- MODULE SourceClients ----------------------------
(***************************************************************************)
(* The clients of the outside sources, as what they return.  A source is up   *)
(* when it is switched on, set up, and answers with something that can be     *)
(* read; the clients of lists turn everything else into an empty list.         *)
(*                                                                           *)
(* A hit is one thing a source shows: the pin it names, the parcels its       *)
(* address or name finds in the table, and whether it speaks of vacancy.       *)
(***************************************************************************)
EXTENDS Integers, FiniteSets

\* A page read for the pins in it, and a page read for addresses or names: what stood
\* together on the page comes apart.
PinsOf(shown) == {[h EXCEPT !.finds = {}] : h \in {g \in shown : g.pin # "none"}}
TextsOf(shown) == {[h EXCEPT !.pin = "none"] : h \in {g \in shown : g.finds # {}}}

\* fetchTaxSaleList, fetchForeclosureRoster: pages read for pins.
TaxSaleList(up, shown) == IF up THEN PinsOf(shown) ELSE {}
ForeclosureRoster(up, shown) == IF up THEN PinsOf(shown) ELSE {}

\* fetchRecentRezones: agendas read for pins and for addresses.
RecentRezones(up, shown) == IF up THEN PinsOf(shown) \cup TextsOf(shown) ELSE {}

\* fetchRecentCommercialPermits, fetchActiveListings: rows of a feed.
RecentPermits(up, shown) == IF up THEN shown ELSE {}
ActiveListings(up, shown) == IF up THEN shown ELSE {}

\* fetchRecentEstates: rows of a feed, or the names on a page.
RecentEstates(up, isFeed, shown) ==
  IF ~up THEN {} ELSE IF isFeed THEN shown ELSE TextsOf(shown)

\* searchRecentDeeds: of the documents found, those that are deeds and name a party.
DeedsOf(docs) == {d \in docs : d.deed}

\* lookupZone and isHighRiskFloodZone: no answer is no zone.
HighRisk(up, flooded) == up /\ flooded

\* lookupByPin of the assessor: the first of three pages that shows the parcel, or
\* only the link; there is always an answer.
Assessed(ps) == ps

\* resolveEntity: a company the register does not know is no error; a client that
\* has no key knows none.
RegisterAnswers == {"known", "unknown"}

\* lookup of the skip trace.
TraceAnswers == {"found", "nobody"}
=============================================================================
