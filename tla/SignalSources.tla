---------------------------- MODULE SignalSources ----------------------------
(***************************************************************************)
(* What the enrichment makes of each outside source: which rows of the Signal *)
(* table the hits its client returns ask for.                                 *)
(***************************************************************************)
EXTENDS SourceClients

CONSTANTS
  Parcels,    \* pins of the active commercial parcels
  Owners,     \* their owners
  OwnerOf,    \* OwnerOf[p]: the owner of parcel p
  Hits,       \* Hits[src]: what source src shows
  EstateFeed, \* are the estates a feed, or a page?
  Mortgages,  \* Mortgages[p]: how the mortgages recorded for p's owner mature
  Flooded,    \* parcels the flood layer puts in a zone of high risk
  Entities,   \* owners that are companies
  Dissolved,  \* companies whose registration has lapsed
  Cluster,    \* Cluster[o]: the mailing cluster of owner o
  Agent       \* Agent[o]: the registered agent of company o

Lists == {"tax_sale", "foreclosure", "deeds", "zoning", "permits", "listings", "probate", "liens"}

ASSUME SourceAssumption ==
  /\ OwnerOf \in [Parcels -> Owners]
  /\ DOMAIN Hits = Lists
  /\ \A src \in Lists : \A h \in Hits[src] :
       {"pin", "finds"} \subseteq DOMAIN h /\ h.finds \subseteq Parcels
  \* an address finds the first parcel of that address only
  /\ \A src \in {"zoning", "permits"} : \A h \in Hits[src] : Cardinality(h.finds) <= 1
  /\ EstateFeed \in BOOLEAN
  /\ Mortgages \in [Parcels -> SUBSET {"far", "soon", "overdue"}]

Types == {"tax_delinquent", "tax_sale", "foreclosure", "recent_seller", "deed_comp", "zoning_change",
          "permit_activity", "vacancy_proxy", "nearby_listing", "probate_estate", "related_entity",
          "sos_resolved", "sos_dissolved", "mortgage_maturity", "flood_zone", "judgment_lien",
          "property_scrape", "drive_by"}

\* Types written without a day to expire.
Lasting == {"tax_delinquent", "tax_sale", "related_entity", "sos_resolved", "sos_dissolved",
            "flood_zone", "property_scrape"}

\* A row asked for: what comes with it is a sale to file or a lead to open.
Wish(p, t, with) == [parcel |-> p, type |-> t, with |-> with,
                     until |-> IF t \in Lasting THEN "never" ELSE "later"]
Wishes(ps, t) == {Wish(p, t, "nothing") : p \in ps}

Named(h) == {h.pin} \cap Parcels
ByPin(hits) == UNION {Named(h) : h \in hits}

\* refreshTaxSignalsFromParcels: every parcel that owes tax and has no paid date.
TaxWishes(unpaid) == Wishes(unpaid, "tax_delinquent")

\* refreshDistressLists: both lists go by pin only.
TaxSaleWishes(hits) == Wishes(ByPin(hits), "tax_sale")
ForeclosureWishes(hits) == Wishes(ByPin(hits), "foreclosure")

\* monitorRecentDeeds: by pin a seller and a comparable sale; and, in any case, the
\* grantor's other parcels, whose owner may look for a replacement.
DeedWishes(hits) ==
  Wishes(ByPin(hits), "recent_seller")
    \cup {Wish(p, "deed_comp", "sale") : p \in ByPin(hits)}
    \cup {Wish(p, "recent_seller", "lead") : p \in UNION {h.finds : h \in hits}}

\* refreshPlanningSignals: a pin that is not in the table is not looked for by address.
PlanningWishes(hits) ==
  Wishes(UNION {IF h.pin = "none" THEN h.finds ELSE Named(h) : h \in hits}, "zoning_change")

\* The parcel named, or else those found.
Found(h) == IF Named(h) # {} THEN Named(h) ELSE h.finds

\* refreshPermitSignals: by pin or else by address; some permits speak of vacancy.
PermitWishes(hits) ==
  Wishes(UNION {Found(h) : h \in hits}, "permit_activity")
    \cup Wishes(UNION {Found(h) : h \in {g \in hits : g.vacant}}, "vacancy_proxy")

\* refreshListingSignals: the listed parcel itself, or else all within the radius.
ListingWishes(hits) ==
  Wishes(UNION {Found(h) : h \in hits}, "nearby_listing") \cup Wishes(ByPin(hits), "vacancy_proxy")

\* refreshProbateSignals: by pin, or else parcels of people of the name.
ProbateWishes(hits) == Wishes(UNION {Found(h) : h \in hits}, "probate_estate")

\* ingestJudgmentLiens: parcels of owners of the name.
LienWishes(hits) == Wishes(UNION {h.finds : h \in hits}, "judgment_lien")

\* rebuildClusters: owners of one mailing cluster, or of one registered agent as
\* far as agents are known, and the parcels they hold.
RelatedOwners(o, resolved) ==
  {q \in Owners \ {o} : Cluster[q] = Cluster[o] \/ ({o, q} \subseteq resolved /\ Agent[q] = Agent[o])}

GraphWishes(resolved) ==
  Wishes({p \in Parcels : RelatedOwners(OwnerOf[p], resolved) # {}}, "related_entity")

\* refreshFloodForTopLeads: those in a zone of high risk.
FloodWishes(ps) == Wishes(ps, "flood_zone")

\* The company register's answer.
SosWishes(p) ==
  Wishes({p}, IF OwnerOf[p] \in Dissolved THEN "sos_dissolved" ELSE "sos_resolved")

\* inferMortgageMaturityDates, isMaturityWithinMonths: a maturity within eighteen
\* months or in the last month; the row expires at the maturity, which may lie
\* behind already.
MortgageWishes(p, answer) ==
  CASE answer = "soon" -> Wishes({p}, "mortgage_maturity")
    [] answer = "overdue" -> {[Wish(p, "mortgage_maturity", "nothing") EXCEPT !.until = "past"]}
    [] OTHER -> {}
=============================================================================
