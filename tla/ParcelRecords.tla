---------------------------- MODULE ParcelRecords ----------------------------
(***************************************************************************)
(* What becomes of a row of the county's layer: the parcel, its owner and the *)
(* keys and flags derived from them, and what the scoring run later reads back *)
(* from the stored address.                                                   *)
(*                                                                           *)
(* Texts are abstract.  Two addresses are equal when, normalised, one contains *)
(* the other; "box" is any post box, None a field that is empty.               *)
(***************************************************************************)
EXTENDS ScoreRules, Sequences, FiniteSets

None == "none"

\* buildMailingAddress: the parts that are given, in order.
MailingAddress(row) ==
  LET Is(x) == x # None IN SelectSeq(<<row.street, row.city, row.state, row.zip>>, Is)

\* Owners are one cluster if they share address, state and zip; those without any
\* share the cluster of no address.
ClusterKey(row) ==
  IF MailingAddress(row) = <<>> /\ row.state = None /\ row.zip = None THEN <<"UNKNOWN">>
  ELSE <<MailingAddress(row), row.state, row.zip>>

\* What isAbsenteeOwner is asked about an owner with mail to a street.
Mailed(street, row) ==
  [street |-> CASE street = None -> None [] street = "box" -> "box" [] OTHER -> "street",
   situs |-> IF row.situs = None THEN None ELSE "street",
   alike |-> street = row.situs,
   state |-> CASE row.state = None -> None [] row.state = "SC" -> "home" [] OTHER -> "away"]

\* The mapper asks about the row's street ...
MailSeen(row) == Mailed(row.street, row)

\* ... the scoring run about what stands before the first comma of the stored address.
MailStored(row) ==
  Mailed(IF MailingAddress(row) = <<>> THEN None ELSE Head(MailingAddress(row)), row)

\* mapArcGisAttributes: a row without a pin is dropped.
Mapped(row, propTypes, landUses) ==
  IF row.pin = None THEN {}
  ELSE {[pin |-> row.pin,
         situs |-> row.situs,
         isCommercial |-> row.prop \in propTypes \/ row.use \in landUses,
         nameRaw |-> IF row.name = None THEN "UNKNOWN" ELSE row.name,
         isEntity |-> row.name # None /\ row.entity,
         isAbsentee |-> Away(MailSeen(row)),
         clusterKey |-> ClusterKey(row)]}

\* Parcels that count for an owner: its own, and those of the owners it is related to.
Related(o, own, kin) == 
  own[o] + LET n[K \in SUBSET kin] ==
                 IF K = {} THEN 0 ELSE LET k == CHOOSE k \in K : TRUE IN own[k] + n[K \ {k}]
           IN n[kin]

----------------------------------------------------------------------------
\* Submarkets: boxes in hundredths of a degree; the first one that holds the point.

Box(id, south, north, west, east) ==
  [id |-> id, south |-> south, north |-> north, west |-> west, east |-> east]

GREENVILLE_SUBMARKETS ==
  <<Box("downtown", 3484, 3486, -8241, -8238), Box("woodruff", 3480, 3486, -8230, -8220),
    Box("airport", 3485, 3495, -8228, -8215), Box("pelham", 3484, 3490, -8235, -8228),
    Box("haywood", 3482, 3486, -8235, -8230), Box("westside", 3480, 3486, -8245, -8241),
    Box("north", 3490, 3510, -8250, -8225)>>

Holds(b, lat, lon) == b.south <= lat /\ lat <= b.north /\ b.west <= lon /\ lon <= b.east

assignSubmarket(located, lat, lon) ==
  LET In == {i \in DOMAIN GREENVILLE_SUBMARKETS : Holds(GREENVILLE_SUBMARKETS[i], lat, lon)}
  IN IF ~located THEN None
     ELSE IF In = {} THEN "county_other"
     ELSE GREENVILLE_SUBMARKETS[CHOOSE i \in In : \A j \in In : i <= j].id
=============================================================================
