--------------------------- MODULE MCEnrichmentPass ---------------------------
(* Two parcels, the first of a company and of the top; each list but that of deeds is empty. *)
EXTENDS EnrichmentPass, TLC

P == {"p1", "p2"}
OwnerAll == {"firm", "person"}
OwnerOfP == [p \in P |-> IF p = "p1" THEN "firm" ELSE "person"]

Document(pin, finds, deed) == [pin |-> pin, finds |-> finds, deed |-> deed]

\* Three documents, of which a page holds two: a deed of a parcel, one of a parcel
\* that is not in the table, and a document of another kind.
Recordings == {Document("p1", {}, TRUE), Document("elsewhere", {}, TRUE), Document("p1", {}, FALSE)}
Listing == [src \in Lists |-> IF src = "deeds" THEN Recordings ELSE {}]

MortgagesOf == [p \in P |-> {"overdue"}]
ClusterOf == [o \in OwnerAll |-> o]

Symmetry == Permutations(Slots)

\* What fails, and what the county changes, does so while only passes are going on.
PassesAlone == \A s \in Slots : task[s] = Idle \/ s \in Passing
OneTrouble == PassesAlone \/ (failures = 0 /\ unpaid = Owing)
=============================================================================
