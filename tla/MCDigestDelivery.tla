-------------------------- MODULE MCDigestDelivery --------------------------
EXTENDS DigestDelivery, TLC

CONSTANTS p1, p2, p3

Interchangeable == Permutations(Parcels)

\* Manual jobs that exclude nothing, one parcel or two.
Excluding == {[left |-> 2, exclude |-> e] : e \in {s \in SUBSET Parcels : Cardinality(s) <= 2}}

Manual == {[left |-> 2, exclude |-> {}]}
=============================================================================
