--------------------------- MODULE MCParcelSync ----------------------------
(* Four rows: one without a PIN, two of one parcel.  The first sync failed    *)
(* at once, or the last one saw everything.                                  *)
EXTENDS ParcelSync

MCRows == 1..4
MCPinOf ==
  [r \in MCRows |-> CASE r = 1 -> "p1" [] r = 2 -> "none" [] r \in {3, 4} -> "p2"]

MCLayers == {MCRows, {1, 2, 3}, {3, 4}, {}}

MCPasts ==
  {[known |-> {}, active |-> {}, commercial |-> {},
    runs |-> <<[source |-> "daily", status |-> "failed", upserted |-> 0]>>]}
  \cup
  {[known |-> {"p1", "p2"}, active |-> a[1], commercial |-> a[2],
    runs |-> <<[source |-> "daily", status |-> "success", upserted |-> 3]>>]
     : a \in {{}, {"p1", "p2"}} \X {{"p1"}, {"p1", "p2"}}}
=============================================================================
