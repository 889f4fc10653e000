--------------------------- MODULE MCArcGisSlots ---------------------------
(* The callers of the request limiter are the model values of each .cfg.     *)
EXTENDS ArcGisSlots
=============================================================================
