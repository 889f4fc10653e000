--------------------------- MODULE ParcelInventory ---------------------------
(***************************************************************************)
(* What the parcel table promises, however it is filled: pulls come one after *)
(* the other, each sees parcels and may in the end retire some it has not      *)
(* seen, if it saw any; nothing else takes a parcel out of use; a recovery      *)
(* brings some of them back.  What a parcel is, is left open.                   *)
(***************************************************************************)
VARIABLES
  known,   \* parcels in the table
  active,  \* those in use
  seen     \* parcels the latest pull has seen

vars == <<known, active, seen>>

Init ==
  /\ active \subseteq known
  /\ seen = {}

NewPull ==
  /\ seen' = {}
  /\ UNCHANGED <<known, active>>

See(pin) ==
  /\ known' = known \cup {pin}
  /\ active' = active \cup {pin}
  /\ seen' = seen \cup {pin}

\* Only what was not seen is retired; a pull that saw nothing retires nothing.
Retire ==
  /\ seen # {}
  /\ active \cap seen \subseteq active' /\ active' \subseteq active
  /\ UNCHANGED <<known, seen>>

Recover ==
  /\ active \subseteq active' /\ active' \subseteq known
  /\ UNCHANGED <<known, seen>>

Next == NewPull \/ (\E pin \in known' : See(pin)) \/ Retire \/ Recover

Spec == Init /\ [][Next]_vars
=============================================================================
