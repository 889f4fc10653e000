------------------------------ MODULE AgentDesk ------------------------------
(***************************************************************************)
(* The agent's desk: the requests about leads and those about events, with   *)
(* the push to the CRM and the morning briefs beside them, in one process.    *)
(* They share no rows, only the process: a restart ends all of them.          *)
(***************************************************************************)
EXTENDS LeadDesk, EventDesk

vars == <<deskVars, leadVars, eventVars>>

Init == DeskInit /\ LeadInit /\ EventInit

Restart ==
  /\ Fails
  /\ task' = [s \in Slots |-> Idle]
  /\ LeadRestart
  /\ EventRestart
  /\ UNCHANGED calls

Next ==
  \/ LeadNext /\ UNCHANGED eventVars
  \/ EventNext /\ UNCHANGED leadVars
  \/ \E s \in Slots : Award(s) /\ UNCHANGED <<leadVars, eventVars>>
  \/ Restart

Spec == Init /\ [][Next]_vars
=============================================================================
