----------------------------- MODULE MCAgentDesk -----------------------------
EXTENDS AgentDesk, TLC

MCTimes == [e \in Events |-> {5, 8}]
MCDrafted == [e \in Events |-> Names]
Symmetry == Permutations(Slots)

\* The desks share no rows.  The run explores each of them with the other at rest, and
\* that of events with two requests or jobs.
None(kinds) == \A s \in Slots : task[s].at \notin kinds

LeadsAtRest == Rows = {} /\ webhook /\ None({"create", "push", "answer"})

EventsAtRest ==
  /\ None({"feed", "roster", "save", "match", "store", "brief", "rematch"})
  /\ now = 0 /\ due /\ owners = {}
  /\ \A e \in Events : status[e] = "none" /\ starts[e] = 5

OneDesk == EventsAtRest \/ (LeadsAtRest /\ calls <= 2)
MCHits == [n \in Names |-> [exact |-> Owners, contact_name |-> {}, trigram |-> Owners, company |-> {}]]
=============================================================================
