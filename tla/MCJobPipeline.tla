--------------------------- MODULE MCJobPipeline ---------------------------
(* The jobs that the morning crons add, with one attempt.                   *)
EXTENDS JobPipeline

Cron(name) == [name |-> name, left |-> 1]

MCTriggers == {Cron("parcels.dailySync"), Cron("rod.watch")}
=============================================================================
