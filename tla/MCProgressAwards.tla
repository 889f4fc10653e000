-------------------------- MODULE MCProgressAwards --------------------------
EXTENDS ProgressAwards, TLC

CONSTANTS u, v, w

Call == [action |-> "connected", entity |-> "lead1"]
Call2 == [action |-> "connected", entity |-> "lead2"]
Deal == [action |-> "deal", entity |-> "lead1"]

AllKeys == {Call, Call2, Deal}
Rewards == [connected |-> 50, deal |-> 100]
Counts == [connector |-> [action |-> "connected", atLeast |-> 2],
           closer |-> [action |-> "deal", atLeast |-> 1]]
Streaks == [streak_2 |-> 2]
Levels == [level_2 |-> 2]

Interchangeable == Permutations(Procs)
=============================================================================
