\* Two requests at a time, two calls and a deal over three days, one failure.
SPECIFICATION Spec
CONSTANTS
  u = u
  v = v
  w = w
  Procs = {u, v}
  Keys <- AllKeys
  Reward <- Rewards
  CountBadges <- Counts
  StreakBadges <- Streaks
  LevelBadges <- Levels
  MaxDay = 2
  MaxFailures = 1
SYMMETRY Interchangeable
INVARIANTS
  TypeOK
  XpIsEarned
  CountedOnce
  StreakIsEarned
  BadgesDeserved
  CountBadgesUnlocked
CHECK_DEADLOCK FALSE
