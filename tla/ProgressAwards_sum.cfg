SPECIFICATION Spec
CONSTANTS
  u = u
  v = v
  w = w
  Procs = {u, v}
  Keys <- AllKeys
  Reward <- Rewards
  CountBadges <- Counts
  StreakBadges <- Streaks
  LevelBadges <- Levels
  MaxDay = 1
  MaxFailures = 0
SYMMETRY Interchangeable
INVARIANTS
  XpAddsUp
CHECK_DEADLOCK FALSE
