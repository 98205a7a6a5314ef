SPECIFICATION HSpec
CONSTANTS
  Store = {ica}
  Background = scheduler
  Interactive = {u1, u2}
  NoStore = none
  SchedDelay = 3
  SchedJitter = 1
  UserDelay = 1
  UserJitter = 1
  MaxWait = 2
  MaxGrants = 4
  Horizon = 6
INVARIANTS
  BackgroundWaitBounded
  BackgroundKeepsIntervals
SYMMETRY Symmetry
CHECK_DEADLOCK FALSE
