SPECIFICATION HSpec
CONSTANTS
  Store = {ica, rusta}
  BaseCooldown = 2
  MaxCooldown = 5
  MaxStrikes = 3
  MaxWalls = 4
  Horizon = 7
INVARIANTS
  CooldownEarned
  OnlyAnAnswerForgives
SYMMETRY Symmetry
