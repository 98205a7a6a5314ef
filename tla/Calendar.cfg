SPECIFICATION Spec
CONSTANTS
  Hour = 1
  Link = {1, 2}
  Override <- Overrides
  StoreDefault <- Mondays
  SpringAt = 145
  AutumnAt = 313
  Lag = 1
  Horizon = 315
INVARIANTS
  SiblingsApart
PROPERTIES
  ChecksLandWhereTheyShould
  ChecksPrecedeTheMail
CHECK_DEADLOCK FALSE
