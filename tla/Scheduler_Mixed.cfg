SPECIFICATION FairSpec
CONSTANTS
  ica = ica
  l1 = l1
  Store = {ica}
  Link = {l1}
  StoreOf <- AllAtIca
  Weekly = {l1}
  Background = scheduler
  Interactive = {u1}
  NoStore = none
  NoLink = nolink
  SchedDelay = 2
  SchedJitter = 0
  UserDelay = 1
  UserJitter = 0
  MaxWait = 1
  BaseCooldown = 2
  MaxCooldown = 4
  MaxStrikes = 2
  CheckInterval = 1
  BatchSize = 1
  Period = 3
  NextMorning = 2
  Backoff = 2
  PauseLength = 2
PROPERTIES
  OneProbePerWall
  CycleCompletes
