SPECIFICATION HSpec
CONSTANTS
  ica = ica
  l1 = l1
  l2 = l2
  Store = {ica}
  Link = {l1, l2}
  StoreOf <- AllAtIca
  Weekly = {l1}
  Background = scheduler
  Interactive = {}
  NoStore = none
  NoLink = nolink
  SchedDelay = 1
  SchedJitter = 0
  UserDelay = 1
  UserJitter = 0
  MaxWait = 1
  BaseCooldown = 2
  MaxCooldown = 4
  MaxStrikes = 2
  CheckInterval = 1
  BatchSize = 2
  Period = 3
  NextMorning = 2
  Backoff = 2
  PauseLength = 2
INVARIANTS
  NoLinkIsParkedForever
  CycleDeferralsSpread
PROPERTIES
  NoHammering
