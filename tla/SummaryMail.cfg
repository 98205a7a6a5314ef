SPECIFICATION MFairSpec
CONSTANTS
  Instance = {a, b}
  Nobody = nobody
  Orphan = orphan
  LastDay = 2
  CheckDays = {1}
  FallbackDays = {2}
  Recipient = TRUE
  MaxMishaps = 1
INVARIANTS
  LeaderHoldsLock
  OverlapOnlyAfterALoss
  OneMailPerMishap
  ReceiptMeansSent
  MailOnlyWhenDue
PROPERTIES
  OnlyTheLeaderBegins
  MailGoesOut
