SPECIFICATION Spec
CONSTANTS
  Link = {a, b}
  Price <- MCPrice
  Amount <- MCAmount
  None = None
  DealsWindow = 0
  PriceWindow = 1
  CheaperPct = 10
  BrokenAfter = 1
  LastDay = 0
  MaxWrites = 3
  StoreOf <- OwnStore
  StatsWindow = 1
  Scale = 2
SYMMETRY Links
INVARIANTS
  NothingCheaperElsewhere
  LeftOutForCause
  CampaignsAreCountedAlike
  TrendIsWhatWasAsked
  ViewsAgree
CHECK_DEADLOCK FALSE
