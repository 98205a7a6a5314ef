SPECIFICATION OffersSpec
CONSTANTS
  Ordinarie <- MCOrdinarie
  Weights <- MCWeights
  MaxUnits = 3
  MaxTotal = 7
  MaxCampaigns = 2
INVARIANTS
  PaidIsOnTheShelf
  OffersAreCuts
  OrdinarieStands
