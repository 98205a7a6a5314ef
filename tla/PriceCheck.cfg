SPECIFICATION CheckSpec
CONSTANTS
  willys = willys
  ica = ica
  Check = {c1, c2}
  Nobody = Nobody
  Link <- Links
  Api <- Willys
  PageState <- Ica
  Leafleted <- Ica
  MaxTries = 2
  BrokenAfter = 2
  LastDay = 2
  MaxChecks = 3
SYMMETRY Checks
INVARIANTS
  LastWordStands
  BrokenMeansRefused
  LeafletVerdictIsTodays
  OneLeafletADay
PROPERTIES
  ChecksAreWhole
CHECK_DEADLOCK FALSE
