SPECIFICATION BSpec
CONSTANTS
  Product = {p1, p2}
  Name = {milk, bread}
  Url = {u1, u2}
  Email = {me}
  Reading = {r1}
  Siblings <- Sisters
  Handler = {h1}
  MaxWatches = 2
  MaxEdits = 3
  MaxMishaps = 1
SYMMETRY Symmetric
INVARIANTS
  OrphansArePaidFor
PROPERTIES
  NothingSavedIsLost
  ImportingAgainAddsNothing
CHECK_DEADLOCK FALSE
