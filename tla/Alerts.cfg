SPECIFICATION FairSpec
CONSTANTS
  Watch = {w1, w2}
  Wish <- Wishes
  Page <- Pages
  Cooldown = 2
  MaxMishaps = 1
INVARIANTS
  OneAlertPerMishap
  StampMeansMail
PROPERTIES
  AlertsGoOut
