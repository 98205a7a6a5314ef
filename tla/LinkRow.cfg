SPECIFICATION RowSpec
CONSTANTS
  Amount = {q1, q2}
  Schedule = {weekly, daily}
  None = null
  Soon = soon
  Scheduled = scheduler
  Interactive = {u1, u2}
INVARIANTS IntentStandsUnlessRaced NextFollowsSchedule
SYMMETRY Symmetry
