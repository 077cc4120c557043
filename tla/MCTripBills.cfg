\* Two rides of one rider, on two fares and two rates: every way to complete,
\* bill, correct and rate them, any two of those calls at once.
SPECIFICATION Spec
CONSTANTS
  Orders = {o1, o2}
  Riders = {r1}
  NoRider = NoRider
  NoOrder = NoOrder
  Fares = {100, 290}
  RatePcts = {0, 5}
  Suspensions = {FALSE}
  StrikeLimit = 2
  LineageDepth = 3
  AccountStops = {}
  MaxTrips = 2
  MaxPicks = 1
  MaxRates = 2
  MaxAdjusts = 2
  MaxVerdicts = 2
  MaxBillingCalls = 2
  MaxResends = 0
  MaxClears = 0
  MaxScore = 2
  HoldBelow = 0
  ClearAt = 1
  Recover = 1
  PrePickupCancel = 0
  UndeliveredPenalties = {0}
  LowRating = 1
  VelocityMin = 5
  BasisFloor = 150
  FreeJobs = 1
CHECK_DEADLOCK FALSE
SYMMETRY Symmetric
INVARIANTS
  BillMatchesFare
  FreeJobsHonoured
