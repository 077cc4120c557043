\* A clear-hold races the velocity guard.
SPECIFICATION Spec
CONSTANTS
  Orders = {o1, o2}
  Riders = {r1}
  NoRider = NoRider
  NoOrder = NoOrder
  Fares = {100}
  RatePcts = {0}
  Suspensions = {FALSE}
  StrikeLimit = 2
  LineageDepth = 3
  AccountStops = {}
  MaxTrips = 2
  MaxPicks = 1
  MaxRates = 1
  MaxAdjusts = 0
  MaxVerdicts = 0
  MaxBillingCalls = 1
  MaxResends = 0
  MaxClears = 1
  MaxScore = 4
  HoldBelow = 2
  ClearAt = 3
  Recover = 1
  PrePickupCancel = 1
  UndeliveredPenalties = {0}
  LowRating = 3
  VelocityMin = 1
  BasisFloor = 150
  FreeJobs = 1
CHECK_DEADLOCK FALSE
SYMMETRY Symmetric
PROPERTIES
  ClearKeepsFreshVelocityHold
