\* One lineage of four orders: bails, resends and the trips between.
SPECIFICATION Spec
CONSTANTS
  Orders = {o1, o2, o3, o4}
  Riders = {r1}
  NoRider = NoRider
  NoOrder = NoOrder
  Fares = {100}
  RatePcts = {0}
  Suspensions = {TRUE}
  StrikeLimit = 1
  LineageDepth = 4
  AccountStops = {}
  MaxTrips = 1
  MaxPicks = 1
  MaxRates = 0
  MaxAdjusts = 0
  MaxVerdicts = 0
  MaxBillingCalls = 0
  MaxResends = 2
  MaxClears = 0
  MaxScore = 1
  HoldBelow = 0
  ClearAt = 1
  Recover = 0
  PrePickupCancel = 0
  UndeliveredPenalties = {0}
  LowRating = 0
  VelocityMin = 5
  BasisFloor = 150
  FreeJobs = 1
CHECK_DEADLOCK FALSE
SYMMETRY Symmetric
INVARIANTS
  OneLivePerTrip
PROPERTIES
  ImplementsTable
