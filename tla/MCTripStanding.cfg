\* Three trips of one rider: what they do to the rider's standing.
SPECIFICATION Spec
CONSTANTS
  Orders = {o1, o2, o3}
  Riders = {r1}
  NoRider = NoRider
  NoOrder = NoOrder
  Fares = {100}
  RatePcts = {0}
  Suspensions = {FALSE}
  StrikeLimit = 2
  LineageDepth = 3
  AccountStops = {"suspended", "banned"}
  MaxTrips = 3
  MaxPicks = 1
  MaxRates = 1
  MaxAdjusts = 0
  MaxVerdicts = 1
  MaxBillingCalls = 2
  MaxResends = 0
  MaxClears = 1
  MaxScore = 4
  HoldBelow = 2
  ClearAt = 3
  Recover = 1
  PrePickupCancel = 1
  UndeliveredPenalties = {0, 2}
  LowRating = 2
  VelocityMin = 2
  BasisFloor = 150
  FreeJobs = 1
CHECK_DEADLOCK FALSE
SYMMETRY Symmetric
INVARIANTS
  TypeOK
  HeldRidersOffline
PROPERTIES
  BanIsFinal
  VelocityHoldSticks
