\* Two orders compete for the same two riders.
SPECIFICATION Spec
CONSTANTS
  Orders = {o1, o2}
  Clones = {}
  NormalWindow = 1
  Riders = {r1, r2}
  NoRider = NoRider
  Fares = {1}
  WindowLengths = {1}
  Grace = 1
  Jitter = 0
  RaiseMin = 1
  Cap = 1
  HasQueue = FALSE
  MaxTime = 2
  MaxBids = 2
  MaxPicks = 2
  MaxRaises = 0
CHECK_DEADLOCK FALSE
SYMMETRY Symmetric
INVARIANTS
  TypeOK
  OneActiveRide
  NoStrandedOffer
  AssignmentMatchesOffers
