\* A withdrawal lands between selectOffer's read and its compare-and-swap.
SPECIFICATION Spec
CONSTANTS
  Orders = {o1}
  Clones = {}
  NormalWindow = 1
  Riders = {r1, r2}
  NoRider = NoRider
  Fares = {1}
  WindowLengths = {1}
  Grace = 1
  Jitter = 0
  RaiseMin = 1
  Cap = 1
  HasQueue = FALSE
  MaxTime = 2
  MaxBids = 1
  MaxPicks = 1
  MaxRaises = 0
CHECK_DEADLOCK FALSE
PROPERTIES
  WithdrawNeverRacesPick
