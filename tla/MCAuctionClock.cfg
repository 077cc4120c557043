\* One clone: its window, raises and re-prices, its expiry jobs and the sweep.
SPECIFICATION FairSpec
CONSTANTS
  Orders = {o1}
  Clones = {o1}
  NormalWindow = 1
  Riders = {r1}
  NoRider = NoRider
  Fares = {1, 2}
  WindowLengths = {2}
  Grace = 1
  Jitter = 1
  RaiseMin = 1
  Cap = 2
  HasQueue = TRUE
  MaxTime = 4
  MaxBids = 1
  MaxPicks = 0
  MaxRaises = 1
CHECK_DEADLOCK FALSE
INVARIANTS
  WindowHolds
PROPERTIES
  RaisesOnlyAdd
  NoEarlyExpiry
  EveryAuctionCloses
