\* The kitchen and the search for a rider, in the five scopes of MCFood.
CONSTANTS
  r1 = r1
  r2 = r2
  Riders = {r1, r2}
  NoRider = NoRider
  Shop = Shop
  Till = Till
  Clock = Clock
  Customer = Customer
  s1 = s1
  Sweepers = {s1}
  Scopes <- AllScopes
  MaxAttempts = 2
SPECIFICATION FairSpec
CHECK_DEADLOCK FALSE
INVARIANTS
  TypeOK
  CollectableHasCode
  PaidBeforeCooking
  HeldFoodIsReady
PROPERTIES
  GoodsFollowLines
  ImplementsKitchenTable
  RoundEnds
  EveryRingEnds
  SearchSettles
