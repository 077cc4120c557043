\* Whether the goods total is always that of the lines, in the kitchen's scope.
CONSTANTS
  r1 = r1
  r2 = r2
  Riders = {r1, r2}
  NoRider = NoRider
  Shop = Shop
  Till = Till
  Clock = Clock
  Customer = Customer
  s1 = s1
  Sweepers = {s1}
  Scopes <- KitchenOnly
  MaxAttempts = 2
SPECIFICATION Spec
CHECK_DEADLOCK FALSE
INVARIANT
  GoodsMatchItems
