\* One booking in the scopes of MCFleet.
CONSTANTS
  r1 = r1
  r2 = r2
  Bikers = {r1, r2}
  NoBiker = NoBiker
  Sweep = Sweep
  k1 = k1
  Kicks = {k1}
  Moments <- EnoughMoments
  Scopes <- AllScopes
SPECIFICATION FairSpec
CHECK_DEADLOCK FALSE
INVARIANTS
  TypeOK
  InScope
  HeldRingsNobody
  RideBilledOnce
PROPERTIES
  ImplementsFleetTable
  SearchSettles
  OffersEnd
  DisabledDissolves
