\* The stale tick: two rounds of one biker, the sweep and a tick kicked off.
CONSTANTS
  r1 = r1
  Bikers = {r1}
  NoBiker = NoBiker
  Sweep = Sweep
  k1 = k1
  Kicks = {k1}
  Moments <- EnoughMoments
  Scopes <- SearchOnly
SPECIFICATION Spec
CHECK_DEADLOCK FALSE
INVARIANTS
  LiveRoundStands
