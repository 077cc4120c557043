\* One rider: a top-up, the console, two jobs.
SPECIFICATION FairSpec
CONSTANTS
  Riders = {r1}
  TopUps = {t1}
  NoRider = NoRider
  NoTopUp = NoTopUp
  Asked = 100
  Payments = {60, 103}
  FeePerMille = 25
  Callers = {"sweep", "webhook"}
  LateRail = TRUE
  Jobs = {j1, j2}
  JobFee = 40
  FreeJobs = 1
  Keys = {k1, k2}
  ManualCredit = 100
  ManualPerDay = 1
  Reversals = {60}
  MaxEntries = 2
CHECK_DEADLOCK FALSE
INVARIANTS
  TypeOK
  LedgerChains
  CreditMatchesStatus
  NoUnpaidCredit
  ReversalsWithinCredit
PROPERTIES
  ImplementsLedger
  PaidIsSettled
