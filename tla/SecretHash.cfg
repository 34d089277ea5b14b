SPECIFICATION PartSpec
CONSTANTS
  LockValue = 7
  ConfA = 1
  ConfB = 1
  MineDelay = 1
  AcceptTimeout = 4
  BidValid = 2
  Late = {}
  MaxFaults = 1
  WatchScripts = TRUE
  Bad = {"itx", "ptx"}
  Parts = {"faults", "settles", "late_seller", "late_buyer", "bad_lock"}
INVARIANTS
  TypeOK
  NobodyCheated
  RecordsTrue
PROPERTIES
  SpendsRemembered
  LocksSettle
  PartsImplementAtomicSwap
