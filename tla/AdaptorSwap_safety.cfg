SPECIFICATION Spec
CONSTANTS
  Lock1 = 3
  Lock2 = 2
  ConfA = 1
  ConfB = 1
  Spendable = 1
  ReleaseMargin = 2
  SpendMargin = 1
  MineDelay = 1
  MercyTimeout = 2
  MaxErrors = 1
  MaxFaults = 1
  Altruistic = {TRUE}
  CanSendMercy = TRUE
  RedeemAddressOwned = TRUE
  PartialFailures = {}
INVARIANTS
  TypeOK
  SpendNeverRaced
  MercyNeverRaced
  NoDoubleWin
  EndStatesTrue
  TracksChain
PROPERTIES
  RowsOnlyAdvance
  ImplementsAtomicSwap
