SPECIFICATION Spec
CONSTANTS
  Lock1 = 3
  Lock2 = 2
  ConfA = 1
  ConfB = 1
  Spendable = 1
  ReleaseMargin = 2
  SpendMargin = 2
  MineDelay = 2
  MercyTimeout = 2
  MaxErrors = 1
  MaxFaults = 1
  Altruistic = {TRUE, FALSE}
  CanSendMercy = FALSE
  RedeemAddressOwned = FALSE
  PartialFailures = {}
INVARIANTS
  EndStatesTrue
