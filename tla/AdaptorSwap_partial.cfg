SPECIFICATION Spec
CONSTANTS
  Lock1 = 3
  Lock2 = 2
  ConfA = 1
  ConfB = 1
  Spendable = 1
  ReleaseMargin = 2
  SpendMargin = 1
  MineDelay = 1
  MercyTimeout = 2
  MaxErrors = 1
  MaxFaults = 1
  Altruistic = {TRUE, FALSE}
  CanSendMercy = TRUE
  RedeemAddressOwned = TRUE
  PartialFailures = {"SIGN_LOCK_TX_A", "SEND_LOCK_TX_A", "SEND_LOCK_SPEND_MSG", "SEND_LOCK_TX_B",
    "SEND_LOCK_RELEASE", "REDEEM_LOCK_TX_A", "REDEEM_LOCK_TX_B",
    "RECOVER_LOCK_TX_B", "SEND_MERCY_TX", "RECV_TXN_SIGS", "RECV_LOCK_RELEASE",
    "RECV_MERCY", "MISSED_SEND"}
INVARIANTS
  NoDoubleWin
