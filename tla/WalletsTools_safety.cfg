SPECIFICATION Spec
CONSTANT
  Parts = {"utxos", "light", "view", "server", "monero", "monero_drops",
           "passwords_encrypt", "passwords_unlock", "passwords_seeds", "switch",
           "locktxs", "maker", "maker_restart", "maker_once", "rate", "bidder",
           "bidder_restart", "amm", "config", "count", "launcher", "prepare"}
INVARIANTS
  TypeOK
  FundsHeld
  AnswersTrue
  RightWallet
  WalletsUsable
  LockTxsSound
  
  ProgramsSound
PROPERTIES
  StepsSound
CHECK_DEADLOCK FALSE
