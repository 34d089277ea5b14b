SPECIFICATION Spec
CONSTANT
  Parts = {"light_live", "view_live", "server_ends", "server_recovers", "switch_live",
           "maker_live", "bidder_live", "amm_live", "launcher_live"}
PROPERTIES
  CallsServed
  SettlesAndGoesOn
CHECK_DEADLOCK FALSE
