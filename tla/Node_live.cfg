SPECIFICATION Spec
CONSTANT
  Parts = {"queue", "watch_htlc", "watch_electrum", "watch_index", "budget_closes",
           "routes_sends", "split_simplex", "portals_delivers", "commands",
           "link_completes", "inbox_live", "inbox_poll"}
PROPERTIES
  WorkDone
  MessagesServed
CHECK_DEADLOCK FALSE
