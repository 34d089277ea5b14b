SPECIFICATION Spec
CONSTANT
  Parts = {"queue", "watch", "watch_one", "watch_electrum", "budget", "budget_once",
           "budget_auto", "budget_floor", "budget_late", "terms", "expiry",
           "expiry_unused", "settings", "settings_alone", "routes", "split",
           "split_simplex", "portals", "portals_both", "commands", "link", "inbox",
           "inbox_zmq"}
INVARIANTS
  TypeOK
  ActionsRunOnce
  SpendsSeen
  BudgetHeld
  TermsAgree
  RecordsInOrder
  RoutesSound
  ReceivedMatches
PROPERTIES
  StepsSound
CHECK_DEADLOCK FALSE
