SPECIFICATION Spec
CONSTANTS
  MaxGen = 2
  MaxSecrets = 2
  Controls = {"release", "rotate", "cut", "delete"}
  MaxVersion = 2
  EntryTTL = 2
  NegativeTTL = 1
  StoreTimeout = 0
  Batch = 1
  Local = TRUE
  Peers = FALSE
  SQLite = FALSE
  Crashes = FALSE
CHECK_DEADLOCK FALSE
INVARIANTS DropsOnReceipt BoundedFallback
