SPECIFICATION FairSpec
CONSTANTS
  MaxGen = 1
  MaxSecrets = 2
  Controls = {"revoke"}
  MaxVersion = 3
  EntryTTL = 1
  NegativeTTL = 1
  StoreTimeout = 0
  Batch = 1
  Local = FALSE
  Peers = TRUE
  SQLite = TRUE
  Crashes = TRUE
CHECK_DEADLOCK FALSE
INVARIANTS NoSkippedMessage
PROPERTIES RevocationTakesEffect
