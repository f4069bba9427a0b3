SPECIFICATION FairSpec
CONSTANTS
 Jobs = {1}
 Kinds = {"server", "site"}
 Workers = {w1, w2}
 Viewed = TRUE
 TIMEOUT = 3
 PANEL_TIMEOUT = 1
 LEASE = 1
 RETRY = 1
 RECENT = 1
 MaxTime = 4
 MaxValue = 2
 MaxEdits = 1
 MaxCrashes = 1
INVARIANTS TypeOK FixedIsFresh OneWorker
PROPERTIES NoLateRecovery NewerStays JobsEnd
CHECK_DEADLOCK FALSE
