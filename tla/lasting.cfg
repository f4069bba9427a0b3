SPECIFICATION FairSpec
CONSTANTS
 FLAP_WINDOW = 4
 STABLE = 2
 STABLE_N = 2
 WORSE = 2
 WINDOW = 4
 FAILS = 2
 RUNS = 2
 CLEAR = 1
 Scheduler = s
 Manual = {}
 Recheck = {}
 Statuses = {"up","down"}
 AlertAfter = 2
 DegradedAfter = 2
 REC_RETRY_MAX = 4
 Gaps = {1}
 Keep = 6
 Cap = 12
 MaxLag = 2
 Ids = {i1,i2,i3}
 NoInc = noinc
 MaxFails = 1
 Uncertain = FALSE
 MaxCrashes = 0
 Hush = {}
 Fates = {"up","down"}
INVARIANTS NotifiedWasTold
PROPERTIES OutageAnnounced AllClear
