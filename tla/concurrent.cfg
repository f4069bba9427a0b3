SPECIFICATION Spec
CONSTANTS
 FLAP_WINDOW = 1
 STABLE = 1
 STABLE_N = 1
 WORSE = 1
 WINDOW = 1
 FAILS = 1
 RUNS = 1
 CLEAR = 0
 Scheduler = s
 Manual = {m}
 Recheck = {r}
 Statuses = {"up","down"}
 AlertAfter = 1
 DegradedAfter = 1
 REC_RETRY_MAX = 1
 Gaps = {1}
 Keep = 1
 Cap = 2
 MaxLag = 1
 Ids = {i1,i2}
 NoInc = noinc
 MaxFails = 0
 Uncertain = FALSE
 MaxCrashes = 1
 Hush = {}
 Fates = {}
INVARIANTS TypeOK OneOpenIncident RecheckIsFresh
SYMMETRY IdSymmetry
VIEW Unread
