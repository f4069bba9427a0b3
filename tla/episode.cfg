SPECIFICATION Spec
CONSTANTS
 FLAP_WINDOW = 6
 STABLE = 3
 STABLE_N = 2
 WORSE = 3
 WINDOW = 6
 FAILS = 3
 RUNS = 2
 CLEAR = 1
 Scheduler = s
 Manual = {}
 Recheck = {}
 Statuses = {"up","down"}
 AlertAfter = 2
 DegradedAfter = 2
 REC_RETRY_MAX = 4
 Gaps = {1}
 Keep = 9
 Cap = 20
 MaxLag = 2
 Ids = {i1,i2,i3}
 NoInc = noinc
 MaxFails = 0
 Uncertain = FALSE
 MaxCrashes = 0
 Hush = {"held"}
 Fates = {}
INVARIANTS EpisodeSpeaksOnce
SYMMETRY IdSymmetry
PROPERTIES ClearWhenUp
