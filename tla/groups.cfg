SPECIFICATION FairSpec
CONSTANTS
 Sites = {a,b}
 Scheduler = s
 Webs = {}
 JOIN = 1
 PARTIAL = 2
 REC_RETRY_MAX = 3
 Telegram = TRUE
 Faults = {"dispatch","crash","compose","after"}
 MaxFaults = 3
 Never = never
INVARIANTS TypeOK ToldIsHeard OwedIsKept
PROPERTIES ListedUntilCleared MembersAreCleared
