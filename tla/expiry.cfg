SPECIFICATION FairSpec
CONSTANTS
 Monitors = {a,b}
 Warn = {2,1}
 Modes = {0,1}
 RENEW_SLACK = 0
 MaxDays = 3
 Jitter = 0
 Paused = {}
 Views = {{a},{a,b}}
 None = none
INVARIANTS TypeOK
PROPERTIES NewsOnce ReachedIsTold
