SPECIFICATION Spec
CONSTANTS
 Main = main
 Paths = {p}
 Others = {}
 Presses = {1}
 Agents = {TRUE, FALSE}
 Interval = 2
 Gap = 1
 Timeout = 1
 Slack = 2
 Again = 1
 TTL = 12
 MaxTime = 9
 MaxFast = 4
INVARIANTS TypeOK VerdictIsFresh ReportsAreJudged
PROPERTIES NeverBack
CHECK_DEADLOCK FALSE
