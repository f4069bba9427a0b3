SPECIFICATION FairSpec
CONSTANTS
 Docker = {}
 Kube = {}
 Backups = {1,2}
 Fixes = {2}
 Polled = {}
 Waited = {}
 Reports = {1,2,3}
 Polls = {}
 Limit = 1
 CmdTimeout = 0
 FixTimeout = 1
 CmdStuck = 1
 FixStuck = 2
 WaitFor = 0
 Cap = 3
 MaxRestarts = 1
INVARIANTS AtMostOnce
PROPERTIES DoneStays BackupsSettle
