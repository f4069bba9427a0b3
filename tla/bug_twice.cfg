SPECIFICATION Spec
CONSTANTS
 Docker = {1}
 Kube = {}
 Backups = {}
 Fixes = {}
 Polled = {}
 Waited = {}
 Reports = {1}
 Polls = {2}
 Limit = 20
 CmdTimeout = 0
 FixTimeout = 1
 CmdStuck = 1
 FixStuck = 2
 WaitFor = 0
 Cap = 1
 MaxRestarts = 0
INVARIANTS AtMostOnce
