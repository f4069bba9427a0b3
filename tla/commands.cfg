SPECIFICATION Spec
CONSTANTS
 Docker = {}
 Kube = {}
 Backups = {1}
 Fixes = {}
 Polled = {1}
 Waited = {1}
 Reports = {1}
 Polls = {2,3}
 Limit = 20
 CmdTimeout = 0
 FixTimeout = 1
 CmdStuck = 0
 FixStuck = 2
 WaitFor = 0
 Cap = 1
 MaxRestarts = 1
INVARIANTS TypeOK OncePerRoute
PROPERTIES KeepsPromise
