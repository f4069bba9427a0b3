--------------------------- MODULE AgentCommands ---------------------------
(***************************************************************************)
(* The queues of commands between the panel and the agent of one server:   *)
(* tables docker_commands, kube_commands and backup_commands.              *)
(*                                                                         *)
(* The agent fetches commands on two routes that run side by side: the     *)
(* report (POST /agent/report, serialised by a lock on the server's row)   *)
(* and the fast poll (GET /agent/commands, no lock).  On each route it     *)
(* waits for one answer at a time, and it gives up when the answer is      *)
(* late, while the panel may still be working on the request.  Every       *)
(* command of an answer runs in a goroutine of its own, which posts the    *)
(* result once.  Meanwhile a browser asks for the status, an orchestrator  *)
(* waits in _bcmd_wait, and the scheduler closes what is stuck.            *)
(*                                                                         *)
(* A request and a command are named by their ids; a smaller id is older.  *)
(* The age of a command is the time since created_at, up to Cap.           *)
(***************************************************************************)
EXTENDS Integers, FiniteSets

CONSTANTS
    Docker, Kube, Backups,  \* ids of the commands that may be created, per table
    Fixes,                  \* the backup commands with action disk_fix
    Polled,                 \* commands whose status a browser asks for
    Waited,                 \* backup commands somebody waits for in _bcmd_wait
    Reports, Polls,         \* requests of the agent: reports, fast polls
    Limit,                  \* .limit(20) of the _take_*_commands
    CmdTimeout, FixTimeout, \* age from which a status request calls "running" lost
    CmdStuck, FixStuck,     \* age from which the scheduler closes a command
    WaitFor,                \* age at which _bcmd_wait stops waiting
    Cap,                    \* bound: the largest age
    MaxRestarts             \* bound: restarts of the agent

Cmds == Docker \cup Kube \cup Backups
Requests == Reports \cup Polls

ASSUME CommandConstants ==
    /\ Cmds \subseteq Nat /\ Requests \subseteq Nat
    /\ Docker \cap Kube = {} /\ Docker \cap Backups = {} /\ Kube \cap Backups = {}
    /\ Fixes \subseteq Backups /\ Polled \subseteq Cmds /\ Waited \subseteq Backups
    /\ Reports \cap Polls = {}
    /\ Limit \in Nat /\ CmdTimeout \in Nat /\ FixTimeout \in Nat
    /\ CmdStuck \in Nat /\ FixStuck \in Nat /\ WaitFor \in Nat
    /\ Cap \in Nat /\ MaxRestarts \in Nat

VARIABLES
    status,     \* status of each command; "none": not created yet
    payload,    \* whether the row carries its parameters
    age,        \* time since created_at
    req,        \* each request: new, sent, taken (commands selected), answered, heard, failed
    got,        \* each request: the commands it selected
    waits,      \* requests whose answer the agent is waiting for
    jobs,       \* goroutines that have a command: <<command, request>>
    ran,        \* executions so far: <<command, request>>
    posts,      \* results under way: of which job, ok, and the status the handler loaded
    stale,      \* commands a status request has found lost and not yet written
    wait,       \* each waiter: no, waiting, late (about to write), ok, failed, timeout
    restarts

rows == <<status, payload, age>>
link == <<req, got, waits>>
agent == <<jobs, ran, restarts>>
vars == <<status, payload, age, req, got, waits, jobs, ran, posts, stale, wait, restarts>>

Final == {"done", "error"}
Statuses == {"none", "pending", "running"} \cup Final
Unread == "unread"          \* the result has not reached its handler yet
Results == [cmd : Cmds, via : Requests, ok : BOOLEAN, read : Statuses \cup {Unread}]
Verdicts == {"ok", "failed", "timeout"}

\* Two classes of limits: disk_fix and the rest, whose own values differ only in length.
Timeout(c) == IF c \in Fixes THEN FixTimeout ELSE CmdTimeout
Stuck(c) == IF c \in Fixes THEN FixStuck ELSE CmdStuck
Route(r) == IF r \in Reports THEN Reports ELSE Polls
Queues == {Docker, Kube, Backups}
Pending(q) == {c \in q : status[c] = "pending"}

\* ORDER BY created_at LIMIT, for each of the three tables.
Oldest(q) == {c \in Pending(q) : Cardinality({d \in Pending(q) : d < c}) < Limit}
Selected == UNION {Oldest(q) : q \in Queues}

TypeOK ==
    /\ status \in [Cmds -> Statuses]
    /\ payload \in [Cmds -> BOOLEAN]
    /\ age \in [Cmds -> 0..Cap]
    /\ req \in [Requests -> {"new", "sent", "taken", "answered", "heard", "failed"}]
    /\ got \in [Requests -> SUBSET Cmds]
    /\ waits \subseteq Requests
    /\ jobs \subseteq Cmds \X Requests
    /\ ran \subseteq Cmds \X Requests
    /\ posts \subseteq Results
    /\ stale \subseteq Polled
    /\ wait \in [Cmds -> {"no", "waiting", "late"} \cup Verdicts]
    /\ restarts \in 0..MaxRestarts

Init ==
    /\ status = [c \in Cmds |-> "none"]
    /\ payload = [c \in Cmds |-> FALSE]
    /\ age = [c \in Cmds |-> 0]
    /\ req = [r \in Requests |-> "new"]
    /\ got = [r \in Requests |-> {}]
    /\ waits = {} /\ jobs = {} /\ ran = {} /\ posts = {} /\ stale = {}
    /\ wait = [c \in Cmds |-> "no"]
    /\ restarts = 0

-----------------------------------------------------------------------------
(* The panel's side of a command.                                          *)

\* docker_command, kube_command, backup_command, _bcmd_create; whoever calls
\* _bcmd_create goes on to wait.
Create(c) ==
    /\ status[c] = "none"
    /\ \A q \in Queues : c \in q => \A d \in q : d < c => status[d] # "none"
    /\ status' = [status EXCEPT ![c] = "pending"]
    /\ payload' = [payload EXCEPT ![c] = c \in Backups]
    /\ wait' = [wait EXCEPT ![c] = IF c \in Waited THEN "waiting" ELSE "no"]
    /\ UNCHANGED <<age, link, agent, posts, stale>>

\* docker_command_status and its like: the row is loaded, ...
PollLoad(c) ==
    /\ c \in Polled \ stale
    /\ status[c] = "running" /\ age[c] > Timeout(c)
    /\ stale' = stale \cup {c}
    /\ UNCHANGED <<rows, link, agent, posts, wait>>

\* ... and "the agent did not answer" is written by id.
PollWrite(c) ==
    /\ c \in stale
    /\ stale' = stale \ {c}
    /\ status' = [status EXCEPT ![c] = "error"]
    /\ UNCHANGED <<payload, age, link, agent, posts, wait>>

\* mutant: any end is taken for success
WaitLook_Ended(c) ==
    /\ wait[c] = "waiting" /\ status[c] \in Final
    /\ wait' = [wait EXCEPT ![c] = "ok"]
    /\ UNCHANGED <<rows, link, agent, posts, stale>>

\* _bcmd_wait, one look of its loop.
WaitLook(c) ==
    /\ wait[c] = "waiting" /\ status[c] \in Final
    /\ wait' = [wait EXCEPT ![c] = IF status[c] = "done" THEN "ok" ELSE "failed"]
    /\ UNCHANGED <<rows, link, agent, posts, stale>>

\* _bcmd_wait after its deadline: a last look decides only whether to write.
WaitLast(c) ==
    /\ wait[c] = "waiting" /\ age[c] > WaitFor
    /\ wait' = [wait EXCEPT ![c] = IF status[c] \in Final THEN "timeout" ELSE "late"]
    /\ UNCHANGED <<rows, link, agent, posts, stale>>

WaitWrite(c) ==
    /\ wait[c] = "late"
    /\ wait' = [wait EXCEPT ![c] = "timeout"]
    /\ status' = [status EXCEPT ![c] = "error"]
    /\ UNCHANGED <<payload, age, link, agent, posts, stale>>

\* mutant: the command the agent never fetched is forgotten
Lost_Unfetched == {c \in Backups : status[c] = "running" /\ age[c] > Stuck(c)}

\* _expire_commands: one conditional UPDATE.
Lost == {c \in Backups : status[c] \in {"pending", "running"} /\ age[c] > Stuck(c)}

Sweep ==
    /\ status' = [c \in Cmds |-> IF c \in Lost THEN "error" ELSE status[c]]
    /\ UNCHANGED <<payload, age, link, agent, posts, stale, wait>>

Tick ==
    /\ age' = [c \in Cmds |-> IF status[c] # "none" /\ age[c] < Cap THEN age[c] + 1 ELSE age[c]]
    /\ UNCHANGED <<status, payload, link, agent, posts, stale, wait>>

-----------------------------------------------------------------------------
(* Hand-out: the agent's requests.                                         *)

\* The loops of the agent: the next request on a route that waits for nothing.
Send(r) ==
    /\ req[r] = "new" /\ waits \cap Route(r) = {}
    /\ \A s \in Route(r) : s < r => req[s] # "new"
    /\ req' = [req EXCEPT ![r] = "sent"]
    /\ waits' = waits \cup {r}
    /\ UNCHANGED <<rows, got, agent, posts, stale, wait>>

\* mutant: the report reads the server without FOR UPDATE
ServerFree_NoLock(r) == TRUE

\* agent_report holds the server's row from its first query to its commit.
ServerFree(r) == r \in Reports => \A s \in Reports : req[s] # "taken"

\* _take_docker_commands, _take_kube_commands, _take_backup_commands: SELECT.
Take(r) ==
    /\ req[r] = "sent" /\ ServerFree(r)
    /\ req' = [req EXCEPT ![r] = "taken"]
    /\ got' = [got EXCEPT ![r] = Selected]
    /\ UNCHANGED <<rows, waits, agent, posts, stale, wait>>

\* mutant: the commands are handed out and not marked
HandedOut_Unmarked(r) == status

\* UPDATE ... SET status = 'running' WHERE id = ..., for each row, and COMMIT.
HandedOut(r) == [c \in Cmds |-> IF c \in got[r] THEN "running" ELSE status[c]]

HandOut(r) ==
    /\ req[r] = "taken"
    /\ req' = [req EXCEPT ![r] = "answered"]
    /\ status' = HandedOut(r)
    /\ UNCHANGED <<payload, age, got, waits, agent, posts, stale, wait>>

\* The request fails in the panel: its transaction is rolled back.
Abort(r) ==
    /\ req[r] \in {"sent", "taken"}
    /\ req' = [req EXCEPT ![r] = "failed"]
    /\ UNCHANGED <<rows, got, waits, agent, posts, stale, wait>>

\* The answer reaches the agent, which starts a goroutine per command.
Hear(r) ==
    /\ req[r] = "answered" /\ r \in waits
    /\ req' = [req EXCEPT ![r] = "heard"]
    /\ waits' = waits \ {r}
    /\ jobs' = jobs \cup (got[r] \X {r})
    /\ UNCHANGED <<rows, got, ran, restarts, posts, stale, wait>>

\* A timeout, a broken connection or an error of the panel.
GiveUp(r) ==
    /\ r \in waits
    /\ waits' = waits \ {r}
    /\ UNCHANGED <<rows, req, got, agent, posts, stale, wait>>

-----------------------------------------------------------------------------
(* Execution and its result.                                               *)

\* runDockerCommand, runKubeCommand, runBackupCommand, up to the post.
Run(j, ok) ==
    /\ j \in jobs
    /\ jobs' = jobs \ {j}
    /\ ran' = ran \cup {j}
    /\ posts' = posts \cup {[cmd |-> j[1], via |-> j[2], ok |-> ok, read |-> Unread]}
    /\ UNCHANGED <<rows, link, restarts, stale, wait>>

PostLost(p) ==
    /\ p.read = Unread
    /\ posts' = posts \ {p}
    /\ UNCHANGED <<rows, link, agent, stale, wait>>

\* agent_docker_result, agent_kube_result, agent_backup_result: session.get ...
PostLoad(p) ==
    /\ p.read = Unread
    /\ posts' = (posts \ {p}) \cup {[p EXCEPT !.read = status[p.cmd]]}
    /\ UNCHANGED <<rows, link, agent, stale, wait>>

\* mutant: a status nobody else knows
Outcome_Failed(p) == IF p.ok THEN "done" ELSE "failed"

\* ... and the commit, which writes the columns that differ from what was loaded.
Outcome(p) == IF p.ok THEN "done" ELSE "error"

PostStore(p) ==
    /\ p.read # Unread
    /\ posts' = posts \ {p}
    /\ status' = [status EXCEPT ![p.cmd] = IF Outcome(p) = p.read THEN @ ELSE Outcome(p)]
    /\ payload' = [payload EXCEPT ![p.cmd] = @ /\ p.cmd \in Fixes]
    /\ UNCHANGED <<age, link, agent, stale, wait>>

\* The agent restarts (an update, a watchdog): its goroutines are gone.
Restart ==
    /\ restarts < MaxRestarts
    /\ restarts' = restarts + 1
    /\ waits' = {} /\ jobs' = {}
    /\ UNCHANGED <<rows, req, got, ran, posts, stale, wait>>

-----------------------------------------------------------------------------
Next ==
    \/ \E c \in Cmds : Create(c) \/ PollLoad(c) \/ PollWrite(c)
                       \/ WaitLook(c) \/ WaitLast(c) \/ WaitWrite(c)
    \/ Sweep \/ Tick
    \/ \E r \in Requests : Send(r) \/ Take(r) \/ HandOut(r) \/ Abort(r) \/ Hear(r) \/ GiveUp(r)
    \/ \E j \in jobs, ok \in BOOLEAN : Run(j, ok)
    \/ \E p \in posts : PostLost(p) \/ PostLoad(p) \/ PostStore(p)
    \/ Restart

Spec == Init /\ [][Next]_vars

\* Time passes and collector_loop comes back to _expire_commands.  Nothing is
\* assumed of the agent, the network or the browser.
FairSpec == Spec /\ WF_vars(Tick) /\ WF_vars(Sweep)

-----------------------------------------------------------------------------
(* A command runs at most once: _take_docker_commands marks what it hands  *)
(* out as running "so that it is not sent again".                          *)
AtMostOnce == \A j, k \in ran : j[1] = k[1] => j = k

(* On one route the promise is kept, whatever is lost, repeated or         *)
(* restarted: two executions of a command came by different routes.        *)
OncePerRoute == \A j, k \in ran : j[1] = k[1] /\ Route(j[2]) = Route(k[2]) => j = k

(* _expire_commands: a backup command does not hang for ever, not even when *)
(* a hand-out that was slow puts it back to running after it was closed.    *)
BackupsSettle == \A c \in Backups : <>[](status[c] \in Final \cup {"none"})

(* A result stored as done stays: agent_report holds the server's row, so   *)
(* that no slow request hands the command out a second time; and the sweep   *)
(* looks at the status again.  (Not so with fast polls, status requests or   *)
(* waiters: they write by id what they saw earlier.)                         *)
DoneStays == [][\A c \in Cmds : status[c] = "done" => status'[c] = "done"]_vars

(* BackupCommand.payload: "carries secrets only while the command is        *)
(* pending or running, cleared when it ends".  It does not hold: only the    *)
(* result handler clears it (README, section 4).                            *)
PayloadCleared == \A c \in Backups \ Fixes : status[c] \in Final => ~payload[c]

-----------------------------------------------------------------------------
(* The promise of the queues: CommandLife.                                 *)

\* Nobody but the report and the scheduler touches the rows.
Alone == Polls = {} /\ Polled = {} /\ Waited = {}

Shown == [c \in Cmds |-> IF status[c] \in {"pending", "running"} THEN "open" ELSE status[c]]
Answered == [c \in Cmds |-> IF wait[c] \in Verdicts THEN wait[c] ELSE "none"]

Life == INSTANCE CommandLife WITH
    Commands <- Cmds, Routes <- {Reports, Polls}, Sticky <- Alone,
    shown <- Shown, performed <- ran, answer <- Answered

(* Through lost answers, requests given up, results that come late or never *)
(* and restarts of the agent, the queues keep the promise of CommandLife:   *)
(* once per route, "done" and "ok" only of what ran, and "done" for good    *)
(* when the report is the only route and nobody else writes the row.        *)
KeepsPromise == Life!LifeSpec
=============================================================================
