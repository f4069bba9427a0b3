# A verification project for Kervax

Kervax is a self-hosted monitoring panel: a FastAPI application with a PostgreSQL
(or SQLite) database, a scheduler that probes sites and evaluates servers, a Go
agent on every monitored server, a Telegram bot, and shell helpers for backup and
update.  This directory holds TLA+ models of its core logic, the TLC runs that
check them on small instances, and TLAPS proofs that hold for every instance.

    SiteFlap.tla            pure: site_flap.py and flaky.py over a set of samples
    SiteFlapProofs.tla      theorems about SiteFlap and FlapLoops: verdicts over any history
    FlapLoops.tla           the loops of those files against SiteFlap
    SiteMonitor.tla         one monitor and everybody who writes it
    MCSiteMonitor.tla       model values and symmetry for TLC
    SiteMonitorProofs.tla   theorems about SiteMonitor
    AgentCommands.tla       the command queues between the panel and one agent
    CommandLife.tla         what those queues promise: the specification they implement
    AgentCommandsProofs.tla theorems about AgentCommands
    ManualProbes.tla        "check now" of a site that only an agent can see
    ManualProbesProofs.tla  theorems about ManualProbes
    Rechecks.tla            "check again" on the home page
    RechecksProofs.tla      theorems about Rechecks
    ServerAlerts.tla        the rules of one kind of server alarm, tick by tick
    ServerAlertsProofs.tla  theorems about ServerAlerts
    SiteGroups.tla          monitors of one place that share a message
    SiteGroupsProofs.tla    theorems about SiteGroups
    ExpiryReminders.tla     reminders of a domain that several monitors watch
    ExpiryRemindersProofs.tla  theorems about ExpiryReminders

## 1. Inventory

The panel runs as one process, or as two (`compose.scale.yml`): the *web* process
answers the browser and the agents, the *scheduler* process (`app.scheduler_run`)
runs `collector_loop`.  They share the database and nothing else: module-level
dictionaries such as `_REC_RETRY` exist once per process.

| component | state | operations | interacts with | hard because |
|---|---|---|---|---|
| site monitor (`collector.record_outcome`, `site_flap`, `flaky`) | `checks` row (counter, last status, episode, flaky marks), `check_samples`, `check_incidents` | probe, record, open/close incident, queue an alarm or an all-clear | scheduler tick, "check now" (`api/checks.py`), alert recheck, agent probes | three writers on one row, a row loaded before an await and written after it, hysteresis over history |
| site alert delivery (`_send_alerts`, `alerts.dispatch`) | the queue of a tick, `_REC_RETRY` in memory, `notified`, flags | filter, merge, dispatch, mark | monitor, mutes, parents, Telegram, webhook | a channel that refuses or answers late, marks written after delivery, a process killed between |
| site groups (`site_group.py`) | open groups per server or address | fold several monitors into one alarm and one all-clear | `_send_alerts` | membership changes between alarm and all-clear |
| expiry reminders (`_apply_expiry`, `expiry_snooze.py`) | alerted bucket, snooze | escalate by threshold, reset on renewal | run_due_checks, "check now" | boundaries, several monitors of one domain |
| known issues (`known.py`) | `known_issue` | remind, close, expire | record_outcome | timing |
| maintenance windows (`maint.py`) | windows | active(now) | every alert | time zones and boundaries |
| server alerts (`evaluate_servers`) | per-server flags | threshold, hysteresis, alarm, all-clear | agent reports, delivery | some 1 700 lines of per-kind state |
| agent report and command queue (`api/servers.py`, `agent/main.go`) | docker, kube and backup commands with a status | create, hand out, run, post the result, expire | panel, agent, scheduler | two hand-out paths, lost answers, timeouts racing late results |
| manual probes and rechecks (`manual_probe.py`, `alert_recheck.py`) | requests, jobs, leases | create, hand out, finish, expire | agent, record_outcome | leases, stale baselines |
| fleet rollout and agent update (`fleet_rollout.py`) | waves | start, advance, stop | agents | failure in the middle of a wave |
| Telegram bot (`tg_bot.py`, `tg_buttons.py`) | update offset, buttons | poll, act, answer | delivery, mutes | at-least-once polling |
| authentication (`api/auth.py`, `auth_generations.py`, `totp.py`, `ratelimit.py`) | users, token generations, failed attempts | log in, revoke, throttle | web | counters, one-time codes |
| vault (`api/vault.py`) | encrypted entries | lock, unlock, edit | web | key handling |
| panel mirror (`bsrv_mirror.py`), backup (`backup.py`), heartbeat (`heartbeat.py`) | files, pulse | write, prune | host scripts | partial failure |
| front end, landing pages, docs, migrations | | | | not modelled: presentation, or run once |

What makes each part correct, in short.  *Site monitor*: one open incident per
outage; the card and the incident agree; an outage that lasts is announced; an
episode of a flapping site gives one alarm per level and one all-clear; the reader
is never told that all is well while it is not, nor left with an alarm that is
over.  *Delivery*: marks agree with what was delivered.  *Command queue*: a command
runs at most once, every command ends, secrets do not outlive it.  *Expiry*: every
threshold speaks once per certificate.  *Authentication*: a revoked token stays
revoked, a one-time code works once.

## 2. Plan

Done, in the order of the plan:

1. `SiteFlap`, `FlapLoops`, `SiteMonitor` with proofs: the core of the panel (section 3).
2. `AgentCommands` with proofs, and `CommandLife`, the abstract specification it is
   shown to implement, by TLC and by TLAPS (section 4).
3. `ManualProbes` and `Rechecks` with proofs: two protocols between panel and agent in
   which an old answer must never pass for a new one (sections 5 and 6).
4. `ServerAlerts` with proofs: the pattern that every kind of server alarm follows (section 7).
5. `SiteGroups` with proofs: the delivery side of the site monitor, several monitors in one
   message (section 8).
6. `ExpiryReminders` with proofs: a term, thresholds, several monitors of a domain (section 9).

Left, most useful first:

* `ServerAlerts` for kinds with a list of members (`sig`: containers, disks, units) and for
  `offline`, which has a flapping logic of its own;
* the probe requests of the home page (kind `home` of `ManualProbeRequest`), and a site's
  recheck carried out by an agent;
* the setup jobs that chain commands through `_bcmd_wait`, over `CommandLife` instead of
  the detailed queue;
* fleet rollout; merging of a flood of alarms into one message;
* the calendar of maintenance windows and the reminders of known issues.

## 3. The site monitor

### State and actions

`SiteMonitor` has one monitor (monitors do not share state except through
`_send_alerts`, whose calls for other monitors are the action `OthersSend`).

| model | code |
|---|---|
| `row` | the columns of `Check` that `record_outcome` reads back: `consecutive_fails`, `last_status`, `flap_state`, `flaky_since` (is it set), `flaky_notified`, `last_checked_at` |
| `samples` | `check_samples`, the latest `Keep` |
| `open`, `notified`, `started` | `check_incidents` with `ended_at IS NULL`, their mark and their age |
| `lock` | the row lock of `SELECT ... FOR UPDATE` |
| `pc`, `snap`, `out`, `now`, `seen`, `queue` | per writer: where it is, the row object its session holds, the probe's outcome, its `now`, the open incident it found, its `pending` |
| `retry` | `_REC_RETRY`, once per process |
| `hush` | global mute, snooze or maintenance, a silent or warming parent |
| `chat` | what a reader of the chat has seen: alarms since the last all-clear, all-clears since |
| `fate` | from some moment on every probe gives the same answer (for liveness) |

| action | code |
|---|---|
| `SchedTick`, `SchedLoad` | `run_due_checks`: take now, probe; then `session.get` |
| `ManualLoad`, `ManualProbe` | `run_check_now`, `_execute_and_store`: the row is loaded before the probe |
| `RecheckProbe`, `RecheckLock`, `RecheckStale` | `alert_recheck.panel_work` |
| `LockRow` | the lock and the query for the open incident in `record_outcome` |
| `Store` | the rest of `record_outcome` and the commit: `Judged`, `FlakyStep`, `Booked`, `Flush` |
| `Compose` | `_with_retries` and the filters of `_send_alerts` |
| `DispatchOk`, `DispatchFail` | the two answers of `alerts.dispatch` |
| `Mark` | the marks after a delivery, in one transaction |
| `Crash` | one process is killed: transactions roll back, its memory is gone |
| `SetHush`, `Settle` | operator, parent server, the site itself |

Three points of the translation deserve a word.

*Writing back.*  SQLAlchemy writes the columns whose value differs from the value
loaded, not the whole row.  `Flush` does the same; that is why a stale row loses
updates in the model exactly where it loses them in the code.

*The lock.*  `select(Check.id)...with_for_update()` makes the writer wait but does not
refresh the row object.  `LockRow` therefore reads the open incident afresh and keeps
`snap`.  The recheck selects the whole row under the lock after a rollback:
`RecheckLock` replaces `snap`.

*Time.*  Every timestamp is an age.  An age grows when some writer takes a new `now`;
steps of time come from `Gaps`; ages stop at `Cap`, beyond every constant compared
with.  `_is_due` is abstracted to "a tick may come after any step of time".

Left out of the monitor: texts, latencies, values, DNS baselines, per-address samples,
`inside_probe.request`, the known-issue step, expiry (a later module), folding of
several monitors into one message, per-kind mutes and rules.  `locpart` and `known`
messages have their own state and are not queued here.  The mark is one atomic step;
in the code the row is read and written within one short transaction.
`_flap_hist` has a LIMIT of one window's worth of samples; the model keeps `Keep`
samples, more than the windows of its instances can hold.

### Runs

Every run is an instance of `MCSiteMonitor`, with the windows scaled down so that a
whole episode fits in a few samples.  Windows of real size differ in the number of
samples only, the comparisons are the same.

| run | instance | shows |
|---|---|---|
| `flap_loops` | histories of up to 7 samples, three statuses, two step sizes | the loops of `site_flap.py`/`flaky.py` equal the set definitions; the LIMIT of `_flaky_step` is enough |
| `episode` | scheduler alone, parents going silent, no failed dispatch | one alarm per level, one all-clear, no all-clear while the site is down |
| `concurrent` | one "check now", one recheck, one crash | one open incident; the recheck is never stale |
| `lasting` | fairness, one refused dispatch, the site settles up or down | a lasting outage is announced; an incident counts as told only while the chat's last word is an alarm; without a refusal a site that stays up is cleared |

Four things that one might expect, and that a comment or a docstring suggests, do not
hold.  TLC finds the first three in seconds when the property named is put in a
configuration like those above; they are not runs of their own.

* *A refused all-clear waits for the next event.*  An all-clear that the channel refused
  is not sent on the next tick unless something else was queued or a group is open:
  `run_due_checks` calls `_send_alerts` only then, while the comment in `_send_alerts`
  (`collector.py:1491`) speaks of the next tick (property `AllClearRepeated`, scheduler alone, one refusal).
* *An outage can go untold.*  The scheduler holds a row with an open episode, a manual
  check closes the episode, and the next outage is booked by the scheduler as part of
  the old one (property `NotifiedWasTold`, one "check now").
* *An all-clear during an announced outage.*  "Down" and "every other time" in one batch:
  the second overwrites the episode, and its all-clear goes out with the announced
  incident open (property `ClearInPeace`).
* *A refusal and a crash together* break `NotifiedWasTold` also without a manual check,
  because what was refused is repeated from the memory of a process.  `lasting` has one
  refusal and no crash, `concurrent` a crash and no refusal.

Three of the properties are checked only where the code keeps them.
`ClearWhenUp` fails after a refused "answers stably again": `_flaky_step` queues it again
with a check that failed, and when that check also reaches the threshold, alarm and
all-clear leave in one batch.  `EpisodeSpeaksOnce` needs a channel that works: the
episode is closed when the all-clear is queued, so after a refused all-clear the next
outage is announced as a new episode.  `EpisodeSpeaksOnce` and `NotifiedWasTold` are about
the results "up" and "down": a slow answer ("degraded") counts towards the threshold of
the ordinary alarm, while `in_outage` of `flaky.py` sees only "down", so a slow spell that
reaches the threshold within an "every other time" episode can send "down" and "stable
again" in one batch, and a second all-clear later.  With two refusals `NotifiedWasTold`
fails for "up" and "down" too: a refused "stable again" is queued again together with the
failing check that reaches the threshold.  And checks further apart than `STABLE` make
`record_outcome` forget the episode without an all-clear (812-815), so that the next outage is
a second alarm.  The comment there thinks of a monitor that was switched off; but an
interval may be up to a day (`schemas.py:186`) and `STABLE` is half an hour, so a monitor
with a longer interval forgets its episode with every check.

`concurrent` leaves the chat out of what tells two states apart (`VIEW Unread`): no action
reads it and none of that run's properties speaks of it.

*Bounds.*  Three incident ids are enough: at most one is open and at most one more is
named by each queue.  `Keep` and `Cap` exceed every window.  `MaxFails` and
`MaxCrashes` count what goes wrong.

*Fairness.*  The scheduler's loop never ends (`while True` in `collector_loop`, every
stage guarded), a request that has begun is carried through, and PostgreSQL grants a
row lock in turn, so each writer's steps are strongly fair; a transaction that holds
the lock commits.  Nothing makes anyone press "check now", and no fairness is assumed
for `OthersSend`, crashes or mutes.

### Proofs

`SiteMonitorProofs` proves, for any sets of requests and rechecks, any thresholds,
windows and bounds:

* `TypeCorrect`: `Spec => []TypeOK`.  More than typing: only open incidents carry the
  mark.
* `SingleIncident`: `Spec => []OneOpenIncident`.  The property alone is not inductive:
  a writer about to commit could have found "no incident" long ago.  `LockInv` adds
  that whoever is inside `record_outcome` holds the lock and that what it found is
  still so.
* `RecheckNeverStale`: `Spec => []RecheckIsFresh`, from `LockInv` and the fact that a
  recheck never loads its row outside the lock.

* `EpisodeIsToldOnce`: `Spec => []EpisodeSpeaksOnce`, and `AnnouncedIsHeard`:
  `Spec => []NotifiedWasTold`, under `Undisturbed`.
* `ClearsComeWhenUp`: `Spec => ClearWhenUp`, under `Undisturbed` and `Roomy`.

`Undisturbed` says where the promise of `site_flap.py` can be kept, and each part of it has a
counterexample above when it is dropped: the scheduler alone records (a stale "check now"
undoes an episode), results are "up" and "down", the channel takes what it is given, no
crash, only alarms may be held back (a mute would swallow an all-clear), and checks are
no further apart than `STABLE`.  Two more conjuncts are about the model's bounds: ages do not
saturate within a run of failures that reaches the threshold (`LongRun * STABLE < Cap`), and as many
samples are kept (`LongRun <= Keep`).  Any thresholds, windows and gaps are allowed, and the
run `episode` satisfies it.

The argument.  `TalkInv` says for every level of the episode (none, down, every other time)
what the chat holds and how `flaky_notified` stands to `flaky_since`, and follows a batch from the
queue to the marks.  Most steps preserve it by themselves.  The one that does not is the
check that reaches the threshold while the site answers every other time: were `_flaky_step`
to call the flakiness over on that very check, an all-clear would follow the alarm in
one batch.  It does not, because `is_flaky` leaves its verdict alone during an outage, and
the code relies on two different counts for "outage": the column `consecutive_fails` for
the alarm, the last samples for `in_outage`.  `RunInv` says that they agree: for every `n` up
to the threshold, a counter of `n` means that the latest `n` samples exist, are failures,
and are no older than `n` gaps (so that neither the cut at the last closed episode nor the
saturation of ages hides them).  `ThresholdIsOutage` derives the frozen verdict from it, and
`ClosedIsSteady` that an all-clear leaves no flakiness behind.  The lemmas about `Latest` (adding
a sample, growing older, taking the latest of the latest) are what the rest stands on.

`SiteFlapProofs` proves two facts about the verdicts of `flaky.py` for any history, window and threshold.
`LimitIsEnough`: the `LIMIT` of the query in `_flaky_step` never changes the verdict; a sample of the window
whose run of failures goes on beyond the rows that were read has already shown enough of
it to count as long.  `FailureStaysFlaky`: "stable again" is never the verdict of a failing
check.  That is not obvious, because one more failure can turn a short run into a long
one, whose failures no longer count, and pushes the oldest sample out of the window; but a run
that becomes long is the outage itself, during which the verdict stands, and otherwise the
new failure makes up for the sample that left.  The code goes through lists; in these two a
history is a set, and the proofs go by the newest sample that is left.

That the loops compute what the sets say is proved too, for every history and not only
for the seven samples of the run `flap_loops`: `LoopsAgreeAlways` (`Histories => []LoopsAgree`) and
`WindowIsEnoughAlways` (`Histories => []WindowIsEnough`).  The inductive invariant is `Chronicle`: a
history is a sequence of samples whose ages decrease strictly, so that positions in
the list and samples in the set correspond (`ImageCard`, `NewerImage`, `LatestImage`).  What remains
is about the three folds.  `FoldRuns` shows that the library's `FoldLeft`, a recursive function
under a `CHOOSE`, has one value per prefix, each a step from the one before; then every loop has
an invariant over prefixes (`RunsUnfold`, `PairsUnfold`, `ShortUnfold`).  For `runs` it is that the
counter is the number of runs that begin in the prefix, for the first loop of `short_failures`
that the pairs listed are exactly the maximal runs of "down" that ended (`PairsListed`), for the
second that the two numbers count the failures in the window and the runs they belong
to, where a run that crosses the edge of the window contributes only the part inside
(`ShortCounts`).  `RunsAgree`, `StableAgree`, `ShortAgree` and `FlakyAgree` state the results for any
list; together with `LimitIsEnough` they give the second theorem.

Two remarks on how.  The library's induction theorem takes a predicate, which none of the
provers can instantiate; the lemma `NatSet` says the same of a *set* of numbers, and that can be
used.  And `SiteMonitorProofs` reaches `FlapLoops` through `SiteFlapProofs`, which is why the constants and
the specification of `FlapLoops` have names of their own (`Thr`, `Spacings`, `Outcomes`, `Histories`);
its variable `hist` plays no part there.

`ClearsComeWhenUp` stands on `LimitIsEnough` and `FailureStaysFlaky`.  The all-clears of an incident and of an episode belong
to a success; the one of "answers stably again" needs `FailureStaysFlaky`, and that needs what
the row only remembers as a flag: `ClearInv` says that while `flaky_since` is set, the samples in
the database still show why (`Unsteady`).  The verdict that set it looked only at the samples
after the last closed episode, the one that could end it looks at all of them.  They agree
because an episode is closed by a good sample, so that no run of failures crosses the
cut (`Cut`, `CutUnsteady`).  `Roomy(g)`, with checks at most `g` apart, says that the bounds of the model are
out of the way: at least `WINDOW + LongRun` samples are kept and no kept sample reaches
`Cap` (`SpanInv` counts the samples after it).  The run `episode` satisfies it with `g = 1`.

The proofs rest on `MonitorConstants`, `FlapConstants` and `LoopConstants`, which TLC evaluates
in the runs.  Liveness under fairness is beyond this prover and stays with TLC.

## 4. The command queues

### State and actions

`AgentCommands` has one server, its agent, and a finite set of commands in the three
tables.  The agent has two loops side by side, and each is a *route*: the report loop
(`collectAndSend`, `send`) and `commandLoop`.

| model | code |
|---|---|
| `status`, `payload`, `age` | the row of a command; age is the time since `created_at` |
| `req`, `got` | each request of the agent in the panel: what it selected, how far it is |
| `waits` | the request each loop of the agent is waiting for |
| `jobs`, `ran` | goroutines that have a command; executions so far |
| `posts` | results under way, and the status their handler has loaded |
| `stale` | commands a status request has read as lost and not written yet |
| `wait` | callers of `_bcmd_wait` |

| action | code |
|---|---|
| `Create` | `docker_command`, `kube_command`, `backup_command`, `_bcmd_create` |
| `Send`, `GiveUp`, `Hear` | `commandLoop`, `send` and the report loop of `main.go` |
| `Take`, `HandOut`, `Abort` | `_take_*_commands` within `agent_report` or `agent_commands`: the SELECT, the UPDATE by id with the commit, a rollback |
| `Run` | `runDockerCommand`, `runKubeCommand`, `runBackupCommand` |
| `PostLost`, `PostLoad`, `PostStore` | `postBackupResult` and its like; `agent_*_result` |
| `PollLoad`, `PollWrite` | `*_command_status` with `_*_cmd_out` |
| `WaitLook`, `WaitLast`, `WaitWrite` | `_bcmd_wait` |
| `Sweep` | `_expire_commands` |
| `Restart` | the agent exits and systemd starts it again |

A transaction that reads a row and writes it by id is two actions; a conditional UPDATE
(`Sweep`) is one, because the database looks at the row again under its lock.  A report
keeps other reports out from its first query to its commit (`ServerFree`), a fast poll
keeps nobody out.  The three SELECTs of a request are one step: no property relates
commands of different tables.  A limit of time has one value for `disk_fix` and one for
everything else.  Left out: the weekly prune, `done_at`, texts, what a result changes on
the server's row.

### The promise

`CommandLife` is what somebody who gives a command may rely on: it is carried out only
after it was given and at most once per route; "done" (on the page, or as the answer
to `_bcmd_wait`) is said only of a command that was carried out.  `AgentCommands`
implements it under the mapping at the end of that module: `pending` and `running` are
shown as "open", and an execution is performed by the *errand* of the request that
brought the command.  `Sticky`, "done is shown for good", is part of the promise
exactly when nobody but the scheduler watches the queue and the report is the only
route.

### Runs

| run | instance | shows |
|---|---|---|
| `commands` | one command, one report, two fast polls, one restart, a status request and a waiter | on one route a command never runs twice; the queue implements `CommandLife` |
| `one_route` | two commands (one `disk_fix`), three reports, LIMIT of one, one restart | at most one execution; done stays done; under fairness every backup command ends for good |
| `bug_twice` | one report and one poll | both select the pending command; it runs twice |

`bug_twice` ends in a violation of what the docstring of `_take_docker_commands` says.
A second disagreement has no run of its own: a comment at `models.py:1184` says that the
secrets in a command's payload are cleared when it ends, but a command that ends by a
timeout keeps them (`_expire_commands`, `collector.py:9270`, and the timeouts of
`servers.py:2778` and `3088`); the property is `PayloadCleared`.

*Bounds.*  Two requests on a route (the polls of `commands`, the reports of `one_route`) are
enough for a request that the agent gave up and the one it sent next, which is the only
overlap on a route.  Ages run past every limit.
Commands of one table meet only in the LIMIT, commands of different tables nowhere.

*Fairness.*  Time passes, and `collector_loop` comes back to `_expire_commands` whatever
its other stages do (`stage` catches their errors).  Nothing is assumed of the agent, the
network, the browser or a slow request.

`DoneStays` is asked only where the code can keep it.  With fast polls a request that
the agent gave up can set a finished command back to "running"; a status request or a
waiter can write its timeout over a result stored a moment before.  Nothing in the
repository promises otherwise, so these are hazards and not findings.

### Proofs

`AgentCommandsProofs` proves, for any sets of commands and requests and any limits:

* `TypeCorrect`: `Spec => []TypeOK`.
* `NoRepeatOnARoute`: `Spec => []OncePerRoute`.  The strengthening `RouteInv` says that
  what was handed out is no longer pending (`Marked`), that the agent waits for one
  answer per route (`OneWait`), and therefore that the request under way names nothing
  that was heard on its route (`Fresh`).
* `OneRouteOnce`: with no fast polls, `Spec => []AtMostOnce`.
* `DoneIsFinal`: with no fast polls, status requests or waiters, `Spec => DoneStays`.
  `LockInv` says that the lock on the server's row makes hand-outs disjoint, `TokenInv`
  that a command has one token: its job, then its result, then the stored status.
* `QueuesKeepPromise`: `Spec => KeepsPromise`, the refinement of `CommandLife`.  `RanInv`
  says that a successful result under way and a stored "done" have an execution behind
  them, and that whatever a request or a job holds was given; with `RouteInv` and, where
  `Sticky`, the invariants of `DoneIsFinal` (together `LifeInv`), every action is a step of
  `CommandLife` or leaves its variables alone.

They rest on `CommandConstants`.  `BackupsSettle` is liveness and stays with TLC.

## 5. Manual probes

`ManualProbes` is "check now" for a monitor whose site only the agent on its server can
reach.  A press creates one request per address (the main one and every extra path).
A fast agent (2.7 or newer) takes them with its poll of commands and posts every answer
at once; any agent also gets them in the answer to its report, and sends what it found
with the next report, beside the planned results that it repeats from memory.

| model | code |
|---|---|
| `born`, `taken`, `ans` | `ManualProbeRequest.created_at`, `taken_at`, `ts` of the answer |
| `verdicts` | outcomes recorded by `_finish_batch` |
| `row` | the last result of an address, and `manual_until` |
| `txns` | transactions of the panel between their reads and their commit |
| `known`, `last`, `todo`, `since` | the agent: tasks of the last answer, `siteLast`/`siteRunAt`, the run of `runSiteProbes` under way |
| `gos`, `posts` | goroutines of fast tasks, and their answers under way |

| action | code |
|---|---|
| `Press`, `Move` | `_run_via_agent`; an edit or deletion of the monitor |
| `FastPoll`, `FastDone`, `PostLost`, `PostIn`, `PostDone` | `take_fast_tasks`, `runManualSiteProbe`, `agent_site_probe_result` |
| `Report`, `ReportDone` | `_store_site_probes` within `agent_report`: ingest, planned results, `tasks_for_report`, commit |
| `ProbeDone` | one probe of `runSiteProbes` |
| `Tick` | time, with the limits that the timeouts give |

Only the moment of a result is kept, because the properties are about which result
counts.  A request carries its own number, so an answer can be told from another's; what
cannot is a planned result, and there the panel relies on `manual_until`.

The run `probes` has one press, a main address and one extra path, an agent of either
kind, lost posts, tasks handed out twice, and two transactions side by side.  It shows
that a verdict rests on answers obtained after the press (`VerdictIsFresh`), that a
press answered through reports gets its verdict (`ReportsAreJudged`), and that a result
repeated from memory never replaces a newer one (`NeverBack`).

*Bounds.*  `Interval`, `Timeout`, `Gap`, `Slack` and `Again` are small multiples of each
other in the order of the real ones (a report is more frequent than a check, the slack
exceeds a report's period).  `MaxTime` spans a press, two hand-outs of its tasks, the
whole authority of its result and the next planned one; with fast polls the other
times do not matter, and `MaxFast` is shorter.  Time ends at the bound, so deadlock is
not checked.

Three limits of the code, each found by TLC when a guard of the properties is dropped:

* `AnsweredIsJudged` fails for fast posts: the answers of the main address and of a path are
  handled side by side, each transaction reads the other's request as unanswered
  (`manual_probe.py:308-325`), and nobody records the outcome.
* `NeverBack` fails for fast posts: a post that commits between the read and the commit
  of a report is overwritten by the planned result the report carries.
* With a probe timeout longer than the interval between reports, `authority_seconds` can
  be too short: the agent's list is worked off one after the other, and the protection
  ends before the agent comes to the address again.

`ManualProbesProofs` proves, for any monitor, presses and times, `TypeCorrect`,
`VerdictsAreFresh`, `ReportedIsJudged` (`ReportsAreJudged`) and `MemoryNeverReplaces` (`NeverBack`).  `VerdictIsFresh` is not inductive: `SinceInv` adds that whatever is
remembered, under way, read by a transaction or stored for a request was obtained after
its press, `CompleteInv` that a transaction that will record an outcome has, with what is
stored, all the answers.  For `ReportsAreJudged`, `JudgedInv` says that without the fast route
there is one transaction at a time, a report's, that what it has read as complete is still
complete when it commits, and that a press whose answers are all stored has its verdict.

`MemoryNeverReplaces` says how far the third limit reaches.  The docstring of `authority_seconds`
(`manual_probe.py:133-139`) says that within interval, 30 seconds and timeout a fresh planned
answer is guaranteed to arrive.  The theorem needs one thing for that: an address falls due
while the agent is busy with a run, that run ends, the next report starts another one, and
that one ends too.  If a probe lasts at most `D`, a run at most `L` (`RunFits(L, D)`, a hypothesis on the behaviour)
and `2 * L + Gap <= Slack + Timeout`, then `NeverBack` holds; with probes of a second, a dozen tasks and a report every
fifteen seconds there is room, with a dozen probes that all run into a timeout of ten seconds there
is none.  `PaceInv` is the clock: at every moment `Soon` bounds the age of each planned result by
what the run under way still needs (`Left`), what the pending report still waits, and `L`.  `MemoryInv`
is the data: what is stored, and what a transaction is about to write, is no newer than the
agent's planned result or is protected for the whole authority; and a manual answer no report
has carried yet was obtained after the last report.  So a planned result that meets no
protection is new enough (`PlannedIsNewer`).  The condition is sufficient, not necessary: the run
`probes` is tighter (`L` would be up to four probes), and the property still holds there.

## 6. Rechecks

`Rechecks` is "check again" on the home page: a job asks for a fresh observation of an
object and ends as fixed, remains or unavailable.  A server's job travels with the
agent's poll of commands and comes back as a snapshot; a site's is done by a background
worker of the panel, under a lease.

| model | code |
|---|---|
| `status`, `born`, `taken`, `spec` | `AlertRecheck`: status, `created_at`, `taken_at`, `identity` and baseline digest |
| `rec`, `ident` | what the panel holds of the object; `identity(obj)` |
| `proof` | the observation a verdict rests on (history) |
| `runs`, `sending` | the agent's goroutines; the regular report under `reportCollectionMu` |
| `work` | the workers of `panel_work` |
| `tx` | what a transaction that holds the job's lock is about to commit |
| `page` | jobs that `latest` has decided to end and not yet written |

| action | code |
|---|---|
| `Start` | `start` with its checks, and `expire` of an older job |
| `PageRead`, `PageWrite` | `latest` of `api/alert_rechecks.py`: the read, and the commit |
| `Poll` | `take_tasks` |
| `Collect`, `Post`, `PostLost`, `Commit` | `collectAlertRecheck`, `runAlertRecheck`; `ingest` and `apply_snapshot` |
| `ReportBuilt`, `ReportIn` | `collectAndSend` and `agent_report` |
| `Claim`, `Probed`, `FailWrite`, `Record` | `panel_work` |
| `AutoCheck`, `Change`, `Edit`, `Crash` | the scheduler's check, the object, its settings, a restart of panel and agent |

The object runs through values of which the odd ones are free of the problem, so that a
value may come back equal in digest to an earlier one: `apply_snapshot` compares digests,
not moments, and `Mergeable` does the same.  That is why `NewerStays` allows an older
observation of the *same* value.

The run `rechecks` has one job of either kind, two workers, the open page, an edit and a
crash.  It shows that "fixed" rests on an observation made since the request
(`FixedIsFresh`), that a late answer never turns another verdict into recovery
(`NoLateRecovery`), that two workers never probe for one job (`OneWorker`), that an answer
never replaces newer knowledge (`NewerStays`), and that every job ends (`JobsEnd`).

*Fairness.*  The agent polls, the open page reads and writes, workers go on, commits
happen, and time passes.  The agent need not answer.  *Bounds.*  `MaxTime` is one unit
beyond the deadline of a job created at the first moment; a job whose deadline lies
beyond the end is not created.

What the model takes for granted.  `JobsEnd` needs somebody to ask: the page is open or
the agent polls, and nothing in the code ends a job that nobody looks at.  A report that the agent
has given up on and the panel handles later, after the next one, is left out (`ReportIn`
comes in order).  `Tick` does not let a lease pass while its worker is between its probe and
its commit; the probe is bounded by `PANEL_TIMEOUT`, those last statements by nothing in the code.

`VerdictStays` ("terminal results survive panel/agent restarts", the docstring of
`AlertRecheck`) does not hold: the page takes no lock and writes "unavailable" over a
verdict committed between its read and its write (`api/alert_rechecks.py:146`).

`RechecksProofs` proves, for any jobs, workers and times, `TypeCorrect`, `FixedMeansFresh`,
`RecoveryIsNeverLate`, `HeldIsNewest` (`NewerStays`), and `LeaseIsExclusive` under the hypothesis
`PANEL_TIMEOUT <= LEASE`, which the constants of `alert_recheck.py` satisfy.  `FreshInv` says
of every observation on its way (goroutine, worker, transaction) that it was made since
the job was created; `LeaseInv` that a busy worker's job carries that worker's claim and
that the lease is not over.  For `NewerStays`, `OrderInv` orders everything that has been seen
(later observations show later values), puts what a job brings back after the baseline
it is compared with, and concludes that a transaction about to commit is newer than what
the panel holds, or has the same value; the comparison of digests suffices because the
panel's own knowledge moves forward too.

## 7. Server alerts

`ServerAlerts` is one kind of alarm of one server as `evaluate_servers` handles it, tick by
tick: a kind with levels (a warning, worse) and without a list of members, such as memory
or disk.  What the conditions say is the input `world`.  The rules are tried in the
order of the code; each is an action, and its guard contains the negation of those
before it.

| action | the rule |
|---|---|
| `Frozen` | the server is silent or its report is a replay |
| `Quiet` | snoozed, or in a maintenance window |
| `Hidden` | muted up to this level |
| `Known` | a known issue of this level covers it (`known.step`, `known.covers`) |
| `Fixed` | marked as fixed (`fixed.py`) |
| `Settling`, `Calm` | the condition is gone: `_SETTLE_S`, then the all-clear |
| `Repeat` | back within `_AGAIN_S` of its all-clear: silent (`_again_of`), up to `_AGAIN_MAX` |
| `Lower`, `Same`, `Reached` | no news |
| `Swinging`, `Alarm` | `_flap_metric`: a metric that crosses its threshold again and again; else an alarm |
| `Dispatch`, `Write` | delivery of the tick's messages; `alert_state`, `known_issues`, `alert_fixed` written |
| `Snooze`, `Mute`, `MarkKnown`, `MarkFixed` | what people do, also between a tick's read and its write |
| `Change`, `Talk` | the server |

`tick.imm` is what is written whatever happens, `tick.then` what is written once the
message was delivered, the silent level of a swinging series included (8276); `tick.mine` and
`tick.fx` say whether the entries of `known_issues` and `alert_fixed` are still those the tick has
read.  A snoozed server leaves its known entry alone, which grows older meanwhile (7868).  `Write` is
one step: the code compares `at` (9120, 9174) and commits later (9191) without a lock, and a
mark that is made between the two is not modelled.

The run `servers` has two levels; a kind that swings and one that does not; snooze, mute,
known and fixed at any moment; any number of refused dispatches.  It shows that what counts
as told was told (`ToldIsHeard`), that an alarm always tells of more than people have
heard since the last all-clear (`AlarmIsNews`), that an all-clear answers an alarm
(`AwakeClearAnswersAlarm`), and, under fairness, that a problem that stands is told at its
level (`StandingIsTold`) and one that is gone gets its all-clear (`GoneIsTold`).

*Fairness.*  `collector_loop` goes on: it evaluates, dispatches and writes (weak fairness
each).  A channel that is tried again and again works some day (strong fairness of a
successful dispatch that carries a message).  *Bounds.*  Ages stop where no rule tells
them from greater ones, so nothing else bounds the run; two levels are enough for
"worse", "less" and "back to a level that was told".

Three statements do not hold; each is in the module, with a comment, and in no run:

* `ClearAnswersAlarm`: a snoozed server sends an all-clear for a repeat that was never told
  (`collector.py:7861-7867`); the rule for repeats comes after the rule for snooze.
* `RepeatsAreTold`: a problem that keeps coming back can stay silent for ever, because an
  all-clear begins the chain of `_AGAIN_MAX` anew (4893-4896).
* `SwingIsHeard`: crossings are counted before the alarm is delivered (7577, 8271), so that a
  series may fall silent although every alarm of it was refused.

`ServerAlertsProofs` proves, for any number of levels, any delays and whatever people do,
`TypeCorrect`, `WhatIsToldIsHeard` (`ToldIsHeard`), `AlarmsAreNews` (`AlarmIsNews`) and
`ClearsAnswerAlarms` (`AwakeClearAnswersAlarm`).  None of the three is inductive: they
compare the chat with `alert_state`, and between the dispatch and the write the two differ.
`HeardInv` says at each stage of a tick what the chat equals: before the dispatch what
`alert_state` takes as told (`Word`: nothing while no problem is open or its repeat is silent,
else the highest level reached), after it the same of the value about to be written; and
`Sound` says of what the rules have prepared that it stays so whether or not the message
is delivered.  The type needs `FlapLimit # 0` of `AlertConstants`, because the count of
crossings is bounded by the crossing that begins a series.

A process killed between the dispatch and the write tells the same news twice; that crash
is not modelled, nothing in the code tries to prevent it.

## 8. Site groups

`SiteGroups` is the delivery of several monitors of one place (a server, an address): a
failure within `JOIN` of the last one becomes a line added to the message already sent,
the members' all-clears are held back until all are well or some have been for
`PARTIAL`, and the groups are one JSON value that every sender loads, changes and saves.

| model | code |
|---|---|
| `bad`, `told` | episodes of the monitors; their incidents' `notified` |
| `groups` | the setting `site_groups` |
| `retry`, `job` | `_REC_RETRY` of a process; the call of `_send_alerts` under way |
| `heard` | whom a reader of the chat takes to be failing |
| `lost`, `unsaid` | history: all-clears that nobody will send any more, lines that were not added |

| action | code |
|---|---|
| `Check` | `record_outcome` of the monitors, and the commit |
| `Load` | `_with_retries`, `site_group.load` |
| `Compose`, `ComposeFails` | `_site_groups`: join, look, ready, stale; an exception in it |
| `DispatchOk`, `DispatchFail` | `alerts.dispatch` |
| `After`, `AfterFails` | `after()`: save the groups, edit the message; an exception in it |
| `Mark` | the marks of the incidents |
| `Tick`, `Crash` | half an hour; a process is killed |

The run `groups` has two monitors, the scheduler as the only sender, a channel that can
edit messages, and any three faults of the four kinds.  It shows that joining a group
loses nobody (`ToldIsHeard`), that somebody always owes the all-clear of a monitor the
chat calls failing (`OwedIsKept`), that a stored group keeps its members until their
all-clear is said (`ListedUntilCleared`), and that members that stay well are cleared
(`MembersAreCleared`).  `lost` and `unsaid` name the accepted losses in the open: a line whose
edit failed, and an all-clear that

* was in the memory of a killed process;
* was held back by a group that could not be saved;
* was parked in `_REC_RETRY` when its site failed again (1197-1198: the all-clear of the new
  outage will do);
* was parked for a day (`_REC_RETRY_MAX`, 1184-1187): a channel that refuses for that long
  leaves the alarm as the last word in the chat, for good.

*Bounds.*  The delays are counted in half hours and kept in their order: `JOIN` is one, `PARTIAL` two,
`REC_RETRY_MAX` three in place of 48, so that within three faults an all-clear can be parked
both for less and for longer than that.  Monitors that `_send_alerts` folded by domain before the
groups see them (`grp_fold`) may make a group of several that still counts as `solo`; `NewGroups`
leaves that open.  A failing read in `_with_retries`, which skips the repeats of one send, and a
database that fails between a commit and the send are not modelled.

*Fairness.*  The scheduler checks, a send goes through its steps, time passes (strong
fairness, because a send under way holds it up).

`SiteGroupsProofs` proves `TypeCorrect` for any senders, and with the scheduler as the only
sender (`Webs = {}`) for any monitors, delays, faults and number of faults:
`WhatIsOwedIsKept` (`OwedIsKept`), `MembersLeaveCleared` (`ListedUntilCleared`) and, with a
channel that edits, `WhatIsToldIsHeard` (`ToldIsHeard`).  The strengthening `SendInv` follows a
send through its stages: nobody changes the stored groups between load and save
(`ReadInv`); every failure the send will mark is in its message or among the lines to be
added (`LineInv`); whatever the groups to be saved no longer announce is cleared by the
very message (`KeptInv`); and `DebtInv` says where each all-clear is.  That `_site_groups`
establishes this is `ComposedSound`, which rests on lemmas about the groups themselves: a
join drops nobody (`FoldedGroups`), and a member that is neither ready nor in a kept group
does not exist (`KeptGroups`).

With a request of the web process as a second sender, `ListedUntilCleared` does not hold:
both load the JSON value, and the second save undoes the first (`site_group.py:16-17`,
`collector.py:1677-1679`).  With a channel that cannot edit (`Telegram = FALSE`), a monitor
that joins a group is marked as told and nobody reads its name.

## 9. Expiry reminders

`ExpiryReminders` is a domain that several monitors watch: each threshold of
`domain_warn_days` is to be told once per term by one of them, and a renewal once.

| model | code |
|---|---|
| `days`, `alerted`, `snooze` | `domain_days`, `domain_alerted_days`, the entry "domain" of `expiry_snooze` |
| `held` | the monitors whose `expiry_checked_at` is younger than `expiry_refresh_hours` because somebody asked for a check |
| `pass` | `run_due_checks` under way, with its `DomainAlerts` |
| `queue` | its `pending` |
| `said`, `tried` | the closest threshold of this term the reader was told of; the closest one that had a message at all (history) |
| `news`, `late` | a renewal nobody was told of yet; one that overtook the queue (history) |

| action | code |
|---|---|
| `Refresh`, `Apply` | the pass, and `_apply_expiry` of a monitor in it: `sync`, the reset, the threshold |
| `Deliver(M)`, `Refuse` | `_send_alerts` and the marks, the messages of `M` left out; a refused dispatch |
| `run_check_now`, `expiry_snooze_check`, `Watch` | requests of `api/checks.py`; a recheck of the alert likewise |
| `Hours` | `expiry_refresh_hours` are over (`_needs_expiry`) |
| `Day`, `Renew` | the calendar and the owner |

`Deliver(M)` leaves out the messages of any monitors `M`: muted, snoozed, in maintenance, their
rule off, or the whole panel muted.  The code asks for all of these at the time of
sending, so that each message may meet another answer.  A user postpones or watches the
monitors of the domain that he may see (`group_allowed`), one of the sets `Views`.

The run `expiry` has two monitors, thresholds 2 and 1, "do not watch" and a postponement to
1 by a user who sees both monitors or only one, terms of three days, any number of refused
and muted messages and of checks on demand.  It shows that a reader gets each threshold
once per term and a renewal once and only when there was one (`NewsOnce`), and that a
threshold that is reached is told, unless a message about it or a closer one was refused or left
out (`ReachedIsTold`).  Two thresholds and expiry itself are enough for an escalation that skips
one, three days for a renewal before, between and after them.

*Fairness.*  The scheduler's loop goes on (`WF(Scheduler)`).  A day does not end before every monitor that is
not paused has been refreshed or put off, because the period of refresh is six hours; the
first day of a term stands for months, and in it everyone is refreshed.  `run_check_now` and a recheck set
`expiry_checked_at` (`api/checks.py:1537`, `alert_recheck.py:368`), store the new term and remind
nobody, and so put the reminder off by six hours.  `WF(Hours)` and `SF(Refreshes)` say that these hours
pass some day without another request: the loop comes round within seconds of that.  Whoever
asks for a check more often than every six hours, for ever, keeps all reminders of that monitor
away; that is so in the code too.

Left out: the value NULL of `domain_days` before the first probe (every monitor here has been
probed once); a process that is killed between the dispatch and the marks (1489, 1503-1515), which
repeats the reminder after its restart, so that `NewsOnce` holds up to such a crash; the probe that
lies between a request's load of the row and its write; and requests that commit while a pass
goes through its rows, which stand before or after the pass here (the pass locks the rows it
has come to, 1086-1104).

`ExpiryRemindersProofs` proves, for any monitors, thresholds, terms, views, mutes and number
of refusals, `TypeCorrect` (a pass leaves at most one message, however many monitors reach a
threshold or notice a renewal in it), and, where two probes of one term agree (`Jitter = 0`),
`ReaderIsToldOnce` (`NewsOnce`).  Both assume `PlainModes`: postponements are to a threshold, as
with the defaults of the code (`domain_warn_days` 7 and 1, `MODES` 7, 1 and 0).  `QueueInv` says of
a pass that has spoken that its `DomainAlerts` shows it, which keeps the others silent.
`TermInv` carries that over from pass to pass: some monitor bears the mark of what was told
(`SaidMarked`), somebody who has seen a renewal keeps the others from telling it again
(`NewsKnown`), and what waits for the channel is news (`QueueNews`), unless the domain was
renewed while it waited.

What the model refutes, or needs its bounds for:

* Without `PlainModes` (thresholds {2}, a postponement to 1) a pass can leave two messages
  after a refusal, or when one monitor was postponed by somebody who does not see the other: the
  two have different thresholds, and each is the first at its own.  `_send_alerts` merges
  them into one, worded by the first.
* `RefusedIsRepeated` ("not delivered: not marked, repeated on the next tick",
  `collector.py:1491`, and the docstring of `DomainAlerts`): the other monitors' silent marks
  are committed before the dispatch (628, 1104).  When it is refused, the speaker
  finds its neighbours already marked and stays silent too.  No refusal is needed: a speaker
  that is muted, snoozed or in maintenance is skipped and not marked (1333-1341), its
  neighbours, which would have been heard, are marked in the same pass, and the threshold is
  told by nobody.  `ReachedIsTold` says how far the loss goes: to that threshold, and not to
  the next one.
* A paused monitor whose mark is left from the last term silences this term's reminder
  (`Paused`; the query at 1090-1092 does not look at `enabled`).
* Two probes of one term that differ by a day (`Jitter = 1`) look like a renewal; the slack
  of `expiry_snooze.py:21-23` covers postponements, not the reset.
* A postponement beyond the largest threshold that is cancelled makes the next pass say
  "renewed"; and the message "renewed" is lost when it is refused, or when a monitor that
  had never reminded is the first to see the renewal.

## 10. What is proved and what is only model-checked

Every theorem is of the form `Spec => []Inv` or `Spec => [][A]_vars` (one is a refinement),
for every value of the constants that satisfies the `ASSUME` of the module; TLC evaluates
those assumptions in every run.  Each invariant module first states what is true of
everything that is *under way* (a queue, a goroutine, a transaction, a lease), because
that is where all of these properties can be lost; the properties themselves follow.

Only model-checked: everything under fairness (`OutageAnnounced`, `AllClear`, `BackupsSettle`,
`JobsEnd`, `StandingIsTold`, `GoneIsTold`, `MembersAreCleared`, `ReachedIsTold`), which is out of this prover's
reach.  Every invariant and every action property of the passing runs is stated by a theorem.  Some theorems have
hypotheses, each with its reason in its section: `Undisturbed` and `Roomy` (section 3), no fast polls
(section 4), `PANEL_TIMEOUT <= LEASE` (section 6), one sender (section 8), `PlainModes` and
`Jitter = 0` (section 9); the runs satisfy them.  `MemoryNeverReplaces` (section 5) has `RunFits(L, D)`
and a relation between `L` and the times; there the run is a tighter case than the theorem.  The theorems about
`SiteGroups` other than its types are for one sender; that is also where its run is, since
with two senders the model refutes `ListedUntilCleared`.

## 11. Not modelled

* *Server conditions* (`evaluate_servers`, `liveness.py`, `oom.py`, `mem_trend.py`,
  `disk_forecast.py` and many more): numeric rules over one report.  `ServerAlerts` takes
  the level they give as its input.
* *Schemas, models, views, reports* (`schemas.py`, most of `api/*.py`): validation and read-only
  computation for the browser.  They are most of the code by lines, and keep no state.
* *Front end, landing pages, docs, migrations, host scripts*: presentation, or run once.
* *Telegram bot, webhook, SMTP*: a channel here takes a message, refuses it, or takes it
  and says it did not (the constant `Uncertain`, off in the runs).
* *Authentication, vault, autoban*: checks of a single request against stored values;
  left aside, the project is about monitoring and alarms.
* *Maintenance windows, parents, boot and planned shutdown*: to the modules they are `hush`
  or `snooze`; which moments they cover is calendar arithmetic.
* *Rollout and agent update*: a candidate for a later module.  *Backup, mirror, heartbeat*:
  file and shell work on the host.
* Of the modelled parts: the requests of the home page, member lists and `offline` of server
  alerts, flood merging, certificates, reminders of known issues.
