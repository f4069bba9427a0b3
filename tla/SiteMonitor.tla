----------------------------- MODULE SiteMonitor -----------------------------
(***************************************************************************)
(* One site monitor of the panel: the row of table "checks", its samples   *)
(* and incidents, and everybody who writes them:                           *)
(*                                                                         *)
(*   Scheduler     run_due_checks, one tick after another;                 *)
(*   m \in Manual  "check now" requests of the web process, which record   *)
(*                 on the row they loaded BEFORE the probe;                *)
(*   r \in Recheck alert rechecks, which re-read the row under its lock.   *)
(*                                                                         *)
(* All of them end in record_outcome and, when it queued something, in     *)
(* _send_alerts.  The chat is what the reader of the alerts has seen.      *)
(*                                                                         *)
(* Time.  Timestamps are kept as ages.  Taking "now" moves time on by some *)
(* d \in Gaps, so no two timestamps are equal.  Ages saturate at Cap,      *)
(* which lies beyond every constant they are compared with.                *)
(***************************************************************************)
EXTENDS SiteFlap

CONSTANTS
    Scheduler, Manual, Recheck,
    Statuses,               \* probe outcomes: "up", "down", "degraded"
    AlertAfter,             \* Check.alert_after_failures
    DegradedAfter,          \* Check.degraded_after_failures
    REC_RETRY_MAX,          \* _REC_RETRY_MAX: age at which a parked all-clear is dropped
    Gaps, Keep, Cap,        \* steps of time; samples kept; largest age
    MaxLag,                 \* how long a probe may last
    Ids, NoInc,             \* incident ids, and none
    MaxFails, MaxCrashes,   \* bound: failed dispatches, killed processes
    Uncertain,              \* whether messages of a failed dispatch may have gone out
    Hush,                   \* which mutes happen: "muted", "snoozed", "held"
    Fates                   \* how the site may settle for good: "up", "down"

Actor == {Scheduler} \cup Manual \cup Recheck
Free == "free"      \* nobody holds the row lock

Max2(a, b) == IF a >= b THEN a ELSE b
Min2(a, b) == IF a <= b THEN a ELSE b

Threshold(st) == Max2(IF st = "degraded" THEN DegradedAfter ELSE AlertAfter, 1)
LongRun == Max2(AlertAfter, 1)
\* consecutive_fails is only compared with the thresholds
TopFails == Max2(Threshold("down"), Threshold("degraded"))

ASSUME MonitorConstants ==
    /\ Statuses \subseteq {"up", "down", "degraded"} /\ "up" \in Statuses
    /\ AlertAfter \in Nat /\ DegradedAfter \in Nat
    /\ REC_RETRY_MAX \in Nat /\ Keep \in Nat /\ Cap \in Nat /\ MaxLag \in Nat
    /\ MaxFails \in Nat /\ MaxCrashes \in Nat /\ Uncertain \in BOOLEAN
    /\ Gaps \subseteq Nat \ {0}
    /\ NoInc \notin Ids /\ Free \notin Actor
    /\ Scheduler \notin Manual /\ Scheduler \notin Recheck /\ Manual \cap Recheck = {}
    /\ Hush \subseteq {"muted", "snoozed", "held"}
    /\ Fates \subseteq {"up", "down"} \cap Statuses

Ages == 0..Cap
Processes == {"scheduler", "web"}
ProcessOf(a) == IF a = Scheduler THEN "scheduler" ELSE "web"

Alarms == {"bad", "flaky"}
Recoveries == {"recovery", "recstable"}       \* _RECOVERY_KINDS
Kinds == Alarms \cup Recoveries \cup {"flakyrec"}

Samples == [age : Ages, st : Statuses]

\* Check.flap_state; only the time of a closed episode is ever read
Flaps == [lvl : {"none", "down", "flaky", "closed"}, age : Ages]
NoFlap == [lvl |-> "none", age |-> 0]
\* mutant: an episode that begins is not kept
Opened_Lost(l) == NoFlap
Opened(l) == [lvl |-> l, age |-> 0]
Closed(k) == [lvl |-> "closed", age |-> k]
\* mutant: an announced outage is not taken for an open episode
Level_OnlyFlaky(f) == IF f.lvl = "flaky" THEN f.lvl ELSE "none"
Level(f) == IF f.lvl \in {"down", "flaky"} THEN f.lvl ELSE "none"

\* the columns of a check row that record_outcome reads back later
Rows == [fails : 0..TopFails, last : Statuses \cup {"unknown"}, flap : Flaps,
         flaky : BOOLEAN, told : BOOLEAN, checked : Ages]
NewRow == [fails |-> 0, last |-> "unknown", flap |-> NoFlap,
           flaky |-> FALSE, told |-> FALSE, checked |-> 0]

\* what a transaction queued: the kinds, the incident "bad" is about, and an
\* all-clear mixed in from _REC_RETRY
Queues == [kinds : SUBSET Kinds, inc : Ids \cup {NoInc}, again : Recoveries \cup {"none"}]
NoQueue == [kinds |-> {}, inc |-> NoInc, again |-> "none"]

Parked == [kind : Recoveries \cup {"none"}, age : Ages]
NotParked == [kind |-> "none", age |-> 0]

VARIABLES
    row, samples,           \* the check row and its samples
    open, notified, started,\* open incidents, the announced ones, their ages
    lock,                   \* who holds the row lock (FOR UPDATE)
    pc, snap, out, now,     \* per actor: step, loaded row, outcome, age of its "now"
    seen, queue,            \* per actor: the open incident it found, its queue
    retry,                  \* per process: _REC_RETRY
    hush,                   \* the mute in force, or "no"
    chat,                   \* alarms since the last all-clear, all-clears since
    fate,                   \* "no", or what every probe says from here on
    fails, crashes          \* budgets used

db == <<row, samples, open, notified, started>>
local == <<pc, snap, out, now, seen, queue>>
env == <<hush, fate>>
vars == <<db, lock, local, retry, env, chat, fails, crashes>>

Chats == [down : 0..2, flaky : 0..2, clear : 0..2]

Init ==
    /\ row = NewRow /\ samples = {}
    /\ open = {} /\ notified = {} /\ started = [i \in Ids |-> 0]
    /\ lock = Free
    /\ pc = [a \in Actor |-> "idle"]
    /\ snap = [a \in Actor |-> NewRow]
    /\ out = [a \in Actor |-> "up"]
    /\ now = [a \in Actor |-> 0]
    /\ seen = [a \in Actor |-> NoInc]
    /\ queue = [a \in Actor |-> NoQueue]
    /\ retry = [p \in Processes |-> NotParked]
    /\ hush = "no" /\ fate = "no"
    /\ chat = [down |-> 0, flaky |-> 0, clear |-> 1]
    /\ fails = 0 /\ crashes = 0

-----------------------------------------------------------------------------
(* Time.                                                                   *)

Older(x, d) == Min2(x + d, Cap)
OlderFlap(f, d) == IF f.lvl = "closed" THEN Closed(Older(f.age, d)) ELSE f
OlderRow(r, d) == [r EXCEPT !.checked = Older(@, d), !.flap = OlderFlap(@, d)]
OlderSamples(S, d) == {[age |-> Older(s.age, d), st |-> s.st] : s \in S}
\* the rows the actors have loaded
OlderSnaps(d) == [a \in Actor |-> IF pc[a] \in {"loading", "loaded", "probing", "locked"}
                                  THEN OlderRow(snap[a], d) ELSE snap[a]]
InFlight(a) == pc[a] \in {"probed", "loaded", "locked", "send", "dispatch", "mark"}

\* everything with a timestamp gets older by d; a's own "now" is taken
TakeNow(a, d) ==
    /\ row' = OlderRow(row, d)
    /\ samples' = OlderSamples(samples, d)
    /\ started' = [i \in Ids |-> IF i \in open THEN Older(started[i], d) ELSE 0]
    /\ now' = [b \in Actor |-> IF b # a /\ InFlight(b) THEN Older(now[b], d) ELSE 0]
    /\ retry' = [p \in Processes |->
                    IF retry[p].kind = "none" THEN NotParked
                    ELSE [retry[p] EXCEPT !.age = Older(@, d)]]

\* no probe in flight becomes older than its timeout
InTime(a, d) == \A b \in Actor \ {a} : InFlight(b) => now[b] + d <= MaxLag

Probed(st) == st \in Statuses /\ (fate # "no" => st = fate)

-----------------------------------------------------------------------------
(* The pure part of record_outcome: from the row as loaded, the outcome st *)
(* of age k and the open incident found under the lock.                    *)

\* _flap_hist: the samples before this one, this one included, seen from now
FlapHist(st, k) ==
    {[age |-> s.age - k, st |-> s.st] : s \in {s \in samples : s.age > k}}
        \cup {[age |-> 0, st |-> st]}

\* _flaky_step: only the samples after the last closed episode
FlakyHist(flap, st, k) ==
    Latest({s \in samples : s.age > k /\ (flap.lvl = "closed" => s.age < flap.age)},
           WINDOW + LongRun)
        \cup {[age |-> k, st |-> st]}

\* _flaky_step: from flap, flaky and told to their new values and a message
FlakyStep(flap, flaky, told, st, k) ==
    LET is == IsFlaky(FlakyHist(flap, st, k), LongRun, flaky)
        ep == Level(flap)
        alarm == is /\ ~told /\ ep = "none"
        over == ~is /\ told /\ ep # "down"
    IN  [flap  |-> IF over /\ ep = "flaky" THEN Closed(k) ELSE flap,
         flaky |-> is,
         told  |-> IF is /\ ep # "none" THEN TRUE
                   ELSE IF ~is /\ ep = "down" THEN FALSE ELSE told,
         kinds |-> {x \in {"flaky", "flakyrec"} :
                        (x = "flaky" /\ alarm) \/ (x = "flakyrec" /\ over)}]

\* The counter, the incident's alarm or all-clear and the episode, before
\* _flaky_step.  A manual outcome does not move the counter and raises no alarm.
Judged(r, st, k, manual, inc) ==
    LET cnt == IF st = "up" THEN 0
               ELSE IF manual THEN r.fails ELSE Min2(r.fails + 1, TopFails)
        forgotten == Level(r.flap) # "none" /\ r.last # "unknown" /\ r.checked - k > STABLE
        flap0 == IF forgotten THEN NoFlap ELSE r.flap
        ep == Level(flap0)
        told0 == inc # NoInc /\ inc \in notified
        due == ~manual /\ st # "up" /\ ~told0 /\ cnt >= Threshold(st)
        fresh == inc = NoInc \/ started[inc] - k < WORSE
        closes == st = "up" /\ inc # NoInc /\ told0
        flaps == r.flaky \/ Flapping(FlapHist(st, k))
        recstable == st = "up" /\ inc = NoInc /\ ep = "down" /\ Stable(FlapHist(st, k))
    IN  [fails  |-> cnt,
         flap   |-> IF (closes /\ ~flaps) \/ recstable THEN Closed(k)
                    ELSE IF closes /\ ep # "down" THEN Opened("down") ELSE flap0,
         flaky  |-> IF recstable THEN FALSE ELSE r.flaky,
         told   |-> IF recstable THEN FALSE ELSE r.told,
         kinds  |-> {x \in {"bad", "recovery", "recstable"} :
                        \/ x = "bad" /\ due /\ ep # "down" /\ ~(ep = "flaky" /\ fresh)
                        \/ x = "recovery" /\ closes /\ ~flaps
                        \/ x = "recstable" /\ recstable},
         silent |-> due /\ ep = "down"]

\* A manual outcome skips _flaky_step.
Outcome(r, st, k, manual, inc) ==
    LET j == Judged(r, st, k, manual, inc)
        f == IF manual THEN [flap |-> j.flap, flaky |-> j.flaky, told |-> j.told, kinds |-> {}]
             ELSE FlakyStep(j.flap, j.flaky, j.told, st, k)
    IN  [row    |-> [fails |-> j.fails, last |-> st, flap |-> f.flap, flaky |-> f.flaky,
                     told |-> f.told, checked |-> k],
         kinds  |-> j.kinds \cup f.kinds,
         silent |-> j.silent]

\* The ORM writes only the columns whose value differs from the loaded one;
\* counting a failure and stamping last_checked_at always differ.
Flush(current, loaded, new, counted) ==
    [fails   |-> IF counted \/ new.fails # loaded.fails THEN new.fails ELSE current.fails,
     last    |-> IF new.last # loaded.last THEN new.last ELSE current.last,
     flap    |-> IF new.flap # loaded.flap THEN new.flap ELSE current.flap,
     flaky   |-> IF new.flaky # loaded.flaky THEN new.flaky ELSE current.flaky,
     told    |-> IF new.told # loaded.told THEN new.told ELSE current.told,
     checked |-> new.checked]

-----------------------------------------------------------------------------
(* The scheduler's tick: run_due_checks.                                   *)

\* now, the list of due monitors and their probes
SchedTick(d) ==
    /\ pc[Scheduler] = "idle"
    /\ InTime(Scheduler, d)
    /\ TakeNow(Scheduler, d)
    /\ snap' = OlderSnaps(d)
    /\ \E st \in Statuses : Probed(st) /\ out' = [out EXCEPT ![Scheduler] = st]
    /\ pc' = [pc EXCEPT ![Scheduler] = "probed"]
    /\ UNCHANGED <<open, notified, lock, seen, queue, env, chat, fails, crashes>>

\* row = await session.get(Check, check.id)
SchedLoad ==
    /\ pc[Scheduler] = "probed"
    /\ snap' = [snap EXCEPT ![Scheduler] = row]
    /\ pc' = [pc EXCEPT ![Scheduler] = "loaded"]
    /\ UNCHANGED <<db, lock, out, now, seen, queue, retry, env, chat, fails, crashes>>

-----------------------------------------------------------------------------
(* "Check now": run_check_now, _execute_and_store.                         *)

\* check = await _get_or_404(...)
ManualLoad(m) ==
    /\ pc[m] = "idle"
    /\ snap' = [snap EXCEPT ![m] = row]
    /\ pc' = [pc EXCEPT ![m] = "loading"]
    /\ UNCHANGED <<db, lock, out, now, seen, queue, retry, env, chat, fails, crashes>>

\* outcome = await run_check(check); now = datetime.now()
ManualProbe(m, d) ==
    /\ pc[m] = "loading"
    /\ InTime(m, d)
    /\ TakeNow(m, d)
    /\ snap' = OlderSnaps(d)
    /\ \E st \in Statuses : Probed(st) /\ out' = [out EXCEPT ![m] = st]
    /\ pc' = [pc EXCEPT ![m] = "loaded"]
    /\ UNCHANGED <<open, notified, lock, seen, queue, env, chat, fails, crashes>>

-----------------------------------------------------------------------------
(* Alert recheck: the network first, then the row re-read under its lock.  *)

\* the baseline digest is taken and the probe runs
RecheckProbe(r) ==
    /\ pc[r] = "idle"
    /\ snap' = [snap EXCEPT ![r] = row]
    /\ \E st \in Statuses : Probed(st) /\ out' = [out EXCEPT ![r] = st]
    /\ pc' = [pc EXCEPT ![r] = "probing"]
    /\ UNCHANGED <<db, lock, now, seen, queue, retry, env, chat, fails, crashes>>

\* mutant: the row is locked but not read again
RecheckLock_NotReread(r, d) ==
    /\ pc[r] = "probing"
    /\ lock = Free
    /\ InTime(r, d)
    /\ TakeNow(r, d)
    /\ snap' = OlderSnaps(d)
    /\ lock' = r
    /\ \E i \in open \cup {NoInc} :
          /\ (i = NoInc) <=> (open = {})
          /\ seen' = [seen EXCEPT ![r] = i]
    /\ pc' = [pc EXCEPT ![r] = "locked"]
    /\ UNCHANGED <<open, notified, out, queue, env, chat, fails, crashes>>

\* SELECT ... FOR UPDATE of the whole row, now = datetime.now()
RecheckLock(r, d) ==
    /\ pc[r] = "probing"
    /\ lock = Free
    /\ row.checked = snap[r].checked /\ row.last = snap[r].last    \* the baseline
    /\ InTime(r, d)
    /\ TakeNow(r, d)
    /\ snap' = [OlderSnaps(d) EXCEPT ![r] = OlderRow(row, d)]
    /\ lock' = r
    /\ \E i \in open \cup {NoInc} :
          /\ (i = NoInc) <=> (open = {})
          /\ seen' = [seen EXCEPT ![r] = i]
    /\ pc' = [pc EXCEPT ![r] = "locked"]
    /\ UNCHANGED <<open, notified, out, queue, env, chat, fails, crashes>>

\* somebody stored a newer result meanwhile: finish "unavailable"
RecheckStale(r) ==
    /\ pc[r] = "probing"
    /\ lock = Free
    /\ row.checked # snap[r].checked \/ row.last # snap[r].last
    /\ pc' = [pc EXCEPT ![r] = "idle"]
    /\ snap' = [snap EXCEPT ![r] = NewRow]
    /\ out' = [out EXCEPT ![r] = "up"]
    /\ UNCHANGED <<db, lock, now, seen, queue, retry, env, chat, fails, crashes>>

-----------------------------------------------------------------------------
(* record_outcome, up to the commit of its transaction.                    *)

\* mutant: the open incident is looked up without the lock
LockRow_NoWait(a) ==
    /\ pc[a] = "loaded"
    /\ lock' = a
    /\ \E i \in open \cup {NoInc} :
          /\ (i = NoInc) <=> (open = {})
          /\ seen' = [seen EXCEPT ![a] = i]
    /\ pc' = [pc EXCEPT ![a] = "locked"]
    /\ UNCHANGED <<db, snap, out, now, queue, retry, env, chat, fails, crashes>>

\* SELECT id ... FOR UPDATE, then the query for the open incident.  The lock
\* does not refresh the columns of the row already loaded.
LockRow(a) ==
    /\ pc[a] = "loaded"
    /\ lock = Free
    /\ lock' = a
    /\ \E i \in open \cup {NoInc} :
          /\ (i = NoInc) <=> (open = {})
          /\ seen' = [seen EXCEPT ![a] = i]
    /\ pc' = [pc EXCEPT ![a] = "locked"]
    /\ UNCHANGED <<db, snap, out, now, queue, retry, env, chat, fails, crashes>>

\* incidents that some queued "bad" still names keep their id
Named == {queue[b].inc : b \in Actor}

\* the incident the outcome is booked on: the one found, or a new one
Booked(a, i) ==
    IF seen[a] # NoInc \/ out[a] = "up" THEN i = seen[a]
    ELSE i \in Ids \ (open \cup Named)

\* mutant: the incident is marked as told when the alarm is queued
Commit_TellsEarly(a, o, i) ==
    /\ open' = IF out[a] = "up" THEN open \ {i} ELSE open \cup {i}
    /\ notified' = IF out[a] = "up" THEN notified \ {i}
                   ELSE IF o.silent \/ "bad" \in o.kinds THEN notified \cup {i}
                   ELSE IF i = seen[a] THEN notified ELSE notified \ {i}
    /\ started' = [j \in Ids |-> IF j # i THEN started[j]
                                 ELSE IF out[a] = "up" THEN 0
                                 ELSE IF i = seen[a] THEN started[j] ELSE now[a]]
    /\ samples' = Latest(samples \cup {[age |-> now[a], st |-> out[a]]}, Keep)
    /\ row' = Flush(row, snap[a], o.row, out[a] # "up" /\ a = Scheduler)
    /\ queue' = [queue EXCEPT ![a] = [kinds |-> o.kinds, again |-> "none",
                                      inc |-> IF "bad" \in o.kinds THEN i ELSE NoInc]]
    /\ pc' = [pc EXCEPT ![a] = IF o.kinds = {} THEN "idle" ELSE "send"]
    /\ now' = [now EXCEPT ![a] = IF o.kinds = {} THEN 0 ELSE @]

\* the transaction of a books outcome o on incident i and commits
Commit(a, o, i) ==
    /\ open' = IF out[a] = "up" THEN open \ {i} ELSE open \cup {i}
    /\ notified' = IF out[a] = "up" THEN notified \ {i}
                   ELSE IF o.silent THEN notified \cup {i}
                   ELSE IF i = seen[a] THEN notified ELSE notified \ {i}
    /\ started' = [j \in Ids |-> IF j # i THEN started[j]
                                 ELSE IF out[a] = "up" THEN 0
                                 ELSE IF i = seen[a] THEN started[j] ELSE now[a]]
    /\ samples' = Latest(samples \cup {[age |-> now[a], st |-> out[a]]}, Keep)
    /\ row' = Flush(row, snap[a], o.row, out[a] # "up" /\ a = Scheduler)
    /\ queue' = [queue EXCEPT ![a] = [kinds |-> o.kinds, again |-> "none",
                                      inc |-> IF "bad" \in o.kinds THEN i ELSE NoInc]]
    /\ pc' = [pc EXCEPT ![a] = IF o.kinds = {} THEN "idle" ELSE "send"]
    /\ now' = [now EXCEPT ![a] = IF o.kinds = {} THEN 0 ELSE @]

Store(a) ==
    /\ pc[a] = "locked"
    /\ \E o \in {Outcome(snap[a], out[a], now[a], a # Scheduler, seen[a])} :
          \E i \in Ids \cup {NoInc} : Booked(a, i) /\ Commit(a, o, i)
    /\ lock' = Free
    /\ snap' = [snap EXCEPT ![a] = NewRow]
    /\ out' = [out EXCEPT ![a] = "up"]
    /\ seen' = [seen EXCEPT ![a] = NoInc]
    /\ UNCHANGED <<retry, env, chat, fails, crashes>>

-----------------------------------------------------------------------------
(* _send_alerts.                                                           *)

\* other monitors of the same process have something to say: only this lets a
\* parked all-clear go out when the monitor itself has nothing new
OthersSend(a) ==
    /\ pc[a] = "idle"
    /\ retry[ProcessOf(a)].kind # "none"
    /\ pc' = [pc EXCEPT ![a] = "send"]
    /\ UNCHANGED <<db, lock, snap, out, now, seen, queue, retry, env, chat, fails, crashes>>

\* what the mute in force lets through
Passes(kinds) ==
    CASE hush = "no"      -> kinds
      [] hush = "muted"   -> {}
      [] hush = "snoozed" -> kinds \cap Recoveries
      [] hush = "held"    -> kinds \ Alarms

\* mutant: a parked all-clear is sent whatever became of the monitor
StillUp_Always(r) == TRUE

\* a parked all-clear is true only while the monitor is up
StillUp(r) == r.last = "up"

\* _with_retries, then the filters
Compose(a) ==
    LET p == ProcessOf(a)
        parked == retry[p].kind # "none"
        expired == parked /\ retry[p].age >= REC_RETRY_MAX
        wanted == parked /\ ~expired /\ queue[a].kinds \cap Recoveries = {}
        again == IF wanted /\ StillUp(row) THEN retry[p].kind ELSE "none"
        texts == Passes(queue[a].kinds)
        silence == hush = "muted" \/ (texts = {} /\ again = "none")
    IN  /\ pc[a] = "send"
        /\ retry' = IF expired \/ (wanted /\ ~StillUp(row))
                    THEN [retry EXCEPT ![p] = NotParked] ELSE retry
        /\ queue' = [queue EXCEPT ![a] =
                        IF silence THEN NoQueue
                        ELSE [kinds |-> texts, again |-> again,
                              inc |-> IF "bad" \in texts THEN @.inc ELSE NoInc]]
        /\ pc' = [pc EXCEPT ![a] = IF silence THEN "idle" ELSE "dispatch"]
        /\ now' = [now EXCEPT ![a] = IF silence THEN 0 ELSE @]
        /\ UNCHANGED <<db, lock, snap, out, seen, env, chat, fails, crashes>>

Up(n) == Min2(n + 1, 2)
SayDown(c) == [down |-> Up(c.down), flaky |-> c.flaky, clear |-> 0]
SayFlaky(c) == [down |-> c.down, flaky |-> Up(c.flaky), clear |-> 0]
SayClear(c) == [down |-> 0, flaky |-> 0, clear |-> Up(c.clear)]

\* the messages of a batch reach the chat in the order they were queued
Say(c, kinds, again) ==
    LET c1 == IF "bad" \in kinds THEN SayDown(c)
              ELSE IF kinds \cap Recoveries # {} THEN SayClear(c) ELSE c
        c2 == IF "flaky" \in kinds THEN SayFlaky(c1)
              ELSE IF "flakyrec" \in kinds THEN SayClear(c1) ELSE c1
    IN  IF again # "none" THEN SayClear(c2) ELSE c2

\* dispatch returned True: parked all-clears of this batch are settled
DispatchOk(a) ==
    LET q == queue[a]
        cleared == q.again # "none" \/ q.kinds \cap Recoveries # {}
    IN  /\ pc[a] = "dispatch"
        /\ chat' = Say(chat, q.kinds, q.again)
        /\ retry' = IF cleared THEN [retry EXCEPT ![ProcessOf(a)] = NotParked] ELSE retry
        /\ pc' = [pc EXCEPT ![a] = "mark"]
        /\ UNCHANGED <<db, lock, snap, out, now, seen, queue, env, fails, crashes>>

\* dispatch returned False; some of the messages may have gone out all the same
\* (part of the batch, or a request that timed out after it was accepted)
DispatchFail(a) ==
    LET q == queue[a]
        p == ProcessOf(a)
        rec == q.kinds \cap Recoveries
    IN  /\ pc[a] = "dispatch"
        /\ fails < MaxFails
        /\ fails' = fails + 1
        /\ \E gone \in (IF Uncertain THEN SUBSET q.kinds ELSE {{}}),
              again \in (IF Uncertain THEN {q.again, "none"} ELSE {"none"}) :
              chat' = Say(chat, gone, again)
        /\ retry' = IF rec # {} /\ retry[p].kind = "none"
                    THEN [retry EXCEPT ![p] = [kind |-> CHOOSE x \in rec : TRUE, age |-> now[a]]]
                    ELSE retry
        /\ queue' = [queue EXCEPT ![a] = NoQueue]
        /\ now' = [now EXCEPT ![a] = 0]
        /\ pc' = [pc EXCEPT ![a] = "idle"]
        /\ UNCHANGED <<db, lock, snap, out, seen, env, crashes>>

\* mutant: the test "inc_id is not None" is dropped
Told_NoCheck(q) == {q.inc}

\* inc.notified = True; on a closed incident nobody reads it any more
Told(q) == {q.inc} \cap open

\* the flags of the queue, in the order of its messages
Flagged(q) ==
    [row EXCEPT !.flap = IF "flaky" \in q.kinds THEN Opened("flaky")
                         ELSE IF "bad" \in q.kinds THEN Opened("down") ELSE @,
                !.told = IF "flaky" \in q.kinds THEN TRUE
                         ELSE IF "flakyrec" \in q.kinds THEN FALSE ELSE @]

\* delivered: inc.notified and the flags, in one transaction that waits for the
\* row lock
Mark(a) ==
    /\ pc[a] = "mark"
    /\ lock = Free
    /\ notified' = notified \cup Told(queue[a])
    /\ row' = Flagged(queue[a])
    /\ queue' = [queue EXCEPT ![a] = NoQueue]
    /\ now' = [now EXCEPT ![a] = 0]
    /\ pc' = [pc EXCEPT ![a] = "idle"]
    /\ UNCHANGED <<samples, open, started, lock, snap, out, seen, retry, env,
                   chat, fails, crashes>>

-----------------------------------------------------------------------------
(* The environment.                                                        *)

\* the process is killed: its transactions roll back, its memory is gone
Crash(p) ==
    LET mine == {a \in Actor : ProcessOf(a) = p}
    IN  /\ crashes < MaxCrashes
        /\ crashes' = crashes + 1
        /\ pc' = [a \in Actor |-> IF a \in mine THEN "idle" ELSE pc[a]]
        /\ snap' = [a \in Actor |-> IF a \in mine THEN NewRow ELSE snap[a]]
        /\ out' = [a \in Actor |-> IF a \in mine THEN "up" ELSE out[a]]
        /\ now' = [a \in Actor |-> IF a \in mine THEN 0 ELSE now[a]]
        /\ seen' = [a \in Actor |-> IF a \in mine THEN NoInc ELSE seen[a]]
        /\ queue' = [a \in Actor |-> IF a \in mine THEN NoQueue ELSE queue[a]]
        /\ retry' = [retry EXCEPT ![p] = NotParked]
        /\ lock' = IF lock \in mine THEN Free ELSE lock
        /\ UNCHANGED <<db, env, chat, fails>>

\* the operator mutes or unmutes, a parent server goes silent or comes back
SetHush(h) ==
    /\ h # hush
    /\ hush' = h
    /\ UNCHANGED <<db, lock, local, retry, fate, chat, fails, crashes>>

\* from here on the site is up, or down, for good
Settle(st) ==
    /\ fate = "no"
    /\ fate' = st
    /\ UNCHANGED <<db, lock, local, retry, hush, chat, fails, crashes>>

-----------------------------------------------------------------------------
Send(a) == Compose(a) \/ DispatchOk(a) \/ DispatchFail(a) \/ Mark(a)

Next ==
    \/ \E d \in Gaps : SchedTick(d)
    \/ SchedLoad
    \/ \E m \in Manual : ManualLoad(m) \/ \E d \in Gaps : ManualProbe(m, d)
    \/ \E r \in Recheck : \/ RecheckProbe(r) \/ RecheckStale(r)
                          \/ \E d \in Gaps : RecheckLock(r, d)
    \/ \E a \in Actor : LockRow(a) \/ Store(a) \/ OthersSend(a) \/ Send(a)
    \/ \E p \in Processes : Crash(p)
    \/ \E h \in Hush \cup {"no"} : SetHush(h)
    \/ \E st \in Fates : Settle(st)

Spec == Init /\ [][Next]_vars

\* what an actor does once it has begun
Step(a) ==
    \/ a = Scheduler /\ (SchedLoad \/ \E d \in Gaps : SchedTick(d))
    \/ a \in Manual /\ \E d \in Gaps : ManualProbe(a, d)
    \/ a \in Recheck /\ (RecheckStale(a) \/ \E d \in Gaps : RecheckLock(a, d))
    \/ LockRow(a) \/ Send(a)

\* The scheduler's loop goes on and a request that has begun is carried to its
\* end.  Strong, because the row lock is granted in turn: nobody waits for ever
\* while others get it.  A transaction that holds the lock commits: Store(a) is
\* enabled from the moment the lock is taken, so its weak fairness is the second
\* conjunct.  Nobody has to press "check now".
Fairness == \A a \in Actor : SF_vars(Step(a)) /\ []<>(pc[a] # "locked")

FairSpec == Spec /\ Fairness

-----------------------------------------------------------------------------
(* Properties.                                                             *)

\* The domains of the state; only an open incident is marked as told.
TypeOK ==
    /\ row \in Rows /\ samples \subseteq Samples
    /\ open \subseteq Ids /\ notified \subseteq open /\ started \in [Ids -> Ages]
    /\ lock \in Actor \cup {Free}
    /\ pc \in [Actor -> {"idle", "loading", "probing", "probed", "loaded", "locked",
                         "send", "dispatch", "mark"}]
    /\ snap \in [Actor -> Rows] /\ out \in [Actor -> Statuses] /\ now \in [Actor -> Ages]
    /\ seen \in [Actor -> Ids \cup {NoInc}] /\ queue \in [Actor -> Queues]
    /\ retry \in [Processes -> Parked]
    /\ hush \in Hush \cup {"no"} /\ fate \in Fates \cup {"no"} /\ chat \in Chats
    /\ fails \in 0..MaxFails /\ crashes \in 0..MaxCrashes

\* Two writers never open two incidents for one outage: that is what the row lock
\* in record_outcome is for.
OneOpenIncident == \A i, j \in open : i = j

\* A recheck saves over nothing newer: while it holds the lock, the row it works
\* on is the row in the database.
RecheckIsFresh == \A r \in Recheck : pc[r] = "locked" => snap[r] = row

\* One alarm of each level and one all-clear for a whole episode, however the site
\* goes up and down (site_flap.py); the first all-clear needs an alarm before it.
EpisodeSpeaksOnce == chat.down <= 1 /\ chat.flaky <= 1 /\ chat.clear <= 1

\* An incident counts as told only while the last word in the chat is an alarm: the
\* silent branch of record_outcome ("the same episode") never hides an outage from
\* a reader who was told that all is well.
NotifiedWasTold == notified # {} => chat.down + chat.flaky > 0

Cleared == chat'.clear > chat.clear

\* No all-clear goes out while an announced incident is still open.  It does not
\* hold: two alarms of one check (README, section 3).
ClearInPeace == [][Cleared => notified = {}]_vars

\* No all-clear goes out while the monitor's last result is a failure.
ClearWhenUp == [][Cleared => row.last = "up"]_vars

\* A site that stays down is announced, also when the channel refused an alarm on
\* the way.
OutageAnnounced == (fate = "down") ~> (chat.down > 0)

\* A site that stays up is cleared: the last word in the chat does not stay an
\* alarm, unless the channel refused a message or a process was killed.
AllClear ==
    (fate = "up" /\ fails = 0 /\ crashes = 0)
        ~> (chat.down + chat.flaky = 0 \/ fails > 0 \/ crashes > 0)

\* The same when the channel refused a message: an all-clear that was not delivered
\* is repeated on the next tick (the comment in _send_alerts).  It does not hold: a
\* quiet panel does not come to _send_alerts (README, section 3).
AllClearRepeated == (fate = "up") ~> (chat.down + chat.flaky = 0)
=============================================================================
