-------------------------- MODULE SiteMonitorProofs --------------------------
(***************************************************************************)
(* What holds of SiteMonitor for any number of requests, any thresholds,   *)
(* any windows and any bounds.                                             *)
(*                                                                         *)
(* IncidentInv is the strengthening of OneOpenIncident: who is inside      *)
(* record_outcome holds the row lock, and the incident it found is still   *)
(* the open one.  EpisodeInv is that of the promise of site_flap.py: what  *)
(* the chat holds for every level of the episode and every stage of a      *)
(* message on its way (TalkInv), which of the latest samples the counter   *)
(* stands for (RunInv), and that the scheduler works on the row as it is   *)
(* (AloneInv).  ClearInv, of the last part, ties the mark of a flaky site  *)
(* to the samples that show it.                                            *)
(***************************************************************************)
EXTENDS SiteMonitor, SiteFlapProofs

-----------------------------------------------------------------------------
(* Facts about the operators.                                              *)

\* Growing older stays within the ages.
LEMMA OlderType ==
    ASSUME NEW x \in Ages, NEW d \in Gaps
    PROVE  Older(x, d) \in Ages
BY MonitorConstants DEF Older, Ages, Min2

\* The thresholds are natural numbers.
LEMMA TopFailsType == TopFails \in Nat
BY MonitorConstants DEF TopFails, Threshold, Max2

\* A row stays a row while time passes.
LEMMA OlderRowType ==
    ASSUME NEW r \in Rows, NEW d \in Gaps
    PROVE  OlderRow(r, d) \in Rows
<1>1. Older(r.checked, d) \in Ages
  BY OlderType DEF Rows
<1>2. OlderFlap(r.flap, d) \in Flaps
  <2>1. Older(r.flap.age, d) \in Ages
    BY OlderType DEF Rows, Flaps
  <2> QED BY <2>1 DEF OlderFlap, Closed, Rows, Flaps
<1> QED BY <1>1, <1>2 DEF OlderRow, Rows

\* So do the samples.
LEMMA OlderSamplesType ==
    ASSUME NEW S, S \subseteq Samples, NEW d \in Gaps
    PROVE  OlderSamples(S, d) \subseteq Samples
BY OlderType DEF OlderSamples, Samples

\* The verdict of flaky.is_flaky is a verdict.
LEMMA IsFlakyType ==
    ASSUME NEW S, NEW n, NEW was \in BOOLEAN
    PROVE  IsFlaky(S, n, was) \in BOOLEAN
<1> DEFINE failures == Cardinality(ShortFailures(S, n))
<1>0. was = TRUE \/ was = FALSE
  OBVIOUS
<1>1. CASE InOutage(S, n)
  BY <1>1 DEF IsFlaky
<1>2. CASE ~InOutage(S, n) /\ was = TRUE
  <2>1. IsFlaky(S, n, was) = (failures > CLEAR)
    BY <1>2, Zenon DEF IsFlaky
  <2> QED BY <2>1
<1>3. CASE ~InOutage(S, n) /\ was = FALSE
  <2>1. IsFlaky(S, n, was) = (failures >= FAILS /\ Cardinality(ShortRuns(S, n)) >= RUNS)
    BY <1>3, Zenon DEF IsFlaky
  <2> QED BY <2>1
<1> QED BY <1>0, <1>1, <1>2, <1>3

\* The episode after _flaky_step is an episode, its messages are messages.
LEMMA FlakyStepType ==
    ASSUME NEW flap \in Flaps, NEW flaky \in BOOLEAN, NEW told \in BOOLEAN,
           NEW st \in Statuses, NEW k \in Ages
    PROVE  /\ FlakyStep(flap, flaky, told, st, k).flap \in Flaps
           /\ FlakyStep(flap, flaky, told, st, k).flaky \in BOOLEAN
           /\ FlakyStep(flap, flaky, told, st, k).told \in BOOLEAN
           /\ FlakyStep(flap, flaky, told, st, k).kinds \subseteq Kinds
<1>1. IsFlaky(FlakyHist(flap, st, k), LongRun, flaky) \in BOOLEAN
  BY IsFlakyType
<1>2. Closed(k) \in Flaps
  BY DEF Closed, Flaps
<1> QED BY <1>1, <1>2 DEF FlakyStep, Kinds, Alarms

\* The first part of record_outcome leaves an episode and queues messages.
LEMMA JudgedType ==
    ASSUME NEW r \in Rows, NEW st \in Statuses, NEW k \in Ages,
           NEW manual \in BOOLEAN, NEW inc
    PROVE  /\ Judged(r, st, k, manual, inc).fails \in 0..TopFails
           /\ Judged(r, st, k, manual, inc).flap \in Flaps
           /\ Judged(r, st, k, manual, inc).flaky \in BOOLEAN
           /\ Judged(r, st, k, manual, inc).told \in BOOLEAN
           /\ Judged(r, st, k, manual, inc).kinds \subseteq Kinds
<1>1. Closed(k) \in Flaps /\ Opened("down") \in Flaps /\ NoFlap \in Flaps
  BY MonitorConstants DEF Closed, Opened, NoFlap, Flaps, Ages
<1>2. r.flap \in Flaps /\ r.flaky \in BOOLEAN /\ r.told \in BOOLEAN /\ r.fails \in 0..TopFails
  BY DEF Rows
<1>3. Min2(r.fails + 1, TopFails) \in 0..TopFails /\ 0 \in 0..TopFails
  BY <1>2, TopFailsType DEF Min2
<1>4. Judged(r, st, k, manual, inc).fails \in 0..TopFails
  BY <1>2, <1>3 DEF Judged
<1>5. Judged(r, st, k, manual, inc).flap \in Flaps
  BY <1>1, <1>2 DEF Judged
<1>6. Judged(r, st, k, manual, inc).flaky \in BOOLEAN /\ Judged(r, st, k, manual, inc).told \in BOOLEAN
  BY <1>2 DEF Judged
<1>7. Judged(r, st, k, manual, inc).kinds \subseteq Kinds
  BY DEF Judged, Kinds, Alarms, Recoveries
<1> QED BY <1>4, <1>5, <1>6, <1>7

\* What record_outcome leaves in the row is a row, what it queues are messages.
LEMMA OutcomeType ==
    ASSUME NEW r \in Rows, NEW st \in Statuses, NEW k \in Ages,
           NEW manual \in BOOLEAN, NEW inc
    PROVE  /\ Outcome(r, st, k, manual, inc).row \in Rows
           /\ Outcome(r, st, k, manual, inc).kinds \subseteq Kinds
<1> DEFINE j == Judged(r, st, k, manual, inc)
<1>1. /\ j.fails \in 0..TopFails /\ j.flap \in Flaps /\ j.flaky \in BOOLEAN
      /\ j.told \in BOOLEAN /\ j.kinds \subseteq Kinds
  BY JudgedType
<1> HIDE DEF j
<1> DEFINE f == FlakyStep(j.flap, j.flaky, j.told, st, k)
<1>2. f.flap \in Flaps /\ f.flaky \in BOOLEAN /\ f.told \in BOOLEAN /\ f.kinds \subseteq Kinds
  BY <1>1, FlakyStepType
<1> HIDE DEF f
<1>3. CASE manual
  BY <1>1, <1>3 DEF Outcome, Rows, j
<1>4. CASE ~manual
  BY <1>1, <1>2, <1>4 DEF Outcome, Rows, f, j
<1> QED BY <1>3, <1>4

\* Writing back a row leaves a row.
LEMMA FlushType ==
    ASSUME NEW current \in Rows, NEW loaded \in Rows, NEW new \in Rows, NEW counted
    PROVE  Flush(current, loaded, new, counted) \in Rows
BY DEF Flush, Rows

\* Pruning takes samples away only.
LEMMA LatestType ==
    ASSUME NEW S, NEW n
    PROVE  Latest(S, n) \subseteq S
BY DEF Latest

\* The counters of the chat stay in their range.
LEMMA SayType ==
    ASSUME NEW c \in Chats, NEW kinds, NEW again
    PROVE  Say(c, kinds, again) \in Chats
<1>1. ASSUME NEW n \in 0..2 PROVE Up(n) \in 0..2
  BY DEF Up, Min2
<1>2. ASSUME NEW x \in Chats
      PROVE  SayDown(x) \in Chats /\ SayFlaky(x) \in Chats /\ SayClear(x) \in Chats
  BY <1>1 DEF SayDown, SayFlaky, SayClear, Chats
<1> DEFINE c1 == IF "bad" \in kinds THEN SayDown(c)
                 ELSE IF kinds \cap Recoveries # {} THEN SayClear(c) ELSE c
           c2 == IF "flaky" \in kinds THEN SayFlaky(c1)
                 ELSE IF "flakyrec" \in kinds THEN SayClear(c1) ELSE c1
<1>3. c1 \in Chats
  BY <1>2
<1> HIDE DEF c1
<1>4. c2 \in Chats
  BY <1>2, <1>3
<1> HIDE DEF c2
<1>5. Say(c, kinds, again) = IF again # "none" THEN SayClear(c2) ELSE c2
  BY DEF Say, c1, c2
<1> QED BY <1>2, <1>4, <1>5

\* Time passes: every timestamp stays an age.
LEMMA TakeNowType ==
    ASSUME TypeOK, NEW a \in Actor, NEW d \in Gaps, TakeNow(a, d)
    PROVE  /\ row' \in Rows /\ samples' \subseteq Samples /\ started' \in [Ids -> Ages]
           /\ now' \in [Actor -> Ages] /\ retry' \in [Processes -> Parked]
           /\ OlderSnaps(d) \in [Actor -> Rows]
<1>0. 0 \in Ages /\ NotParked \in Parked
  BY MonitorConstants DEF Ages, NotParked, Parked
<1>1. row' \in Rows
  BY OlderRowType DEF TakeNow, TypeOK
<1>2. samples' \subseteq Samples
  BY OlderSamplesType DEF TakeNow, TypeOK
<1>3. started' \in [Ids -> Ages]
  BY <1>0, OlderType DEF TakeNow, TypeOK
<1>4. now' \in [Actor -> Ages]
  BY <1>0, OlderType DEF TakeNow, TypeOK
<1>5. retry' \in [Processes -> Parked]
  <2>1. ASSUME NEW x \in Parked PROVE [x EXCEPT !.age = Older(@, d)] \in Parked
    BY OlderType DEF Parked
  <2> QED BY <1>0, <2>1 DEF TakeNow, TypeOK
<1>6. OlderSnaps(d) \in [Actor -> Rows]
  BY OlderRowType DEF OlderSnaps, TypeOK
<1> QED BY <1>1, <1>2, <1>3, <1>4, <1>5, <1>6

\* The empty values are values.
LEMMA EmptyTypes == NewRow \in Rows /\ NoQueue \in Queues /\ NotParked \in Parked /\ 0 \in Ages
BY MonitorConstants, TopFailsType
   DEF NewRow, Rows, NoFlap, Flaps, Ages, NoQueue, Queues, NotParked, Parked

-----------------------------------------------------------------------------
(* Type correctness, one lemma for the actions that need more than their   *)
(* own definition.                                                         *)

\* The transaction of record_outcome.
LEMMA StoreTypeOK ==
    ASSUME TypeOK, NEW a \in Actor, Store(a)
    PROVE  TypeOK'
<1> USE DEF TypeOK
<1> DEFINE o == Outcome(snap[a], out[a], now[a], a # Scheduler, seen[a])
<1>1. PICK i \in Ids \cup {NoInc} : Booked(a, i) /\ Commit(a, o, i)
  BY DEF Store
<1>2. o.row \in Rows /\ o.kinds \subseteq Kinds
  BY OutcomeType
<1> HIDE DEF o
<1>3. row' \in Rows
  BY <1>1, <1>2, FlushType DEF Commit
<1>4. samples' \subseteq Samples
  <2>1. [age |-> now[a], st |-> out[a]] \in Samples
    BY DEF Samples
  <2> QED BY <1>1, <2>1, LatestType DEF Commit
<1>5. out[a] # "up" => i \in Ids
  BY <1>1 DEF Booked
<1>6. open' \subseteq Ids
  BY <1>1, <1>5 DEF Commit
<1>7. notified' \subseteq open'
  BY <1>1 DEF Commit
<1>8. started' \in [Ids -> Ages]
  BY <1>1, EmptyTypes DEF Commit
<1>9. queue' \in [Actor -> Queues]
  BY <1>1, <1>2 DEF Commit, Queues
<1>10. pc' \in [Actor -> {"idle", "loading", "probing", "probed", "loaded", "locked",
                          "send", "dispatch", "mark"}]
  BY <1>1 DEF Commit
<1>11. now' \in [Actor -> Ages]
  BY <1>1, EmptyTypes DEF Commit
<1>12. /\ lock' \in Actor \cup {Free} /\ snap' \in [Actor -> Rows]
       /\ out' \in [Actor -> Statuses] /\ seen' \in [Actor -> Ids \cup {NoInc}]
  BY EmptyTypes, MonitorConstants DEF Store
<1> QED BY <1>3, <1>4, <1>6, <1>7, <1>8, <1>9, <1>10, <1>11, <1>12 DEF Store, env

\* The batch of _send_alerts, from its filters to its flags.
LEMMA SendTypeOK ==
    ASSUME TypeOK, NEW a \in Actor, Send(a)
    PROVE  TypeOK'
<1> USE DEF TypeOK
<1>0. ProcessOf(a) \in Processes
  BY DEF ProcessOf, Processes
<1>1. CASE Compose(a)
  <2>1. Passes(queue[a].kinds) \subseteq Kinds
    BY MonitorConstants DEF Passes, Queues, Kinds, Recoveries
  <2>2. queue' \in [Actor -> Queues]
    BY <1>1, <2>1, <1>0, EmptyTypes DEF Compose, Queues, Parked
  <2>3. retry' \in [Processes -> Parked]
    BY <1>1, <1>0, EmptyTypes DEF Compose
  <2> QED BY <1>1, <2>2, <2>3, EmptyTypes DEF Compose, db, env
<1>2. CASE DispatchOk(a)
  <2>1. chat' \in Chats
    BY <1>2, SayType DEF DispatchOk
  <2>2. retry' \in [Processes -> Parked]
    BY <1>2, <1>0, EmptyTypes DEF DispatchOk
  <2> QED BY <1>2, <2>1, <2>2 DEF DispatchOk, db, env
<1>3. CASE DispatchFail(a)
  <2>1. chat' \in Chats
    BY <1>3, SayType DEF DispatchFail
  <2>2. retry' \in [Processes -> Parked]
    <3> DEFINE rec == queue[a].kinds \cap Recoveries
    <3>1. rec # {} => (CHOOSE x \in rec : TRUE) \in Recoveries
      OBVIOUS
    <3> QED BY <1>3, <1>0, <3>1 DEF DispatchFail, Parked
  <2>3. fails' \in 0..MaxFails
    BY <1>3, MonitorConstants DEF DispatchFail
  <2> QED BY <1>3, <2>1, <2>2, <2>3, EmptyTypes DEF DispatchFail, db, env
<1>4. CASE Mark(a)
  <2>1. row' \in Rows
    <3>1. Opened("flaky") \in Flaps /\ Opened("down") \in Flaps
      BY MonitorConstants DEF Opened, Flaps, Ages
    <3> QED BY <1>4, <3>1 DEF Mark, Flagged, Rows
  <2>2. notified' \subseteq open'
    BY <1>4 DEF Mark, Told
  <2> QED BY <1>4, <2>1, <2>2, EmptyTypes DEF Mark, env
<1> QED BY <1>1, <1>2, <1>3, <1>4 DEF Send

\* A killed process.
LEMMA CrashTypeOK ==
    ASSUME TypeOK, NEW p \in Processes, Crash(p)
    PROVE  TypeOK'
BY EmptyTypes, MonitorConstants DEF TypeOK, Crash, db, env

\* The initial state.
LEMMA InitTypeOK == Init => TypeOK
BY EmptyTypes, MonitorConstants DEF Init, TypeOK, Chats

\* Every step, one action after another.
LEMMA NextTypeOK == TypeOK /\ [Next]_vars => TypeOK'
<1> SUFFICES ASSUME TypeOK, [Next]_vars PROVE TypeOK'
  OBVIOUS
<1>1. ASSUME NEW d \in Gaps, SchedTick(d) PROVE TypeOK'
  <2>1. Scheduler \in Actor
    BY DEF Actor
  <2> QED BY <1>1, <2>1, TakeNowType DEF SchedTick, TypeOK, env
<1>2. CASE SchedLoad
  BY <1>2 DEF SchedLoad, TypeOK, db, env
<1>3. ASSUME NEW m \in Manual, ManualLoad(m) PROVE TypeOK'
  BY <1>3 DEF ManualLoad, TypeOK, db, env
<1>4. ASSUME NEW m \in Manual, NEW d \in Gaps, ManualProbe(m, d) PROVE TypeOK'
  <2>1. m \in Actor
    BY DEF Actor
  <2> QED BY <1>4, <2>1, TakeNowType DEF ManualProbe, TypeOK, env
<1>5. ASSUME NEW r \in Recheck, RecheckProbe(r) PROVE TypeOK'
  BY <1>5 DEF RecheckProbe, TypeOK, db, env
<1>6. ASSUME NEW r \in Recheck, RecheckStale(r) PROVE TypeOK'
  BY <1>6, EmptyTypes, MonitorConstants DEF RecheckStale, TypeOK, db, env
<1>7. ASSUME NEW r \in Recheck, NEW d \in Gaps, RecheckLock(r, d) PROVE TypeOK'
  <2>1. r \in Actor
    BY DEF Actor
  <2>2. OlderRow(row, d) \in Rows
    BY OlderRowType DEF TypeOK
  <2>3. snap' \in [Actor -> Rows]
    BY <1>7, <2>1, <2>2, TakeNowType DEF RecheckLock
  <2> QED BY <1>7, <2>1, <2>3, TakeNowType DEF RecheckLock, TypeOK, env
<1>8. ASSUME NEW a \in Actor, LockRow(a) PROVE TypeOK'
  BY <1>8 DEF LockRow, TypeOK, db, env
<1>9. ASSUME NEW a \in Actor, Store(a) PROVE TypeOK'
  BY <1>9, StoreTypeOK
<1>10. ASSUME NEW a \in Actor, OthersSend(a) PROVE TypeOK'
  BY <1>10 DEF OthersSend, TypeOK, db, env
<1>11. ASSUME NEW a \in Actor, Send(a) PROVE TypeOK'
  BY <1>11, SendTypeOK
<1>12. ASSUME NEW p \in Processes, Crash(p) PROVE TypeOK'
  BY <1>12, CrashTypeOK
<1>13. ASSUME NEW h \in Hush \cup {"no"}, SetHush(h) PROVE TypeOK'
  BY <1>13 DEF SetHush, TypeOK, db, local
<1>14. ASSUME NEW st \in Fates, Settle(st) PROVE TypeOK'
  BY <1>14 DEF Settle, TypeOK, db, local
<1>15. CASE UNCHANGED vars
  BY <1>15 DEF vars, TypeOK, db, local, env
<1> QED BY <1>1, <1>2, <1>3, <1>4, <1>5, <1>6, <1>7, <1>8, <1>9, <1>10, <1>11,
           <1>12, <1>13, <1>14, <1>15 DEF Next

\* Every variable keeps its type, and only open incidents are marked as told: no
\* interleaving of ticks, requests, rechecks, failed sends and killed processes
\* leaves a mark on an incident that is closed or was never opened.
THEOREM TypeCorrect == Spec => []TypeOK
BY InitTypeOK, NextTypeOK, PTL DEF Spec

-----------------------------------------------------------------------------
(* Mutual exclusion of the writers.                                        *)

\* Whoever is inside record_outcome holds the row lock, and what it found about the
\* open incident is still so: nobody else can open or close one meanwhile.
LockInv ==
    \A a \in Actor : pc[a] = "locked" =>
        /\ lock = a
        /\ IF open = {} THEN seen[a] = NoInc ELSE seen[a] \in open

\* The strengthening of OneOpenIncident that every step preserves.
IncidentInv == TypeOK /\ LockInv /\ OneOpenIncident

\* The transaction that opens or closes the incident.
LEMMA StoreIncident ==
    ASSUME IncidentInv, TypeOK', NEW a \in Actor, Store(a)
    PROVE  LockInv' /\ OneOpenIncident'
<1> USE DEF IncidentInv, TypeOK
<1> DEFINE o == Outcome(snap[a], out[a], now[a], a # Scheduler, seen[a])
<1>1. PICK i \in Ids \cup {NoInc} : Booked(a, i) /\ Commit(a, o, i)
  BY DEF Store
<1> HIDE DEF o
<1>2. lock = a /\ (IF open = {} THEN seen[a] = NoInc ELSE seen[a] \in open)
  BY DEF Store, LockInv
<1>3. \A b \in Actor : pc'[b] # "locked"
  <2>1. \A b \in Actor \ {a} : pc[b] # "locked"
    BY <1>2 DEF LockInv
  <2> QED BY <1>1, <2>1 DEF Commit
<1>4. OneOpenIncident'
  <2>1. CASE out[a] = "up"
    BY <1>1, <2>1 DEF Commit, OneOpenIncident
  <2>2. CASE out[a] # "up" /\ seen[a] = NoInc
    <3>1. open = {}
      BY <1>2, <2>2, MonitorConstants
    <3> QED BY <1>1, <2>2, <3>1 DEF Commit, OneOpenIncident
  <2>3. CASE out[a] # "up" /\ seen[a] # NoInc
    <3>1. i = seen[a] /\ seen[a] \in open
      BY <1>1, <1>2, <2>3 DEF Booked
    <3> QED BY <1>1, <2>3, <3>1 DEF Commit, OneOpenIncident
  <2> QED BY <2>1, <2>2, <2>3
<1> QED BY <1>3, <1>4 DEF LockInv

\* Taking the lock.
LEMMA AcquireIncident ==
    ASSUME IncidentInv, NEW a \in Actor, lock = Free, lock' = a, open' = open,
           pc' = [pc EXCEPT ![a] = "locked"],
           \E i \in open \cup {NoInc} :
              ((i = NoInc) <=> (open = {})) /\ seen' = [seen EXCEPT ![a] = i]
    PROVE  LockInv' /\ OneOpenIncident'
<1> USE DEF IncidentInv, TypeOK
<1>1. \A b \in Actor : pc[b] # "locked"
  BY MonitorConstants DEF LockInv
<1>2. IF open' = {} THEN seen'[a] = NoInc ELSE seen'[a] \in open'
  OBVIOUS
<1>3. \A b \in Actor : pc'[b] = "locked" => b = a
  BY <1>1
<1> QED BY <1>2, <1>3 DEF LockInv, OneOpenIncident

\* The other steps neither enter record_outcome nor touch the open incident.
LEMMA QuietIncident ==
    ASSUME IncidentInv, open' = open,
           \A b \in Actor : pc'[b] = "locked" =>
               pc[b] = "locked" /\ seen'[b] = seen[b] /\ lock' = lock
    PROVE  LockInv' /\ OneOpenIncident'
BY DEF IncidentInv, LockInv, OneOpenIncident

\* Every step preserves the strengthening.
LEMMA NextIncident == IncidentInv /\ [Next]_vars => IncidentInv'
<1> SUFFICES ASSUME IncidentInv, [Next]_vars PROVE IncidentInv'
  OBVIOUS
<1>0. TypeOK /\ TypeOK'
  BY NextTypeOK DEF IncidentInv
<1> SUFFICES LockInv' /\ OneOpenIncident'
  BY <1>0 DEF IncidentInv
<1> USE DEF TypeOK
<1>1. ASSUME NEW d \in Gaps, SchedTick(d) PROVE LockInv' /\ OneOpenIncident'
  BY <1>0, <1>1, QuietIncident DEF SchedTick
<1>2. CASE SchedLoad
  BY <1>0, <1>2, QuietIncident DEF SchedLoad, db
<1>3. ASSUME NEW m \in Manual, ManualLoad(m) PROVE LockInv' /\ OneOpenIncident'
  BY <1>0, <1>3, QuietIncident DEF ManualLoad, db
<1>4. ASSUME NEW m \in Manual, NEW d \in Gaps, ManualProbe(m, d)
      PROVE  LockInv' /\ OneOpenIncident'
  BY <1>0, <1>4, QuietIncident DEF ManualProbe
<1>5. ASSUME NEW r \in Recheck, RecheckProbe(r) PROVE LockInv' /\ OneOpenIncident'
  BY <1>0, <1>5, QuietIncident DEF RecheckProbe, db
<1>6. ASSUME NEW r \in Recheck, RecheckStale(r) PROVE LockInv' /\ OneOpenIncident'
  BY <1>0, <1>6, QuietIncident DEF RecheckStale, db
<1>7. ASSUME NEW r \in Recheck, NEW d \in Gaps, RecheckLock(r, d)
      PROVE  LockInv' /\ OneOpenIncident'
  <2>1. r \in Actor
    BY DEF Actor
  <2> QED BY <1>7, <2>1, AcquireIncident DEF RecheckLock
<1>8. ASSUME NEW a \in Actor, LockRow(a) PROVE LockInv' /\ OneOpenIncident'
  BY <1>8, AcquireIncident DEF LockRow, db
<1>9. ASSUME NEW a \in Actor, Store(a) PROVE LockInv' /\ OneOpenIncident'
  BY <1>0, <1>9, StoreIncident
<1>10. ASSUME NEW a \in Actor, OthersSend(a) PROVE LockInv' /\ OneOpenIncident'
  BY <1>0, <1>10, QuietIncident DEF OthersSend, db
<1>11. ASSUME NEW a \in Actor, Send(a) PROVE LockInv' /\ OneOpenIncident'
  <2>1. CASE Compose(a)
    BY <1>0, <2>1, QuietIncident DEF Compose, db
  <2>2. CASE DispatchOk(a)
    BY <1>0, <2>2, QuietIncident DEF DispatchOk, db
  <2>3. CASE DispatchFail(a)
    BY <1>0, <2>3, QuietIncident DEF DispatchFail, db
  <2>4. CASE Mark(a)
    BY <1>0, <2>4, QuietIncident DEF Mark
  <2> QED BY <1>11, <2>1, <2>2, <2>3, <2>4 DEF Send
<1>12. ASSUME NEW p \in Processes, Crash(p) PROVE LockInv' /\ OneOpenIncident'
  <2> DEFINE mine == {a \in Actor : ProcessOf(a) = p}
  <2>1. ASSUME NEW b \in Actor, pc'[b] = "locked"
        PROVE  pc[b] = "locked" /\ seen'[b] = seen[b] /\ lock' = lock
    <3>1. b \notin mine /\ pc[b] = "locked" /\ seen'[b] = seen[b]
      BY <1>12, <2>1 DEF Crash
    <3>2. lock = b
      BY <3>1 DEF IncidentInv, LockInv
    <3> QED BY <1>12, <3>1, <3>2 DEF Crash
  <2>2. open' = open
    BY <1>12 DEF Crash, db
  <2> QED BY <2>1, <2>2, QuietIncident
<1>13. ASSUME NEW h \in Hush \cup {"no"}, SetHush(h) PROVE LockInv' /\ OneOpenIncident'
  BY <1>13, QuietIncident DEF SetHush, db, local
<1>14. ASSUME NEW st \in Fates, Settle(st) PROVE LockInv' /\ OneOpenIncident'
  BY <1>14, QuietIncident DEF Settle, db, local
<1>15. CASE UNCHANGED vars
  BY <1>15, QuietIncident DEF vars, db, local
<1> QED BY <1>1, <1>2, <1>3, <1>4, <1>5, <1>6, <1>7, <1>8, <1>9, <1>10, <1>11,
           <1>12, <1>13, <1>14, <1>15 DEF Next

\* The initial state.
LEMMA InitIncident == Init => IncidentInv
BY InitTypeOK DEF Init, IncidentInv, LockInv, OneOpenIncident

\* The row lock of record_outcome does what its comment claims: two writers whose
\* transactions overlap never open two incidents for one outage, for any number of
\* "check now" requests and rechecks.
THEOREM SingleIncident == Spec => []OneOpenIncident
<1>1. IncidentInv => OneOpenIncident
  BY DEF IncidentInv
<1> QED BY <1>1, InitIncident, NextIncident, PTL DEF Spec

-----------------------------------------------------------------------------
(* Rechecks.                                                               *)

\* A recheck loads its row under the lock and nowhere else.
FreshInv == RecheckIsFresh /\ \A r \in Recheck : pc[r] # "loaded"

\* Time passes for the row and for the copy a recheck holds alike.
LEMMA TickFresh ==
    ASSUME TypeOK, RecheckIsFresh, NEW a \in Actor, NEW d \in Gaps, TakeNow(a, d),
           NEW r \in Recheck, pc[r] = "locked"
    PROVE  OlderSnaps(d)[r] = row'
<1>1. r \in Actor
  BY DEF Actor
<1> QED BY <1>1 DEF TakeNow, OlderSnaps, RecheckIsFresh

\* The other steps leave the row alone, or nobody is inside record_outcome.
LEMMA QuietFresh ==
    ASSUME FreshInv,
           \A r \in Recheck : pc'[r] = "loaded" => pc[r] = "loaded",
           \A r \in Recheck : pc'[r] = "locked" =>
               pc[r] = "locked" /\ snap'[r] = snap[r] /\ row' = row
    PROVE  FreshInv'
BY DEF FreshInv, RecheckIsFresh

\* "Never save over its newer configuration/state": while a recheck is inside its
\* transaction, nothing that ticks, other requests or their marks do changes the
\* row it is about to write.
THEOREM RecheckNeverStale == Spec => []RecheckIsFresh
<1>1. Init => FreshInv
  BY DEF Init, FreshInv, RecheckIsFresh, Actor
<1>2. IncidentInv /\ FreshInv /\ [Next]_vars => FreshInv'
  <2> SUFFICES ASSUME IncidentInv, FreshInv, [Next]_vars PROVE FreshInv'
    OBVIOUS
  <2>0. /\ TypeOK /\ Recheck \subseteq Actor /\ Manual \subseteq Actor /\ Scheduler \in Actor
        /\ Scheduler \notin Recheck /\ Manual \cap Recheck = {}
    BY MonitorConstants DEF IncidentInv, Actor
  <2> USE DEF TypeOK
  <2>1. ASSUME NEW d \in Gaps, SchedTick(d) PROVE FreshInv'
    BY <2>0, <2>1, TickFresh DEF SchedTick, FreshInv, RecheckIsFresh
  <2>2. CASE SchedLoad
    BY <2>0, <2>2, QuietFresh DEF SchedLoad, db
  <2>3. ASSUME NEW m \in Manual, ManualLoad(m) PROVE FreshInv'
    BY <2>0, <2>3, QuietFresh DEF ManualLoad, db
  <2>4. ASSUME NEW m \in Manual, NEW d \in Gaps, ManualProbe(m, d) PROVE FreshInv'
    BY <2>0, <2>4, TickFresh DEF ManualProbe, FreshInv, RecheckIsFresh
  <2>5. ASSUME NEW r \in Recheck, RecheckProbe(r) PROVE FreshInv'
    BY <2>0, <2>5, QuietFresh DEF RecheckProbe, db
  <2>6. ASSUME NEW r \in Recheck, RecheckStale(r) PROVE FreshInv'
    BY <2>0, <2>6, QuietFresh DEF RecheckStale, db
  <2>7. ASSUME NEW r \in Recheck, NEW d \in Gaps, RecheckLock(r, d) PROVE FreshInv'
    <3>1. \A b \in Recheck : pc'[b] = "locked" => b = r
      BY <2>0, <2>7, MonitorConstants DEF RecheckLock, IncidentInv, LockInv
    <3>2. snap'[r] = row'
      <4>1. snap' = [OlderSnaps(d) EXCEPT ![r] = OlderRow(row, d)] /\ row' = OlderRow(row, d)
        BY <2>7 DEF RecheckLock, TakeNow
      <4>2. r \in DOMAIN OlderSnaps(d)
        BY <2>0 DEF OlderSnaps
      <4> QED BY <4>1, <4>2
    <3> QED BY <2>0, <2>7, <3>1, <3>2 DEF FreshInv, RecheckIsFresh, RecheckLock
  <2>8. ASSUME NEW a \in Actor, LockRow(a) PROVE FreshInv'
    <3>1. a \notin Recheck
      BY <2>8 DEF LockRow, FreshInv
    <3> QED BY <2>0, <2>8, <3>1, QuietFresh DEF LockRow, db
  <2>9. ASSUME NEW a \in Actor, Store(a) PROVE FreshInv'
    <3>1. \A b \in Actor : pc'[b] # "locked" /\ (pc'[b] = "loaded" => pc[b] = "loaded")
      <4> DEFINE o == Outcome(snap[a], out[a], now[a], a # Scheduler, seen[a])
      <4>1. PICK i \in Ids \cup {NoInc} : Commit(a, o, i)
        BY <2>9 DEF Store
      <4> HIDE DEF o
      <4>2. \A b \in Actor \ {a} : pc[b] # "locked"
        BY <2>9 DEF Store, IncidentInv, LockInv
      <4> QED BY <2>0, <4>1, <4>2 DEF Commit
    <3> QED BY <2>0, <3>1 DEF FreshInv, RecheckIsFresh
  <2>10. ASSUME NEW a \in Actor, OthersSend(a) PROVE FreshInv'
    BY <2>0, <2>10, QuietFresh DEF OthersSend, db
  <2>11. ASSUME NEW a \in Actor, Send(a) PROVE FreshInv'
    <3>1. CASE Compose(a)
      BY <2>0, <3>1, QuietFresh DEF Compose, db
    <3>2. CASE DispatchOk(a)
      BY <2>0, <3>2, QuietFresh DEF DispatchOk, db
    <3>3. CASE DispatchFail(a)
      BY <2>0, <3>3, QuietFresh DEF DispatchFail, db
    <3>4. CASE Mark(a)
      <4>1. \A b \in Actor : pc[b] # "locked"
        BY <3>4, MonitorConstants DEF Mark, IncidentInv, LockInv
      <4> QED BY <2>0, <3>4, <4>1 DEF Mark, FreshInv, RecheckIsFresh
    <3> QED BY <2>11, <3>1, <3>2, <3>3, <3>4 DEF Send
  <2>12. ASSUME NEW p \in Processes, Crash(p) PROVE FreshInv'
    BY <2>0, <2>12, QuietFresh DEF Crash, db
  <2>13. ASSUME NEW h \in Hush \cup {"no"}, SetHush(h) PROVE FreshInv'
    BY <2>13, QuietFresh DEF SetHush, db, local
  <2>14. ASSUME NEW st \in Fates, Settle(st) PROVE FreshInv'
    BY <2>14, QuietFresh DEF Settle, db, local
  <2>15. CASE UNCHANGED vars
    BY <2>15, QuietFresh DEF vars, db, local
  <2> QED BY <2>1, <2>2, <2>3, <2>4, <2>5, <2>6, <2>7, <2>8, <2>9, <2>10, <2>11,
             <2>12, <2>13, <2>14, <2>15 DEF Next
<1>3. FreshInv => RecheckIsFresh
  BY DEF FreshInv
<1> QED BY <1>1, <1>2, <1>3, InitIncident, NextIncident, PTL DEF Spec

-----------------------------------------------------------------------------
(* One episode, one alarm of each level, one all-clear.                    *)
(*                                                                         *)
(* The scheduler alone, results "up" and "down", a channel that takes what *)
(* it is given, and a parent that may silence the alarms: the conditions   *)
(* under which site_flap.py keeps its promise.  Checks come often enough   *)
(* that no episode is forgotten, and the bounds of the model lie beyond    *)
(* what an outage needs.                                                   *)

Undisturbed ==
    /\ Manual = {} /\ Recheck = {} /\ Statuses \subseteq {"up", "down"}
    /\ MaxFails = 0 /\ MaxCrashes = 0 /\ Hush \subseteq {"held"}
    /\ \A d \in Gaps : d <= STABLE
    /\ LongRun * STABLE < Cap /\ LongRun <= Keep

Stage == pc[Scheduler]
Batch == queue[Scheduler]
Between == Stage \in {"probed", "loaded", "locked"}

\* Nobody changes the row between the scheduler's load and its commit; the last
\* check is no further back than the time that makes a site stable; an incident
\* counts as told only when the counter has reached the threshold.
AloneInv ==
    /\ now[Scheduler] = 0 /\ retry = [p \in Processes |-> NotParked]
    /\ Stage \notin {"loading", "probing"} /\ Batch.again = "none"
    /\ "bad" \notin Batch.kinds => Batch.inc = NoInc
    /\ Stage \in {"loaded", "locked"} => snap[Scheduler] = row
    /\ row.checked <= STABLE /\ (~Between => row.checked = 0)
    /\ notified # {} => row.fails >= LongRun

\* Where the episode stands and what the reader has heard.
NothingOpen == chat = [down |-> 0, flaky |-> 0, clear |-> 1] /\ notified = {} /\ ~row.told
DownOpen ==
    /\ chat.down + chat.flaky > 0 /\ chat.down <= 1 /\ chat.flaky <= 1 /\ chat.clear = 0
    /\ row.told <=> row.flaky
FlakyOpen ==
    /\ chat.flaky = 1 /\ chat.down <= 1 /\ chat.clear = 0
    /\ row.told /\ row.flaky
    /\ notified = {} => chat.down = 0
Heard ==
    CASE Level(row.flap) = "none"  -> NothingOpen
      [] Level(row.flap) = "down"  -> DownOpen
      [] Level(row.flap) = "flaky" -> FlakyOpen

\* A batch of alarms, before and after its delivery.
AlarmBatch ==
    /\ Batch.kinds \subseteq Alarms /\ Batch.kinds # {} /\ notified = {}
    /\ Level(row.flap) # "down"
    /\ "flaky" \in Batch.kinds => Level(row.flap) = "none" /\ row.flaky
    /\ "flaky" \notin Batch.kinds /\ Level(row.flap) = "none" => ~row.flaky
    /\ "bad" \in Batch.kinds => row.fails >= LongRun /\ Batch.inc \in open
AlarmSaid ==
    /\ AlarmBatch
    /\ chat.clear = 0 /\ chat.flaky <= 1
    /\ row.told <=> Level(row.flap) = "flaky"
    /\ Level(row.flap) = "flaky" => row.flaky
    /\ chat.down = IF "bad" \in Batch.kinds THEN 1 ELSE 0
    /\ "flaky" \in Batch.kinds => chat.flaky = 1

\* A batch with an all-clear.
ClearBatch ==
    /\ Batch.kinds \in {{"recovery"}, {"recstable"}, {"flakyrec"}}
    /\ Level(row.flap) = "none" /\ notified = {}
    /\ row.told <=> Batch.kinds = {"flakyrec"}

TalkInv ==
    CASE Stage \in {"send", "dispatch"} ->
            \/ AlarmBatch /\ Heard
            \/ ClearBatch /\ chat.clear = 0 /\ chat.down <= 1 /\ chat.flaky <= 1
      [] Stage = "mark" ->
            \/ AlarmSaid
            \/ ClearBatch /\ chat = [down |-> 0, flaky |-> 0, clear |-> 1]
      [] OTHER -> Heard

\* The latest n samples are failures, none older than b.
Outage(S, n, b) ==
    /\ Cardinality(Latest(S, n)) = n
    /\ \A s \in Latest(S, n) : s.st = "down" /\ s.age <= b

\* What the counter counts is in the samples.
RunInv ==
    /\ IsFiniteSet(samples)
    /\ Between => \A s \in samples : s.age > 0
    /\ \A n \in 0..LongRun : n <= row.fails =>
          Outage(samples, n, IF Between THEN n * STABLE ELSE (n - 1) * STABLE)

EpisodeInv == AloneInv /\ TalkInv /\ RunInv

-----------------------------------------------------------------------------
(* The latest samples.                                                     *)

LEMMA DatedSamples ==
    ASSUME NEW S, IsFiniteSet(S), S \subseteq Samples
    PROVE  Dated(S)
BY MonitorConstants DEF Dated, Samples, Ages

LEMMA OutageZero ==
    ASSUME NEW S, IsFiniteSet(S), NEW b
    PROVE  Outage(S, 0, b)
<1>1. Latest(S, 0) = {}
  <2>1. ASSUME NEW s \in S PROVE Cardinality(Newer(S, s)) \in Nat
    BY NewerFinite
  <2> QED BY <2>1 DEF Latest
<1> QED BY <1>1, FS_EmptySet DEF Outage

LEMMA OutageWeaker ==
    ASSUME NEW S, S \subseteq Samples, NEW n, NEW b \in Int, NEW c \in Int, b <= c, Outage(S, n, b)
    PROVE  Outage(S, n, c)
BY DEF Outage, Latest, Samples, Ages

\* One more failure.
LEMMA OutageAdd ==
    ASSUME NEW S, IsFiniteSet(S), S \subseteq Samples, NEW x, x.age = 0,
           x.st = "down", \A s \in S : s.age > 0,
           NEW n \in Nat, NEW b \in Nat, Outage(S, n, b)
    PROVE  Outage(S \cup {x}, n + 1, b)
<1>1. Latest(S \cup {x}, n + 1) = Latest(S, n) \cup {x}
  BY LatestAdd, DatedSamples
<1>2. x \notin Latest(S, n)
  BY DEF Latest
<1>3. Cardinality(Latest(S, n) \cup {x}) = n + 1
  BY <1>2, LatestFinite, FS_AddElement DEF Outage
<1>4. \A s \in Latest(S, n) \cup {x} : s.st = "down" /\ s.age <= b
  BY DEF Outage
<1> QED BY <1>1, <1>3, <1>4, Zenon DEF Outage

\* Time passes: as long as no age is cut off at Cap, the same samples are the latest.
LEMMA OutageOlder ==
    ASSUME NEW S, IsFiniteSet(S), S \subseteq Samples, NEW d \in Gaps,
           NEW n \in Nat, NEW b \in Int, Outage(S, n, b), b + d < Cap
    PROVE  Outage(OlderSamples(S, d), n, b + d)
<1> DEFINE old(s) == [age |-> Older(s.age, d), st |-> s.st]
           T == OlderSamples(S, d)
           L == Latest(S, n)
<1>0. d \in Nat /\ d > 0 /\ Cap \in Nat
  BY MonitorConstants
<1>1. ASSUME NEW s \in S
      PROVE  /\ s.age \in Nat /\ s.age <= Cap /\ old(s) \in T
             /\ old(s).age = IF s.age + d <= Cap THEN s.age + d ELSE Cap
             /\ old(s).st = s.st
  <2>1. s.age \in Nat /\ s.age <= Cap
    BY <1>0 DEF Samples, Ages
  <2>2. old(s).age = Older(s.age, d) /\ old(s).st = s.st
    OBVIOUS
  <2> QED BY <2>1, <2>2 DEF OlderSamples, Older, Min2
<1>2. ASSUME NEW t \in T PROVE \E s \in S : t = old(s)
  BY DEF OlderSamples
<1> HIDE DEF old
<1>3. L \subseteq S /\ IsFiniteSet(L) /\ Cardinality(L) = n
  BY LatestFinite DEF Latest, Outage
<1>4. ASSUME NEW s \in L PROVE s.st = "down" /\ s.age <= b /\ old(s).age = s.age + d
  <2>1. s.st = "down" /\ s.age <= b
    BY DEF Outage
  <2>2. s \in S
    BY <1>3
  <2> QED BY <2>1, <2>2, <1>0, <1>1
<1>5. ASSUME NEW s \in S, NEW t \in S, old(s).age < old(t).age PROVE s.age < t.age
  BY <1>0, <1>1, <1>5
<1>6. ASSUME NEW s \in S, NEW t \in L, s.age < t.age PROVE old(s).age < old(t).age /\ s \in L
  <2>1. t \in S /\ old(t).age = t.age + d /\ t.age <= b
    BY <1>3, <1>4
  <2>2. old(s).age < old(t).age
    BY <2>1, <1>6, <1>0, <1>1
  <2>3. s \in L
    <3>1. s.age <= t.age
      BY <2>1, <1>6, <1>1
    <3> QED BY <3>1, LatestClosed, DatedSamples
  <2> QED BY <2>2, <2>3
\* The number of newer samples is the same for a sample of the run.
<1>7. ASSUME NEW s \in L PROVE old(s) \in Latest(T, n)
  <2>1. Newer(T, old(s)) = {old(t) : t \in Newer(S, s)}
    <3>1. ASSUME NEW u \in Newer(T, old(s)) PROVE u \in {old(t) : t \in Newer(S, s)}
      <4>1. PICK t \in S : u = old(t)
        BY <1>2 DEF Newer
      <4>2. t.age < s.age
        BY <4>1, <1>3, <1>5 DEF Newer
      <4> QED BY <4>1, <4>2 DEF Newer
    <3>2. ASSUME NEW t \in Newer(S, s) PROVE old(t) \in Newer(T, old(s))
      BY <1>1, <1>6 DEF Newer
    <3> QED BY <3>1, <3>2
  <2> DEFINE A == Newer(S, s)
             B == Newer(T, old(s))
             f == [t \in A |-> old(t)]
  <2>2. f \in Surjection(A, B)
    BY <2>1 DEF Surjection
  <2>3. IsFiniteSet(A) /\ Cardinality(A) \in Nat
    BY NewerFinite
  <2>4. Cardinality(B) <= Cardinality(A)
    <3> HIDE DEF A, B, f
    <3> QED BY <2>2, <2>3, FS_Surjection
  <2>5. IsFiniteSet(B)
    <3> HIDE DEF A, B, f
    <3> QED BY <2>2, <2>3, FS_Surjection
  <2>6. Cardinality(B) \in Nat
    BY <2>5, FS_CardinalityType
  <2>7. Cardinality(A) < n
    BY DEF Latest
  <2>8. Cardinality(B) < n
    BY <2>3, <2>4, <2>6, <2>7
  <2>9. old(s) \in T
    BY <1>1, <1>3
  <2> QED BY <2>8, <2>9 DEF Latest
\* The samples of the run keep apart.
<1>8. ASSUME NEW s \in L, NEW t \in L, old(s) = old(t) PROVE s = t
  <2>1. s.age = t.age /\ s.st = t.st
    <3>1. old(s).age = s.age + d /\ old(t).age = t.age + d /\ s.age \in Nat /\ t.age \in Nat
      BY <1>4, <1>3, <1>1
    <3>2. s.age = t.age
      BY <3>1, <1>8, <1>0
    <3> QED BY <3>2, <1>4
  <2> QED BY <2>1, <1>3 DEF Samples
<1>9. LET M == {old(s) : s \in L} IN IsFiniteSet(M) /\ Cardinality(M) = n
  <2> DEFINE M == {old(s) : s \in L}
             f == [s \in L |-> old(s)]
  <2>1. f \in Surjection(L, M)
    BY DEF Surjection
  <2>2. f \in Injection(L, M)
    BY <1>8 DEF Injection, IsInjective
  <2> HIDE DEF L, M, f
  <2>3. IsFiniteSet(M) /\ Cardinality(M) = n
    BY <2>1, <2>2, <1>3, FS_Surjection
  <2> QED BY <2>3 DEF M
\* Whatever is older than the run stays behind it.
<1>10. ASSUME NEW t \in S, t \notin L PROVE old(t) \notin Latest(T, n)
  <2> DEFINE M == {old(s) : s \in L}
  <2>1. ASSUME NEW s \in L PROVE old(s) \in Newer(T, old(t))
    <3>1. s \in S /\ s.age \in Nat /\ t.age \in Nat
      BY <1>1, <1>3
    <3>2. s.age < t.age
      <4>1. CASE t.age <= s.age
        BY <4>1, <1>10, <3>1, LatestClosed, DatedSamples
      <4> QED BY <4>1, <3>1
    <3>3. old(s).age = s.age + d /\ s.age <= b
      BY <1>4
    <3>4. old(s).age < old(t).age
      BY <3>1, <3>2, <3>3, <1>0, <1>1
    <3> QED BY <3>1, <3>4, <1>1 DEF Newer
  <2>2. M \in SUBSET Newer(T, old(t))
    BY <2>1
  <2>3. IsFiniteSet(T)
    <3> DEFINE f == [s \in S |-> old(s)]
    <3>1. f \in Surjection(S, T)
      BY <1>1, <1>2 DEF Surjection
    <3> HIDE DEF f, T
    <3> QED BY <3>1, FS_Surjection
  <2>4. IsFiniteSet(Newer(T, old(t))) /\ Cardinality(Newer(T, old(t))) \in Nat
    BY <2>3, NewerFinite
  <2>5. Cardinality(M) <= Cardinality(Newer(T, old(t)))
    <3> HIDE DEF M, T
    <3> QED BY <2>2, <2>4, FS_Subset
  <2>6. Cardinality(M) = n
    BY <1>9
  <2>7. ~(Cardinality(Newer(T, old(t))) < n)
    BY <2>4, <2>5, <2>6
  <2> QED BY <2>7 DEF Latest
<1>11. Latest(T, n) = {old(s) : s \in L}
  <2>1. ASSUME NEW u \in Latest(T, n) PROVE u \in {old(s) : s \in L}
    <3>1. u \in T
      BY DEF Latest
    <3>2. PICK s \in S : u = old(s)
      BY <3>1, <1>2
    <3> QED BY <3>2, <1>10
  <2> QED BY <2>1, <1>7
<1>12. Cardinality(Latest(T, n)) = n
  BY <1>9, <1>11
<1>13. ASSUME NEW u \in Latest(T, n) PROVE u.st = "down" /\ u.age <= b + d
  <2>1. PICK s \in L : u = old(s)
    BY <1>11
  <2>2. s.age \in Nat /\ u.st = s.st
    BY <2>1, <1>1, <1>3
  <2> QED BY <2>1, <2>2, <1>4, <1>0
<1> HIDE DEF T
<1>14. Outage(T, n, b + d)
  BY <1>12, <1>13, Zenon DEF Outage
<1> QED BY <1>14 DEF T

LEMMA LongRunType == LongRun \in Nat /\ LongRun >= 1 /\ LongRun <= TopFails /\ STABLE \in Nat
BY MonitorConstants, FlapConstants DEF LongRun, TopFails, Threshold, Max2

\* n failures and no more than so long ago.
LEMMA Spans ==
    ASSUME NEW n \in Nat, n <= LongRun
    PROVE  /\ n * STABLE \in Nat /\ (n + 1) * STABLE = n * STABLE + STABLE
           /\ n * STABLE <= LongRun * STABLE
           /\ n > 0 => (n - 1) * STABLE \in Nat /\ (n - 1) * STABLE + STABLE = n * STABLE
<1>1. LongRun \in Nat /\ STABLE \in Nat
  BY LongRunType
<1>2. n * STABLE \in Nat /\ (n + 1) * STABLE = n * STABLE + STABLE
  BY <1>1
<1>3. LongRun * STABLE = n * STABLE + (LongRun - n) * STABLE /\ (LongRun - n) * STABLE \in Nat
  BY <1>1
<1>4. n > 0 => (n - 1) * STABLE \in Nat /\ (n - 1) * STABLE + STABLE = n * STABLE
  BY <1>1
<1>5. LongRun * STABLE \in Nat
  BY <1>1
<1> QED BY <1>2, <1>3, <1>4, <1>5

\* A failure that makes the counter reach the threshold is part of a plain outage, so
\* that flaky.is_flaky leaves its verdict alone.
LEMMA ThresholdIsOutage ==
    ASSUME TypeOK, RunInv, Between, row.fails + 1 >= LongRun,
           NEW flap, flap.lvl # "closed", NEW was
    PROVE  IsFlaky(FlakyHist(flap, "down", 0), LongRun, was) = was
<1> DEFINE x == [age |-> 0, st |-> "down"]
           H == Latest(samples, WINDOW + LongRun)
           n == LongRun - 1
<1>0. WINDOW \in Nat /\ Cap \in Nat
  BY FlapConstants, MonitorConstants
<1>1. IsFiniteSet(samples) /\ samples \subseteq Samples /\ \A s \in samples : s.age > 0
  BY DEF RunInv, TypeOK
<1>2. n \in Nat /\ n <= LongRun /\ n \in 0..LongRun /\ n + 1 = LongRun
  BY LongRunType
<1>3. Outage(samples, n, n * STABLE)
  <2>1. n <= row.fails
    BY <1>2, LongRunType, TopFailsType DEF TypeOK, Rows
  <2> HIDE DEF n
  <2> QED BY <1>2, <2>1 DEF RunInv
<1>4. FlakyHist(flap, "down", 0) = H \cup {x}
  <2>1. {s \in samples : s.age > 0 /\ (flap.lvl = "closed" => s.age < flap.age)} = samples
    BY <1>1
  <2> QED BY <2>1 DEF FlakyHist
<1>5. Outage(H, n, n * STABLE)
  <2>1. Latest(H, n) = Latest(samples, n)
    BY <1>0, <1>1, <1>2, LongRunType, LatestLatest, DatedSamples
  <2> HIDE DEF H, n
  <2> QED BY <1>3, <2>1 DEF Outage
<1>6. IsFiniteSet(H) /\ H \subseteq Samples /\ \A s \in H : s.age > 0
  BY <1>1, LatestFinite, LatestType
<1>7. Outage(H \cup {x}, LongRun, n * STABLE)
  <2>1. n * STABLE \in Nat
    BY <1>2, Spans
  <2>2. x.age = 0 /\ x.st = "down"
    OBVIOUS
  <2> HIDE DEF H, n, x
  <2> QED BY <1>2, <1>5, <1>6, <2>1, <2>2, OutageAdd
<1>8. InOutage(H \cup {x}, LongRun)
  <2> HIDE DEF H, n, x
  <2> QED BY <1>7 DEF Outage, InOutage
<1> QED BY <1>4, <1>8 DEF IsFlaky

-----------------------------------------------------------------------------
(* What record_outcome does to the episode.                                *)

\* Right after an episode was closed nothing looks like "every other time".
LEMMA ClosedIsSteady ==
    ASSUME TypeOK, NEW was \in BOOLEAN
    PROVE  ~IsFlaky(FlakyHist(Closed(0), "up", 0), LongRun, was)
<1> DEFINE x == [age |-> 0, st |-> "up"]
<1>1. FlakyHist(Closed(0), "up", 0) = {x}
  <2>1. {s \in samples : s.age > 0 /\ (Closed(0).lvl = "closed" => s.age < Closed(0).age)} = {}
    BY MonitorConstants DEF Closed, TypeOK, Samples, Ages
  <2>2. Latest({}, WINDOW + LongRun) = {}
    BY DEF Latest
  <2> QED BY <2>1, <2>2 DEF FlakyHist
<1>2. Latest({x}, LongRun) = {x}
  <2>1. Newer({x}, x) = {}
    BY DEF Newer
  <2>2. Cardinality(Newer({x}, x)) < LongRun
    BY <2>1, FS_EmptySet, LongRunType
  <2> QED BY <2>2 DEF Latest
<1>3. ~InOutage({x}, LongRun)
  <2>1. x.st # "down"
    OBVIOUS
  <2> HIDE DEF x
  <2> QED BY <1>2, <2>1 DEF InOutage
<1>4. ShortFailures({x}, LongRun) = {}
  BY DEF ShortFailures, Latest
<1>5. Cardinality(ShortFailures({x}, LongRun)) = 0
  BY <1>4, FS_EmptySet
<1>6. CLEAR \in Nat /\ FAILS \in Nat /\ CLEAR < FAILS
  BY FlapConstants
<1> HIDE DEF x
<1>7. ~(Cardinality(ShortFailures({x}, LongRun)) > CLEAR)
  BY <1>5, <1>6
<1>8. ~(Cardinality(ShortFailures({x}, LongRun)) >= FAILS)
  BY <1>5, <1>6
<1>9. ~IsFlaky({x}, LongRun, was)
  BY <1>3, <1>7, <1>8, Zenon DEF IsFlaky
<1> QED BY <1>1, <1>9

\* _flaky_step, by the level of the episode.
LEMMA FlakyCases ==
    ASSUME NEW j, j.flap \in Flaps, j.flaky \in BOOLEAN, j.told \in BOOLEAN, NEW st, NEW k
    PROVE  LET f == FlakyStep(j.flap, j.flaky, j.told, st, k)
           IN  /\ f.flaky = IsFlaky(FlakyHist(j.flap, st, k), LongRun, j.flaky)
               /\ f.flaky \in BOOLEAN
               /\ Level(j.flap) = "none" =>
                     /\ f.flap = j.flap /\ f.told = j.told
                     /\ f.kinds = IF f.flaky = TRUE THEN IF j.told = TRUE THEN {} ELSE {"flaky"}
                                  ELSE IF j.told = TRUE THEN {"flakyrec"} ELSE {}
               /\ Level(j.flap) = "down" => f.flap = j.flap /\ f.told = f.flaky /\ f.kinds = {}
               /\ Level(j.flap) = "flaky" /\ j.told = TRUE =>
                     /\ f.flap = IF f.flaky = TRUE THEN j.flap ELSE Closed(k)
                     /\ f.told = TRUE
                     /\ f.kinds = IF f.flaky = TRUE THEN {} ELSE {"flakyrec"}
<1> DEFINE f == FlakyStep(j.flap, j.flaky, j.told, st, k)
<1> DEFINE is == IsFlaky(FlakyHist(j.flap, st, k), LongRun, j.flaky)
<1>0. is \in BOOLEAN
  BY IsFlakyType
<1>1. f = [flap  |-> IF (~is /\ j.told /\ Level(j.flap) # "down") /\ Level(j.flap) = "flaky"
                     THEN Closed(k) ELSE j.flap,
           flaky |-> is,
           told  |-> IF is /\ Level(j.flap) # "none" THEN TRUE
                     ELSE IF ~is /\ Level(j.flap) = "down" THEN FALSE ELSE j.told,
           kinds |-> {x \in {"flaky", "flakyrec"} :
                        \/ x = "flaky" /\ is /\ ~j.told /\ Level(j.flap) = "none"
                        \/ x = "flakyrec" /\ ~is /\ j.told /\ Level(j.flap) # "down"}]
  BY DEF FlakyStep
<1> HIDE DEF is, f
<1>2. f.flaky = is
  BY <1>1
<1>3. f.told = IF is /\ Level(j.flap) # "none" THEN TRUE
               ELSE IF ~is /\ Level(j.flap) = "down" THEN FALSE ELSE j.told
  BY <1>1
<1>4. f.flap = IF (~is /\ j.told /\ Level(j.flap) # "down") /\ Level(j.flap) = "flaky"
               THEN Closed(k) ELSE j.flap
  BY <1>1
<1>5. f.kinds = {x \in {"flaky", "flakyrec"} :
                    \/ x = "flaky" /\ is /\ ~j.told /\ Level(j.flap) = "none"
                    \/ x = "flakyrec" /\ ~is /\ j.told /\ Level(j.flap) # "down"}
  BY <1>1
<1>6. Level(j.flap) = "none" => f.told = j.told /\ f.flap = j.flap
  BY <1>0, <1>3, <1>4, Zenon
<1>7. Level(j.flap) = "down" => f.told = f.flaky /\ f.flap = j.flap
  <2>1. CASE is = TRUE
    BY <1>2, <1>3, <1>4, <2>1
  <2>2. CASE is = FALSE
    BY <1>2, <1>3, <1>4, <2>2, Zenon
  <2> QED BY <1>0, <2>1, <2>2
<1>8. Level(j.flap) = "flaky" /\ j.told => f.told = TRUE /\ f.flap = IF f.flaky THEN j.flap ELSE Closed(k)
  BY <1>0, <1>2, <1>3, <1>4
<1>9. Level(j.flap) = "none" =>
         f.kinds = IF f.flaky THEN IF j.told THEN {} ELSE {"flaky"}
                   ELSE IF j.told THEN {"flakyrec"} ELSE {}
  BY <1>0, <1>2, <1>5
<1>10. Level(j.flap) = "down" => f.kinds = {}
  BY <1>5
<1>11. Level(j.flap) = "flaky" /\ j.told => f.kinds = IF f.flaky THEN {} ELSE {"flakyrec"}
  BY <1>0, <1>2, <1>5
<1>12. f.flaky = IsFlaky(FlakyHist(j.flap, st, k), LongRun, j.flaky)
  BY <1>2 DEF is
<1> QED BY <1>0, <1>2, <1>6, <1>7, <1>8, <1>9, <1>10, <1>11, <1>12 DEF f

\* A success of the scheduler: an announced incident ends with its all-clear or, on a site
\* that flaps, in an open episode; an episode ends when the site is stable.
LEMMA JudgedUp ==
    ASSUME NEW r \in Rows, r.checked <= STABLE, NEW inc
    PROVE  LET j == Judged(r, "up", 0, FALSE, inc)
               told0 == inc # NoInc /\ inc \in notified
           IN  /\ j.fails = 0 /\ j.silent = FALSE
               /\ \/ /\ told0 /\ ~r.flaky
                     /\ j.flap = Closed(0) /\ j.flaky = r.flaky /\ j.told = r.told
                     /\ j.kinds = {"recovery"}
                  \/ /\ told0 /\ Level(j.flap) = "down"
                     /\ j.flaky = r.flaky /\ j.told = r.told /\ j.kinds = {}
                  \/ /\ inc = NoInc /\ Level(r.flap) = "down"
                     /\ j.flap = Closed(0) /\ j.flaky = FALSE /\ j.told = FALSE
                     /\ j.kinds = {"recstable"}
                  \/ /\ ~told0
                     /\ j.flap = r.flap /\ j.flaky = r.flaky /\ j.told = r.told /\ j.kinds = {}
<1> DEFINE j == Judged(r, "up", 0, FALSE, inc)
           told0 == inc # NoInc /\ inc \in notified
           flaps == r.flaky \/ Flapping(FlapHist("up", 0))
           stable == inc = NoInc /\ Level(r.flap) = "down" /\ Stable(FlapHist("up", 0))
<1>1. ~(r.checked - 0 > STABLE)
  BY FlapConstants, MonitorConstants DEF Rows, Ages
<1>2. j = [fails  |-> 0,
           flap   |-> IF (told0 /\ ~flaps) \/ stable THEN Closed(0)
                      ELSE IF told0 /\ Level(r.flap) # "down" THEN Opened("down") ELSE r.flap,
           flaky  |-> IF stable THEN FALSE ELSE r.flaky,
           told   |-> IF stable THEN FALSE ELSE r.told,
           kinds  |-> {x \in {"bad", "recovery", "recstable"} :
                          \/ x = "recovery" /\ told0 /\ ~flaps
                          \/ x = "recstable" /\ stable},
           silent |-> FALSE]
  <2> HIDE DEF flaps, stable
  <2> QED BY <1>1 DEF Judged, flaps, stable
<1> HIDE DEF j, flaps, stable
<1>3. stable => ~told0
  BY DEF stable
<1>4. flaps \/ ~r.flaky
  BY DEF flaps
<1>5. CASE told0 /\ ~flaps
  <2>1. j.flap = Closed(0) /\ j.flaky = r.flaky /\ j.told = r.told
    BY <1>2, <1>3, <1>5
  <2>2. j.kinds = {"recovery"}
    BY <1>2, <1>3, <1>5
  <2>3. j.fails = 0 /\ j.silent = FALSE
    BY <1>2
  <2> QED BY <2>1, <2>2, <2>3, <1>4, <1>5 DEF j
<1>6. CASE told0 /\ flaps
  <2>1. Level(Opened("down")) = "down"
    BY DEF Level, Opened
  <2>2. j.flaky = r.flaky /\ j.told = r.told
    BY <1>2, <1>3, <1>6
  <2>3. Level(j.flap) = "down"
    BY <1>2, <1>3, <1>6, <2>1
  <2>4. j.kinds = {}
    BY <1>2, <1>3, <1>6
  <2>5. j.fails = 0 /\ j.silent = FALSE
    BY <1>2
  <2> QED BY <2>2, <2>3, <2>4, <2>5, <1>6 DEF j
<1>7. CASE stable
  <2>1. j.flap = Closed(0) /\ j.flaky = FALSE /\ j.told = FALSE
    BY <1>2, <1>7
  <2>2. j.kinds = {"recstable"}
    BY <1>2, <1>3, <1>7
  <2>3. j.fails = 0 /\ j.silent = FALSE
    BY <1>2
  <2> QED BY <2>1, <2>2, <2>3, <1>7 DEF j, stable
<1>8. CASE ~told0 /\ ~stable
  <2>1. j.flap = r.flap /\ j.flaky = r.flaky /\ j.told = r.told
    BY <1>2, <1>8
  <2>2. j.kinds = {}
    BY <1>2, <1>8
  <2>3. j.fails = 0 /\ j.silent = FALSE
    BY <1>2
  <2> QED BY <2>1, <2>2, <2>3, <1>8 DEF j
<1> QED BY <1>5, <1>6, <1>7, <1>8

\* A failure of the scheduler counts; it speaks at the threshold, unless an open episode
\* covers it.
LEMMA JudgedDown ==
    ASSUME NEW r \in Rows, r.checked <= STABLE, NEW inc
    PROVE  LET j == Judged(r, "down", 0, FALSE, inc)
           IN  /\ j.fails = Min2(r.fails + 1, TopFails)
               /\ j.flap = r.flap /\ j.flaky = r.flaky /\ j.told = r.told
               /\ j.kinds \subseteq {"bad"}
               /\ "bad" \in j.kinds =>
                     /\ ~(inc # NoInc /\ inc \in notified)
                     /\ j.fails >= LongRun /\ Level(r.flap) # "down"
               /\ j.silent => j.fails >= LongRun /\ Level(r.flap) = "down"
<1> DEFINE j == Judged(r, "down", 0, FALSE, inc)
           told0 == inc # NoInc /\ inc \in notified
           cnt == Min2(r.fails + 1, TopFails)
           fresh == inc = NoInc \/ started[inc] - 0 < WORSE
           due == ~told0 /\ cnt >= LongRun
<1>1. ~(r.checked - 0 > STABLE)
  BY FlapConstants, MonitorConstants DEF Rows, Ages
<1>2. Threshold("down") = LongRun
  BY DEF Threshold, LongRun
<1>3. j = [fails  |-> cnt, flap |-> r.flap, flaky |-> r.flaky, told |-> r.told,
           kinds  |-> {x \in {"bad", "recovery", "recstable"} :
                          /\ x = "bad" /\ due /\ Level(r.flap) # "down"
                          /\ ~(Level(r.flap) = "flaky" /\ fresh)},
           silent |-> due /\ Level(r.flap) = "down"]
  <2> HIDE DEF cnt
  <2> QED BY <1>1, <1>2 DEF Judged, cnt
<1> HIDE DEF j, cnt
<1>4. /\ j.fails = cnt /\ j.flap = r.flap /\ j.flaky = r.flaky /\ j.told = r.told
      /\ j.silent = (due /\ Level(r.flap) = "down")
  BY <1>3
<1>5. j.kinds \subseteq {"bad"} /\ ("bad" \in j.kinds => due /\ Level(r.flap) # "down")
  BY <1>3
<1> QED BY <1>4, <1>5 DEF j, cnt

-----------------------------------------------------------------------------
(* The scheduler alone.                                                    *)

LEMMA AloneFacts ==
    ASSUME Undisturbed
    PROVE  /\ Actor = {Scheduler} /\ ProcessOf(Scheduler) = "scheduler"
           /\ \A st \in Statuses : st = "up" \/ st = "down"
           /\ \A d \in Gaps : d \in Nat /\ d > 0 /\ d <= STABLE
BY MonitorConstants DEF Undisturbed, Actor, ProcessOf

\* An announced incident is the one the scheduler finds under the lock.
LEMMA FoundIncident ==
    ASSUME Undisturbed, IncidentInv, Stage = "locked"
    PROVE  LET inc == seen[Scheduler]
           IN  /\ (inc # NoInc /\ inc \in notified) <=> notified # {}
               /\ open \subseteq {inc} /\ (inc = NoInc => open = {})
<1>1. IF open = {} THEN seen[Scheduler] = NoInc ELSE seen[Scheduler] \in open
  BY AloneFacts DEF IncidentInv, LockInv, Stage
<1>2. \A i, j \in open : i = j
  BY DEF IncidentInv, OneOpenIncident
<1>3. notified \subseteq open /\ open \subseteq Ids /\ NoInc \notin Ids
  BY MonitorConstants DEF IncidentInv, TypeOK
<1> QED BY <1>1, <1>2, <1>3

\* What the scheduler's transaction leaves behind.
LEMMA StoreEffect ==
    ASSUME Undisturbed, IncidentInv, AloneInv, Store(Scheduler),
           NEW j, j = Judged(row, out[Scheduler], 0, FALSE, seen[Scheduler]),
           NEW f, f = FlakyStep(j.flap, j.flaky, j.told, out[Scheduler], 0)
    PROVE  /\ row' = [fails |-> j.fails, last |-> out[Scheduler], flap |-> f.flap,
                      flaky |-> f.flaky, told |-> f.told, checked |-> 0]
           /\ Batch'.kinds = j.kinds \cup f.kinds /\ Batch'.again = "none"
           /\ "bad" \in Batch'.kinds /\ out[Scheduler] # "up" => Batch'.inc \in open'
           /\ "bad" \notin Batch'.kinds => Batch'.inc = NoInc
           /\ Stage' = IF j.kinds \cup f.kinds = {} THEN "idle" ELSE "send"
           /\ out[Scheduler] = "up" => notified' = {}
           /\ out[Scheduler] # "up" /\ ~j.silent => notified' = notified
           /\ samples' = Latest(samples \cup {[age |-> 0, st |-> out[Scheduler]]}, Keep)
           /\ now'[Scheduler] = 0 /\ chat' = chat /\ retry' = retry
<1> DEFINE o == Outcome(snap[Scheduler], out[Scheduler], now[Scheduler],
                        Scheduler # Scheduler, seen[Scheduler])
<1>0. Stage = "locked" /\ snap[Scheduler] = row /\ now[Scheduler] = 0 /\ Scheduler \in Actor
  BY DEF Store, AloneInv, Stage, Actor
<1>1. PICK i \in Ids \cup {NoInc} : Booked(Scheduler, i) /\ Commit(Scheduler, o, i)
  BY DEF Store
<1>2. /\ o.row = [fails |-> j.fails, last |-> out[Scheduler], flap |-> f.flap,
                  flaky |-> f.flaky, told |-> f.told, checked |-> 0]
      /\ o.kinds = j.kinds \cup f.kinds /\ o.silent = j.silent
  <2>1. o = Outcome(row, out[Scheduler], 0, FALSE, seen[Scheduler])
    BY <1>0
  <2> HIDE DEF o
  <2> QED BY <2>1 DEF Outcome
<1> HIDE DEF o
<1>3. row' = o.row
  <2>1. row' = Flush(row, row, o.row, out[Scheduler] # "up" /\ Scheduler = Scheduler)
    BY <1>0, <1>1 DEF Commit
  <2>2. \A c : Flush(row, row, o.row, c) = o.row
    BY <1>2 DEF Flush
  <2> QED BY <2>1, <2>2
<1>4. TypeOK
  BY DEF IncidentInv
<1>5. /\ Batch'.kinds = o.kinds /\ Batch'.again = "none"
      /\ Batch'.inc = IF "bad" \in o.kinds THEN i ELSE NoInc
      /\ Stage' = IF o.kinds = {} THEN "idle" ELSE "send"
  BY <1>0, <1>1, <1>4 DEF Commit, Batch, Stage, TypeOK
<1>6. out[Scheduler] # "up" => i \in open'
  BY <1>1 DEF Commit
<1>7. out[Scheduler] = "up" => notified' = {}
  <2>1. out[Scheduler] = "up" => i = seen[Scheduler] /\ notified' = notified \ {i}
    BY <1>1 DEF Commit, Booked
  <2>2. notified \subseteq {seen[Scheduler]}
    BY <1>0, <1>4, FoundIncident DEF TypeOK
  <2> QED BY <2>1, <2>2
<1>8. out[Scheduler] # "up" /\ ~j.silent => notified' = notified
  <2> SUFFICES ASSUME out[Scheduler] # "up", ~j.silent PROVE notified' = notified
    OBVIOUS
  <2>1. CASE i = seen[Scheduler]
    BY <1>1, <1>2, <2>1 DEF Commit
  <2>2. CASE i # seen[Scheduler]
    <3>1. seen[Scheduler] = NoInc
      BY <1>1, <2>2 DEF Booked
    <3>2. notified = {}
      BY <1>0, <1>4, <3>1, FoundIncident DEF TypeOK
    <3>3. notified' = notified \ {i}
      BY <1>1, <1>2, <2>2 DEF Commit
    <3> QED BY <3>2, <3>3
  <2> QED BY <2>1, <2>2
<1>9. samples' = Latest(samples \cup {[age |-> 0, st |-> out[Scheduler]]}, Keep)
  BY <1>0, <1>1 DEF Commit
<1>10. now'[Scheduler] = 0
  BY <1>0, <1>1, <1>4 DEF Commit, TypeOK
<1>11. chat' = chat /\ retry' = retry
  BY DEF Store
<1> QED BY <1>2, <1>3, <1>5, <1>6, <1>7, <1>8, <1>9, <1>10, <1>11

LEMMA StoreRun ==
    ASSUME Undisturbed, IncidentInv, AloneInv, RunInv, Store(Scheduler)
    PROVE  RunInv'
<1> DEFINE st == out[Scheduler]
           x == [age |-> 0, st |-> st]
           j == Judged(row, st, 0, FALSE, seen[Scheduler])
           f == FlakyStep(j.flap, j.flaky, j.told, st, 0)
           S == samples \cup {x}
<1>0. TypeOK /\ row \in Rows /\ row.checked <= STABLE /\ Between /\ st \in Statuses
  <2>1. TypeOK
    BY DEF IncidentInv
  <2>2. Stage = "locked"
    BY DEF Store, Stage
  <2> QED BY <2>1, <2>2 DEF TypeOK, AloneInv, Between, Actor
<1>1. /\ samples' = Latest(S, Keep) /\ row'.fails = j.fails
      /\ Stage' \in {"idle", "send"}
  <2> HIDE DEF j, f, x
  <2>1. j = Judged(row, st, 0, FALSE, seen[Scheduler]) /\ f = FlakyStep(j.flap, j.flaky, j.told, st, 0)
    BY DEF j, f
  <2>2. row' = [fails |-> j.fails, last |-> st, flap |-> f.flap,
                flaky |-> f.flaky, told |-> f.told, checked |-> 0]
    BY <2>1, StoreEffect
  <2>3. Stage' = IF j.kinds \cup f.kinds = {} THEN "idle" ELSE "send"
    BY <2>1, StoreEffect
  <2>4. samples' = Latest(samples \cup {[age |-> 0, st |-> st]}, Keep)
    BY <2>1, StoreEffect
  <2> QED BY <2>2, <2>3, <2>4 DEF x
<1>2. IsFiniteSet(samples) /\ samples \subseteq Samples /\ \A s \in samples : s.age > 0
  BY <1>0 DEF RunInv, TypeOK
<1>3. IsFiniteSet(S) /\ S \subseteq Samples
  <2>1. x \in Samples
    BY <1>0, MonitorConstants DEF Samples, Ages
  <2>2. IsFiniteSet(S)
    BY <1>2, FS_AddElement
  <2> QED BY <1>2, <2>1, <2>2
<1>4. IsFiniteSet(samples')
  BY <1>1, <1>3, LatestFinite
<1>5. ~Between'
  BY <1>1 DEF Between
<1>6. st = "up" => j.fails = 0
  <2> SUFFICES ASSUME st = "up" PROVE Judged(row, "up", 0, FALSE, seen[Scheduler]).fails = 0
    OBVIOUS
  <2> QED BY <1>0, JudgedUp
<1>7. st = "down" => j.fails = Min2(row.fails + 1, TopFails)
  <2> SUFFICES ASSUME st = "down"
               PROVE  Judged(row, "down", 0, FALSE, seen[Scheduler]).fails = Min2(row.fails + 1, TopFails)
    OBVIOUS
  <2> QED BY <1>0, JudgedDown
<1> HIDE DEF j, f
<1>8. ASSUME NEW n \in 0..LongRun, n <= row'.fails
      PROVE  Outage(samples', n, (n - 1) * STABLE)
  <2>0. LongRun \in Nat /\ n \in Nat /\ n <= LongRun /\ Keep \in Nat /\ LongRun <= Keep /\ n <= Keep
    BY LongRunType, MonitorConstants DEF Undisturbed
  <2>1. CASE n = 0
    BY <1>4, <2>1, OutageZero
  <2>2. CASE n > 0
    <3> DEFINE m == n - 1
    <3>0. m \in Nat /\ m \in 0..LongRun /\ m <= LongRun /\ n = m + 1 /\ m * STABLE \in Nat
      <4>1. m \in Nat /\ m <= LongRun /\ n = m + 1
        BY <2>0, <2>2
      <4> HIDE DEF m
      <4>2. m * STABLE \in Nat
        BY <4>1, Spans
      <4> QED BY <4>1, <4>2, <2>0
    <3>1. st # "up" /\ j.fails = Min2(row.fails + 1, TopFails)
      BY <1>0, <1>1, <1>8, <1>6, <1>7, <2>2, AloneFacts
    <3>2. m <= row.fails
      <4>1. j.fails <= row.fails + 1
        BY <3>1, <1>0, TopFailsType DEF Min2, Rows
      <4>2. n <= j.fails /\ row.fails \in Nat /\ j.fails \in Int
        BY <1>0, <1>1, <1>8, <3>1, TopFailsType DEF Rows, Min2
      <4> QED BY <4>1, <4>2, <3>0
    <3>3. Outage(samples, m, m * STABLE)
      <4> HIDE DEF m
      <4> QED BY <1>0, <3>0, <3>2 DEF RunInv
    <3>4. Outage(S, m + 1, m * STABLE)
      <4>1. x.age = 0 /\ x.st = "down"
        BY <1>0, <3>1, AloneFacts
      <4> HIDE DEF m, x
      <4> QED BY <1>2, <3>0, <3>3, <4>1, OutageAdd
    <3>5. Latest(samples', n) = Latest(S, n)
      <4> HIDE DEF S
      <4> QED BY <1>1, <1>3, <2>0, LatestLatest, DatedSamples
    <3>6. Outage(S, n, m * STABLE)
      <4> HIDE DEF S, m
      <4> QED BY <3>0, <3>4
    <3>7. Outage(samples', n, m * STABLE)
      <4> HIDE DEF S, m
      <4> QED BY <3>5, <3>6 DEF Outage
    <3> QED BY <3>7
  <2> QED BY <2>0, <2>1, <2>2
<1> HIDE DEF j, f, x, S
<1>9. \A n \in 0..LongRun : n <= row'.fails => Outage(samples', n, (n - 1) * STABLE)
  BY <1>8
<1> QED BY <1>4, <1>5, <1>9 DEF RunInv

\* A success of the scheduler, and what the reader has heard.
LEMMA StoreUpTalk ==
    ASSUME Undisturbed, IncidentInv, EpisodeInv, Store(Scheduler), out[Scheduler] = "up"
    PROVE  TalkInv'
<1> DEFINE inc == seen[Scheduler]
           j == Judged(row, "up", 0, FALSE, inc)
           f == FlakyStep(j.flap, j.flaky, j.told, "up", 0)
<1>0. /\ TypeOK /\ AloneInv /\ Stage = "locked" /\ row \in Rows /\ row.checked <= STABLE
      /\ row.told \in BOOLEAN /\ row.flaky \in BOOLEAN /\ chat \in Chats
  <2>1. TypeOK /\ AloneInv /\ Stage = "locked"
    BY DEF IncidentInv, EpisodeInv, Store, Stage
  <2> QED BY <2>1 DEF TypeOK, AloneInv, Rows
<1>1. Heard
  BY <1>0 DEF EpisodeInv, TalkInv
<1>2. (inc # NoInc /\ inc \in notified) <=> notified # {}
  BY <1>0, FoundIncident
<1>3. /\ row' = [fails |-> j.fails, last |-> "up", flap |-> f.flap,
                 flaky |-> f.flaky, told |-> f.told, checked |-> 0]
      /\ Batch'.kinds = j.kinds \cup f.kinds /\ notified' = {} /\ chat' = chat
      /\ Stage' = IF j.kinds \cup f.kinds = {} THEN "idle" ELSE "send"
  <2>1. j = Judged(row, out[Scheduler], 0, FALSE, seen[Scheduler])
        /\ f = FlakyStep(j.flap, j.flaky, j.told, out[Scheduler], 0)
    OBVIOUS
  <2> HIDE DEF j, f
  <2> QED BY <1>0, <2>1, StoreEffect
<1>4. j.flap \in Flaps /\ j.flaky \in BOOLEAN /\ j.told \in BOOLEAN
  <2>1. "up" \in Statuses /\ 0 \in Ages /\ FALSE \in BOOLEAN
    BY MonitorConstants DEF Ages
  <2> QED BY <1>0, <2>1, JudgedType
<1>7. \/ /\ notified # {} /\ ~row.flaky
         /\ j.flap = Closed(0) /\ j.flaky = row.flaky /\ j.told = row.told
         /\ j.kinds = {"recovery"}
      \/ /\ notified # {} /\ Level(j.flap) = "down"
         /\ j.flaky = row.flaky /\ j.told = row.told /\ j.kinds = {}
      \/ /\ inc = NoInc /\ Level(row.flap) = "down"
         /\ j.flap = Closed(0) /\ j.flaky = FALSE /\ j.told = FALSE
         /\ j.kinds = {"recstable"}
      \/ /\ notified = {}
         /\ j.flap = row.flap /\ j.flaky = row.flaky /\ j.told = row.told /\ j.kinds = {}
  <2> HIDE DEF inc
  <2> QED BY <1>0, <1>2, JudgedUp
<1> HIDE DEF j
<1>8. /\ f.flaky = IsFlaky(FlakyHist(j.flap, "up", 0), LongRun, j.flaky)
      /\ f.flaky \in BOOLEAN
      /\ Level(j.flap) = "none" =>
            /\ f.flap = j.flap /\ f.told = j.told
            /\ f.kinds = IF f.flaky = TRUE THEN IF j.told = TRUE THEN {} ELSE {"flaky"}
                         ELSE IF j.told = TRUE THEN {"flakyrec"} ELSE {}
      /\ Level(j.flap) = "down" => f.flap = j.flap /\ f.told = f.flaky /\ f.kinds = {}
      /\ Level(j.flap) = "flaky" /\ j.told = TRUE =>
            /\ f.flap = IF f.flaky = TRUE THEN j.flap ELSE Closed(0)
            /\ f.told = TRUE
            /\ f.kinds = IF f.flaky = TRUE THEN {} ELSE {"flakyrec"}
  BY <1>4, FlakyCases
<1> DEFINE is == f.flaky
<1> HIDE DEF f
<1>6. j.flap = Closed(0) => is = FALSE
  BY <1>0, <1>4, <1>8, ClosedIsSteady
<1>9. Level(Closed(0)) = "none"
  BY DEF Level, Closed
<1>10. Level(row.flap) \in {"none", "down", "flaky"}
  BY DEF Level
<1>11. /\ row'.flap = f.flap /\ row'.flaky = f.flaky /\ row'.told = f.told
  BY <1>3
\* the all-clear of an incident
<1>12. CASE notified # {} /\ ~row.flaky /\ j.flap = Closed(0) /\ j.told = row.told
            /\ j.kinds = {"recovery"}
  <2>1. DownOpen
    BY <1>1, <1>10, <1>12 DEF Heard, NothingOpen, FlakyOpen
  <2>2. j.told = FALSE
    BY <2>1, <1>0, <1>12 DEF DownOpen
  <2>3. f.flap = Closed(0) /\ f.told = FALSE /\ f.kinds = {}
    BY <1>6, <1>8, <1>9, <1>12, <2>2
  <2>4. Batch'.kinds = {"recovery"} /\ Stage' = "send"
    BY <1>3, <1>12, <2>3
  <2>5. ClearBatch'
    BY <1>3, <1>9, <1>11, <2>3, <2>4 DEF ClearBatch
  <2>6. chat'.clear = 0 /\ chat'.down <= 1 /\ chat'.flaky <= 1
    BY <1>3, <2>1 DEF DownOpen
  <2> QED BY <2>4, <2>5, <2>6 DEF TalkInv
\* an incident of a site that flaps
<1>13. CASE notified # {} /\ Level(j.flap) = "down" /\ j.kinds = {}
  <2>1. chat.down + chat.flaky > 0 /\ chat.down <= 1 /\ chat.flaky <= 1 /\ chat.clear = 0
    <3>1. DownOpen \/ FlakyOpen
      BY <1>1, <1>10, <1>13 DEF Heard, NothingOpen
    <3>2. chat.down \in 0..2
      BY <1>0 DEF Chats
    <3> QED BY <3>1, <3>2 DEF FlakyOpen, DownOpen
  <2>2. f.flap = j.flap /\ f.told = is /\ f.kinds = {}
    BY <1>8, <1>13
  <2>3. Stage' = "idle" /\ Level(row'.flap) = "down"
    BY <1>3, <1>11, <1>13, <2>2
  <2>4. DownOpen'
    BY <1>3, <1>11, <2>1, <2>2 DEF DownOpen
  <2> QED BY <2>3, <2>4 DEF TalkInv, Heard
\* the end of an episode
<1>14. CASE Level(row.flap) = "down" /\ j.flap = Closed(0) /\ j.told = FALSE
            /\ j.kinds = {"recstable"}
  <2>1. DownOpen
    BY <1>1, <1>14 DEF Heard
  <2>3. f.flap = Closed(0) /\ f.told = FALSE /\ f.kinds = {}
    BY <1>6, <1>8, <1>9, <1>14
  <2>4. Batch'.kinds = {"recstable"} /\ Stage' = "send"
    BY <1>3, <1>14, <2>3
  <2>5. ClearBatch'
    BY <1>3, <1>9, <1>11, <2>3, <2>4 DEF ClearBatch
  <2>6. chat'.clear = 0 /\ chat'.down <= 1 /\ chat'.flaky <= 1
    BY <1>3, <2>1 DEF DownOpen
  <2> QED BY <2>4, <2>5, <2>6 DEF TalkInv
\* nothing to close
<1>15. CASE notified = {} /\ j.flap = row.flap /\ j.flaky = row.flaky /\ j.told = row.told
            /\ j.kinds = {}
  <2>1. CASE Level(row.flap) = "none"
    <3>1. NothingOpen
      BY <1>1, <2>1 DEF Heard
    <3>2. f.flap = row.flap /\ f.told = FALSE 
          /\ f.kinds = IF is THEN {"flaky"} ELSE {}
      BY <1>0, <1>8, <1>15, <2>1, <3>1 DEF NothingOpen
    <3>3. Heard'
      BY <1>3, <1>11, <2>1, <3>1, <3>2 DEF Heard, NothingOpen
    <3>4. CASE is
      <4>1. Batch'.kinds = {"flaky"} /\ Stage' = "send"
        BY <1>3, <1>15, <3>2, <3>4
      <4>2. AlarmBatch'
        BY <1>3, <1>11, <2>1, <3>2, <3>4, <4>1 DEF AlarmBatch, Alarms
      <4> QED BY <3>3, <4>1, <4>2 DEF TalkInv
    <3>5. CASE ~is
      <4>1. Stage' = "idle"
        BY <1>3, <1>15, <3>2, <3>5
      <4> QED BY <3>3, <4>1 DEF TalkInv
    <3> QED BY <3>4, <3>5
  <2>2. CASE Level(row.flap) = "down"
    <3>1. DownOpen
      BY <1>1, <2>2 DEF Heard
    <3>2. f.flap = row.flap /\ f.told = is /\ f.kinds = {}
      BY <1>8, <1>15, <2>2
    <3>3. Stage' = "idle" /\ Level(row'.flap) = "down"
      BY <1>3, <1>11, <1>15, <2>2, <3>2
    <3>4. DownOpen'
      BY <1>3, <1>11, <3>1, <3>2 DEF DownOpen
    <3> QED BY <3>3, <3>4 DEF TalkInv, Heard
  <2>3. CASE Level(row.flap) = "flaky"
    <3>1. FlakyOpen
      BY <1>1, <2>3 DEF Heard
    <3>2. /\ f.flap = (IF is THEN row.flap ELSE Closed(0)) /\ f.told = TRUE 
          /\ f.kinds = IF is THEN {} ELSE {"flakyrec"}
      BY <1>0, <1>8, <1>15, <2>3, <3>1 DEF FlakyOpen
    <3>3. CASE is
      <4>1. Stage' = "idle" /\ Level(row'.flap) = "flaky"
        BY <1>3, <1>11, <1>15, <2>3, <3>2, <3>3
      <4>2. FlakyOpen'
        BY <1>3, <1>11, <1>15, <3>1, <3>2, <3>3 DEF FlakyOpen
      <4> QED BY <4>1, <4>2 DEF TalkInv, Heard
    <3>4. CASE ~is
      <4>1. Batch'.kinds = {"flakyrec"} /\ Stage' = "send"
        BY <1>3, <1>15, <3>2, <3>4
      <4>2. ClearBatch'
        BY <1>3, <1>9, <1>11, <3>2, <3>4, <4>1 DEF ClearBatch
      <4>3. chat'.clear = 0 /\ chat'.down <= 1 /\ chat'.flaky <= 1
        BY <1>3, <3>1 DEF FlakyOpen
      <4> QED BY <4>1, <4>2, <4>3 DEF TalkInv
    <3> QED BY <3>3, <3>4
  <2> QED BY <1>10, <2>1, <2>2, <2>3
<1> QED BY <1>7, <1>12, <1>13, <1>14, <1>15

\* A failure of the scheduler, and what the reader has heard.
LEMMA StoreDownTalk ==
    ASSUME Undisturbed, IncidentInv, EpisodeInv, Store(Scheduler), out[Scheduler] = "down"
    PROVE  TalkInv'
<1> DEFINE inc == seen[Scheduler]
           j == Judged(row, "down", 0, FALSE, inc)
           f == FlakyStep(j.flap, j.flaky, j.told, "down", 0)
<1>0. /\ TypeOK /\ AloneInv /\ RunInv /\ Stage = "locked" /\ Between
      /\ row \in Rows /\ row.checked <= STABLE
      /\ row.flap \in Flaps /\ row.told \in BOOLEAN /\ row.flaky \in BOOLEAN /\ chat \in Chats
      /\ row.fails \in Nat
  <2>1. TypeOK /\ AloneInv /\ RunInv /\ Stage = "locked" /\ Between
    BY DEF IncidentInv, EpisodeInv, Store, Stage, Between
  <2> QED BY <2>1, TopFailsType DEF TypeOK, AloneInv, Rows
<1>1. Heard
  BY <1>0 DEF EpisodeInv, TalkInv
<1>2. (inc # NoInc /\ inc \in notified) <=> notified # {}
  BY <1>0, FoundIncident
<1>3. /\ row' = [fails |-> j.fails, last |-> "down", flap |-> f.flap,
                 flaky |-> f.flaky, told |-> f.told, checked |-> 0]
      /\ Batch'.kinds = j.kinds \cup f.kinds /\ chat' = chat
      /\ "bad" \in Batch'.kinds => Batch'.inc \in open'
      /\ ~j.silent => notified' = notified
      /\ Stage' = IF j.kinds \cup f.kinds = {} THEN "idle" ELSE "send"
  <2>1. j = Judged(row, out[Scheduler], 0, FALSE, seen[Scheduler])
        /\ f = FlakyStep(j.flap, j.flaky, j.told, out[Scheduler], 0)
    OBVIOUS
  <2> HIDE DEF j, f
  <2> QED BY <1>0, <2>1, StoreEffect
<1>4. /\ j.fails = Min2(row.fails + 1, TopFails)
      /\ j.flap = row.flap /\ j.flaky = row.flaky /\ j.told = row.told
      /\ j.kinds \subseteq {"bad"}
      /\ "bad" \in j.kinds =>
            notified = {} /\ j.fails >= LongRun /\ Level(row.flap) # "down"
      /\ j.silent => j.fails >= LongRun /\ Level(row.flap) = "down"
  <2> HIDE DEF inc
  <2> QED BY <1>0, <1>2, JudgedDown
<1>5. j.flap \in Flaps /\ j.flaky \in BOOLEAN /\ j.told \in BOOLEAN
  BY <1>0, <1>4
<1> HIDE DEF j
<1>6. /\ f.flaky = IsFlaky(FlakyHist(j.flap, "down", 0), LongRun, j.flaky)
      /\ f.flaky \in BOOLEAN
      /\ Level(j.flap) = "none" =>
            /\ f.flap = j.flap /\ f.told = j.told
            /\ f.kinds = IF f.flaky = TRUE THEN IF j.told = TRUE THEN {} ELSE {"flaky"}
                         ELSE IF j.told = TRUE THEN {"flakyrec"} ELSE {}
      /\ Level(j.flap) = "down" => f.flap = j.flap /\ f.told = f.flaky /\ f.kinds = {}
      /\ Level(j.flap) = "flaky" /\ j.told = TRUE =>
            /\ f.flap = IF f.flaky = TRUE THEN j.flap ELSE Closed(0)
            /\ f.told = TRUE
            /\ f.kinds = IF f.flaky = TRUE THEN {} ELSE {"flakyrec"}
  BY <1>5, FlakyCases
<1>7. j.fails >= LongRun => row.fails + 1 >= LongRun
  BY <1>0, <1>4, TopFailsType, LongRunType DEF Min2
<1>8. notified # {} => j.fails >= LongRun
  <2>1. notified # {} => row.fails >= LongRun
    BY <1>0 DEF AloneInv
  <2> QED BY <1>0, <1>4, <2>1, TopFailsType, LongRunType DEF Min2
<1>9. Level(row.flap) # "none" => row.flap.lvl # "closed"
  BY DEF Level
<1>10. j.fails >= LongRun /\ Level(row.flap) # "none" => f.flaky = row.flaky
  <2> HIDE DEF f
  <2> QED BY <1>0, <1>4, <1>6, <1>7, <1>9, ThresholdIsOutage
<1>11. Level(row.flap) \in {"none", "down", "flaky"} /\ Level(Closed(0)) = "none"
  BY DEF Level, Closed
<1> HIDE DEF f
<1>12. /\ row'.flap = f.flap /\ row'.flaky = f.flaky /\ row'.told = f.told
       /\ row'.fails = j.fails
  BY <1>3
<1>13. CASE Level(row.flap) = "none"
  <2>1. NothingOpen
    BY <1>1, <1>13 DEF Heard
  <2>2. /\ f.flap = row.flap /\ f.told = FALSE
        /\ f.kinds = IF f.flaky = TRUE THEN {"flaky"} ELSE {}
    BY <1>0, <1>4, <1>6, <1>13, <2>1 DEF NothingOpen
  <2>3. notified' = {} /\ notified = {}
    BY <1>3, <1>4, <1>13, <2>1 DEF NothingOpen
  <2>4. Heard'
    BY <1>3, <1>12, <1>13, <2>1, <2>2, <2>3 DEF Heard, NothingOpen
  <2>5. CASE j.kinds \cup f.kinds = {}
    BY <1>3, <2>4, <2>5 DEF TalkInv
  <2>6. CASE j.kinds \cup f.kinds # {}
    <3>1. Stage' = "send" /\ Batch'.kinds = j.kinds \cup f.kinds
      BY <1>3, <2>6
    <3>2. Batch'.kinds \subseteq Alarms
      BY <1>4, <2>2, <3>1 DEF Alarms
    <3>3. "flaky" \in Batch'.kinds <=> f.flaky = TRUE
      BY <1>4, <2>2, <3>1
    <3>4. "bad" \in Batch'.kinds => j.fails >= LongRun /\ Batch'.inc \in open'
      BY <1>3, <1>4, <2>2, <3>1
    <3>5. AlarmBatch'
      BY <1>6, <1>12, <1>13, <2>2, <2>3, <2>6, <3>1, <3>2, <3>3, <3>4 DEF AlarmBatch
    <3> QED BY <2>4, <3>1, <3>5 DEF TalkInv
  <2> QED BY <2>5, <2>6
<1>14. CASE Level(row.flap) = "down"
  <2>1. DownOpen
    BY <1>1, <1>14 DEF Heard
  <2>2. f.flap = row.flap /\ f.told = f.flaky /\ f.kinds = {} /\ j.kinds = {}
    BY <1>4, <1>6, <1>14
  <2>3. Stage' = "idle" /\ Level(row'.flap) = "down"
    BY <1>3, <1>12, <1>14, <2>2
  <2>4. DownOpen'
    BY <1>3, <1>12, <2>1, <2>2 DEF DownOpen
  <2> QED BY <2>3, <2>4 DEF TalkInv, Heard
<1>15. CASE Level(row.flap) = "flaky"
  <2>1. FlakyOpen
    BY <1>1, <1>15 DEF Heard
  <2>2. /\ f.flap = (IF f.flaky = TRUE THEN row.flap ELSE Closed(0)) /\ f.told = TRUE
        /\ f.kinds = IF f.flaky = TRUE THEN {} ELSE {"flakyrec"}
    BY <1>0, <1>4, <1>6, <1>15, <2>1 DEF FlakyOpen
  <2>3. notified' = notified
    BY <1>3, <1>4, <1>15
  <2>4. CASE f.flaky = TRUE
    <3>1. Level(row'.flap) = "flaky" /\ FlakyOpen'
      BY <1>3, <1>12, <1>15, <2>1, <2>2, <2>3, <2>4 DEF FlakyOpen
    <3>2. Heard'
      BY <3>1 DEF Heard
    <3>3. CASE j.kinds = {}
      BY <1>3, <2>2, <2>4, <3>2, <3>3 DEF TalkInv
    <3>4. CASE j.kinds = {"bad"}
      <4>1. Stage' = "send" /\ Batch'.kinds = {"bad"}
        BY <1>3, <2>2, <2>4, <3>4
      <4>2. AlarmBatch'
        BY <1>3, <1>4, <1>12, <2>3, <3>1, <3>4, <4>1 DEF AlarmBatch, Alarms
      <4> QED BY <3>2, <4>1, <4>2 DEF TalkInv
    <3> QED BY <1>4, <3>3, <3>4
  <2>5. CASE f.flaky = FALSE
    <3>1. ~(j.fails >= LongRun)
      BY <1>10, <1>15, <2>1, <2>5 DEF FlakyOpen
    <3>2. notified = {} /\ j.kinds = {}
      BY <1>4, <1>8, <3>1
    <3>3. Stage' = "send" /\ Batch'.kinds = {"flakyrec"}
      BY <1>3, <2>2, <2>5, <3>2
    <3>4. ClearBatch'
      BY <1>11, <1>12, <2>2, <2>3, <2>5, <3>2, <3>3 DEF ClearBatch
    <3>5. chat'.clear = 0 /\ chat'.down <= 1 /\ chat'.flaky <= 1
      BY <1>3, <2>1 DEF FlakyOpen
    <3> QED BY <3>3, <3>4, <3>5 DEF TalkInv
  <2> QED BY <1>6, <2>4, <2>5
<1> QED BY <1>11, <1>13, <1>14, <1>15

\* The transaction of the scheduler keeps the row to itself and the counter to its word.
LEMMA StoreAlone ==
    ASSUME Undisturbed, IncidentInv, AloneInv, Store(Scheduler)
    PROVE  AloneInv'
<1> DEFINE st == out[Scheduler]
           j == Judged(row, st, 0, FALSE, seen[Scheduler])
           f == FlakyStep(j.flap, j.flaky, j.told, st, 0)
<1>0. TypeOK /\ row \in Rows /\ row.checked <= STABLE /\ st \in Statuses
  <2>1. TypeOK
    BY DEF IncidentInv
  <2> QED BY <2>1 DEF TypeOK, AloneInv, Actor
<1>1. st = "down" => /\ j.fails = Min2(row.fails + 1, TopFails)
                     /\ j.silent => j.fails >= LongRun
  <2> SUFFICES ASSUME st = "down"
               PROVE  LET i == Judged(row, "down", 0, FALSE, seen[Scheduler])
                      IN  i.fails = Min2(row.fails + 1, TopFails) /\ (i.silent => i.fails >= LongRun)
    OBVIOUS
  <2> QED BY <1>0, JudgedDown
<1>2. j = Judged(row, out[Scheduler], 0, FALSE, seen[Scheduler])
      /\ f = FlakyStep(j.flap, j.flaky, j.told, out[Scheduler], 0)
  OBVIOUS
<1> HIDE DEF j, f
<1>3. /\ row' = [fails |-> j.fails, last |-> st, flap |-> f.flap,
                 flaky |-> f.flaky, told |-> f.told, checked |-> 0]
      /\ Batch'.again = "none" /\ ("bad" \notin Batch'.kinds => Batch'.inc = NoInc)
      /\ Stage' = (IF j.kinds \cup f.kinds = {} THEN "idle" ELSE "send")
      /\ st = "up" => notified' = {}
      /\ st # "up" /\ ~j.silent => notified' = notified
      /\ now'[Scheduler] = 0 /\ retry' = retry
  BY <1>2, StoreEffect
<1>4. notified' # {} => row'.fails >= LongRun
  <2>1. CASE st = "up"
    BY <1>3, <2>1
  <2>2. CASE st = "down" /\ j.silent
    BY <1>1, <1>3, <2>2
  <2>3. CASE st = "down" /\ ~j.silent
    <3>1. notified # {} => row.fails >= LongRun
      BY DEF AloneInv
    <3>2. row.fails \in Nat
      BY <1>0, TopFailsType DEF Rows
    <3>3. notified' = notified /\ row'.fails = Min2(row.fails + 1, TopFails)
      BY <1>1, <1>3, <2>3
    <3> QED BY <3>1, <3>2, <3>3, TopFailsType, LongRunType DEF Min2
  <2> QED BY <1>0, <2>1, <2>2, <2>3, AloneFacts
<1>5. row'.checked = 0 /\ 0 <= STABLE
  BY <1>3, LongRunType
<1>6. Stage' \in {"idle", "send"}
  BY <1>3
<1>7. retry' = [p \in Processes |-> NotParked]
  BY <1>3 DEF AloneInv
<1> QED BY <1>3, <1>4, <1>5, <1>6, <1>7 DEF AloneInv

\* The words of an open episode and of none, at rest.
LEMMA HeardKept ==
    ASSUME Heard, chat' = chat, notified' = notified, Level(row'.flap) = Level(row.flap),
           row'.told = row.told, row'.flaky = row.flaky
    PROVE  Heard'
BY DEF Heard, NothingOpen, DownOpen, FlakyOpen

\* A new tick: everything grows older, nothing is said.
LEMMA TickEpisode ==
    ASSUME Undisturbed, IncidentInv, EpisodeInv, NEW d \in Gaps, SchedTick(d)
    PROVE  EpisodeInv'
<1>0. /\ TypeOK /\ AloneInv /\ RunInv /\ TalkInv /\ Stage = "idle" /\ Scheduler \in Actor
      /\ TakeNow(Scheduler, d) /\ notified' = notified /\ chat' = chat /\ queue' = queue
      /\ d \in Nat /\ d > 0 /\ d <= STABLE /\ STABLE \in Nat /\ Cap \in Nat
  BY AloneFacts, LongRunType, MonitorConstants
     DEF IncidentInv, EpisodeInv, SchedTick, Stage, Actor
<1>1. Stage' = "probed" /\ now'[Scheduler] = 0 /\ Batch' = Batch
  BY <1>0 DEF SchedTick, TakeNow, Stage, Batch, TypeOK
<1>2. row' = OlderRow(row, d) /\ samples' = OlderSamples(samples, d) /\ row \in Rows
  BY <1>0 DEF TakeNow, TypeOK
<1>3. /\ row'.told = row.told /\ row'.flaky = row.flaky /\ row'.fails = row.fails
      /\ row'.checked = Older(row.checked, d) /\ row'.flap = OlderFlap(row.flap, d)
  BY <1>2 DEF OlderRow, Rows
<1>4. Level(row'.flap) = Level(row.flap)
  BY <1>3 DEF OlderFlap, Closed, Level
<1>5. row.checked = 0
  BY <1>0 DEF AloneInv, Between
<1>6. row'.checked <= STABLE
  BY <1>0, <1>3, <1>5 DEF Older, Min2
<1>7. retry' = [p \in Processes |-> NotParked]
  <2>1. \A p \in Processes : retry[p].kind = "none"
    BY <1>0 DEF AloneInv, NotParked
  <2> QED BY <1>0, <2>1 DEF TakeNow
<1>8. AloneInv'
  BY <1>0, <1>1, <1>3, <1>6, <1>7 DEF AloneInv, Between
<1>9. TalkInv'
  <2>1. Heard
    BY <1>0 DEF TalkInv
  <2>2. Heard'
    BY <1>0, <1>3, <1>4, <2>1, HeardKept
  <2> QED BY <1>1, <2>2 DEF TalkInv
<1>10. IsFiniteSet(samples) /\ samples \subseteq Samples
  BY <1>0 DEF RunInv, TypeOK
<1>11. IsFiniteSet(samples')
  <2> DEFINE T == OlderSamples(samples, d)
             f == [s \in samples |-> [age |-> Older(s.age, d), st |-> s.st]]
  <2>1. f \in Surjection(samples, T)
    BY DEF Surjection, OlderSamples
  <2> HIDE DEF f, T
  <2>2. IsFiniteSet(T)
    BY <1>10, <2>1, FS_Surjection
  <2> QED BY <1>2, <2>2 DEF T
<1>12. \A s \in samples' : s.age > 0
  <2>1. 0 < Cap
    <3>1. LongRun * STABLE \in Nat
      BY LongRunType
    <3> QED BY <1>0, <3>1 DEF Undisturbed
  <2>2. ASSUME NEW t \in samples PROVE Older(t.age, d) > 0
    BY <1>0, <1>10, <2>1 DEF Older, Min2, Samples, Ages
  <2> QED BY <1>2, <2>2 DEF OlderSamples
<1>13. ASSUME NEW n \in 0..LongRun, n <= row'.fails
       PROVE  Outage(samples', n, n * STABLE)
  <2>0. n \in Nat /\ n <= LongRun
    BY LongRunType
  <2>1. CASE n = 0
    BY <1>11, <2>1, OutageZero
  <2>2. CASE n > 0
    <3> DEFINE b == (n - 1) * STABLE
    <3>1. /\ b \in Nat /\ b + STABLE = n * STABLE /\ n * STABLE <= LongRun * STABLE
          /\ n * STABLE \in Nat /\ LongRun * STABLE \in Nat /\ LongRun * STABLE < Cap
      BY <2>0, <2>2, Spans, LongRunType DEF Undisturbed
    <3>2. Outage(samples, n, b)
      <4>1. ~Between
        BY <1>0 DEF Between
      <4> QED BY <1>0, <1>3, <1>13, <4>1 DEF RunInv
    <3> HIDE DEF b
    <3>3. b + d < Cap /\ b + d <= n * STABLE
      BY <3>1, <1>0
    <3>4. Outage(OlderSamples(samples, d), n, b + d)
      BY <1>0, <1>10, <2>0, <3>1, <3>2, <3>3, OutageOlder
    <3>5. samples' \subseteq Samples /\ Outage(samples', n, b + d)
      BY <1>2, <1>10, <3>4, OlderSamplesType
    <3>6. b + d \in Int /\ n * STABLE \in Int
      BY <3>1, <1>0
    <3> QED BY <3>3, <3>5, <3>6, OutageWeaker
  <2> QED BY <2>0, <2>1, <2>2
<1>14. Between'
  BY <1>1 DEF Between
<1>15. \A n \in 0..LongRun : n <= row'.fails => Outage(samples', n, n * STABLE)
  BY <1>13
<1>16. RunInv'
  BY <1>11, <1>12, <1>14, <1>15 DEF RunInv
<1> QED BY <1>8, <1>9, <1>16 DEF EpisodeInv

\* The samples and the counter stay as they are.
LEMMA RunKept ==
    ASSUME RunInv, samples' = samples, row'.fails = row.fails, Between' <=> Between
    PROVE  RunInv'
BY DEF RunInv

\* _send_alerts: the filters, the delivery, the marks.
LEMMA SendEpisode ==
    ASSUME Undisturbed, IncidentInv, EpisodeInv, Send(Scheduler)
    PROVE  EpisodeInv'
<1>0. /\ TypeOK /\ AloneInv /\ RunInv /\ TalkInv /\ Scheduler \in Actor
      /\ ProcessOf(Scheduler) = "scheduler" /\ "scheduler" \in Processes
      /\ hush \in {"no", "held"}
  BY AloneFacts DEF IncidentInv, EpisodeInv, Actor, Processes, Undisturbed, TypeOK
<1>1. /\ retry["scheduler"].kind = "none" /\ queue[Scheduler] = Batch /\ Batch.again = "none"
      /\ chat \in Chats /\ row.told \in BOOLEAN /\ row.flaky \in BOOLEAN /\ Batch \in Queues
  BY <1>0 DEF AloneInv, NotParked, Batch, TypeOK, Rows
<1>2. CASE Compose(Scheduler)
  <2> DEFINE texts == Passes(Batch.kinds)
  <2>1. /\ Stage = "send" /\ retry' = retry /\ row' = row /\ samples' = samples
        /\ notified' = notified /\ open' = open /\ chat' = chat /\ now'[Scheduler] = 0
    BY <1>0, <1>1, <1>2 DEF Compose, db, Stage, TypeOK, AloneInv
  <2>2. /\ Stage' = IF texts = {} THEN "idle" ELSE "dispatch"
        /\ Batch'.kinds = texts /\ Batch'.again = "none"
        /\ Batch'.inc = IF "bad" \in texts THEN Batch.inc ELSE NoInc
    <3>1. hush # "muted"
      BY <1>0
    <3> QED BY <1>0, <1>1, <1>2, <3>1 DEF Compose, Stage, Batch, TypeOK, NoQueue
  <2> HIDE DEF texts
  <2>3. AloneInv'
    BY <1>0, <2>1, <2>2 DEF AloneInv, Between
  <2>4. RunInv'
    BY <1>0, <2>1, <2>2, RunKept DEF Between
  <2>5. CASE AlarmBatch /\ Heard
    <3>1. texts = {} \/ texts = Batch.kinds
      BY <1>0, <2>5 DEF texts, Passes, AlarmBatch
    <3>2. Heard'
      BY <2>1, <2>5, HeardKept
    <3>3. ASSUME texts = {} PROVE TalkInv'
      BY <2>2, <3>2, <3>3 DEF TalkInv
    <3>4. ASSUME texts # {} PROVE TalkInv'
      <4>1. AlarmBatch'
        BY <2>1, <2>2, <2>5, <3>1, <3>4 DEF AlarmBatch
      <4> QED BY <2>2, <3>2, <3>4, <4>1 DEF TalkInv
    <3> QED BY <2>3, <2>4, <3>3, <3>4 DEF EpisodeInv
  <2>6. CASE ClearBatch /\ chat.clear = 0 /\ chat.down <= 1 /\ chat.flaky <= 1
    <3>1. texts = Batch.kinds /\ texts # {}
      BY <1>0, <2>6 DEF texts, Passes, ClearBatch, Alarms
    <3>2. ClearBatch'
      BY <2>1, <2>2, <2>6, <3>1 DEF ClearBatch
    <3>3. TalkInv'
      BY <2>1, <2>2, <2>6, <3>1, <3>2 DEF TalkInv
    <3> QED BY <2>3, <2>4, <3>3 DEF EpisodeInv
  <2>7. (AlarmBatch /\ Heard) \/ (ClearBatch /\ chat.clear = 0 /\ chat.down <= 1 /\ chat.flaky <= 1)
    BY <1>0, <2>1 DEF TalkInv
  <2> QED BY <2>5, <2>6, <2>7
<1>3. CASE DispatchOk(Scheduler)
  <2>1. /\ Stage = "dispatch" /\ Stage' = "mark" /\ retry' = retry /\ row' = row
        /\ samples' = samples /\ notified' = notified /\ open' = open /\ Batch' = Batch
        /\ now' = now /\ chat' = Say(chat, Batch.kinds, "none")
    <3>1. retry' = retry
      BY <1>0, <1>3 DEF DispatchOk, AloneInv, TypeOK
    <3> QED BY <1>0, <1>1, <1>3, <3>1 DEF DispatchOk, db, Stage, Batch, TypeOK
  <2>2. AloneInv'
    BY <1>0, <2>1 DEF AloneInv, Between
  <2>3. RunInv'
    BY <1>0, <2>1, RunKept DEF Between
  <2>4. CASE AlarmBatch /\ Heard
    <3>1. ASSUME Batch.kinds = {"bad"} PROVE TalkInv'
      <4>1. chat' = [down |-> Up(chat.down), flaky |-> chat.flaky, clear |-> 0]
        BY <2>1, <3>1 DEF Say, SayDown, Recoveries
      <4>2. NothingOpen \/ FlakyOpen
        BY <2>4 DEF Heard, AlarmBatch, Level
      <4>3. chat.down = 0 /\ chat.flaky <= 1
        BY <2>4, <4>2 DEF NothingOpen, FlakyOpen, AlarmBatch
      <4>4. Up(0) = 1
        BY DEF Up, Min2
      <4>5. row.told <=> Level(row.flap) = "flaky"
        BY <2>4 DEF Heard, AlarmBatch, NothingOpen, FlakyOpen, Level
      <4>6. Level(row.flap) = "flaky" => row.flaky
        BY <2>4 DEF Heard, FlakyOpen
      <4>7. AlarmBatch'
        BY <2>1, <2>4 DEF AlarmBatch
      <4>8. AlarmSaid'
        BY <2>1, <3>1, <4>1, <4>3, <4>4, <4>5, <4>6, <4>7 DEF AlarmSaid
      <4> QED BY <2>1, <4>8 DEF TalkInv
    <3>2. ASSUME "flaky" \in Batch.kinds PROVE TalkInv'
      <4>1. chat = [down |-> 0, flaky |-> 0, clear |-> 1] /\ Level(row.flap) = "none" /\ ~row.told
        BY <2>4, <3>2 DEF AlarmBatch, Heard, NothingOpen
      <4>2. Up(0) = 1
        BY DEF Up, Min2
      <4>3. chat' = [down |-> IF "bad" \in Batch.kinds THEN 1 ELSE 0, flaky |-> 1, clear |-> 0]
        <5>1. Batch.kinds \cap Recoveries = {}
          BY <2>4 DEF AlarmBatch, Alarms, Recoveries
        <5> QED BY <2>1, <3>2, <4>1, <4>2, <5>1 DEF Say, SayDown, SayFlaky
      <4>4. AlarmBatch'
        BY <2>1, <2>4 DEF AlarmBatch
      <4>5. AlarmSaid'
        BY <2>1, <4>1, <4>3, <4>4 DEF AlarmSaid
      <4> QED BY <2>1, <4>5 DEF TalkInv
    <3>3. Batch.kinds = {"bad"} \/ "flaky" \in Batch.kinds
      BY <2>4 DEF AlarmBatch, Alarms
    <3>4. TalkInv'
      BY <3>1, <3>2, <3>3
    <3> QED BY <2>2, <2>3, <3>4 DEF EpisodeInv
  <2>5. CASE ClearBatch /\ chat.clear = 0
    <3>1. Up(0) = 1
      BY DEF Up, Min2
    <3>2. chat' = [down |-> 0, flaky |-> 0, clear |-> 1]
      BY <2>1, <2>5, <3>1 DEF ClearBatch, Say, SayClear, Recoveries
    <3>3. ClearBatch'
      BY <2>1, <2>5 DEF ClearBatch
    <3>4. TalkInv'
      BY <2>1, <3>2, <3>3 DEF TalkInv
    <3> QED BY <2>2, <2>3, <3>4 DEF EpisodeInv
  <2>6. (AlarmBatch /\ Heard) \/ (ClearBatch /\ chat.clear = 0)
    BY <1>0, <2>1 DEF TalkInv
  <2> QED BY <2>4, <2>5, <2>6
<1>4. CASE DispatchFail(Scheduler)
  BY <1>0, <1>4 DEF DispatchFail, Undisturbed, TypeOK
<1>5. CASE Mark(Scheduler)
  <2>1. /\ Stage = "mark" /\ Stage' = "idle" /\ retry' = retry /\ samples' = samples
        /\ open' = open /\ chat' = chat /\ now'[Scheduler] = 0 /\ Batch' = NoQueue
        /\ row' = Flagged(Batch) /\ notified' = notified \cup ({Batch.inc} \cap open)
    BY <1>0, <1>1, <1>5 DEF Mark, Stage, Batch, TypeOK, Told
  <2>2. row \in Rows
    BY <1>0 DEF TypeOK
  <2>3. /\ row'.fails = row.fails /\ row'.flaky = row.flaky /\ row'.checked = row.checked
        /\ row'.flap = IF "flaky" \in Batch.kinds THEN Opened("flaky")
                       ELSE IF "bad" \in Batch.kinds THEN Opened("down") ELSE row.flap
        /\ row'.told = IF "flaky" \in Batch.kinds THEN TRUE
                       ELSE IF "flakyrec" \in Batch.kinds THEN FALSE ELSE row.told
    BY <2>1, <2>2 DEF Flagged, Rows
  <2>4. RunInv'
    BY <1>0, <2>1, <2>3, RunKept DEF Between
  <2>5. Level(Opened("flaky")) = "flaky" /\ Level(Opened("down")) = "down"
    BY DEF Level, Opened
  <2>6. "bad" \notin Batch.kinds => notified' = notified
    <3>1. "bad" \notin Batch.kinds => Batch.inc \notin open
      BY <1>0, MonitorConstants DEF AloneInv, TypeOK
    <3> QED BY <2>1, <3>1
  <2>7. ASSUME AlarmSaid
        PROVE  Heard' /\ (notified' # {} => row'.fails >= LongRun)
    <3>1. /\ AlarmBatch /\ chat.clear = 0 /\ chat.flaky <= 1 /\ notified = {}
          /\ row.told <=> Level(row.flap) = "flaky"
          /\ Level(row.flap) = "flaky" => row.flaky
          /\ chat.down = IF "bad" \in Batch.kinds THEN 1 ELSE 0
          /\ "flaky" \in Batch.kinds => chat.flaky = 1
      BY <2>7 DEF AlarmSaid, AlarmBatch
    <3>2. "bad" \in Batch.kinds => notified' # {} /\ row'.fails >= LongRun
      BY <2>1, <2>3, <3>1 DEF AlarmBatch
    <3>3. "bad" \notin Batch.kinds => notified' = {}
      BY <2>6, <3>1
    <3>4. CASE "flaky" \in Batch.kinds
      <4>1. Level(row'.flap) = "flaky" /\ row'.told /\ row'.flaky
        BY <2>3, <2>5, <3>1, <3>4 DEF AlarmBatch
      <4>2. chat'.flaky = 1 /\ chat'.down <= 1 /\ chat'.clear = 0
        BY <2>1, <3>1, <3>4
      <4>3. notified' = {} => chat'.down = 0
        BY <2>1, <3>1, <3>2
      <4>4. FlakyOpen'
        BY <4>1, <4>2, <4>3 DEF FlakyOpen
      <4> QED BY <3>2, <3>3, <4>1, <4>4 DEF Heard
    <3>5. CASE "flaky" \notin Batch.kinds
      <4>1. Batch.kinds = {"bad"}
        BY <3>1, <3>5 DEF AlarmBatch, Alarms
      <4>2. Level(row'.flap) = "down" /\ row'.told = row.told /\ row'.flaky = row.flaky
        BY <2>3, <2>5, <4>1
      <4>3. row.told <=> row.flaky
        <5>1. Level(row.flap) \in {"none", "flaky"}
          BY <3>1 DEF AlarmBatch, Level
        <5>2. Level(row.flap) = "none" => ~row.flaky
          BY <3>1, <3>5 DEF AlarmBatch
        <5>3. CASE Level(row.flap) = "none"
          BY <3>1, <5>2, <5>3
        <5>4. CASE Level(row.flap) = "flaky"
          BY <3>1, <5>4
        <5> QED BY <5>1, <5>3, <5>4
      <4>4. /\ chat'.down + chat'.flaky > 0 /\ chat'.down <= 1
            /\ chat'.flaky <= 1 /\ chat'.clear = 0
        BY <1>1, <2>1, <3>1, <4>1 DEF Chats
      <4>5. DownOpen'
        BY <4>2, <4>3, <4>4 DEF DownOpen
      <4> QED BY <3>2, <4>1, <4>2, <4>5 DEF Heard
    <3> QED BY <3>4, <3>5
  <2>8. ASSUME ClearBatch, chat = [down |-> 0, flaky |-> 0, clear |-> 1]
        PROVE  Heard' /\ notified' = {}
    <3>1. "bad" \notin Batch.kinds /\ "flaky" \notin Batch.kinds /\ notified = {}
      BY <2>8 DEF ClearBatch
    <3>2. Level(row'.flap) = "none" /\ notified' = {}
      BY <2>3, <2>6, <2>8, <3>1 DEF ClearBatch
    <3>3. ~row'.told
      BY <2>3, <2>8, <3>1 DEF ClearBatch
    <3>4. NothingOpen'
      BY <2>1, <2>8, <3>2, <3>3 DEF NothingOpen
    <3> QED BY <3>2, <3>4 DEF Heard
  <2>9. Heard' /\ (notified' # {} => row'.fails >= LongRun)
    BY <1>0, <2>1, <2>7, <2>8 DEF TalkInv
  <2>10. TalkInv'
    BY <2>1, <2>9 DEF TalkInv
  <2>11. AloneInv'
    BY <1>0, <2>1, <2>3, <2>9 DEF AloneInv, Between, NoQueue
  <2> QED BY <2>4, <2>10, <2>11 DEF EpisodeInv
<1> QED BY <1>2, <1>3, <1>4, <1>5 DEF Send

\* Steps in which neither the row nor the chat takes part.
LEMMA QuietEpisode ==
    ASSUME EpisodeInv, UNCHANGED <<row, samples, notified, open, chat, queue, retry, now>>,
           Between' <=> Between, Stage' = Stage \/ (Between /\ Stage' \in {"loaded", "locked"}),
           Stage' \in {"loaded", "locked"} => snap'[Scheduler] = row
    PROVE  EpisodeInv'
<1>1. Batch' = Batch
  BY DEF Batch
<1>2. AloneInv'
  BY <1>1 DEF EpisodeInv, AloneInv, Between
<1>3. RunInv'
  BY RunKept DEF EpisodeInv
<1>4. TalkInv'
  <2>1. CASE Stage' = Stage
    BY <1>1, <2>1 DEF EpisodeInv, TalkInv, Heard, NothingOpen, DownOpen, FlakyOpen,
                      AlarmBatch, AlarmSaid, ClearBatch
  <2>2. CASE Between /\ Stage' \in {"loaded", "locked"}
    <3>1. Heard
      BY <2>2 DEF EpisodeInv, TalkInv, Between
    <3>2. Heard'
      BY <3>1, HeardKept
    <3> QED BY <2>2, <3>2 DEF TalkInv
  <2> QED BY <2>1, <2>2
<1> QED BY <1>2, <1>3, <1>4 DEF EpisodeInv

LEMMA NextEpisode ==
    ASSUME Undisturbed, IncidentInv, EpisodeInv, [Next]_vars
    PROVE  EpisodeInv'
<1>0. /\ Actor = {Scheduler} /\ Manual = {} /\ Recheck = {} /\ MaxCrashes = 0 /\ TypeOK
      /\ AloneInv
  BY AloneFacts DEF Undisturbed, IncidentInv, EpisodeInv
<1>1. ASSUME NEW d \in Gaps, SchedTick(d) PROVE EpisodeInv'
  BY <1>1, TickEpisode
<1>2. CASE SchedLoad
  <2>1. /\ UNCHANGED <<row, samples, notified, open, chat, queue, retry, now>>
        /\ Stage = "probed" /\ Stage' = "loaded" /\ snap'[Scheduler] = row
    BY <1>0, <1>2 DEF SchedLoad, db, Stage, TypeOK
  <2> QED BY <2>1, QuietEpisode DEF Between
<1>3. CASE LockRow(Scheduler)
  <2>1. /\ UNCHANGED <<row, samples, notified, open, chat, queue, retry, now>>
        /\ Stage = "loaded" /\ Stage' = "locked" /\ snap' = snap
    BY <1>0, <1>3 DEF LockRow, db, Stage, TypeOK
  <2>2. snap[Scheduler] = row
    BY <1>0, <2>1 DEF AloneInv
  <2> QED BY <2>1, <2>2, QuietEpisode DEF Between
<1>4. CASE Store(Scheduler)
  <2>1. out[Scheduler] = "up" \/ out[Scheduler] = "down"
    BY <1>0, AloneFacts DEF TypeOK
  <2>2. TalkInv'
    BY <1>4, <2>1, StoreUpTalk, StoreDownTalk
  <2>3. AloneInv' /\ RunInv'
    BY <1>4, StoreAlone, StoreRun DEF EpisodeInv
  <2> QED BY <2>2, <2>3 DEF EpisodeInv
<1>5. CASE OthersSend(Scheduler)
  <2>1. ProcessOf(Scheduler) \in Processes
    BY DEF ProcessOf, Processes
  <2> QED BY <1>0, <1>5, <2>1 DEF OthersSend, AloneInv, NotParked
<1>6. CASE Send(Scheduler)
  BY <1>6, SendEpisode
<1>7. ASSUME NEW p \in Processes, Crash(p) PROVE EpisodeInv'
  BY <1>0, <1>7 DEF Crash, TypeOK
<1>8. CASE UNCHANGED <<db, lock, local, retry, chat, fails, crashes>>
  <2>1. /\ UNCHANGED <<row, samples, notified, open, chat, queue, retry, now>>
        /\ Stage' = Stage /\ snap' = snap
    BY <1>8 DEF db, local, Stage
  <2> QED BY <1>0, <2>1, QuietEpisode DEF Between, AloneInv
<1>9. ASSUME NEW h \in Hush \cup {"no"}, SetHush(h) PROVE EpisodeInv'
  BY <1>8, <1>9 DEF SetHush
<1>10. ASSUME NEW st \in Fates, Settle(st) PROVE EpisodeInv'
  BY <1>8, <1>10 DEF Settle
<1>11. CASE UNCHANGED vars
  BY <1>8, <1>11 DEF vars
<1> QED BY <1>0, <1>1, <1>2, <1>3, <1>4, <1>5, <1>6, <1>7, <1>9, <1>10, <1>11 DEF Next

LEMMA InitEpisode == ASSUME Undisturbed, Init PROVE EpisodeInv
<1>0. Scheduler \in Actor /\ STABLE \in Nat
  BY LongRunType DEF Actor
<1>1. Stage = "idle" /\ ~Between /\ Batch = NoQueue
  BY <1>0 DEF Init, Stage, Between, Batch
<1>2. AloneInv
  BY <1>0, <1>1 DEF Init, AloneInv, NoQueue, NewRow, Between
<1>3. TalkInv
  <2>1. Level(row.flap) = "none"
    BY DEF Init, NewRow, NoFlap, Level
  <2>2. NothingOpen
    BY DEF Init, NewRow, NothingOpen
  <2> QED BY <1>1, <2>1, <2>2 DEF TalkInv, Heard
<1>4. RunInv
  <2>1. IsFiniteSet(samples) /\ samples = {} /\ row.fails = 0
    BY FS_EmptySet DEF Init, NewRow
  <2>2. ASSUME NEW n \in 0..LongRun, n <= 0 PROVE Outage(samples, n, (n - 1) * STABLE)
    <3>1. n = 0
      BY <2>2, LongRunType
    <3> QED BY <2>1, <3>1, OutageZero
  <2> QED BY <1>1, <2>1, <2>2 DEF RunInv
<1> QED BY <1>2, <1>3, <1>4 DEF EpisodeInv

\* What the reader has heard never exceeds one alarm of each level and one
\* all-clear, and an announced incident is an alarm in the chat.
LEMMA EpisodeWords ==
    ASSUME TypeOK, EpisodeInv
    PROVE  EpisodeSpeaksOnce /\ NotifiedWasTold
<1>0. chat \in Chats /\ Level(row.flap) \in {"none", "down", "flaky"}
  BY DEF TypeOK, Level
<1>1. CASE Heard
  <2>1. NothingOpen \/ DownOpen \/ FlakyOpen
    BY <1>0, <1>1 DEF Heard
  <2>2. CASE NothingOpen
    BY <2>2 DEF NothingOpen, EpisodeSpeaksOnce, NotifiedWasTold
  <2>3. CASE DownOpen
    BY <1>0, <2>3 DEF DownOpen, Chats, EpisodeSpeaksOnce, NotifiedWasTold
  <2>4. CASE FlakyOpen
    BY <1>0, <2>4 DEF FlakyOpen, Chats, EpisodeSpeaksOnce, NotifiedWasTold
  <2> QED BY <2>1, <2>2, <2>3, <2>4
<1>2. CASE ClearBatch /\ chat.clear <= 1 /\ chat.down <= 1 /\ chat.flaky <= 1
  BY <1>2 DEF ClearBatch, EpisodeSpeaksOnce, NotifiedWasTold
<1>3. CASE AlarmSaid
  BY <1>3 DEF AlarmSaid, AlarmBatch, EpisodeSpeaksOnce, NotifiedWasTold
<1>4. Heard \/ AlarmSaid \/ (ClearBatch /\ chat.clear <= 1 /\ chat.down <= 1 /\ chat.flaky <= 1)
  BY DEF EpisodeInv, TalkInv
<1> QED BY <1>1, <1>2, <1>3, <1>4

\* One alarm of each level and one all-clear for a whole episode, however often the
\* site goes up and down: record_outcome and _flaky_step (site_flap.py) with any
\* thresholds, windows and gaps, when the scheduler alone records results "up" and
\* "down" and the channel takes what it is given.
THEOREM EpisodeIsToldOnce ==
    ASSUME Undisturbed
    PROVE  Spec => []EpisodeSpeaksOnce
<1>1. Init => EpisodeInv
  BY InitEpisode
<1>2. IncidentInv /\ EpisodeInv /\ [Next]_vars => EpisodeInv'
  BY NextEpisode
<1>3. IncidentInv /\ EpisodeInv => EpisodeSpeaksOnce
  BY EpisodeWords DEF IncidentInv
<1> QED BY <1>1, <1>2, <1>3, InitIncident, NextIncident, PTL DEF Spec

\* The silent branch of record_outcome ("the same episode" marks an incident as told
\* without a word) never hides an outage from a reader who was told that all is
\* well: an announced incident has an alarm as the last word in the chat.
THEOREM AnnouncedIsHeard ==
    ASSUME Undisturbed
    PROVE  Spec => []NotifiedWasTold
<1>1. Init => EpisodeInv
  BY InitEpisode
<1>2. IncidentInv /\ EpisodeInv /\ [Next]_vars => EpisodeInv'
  BY NextEpisode
<1>3. IncidentInv /\ EpisodeInv => NotifiedWasTold
  BY EpisodeWords DEF IncidentInv
<1> QED BY <1>1, <1>2, <1>3, InitIncident, NextIncident, PTL DEF Spec

-----------------------------------------------------------------------------
(* No all-clear on a failure.                                              *)
(*                                                                         *)
(* The all-clear of an incident and of an episode belong to a success; the  *)
(* one of "answers stably again" needs that a failing check never ends the *)
(* state of a site that answers every other time.  The verdict that began  *)
(* it was taken on the samples after the last closed episode, the verdict   *)
(* that could end it is taken on all: the two agree because an episode is  *)
(* closed by a good sample.                                                *)

\* Checks come at most g apart, and the bounds of the model lie beyond what
\* flaky.is_flaky reads: more samples are kept than it looks at, and no kept sample
\* reaches the largest age.
Roomy(g) ==
    /\ \A d \in Gaps : d <= g
    /\ WINDOW + LongRun <= Keep /\ Keep * g < Cap

\* No two samples of one moment, and each as old as the samples after it say.
SpanInv(g) ==
    /\ History(samples)
    /\ \A s \in samples :
          LET after == Cardinality(Newer(samples, s))
          IN  after < Keep /\ s.age <= IF Between THEN (after + 1) * g ELSE after * g

\* An episode was closed by a good sample, or before all samples that are left.
Cut(S, flap) ==
    flap.lvl = "closed" => \/ \A s \in S : s.age < flap.age
                           \/ \E u \in S : u.age = flap.age /\ u.st # "down"

ClearKinds == Recoveries \cup {"flakyrec"}

ClearInv(g) ==
    /\ SpanInv(g)
    /\ Cut(samples, row.flap) /\ (Between /\ row.flap.lvl = "closed" => row.flap.age > 0)
    /\ row.flaky => Unsteady(samples, LongRun)
    /\ Batch.kinds \cap ClearKinds # {} => row.last = "up"

\* What _flaky_step reads is the newest part of the samples after the last closed
\* episode, the new one included.
LEMMA FlakyHistPiece ==
    ASSUME History(samples), \A s \in samples : s.age > 0,
           NEW flap, flap.age \in Nat, Cut(samples, flap), NEW st
    PROVE  LET x == [age |-> 0, st |-> st]
               T == {s \in samples : flap.lvl = "closed" => s.age < flap.age}
               Q == T \cup {x}
               S == samples \cup {x}
           IN  /\ History(S) /\ Piece(Q, S)
               /\ FlakyHist(flap, st, 0) = Latest(Q, WINDOW + LongRun + 1)
               /\ Q = S \/ \E u \in S \ Q : u.st # "down" /\ \A t \in S \ Q : u.age <= t.age
<1> DEFINE x == [age |-> 0, st |-> st]
           T == {s \in samples : flap.lvl = "closed" => s.age < flap.age}
           Q == T \cup {x}
           S == samples \cup {x}
<1>0. /\ x.age = 0 /\ WINDOW + LongRun \in Nat /\ Dated(samples)
      /\ \A s \in samples : s.age \in Nat
  BY FlapConstants, LongRunType DEF History, Dated
<1>1. History(S)
  <2> HIDE DEF x
  <2> QED BY <1>0, HistoryAdd
<1>2. Piece(Q, S)
  <2>1. ASSUME NEW s \in T, NEW t \in samples, t.age <= s.age PROVE t \in T
    BY <1>0, <2>1
  <2>2. ASSUME NEW t \in samples, t.age <= x.age PROVE FALSE
    BY <1>0, <2>2
  <2> HIDE DEF x
  <2> QED BY <2>1, <2>2 DEF Piece
<1>3. FlakyHist(flap, st, 0) = Latest(Q, WINDOW + LongRun + 1)
  <2>1. {s \in samples : s.age > 0 /\ (flap.lvl = "closed" => s.age < flap.age)} = T
    OBVIOUS
  <2>2. FlakyHist(flap, st, 0) = Latest(T, WINDOW + LongRun) \cup {x}
    BY <2>1 DEF FlakyHist
  <2>3. Dated(T) /\ \A s \in T : s.age > 0
    <3>1. T \in SUBSET samples
      OBVIOUS
    <3> QED BY <1>0, <3>1, FS_Subset DEF Dated
  <2> DEFINE n == WINDOW + LongRun
  <2>4. n \in Nat /\ FlakyHist(flap, st, 0) = Latest(T, n) \cup {x}
    BY <1>0, <2>2
  <2> HIDE DEF T, x, n
  <2>5. Latest(T \cup {x}, n + 1) = Latest(T, n) \cup {x}
    BY <1>0, <2>3, <2>4, LatestAdd
  <2> QED BY <2>4, <2>5 DEF n
<1>4. Q = S \/ \E u \in S \ Q : u.st # "down" /\ \A t \in S \ Q : u.age <= t.age
  <2>1. CASE flap.lvl = "closed" => \A s \in samples : s.age < flap.age
    BY <2>1
  <2>2. CASE flap.lvl = "closed" /\ \E u \in samples : u.age = flap.age /\ u.st # "down"
    <3>1. PICK u \in samples : u.age = flap.age /\ u.st # "down"
      BY <2>2
    <3>2. u \in S \ Q
      BY <1>0, <2>2, <3>1
    <3>3. ASSUME NEW t \in S \ Q PROVE u.age <= t.age
      <4>1. t \in samples /\ ~(t.age < flap.age)
        BY <2>2
      <4> QED BY <1>0, <3>1, <4>1
    <3> HIDE DEF Q, S
    <3> QED BY <3>1, <3>2, <3>3
  <2> QED BY <2>1, <2>2 DEF Cut
<1> QED BY <1>1, <1>2, <1>3, <1>4

\* A verdict "answers every other time" is one of all samples.
LEMMA VerdictKept ==
    ASSUME History(samples), \A s \in samples : s.age > 0,
           NEW flap, flap.age \in Nat, Cut(samples, flap), NEW st, NEW was \in BOOLEAN,
           IsFlaky(FlakyHist(flap, st, 0), LongRun, was)
    PROVE  Unsteady(samples \cup {[age |-> 0, st |-> st]}, LongRun)
<1> DEFINE x == [age |-> 0, st |-> st]
           T == {s \in samples : flap.lvl = "closed" => s.age < flap.age}
           Q == T \cup {x}
           S == samples \cup {x}
           n == WINDOW + LongRun + 1
<1>1. /\ History(S) /\ Piece(Q, S) /\ FlakyHist(flap, st, 0) = Latest(Q, n)
      /\ Q = S \/ \E u \in S \ Q : u.st # "down" /\ \A t \in S \ Q : u.age <= t.age
  BY FlakyHistPiece
<1>2. n \in Nat /\ n >= WINDOW + LongRun /\ LongRun \in Nat
  BY FlapConstants, LongRunType
<1> HIDE DEF Q, S, n
<1>3. History(Q) /\ Dated(Q)
  BY <1>1, PieceFacts
<1>4. History(Latest(Q, n))
  <2>1. Piece(Latest(Q, n), Q)
    BY <1>2, <1>3, LatestPiece
  <2> QED BY <1>3, <2>1, PieceFacts
<1>5. Unsteady(Latest(Q, n), LongRun)
  BY <1>1, <1>4, FlakyIsUnsteady
<1>6. Unsteady(Q, LongRun)
  BY <1>2, <1>3, <1>5, LatestUnsteady
<1>7. Unsteady(S, LongRun)
  BY <1>1, <1>2, <1>6, CutUnsteady
<1> QED BY <1>7 DEF S

\* A failure of a site that answers every other time leaves it so.
LEMMA FailureLeavesFlaky ==
    ASSUME History(samples), \A s \in samples : s.age > 0, Unsteady(samples, LongRun),
           NEW flap, flap.age \in Nat, flap.lvl # "closed"
    PROVE  IsFlaky(FlakyHist(flap, "down", 0), LongRun, TRUE)
<1> DEFINE x == [age |-> 0, st |-> "down"]
           S == samples \cup {x}
           n == WINDOW + LongRun + 1
<1>0. x.age = 0 /\ x.st = "down"
  OBVIOUS
<1>1. History(S) /\ FlakyHist(flap, "down", 0) = Latest(S, n)
  <2>1. Cut(samples, flap)
    BY DEF Cut
  <2>2. {s \in samples : flap.lvl = "closed" => s.age < flap.age} = samples
    OBVIOUS
  <2> QED BY <2>1, <2>2, FlakyHistPiece
<1>2. n \in Nat /\ n >= WINDOW + LongRun /\ LongRun \in Nat \ {0}
  BY FlapConstants, LongRunType
<1>3. IsFlaky(S, LongRun, TRUE)
  <2> HIDE DEF x
  <2> QED BY <1>0, <1>2, FailureStaysFlaky
<1> HIDE DEF S, n
<1>l. LongRun \in Nat
  BY <1>2
<1>4. IsFlaky(Latest(S, n), LongRun, TRUE) = IsFlaky(S, LongRun, TRUE)
  <2>1. History(S) /\ n \in Nat /\ n >= WINDOW + LongRun
    BY <1>1, <1>2
  <2> HIDE DEF x
  <2> QED BY <1>l, <2>1, LimitIsEnough, ZenonT(30)
<1> QED BY <1>1, <1>3, <1>4

LEMMA GrowSpan ==
    ASSUME NEW g \in Nat, NEW c \in Nat, c < Keep
    PROVE  /\ c * g \in Nat /\ (c + 1) * g = c * g + g /\ (c + 1) * g \in Nat
           /\ Keep * g \in Nat /\ (c + 1) * g <= Keep * g
<1>1. Keep \in Nat
  BY MonitorConstants
<1>2. c * g \in Nat /\ (c + 1) * g = c * g + g /\ Keep * g \in Nat
  BY <1>1
<1>3. Keep * g = (c + 1) * g + (Keep - (c + 1)) * g /\ (Keep - (c + 1)) * g \in Nat
  BY <1>1
<1> QED BY <1>2, <1>3

\* A new sample, and the oldest one gives way.
LEMMA StoreSpan ==
    ASSUME NEW g \in Nat, SpanInv(g), Between, \A s \in samples : s.age > 0, ~Between',
           NEW x, x.age = 0, samples' = Latest(samples \cup {x}, Keep)
    PROVE  History(samples \cup {x}) /\ SpanInv(g)'
<1> DEFINE S == samples \cup {x}
<1>0. Keep \in Nat /\ History(samples) /\ Dated(samples) /\ IsFiniteSet(samples)
  BY MonitorConstants DEF SpanInv, History, Dated
<1>1. History(S)
  BY <1>0, HistoryAdd
<1>2. Dated(S) /\ Piece(samples', S) /\ samples' = Latest(S, Keep)
  <2> HIDE DEF S
  <2>1. Dated(S)
    BY <1>1 DEF History
  <2> QED BY <1>0, <2>1, LatestPiece DEF S
<1>3. History(samples')
  <2> HIDE DEF S
  <2> QED BY <1>1, <1>2, PieceFacts
<1>4. ASSUME NEW s \in samples'
      PROVE  /\ Cardinality(Newer(samples', s)) < Keep
             /\ s.age <= Cardinality(Newer(samples', s)) * g
  <2>1. Newer(samples', s) = Newer(S, s) /\ Cardinality(Newer(S, s)) < Keep
    <3> HIDE DEF S
    <3>1. Newer(Latest(S, Keep), s) = Newer(S, s)
      BY <1>0, <1>2, LatestNewer
    <3> QED BY <1>2, <3>1 DEF Latest
  <2>2. CASE s = x
    <3>1. Cardinality(Newer(S, s)) = 0 /\ 0 * g = 0
      BY <1>0, <2>2, NewerAdd
    <3> QED BY <2>1, <2>2, <3>1
  <2>3. CASE s \in samples
    <3> DEFINE c == Cardinality(Newer(samples, s))
    <3>1. c \in Nat /\ s.age <= (c + 1) * g
      BY <1>0, <2>3, NewerFinite DEF SpanInv
    <3>2. Cardinality(Newer(S, s)) = c + 1
      BY <1>0, <2>3, NewerAdd
    <3> HIDE DEF c, S
    <3> QED BY <2>1, <3>1, <3>2
  <2> QED BY <2>2, <2>3 DEF Latest
<1>5. SpanInv(g)'
  BY <1>3, <1>4 DEF SpanInv
<1> QED BY <1>1, <1>5

\* A tick: no age is cut off.
LEMMA TickSpan ==
    ASSUME NEW g \in Nat, Roomy(g), SpanInv(g), ~Between, Between', NEW d \in Gaps,
           samples' = OlderSamples(samples, d)
    PROVE  /\ samples' = Aged(samples, d) /\ SpanInv(g)'
           /\ \A s \in samples : s.age + d < Cap
<1>0. /\ d \in Nat /\ d <= g /\ Cap \in Nat /\ Keep * g < Cap
      /\ History(samples) /\ IsFiniteSet(samples) /\ \A s \in samples : s.age \in Nat
  BY MonitorConstants DEF Roomy, SpanInv, History, Dated
<1>1. ASSUME NEW s \in samples
      PROVE  LET c == Cardinality(Newer(samples, s))
             IN  c \in Nat /\ c < Keep /\ s.age + d <= (c + 1) * g /\ s.age + d < Cap
  <2> DEFINE c == Cardinality(Newer(samples, s))
  <2>1. c \in Nat /\ c < Keep /\ s.age <= c * g /\ s.age \in Nat
    BY <1>0, NewerFinite DEF SpanInv
  <2> HIDE DEF c
  <2>2. /\ c * g \in Nat /\ (c + 1) * g = c * g + g /\ (c + 1) * g \in Nat
        /\ Keep * g \in Nat /\ (c + 1) * g <= Keep * g
    BY <2>1, GrowSpan
  <2>3. s.age + d <= (c + 1) * g
    BY <1>0, <2>1, <2>2
  <2>4. s.age + d < Cap
    BY <1>0, <2>1, <2>2, <2>3
  <2> QED BY <2>1, <2>3, <2>4 DEF c
<1>2. samples' = Aged(samples, d)
  <2>1. \A s \in samples : Older(s.age, d) = s.age + d
    BY <1>0, <1>1 DEF Older, Min2
  <2> QED BY <2>1 DEF OlderSamples, Aged
<1>3. /\ History(samples')
      /\ \A s \in samples : Cardinality(Newer(samples', [age |-> s.age + d, st |-> s.st]))
                              = Cardinality(Newer(samples, s))
  <2>1. LongRun \in Nat
    BY LongRunType
  <2> QED BY <1>0, <1>2, <2>1, AgedUnsteady
<1>4. ASSUME NEW t \in samples'
      PROVE  /\ Cardinality(Newer(samples', t)) < Keep
             /\ t.age <= (Cardinality(Newer(samples', t)) + 1) * g
  <2>1. PICK s \in samples : t = [age |-> s.age + d, st |-> s.st]
    BY <1>2 DEF Aged
  <2>2. t.age = s.age + d /\ Cardinality(Newer(samples', t)) = Cardinality(Newer(samples, s))
    BY <1>3, <2>1
  <2> QED BY <1>1, <2>2
<1>5. SpanInv(g)'
  BY <1>3, <1>4 DEF SpanInv
<1> QED BY <1>1, <1>2, <1>5

\* A closed episode stays behind the samples that are kept.
LEMMA CutKept ==
    ASSUME History(samples), NEW x, x.age = 0, \A s \in samples : s.age > 0,
           NEW flap, flap.age \in Nat, Cut(samples, flap), flap.lvl = "closed" => flap.age > 0,
           NEW n \in Nat
    PROVE  Cut(Latest(samples \cup {x}, n), flap)
<1> DEFINE S == samples \cup {x}
           K == Latest(S, n)
<1> SUFFICES ASSUME flap.lvl = "closed"
             PROVE  \/ \A s \in K : s.age < flap.age
                    \/ \E u \in K : u.age = flap.age /\ u.st # "down"
  BY DEF Cut
<1>1. History(S) /\ Dated(S)
  <2>1. History(S)
    BY HistoryAdd
  <2> QED BY <2>1 DEF History
<1>2. Piece(K, S) /\ K \subseteq S
  <2> HIDE DEF S
  <2> QED BY <1>1, LatestPiece DEF Piece
<1>3. CASE \A s \in samples : s.age < flap.age
  <2>1. \A s \in S : s.age < flap.age
    BY <1>3
  <2> HIDE DEF K, S
  <2> QED BY <1>2, <2>1
<1>4. CASE \E u \in samples : u.age = flap.age /\ u.st # "down"
  <2>1. PICK u \in samples : u.age = flap.age /\ u.st # "down"
    BY <1>4
  <2>2. u \in S
    OBVIOUS
  <2> HIDE DEF K, S
  <2>3. CASE u \in K
    BY <2>1, <2>3
  <2>4. CASE u \notin K
    <3>1. ASSUME NEW s \in K PROVE s.age < u.age
      BY <1>1, <1>2, <2>2, <2>4, PieceOlder
    <3> QED BY <2>1, <3>1
  <2> QED BY <2>3, <2>4
<1> QED BY <1>3, <1>4 DEF Cut

\* A failing check of the scheduler says no all-clear and closes no episode.
LEMMA FailureClearsNothing ==
    ASSUME Undisturbed, TypeOK, Heard, History(samples), \A s \in samples : s.age > 0,
           row.flaky => Unsteady(samples, LongRun), row.checked <= STABLE, NEW inc
    PROVE  LET j == Judged(row, "down", 0, FALSE, inc)
               f == FlakyStep(j.flap, j.flaky, j.told, "down", 0)
           IN  (j.kinds \cup f.kinds) \cap ClearKinds = {} /\ f.flap = row.flap
<1> DEFINE j == Judged(row, "down", 0, FALSE, inc)
           f == FlakyStep(j.flap, j.flaky, j.told, "down", 0)
<1>0. /\ row \in Rows /\ row.flap \in Flaps /\ row.flap.age \in Nat
      /\ row.flaky \in BOOLEAN /\ row.told \in BOOLEAN
  BY MonitorConstants DEF TypeOK, Rows, Flaps, Ages
<1>1. /\ j.flap = row.flap /\ j.flaky = row.flaky /\ j.told = row.told
      /\ j.kinds \subseteq {"bad"}
  BY <1>0, JudgedDown
<1>2. /\ f.flaky = IsFlaky(FlakyHist(j.flap, "down", 0), LongRun, j.flaky)
      /\ f.flaky \in BOOLEAN
      /\ Level(j.flap) = "none" =>
            /\ f.flap = j.flap /\ f.told = j.told
            /\ f.kinds = IF f.flaky = TRUE THEN IF j.told = TRUE THEN {} ELSE {"flaky"}
                         ELSE IF j.told = TRUE THEN {"flakyrec"} ELSE {}
      /\ Level(j.flap) = "down" => f.flap = j.flap /\ f.told = f.flaky /\ f.kinds = {}
      /\ Level(j.flap) = "flaky" /\ j.told = TRUE =>
            /\ f.flap = IF f.flaky = TRUE THEN j.flap ELSE Closed(0)
            /\ f.told = TRUE
            /\ f.kinds = IF f.flaky = TRUE THEN {} ELSE {"flakyrec"}
  <2>1. j.flap \in Flaps /\ j.flaky \in BOOLEAN /\ j.told \in BOOLEAN
    BY <1>0, <1>1
  <2> HIDE DEF j
  <2> QED BY <2>1, FlakyCases
<1> HIDE DEF j, f
<1>3. Level(row.flap) \in {"none", "down", "flaky"}
  BY DEF Level
<1>4. f.kinds \subseteq {"flaky"} /\ f.flap = row.flap
  <2>1. CASE Level(row.flap) = "none"
    <3>1. row.told = FALSE
      BY <1>0, <2>1 DEF Heard, NothingOpen
    <3> QED BY <1>1, <1>2, <2>1, <3>1
  <2>2. CASE Level(row.flap) = "down"
    BY <1>1, <1>2, <2>2
  <2>3. CASE Level(row.flap) = "flaky"
    <3>1. row.told = TRUE /\ row.flaky = TRUE
      BY <1>0, <2>3 DEF Heard, FlakyOpen
    <3>2. row.flap.lvl # "closed"
      BY <2>3 DEF Level
    <3>3. IsFlaky(FlakyHist(row.flap, "down", 0), LongRun, TRUE)
      BY <1>0, <3>1, <3>2, FailureLeavesFlaky
    <3>4. f.flaky = TRUE
      BY <1>1, <1>2, <3>1, <3>3, Zenon
    <3> QED BY <1>1, <1>2, <2>3, <3>1, <3>4
  <2> QED BY <1>3, <2>1, <2>2, <2>3
<1>5. (j.kinds \cup f.kinds) \cap ClearKinds = {} /\ f.flap = row.flap
  BY <1>1, <1>4 DEF ClearKinds, Recoveries
<1> QED BY <1>5 DEF j, f

LEMMA StoreClear ==
    ASSUME Undisturbed, NEW g \in Nat, Roomy(g), IncidentInv, EpisodeInv, ClearInv(g),
           Store(Scheduler)
    PROVE  ClearInv(g)'
<1> DEFINE st == out[Scheduler]
           inc == seen[Scheduler]
           x == [age |-> 0, st |-> st]
           S == samples \cup {x}
           j == Judged(row, st, 0, FALSE, inc)
           f == FlakyStep(j.flap, j.flaky, j.told, st, 0)
<1>0. /\ TypeOK /\ AloneInv /\ Heard /\ Between /\ row \in Rows /\ row.checked <= STABLE
      /\ st \in Statuses /\ (st = "up" \/ st = "down")
      /\ \A s \in samples : s.age > 0
      /\ row.flap \in Flaps /\ row.flap.age \in Nat
  <2>1. TypeOK /\ AloneInv /\ RunInv /\ TalkInv /\ Stage = "locked" /\ Between
    BY DEF IncidentInv, EpisodeInv, Store, Stage, Between
  <2>2. Heard /\ \A s \in samples : s.age > 0
    BY <2>1 DEF TalkInv, RunInv
  <2>3. st \in Statuses /\ (st = "up" \/ st = "down")
    BY <2>1, AloneFacts DEF TypeOK
  <2>4. row \in Rows /\ row.flap \in Flaps /\ row.flap.age \in Nat
    BY <2>1, MonitorConstants DEF TypeOK, Rows, Flaps, Ages
  <2> QED BY <2>1, <2>2, <2>3, <2>4 DEF AloneInv
<1>1. /\ SpanInv(g) /\ History(samples) /\ Cut(samples, row.flap)
      /\ row.flap.lvl = "closed" => row.flap.age > 0
      /\ row.flaky => Unsteady(samples, LongRun)
  BY <1>0 DEF ClearInv, SpanInv
<1>2. x.age = 0 /\ x.st = st /\ Keep \in Nat /\ Keep >= WINDOW + LongRun /\ Keep > 0
  BY MonitorConstants, FlapConstants, LongRunType DEF Roomy
<1>3. /\ row'.last = st /\ row'.flap = f.flap /\ row'.flaky = f.flaky
      /\ Batch'.kinds = j.kinds \cup f.kinds /\ samples' = Latest(S, Keep) /\ ~Between'
  <2>1. j = Judged(row, out[Scheduler], 0, FALSE, seen[Scheduler])
        /\ f = FlakyStep(j.flap, j.flaky, j.told, out[Scheduler], 0)
    OBVIOUS
  <2> HIDE DEF j, f
  <2>2. /\ row' = [fails |-> j.fails, last |-> st, flap |-> f.flap,
                   flaky |-> f.flaky, told |-> f.told, checked |-> 0]
        /\ Batch'.kinds = j.kinds \cup f.kinds
        /\ Stage' = (IF j.kinds \cup f.kinds = {} THEN "idle" ELSE "send")
        /\ samples' = Latest(S, Keep)
    BY <1>0, <2>1, StoreEffect
  <2>3. row'.last = st /\ row'.flap = f.flap /\ row'.flaky = f.flaky
    BY <2>2
  <2> QED BY <2>2, <2>3 DEF Between
<1>4. History(S) /\ SpanInv(g)'
  <2> HIDE DEF x
  <2> QED BY <1>0, <1>1, <1>2, <1>3, StoreSpan
<1>5. j.flap \in Flaps /\ j.flaky \in BOOLEAN /\ j.told \in BOOLEAN
  <2>1. 0 \in Ages /\ FALSE \in BOOLEAN
    BY MonitorConstants DEF Ages
  <2> QED BY <1>0, <2>1, JudgedType
<1>6. \/ j.flap = row.flap /\ j.told = row.told
      \/ Level(j.flap) = "down"
      \/ j.flap = Closed(0) /\ st = "up"
  <2>1. CASE st = "up"
    <3> SUFFICES LET i == Judged(row, "up", 0, FALSE, inc)
                 IN  \/ i.flap = row.flap /\ i.told = row.told
                     \/ Level(i.flap) = "down" \/ i.flap = Closed(0)
      BY <2>1
    <3> HIDE DEF inc
    <3> QED BY <1>0, JudgedUp
  <2>2. CASE st = "down"
    <3> SUFFICES LET i == Judged(row, "down", 0, FALSE, inc)
                 IN  i.flap = row.flap /\ i.told = row.told
      BY <2>2
    <3> HIDE DEF inc
    <3> QED BY <1>0, JudgedDown
  <2> QED BY <1>0, <2>1, <2>2
<1>7. st = "down" => (j.kinds \cup f.kinds) \cap ClearKinds = {} /\ f.flap = row.flap
  <2> SUFFICES ASSUME st = "down"
               PROVE  LET i == Judged(row, "down", 0, FALSE, inc)
                          h == FlakyStep(i.flap, i.flaky, i.told, "down", 0)
                      IN  (i.kinds \cup h.kinds) \cap ClearKinds = {} /\ h.flap = row.flap
    OBVIOUS
  <2> HIDE DEF inc
  <2> QED BY <1>0, <1>1, FailureClearsNothing
<1> HIDE DEF j
<1>8. /\ f.flaky = IsFlaky(FlakyHist(j.flap, st, 0), LongRun, j.flaky)
      /\ Level(j.flap) = "none" => f.flap = j.flap
      /\ Level(j.flap) = "down" => f.flap = j.flap
      /\ Level(j.flap) = "flaky" /\ j.told = TRUE => f.flap \in {j.flap, Closed(0)}
  <2>1. /\ f.flaky = IsFlaky(FlakyHist(j.flap, st, 0), LongRun, j.flaky)
        /\ f.flaky \in BOOLEAN
        /\ Level(j.flap) = "none" =>
              /\ f.flap = j.flap /\ f.told = j.told
              /\ f.kinds = IF f.flaky = TRUE THEN IF j.told = TRUE THEN {} ELSE {"flaky"}
                           ELSE IF j.told = TRUE THEN {"flakyrec"} ELSE {}
        /\ Level(j.flap) = "down" => f.flap = j.flap /\ f.told = f.flaky /\ f.kinds = {}
        /\ Level(j.flap) = "flaky" /\ j.told = TRUE =>
              /\ f.flap = IF f.flaky = TRUE THEN j.flap ELSE Closed(0)
              /\ f.told = TRUE
              /\ f.kinds = IF f.flaky = TRUE THEN {} ELSE {"flakyrec"}
    <3> HIDE DEF st
    <3> QED BY <1>5, FlakyCases
  <2> HIDE DEF f
  <2> QED BY <2>1
<1> HIDE DEF f
<1>9. Level(Closed(0)) = "none" /\ Closed(0).age = 0 /\ Closed(0).lvl = "closed"
      /\ \A l : Level(l) = "down" => l.lvl # "closed"
  BY DEF Level, Closed
\* the verdict "answers every other time"
<1>10. ASSUME f.flaky PROVE Unsteady(samples', LongRun)
  <2>1. CASE j.flap = Closed(0) /\ st = "up"
    BY <1>0, <1>5, <1>8, <1>10, <2>1, ClosedIsSteady
  <2>2. CASE j.flap = row.flap \/ Level(j.flap) = "down"
    <3>1. Cut(samples, j.flap) /\ j.flap.age \in Nat
      <4>1. j.flap.age \in Nat
        BY <1>5, MonitorConstants DEF Flaps, Ages
      <4> QED BY <1>1, <1>9, <2>2, <4>1 DEF Cut
    <3>2. IsFlaky(FlakyHist(j.flap, st, 0), LongRun, j.flaky)
      BY <1>8, <1>10
    <3>3. Unsteady(S, LongRun)
      BY <1>0, <1>1, <1>5, <3>1, <3>2, VerdictKept
    <3> HIDE DEF S
    <3> QED BY <1>2, <1>3, <1>4, <3>3, LongRunType, LatestUnsteady
  <2> QED BY <1>6, <2>1, <2>2
\* the sample that closes an episode
<1>11. Cut(samples', f.flap)
  <2>1. CASE f.flap = row.flap
    <3> HIDE DEF x
    <3> QED BY <1>0, <1>1, <1>2, <1>3, <2>1, CutKept
  <2>2. CASE f.flap.lvl # "closed"
    BY <2>2 DEF Cut
  <2>3. CASE f.flap = Closed(0) /\ st = "up"
    <3>1. Cardinality(Newer(S, x)) = 0
      <4>1. Dated(samples)
        BY <1>1 DEF History
      <4> HIDE DEF x
      <4> QED BY <1>0, <1>2, <4>1, NewerAdd
    <3>2. x \in samples'
      <4> HIDE DEF x
      <4> QED BY <1>2, <1>3, <3>1 DEF Latest
    <3>3. x.age = f.flap.age /\ x.st # "down"
      BY <1>2, <1>9, <2>3
    <3> HIDE DEF x
    <3> QED BY <3>2, <3>3 DEF Cut
  <2>4. f.flap = row.flap \/ f.flap.lvl # "closed" \/ (f.flap = Closed(0) /\ st = "up")
    <3>1. CASE st = "down"
      BY <1>7, <3>1
    <3>2. CASE st = "up" /\ Level(row.flap) = "flaky" /\ j.flap = row.flap /\ j.told = row.told
      <4>1. j.told = TRUE
        BY <1>0, <1>5, <3>2 DEF Heard, FlakyOpen
      <4> QED BY <1>8, <3>2, <4>1
    <3>3. CASE st = "up" /\ Level(row.flap) # "flaky" /\ j.flap = row.flap
      <4>1. Level(row.flap) \in {"none", "down"}
        BY <3>3 DEF Level
      <4> QED BY <1>8, <3>3, <4>1
    <3>4. CASE st = "up" /\ (Level(j.flap) = "down" \/ j.flap = Closed(0))
      BY <1>8, <1>9, <3>4
    <3> QED BY <1>0, <1>6, <3>1, <3>2, <3>3, <3>4
  <2> QED BY <2>1, <2>2, <2>3, <2>4
<1>12. Batch'.kinds \cap ClearKinds # {} => row'.last = "up"
  BY <1>0, <1>3, <1>7
<1> QED BY <1>3, <1>4, <1>10, <1>11, <1>12 DEF ClearInv

\* A new tick: samples and a closed episode grow older together.
LEMMA TickClear ==
    ASSUME Undisturbed, NEW g \in Nat, Roomy(g), IncidentInv, EpisodeInv, ClearInv(g),
           NEW d \in Gaps, SchedTick(d)
    PROVE  ClearInv(g)'
<1>0. /\ TypeOK /\ Stage = "idle" /\ Stage' = "probed" /\ Batch' = Batch
      /\ row' = OlderRow(row, d) /\ samples' = OlderSamples(samples, d)
      /\ row \in Rows /\ d \in Nat /\ d > 0 /\ Cap \in Nat
  <2>1. TypeOK /\ Scheduler \in Actor
    BY DEF IncidentInv, Actor
  <2> QED BY <2>1, MonitorConstants DEF SchedTick, TakeNow, Stage, Batch, TypeOK
<1>1. ~Between /\ Between'
  BY <1>0 DEF Between
<1>2. /\ row'.last = row.last /\ row'.flaky = row.flaky
      /\ row'.flap = OlderFlap(row.flap, d)
  BY <1>0 DEF OlderRow, Rows
<1>3. row.flap \in Flaps /\ row.flap.age \in Nat /\ row.flap.age <= Cap
  BY <1>0 DEF Rows, Flaps, Ages
<1>4. /\ SpanInv(g) /\ History(samples) /\ Cut(samples, row.flap)
      /\ row.flaky => Unsteady(samples, LongRun)
      /\ Batch.kinds \cap ClearKinds # {} => row.last = "up"
  BY DEF ClearInv, SpanInv
<1>5. /\ samples' = Aged(samples, d) /\ SpanInv(g)'
      /\ \A s \in samples : s.age + d < Cap
  BY <1>0, <1>1, <1>4, TickSpan
<1>6. row'.flaky => Unsteady(samples', LongRun)
  BY <1>0, <1>2, <1>4, <1>5, LongRunType, AgedUnsteady
<1>7. row'.flap.lvl = "closed" =>
         row.flap.lvl = "closed" /\ row'.flap.age = Older(row.flap.age, d)
  BY <1>2 DEF OlderFlap, Closed
<1>8. Cut(samples', row'.flap)
  <2> SUFFICES ASSUME row'.flap.lvl = "closed"
               PROVE  \/ \A s \in samples' : s.age < row'.flap.age
                      \/ \E u \in samples' : u.age = row'.flap.age /\ u.st # "down"
    BY DEF Cut
  <2>0. row.flap.lvl = "closed" /\ row'.flap.age = Older(row.flap.age, d)
    BY <1>7
  <2>1. ASSUME NEW t \in samples'
        PROVE  \E s \in samples : t.age = s.age + d /\ s.age + d < Cap /\ s.age \in Nat
    <3>1. PICK s \in samples : t = [age |-> s.age + d, st |-> s.st]
      BY <1>5 DEF Aged
    <3> QED BY <1>4, <1>5, <3>1 DEF History, Dated
  <2>2. CASE row.flap.age + d >= Cap
    <3>1. row'.flap.age = Cap
      BY <1>0, <1>3, <2>0, <2>2 DEF Older, Min2
    <3> QED BY <2>1, <3>1
  <2>3. CASE row.flap.age + d < Cap /\ \A s \in samples : s.age < row.flap.age
    <3>1. row'.flap.age = row.flap.age + d
      BY <1>0, <1>3, <2>0, <2>3 DEF Older, Min2
    <3>2. ASSUME NEW t \in samples' PROVE t.age < row'.flap.age
      <4>1. PICK s \in samples : t.age = s.age + d /\ s.age \in Nat
        BY <2>1
      <4> QED BY <1>0, <1>3, <2>3, <3>1, <4>1
    <3> QED BY <3>2
  <2>4. CASE row.flap.age + d < Cap /\ \E u \in samples : u.age = row.flap.age /\ u.st # "down"
    <3>1. row'.flap.age = row.flap.age + d
      BY <1>0, <1>3, <2>0, <2>4 DEF Older, Min2
    <3>2. PICK u \in samples : u.age = row.flap.age /\ u.st # "down"
      BY <2>4
    <3> DEFINE v == [age |-> u.age + d, st |-> u.st]
    <3>3. v \in samples' /\ v.age = row'.flap.age /\ v.st # "down"
      BY <1>5, <3>1, <3>2 DEF Aged
    <3> QED BY <3>3
  <2>5. (row.flap.age + d >= Cap) \/ (row.flap.age + d < Cap)
    BY <1>0, <1>3
  <2> QED BY <1>4, <2>0, <2>2, <2>3, <2>4, <2>5 DEF Cut
<1>9. row'.flap.lvl = "closed" => row'.flap.age > 0
  <2>1. Cap > 0
    <3>1. LongRun * STABLE \in Nat
      BY LongRunType
    <3> QED BY <1>0, <3>1 DEF Undisturbed
  <2> QED BY <1>0, <1>3, <1>7, <2>1 DEF Older, Min2
<1>10. Batch'.kinds \cap ClearKinds # {} => row'.last = "up"
  BY <1>0, <1>2, <1>4
<1> QED BY <1>5, <1>6, <1>8, <1>9, <1>10 DEF ClearInv

\* Steps that take no sample.
LEMMA ClearKept ==
    ASSUME NEW g, ClearInv(g), samples' = samples, Between' <=> Between,
           row'.flap = row.flap \/ row'.flap.lvl # "closed",
           row'.flaky = row.flaky, row'.last = row.last, Batch'.kinds \subseteq Batch.kinds
    PROVE  ClearInv(g)'
<1>1. SpanInv(g)'
  BY DEF ClearInv, SpanInv
<1>2. Cut(samples', row'.flap) /\ (Between' /\ row'.flap.lvl = "closed" => row'.flap.age > 0)
  BY DEF ClearInv, Cut
<1> QED BY <1>1, <1>2 DEF ClearInv

LEMMA SendClear ==
    ASSUME Undisturbed, NEW g, TypeOK, AloneInv, ClearInv(g), Send(Scheduler)
    PROVE  ClearInv(g)'
<1>0. Scheduler \in Actor /\ row \in Rows /\ Batch \in Queues /\ hush \in {"no", "held"}
  BY DEF Actor, TypeOK, Batch, Undisturbed
<1>1. CASE Compose(Scheduler)
  <2>1. /\ samples' = samples /\ row' = row /\ Stage = "send"
        /\ Stage' \in {"idle", "dispatch"}
    BY <1>0, <1>1 DEF Compose, db, Stage, TypeOK
  <2>2. Batch'.kinds \subseteq Passes(Batch.kinds)
    BY <1>0, <1>1 DEF Compose, Batch, NoQueue, TypeOK
  <2>3. Passes(Batch.kinds) \subseteq Batch.kinds
    BY <1>0 DEF Passes
  <2> QED BY <2>1, <2>2, <2>3, ClearKept DEF Between
<1>2. CASE DispatchOk(Scheduler)
  <2>1. /\ samples' = samples /\ row' = row /\ Batch' = Batch
        /\ Stage = "dispatch" /\ Stage' = "mark"
    BY <1>0, <1>2 DEF DispatchOk, db, Stage, Batch, TypeOK
  <2> QED BY <2>1, ClearKept DEF Between
<1>3. CASE DispatchFail(Scheduler)
  BY <1>3 DEF DispatchFail, Undisturbed, TypeOK
<1>4. CASE Mark(Scheduler)
  <2>1. /\ samples' = samples /\ row' = Flagged(Batch) /\ Batch' = NoQueue
        /\ Stage = "mark" /\ Stage' = "idle"
    BY <1>0, <1>4 DEF Mark, Stage, Batch, TypeOK
  <2>2. /\ row'.flaky = row.flaky /\ row'.last = row.last
        /\ row'.flap \in {Opened("flaky"), Opened("down"), row.flap}
    BY <1>0, <2>1 DEF Flagged, Rows
  <2>3. Opened("flaky").lvl # "closed" /\ Opened("down").lvl # "closed" /\ NoQueue.kinds = {}
    BY DEF Opened, NoQueue
  <2> QED BY <2>1, <2>2, <2>3, ClearKept DEF Between
<1> QED BY <1>1, <1>2, <1>3, <1>4 DEF Send

LEMMA NextClear ==
    ASSUME Undisturbed, NEW g \in Nat, Roomy(g), IncidentInv, EpisodeInv, ClearInv(g),
           [Next]_vars
    PROVE  ClearInv(g)'
<1>0. /\ Actor = {Scheduler} /\ Manual = {} /\ Recheck = {} /\ MaxCrashes = 0 /\ TypeOK
      /\ AloneInv
  BY AloneFacts DEF Undisturbed, IncidentInv, EpisodeInv
<1>1. ASSUME NEW d \in Gaps, SchedTick(d) PROVE ClearInv(g)'
  BY <1>1, TickClear
<1>2. CASE SchedLoad
  <2>1. /\ UNCHANGED <<row, samples, queue>> /\ Stage = "probed" /\ Stage' = "loaded"
    BY <1>0, <1>2 DEF SchedLoad, db, Stage, TypeOK
  <2> QED BY <2>1, ClearKept DEF Between, Batch
<1>3. CASE LockRow(Scheduler)
  <2>1. /\ UNCHANGED <<row, samples, queue>> /\ Stage = "loaded" /\ Stage' = "locked"
    BY <1>0, <1>3 DEF LockRow, db, Stage, TypeOK
  <2> QED BY <2>1, ClearKept DEF Between, Batch
<1>4. CASE Store(Scheduler)
  BY <1>4, StoreClear
<1>5. CASE OthersSend(Scheduler)
  <2>1. ProcessOf(Scheduler) \in Processes
    BY DEF ProcessOf, Processes
  <2> QED BY <1>0, <1>5, <2>1 DEF OthersSend, AloneInv, NotParked
<1>6. CASE Send(Scheduler)
  BY <1>0, <1>6, SendClear
<1>7. ASSUME NEW p \in Processes, Crash(p) PROVE ClearInv(g)'
  BY <1>0, <1>7 DEF Crash, TypeOK
<1>8. CASE UNCHANGED <<db, lock, local, retry, chat, fails, crashes>>
  <2>1. UNCHANGED <<row, samples, queue>> /\ Stage' = Stage
    BY <1>8 DEF db, local, Stage
  <2> QED BY <2>1, ClearKept DEF Between, Batch
<1>9. ASSUME NEW h \in Hush \cup {"no"}, SetHush(h) PROVE ClearInv(g)'
  BY <1>8, <1>9 DEF SetHush
<1>10. ASSUME NEW st \in Fates, Settle(st) PROVE ClearInv(g)'
  BY <1>8, <1>10 DEF Settle
<1>11. CASE UNCHANGED vars
  BY <1>8, <1>11 DEF vars
<1> QED BY <1>0, <1>1, <1>2, <1>3, <1>4, <1>5, <1>6, <1>7, <1>9, <1>10, <1>11 DEF Next

LEMMA InitClear == ASSUME NEW g, Init PROVE ClearInv(g)
<1>1. samples = {} /\ row = NewRow /\ Batch = NoQueue
  BY DEF Init, Batch, Actor
<1>2. SpanInv(g)
  BY <1>1, FS_EmptySet DEF SpanInv, History, Dated
<1>3. Cut(samples, row.flap) /\ row.flap.lvl # "closed" /\ ~row.flaky /\ Batch.kinds = {}
  BY <1>1 DEF Cut, NewRow, NoFlap, NoQueue
<1> QED BY <1>2, <1>3 DEF ClearInv

\* Only a delivered batch speaks, and it clears only with an all-clear in it.
LEMMA ClearStep ==
    ASSUME Undisturbed, NEW g, TypeOK, AloneInv, ClearInv(g), Next, Cleared
    PROVE  row.last = "up"
<1>0. /\ Actor = {Scheduler} /\ Manual = {} /\ Recheck = {} /\ MaxFails = 0
      /\ chat \in Chats /\ chat.clear \in Nat /\ fails = 0
  BY AloneFacts DEF Undisturbed, TypeOK, Chats
<1>1. chat' # chat
  BY <1>0 DEF Cleared
<1>2. DispatchOk(Scheduler)
  <2>1. ~\E d \in Gaps : SchedTick(d)
    BY <1>1 DEF SchedTick
  <2>2. ~SchedLoad /\ ~LockRow(Scheduler) /\ ~Store(Scheduler) /\ ~OthersSend(Scheduler)
    BY <1>1 DEF SchedLoad, LockRow, Store, OthersSend
  <2>3. ~Compose(Scheduler) /\ ~Mark(Scheduler) /\ ~DispatchFail(Scheduler)
    BY <1>0, <1>1 DEF Compose, Mark, DispatchFail
  <2>4. ~(\E p \in Processes : Crash(p)) /\ ~(\E h \in Hush \cup {"no"} : SetHush(h))
        /\ ~\E st \in Fates : Settle(st)
    BY <1>1 DEF Crash, SetHush, Settle
  <2> QED BY <1>0, <2>1, <2>2, <2>3, <2>4 DEF Next, Send
<1>3. chat' = Say(chat, Batch.kinds, "none")
  BY <1>2 DEF DispatchOk, Batch, AloneInv
<1>4. ASSUME Batch.kinds \cap ClearKinds = {} PROVE FALSE
  <2>1. Batch.kinds \cap Recoveries = {} /\ "flakyrec" \notin Batch.kinds
    BY <1>4 DEF ClearKinds
  <2>2. chat'.clear = 0 \/ chat'.clear = chat.clear
    BY <1>3, <2>1 DEF Say, SayDown, SayFlaky
  <2> QED BY <1>0, <2>2 DEF Cleared
<1> QED BY <1>4 DEF ClearInv

\* No all-clear goes out while the last result is a failure: record_outcome and
\* _flaky_step for any thresholds and windows, when the scheduler alone records
\* results "up" and "down" and the channel takes what it is given.
THEOREM ClearsComeWhenUp ==
    ASSUME Undisturbed, NEW g \in Nat, Roomy(g)
    PROVE  Spec => ClearWhenUp
<1>1. Init => EpisodeInv /\ ClearInv(g)
  BY InitEpisode, InitClear
<1>2. IncidentInv /\ EpisodeInv /\ ClearInv(g) /\ [Next]_vars => EpisodeInv' /\ ClearInv(g)'
  BY NextEpisode, NextClear
<1>3. IncidentInv /\ EpisodeInv /\ ClearInv(g) /\ [Next]_vars => [Cleared => row.last = "up"]_vars
  BY ClearStep DEF IncidentInv, EpisodeInv
<1> QED BY <1>1, <1>2, <1>3, InitIncident, NextIncident, PTL DEF Spec, ClearWhenUp
=============================================================================
