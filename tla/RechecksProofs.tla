--------------------------- MODULE RechecksProofs ---------------------------
(***************************************************************************)
(* Theorems about Rechecks, for any jobs, workers and time limits.         *)
(*                                                                         *)
(* FreshInv is the inductive strengthening of FixedIsFresh: every           *)
(* observation made for a job, in a goroutine of the agent, at a worker or  *)
(* in a transaction, is no older than the job.  LeaseInv is that of         *)
(* OneWorker: the job of a busy worker carries the lease of that worker,    *)
(* and the lease is not over.  OrderInv is that of NewerStays: whatever is  *)
(* seen later shows a later value (SeenOrder), nothing under way is older   *)
(* than the baseline it is compared with, and an answer about to be         *)
(* committed is newer than what it replaces, or says the same (TxNewer).    *)
(***************************************************************************)
EXTENDS Rechecks, TLAPS

\* An observation made since the job was created.
Since(j, o) == o # None /\ o.obs >= born[j]

Given(j) == status[j] # "none"

BornPast == \A j \in Jobs : born[j] <= now
EditsCount == ident = edits
RunsSince == \A r \in runs : Given(r.job) /\ (r.seen # None => Since(r.job, r.seen))
WorkSince == \A w \in Workers : work[w].step # "idle" =>
                /\ work[w].job \in Jobs /\ Given(work[w].job)
                /\ work[w].step = "got" => Since(work[w].job, work[w].seen)
\* A job whose row is locked for an answer is open, and the answer is new.
TxSince == \A j \in Jobs : Locked(j) =>
                /\ Checking(j) /\ tx[j].end \in Ended
                /\ tx[j].end = "fixed" => Since(j, tx[j].seen) /\ Clean(tx[j].seen.val)
                /\ tx[j].end = "unavailable" => tx[j].seen = None
FreshInv == BornPast /\ RunsSince /\ WorkSince /\ TxSince /\ FixedIsFresh

\* Every observation that is held, under way, or a baseline; a later one shows no
\* earlier value.
Seen ==
    ({rec, sending} \cup {r.seen : r \in runs} \cup {work[w].seen : w \in Workers}
        \cup {tx[j].seen : j \in Jobs} \cup {spec[j].base : j \in Jobs}) \ {None}
SeenOrder == \A o \in Seen : /\ o.val <= world /\ o.obs <= now
                             /\ \A p \in Seen : o.obs < p.obs => o.val <= p.val
\* A snapshot and a probe of a job come after its baseline.
RunsAfterBase == \A r \in runs :
    spec[r.job].base # None /\ (r.seen # None => spec[r.job].base.val <= r.seen.val)
WorkAfterBase == \A w \in Workers : work[w].step # "idle" =>
    /\ kind = "site" /\ spec[work[w].job].base.obs <= now
    /\ work[w].step = "got" => spec[work[w].job].base.obs <= work[w].seen.obs
OneOpen == \A i, j \in Jobs : Checking(i) /\ Checking(j) => i = j
\* A regular report that is under way is newer than what it may replace ...
SendingNewest == sending # None =>
    /\ kind = "server" /\ rec.obs <= sending.obs
    /\ \A j \in Jobs : tx[j].seen # None => tx[j].seen.obs <= sending.obs
\* ... and an answer that will be committed is newer, or says the same.
TxNewer == \A j \in Jobs : tx[j].seen # None /\ tx[j].seen.obs < rec.obs => tx[j].seen.val = rec.val
OrderInv == SeenOrder /\ RunsAfterBase /\ WorkAfterBase /\ OneOpen /\ SendingNewest /\ TxNewer

USE DEF vars, object, job, agent, Never, Times

-----------------------------------------------------------------------------
LEMMA NoneIsNone == None \notin Observations
BY RecheckConstants DEF None, Observations, Values

LEMMA LookType == TypeOK => Look \in Observations
BY DEF TypeOK, Look, Observations

LEMMA JudgeType ==
    ASSUME NEW j, NEW usable \in BOOLEAN, NEW o \in Observations \cup {None}
    PROVE  /\ Judge(j, usable, o) \in [end : Ended, seen : Observations \cup {None}]
           /\ Judge(j, usable, o).end = "unavailable" => Judge(j, usable, o).seen = None
           /\ Judge(j, usable, o).end = "fixed" => Judge(j, usable, o).seen = o /\ Clean(o.val)
BY DEF Judge, Verdict, Ended

LEMMA TypeInit == Init => TypeOK /\ EditsCount
<1> SUFFICES ASSUME Init PROVE TypeOK /\ EditsCount
  OBVIOUS
<1>1. rec \in Observations /\ world \in Values /\ now \in Times
  BY RecheckConstants DEF Init, Observations, Values
<1>2. ident \in 0..MaxEdits /\ edits \in 0..MaxEdits /\ crashes \in 0..MaxCrashes
  BY RecheckConstants DEF Init
<1>3. work \in [Workers -> [step : Steps, job : Jobs \cup {Never}, since : Times \cup {Never},
                            seen : Observations \cup {None}]]
  BY DEF Init, Idle, Steps
<1>4. tx \in [Jobs -> [end : {"none"} \cup Ended, seen : Observations \cup {None}]]
  BY DEF Init, NoTx
<1>5. spec \in [Jobs -> [ident : 0..MaxEdits, base : Observations \cup {None}]]
  BY RecheckConstants DEF Init
<1> QED BY <1>1, <1>2, <1>3, <1>4, <1>5 DEF Init, TypeOK, EditsCount

LEMMA TypeStep == TypeOK /\ EditsCount /\ [Next]_vars => TypeOK' /\ EditsCount'
<1> SUFFICES ASSUME TypeOK, EditsCount, [Next]_vars PROVE TypeOK' /\ EditsCount'
  OBVIOUS
<1>l. Look \in Observations /\ now \in Times
  BY LookType DEF TypeOK
<1> USE DEF EditsCount
<1>1. CASE Change
  BY <1>1, RecheckConstants DEF Change, TypeOK, Values
<1>2. CASE Edit
  BY <1>2, RecheckConstants DEF Edit, TypeOK
<1>3. CASE Tick
  BY <1>3, RecheckConstants DEF Tick, TypeOK
<1>4. ASSUME NEW j \in Jobs, PageRead(j) PROVE TypeOK' /\ EditsCount'
  BY <1>4 DEF PageRead, TypeOK
<1>5. ASSUME NEW j \in Jobs, PageWrite(j) PROVE TypeOK' /\ EditsCount'
  BY <1>5 DEF PageWrite, TypeOK, Ended
<1>6. ASSUME NEW j \in Jobs, Commit(j) PROVE TypeOK' /\ EditsCount'
  <2>1. /\ tx[j].end \in {"none"} \cup Ended /\ tx[j].seen \in Observations \cup {None}
        /\ NoTx \in [end : {"none"} \cup Ended, seen : Observations \cup {None}]
    BY DEF TypeOK, NoTx
  <2>2. tx' \in [Jobs -> [end : {"none"} \cup Ended, seen : Observations \cup {None}]]
    BY <1>6, <2>1 DEF Commit, TypeOK
  <2>3. status' \in [Jobs -> {"none", "checking"} \cup Ended]
    BY <1>6, <2>1 DEF Commit, TypeOK
  <2>4. proof' \in [Jobs -> Observations \cup {None}] /\ rec' \in Observations
    BY <1>6, <2>1 DEF Commit, TypeOK
  <2> QED BY <1>6, <2>2, <2>3, <2>4 DEF Commit, TypeOK
<1>7. ASSUME NEW j \in Jobs, NEW able \in BOOLEAN, Start(j, able) PROVE TypeOK' /\ EditsCount'
  <2>1. status' \in [Jobs -> {"none", "checking"} \cup Ended]
    BY <1>7 DEF Start, TypeOK, Ended
  <2>2. spec' \in [Jobs -> [ident : 0..MaxEdits, base : Observations \cup {None}]]
    BY <1>7 DEF Start, TypeOK
  <2>3. born' \in [Jobs -> Times \cup {Never}]
    BY <1>7 DEF Start, TypeOK
  <2> QED BY <1>7, <2>1, <2>2, <2>3 DEF Start, TypeOK
<1>8. ASSUME NEW heard \in BOOLEAN, Poll(heard) PROVE TypeOK' /\ EditsCount'
  <2>1. \A j \in Jobs : Baseline(j) \in Observations \cup {None}
    BY DEF Baseline, TypeOK
  <2>2. spec' \in [Jobs -> [ident : 0..MaxEdits, base : Observations \cup {None}]]
    BY <1>8, <2>1 DEF Poll, TypeOK
  <2>3. status' \in [Jobs -> {"none", "checking"} \cup Ended]
    BY <1>8 DEF Poll, TypeOK, Ended
  <2>4. taken' \in [Jobs -> Times \cup {Never}]
    BY <1>8 DEF Poll, TypeOK
  <2>5. runs' \subseteq [job : Jobs, seen : Observations \cup {None}]
    BY <1>8 DEF Poll, TypeOK, HandOut
  <2> QED BY <1>8, <2>2, <2>3, <2>4, <2>5 DEF Poll, TypeOK
<1>9. ASSUME NEW r \in runs, Collect(r) PROVE TypeOK' /\ EditsCount'
  <2> DEFINE new == [r EXCEPT !.seen = Look]
  <2>1. new \in [job : Jobs, seen : Observations \cup {None}]
    BY <1>l DEF TypeOK
  <2>2. runs' = (runs \ {r}) \cup {new}
    BY <1>9 DEF Collect
  <2>3. UNCHANGED <<now, object, rec, job, sending, work, tx, page, crashes>>
    BY <1>9 DEF Collect
  <2> HIDE DEF new
  <2> QED BY <2>1, <2>2, <2>3 DEF TypeOK
<1>10. ASSUME NEW r \in runs, NEW ok \in BOOLEAN, Post(r, ok) PROVE TypeOK' /\ EditsCount'
  <2>1. r.job \in Jobs /\ r.seen \in Observations
    BY <1>10 DEF Post, TypeOK
  <2> DEFINE new == Judge(r.job, ok /\ taken[r.job] # Never /\ Mergeable(r.job, r.seen), r.seen)
  <2>2. new \in [end : {"none"} \cup Ended, seen : Observations \cup {None}]
    <3>1. new \in [end : Ended, seen : Observations \cup {None}]
      BY <2>1, JudgeType
    <3> QED BY <3>1
  <2>3. tx' = IF Checking(r.job) THEN [tx EXCEPT ![r.job] = new] ELSE tx
    BY <1>10 DEF Post
  <2> HIDE DEF new
  <2>4. tx' \in [Jobs -> [end : {"none"} \cup Ended, seen : Observations \cup {None}]]
    BY <2>1, <2>2, <2>3 DEF TypeOK
  <2> QED BY <1>10, <2>4 DEF Post, TypeOK
<1>11. ASSUME NEW r \in runs, PostLost(r) PROVE TypeOK' /\ EditsCount'
  BY <1>11 DEF PostLost, TypeOK
<1>12. CASE ReportBuilt
  BY <1>12, <1>l DEF ReportBuilt, TypeOK
<1>13. CASE AutoCheck
  BY <1>13, <1>l DEF AutoCheck, TypeOK
<1>14. ASSUME NEW ok \in BOOLEAN, ReportIn(ok) PROVE TypeOK' /\ EditsCount'
  BY <1>14 DEF ReportIn, TypeOK
<1>15. ASSUME NEW w \in Workers, NEW j \in Jobs, Claim(w, j) PROVE TypeOK' /\ EditsCount'
  <2>1. status' \in [Jobs -> {"none", "checking"} \cup Ended] /\ taken' \in [Jobs -> Times \cup {Never}]
    BY <1>15 DEF Claim, TypeOK, Ended
  <2>3. work' \in [Workers -> [step : Steps, job : Jobs \cup {Never}, since : Times \cup {Never},
                               seen : Observations \cup {None}]]
    BY <1>15, <1>l DEF Claim, TypeOK, Steps
  <2> QED BY <1>15, <2>1, <2>3 DEF Claim, TypeOK
<1>16. ASSUME NEW w \in Workers, NEW ok \in BOOLEAN, Probed(w, ok) PROVE TypeOK' /\ EditsCount'
  <2> DEFINE Duty == [step : Steps, job : Jobs \cup {Never}, since : Times \cup {Never},
                      seen : Observations \cup {None}]
  <2> DEFINE old == work[w]
  <2>a. old \in Duty
    BY DEF TypeOK
  <2>b. [step |-> "got", job |-> old.job, since |-> old.since, seen |-> Look] \in Duty
    BY <1>l, <2>a DEF Steps
  <2>c. [old EXCEPT !.step = "failing"] \in Duty /\ Idle \in Duty
    BY <2>a DEF Steps, Idle
  <2> DEFINE new == IF ok THEN [step |-> "got", job |-> old.job, since |-> old.since, seen |-> Look]
                    ELSE IF Checking(old.job) THEN [old EXCEPT !.step = "failing"] ELSE Idle
  <2>d. work' = [work EXCEPT ![w] = new]
    BY <1>16 DEF Probed
  <2>e. new \in Duty
    BY <2>b, <2>c
  <2> HIDE DEF new
  <2>1. work' \in [Workers -> Duty]
    BY <2>d, <2>e DEF TypeOK
  <2> QED BY <1>16, <2>1 DEF Probed, TypeOK
<1>17. ASSUME NEW w \in Workers, NEW ok \in BOOLEAN, Record(w, ok) PROVE TypeOK' /\ EditsCount'
  <2> DEFINE j == work[w].job
  <2> DEFINE new == Judge(j, ok /\ Fresh(j), work[w].seen)
  <2>1. new \in [end : {"none"} \cup Ended, seen : Observations \cup {None}]
    <3>1. work[w].seen \in Observations \cup {None}
      BY DEF TypeOK
    <3>2. new \in [end : Ended, seen : Observations \cup {None}]
      BY <3>1, JudgeType
    <3> QED BY <3>2
  <2>2. tx' = IF Checking(j) THEN [tx EXCEPT ![j] = new] ELSE tx
    BY <1>17 DEF Record
  <2> HIDE DEF new, j
  <2>3. tx' \in [Jobs -> [end : {"none"} \cup Ended, seen : Observations \cup {None}]]
    BY <2>1, <2>2 DEF TypeOK
  <2>4. work' \in [Workers -> [step : Steps, job : Jobs \cup {Never}, since : Times \cup {Never},
                               seen : Observations \cup {None}]]
    BY <1>17 DEF Record, TypeOK, Idle, Steps
  <2> QED BY <1>17, <2>3, <2>4 DEF Record, TypeOK
<1>18. ASSUME NEW w \in Workers, FailWrite(w) PROVE TypeOK' /\ EditsCount'
  BY <1>18 DEF FailWrite, TypeOK, Ended, Idle, Steps
<1>19. CASE Crash
  BY <1>19, RecheckConstants DEF Crash, TypeOK, Idle, Steps, NoTx
<1>20. CASE UNCHANGED vars
  BY <1>20 DEF TypeOK
<1> QED
  BY <1>1, <1>2, <1>3, <1>4, <1>5, <1>6, <1>7, <1>8, <1>9, <1>10, <1>11, <1>12, <1>13, <1>14,
     <1>15, <1>16, <1>17, <1>18, <1>19, <1>20 DEF Next

(* Every reachable state has its type, whatever is lost, late or restarted. *)
THEOREM TypeCorrect == Spec => []TypeOK
<1>1. Init => TypeOK /\ EditsCount
  BY TypeInit
<1>2. TypeOK /\ EditsCount /\ [Next]_vars => (TypeOK /\ EditsCount)'
  BY TypeStep
<1> QED BY <1>1, <1>2, PTL DEF Spec

-----------------------------------------------------------------------------
(* A job that is locked is changed by the commit alone; a job that exists  *)
(* keeps its creation time.                                                *)
LEMMA JobStep ==
    ASSUME TypeOK, FreshInv, Next, NEW j \in Jobs
    PROVE  /\ Given(j) => Given(j)' /\ born'[j] = born[j]
           /\ born'[j] <= now'
           /\ ~Commit(j) /\ status'[j] = "fixed" => status[j] = "fixed"
           /\ ~Commit(j) => proof'[j] = proof[j]
           /\ ~Commit(j) /\ Locked(j) => status'[j] = status[j]
<1>t. now \in Nat /\ status \in [Jobs -> {"none", "checking"} \cup Ended] /\ born[j] <= now
  BY DEF TypeOK, FreshInv, BornPast
<1> USE DEF Given
<1>1. CASE Change \/ Edit \/ ReportBuilt \/ AutoCheck \/ Crash
  BY <1>1, <1>t DEF Change, Edit, ReportBuilt, AutoCheck, Crash
<1>2. CASE Tick
  BY <1>2, <1>t DEF Tick, TypeOK
<1>3. ASSUME NEW i \in Jobs, PageRead(i) \/ PageWrite(i)
      PROVE  /\ Given(j) => Given(j)' /\ born'[j] = born[j]
             /\ born'[j] <= now' /\ proof'[j] = proof[j]
             /\ status'[j] = "fixed" => status[j] = "fixed"
             /\ Locked(j) => status'[j] = status[j]
  BY <1>3, <1>t DEF PageRead, PageWrite
<1>4. ASSUME NEW i \in Jobs, Commit(i)
      PROVE  /\ Given(j) => Given(j)' /\ born'[j] = born[j]
             /\ born'[j] <= now'
             /\ j # i => status'[j] = status[j] /\ proof'[j] = proof[j]
  BY <1>4, <1>t DEF Commit, FreshInv, TxSince, Ended, TypeOK
<1>5. ASSUME NEW i \in Jobs, NEW able \in BOOLEAN, Start(i, able)
      PROVE  /\ Given(j) => Given(j)' /\ born'[j] = born[j]
             /\ born'[j] <= now' /\ proof'[j] = proof[j]
             /\ status'[j] = "fixed" => status[j] = "fixed"
             /\ Locked(j) => status'[j] = status[j]
  BY <1>5, <1>t DEF Start, FreshInv, TxSince, Checking, TypeOK
<1>6. CASE \E heard \in BOOLEAN : Poll(heard)
  BY <1>6, <1>t DEF Poll, Dropped
<1>7. CASE \E r \in runs : Collect(r) \/ PostLost(r) \/ \E ok \in BOOLEAN : Post(r, ok)
  BY <1>7, <1>t DEF Collect, PostLost, Post
<1>8. CASE \E ok \in BOOLEAN : ReportIn(ok)
  BY <1>8, <1>t DEF ReportIn
<1>9. ASSUME NEW w \in Workers, NEW i \in Jobs, Claim(w, i)
      PROVE  /\ Given(j) => Given(j)' /\ born'[j] = born[j]
             /\ born'[j] <= now' /\ proof'[j] = proof[j]
             /\ status'[j] = "fixed" => status[j] = "fixed"
             /\ Locked(j) => status'[j] = status[j]
  BY <1>9, <1>t DEF Claim
<1>10. CASE \E w \in Workers, ok \in BOOLEAN : Probed(w, ok) \/ Record(w, ok)
  BY <1>10, <1>t DEF Probed, Record
<1>11. CASE \E w \in Workers : FailWrite(w)
  BY <1>11, <1>t DEF FailWrite
<1> QED
  BY <1>1, <1>2, <1>3, <1>4, <1>5, <1>6, <1>7, <1>8, <1>9, <1>10, <1>11 DEF Next

LEMMA FreshInit == Init => FreshInv
<1> SUFFICES ASSUME Init PROVE FreshInv
  OBVIOUS
<1> QED
  BY DEF Init, FreshInv, BornPast, RunsSince, WorkSince, TxSince, FixedIsFresh, Locked, Idle

LEMMA FreshStep == TypeOK /\ FreshInv /\ [Next]_vars => FreshInv'
<1> SUFFICES ASSUME TypeOK, FreshInv, [Next]_vars PROVE FreshInv'
  OBVIOUS
<1>0. CASE UNCHANGED vars
  BY <1>0 DEF FreshInv, BornPast, RunsSince, WorkSince, TxSince, FixedIsFresh, Locked, Checking,
              Since, Given
<1> SUFFICES ASSUME Next PROVE FreshInv'
  BY <1>0
<1>j. \A j \in Jobs :
           /\ Given(j) => Given(j)' /\ born'[j] = born[j]
           /\ born'[j] <= now'
           /\ ~Commit(j) /\ status'[j] = "fixed" => status[j] = "fixed"
           /\ ~Commit(j) => proof'[j] = proof[j]
           /\ ~Commit(j) /\ Locked(j) => status'[j] = status[j]
  BY JobStep
<1>l. Look \in Observations /\ Look.obs = now /\ Look # None
  BY LookType, NoneIsNone DEF Look
<1>b. \A j \in Jobs : born[j] <= now
  BY DEF FreshInv, BornPast
<1>1. BornPast'
  BY <1>j DEF BornPast
<1>2. RunsSince'
  <2>0. \A r \in runs : r.job \in Jobs
    BY DEF TypeOK
  <2>1. ASSUME NEW heard \in BOOLEAN, Poll(heard) PROVE RunsSince'
    <3>1. \A r \in runs' : r \in runs \/ (r.job \in HandOut /\ r.seen = None)
      BY <2>1 DEF Poll
    <3>2. \A j \in HandOut : j \in Jobs /\ Given(j)
      BY DEF HandOut, Checking, Given
    <3> QED BY <1>j, <2>0, <3>1, <3>2 DEF FreshInv, RunsSince, Since
  <2>2. ASSUME NEW r \in runs, Collect(r) PROVE RunsSince'
    <3> DEFINE new == [r EXCEPT !.seen = Look]
    <3>1. new.job = r.job /\ new.seen = Look
      BY DEF TypeOK
    <3>2. runs' = (runs \ {r}) \cup {new}
      BY <2>2 DEF Collect
    <3> HIDE DEF new
    <3>3. \A q \in runs' : q \in runs \/ (q.job = r.job /\ q.seen = Look)
      BY <3>1, <3>2
    <3>4. Given(r.job) /\ now >= born[r.job] /\ now' = now
      BY <1>b, <2>0, <2>2 DEF FreshInv, RunsSince, Collect, BornPast
    <3> QED BY <1>j, <1>l, <2>0, <3>3, <3>4 DEF FreshInv, RunsSince, Since
  <2>3. CASE runs' \subseteq runs
    BY <1>j, <2>0, <2>3 DEF FreshInv, RunsSince, Since
  <2> QED
    BY <2>1, <2>2, <2>3 DEF Next, Change, Edit, Tick, PageRead, PageWrite, Commit, Start, Post,
       PostLost, ReportBuilt, AutoCheck, ReportIn, Claim, Probed, Record, FailWrite, Crash
<1>3. WorkSince'
  <2>1. ASSUME NEW w \in Workers, NEW j \in Jobs, Claim(w, j) PROVE WorkSince'
    <3>1. Given(j)
      BY <2>1 DEF Claim, Checking, Given
    <3>2. \A v \in Workers : work'[v] = work[v] \/
             (work'[v].step = "probing" /\ work'[v].job = j)
      BY <2>1 DEF Claim, TypeOK
    <3> QED BY <1>j, <3>1, <3>2 DEF FreshInv, WorkSince, Since
  <2>2. ASSUME NEW w \in Workers, NEW ok \in BOOLEAN, Probed(w, ok) PROVE WorkSince'
    <3> DEFINE old == work[w]
    <3>0. old.job \in Jobs /\ Given(old.job) /\ now >= born[old.job]
      BY <2>2, <1>b DEF Probed, FreshInv, WorkSince
    <3>1. work'[w] = IF ok THEN [step |-> "got", job |-> old.job, since |-> old.since, seen |-> Look]
                     ELSE IF Checking(old.job) THEN [old EXCEPT !.step = "failing"] ELSE Idle
      BY <2>2 DEF Probed, TypeOK
    <3>2. \A v \in Workers : v # w => work'[v] = work[v]
      BY <2>2 DEF Probed, TypeOK
    <3>3. [old EXCEPT !.step = "failing"].job = old.job /\ [old EXCEPT !.step = "failing"].step = "failing"
      BY DEF TypeOK
    <3>4. work'[w].step # "idle" => /\ work'[w].job = old.job
                                    /\ work'[w].step = "got" => work'[w].seen = Look
      <4>1. CASE ok
        BY <3>1, <4>1
      <4>2. CASE ~ok /\ Checking(old.job)
        BY <3>1, <3>3, <4>2
      <4>3. CASE ~ok /\ ~Checking(old.job)
        BY <3>1, <4>3 DEF Idle
      <4> QED BY <4>1, <4>2, <4>3
    <3>5. now' = now
      BY <2>2 DEF Probed
    <3> HIDE DEF old
    <3> QED BY <1>j, <1>l, <3>0, <3>2, <3>4, <3>5 DEF FreshInv, WorkSince, Since
  <2>3. CASE \A v \in Workers : work'[v] = work[v] \/ work'[v] = Idle
    <3>1. Idle.step = "idle"
      BY DEF Idle
    <3> QED BY <1>j, <2>3, <3>1 DEF FreshInv, WorkSince, Since
  <2>4. CASE Crash \/ \E w \in Workers : FailWrite(w)
    BY <2>3, <2>4 DEF Crash, FailWrite, TypeOK
  <2>5. CASE \E w \in Workers, ok \in BOOLEAN : Record(w, ok)
    BY <2>3, <2>5 DEF Record, TypeOK
  <2>6. CASE work' = work
    BY <2>3, <2>6
  <2> QED
    BY <2>1, <2>2, <2>4, <2>5, <2>6 DEF Next, Change, Edit, Tick, PageRead, PageWrite, Commit,
       Start, Poll, Collect, Post, PostLost, ReportBuilt, AutoCheck, ReportIn
<1>4. TxSince'
  <2> DEFINE New(j, t, o) == /\ t.end \in Ended
                             /\ t.end = "fixed" => t.seen = o /\ Clean(o.val)
                             /\ t.end = "unavailable" => t.seen = None
  <2>0. ASSUME NEW j \in Jobs, NEW t, NEW o, New(j, t, o), Checking(j), Since(j, o),
               tx' = [tx EXCEPT ![j] = t], UNCHANGED <<status, born>>
        PROVE  TxSince'
    BY <2>0 DEF FreshInv, TxSince, Locked, Checking, Since, TypeOK
  <2>1. ASSUME NEW r \in runs, NEW ok \in BOOLEAN, Post(r, ok), Checking(r.job) PROVE TxSince'
    <3>1. r.job \in Jobs /\ r.seen \in Observations \cup {None} /\ Since(r.job, r.seen)
      BY <2>1 DEF Post, TypeOK, FreshInv, RunsSince
    <3>2. PICK t : t = Judge(r.job, ok /\ taken[r.job] # Never /\ Mergeable(r.job, r.seen), r.seen)
      OBVIOUS
    <3>3. New(r.job, t, r.seen)
      BY <3>1, <3>2, JudgeType
    <3>4. tx' = [tx EXCEPT ![r.job] = t] /\ UNCHANGED <<status, born>>
      BY <2>1, <3>2 DEF Post
    <3> HIDE DEF New
    <3> QED BY <2>0, <2>1, <3>1, <3>3, <3>4
  <2>2. ASSUME NEW w \in Workers, NEW ok \in BOOLEAN, Record(w, ok), Checking(work[w].job)
        PROVE  TxSince'
    <3>1. /\ work[w].job \in Jobs /\ work[w].seen \in Observations \cup {None}
          /\ Since(work[w].job, work[w].seen)
      BY <2>2 DEF Record, TypeOK, FreshInv, WorkSince
    <3>2. PICK t : t = Judge(work[w].job, ok /\ Fresh(work[w].job), work[w].seen)
      OBVIOUS
    <3>3. New(work[w].job, t, work[w].seen)
      BY <3>1, <3>2, JudgeType
    <3>4. tx' = [tx EXCEPT ![work[w].job] = t] /\ UNCHANGED <<status, born>>
      BY <2>2, <3>2 DEF Record
    <3> HIDE DEF New
    <3> QED BY <2>0, <2>2, <3>1, <3>3, <3>4
  <2>3. ASSUME NEW i \in Jobs, Commit(i) PROVE TxSince'
    <3>1. \A j \in Jobs : Locked(j)' => j # i /\ tx'[j] = tx[j] /\ Locked(j)
      BY <2>3 DEF Commit, Locked, TypeOK
    <3>2. \A j \in Jobs : j # i => status'[j] = status[j] /\ born' = born
      BY <2>3 DEF Commit, TypeOK
    <3> QED BY <3>1, <3>2 DEF FreshInv, TxSince, Checking, Since
  <2>4. CASE Crash
    BY <2>4 DEF Crash, TxSince, Locked
  <2>5. CASE tx' = tx /\ \A j \in Jobs : ~Commit(j)
    <3>1. \A j \in Jobs : Locked(j) => Given(j) /\ status'[j] = status[j] /\ born'[j] = born[j]
      BY <1>j, <2>5 DEF FreshInv, TxSince, Checking, Given
    <3> QED BY <2>5, <3>1 DEF FreshInv, TxSince, Locked, Checking, Since
  <2>6. CASE \E j \in Jobs : Commit(j)
    BY <2>3, <2>6
  <2> QED
    BY <2>1, <2>2, <2>4, <2>5, <2>6 DEF Next, Change, Edit, Tick, PageRead, PageWrite, Start, Poll,
       Collect, Post, PostLost, ReportBuilt, AutoCheck, ReportIn, Claim, Probed, Record, FailWrite
<1>5. FixedIsFresh'
  <2> SUFFICES ASSUME NEW j \in Jobs, status'[j] = "fixed"
               PROVE  proof'[j] # None /\ Clean(proof'[j].val) /\ proof'[j].obs >= born'[j]
    BY DEF FixedIsFresh
  <2>1. CASE Commit(j)
    <3>1. status'[j] = tx[j].end /\ born' = born
      BY <2>1 DEF Commit, TypeOK
    <3>2. Since(j, tx[j].seen) /\ Clean(tx[j].seen.val)
      BY <2>1, <3>1 DEF Commit, FreshInv, TxSince
    <3>3. proof'[j] = tx[j].seen
      BY <2>1, <3>2 DEF Commit, Since, TypeOK
    <3> QED BY <3>1, <3>2, <3>3 DEF Since
  <2>2. CASE ~Commit(j)
    <3>1. status[j] = "fixed" /\ proof'[j] = proof[j] /\ born'[j] = born[j]
      BY <1>j, <2>2 DEF Given
    <3> QED BY <3>1 DEF FreshInv, FixedIsFresh
  <2> QED BY <2>1, <2>2
<1> QED BY <1>1, <1>2, <1>3, <1>4, <1>5 DEF FreshInv

LEMMA FreshHolds == Spec => [](TypeOK /\ FreshInv)
<1>1. Init => TypeOK /\ EditsCount /\ FreshInv
  BY TypeInit, FreshInit
<1>2. TypeOK /\ EditsCount /\ FreshInv /\ [Next]_vars => (TypeOK /\ EditsCount /\ FreshInv)'
  BY TypeStep, FreshStep
<1> QED BY <1>1, <1>2, PTL DEF Spec

(* A job is fixed only by an observation made after the request that shows *)
(* no problem: for any number of jobs and workers, any time limits, lost   *)
(* polls and answers, retries and restarts.                                *)
THEOREM FixedMeansFresh == Spec => []FixedIsFresh
<1>1. FreshInv => FixedIsFresh
  BY DEF FreshInv
<1> QED BY <1>1, FreshHolds, PTL

(* Whoever ended a job, no late answer turns it into a recovery.           *)
THEOREM RecoveryIsNeverLate == Spec => NoLateRecovery
<1>1. TypeOK /\ FreshInv /\ [Next]_vars
        => [\A j \in Jobs : status[j] \in {"remains", "unavailable"} => status'[j] # "fixed"]_vars
  <2> SUFFICES ASSUME TypeOK, FreshInv, Next, NEW j \in Jobs, status[j] \in {"remains", "unavailable"}
               PROVE  status'[j] # "fixed"
    OBVIOUS
  <2>1. ~Commit(j)
    BY DEF Commit, FreshInv, TxSince, Checking
  <2> QED BY <2>1, JobStep
<1> QED BY <1>1, FreshHolds, PTL DEF Spec, NoLateRecovery

-----------------------------------------------------------------------------
(* The lease.                                                              *)

Busy(w) == work[w].step # "idle"
\* The job of a busy worker was taken by that worker, no longer than a lease ago.
Holds(w) == /\ kind = "site"
            /\ work[w].job \in Jobs /\ work[w].since \in Times
            /\ taken[work[w].job] = work[w].since
            /\ now - work[w].since <= LEASE
            /\ work[w].step = "probing" => now - work[w].since <= PANEL_TIMEOUT
LeaseInv == /\ \A w \in Workers : Busy(w) => Holds(w)
            /\ \A w \in Workers : ~Busy(w) => work[w] = Idle
            /\ OneWorker

LEMMA LeaseInit == Init => LeaseInv
BY DEF Init, LeaseInv, Busy, Idle, OneWorker

LEMMA LeaseStep == ASSUME PANEL_TIMEOUT <= LEASE PROVE TypeOK /\ LeaseInv /\ [Next]_vars => LeaseInv'
<1> SUFFICES ASSUME TypeOK, LeaseInv, [Next]_vars PROVE LeaseInv'
  OBVIOUS
<1>c. LEASE \in Nat /\ PANEL_TIMEOUT \in Nat /\ now \in Nat
  BY RecheckConstants DEF TypeOK
<1>i. Idle.step = "idle" /\ Idle.job \notin Jobs
  BY RecheckConstants DEF Idle
\* A step that frees workers and leaves the leases of the busy ones alone.
<1>1. ASSUME kind' = kind, now' = now,
             \A w \in Workers : work'[w] = work[w] \/ work'[w] = Idle,
             \A w \in Workers : Busy(w) => taken'[work[w].job] = taken[work[w].job]
      PROVE  LeaseInv'
  <2>1. \A w \in Workers : Busy(w)' => Busy(w) /\ work'[w] = work[w]
    BY <1>1, <1>i DEF Busy
  <2>2. \A w \in Workers : Busy(w)' => Holds(w)'
    BY <1>1, <2>1 DEF LeaseInv, Holds
  <2>3. \A w \in Workers : ~Busy(w)' => work'[w] = Idle
    BY <1>1 DEF LeaseInv, Busy
  <2>4. OneWorker'
    BY <1>1, <1>i, <2>1 DEF LeaseInv, OneWorker, Busy, Holds
  <2> QED BY <2>2, <2>3, <2>4 DEF LeaseInv
<1>2. CASE Change \/ Edit \/ ReportBuilt \/ AutoCheck \/ UNCHANGED vars
  BY <1>1, <1>2 DEF Change, Edit, ReportBuilt, AutoCheck
<1>3. CASE Crash
  BY <1>1, <1>3 DEF Crash
<1>4. CASE \E j \in Jobs : PageRead(j) \/ PageWrite(j) \/ Commit(j) \/ \E able \in BOOLEAN : Start(j, able)
  BY <1>1, <1>4 DEF PageRead, PageWrite, Commit, Start
<1>5. CASE \E heard \in BOOLEAN : Poll(heard)
  <2>1. \A w \in Workers : ~Busy(w)
    BY <1>5 DEF Poll, LeaseInv, Holds
  <2> QED BY <1>1, <1>5, <2>1 DEF Poll
<1>6. CASE \E r \in runs : Collect(r) \/ PostLost(r) \/ \E ok \in BOOLEAN : Post(r, ok)
  BY <1>1, <1>6 DEF Collect, PostLost, Post
<1>7. CASE \E ok \in BOOLEAN : ReportIn(ok)
  BY <1>1, <1>7 DEF ReportIn
<1>8. CASE \E w \in Workers : FailWrite(w) \/ \E ok \in BOOLEAN : Record(w, ok)
  <2>1. \A v \in Workers : work'[v] = work[v] \/ work'[v] = Idle
    BY <1>8 DEF FailWrite, Record, TypeOK
  <2> QED BY <1>1, <1>8, <2>1 DEF FailWrite, Record
<1>9. CASE Tick
  <2>1. UNCHANGED <<kind, work, taken>> /\ now' = now + 1
    BY <1>9 DEF Tick
  <2>2. \A w \in Workers : Busy(w) => now + 1 - work[w].since <= LEASE /\
            (work[w].step = "probing" => now + 1 - work[w].since <= PANEL_TIMEOUT)
    <3> SUFFICES ASSUME NEW w \in Workers, Busy(w)
                 PROVE  now + 1 - work[w].since <= LEASE /\
                        (work[w].step = "probing" => now + 1 - work[w].since <= PANEL_TIMEOUT)
      OBVIOUS
    <3>1. work[w].since \in Int /\ work[w].step \in {"probing", "got", "failing"}
      BY DEF LeaseInv, Holds, Busy, TypeOK, Steps
    <3> QED BY <1>9, <1>c, <3>1 DEF Tick
  <2>3. \A w \in Workers : Busy(w)' => Holds(w)'
    <3> SUFFICES ASSUME NEW w \in Workers, Busy(w)' PROVE Holds(w)'
      OBVIOUS
    <3>1. work' = work /\ taken' = taken /\ kind' = kind
      BY <2>1
    <3>2. Busy(w) /\ Holds(w)
      BY <3>1 DEF LeaseInv, Busy
    <3>3. now' - work[w].since <= LEASE /\ (work[w].step = "probing" => now' - work[w].since <= PANEL_TIMEOUT)
      <4>1. now' = now + 1 /\ now \in Int /\ work[w].since \in Int
        BY <1>c, <2>1, <3>2 DEF Holds
      <4> QED BY <2>2, <3>2, <4>1
    <3> QED BY <3>1, <3>2, <3>3 DEF Holds
  <2>4. OneWorker' /\ \A w \in Workers : ~Busy(w)' => work'[w] = Idle
    BY <2>1 DEF LeaseInv, OneWorker, Busy
  <2> QED BY <2>3, <2>4 DEF LeaseInv
<1>10. ASSUME NEW w \in Workers, NEW j \in Jobs, Claim(w, j) PROVE LeaseInv'
  <2>1. \A v \in Workers : Busy(v) => work[v].job # j
    <3> SUFFICES ASSUME NEW v \in Workers, Busy(v), work[v].job = j PROVE FALSE
      OBVIOUS
    <3>1. taken[j] \in Times /\ now - taken[j] <= LEASE
      BY DEF LeaseInv, Holds
    <3> QED BY <1>10, <1>c, <3>1 DEF Claim, Free
  <2>2. UNCHANGED <<kind, now>> /\ kind = "site" /\ taken' = [taken EXCEPT ![j] = now]
    BY <1>10 DEF Claim
  <2>3. CASE work' = work
    BY <1>1, <2>1, <2>2, <2>3 DEF TypeOK, LeaseInv, Holds
  <2>4. CASE work' = [work EXCEPT ![w] = [step |-> "probing", job |-> j, since |-> now, seen |-> None]]
    <3>1. /\ work'[w].step = "probing" /\ work'[w].job = j /\ work'[w].since = now
          /\ \A v \in Workers : v # w => work'[v] = work[v]
      BY <2>4 DEF TypeOK
    <3>2. Holds(w)'
      BY <1>c, <2>2, <3>1 DEF Holds, TypeOK
    <3>3. \A v \in Workers : v # w /\ Busy(v)' => Holds(v)'
      BY <2>1, <2>2, <3>1 DEF LeaseInv, Holds, Busy, TypeOK
    <3>4. \A v \in Workers : ~Busy(v)' => work'[v] = Idle
      BY <3>1 DEF LeaseInv, Busy
    <3>5. \A v \in Workers : v # w => work'[v].job # j
      BY <1>i, <2>1, <3>1 DEF LeaseInv
    <3>6. OneWorker'
      BY <3>1, <3>5 DEF LeaseInv, OneWorker
    <3> QED BY <3>2, <3>3, <3>4, <3>6 DEF LeaseInv
  <2> QED BY <1>10, <2>3, <2>4 DEF Claim
<1>11. ASSUME NEW w \in Workers, NEW ok \in BOOLEAN, Probed(w, ok) PROVE LeaseInv'
  <2> DEFINE old == work[w]
  <2>1. work'[w] = IF ok THEN [step |-> "got", job |-> old.job, since |-> old.since, seen |-> Look]
                   ELSE IF Checking(old.job) THEN [old EXCEPT !.step = "failing"] ELSE Idle
    BY <1>11 DEF Probed, TypeOK
  <2>2. [old EXCEPT !.step = "failing"].job = old.job /\ [old EXCEPT !.step = "failing"].since = old.since
        /\ [old EXCEPT !.step = "failing"].step = "failing"
    BY DEF TypeOK
  <2>3. \/ work'[w] = Idle
        \/ work'[w].step \in {"got", "failing"} /\ work'[w].job = old.job /\ work'[w].since = old.since
    <3>1. CASE ok
      BY <2>1, <3>1
    <3>2. CASE ~ok /\ Checking(old.job)
      BY <2>1, <2>2, <3>2
    <3>3. CASE ~ok /\ ~Checking(old.job)
      BY <2>1, <3>3
    <3> QED BY <3>1, <3>2, <3>3
  <2>4. UNCHANGED <<kind, now, taken>> /\ \A v \in Workers : v # w => work'[v] = work[v]
    BY <1>11 DEF Probed, TypeOK
  <2>5. Busy(w) /\ Holds(w)
    BY <1>11 DEF Probed, LeaseInv, Busy
  <2>6. \A v \in Workers : Busy(v)' => Holds(v)'
    BY <1>i, <2>3, <2>4, <2>5 DEF LeaseInv, Holds, Busy
  <2>7. \A v \in Workers : ~Busy(v)' => work'[v] = Idle
    BY <2>3, <2>4 DEF LeaseInv, Busy
  <2>8. OneWorker'
    BY <1>i, <2>3, <2>4, <2>5 DEF LeaseInv, OneWorker, Busy, Holds
  <2> QED BY <2>6, <2>7, <2>8 DEF LeaseInv
<1> QED
  BY <1>2, <1>3, <1>4, <1>5, <1>6, <1>7, <1>8, <1>9, <1>10, <1>11 DEF Next

(* Two workers never probe for one job, for any number of workers and jobs, *)
(* as long as the lease covers a probe (75 and 60 seconds in the code).     *)
THEOREM LeaseIsExclusive == ASSUME PANEL_TIMEOUT <= LEASE PROVE Spec => []OneWorker
<1>1. Init => TypeOK /\ EditsCount /\ LeaseInv
  BY TypeInit, LeaseInit
<1>2. TypeOK /\ EditsCount /\ LeaseInv /\ [Next]_vars => (TypeOK /\ EditsCount /\ LeaseInv)'
  BY TypeStep, LeaseStep
<1>3. LeaseInv => OneWorker
  BY DEF LeaseInv
<1> QED BY <1>1, <1>2, <1>3, PTL DEF Spec
-----------------------------------------------------------------------------
(* What is held is never older.                                            *)

LEMMA SeenType == TypeOK => Seen \subseteq Observations
BY DEF TypeOK, Seen

LEMMA SeenMember ==
    /\ rec # None => rec \in Seen
    /\ sending # None => sending \in Seen
    /\ \A r \in runs : r.seen # None => r.seen \in Seen
    /\ \A w \in Workers : work[w].seen # None => work[w].seen \in Seen
    /\ \A j \in Jobs : tx[j].seen # None => tx[j].seen \in Seen
    /\ \A j \in Jobs : spec[j].base # None => spec[j].base \in Seen
BY DEF Seen

\* An observation is made now or copied.
LEMMA SeenStep == ASSUME TypeOK, FreshInv, Next PROVE Seen' \subseteq Seen \cup {Look}
<1> DEFINE Old == Seen \cup {Look, None}
<1>m. /\ rec \in Old /\ sending \in Old /\ (\A r \in runs : r.seen \in Old)
      /\ (\A w \in Workers : work[w].seen \in Old) /\ (\A j \in Jobs : tx[j].seen \in Old)
      /\ (\A j \in Jobs : spec[j].base \in Old) /\ None \in Old /\ Look \in Old
  BY SeenMember
<1>n. Idle.seen = None /\ NoTx.seen = None
  BY DEF Idle, NoTx
<1>c. Old \ {None} \subseteq Seen \cup {Look}
  OBVIOUS
<1> HIDE DEF Old
<1>1. rec' \in Old
  <2>1. ASSUME NEW j \in Jobs, Commit(j) PROVE rec' \in Old
    BY <1>m, <2>1 DEF Commit
  <2>2. CASE AutoCheck \/ \E ok \in BOOLEAN : ReportIn(ok)
    BY <1>m, <2>2 DEF AutoCheck, ReportIn
  <2>3. CASE rec' = rec
    BY <1>m, <2>3
  <2> QED
    BY <2>1, <2>2, <2>3 DEF Next, Change, Edit, Tick, PageRead, PageWrite, Start, Poll, Collect,
       Post, PostLost, ReportBuilt, Claim, Probed, Record, FailWrite, Crash
<1>2. sending' \in Old
  BY <1>m DEF Next, Change, Edit, Tick, PageRead, PageWrite, Commit, Start, Poll, Collect, Post,
     PostLost, ReportBuilt, ReportIn, AutoCheck, Claim, Probed, Record, FailWrite, Crash
<1>3. \A r \in runs' : r.seen \in Old
  <2>1. ASSUME NEW heard \in BOOLEAN, Poll(heard) PROVE \A r \in runs' : r.seen \in Old
    <3>1. \A r \in runs' : r \in runs \/ r.seen = None
      BY <2>1 DEF Poll
    <3> QED BY <1>m, <3>1
  <2>2. ASSUME NEW r \in runs, Collect(r) PROVE \A q \in runs' : q.seen \in Old
    <3> DEFINE new == [r EXCEPT !.seen = Look]
    <3>1. new.seen = Look
      BY DEF TypeOK
    <3>2. runs' = (runs \ {r}) \cup {new}
      BY <2>2 DEF Collect
    <3> HIDE DEF new
    <3> QED BY <1>m, <3>1, <3>2
  <2>3. CASE runs' \subseteq runs
    BY <1>m, <2>3
  <2> QED
    BY <2>1, <2>2, <2>3 DEF Next, Change, Edit, Tick, PageRead, PageWrite, Commit, Start, Post,
       PostLost, ReportBuilt, AutoCheck, ReportIn, Claim, Probed, Record, FailWrite, Crash
<1>4. \A w \in Workers : work'[w].seen \in Old
  <2>1. ASSUME NEW w \in Workers, NEW j \in Jobs, Claim(w, j)
        PROVE  \A v \in Workers : work'[v].seen \in Old
    <3>1. \A v \in Workers : work'[v] = work[v] \/ work'[v].seen = None
      BY <2>1 DEF Claim, TypeOK
    <3> QED BY <1>m, <3>1
  <2>2. ASSUME NEW w \in Workers, NEW ok \in BOOLEAN, Probed(w, ok)
        PROVE  \A v \in Workers : work'[v].seen \in Old
    <3> DEFINE old == work[w]
    <3>1. work'[w] = IF ok THEN [step |-> "got", job |-> old.job, since |-> old.since, seen |-> Look]
                     ELSE IF Checking(old.job) THEN [old EXCEPT !.step = "failing"] ELSE Idle
      BY <2>2 DEF Probed, TypeOK
    <3>2. [old EXCEPT !.step = "failing"].seen = old.seen
      BY DEF TypeOK
    <3>3. work'[w].seen \in {Look, old.seen, None}
      <4>1. CASE ok
        BY <3>1, <4>1
      <4>2. CASE ~ok /\ Checking(old.job)
        BY <3>1, <3>2, <4>2
      <4>3. CASE ~ok /\ ~Checking(old.job)
        BY <1>n, <3>1, <4>3
      <4> QED BY <4>1, <4>2, <4>3
    <3>4. \A v \in Workers : v # w => work'[v] = work[v]
      BY <2>2 DEF Probed, TypeOK
    <3> QED BY <1>m, <3>3, <3>4
  <2>3. CASE \A v \in Workers : work'[v] = work[v] \/ work'[v] = Idle
    BY <1>m, <1>n, <2>3
  <2>4. CASE Crash \/ \E w \in Workers : FailWrite(w)
    BY <2>3, <2>4 DEF Crash, FailWrite, TypeOK
  <2>5. CASE \E w \in Workers, ok \in BOOLEAN : Record(w, ok)
    BY <2>3, <2>5 DEF Record, TypeOK
  <2>6. CASE work' = work
    BY <2>3, <2>6
  <2> QED
    BY <2>1, <2>2, <2>4, <2>5, <2>6 DEF Next, Change, Edit, Tick, PageRead, PageWrite, Commit,
       Start, Poll, Collect, Post, PostLost, ReportBuilt, AutoCheck, ReportIn
<1>5. \A j \in Jobs : tx'[j].seen \in Old
  <2>1. ASSUME NEW r \in runs, NEW ok \in BOOLEAN, Post(r, ok) PROVE \A j \in Jobs : tx'[j].seen \in Old
    BY <1>m, <2>1 DEF Post, Judge, TypeOK
  <2>2. ASSUME NEW w \in Workers, NEW ok \in BOOLEAN, Record(w, ok)
        PROVE  \A j \in Jobs : tx'[j].seen \in Old
    BY <1>m, <2>2 DEF Record, Judge, TypeOK
  <2>3. CASE Crash \/ \E j \in Jobs : Commit(j)
    BY <1>m, <1>n, <2>3 DEF Crash, Commit, TypeOK
  <2>4. CASE tx' = tx
    BY <1>m, <2>4
  <2> QED
    BY <2>1, <2>2, <2>3, <2>4 DEF Next, Change, Edit, Tick, PageRead, PageWrite, Start, Poll,
       Collect, PostLost, ReportBuilt, AutoCheck, ReportIn, Claim, Probed, FailWrite
<1>6. \A j \in Jobs : spec'[j].base \in Old
  <2>1. ASSUME NEW i \in Jobs, NEW able \in BOOLEAN, Start(i, able)
        PROVE  \A j \in Jobs : spec'[j].base \in Old
    BY <1>m, <2>1 DEF Start, TypeOK
  <2>2. ASSUME NEW heard \in BOOLEAN, Poll(heard) PROVE \A j \in Jobs : spec'[j].base \in Old
    <3>1. \A j \in Jobs : [spec[j] EXCEPT !.base = Baseline(j)].base = Baseline(j)
      BY DEF TypeOK
    <3>2. \A j \in Jobs : spec'[j].base \in {spec[j].base, Baseline(j)}
      BY <2>2, <3>1 DEF Poll
    <3> QED BY <1>m, <3>2 DEF Baseline
  <2>3. CASE spec' = spec
    BY <1>m, <2>3
  <2> QED
    BY <2>1, <2>2, <2>3 DEF Next, Change, Edit, Tick, PageRead, PageWrite, Commit, Collect, Post,
       PostLost, ReportBuilt, AutoCheck, ReportIn, Claim, Probed, Record, FailWrite, Crash
<1>7. Seen' \subseteq Old \ {None}
  BY <1>1, <1>2, <1>3, <1>4, <1>5, <1>6 DEF Seen
<1> QED BY <1>c, <1>7

\* The clock and the object go on, and the object stays what it is.
LEMMA WorldStep ==
    ASSUME TypeOK, Next
    PROVE  now' >= now /\ world' >= world /\ kind' = kind /\ (~Tick => now' = now)
<1>1. now \in Int /\ world \in Int
  BY DEF TypeOK, Values
<1> QED
  BY <1>1 DEF Next, Change, Edit, Tick, PageRead, PageWrite, Commit, Start, Poll, Collect, Post,
     PostLost, ReportBuilt, ReportIn, AutoCheck, Claim, Probed, Record, FailWrite, Crash

\* A baseline that is set stays, and only a job of a server gets its later.
LEMMA BaseStep ==
    ASSUME TypeOK, Next, NEW j \in Jobs, Given(j), spec[j].base # None \/ kind = "site"
    PROVE  spec'[j].base = spec[j].base
<1>1. ASSUME NEW i \in Jobs, NEW able \in BOOLEAN, Start(i, able) PROVE spec'[j].base = spec[j].base
  BY <1>1 DEF Start, Given, TypeOK
<1>2. ASSUME NEW heard \in BOOLEAN, Poll(heard) PROVE spec'[j].base = spec[j].base
  <2>1. [spec[j] EXCEPT !.base = Baseline(j)].base = Baseline(j)
    BY DEF TypeOK
  <2>2. spec'[j].base \in {spec[j].base, Baseline(j)} /\ kind = "server"
    BY <1>2, <2>1 DEF Poll
  <2> QED BY <2>2 DEF Baseline
<1>3. CASE spec' = spec
  BY <1>3
<1> QED
  BY <1>1, <1>2, <1>3 DEF Next, Change, Edit, Tick, PageRead, PageWrite, Commit, Collect, Post,
     PostLost, ReportBuilt, AutoCheck, ReportIn, Claim, Probed, Record, FailWrite, Crash

LEMMA OrderInit == Init => OrderInv
<1> SUFFICES ASSUME Init PROVE OrderInv
  OBVIOUS
<1>1. Seen \subseteq {[val |-> 0, obs |-> 0]}
  BY DEF Init, Seen, Idle, NoTx
<1>2. SeenOrder
  BY <1>1 DEF Init, SeenOrder
<1>3. RunsAfterBase /\ WorkAfterBase /\ OneOpen /\ SendingNewest /\ TxNewer
  BY DEF Init, RunsAfterBase, WorkAfterBase, OneOpen, SendingNewest, TxNewer, Checking, Idle, NoTx
<1> QED BY <1>2, <1>3 DEF OrderInv

\* Only a start opens a job, and it ends every other.
LEMMA OpenStep == ASSUME TypeOK, OneOpen, Next PROVE OneOpen'
<1>1. ASSUME NEW i \in Jobs, NEW able \in BOOLEAN, Start(i, able) PROVE OneOpen'
  BY <1>1 DEF Start, OneOpen, Checking
<1>2. ASSUME NEW i \in Jobs, PageRead(i) \/ PageWrite(i) PROVE \A j \in Jobs : Checking(j)' => Checking(j)
  BY <1>2 DEF PageRead, PageWrite, Checking, TypeOK
<1>3. ASSUME NEW i \in Jobs, Commit(i) PROVE \A j \in Jobs : Checking(j)' => Checking(j)
  <2>1. tx[i].end # "checking"
    BY DEF TypeOK, Ended
  <2> QED BY <1>3, <2>1 DEF Commit, Checking, TypeOK
<1>4. ASSUME NEW heard \in BOOLEAN, Poll(heard) PROVE \A j \in Jobs : Checking(j)' => Checking(j)
  BY <1>4 DEF Poll, Checking
<1>5. ASSUME NEW w \in Workers, NEW i \in Jobs, Claim(w, i) PROVE \A j \in Jobs : Checking(j)' => Checking(j)
  BY <1>5 DEF Claim, Checking, TypeOK
<1>6. ASSUME NEW w \in Workers, FailWrite(w) PROVE \A j \in Jobs : Checking(j)' => Checking(j)
  BY <1>6 DEF FailWrite, Checking, TypeOK
<1>7. CASE status' = status
  BY <1>7 DEF OneOpen, Checking
<1>8. CASE \A j \in Jobs : Checking(j)' => Checking(j)
  BY <1>8 DEF OneOpen
<1> QED
  BY <1>1, <1>2, <1>3, <1>4, <1>5, <1>6, <1>7, <1>8 DEF Next, Change, Edit, Tick, Collect, Post,
     PostLost, ReportBuilt, AutoCheck, ReportIn, Probed, Record, Crash

\* The rules of the two routes: a snapshot is merged when the panel still holds the value
\* of the baseline, or the same value; a probe counts when the panel still holds the baseline.
LEMMA MergeIsNewer ==
    ASSUME TypeOK, OrderInv, NEW r \in runs, r.seen # None, Mergeable(r.job, r.seen),
           r.seen.obs < rec.obs
    PROVE  r.seen.val = rec.val
<1>1. rec \in Observations /\ r.job \in Jobs /\ spec[r.job].base \in Observations /\ r.seen \in Observations
  BY DEF TypeOK, OrderInv, RunsAfterBase
<1>2. rec \in Seen /\ r.seen \in Seen
  BY <1>1, SeenMember, NoneIsNone
<1>3. r.seen.val <= rec.val
  BY <1>2 DEF OrderInv, SeenOrder
<1>4. spec[r.job].base.val <= r.seen.val
  BY DEF OrderInv, RunsAfterBase
<1>5. rec.val \in Int /\ r.seen.val \in Int /\ spec[r.job].base.val \in Int
  BY <1>1 DEF Observations, Values
<1> QED BY <1>3, <1>4, <1>5 DEF Mergeable

LEMMA ProbeIsNewer ==
    ASSUME TypeOK, OrderInv, NEW w \in Workers, work[w].step = "got", Fresh(work[w].job)
    PROVE  ~(work[w].seen.obs < rec.obs)
<1>1. spec[work[w].job].base.obs <= work[w].seen.obs
  BY DEF OrderInv, WorkAfterBase
<1>2. rec.obs \in Int /\ work[w].seen.obs \in Int
  <2>1. work[w].seen \in Observations \cup {None}
    BY DEF TypeOK
  <2> QED BY <2>1 DEF TypeOK, Observations, None
<1> QED BY <1>1, <1>2 DEF Fresh

LEMMA OrderStep == TypeOK /\ FreshInv /\ OrderInv /\ [Next]_vars => OrderInv'
<1> SUFFICES ASSUME TypeOK, FreshInv, OrderInv, [Next]_vars PROVE OrderInv'
  OBVIOUS
<1>0. CASE UNCHANGED vars
  BY <1>0 DEF OrderInv, SeenOrder, Seen, RunsAfterBase, WorkAfterBase, OneOpen, SendingNewest,
              TxNewer, Checking
<1> SUFFICES ASSUME Next PROVE OrderInv'
  BY <1>0
<1>w. now' >= now /\ world' >= world /\ kind' = kind /\ (~Tick => now' = now)
  BY WorldStep
<1>t. now \in Int /\ world \in Int /\ now' \in Int /\ world' \in Int
  <2>1. now \in Int /\ world \in Int
    BY DEF TypeOK, Values
  <2>2. now' \in {now, now + 1} /\ world' \in {world, world + 1}
    BY DEF Next, Change, Edit, Tick, PageRead, PageWrite, Commit, Start, Poll, Collect, Post,
       PostLost, ReportBuilt, ReportIn, AutoCheck, Claim, Probed, Record, FailWrite, Crash
  <2> QED BY <2>1, <2>2
<1>l. Look.val = world /\ Look.obs = now /\ Look \in Observations /\ Look # None
  BY LookType, NoneIsNone DEF Look
<1>s. Seen \subseteq Observations /\ \A o \in Observations : o.val \in Int /\ o.obs \in Int
  BY SeenType DEF Observations, Values
<1>p. \A o \in Seen : /\ o.val <= world /\ o.obs <= now
                      /\ \A p \in Seen : o.obs < p.obs => o.val <= p.val
  BY DEF OrderInv, SeenOrder
<1>n. None.val = 0 - 1 /\ None.obs = 0 - 1 /\ now >= 0 /\ world >= 0
  BY DEF None, TypeOK, Values
<1>g. \A r \in runs : r.job \in Jobs /\ Given(r.job)
  BY DEF TypeOK, FreshInv, RunsSince
<1>r. rec \in Observations /\ rec # None /\ rec \in Seen
  BY SeenMember, NoneIsNone DEF TypeOK
<1>1. SeenOrder'
  <2>1. Seen' \subseteq Seen \cup {Look}
    BY SeenStep
  <2>2. ASSUME NEW o \in Seen \cup {Look}, NEW p \in Seen \cup {Look}
        PROVE  o.val <= world' /\ o.obs <= now' /\ (o.obs < p.obs => o.val <= p.val)
    BY <1>w, <1>t, <1>l, <1>s, <1>p
  <2> QED BY <2>1, <2>2 DEF SeenOrder
<1>2. RunsAfterBase'
  <2>0. \A r \in runs : spec[r.job].base # None /\ spec'[r.job].base = spec[r.job].base
    BY <1>g, BaseStep DEF OrderInv, RunsAfterBase
  <2>1. ASSUME NEW heard \in BOOLEAN, Poll(heard) PROVE RunsAfterBase'
    <3>1. \A r \in runs' : r \in runs \/ (r.job \in HandOut /\ r.seen = None)
      BY <2>1 DEF Poll
    <3>2. \A j \in HandOut : j \in Jobs /\ spec'[j].base # None
      <4> SUFFICES ASSUME NEW j \in HandOut PROVE j \in Jobs /\ spec'[j].base # None
        OBVIOUS
      <4>1. j \in Jobs
        BY DEF HandOut
      <4>2. spec'[j] = [spec[j] EXCEPT !.base = Baseline(j)]
        BY <2>1, <4>1 DEF Poll
      <4>3. spec'[j].base = Baseline(j)
        BY <4>1, <4>2 DEF TypeOK
      <4> QED BY <1>r, <4>1, <4>3 DEF Baseline
    <3> QED BY <2>0, <3>1, <3>2 DEF OrderInv, RunsAfterBase
  <2>2. ASSUME NEW r \in runs, Collect(r) PROVE RunsAfterBase'
    <3> DEFINE new == [r EXCEPT !.seen = Look]
    <3>1. new.job = r.job /\ new.seen = Look
      BY DEF TypeOK
    <3>2. runs' = (runs \ {r}) \cup {new}
      BY <2>2 DEF Collect
    <3> HIDE DEF new
    <3>3. spec[r.job].base \in Seen
      BY <1>g, <2>0, SeenMember
    <3>4. spec[r.job].base.val <= Look.val
      BY <1>l, <1>p, <3>3
    <3> QED BY <2>0, <3>1, <3>2, <3>4 DEF OrderInv, RunsAfterBase
  <2>3. CASE runs' \subseteq runs
    BY <2>0, <2>3 DEF OrderInv, RunsAfterBase
  <2> QED
    BY <2>1, <2>2, <2>3 DEF Next, Change, Edit, Tick, PageRead, PageWrite, Commit, Start, Post,
       PostLost, ReportBuilt, AutoCheck, ReportIn, Claim, Probed, Record, FailWrite, Crash
<1>3. WorkAfterBase'
  <2>0. \A w \in Workers : work[w].step # "idle" =>
           spec'[work[w].job].base = spec[work[w].job].base
    BY BaseStep DEF OrderInv, WorkAfterBase, FreshInv, WorkSince
  <2>b. \A j \in Jobs : spec[j].base.obs <= now /\ spec[j].base.obs \in Int
    BY <1>n, <1>p, <1>s, <1>t, SeenMember
  <2>1. ASSUME NEW w \in Workers, NEW j \in Jobs, Claim(w, j) PROVE WorkAfterBase'
    <3>1. \A v \in Workers : work'[v] = work[v] \/
             (work'[v].step = "probing" /\ work'[v].job = j)
      BY <2>1 DEF Claim, TypeOK
    <3>2. kind' = "site" /\ spec' = spec /\ now' = now
      BY <2>1 DEF Claim
    <3> QED BY <2>b, <3>1, <3>2 DEF OrderInv, WorkAfterBase
  <2>2. ASSUME NEW w \in Workers, NEW ok \in BOOLEAN, Probed(w, ok) PROVE WorkAfterBase'
    <3> DEFINE old == work[w]
    <3>1. work'[w] = IF ok THEN [step |-> "got", job |-> old.job, since |-> old.since, seen |-> Look]
                     ELSE IF Checking(old.job) THEN [old EXCEPT !.step = "failing"] ELSE Idle
      BY <2>2 DEF Probed, TypeOK
    <3>2. [old EXCEPT !.step = "failing"].job = old.job /\ [old EXCEPT !.step = "failing"].step = "failing"
      BY DEF TypeOK
    <3>3. work'[w].step # "idle" => /\ work'[w].job = old.job
                                    /\ work'[w].step = "got" => work'[w].seen = Look
      <4>1. CASE ok
        BY <3>1, <4>1
      <4>2. CASE ~ok /\ Checking(old.job)
        BY <3>1, <3>2, <4>2
      <4>3. CASE ~ok /\ ~Checking(old.job)
        BY <3>1, <4>3 DEF Idle
      <4> QED BY <4>1, <4>2, <4>3
    <3>4. (\A v \in Workers : v # w => work'[v] = work[v]) /\ UNCHANGED <<now, kind, spec>>
      BY <2>2 DEF Probed, TypeOK
    <3>5. kind = "site" /\ spec[old.job].base.obs <= now
      BY <2>2 DEF Probed, OrderInv, WorkAfterBase
    <3> HIDE DEF old
    <3> QED BY <1>l, <3>3, <3>4, <3>5 DEF OrderInv, WorkAfterBase
  <2>3. CASE \A v \in Workers : work'[v] = work[v] \/ work'[v] = Idle
    <3>1. Idle.step = "idle"
      BY DEF Idle
    <3> SUFFICES ASSUME NEW v \in Workers, work'[v].step # "idle"
                 PROVE  /\ kind' = "site" /\ spec'[work'[v].job].base.obs <= now'
                        /\ work'[v].step = "got" => spec'[work'[v].job].base.obs <= work'[v].seen.obs
      BY DEF WorkAfterBase
    <3>2. work'[v] = work[v] /\ work[v].step # "idle"
      BY <2>3, <3>1
    <3>3. /\ kind = "site" /\ work[v].job \in Jobs /\ spec[work[v].job].base.obs <= now
          /\ work[v].step = "got" => spec[work[v].job].base.obs <= work[v].seen.obs
      BY <3>2 DEF OrderInv, WorkAfterBase, FreshInv, WorkSince
    <3>4. spec[work[v].job].base.obs <= now'
      BY <1>t, <1>w, <2>b, <3>3
    <3> QED BY <1>w, <2>0, <3>2, <3>3, <3>4
  <2>4. CASE Crash \/ \E w \in Workers : FailWrite(w)
    BY <2>3, <2>4 DEF Crash, FailWrite, TypeOK
  <2>5. CASE \E w \in Workers, ok \in BOOLEAN : Record(w, ok)
    BY <2>3, <2>5 DEF Record, TypeOK
  <2>6. CASE work' = work
    BY <2>3, <2>6
  <2> QED
    BY <2>1, <2>2, <2>4, <2>5, <2>6 DEF Next, Change, Edit, Tick, PageRead, PageWrite, Commit,
       Start, Poll, Collect, Post, PostLost, ReportBuilt, AutoCheck, ReportIn
<1>4. OneOpen'
  BY OpenStep DEF OrderInv
\* Of the jobs at most one is locked, so a commit leaves no other answer behind.
<1>k. \A i, j \in Jobs : tx[i].seen # None /\ Locked(j) => i = j
  <2>1. \A i \in Jobs : tx[i].seen # None => Locked(i)
    BY DEF Locked, NoTx
  <2> QED BY <2>1 DEF OrderInv, OneOpen, FreshInv, TxSince
<1>x. ASSUME NEW j \in Jobs, tx'[j].seen # None
      PROVE  \/ tx'[j] = tx[j] /\ ~(\E i \in Jobs : Commit(i))
             \/ /\ rec' = rec /\ sending' = sending
                /\ sending = None \/ kind = "site"
                /\ tx'[j].seen.obs < rec.obs => tx'[j].seen.val = rec.val
  <2> DEFINE Goal == \/ tx'[j] = tx[j] /\ ~(\E i \in Jobs : Commit(i))
                     \/ /\ rec' = rec /\ sending' = sending
                        /\ sending = None \/ kind = "site"
                        /\ tx'[j].seen.obs < rec.obs => tx'[j].seen.val = rec.val
  <2>1. ASSUME NEW r \in runs, NEW ok \in BOOLEAN, Post(r, ok), ~(\E i \in Jobs : Commit(i)) PROVE Goal
    <3>1. CASE tx'[j] = tx[j]
      BY <2>1, <3>1
    <3>2. CASE tx'[j] # tx[j]
      <4>1. r.job = j /\ tx'[j] = Judge(j, ok /\ taken[j] # Never /\ Mergeable(j, r.seen), r.seen)
        BY <2>1, <3>2 DEF Post, TypeOK
      <4>2. r.seen # None /\ rec' = rec /\ sending' = sending /\ sending = None
        BY <2>1 DEF Post
      <4>3. tx'[j].seen = r.seen /\ Mergeable(j, r.seen)
        BY <1>x, <4>1 DEF Judge
      <4>4. r.seen.obs < rec.obs => r.seen.val = rec.val
        BY <4>1, <4>2, <4>3, MergeIsNewer
      <4> QED BY <4>2, <4>3, <4>4
    <3> QED BY <3>1, <3>2
  <2>2. ASSUME NEW w \in Workers, NEW ok \in BOOLEAN, Record(w, ok), ~(\E i \in Jobs : Commit(i)) PROVE Goal
    <3>1. CASE tx'[j] = tx[j]
      BY <2>2, <3>1
    <3>2. CASE tx'[j] # tx[j]
      <4>1. work[w].job = j /\ tx'[j] = Judge(j, ok /\ Fresh(j), work[w].seen)
        BY <2>2, <3>2 DEF Record, TypeOK
      <4>2. work[w].step = "got" /\ rec' = rec /\ sending' = sending
        BY <2>2 DEF Record
      <4>3. tx'[j].seen = work[w].seen /\ Fresh(j)
        BY <1>x, <4>1 DEF Judge
      <4>4. ~(work[w].seen.obs < rec.obs)
        BY <4>1, <4>2, <4>3, ProbeIsNewer
      <4>5. kind = "site"
        BY <4>2 DEF OrderInv, WorkAfterBase
      <4> QED BY <4>2, <4>3, <4>4, <4>5
    <3> QED BY <3>1, <3>2
  <2>3. CASE \E i \in Jobs : Commit(i)
    <3>1. PICK i \in Jobs : Commit(i)
      BY <2>3
    <3>2. Locked(i) /\ tx' = [tx EXCEPT ![i] = NoTx] /\ NoTx.seen = None
      BY <3>1 DEF Commit, NoTx
    <3>3. j # i /\ tx'[j] = tx[j]
      BY <1>x, <3>2 DEF TypeOK
    <3> QED BY <1>k, <1>x, <3>2, <3>3
  <2>4. CASE Crash
    BY <1>x, <2>4 DEF Crash, NoTx
  <2>5. CASE tx' = tx
    BY <2>3, <2>5
  <2> QED
    BY <2>1, <2>2, <2>3, <2>4, <2>5 DEF Next, Change, Edit, Tick, PageRead, PageWrite, Start, Poll,
       Collect, PostLost, ReportBuilt, AutoCheck, ReportIn, Claim, Probed, FailWrite
\* What is held changes by a commit, a report or a check, the last two while no job is locked.
<1>y. \/ rec' = rec
      \/ \E i \in Jobs : Commit(i) /\ rec' = tx[i].seen /\ tx[i].seen # None /\ sending' = sending
      \/ /\ \A j \in Jobs : ~Locked(j) /\ tx' = tx
         /\ \/ kind = "site" /\ rec' = Look /\ sending' = sending
            \/ sending # None /\ rec' = sending /\ sending' = None
  BY DEF Next, Change, Edit, Tick, PageRead, PageWrite, Commit, Start, Poll, Collect, Post,
     PostLost, ReportBuilt, ReportIn, AutoCheck, Claim, Probed, Record, FailWrite, Crash
<1>z. \/ sending' = sending \/ sending' = None
      \/ sending' = Look /\ kind = "server" /\ UNCHANGED <<rec, tx>>
  BY DEF Next, Change, Edit, Tick, PageRead, PageWrite, Commit, Start, Poll, Collect, Post,
     PostLost, ReportBuilt, ReportIn, AutoCheck, Claim, Probed, Record, FailWrite, Crash
<1>5. SendingNewest'
  <2> SUFFICES ASSUME sending' # None
               PROVE  /\ kind' = "server" /\ rec'.obs <= sending'.obs
                      /\ \A j \in Jobs : tx'[j].seen # None => tx'[j].seen.obs <= sending'.obs
    BY DEF SendingNewest
  <2>1. CASE sending' = Look /\ kind = "server" /\ UNCHANGED <<rec, tx>>
    BY <1>l, <1>p, <1>r, <1>w, <2>1, SeenMember
  <2>2. CASE sending' = sending
    <3>1. kind = "server" /\ rec.obs <= sending.obs /\ \A j \in Jobs : tx[j].seen # None => tx[j].seen.obs <= sending.obs
      BY <2>2 DEF OrderInv, SendingNewest
    <3>2. rec'.obs <= sending.obs
      BY <1>y, <2>2, <3>1
    <3>3. ASSUME NEW j \in Jobs, tx'[j].seen # None PROVE tx'[j].seen.obs <= sending.obs
      BY <1>x, <2>2, <3>1, <3>3
    <3> QED BY <1>w, <2>2, <3>1, <3>2, <3>3
  <2> QED BY <1>z, <2>1, <2>2
<1>6. TxNewer'
  <2> SUFFICES ASSUME NEW j \in Jobs, tx'[j].seen # None, tx'[j].seen.obs < rec'.obs
               PROVE  tx'[j].seen.val = rec'.val
    BY DEF TxNewer
  <2>1. CASE tx'[j] = tx[j] /\ ~(\E i \in Jobs : Commit(i))
    <3>1. Locked(j)
      BY <2>1 DEF Locked, NoTx
    <3>2. rec' = rec
      BY <1>y, <2>1, <3>1
    <3> QED BY <2>1, <3>2 DEF OrderInv, TxNewer
  <2>2. CASE rec' = rec /\ (tx'[j].seen.obs < rec.obs => tx'[j].seen.val = rec.val)
    BY <2>2
  <2> QED BY <1>x, <2>1, <2>2
<1> QED BY <1>1, <1>2, <1>3, <1>4, <1>5, <1>6 DEF OrderInv

(* What the panel holds of an object gets older only by the same value:    *)
(* for any jobs, workers and limits, whichever of a snapshot, a probe, a   *)
(* regular report and a scheduled check arrives first.                     *)
THEOREM HeldIsNewest == Spec => NewerStays
<1>1. TypeOK /\ FreshInv /\ OrderInv /\ [Next]_vars => [rec'.obs < rec.obs => rec'.val = rec.val]_vars
  <2> SUFFICES ASSUME TypeOK, FreshInv, OrderInv, Next, rec'.obs < rec.obs PROVE rec'.val = rec.val
    OBVIOUS
  <2>1. \/ rec' = rec \/ rec' = Look
        \/ \E i \in Jobs : rec' = tx[i].seen /\ tx[i].seen # None
        \/ sending # None /\ rec' = sending
    BY DEF Next, Change, Edit, Tick, PageRead, PageWrite, Commit, Start, Poll, Collect, Post,
       PostLost, ReportBuilt, ReportIn, AutoCheck, Claim, Probed, Record, FailWrite, Crash
  <2>2. rec.obs \in Int /\ now \in Int /\ rec.obs <= now
    BY SeenMember, NoneIsNone DEF TypeOK, Observations, OrderInv, SeenOrder
  <2>3. sending # None => sending.obs \in Int /\ rec.obs <= sending.obs
    BY DEF TypeOK, Observations, OrderInv, SendingNewest
  <2>4. CASE rec' = Look \/ (sending # None /\ rec' = sending)
    BY <2>2, <2>3, <2>4 DEF Look
  <2>5. CASE \E i \in Jobs : rec' = tx[i].seen /\ tx[i].seen # None
    BY <2>5 DEF OrderInv, TxNewer
  <2> QED BY <2>1, <2>4, <2>5
<1>2. Init => TypeOK /\ EditsCount /\ FreshInv /\ OrderInv
  BY TypeInit, FreshInit, OrderInit
<1>3. TypeOK /\ EditsCount /\ FreshInv /\ OrderInv /\ [Next]_vars
        => (TypeOK /\ EditsCount /\ FreshInv /\ OrderInv)'
  BY TypeStep, FreshStep, OrderStep
<1> QED BY <1>1, <1>2, <1>3, PTL DEF Spec, NewerStays
=============================================================================
