------------------------------ MODULE Rechecks ------------------------------
(***************************************************************************)
(* "Check again" on the home page (alert_recheck.py, api/alert_rechecks.py, *)
(* the agent's recheck.go): a job asks for a fresh observation of one       *)
(* object and ends with a verdict: fixed, remains or unavailable.           *)
(*                                                                         *)
(* A job of a server is handed out by the agent's poll of commands, again   *)
(* after RETRY while no answer came; the agent collects a snapshot and      *)
(* posts it, never while one of its regular reports is under way.  A job of  *)
(* a site is done by the panel itself: a background worker claims a lease,  *)
(* probes and records.  Answers are handled under a lock of the job's row.  *)
(* The home page, which polls all jobs, reads without a lock and writes     *)
(* what it decided later.                                                   *)
(*                                                                         *)
(* An observation is a value and the moment it was made.  The object runs   *)
(* through values 0, 1, 2, ...; the odd ones are free of the problem.       *)
(***************************************************************************)
EXTENDS Integers, FiniteSets

CONSTANTS
    Jobs,               \* jobs that may be created: 1, 2, ...
    Kinds,              \* kinds of object: a subset of {"server", "site"}
    Workers,            \* background workers of the panel
    Viewed,             \* the home page is open
    TIMEOUT, PANEL_TIMEOUT, LEASE, RETRY, RECENT,
    MaxTime, MaxValue, MaxEdits, MaxCrashes     \* bounds

ASSUME RecheckConstants ==
    /\ Jobs \subseteq Nat /\ Kinds \subseteq {"server", "site"} /\ Viewed \in BOOLEAN
    /\ {TIMEOUT, PANEL_TIMEOUT, LEASE, RETRY, RECENT} \subseteq Nat
    /\ {MaxTime, MaxValue, MaxEdits, MaxCrashes} \subseteq Nat

Never == 0 - 1
Times == 0..MaxTime
Values == 0..MaxValue
Clean(v) == v % 2 = 1
Observations == [val : Values, obs : Times]
None == [val |-> Never, obs |-> Never]
Ended == {"fixed", "remains", "unavailable"}

VARIABLES
    now,
    kind,       \* what the object is
    world,      \* the object's value
    rec,        \* the observation the panel holds: last_report, or the columns of the check
    ident,      \* identity(obj): its settings
    status,     \* each job; "none": not created
    born,       \* created_at
    taken,      \* taken_at
    spec,       \* each job: the identity and the baseline it was created with
    proof,      \* each job: the observation its verdict rests on
    runs,       \* goroutines of the agent: job and snapshot (None: not collected yet)
    sending,    \* the regular report under way (None: none); holds reportCollectionMu
    work,       \* each worker: idle, probing, got, failing
    tx,         \* each job: the end a transaction that holds its lock will commit
    page,       \* jobs the page has decided to end and not yet written
    edits, crashes

vars == <<now, kind, world, rec, ident, status, born, taken, spec, proof, runs, sending,
          work, tx, page, edits, crashes>>
object == <<kind, world, ident, edits>>
job == <<status, born, taken, spec, proof>>
agent == <<runs, sending>>

NoTx == [end |-> "none", seen |-> None]
Locked(j) == tx[j] # NoTx
Idle == [step |-> "idle", job |-> Never, since |-> Never, seen |-> None]
Steps == {"idle", "probing", "got", "failing"}

\* Bounds and types of the state.
TypeOK ==
    /\ now \in Times /\ kind \in Kinds /\ world \in Values
    /\ rec \in Observations /\ ident \in 0..MaxEdits
    /\ status \in [Jobs -> {"none", "checking"} \cup Ended]
    /\ born \in [Jobs -> Times \cup {Never}] /\ taken \in [Jobs -> Times \cup {Never}]
    /\ spec \in [Jobs -> [ident : 0..MaxEdits, base : Observations \cup {None}]]
    /\ proof \in [Jobs -> Observations \cup {None}]
    /\ runs \subseteq [job : Jobs, seen : Observations \cup {None}]
    /\ sending \in Observations \cup {None}
    /\ work \in [Workers -> [step : Steps, job : Jobs \cup {Never}, since : Times \cup {Never},
                              seen : Observations \cup {None}]]
    /\ tx \in [Jobs -> [end : {"none"} \cup Ended, seen : Observations \cup {None}]]
    /\ page \subseteq Jobs
    /\ edits \in 0..MaxEdits /\ crashes \in 0..MaxCrashes

Init ==
    /\ now = 0 /\ kind \in Kinds /\ world = 0
    /\ rec = [val |-> 0, obs |-> 0] /\ ident = 0
    /\ status = [j \in Jobs |-> "none"]
    /\ born = [j \in Jobs |-> Never] /\ taken = [j \in Jobs |-> Never]
    /\ spec = [j \in Jobs |-> [ident |-> 0, base |-> None]]
    /\ proof = [j \in Jobs |-> None]
    /\ runs = {} /\ sending = None
    /\ work = [w \in Workers |-> Idle]
    /\ tx = [j \in Jobs |-> NoTx]
    /\ page = {} /\ edits = 0 /\ crashes = 0

-----------------------------------------------------------------------------
(* The object and the clock.                                               *)

Look == [val |-> world, obs |-> now]

Change ==
    /\ world < MaxValue
    /\ world' = world + 1
    /\ UNCHANGED <<now, kind, rec, ident, job, agent, work, tx, page, edits, crashes>>

\* Somebody edits the settings of the object (an edit while no job is open has no effect here).
Edit ==
    /\ edits < MaxEdits /\ (\E j \in Jobs : status[j] = "checking") /\ \A j \in Jobs : ~Locked(j)
    /\ edits' = edits + 1 /\ ident' = ident + 1
    /\ UNCHANGED <<now, kind, world, rec, job, agent, work, tx, page, crashes>>

\* A probe ends within PANEL_TIMEOUT (asyncio.wait_for), and what a worker does after
\* it before the lease is over.  The latter is assumed: no line of the code bounds it.
Tick ==
    /\ now < MaxTime
    /\ \A w \in Workers : /\ work[w].step = "probing" => now - work[w].since < PANEL_TIMEOUT
                          /\ work[w].step \in {"got", "failing"} => now - work[w].since < LEASE
    /\ now' = now + 1
    /\ UNCHANGED <<object, rec, job, agent, work, tx, page, crashes>>

-----------------------------------------------------------------------------
(* A job: creation, end, the page.                                         *)

\* mutant: the deadline moves with every hand-out
Overdue_Moves(j) == taken[j] # Never /\ taken[j] + TIMEOUT <= now

Overdue(j) == born[j] + TIMEOUT <= now

\* mutant: the state of the job is not asked for
Checking_Any(j) == status[j] # "none"

Checking(j) == status[j] = "checking"

\* start, under locks of the user and of the object: an old job that is overdue is
\* ended first, one that is not is returned, and a recent one refused.  A job that cannot
\* be done (an agent that is away or too old) ends at once.  (Bound: no job whose
\* deadline lies beyond MaxTime.)
Start(j, able) ==
    /\ now + TIMEOUT <= MaxTime
    /\ status[j] = "none" /\ \A i \in Jobs : i < j => status[i] # "none"
    /\ \A i \in Jobs : Checking(i) => Overdue(i) /\ ~Locked(i)
    /\ \A i \in Jobs : status[i] # "none" => now - born[i] > RECENT
    /\ status' = [i \in Jobs |-> IF i = j THEN IF able THEN "checking" ELSE "unavailable"
                                 ELSE IF Checking(i) THEN "unavailable" ELSE status[i]]
    /\ born' = [born EXCEPT ![j] = now]
    /\ spec' = [spec EXCEPT ![j] = [ident |-> ident,
                                    base |-> IF kind = "site" THEN rec ELSE None]]
    /\ UNCHANGED <<now, object, rec, taken, proof, agent, work, tx, page, crashes>>

\* latest: the page reads the jobs, without a lock, ...
PageRead(j) ==
    /\ Viewed /\ j \notin page
    /\ Checking(j) /\ (spec[j].ident # ident \/ Overdue(j))
    /\ page' = page \cup {j}
    /\ UNCHANGED <<now, object, rec, job, agent, work, tx, crashes>>

\* ... and its commit writes what finish() has set.
PageWrite(j) ==
    /\ j \in page /\ ~Locked(j)
    /\ page' = page \ {j}
    /\ status' = [status EXCEPT ![j] = "unavailable"]
    /\ UNCHANGED <<now, object, rec, born, taken, spec, proof, agent, work, tx, crashes>>

-----------------------------------------------------------------------------
(* Jobs of a server: the poll, the agent, the answer.                      *)

\* take_tasks: expire, then the lease, then the settings; FOR UPDATE SKIP LOCKED.
Leased(j) == taken[j] # Never /\ now - taken[j] < RETRY
Edited(j) == spec[j].ident # ident
HandOut == {j \in Jobs : Checking(j) /\ ~Locked(j) /\ ~Overdue(j) /\ ~Leased(j) /\ ~Edited(j)}
Dropped == {j \in Jobs : Checking(j) /\ ~Locked(j) /\ (Overdue(j) \/ (~Leased(j) /\ Edited(j)))}

Baseline(j) == IF spec[j].base = None THEN rec ELSE spec[j].base

\* The answer to the poll starts a goroutine per job, unless recheckRunning has it or
\* the answer is lost.
Poll(heard) ==
    /\ kind = "server" /\ HandOut \cup Dropped # {}
    /\ status' = [j \in Jobs |-> IF j \in Dropped THEN "unavailable" ELSE status[j]]
    /\ taken' = [j \in Jobs |-> IF j \in HandOut THEN now ELSE taken[j]]
    /\ spec' = [j \in Jobs |-> IF j \in HandOut THEN [spec[j] EXCEPT !.base = Baseline(j)]
                               ELSE spec[j]]
    /\ runs' = runs \cup {[job |-> j, seen |-> None] :
                             j \in {i \in HandOut : heard /\ \A r \in runs : r.job # i}}
    /\ UNCHANGED <<now, object, rec, born, proof, sending, work, tx, page, crashes>>

\* collectAlertRecheck
Collect(r) ==
    /\ r \in runs /\ r.seen = None
    /\ runs' = (runs \ {r}) \cup {[r EXCEPT !.seen = Look]}
    /\ UNCHANGED <<now, object, rec, job, sending, work, tx, page, crashes>>

\* collectAndSend: a regular report is built and sent under reportCollectionMu ...
ReportBuilt ==
    /\ kind = "server" /\ sending = None
    /\ sending' = Look
    /\ UNCHANGED <<now, object, rec, job, runs, work, tx, page, crashes>>

\* ... and reaches the panel (agent_report), or fails.  One that the agent gave up on
\* and the panel handles after the next is not modelled.
ReportIn(ok) ==
    /\ sending # None /\ \A j \in Jobs : ~Locked(j)
    /\ rec' = IF ok THEN sending ELSE rec
    /\ sending' = None
    /\ UNCHANGED <<now, object, job, runs, work, tx, page, crashes>>

\* mutant: the snapshot is merged over whatever the report has brought
Mergeable_Always(j, o) == TRUE

\* apply_snapshot: by digest, so by value.
Mergeable(j, o) == rec.val = spec[j].base.val \/ rec.val = o.val

\* mutant: an answer without the wanted block leaves no verdict
Verdict_Unset(o) == IF Clean(o.val) THEN "fixed" ELSE "no result"

Verdict(o) == IF Clean(o.val) THEN "fixed" ELSE "remains"

\* mutant: the data the panel holds are judged, not the answer
Judge_Held(j, usable, o) ==
    IF Overdue(j) \/ Edited(j) \/ ~usable THEN [end |-> "unavailable", seen |-> None]
    ELSE [end |-> Verdict(rec), seen |-> rec]

\* expire, and the conditions on the object and the answer, in the order of the code.
Judge(j, usable, o) ==
    IF Overdue(j) \/ Edited(j) \/ ~usable THEN [end |-> "unavailable", seen |-> None]
    ELSE [end |-> Verdict(o), seen |-> o]

\* alert_recheck.ingest up to the commit, under locks of the server and of the job;
\* runAlertRecheck waits for a regular report that is under way before it posts.
Post(r, ok) ==
    LET j == r.job
    IN  /\ r \in runs /\ r.seen # None /\ sending = None /\ ~Locked(j)
        /\ runs' = runs \ {r}
        /\ tx' = IF Checking(j)
                 THEN [tx EXCEPT ![j] = Judge(j, ok /\ taken[j] # Never /\ Mergeable(j, r.seen), r.seen)]
                 ELSE tx
        /\ UNCHANGED <<now, object, rec, job, sending, work, page, crashes>>

\* The commit of an answer: verdict and data together.
Commit(j) ==
    /\ Locked(j)
    /\ tx' = [tx EXCEPT ![j] = NoTx]
    /\ status' = [status EXCEPT ![j] = tx[j].end]
    /\ proof' = IF tx[j].seen = None THEN proof ELSE [proof EXCEPT ![j] = tx[j].seen]
    /\ rec' = IF tx[j].seen = None THEN rec ELSE tx[j].seen
    /\ UNCHANGED <<now, object, born, taken, spec, agent, work, page, crashes>>

\* No free slot, a lost post: the lease returns the task on a later poll.
PostLost(r) ==
    /\ r \in runs
    /\ runs' = runs \ {r}
    /\ UNCHANGED <<now, object, rec, job, sending, work, tx, page, crashes>>

-----------------------------------------------------------------------------
(* Jobs of a site: panel_work.                                             *)

\* The scheduler's own check of the site.
AutoCheck ==
    /\ kind = "site" /\ rec # Look /\ \A j \in Jobs : ~Locked(j)
    /\ rec' = Look
    /\ UNCHANGED <<now, object, job, agent, work, tx, page, crashes>>

\* mutant: a worker takes over as soon as a probe could have ended
Free_Eager(j) == taken[j] = Never \/ now - taken[j] >= PANEL_TIMEOUT

Free(j) == taken[j] = Never \/ now - taken[j] > LEASE

\* UPDATE ... WHERE taken_at IS NULL OR taken_at < now - LEASE; then the settings.
Claim(w, j) ==
    /\ kind = "site" /\ work[w] = Idle
    /\ Checking(j) /\ Free(j) /\ ~Overdue(j) /\ ~Locked(j)
    /\ taken' = [taken EXCEPT ![j] = now]
    /\ IF Edited(j)
       THEN status' = [status EXCEPT ![j] = "unavailable"] /\ UNCHANGED work
       ELSE /\ work' = [work EXCEPT ![w] = [step |-> "probing", job |-> j, since |-> now, seen |-> None]]
            /\ UNCHANGED status
    /\ UNCHANGED <<now, object, rec, born, spec, proof, agent, tx, page, crashes>>

\* The probe answers, or fails: then the job is read without a lock.
Probed(w, ok) ==
    /\ work[w].step = "probing"
    /\ work' = [work EXCEPT ![w] =
                  IF ok THEN [step |-> "got", job |-> @.job, since |-> @.since, seen |-> Look]
                  ELSE IF Checking(@.job) THEN [@ EXCEPT !.step = "failing"] ELSE Idle]
    /\ UNCHANGED <<now, object, rec, job, agent, tx, page, crashes>>

FailWrite(w) ==
    /\ work[w].step = "failing" /\ ~Locked(work[w].job)
    /\ status' = [status EXCEPT ![work[w].job] = "unavailable"]
    /\ work' = [work EXCEPT ![w] = Idle]
    /\ UNCHANGED <<now, object, rec, born, taken, spec, proof, agent, tx, page, crashes>>

Fresh(j) == rec = spec[j].base

\* The answer is judged under locks of the job and of the check; a page of the tamper
\* watch may be unusable.
Record(w, usable) ==
    LET j == work[w].job
    IN  /\ work[w].step = "got" /\ ~Locked(j)
        /\ tx' = IF Checking(j) THEN [tx EXCEPT ![j] = Judge(j, usable /\ Fresh(j), work[w].seen)] ELSE tx
        /\ work' = [work EXCEPT ![w] = Idle]
        /\ UNCHANGED <<now, object, rec, job, agent, page, crashes>>

\* The panel is restarted: its workers are gone, the rows stay; or the agent is.
Crash ==
    /\ crashes < MaxCrashes
    /\ crashes' = crashes + 1
    /\ work' = [w \in Workers |-> Idle] /\ page' = {} /\ tx' = [j \in Jobs |-> NoTx]
    /\ runs' = {} /\ sending' = None
    /\ UNCHANGED <<now, object, rec, job>>

-----------------------------------------------------------------------------
Next ==
    \/ Change \/ Edit \/ Tick
    \/ \E j \in Jobs : PageRead(j) \/ PageWrite(j) \/ Commit(j)
    \/ \E j \in Jobs, able \in BOOLEAN : Start(j, able)
    \/ \E heard \in BOOLEAN : Poll(heard)
    \/ \E r \in runs : Collect(r) \/ PostLost(r) \/ \E ok \in BOOLEAN : Post(r, ok)
    \/ ReportBuilt \/ AutoCheck
    \/ \E ok \in BOOLEAN : ReportIn(ok)
    \/ \E w \in Workers, j \in Jobs : Claim(w, j)
    \/ \E w \in Workers, ok \in BOOLEAN : Probed(w, ok) \/ Record(w, ok)
    \/ \E w \in Workers : FailWrite(w)
    \/ Crash

Spec == Init /\ [][Next]_vars

\* The agent polls every second and the open page every few seconds; time passes.
FairSpec ==
    /\ Spec
    /\ WF_vars(Tick)
    /\ WF_vars(\E heard \in BOOLEAN : Poll(heard))
    /\ \A j \in Jobs : WF_vars(PageRead(j)) /\ WF_vars(PageWrite(j)) /\ WF_vars(Commit(j))
    /\ \A w \in Workers : /\ WF_vars(\E ok \in BOOLEAN : Probed(w, ok))
                          /\ WF_vars(FailWrite(w)) /\ WF_vars(\E ok \in BOOLEAN : Record(w, ok))

-----------------------------------------------------------------------------
(* "No acknowledgment is evidence of recovery": a job is fixed only by an   *)
(* observation that was made after the request and shows no problem, never  *)
(* by a replayed report or by an answer to an earlier request.              *)
FixedIsFresh ==
    \A j \in Jobs : status[j] = "fixed" =>
        proof[j] # None /\ Clean(proof[j].val) /\ proof[j].obs >= born[j]

(* A late or repeated answer never turns a job that ended otherwise into    *)
(* one that is fixed, whoever else ended it.                                *)
NoLateRecovery ==
    [][\A j \in Jobs : status[j] \in {"remains", "unavailable"} => status'[j] # "fixed"]_vars

(* A verified answer never replaces what the regular collection has found   *)
(* out since: what the panel holds gets older only by the same value.       *)
NewerStays == [][rec'.obs < rec.obs => rec'.val = rec.val]_vars

(* LEASE: two workers never probe for the same job.                         *)
OneWorker ==
    \A v, w \in Workers : work[v].step # "idle" /\ work[v].job = work[w].job => v = w

(* While the page is open, or the agent polls, every job ends.              *)
JobsEnd == \A j \in Jobs : [](status[j] = "checking" => <>(status[j] \in Ended))

(* "Terminal results survive panel/agent restarts": a verdict stays.  It     *)
(* does not hold: the page writes what it decided from an older read over a  *)
(* verdict that was committed in between (README, section 6).                *)
VerdictStays == [][\A j \in Jobs : status[j] \in Ended => status'[j] = status[j]]_vars
=============================================================================
