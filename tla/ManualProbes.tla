---------------------------- MODULE ManualProbes ----------------------------
(***************************************************************************)
(* "Check now" for a site that only the agent on its server can see        *)
(* (manual_probe.py, _run_via_agent, _store_site_probes; the agent's       *)
(* runSiteProbes, collectSiteProbes and runManualSiteProbe).               *)
(*                                                                         *)
(* A press asks for the main address and for every extra path of the       *)
(* monitor, each under a request of its own.  A fast agent takes them by    *)
(* its poll of commands and posts every answer at once, from a goroutine    *)
(* per request; any agent also gets them in the answer to its report and    *)
(* sends what it found with the next report, next to the planned results    *)
(* it repeats from memory.  What the panel knows of an address is the row   *)
(* of its last result: a manual one is protected from planned ones until    *)
(* manual_until.                                                           *)
(*                                                                         *)
(* Of a result only the moment it was obtained is kept: the properties are  *)
(* about which result counts, not about what it says.  One report or poll   *)
(* of the panel is one transaction: it reads, and it commits later.  The    *)
(* report is on time: at most Gap passes between two of them.               *)
(***************************************************************************)
EXTENDS Integers, FiniteSets

CONSTANTS
    Main, Paths,    \* the addresses of the monitor
    Others,         \* planned tasks of other monitors that this agent checks
    Presses,        \* presses that may happen: 1, 2, ...
    Agents,         \* kinds of agent: TRUE is 2.7 or newer, which polls for manual tasks
    Interval,       \* max(interval_seconds, 15)
    Gap,            \* time between two reports
    Timeout,        \* _timeout_s
    Slack,          \* the 30 seconds of authority_seconds and deadline_seconds
    Again,          \* the 10 seconds of tasks_for_report
    TTL,            \* _PENDING_FLAG_TTL
    MaxTime,        \* bound: the last moment
    MaxFast         \* bound: the last moment of a run with a fast agent

Parts == {Main} \cup Paths
Planned == Parts \cup Others
Manual == Presses \X Parts
Tasks == Planned \cup Manual
Never == 0 - 1

ASSUME ProbeConstants ==
    /\ Presses \subseteq Nat /\ Agents \subseteq BOOLEAN
    /\ Planned \cap Manual = {}
    /\ Interval \in Nat /\ Gap \in Nat /\ Timeout \in Nat /\ Slack \in Nat
    /\ Again \in Nat /\ TTL \in Nat
    /\ MaxTime \in Nat /\ MaxFast \in 0..MaxTime

Times == 0..MaxTime
Maybe == Times \cup {Never}

VARIABLES
    now,
    fast,       \* fast_agent
    local,      \* the monitor is checked by this agent
    born,       \* each press: created_at of its requests
    taken,      \* each request: taken_at
    ans,        \* each request: when its answer was obtained; Never: ts IS NULL
    verdicts,   \* each press: outcomes recorded for it
    row,        \* each address: the result the panel holds, and manual_until
    txns,       \* transactions of the panel that have read and not committed
    reported,   \* when the agent's last report reached the panel
    known,      \* tasks the panel sent in its last answer
    last,       \* siteLast and siteRunAt: each task's last result
    todo,       \* due tasks of the run under way
    since,      \* when the probe of the first of them began
    gos,        \* goroutines of fast tasks: request and start
    posts       \* answers of fast tasks under way

vars == <<now, fast, local, born, taken, ans, verdicts, row, txns, reported, known, last,
          todo, since, gos, posts>>
panel == <<fast, local, born, taken, ans, verdicts, row>>
agent == <<known, last, todo, since>>

Answers == [req : Manual, obs : Times]
Rows == [obs : Maybe, until : Nat \cup {Never}]
Txns == [by : {"post", "report"}, man : SUBSET Answers, done : SUBSET Presses, rows : [Parts -> Rows]]

TypeOK ==
    /\ now \in Times /\ fast \in BOOLEAN /\ local \in BOOLEAN
    /\ born \in [Presses -> Maybe]
    /\ taken \in [Manual -> Maybe] /\ ans \in [Manual -> Maybe]
    /\ verdicts \in [Presses -> Nat]
    /\ row \in [Parts -> Rows]
    /\ txns \subseteq Txns
    /\ reported \in Times /\ known \subseteq Tasks
    /\ last \in [Tasks -> Maybe]
    /\ todo \subseteq Tasks /\ since \in Maybe
    /\ gos \subseteq Answers /\ posts \subseteq Answers

\* The planned checks have been running: every address has a result.
Init ==
    /\ now = 0 /\ fast \in Agents /\ local = TRUE
    /\ born = [p \in Presses |-> Never]
    /\ taken = [m \in Manual |-> Never] /\ ans = [m \in Manual |-> Never]
    /\ verdicts = [p \in Presses |-> 0]
    /\ row = [q \in Parts |-> [obs |-> 0, until |-> Never]]
    /\ txns = {} /\ reported = 0 /\ known = Planned
    /\ last = [t \in Tasks |-> IF t \in Planned THEN 0 ELSE Never]
    /\ todo = {} /\ since = Never /\ gos = {} /\ posts = {}

-----------------------------------------------------------------------------
(* The panel.                                                              *)

\* mutant: the manual result is protected for the interval of the monitor only
Authority_Interval == Interval

\* authority_seconds
Authority == Interval + Slack + Timeout

\* deadline_seconds
Deadline == Slack + Timeout * (1 + Cardinality(Paths))

Live(p) == born[p] # Never /\ now - born[p] <= Deadline /\ now - born[p] <= TTL

\* _open: requests that wait for an answer.
Open == {m \in Manual : Live(m[1]) /\ ans[m] = Never}

\* _run_via_agent: a press while the last one waits for its main answer adds nothing.
Press(p) ==
    /\ local /\ born[p] = Never
    /\ \A o \in Presses : o < p => born[o] # Never
    /\ ~\E o \in Presses : /\ born[o] # Never /\ now - born[o] <= Deadline
                           /\ ans[<<o, Main>>] = Never
    /\ born' = [born EXCEPT ![p] = now]
    /\ UNCHANGED <<now, fast, local, taken, ans, verdicts, row, txns, reported, agent, gos, posts>>

\* The monitor is deleted, or checked from elsewhere from now on.
Move ==
    /\ local
    /\ local' = FALSE
    /\ UNCHANGED <<now, fast, born, taken, ans, verdicts, row, txns, reported, agent, gos, posts>>

\* manual_probe.ingest: of the answers, those to a request that has none.
Counted(rs) == {r \in rs : ans[r.req] = Never}

\* mutant: the verdict does not wait for the paths
Complete_MainOnly(p, rs) == \E r \in rs : r.req = <<p, Main>>

\* mutant: the requests are read before the answer is flushed
Complete_Unflushed(p, rs) == \A q \in Parts : ans[<<p, q>>] # Never

\* _finish_batch: all requests of the press are answered.
Complete(p, rs) == \A q \in Parts : ans[<<p, q>>] # Never \/ \E r \in rs : r.req = <<p, q>>

Judged(rs) == {p \in Presses : /\ verdicts[p] = 0 /\ Complete(p, rs)
                               /\ \E r \in rs : r.req[1] = p}

Protected(q) == row[q].until # Never /\ now < row[q].until

\* _store_manual_main, _store_manual_path: of two presses answered in one report the
\* one that comes later in the agent's map stays.
ManualRow(rs, q, late) ==
    LET mine == {r \in rs : r.req[2] = q}
        r == CHOOSE r \in mine : r.req[1] = late \/ \A s \in mine : s.req[1] # late
    IN  [obs |-> r.obs, until |-> now + Authority]

\* _store_site_probes up to the commit: manual answers first, then the planned results,
\* which leave manual_until alone.  Never: not written.
Handled(by, rs, planned, late) ==
    LET man == Counted(rs)
        fresh == IF local THEN man ELSE {}
    IN  [by |-> by, man |-> man, done |-> Judged(fresh),
         rows |-> [q \in Parts |->
            IF \E r \in fresh : r.req[2] = q THEN ManualRow(fresh, q, late)
            ELSE IF local /\ ~Protected(q) THEN [obs |-> planned[q], until |-> Never]
            ELSE [obs |-> Never, until |-> Never]]]

Nothing == [q \in Parts |-> Never]
Written(new, old) == IF new = Never THEN old ELSE new

\* The commit: columns are written by primary key, whatever they hold by now.
Commit(x) ==
    /\ txns' = txns \ {x}
    /\ ans' = [m \in Manual |-> IF \E r \in x.man : r.req = m
                                THEN (CHOOSE r \in x.man : r.req = m).obs ELSE ans[m]]
    /\ row' = [q \in Parts |-> [obs |-> Written(x.rows[q].obs, row[q].obs),
                                until |-> Written(x.rows[q].until, row[q].until)]]
    /\ verdicts' = [p \in Presses |-> verdicts[p] + IF p \in x.done THEN 1 ELSE 0]

-----------------------------------------------------------------------------
(* The fast route: the poll of commands and a post per answer.             *)

\* take_fast_tasks; the answer to the poll may be lost, its tasks are taken all the same.
FastPoll(heard) ==
    /\ fast
    /\ LET mine == {m \in Open : taken[m] = Never}
       IN  /\ mine # {}
           /\ taken' = [m \in Manual |-> IF m \in mine THEN now ELSE taken[m]]
           /\ gos' = gos \cup IF heard THEN [req : mine, obs : {now}] ELSE {}
    /\ UNCHANGED <<now, fast, local, born, ans, verdicts, row, txns, reported, agent, posts>>

\* runManualSiteProbe: the probe ends and its answer is posted, once.
FastDone(g) ==
    /\ g \in gos
    /\ gos' = gos \ {g}
    /\ posts' = posts \cup {[g EXCEPT !.obs = now]}
    /\ UNCHANGED <<now, panel, txns, reported, agent>>

PostLost(r) ==
    /\ r \in posts
    /\ posts' = posts \ {r}
    /\ UNCHANGED <<now, panel, txns, reported, agent, gos>>

\* agent_site_probe_result up to its commit; it takes no lock.
PostIn(r) ==
    /\ r \in posts
    /\ posts' = posts \ {r}
    /\ txns' = txns \cup {Handled("post", {r}, Nothing, r.req[1])}
    /\ UNCHANGED <<now, panel, reported, agent, gos>>

-----------------------------------------------------------------------------
(* The report, and the agent's run of tasks behind it.                     *)

\* collectSiteProbes: results are sent as long as the panel sends their task.
Kept(t) == known = {} \/ t \in known

\* mutant: a task without a result is sent too
Remembered_All == {t \in Tasks : Kept(t)}

Remembered == {t \in Tasks : Kept(t) /\ last[t] # Never}

\* tasks_for_report: not taken, or taken and silent for longer than a probe lasts.
Asked(man) == {m \in Open : /\ \A r \in man : r.req # m
                            /\ taken[m] = Never \/ now - taken[m] >= Timeout + Again}

\* _site_probe_tasks
Scheduled == IF local THEN Planned ELSE Others

\* agent_report up to its commit.  It holds the server's row: one report at a time.
Report(late) ==
    LET rs == {[req |-> m, obs |-> last[m]] : m \in Remembered \cap Manual}
        planned == [q \in Parts |-> IF q \in Remembered THEN last[q] ELSE Never]
    IN  /\ now > reported /\ \A x \in txns : x.by # "report"
        /\ reported' = now
        /\ last' = [t \in Tasks |-> IF Kept(t) THEN last[t] ELSE Never]
        /\ txns' = txns \cup {Handled("report", rs, planned, late)}
        /\ UNCHANGED <<now, panel, known, todo, since, gos, posts>>

Due(t) == last[t] = Never \/ now - last[t] >= Interval

\* The commit of a report; its answer starts a run, unless one is under way.
ReportDone(x) ==
    /\ x.by = "report" /\ Commit(x)
    /\ known' = Asked(x.man) \cup Scheduled
    /\ IF todo = {}
       THEN /\ todo' = {t \in known' : Due(t)}
            /\ since' = IF todo' = {} THEN Never ELSE now
       ELSE UNCHANGED <<todo, since>>
    /\ UNCHANGED <<now, fast, local, born, taken, reported, last, gos, posts>>

PostDone(x) ==
    /\ x.by = "post" /\ Commit(x)
    /\ UNCHANGED <<now, fast, local, born, taken, reported, agent, gos, posts>>

\* runSiteProbes goes through its list: manual tasks first, a monitor's main address
\* before its paths, one probe after the other.
Turn(t) == /\ t \in todo
           /\ t \in Planned => todo \cap Manual = {}
           /\ t \in Paths => Main \notin todo

ProbeDone(t) ==
    /\ Turn(t)
    /\ last' = [last EXCEPT ![t] = now]
    /\ todo' = todo \ {t}
    /\ since' = IF todo' = {} THEN Never ELSE now
    /\ UNCHANGED <<now, panel, txns, reported, known, gos, posts>>

\* Time: a report is on time, a probe ends within its timeout, a post within the
\* client's 15 seconds, and a transaction is short.
Tick ==
    /\ now < IF fast THEN MaxFast ELSE MaxTime
    /\ now - reported < Gap /\ txns = {}
    /\ since # Never => now - since < Timeout
    /\ \A g \in gos : now - g.obs < Timeout
    /\ \A r \in posts : now - r.obs < Gap
    /\ now' = now + 1
    /\ UNCHANGED <<panel, txns, reported, agent, gos, posts>>

-----------------------------------------------------------------------------
Next ==
    \/ \E p \in Presses : Press(p)
    \/ Move
    \/ \E heard \in BOOLEAN : FastPoll(heard)
    \/ \E g \in gos : FastDone(g)
    \/ \E r \in posts : PostLost(r) \/ PostIn(r)
    \/ \E p \in Presses : Report(p)
    \/ \E x \in txns : ReportDone(x) \/ PostDone(x)
    \/ \E t \in todo : ProbeDone(t)
    \/ Tick

Spec == Init /\ [][Next]_vars

-----------------------------------------------------------------------------
(* manual_until: a result that an agent repeats from memory never replaces  *)
(* one that was obtained after it.  (Of an agent without fast polls: a post  *)
(* that commits between the read and the commit of a report is lost.)        *)
NeverBack == [][~fast => \A q \in Parts : row'[q].obs >= row[q].obs]_vars

(* An outcome is recorded for a press only from answers that were obtained   *)
(* after it, of the main address and of every path; never from what the      *)
(* agent remembered.                                                         *)
VerdictIsFresh ==
    \A p \in Presses : verdicts[p] > 0 =>
        born[p] # Never /\ \A q \in Parts : ans[<<p, q>>] >= born[p]

(* _finish_batch: "the verdict of a press once the main address and every    *)
(* path answered": a press that is answered has one.  It does not hold of   *)
(* answers handled side by side (README, section 5).                         *)
AnsweredIsJudged ==
    txns = {} /\ local => \A p \in Presses :
        (\A q \in Parts : ans[<<p, q>>] # Never) => verdicts[p] = 1

(* The same of an agent that answers in its reports, which are handled one   *)
(* after the other.                                                          *)
ReportsAreJudged == ~fast => AnsweredIsJudged
=============================================================================
