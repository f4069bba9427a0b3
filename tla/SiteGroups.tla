---------------------------- MODULE SiteGroups ----------------------------
(***************************************************************************)
(* The monitors of one place (a server of the panel, or an address) and    *)
(* the messages about them: app/site_group.py with _send_alerts and        *)
(* _site_groups of app/collector.py.                                       *)
(*                                                                         *)
(* Failures of one place share a message.  A failure within JOIN of the    *)
(* last one is a line added to the message already sent.  The all-clears   *)
(* of the members of such a group are held back until all are well, or     *)
(* until some have been well for PARTIAL.  The groups are one JSON value   *)
(* in app_settings, which every sender loads, changes and saves whole.     *)
(*                                                                         *)
(* All groups here have the same place and level.  What one monitor does   *)
(* by itself (samples, thresholds, episodes, mutes) is in SiteMonitor: to  *)
(* this module a monitor is well or failing, and its failure told or not.  *)
(***************************************************************************)
EXTENDS Integers, FiniteSets

CONSTANTS
    Sites,      \* the monitors of the place
    Scheduler,  \* run_due_checks
    Webs,       \* requests of the web process that record one monitor and send
    JOIN,       \* in ticks of half an hour
    PARTIAL,
    REC_RETRY_MAX,
    Telegram,   \* whether the channel can edit a message it has sent
    Faults,     \* of "dispatch", "crash", "compose", "after": what may go wrong,
    MaxFaults,  \* and how often
    Never       \* no time

ASSUME GroupConstants ==
    /\ Scheduler \notin Webs
    /\ IsFiniteSet(Sites)
    /\ JOIN \in Nat /\ PARTIAL \in Nat \ {0} /\ REC_RETRY_MAX \in Nat \ {0}
    /\ Telegram \in BOOLEAN
    /\ Faults \subseteq {"dispatch", "crash", "compose", "after"}
    /\ MaxFaults \in Nat
    /\ Never \notin Nat

Senders == {Scheduler} \cup Webs
Processes == {"scheduler", "web"}

ProcessOf(p) == IF p = Scheduler THEN "scheduler" ELSE "web"

VARIABLES
    bad,        \* the monitors with an open episode (flap_state)
    told,       \* of those, the ones whose incident is marked notified
    groups,     \* the stored value of site_groups
    retry,      \* per process, _REC_RETRY: how long an all-clear is parked
    job,        \* per sender: how far it is and what it has in hand
    heard,      \* the monitors a reader of the chat takes to be failing
    faults,     \* how often something went wrong
    lost,       \* the monitors whose all-clear nobody will send any more
    unsaid      \* the monitors whose line could not be added to a message

vars == <<bad, told, groups, retry, job, heard, faults, lost, unsaid>>

(***************************************************************************)
(* A group has its members with the age of their well-being, the age of    *)
(* the last failure that joined it, and solo while its message names one   *)
(* monitor, whose all-clear is then an ordinary one.                       *)
(***************************************************************************)
Ages(limit) == 0 .. limit

Groups == UNION {[ok : [M -> Ages(PARTIAL) \cup {Never}], last : Ages(JOIN + 1), solo : BOOLEAN] :
                    M \in (SUBSET Sites) \ {{}}}

Members(g) == DOMAIN g.ok

Begun(at, fails, recs) ==
    [at |-> at, fails |-> fails, recs |-> recs, marks |-> fails, read |-> {},
     kept |-> {}, alarms |-> {}, clears |-> {}, edits |-> {}]

Idle == Begun("idle", {}, {})

Init ==
    /\ bad = {} /\ told = {} /\ groups = {} /\ heard = {} /\ lost = {} /\ unsaid = {} /\ faults = 0
    /\ retry = [q \in Processes |-> [s \in Sites |-> Never]]
    /\ job = [p \in Senders |-> Idle]

Fault(kind) ==
    /\ kind \in Faults /\ faults < MaxFaults
    /\ faults' = faults + 1

(***************************************************************************)
(* Half hours pass.  A send takes seconds, so time stands still while one  *)
(* is under way.                                                           *)
(***************************************************************************)
Older(age, limit) == IF age = Never \/ age = limit THEN age ELSE age + 1

Aged(g) ==
    [ok |-> [m \in Members(g) |-> Older(g.ok[m], PARTIAL)],
     last |-> Older(g.last, JOIN + 1), solo |-> g.solo]

AgedRetry(parked) == [s \in Sites |-> Older(parked[s], REC_RETRY_MAX)]

Tick ==
    /\ \A p \in Senders : job[p].at = "idle"
    /\ groups' = {Aged(g) : g \in groups}
    /\ retry' = [q \in Processes |-> AgedRetry(retry[q])]
    /\ UNCHANGED <<bad, told, job, heard, faults, lost, unsaid>>

(***************************************************************************)
(* record_outcome for the monitors S, of which some are down, and the      *)
(* commit.  A failure that nobody was told of is queued; a told one that   *)
(* is over queues its all-clear.  A mark that another sender still has to  *)
(* write belongs to the incident, and is void once the incident is closed. *)
(***************************************************************************)
Record(p, S, down) ==
    LET closed == (S \ down) \cap bad
        fails == down \ told
        recs == closed \cap told
    IN  /\ job[p].at = "idle"
        /\ bad' = (bad \cup down) \ closed
        /\ told' = told \ closed
        /\ job' = [q \in Senders |->
                    IF q # p THEN [job[q] EXCEPT !.marks = @ \ closed]
                    ELSE IF fails \cup recs # {} \/ (p = Scheduler /\ groups # {})
                         THEN Begun("load", fails, recs)
                         ELSE Idle]
        /\ UNCHANGED <<groups, retry, heard, faults, lost, unsaid>>

\* The scheduler takes every monitor, a request of the web process one.
Check(p) ==
    \E S \in IF p = Scheduler THEN {Sites} ELSE {{s} : s \in Sites} :
        \E down \in SUBSET S : Record(p, S, down)

(***************************************************************************)
(* _REC_RETRY of a process: the all-clears whose message was refused.      *)
(***************************************************************************)
Retries == [Sites -> Ages(REC_RETRY_MAX) \cup {Never}]

Held(parked) == {s \in Sites : parked[s] # Never}
Expired(parked) == {s \in Sites : parked[s] = REC_RETRY_MAX}

\* pop, and setdefault: an all-clear that is parked already keeps its time.
Dropped(parked, S) == [s \in Sites |-> IF s \in S THEN Never ELSE parked[s]]
Added(parked, S) == [s \in Sites |-> IF s \in S /\ parked[s] = Never THEN 0 ELSE parked[s]]

\* _with_retries, and the groups as they are stored now.  What has been
\* parked for a day is thrown away; of the rest, what is not in hand anyway
\* goes along if the monitor is up, and is thrown away if it is not.
Load(p) ==
    LET j == job[p]
        parked == retry[ProcessOf(p)]
        want == Held(parked) \ (Expired(parked) \cup j.recs)
    IN  /\ j.at = "load"
        /\ job' = [job EXCEPT ![p].at = "compose", ![p].read = groups, ![p].recs = @ \cup (want \ bad)]
        /\ retry' = [retry EXCEPT ![ProcessOf(p)] = Dropped(@, Expired(parked) \cup (want \cap bad))]
        /\ lost' = lost \cup (heard \cap ((Expired(parked) \ j.recs) \cup (want \cap bad)))
        /\ UNCHANGED <<bad, told, groups, heard, faults, unsaid>>

(***************************************************************************)
(* _site_groups.                                                           *)
(***************************************************************************)
\* The group of the place that a new failure may still join: the latest.
OpenFor(G) ==
    LET open == {g \in G : g.last <= JOIN}
    IN  {g \in open : \A h \in open : g.last <= h.last}

\* One message for several monitors is not solo, unless they are of one
\* domain and were one message before the groups were looked at (grp_fold).
NewGroups(fails) ==
    [ok : {[m \in fails |-> Never]}, last : {0},
     solo : IF Cardinality(fails) = 1 THEN {TRUE} ELSE BOOLEAN]

Joined_Replaces(g, fails) == [ok |-> [m \in fails |-> Never], last |-> 0, solo |-> FALSE]
Joined(g, fails) ==
    [ok |-> [m \in Members(g) \cup fails |-> IF m \in Members(g) THEN g.ok[m] ELSE Never],
     last |-> 0, solo |-> FALSE]

\* ok_since for every member.
Looked(g, well) ==
    [g EXCEPT !.ok = [m \in Members(g) |->
                        IF m \notin well THEN Never ELSE IF g.ok[m] = Never THEN 0 ELSE g.ok[m]]]

Good(g) == {m \in Members(g) : g.ok[m] # Never}

Ready_All(g) == IF ~g.solo /\ Good(g) = Members(g) THEN Members(g) ELSE {}
Ready(g) ==
    IF g.solo THEN {}
    ELSE IF Good(g) = Members(g) THEN Members(g)
    ELSE {m \in Good(g) : g.ok[m] >= PARTIAL}

Stale_Old(g) ==
    \/ g.solo /\ Good(g) = Members(g)
    \/ g.last > JOIN
    \/ Ready(g) = Members(g)
Stale_KeepsEmpty(g) ==
    \/ g.solo /\ Good(g) = Members(g)
    \/ g.solo /\ g.last > JOIN
Stale(g) ==
    \/ g.solo /\ Good(g) = Members(g)
    \/ g.solo /\ g.last > JOIN
    \/ Ready(g) = Members(g)

Without(g, M) == [g EXCEPT !.ok = [m \in Members(g) \ M |-> g.ok[m]]]

\* is_ok: what this very send knows, and else the row.
Well(fails, recs) == (Sites \ fails) \ (bad \ recs)

Announced(G) == UNION {Members(g) : g \in {h \in G : ~h.solo}}

\* What goes to dispatch, and the groups to be saved after it.
Handed(j, kept, alarms, clears, edits) ==
    [at |-> "send", fails |-> {}, recs |-> j.recs, marks |-> j.marks, read |-> j.read,
     kept |-> kept, alarms |-> alarms, clears |-> clears, edits |-> edits]

Compose(p) ==
    LET j == job[p]
    IN  /\ j.at = "compose"
        /\ \E g \in IF OpenFor(j.read) = {} THEN NewGroups(j.fails) ELSE OpenFor(j.read) :
            LET new == OpenFor(j.read) = {}
                folded == IF j.fails = {} THEN j.read
                          ELSE IF new THEN j.read \cup {g}
                          ELSE (j.read \ {g}) \cup {Joined(g, j.fails)}
                looked == {Looked(h, Well(j.fails, j.recs)) : h \in folded}
            IN  job' = [job EXCEPT ![p] = Handed(j,
                    {Without(h, Ready(h)) : h \in {k \in looked : ~Stale(k)}},
                    IF new THEN j.fails ELSE {},
                    (j.recs \ Announced(folded)) \cup UNION {Ready(h) : h \in looked},
                    IF new \/ j.fails = {} THEN {}
                    ELSE LET h == Looked(Joined(g, j.fails), Well(j.fails, j.recs))
                         IN  Members(h) \ Ready(h))]
        /\ UNCHANGED <<bad, told, groups, retry, heard, faults, lost, unsaid>>

\* _site_groups raised: everything goes out by itself and no group changes.
ComposeFails(p) ==
    /\ Fault("compose")
    /\ job[p].at = "compose"
    /\ job' = [job EXCEPT ![p] = Handed(@, @.read, @.fails, @.recs, {})]
    /\ UNCHANGED <<bad, told, groups, retry, heard, lost, unsaid>>

(***************************************************************************)
(* dispatch, and what follows it.                                          *)
(***************************************************************************)
DispatchOk(p) ==
    LET j == job[p]
    IN  /\ j.at = "send"
        /\ heard' = (heard \cup j.alarms) \ j.clears
        /\ lost' = lost \ j.clears
        /\ unsaid' = unsaid \ (j.alarms \cup j.clears)
        /\ retry' = [retry EXCEPT ![ProcessOf(p)] = Dropped(@, j.recs)]
        /\ job' = [job EXCEPT ![p].at = "after", ![p].alarms = {}, ![p].clears = {}]
        /\ UNCHANGED <<bad, told, groups, faults>>

DispatchFail(p) ==
    LET j == job[p]
    IN  /\ Fault("dispatch")
        /\ j.at = "send" /\ j.alarms \cup j.clears # {}
        /\ retry' = [retry EXCEPT ![ProcessOf(p)] = Added(@, j.recs)]
        /\ job' = [job EXCEPT ![p] = Idle]
        /\ UNCHANGED <<bad, told, groups, heard, lost, unsaid>>

\* after(): the groups are saved if they changed, then messages are edited.
Saved(j) == IF j.kept # j.read THEN j.kept ELSE groups

After_NoEdits(p) ==
    /\ job[p].at = "after"
    /\ groups' = Saved(job[p])
    /\ job' = [job EXCEPT ![p].at = "mark"]
    /\ UNCHANGED <<bad, told, retry, heard, faults, lost, unsaid>>
After(p) ==
    LET j == job[p]
    IN  /\ j.at = "after"
        /\ groups' = Saved(j)
        /\ heard' = IF Telegram THEN heard \cup j.edits ELSE heard
        /\ unsaid' = IF Telegram THEN unsaid \ j.edits ELSE unsaid
        /\ job' = [job EXCEPT ![p].at = "mark"]
        /\ UNCHANGED <<bad, told, retry, faults, lost>>

\* The save or an edit raised; the marks are written all the same.
AfterFails(p) ==
    LET j == job[p]
    IN  /\ Fault("after")
        /\ j.at = "after"
        /\ groups' \in {groups, Saved(j)}
        /\ lost' = lost \cup (heard \cap j.recs)
        /\ unsaid' = unsaid \cup j.edits
        /\ job' = [job EXCEPT ![p].at = "mark"]
        /\ UNCHANGED <<bad, told, retry, heard>>

Mark(p) ==
    /\ job[p].at = "mark"
    /\ told' = told \cup job[p].marks
    /\ job' = [job EXCEPT ![p] = Idle]
    /\ UNCHANGED <<bad, groups, retry, heard, faults, lost, unsaid>>

\* A process is killed: the all-clears it had in memory are gone, and an
\* alarm it has sent and not marked will be taken for never sent.
Crash(q) ==
    LET own == {p \in Senders : ProcessOf(p) = q}
    IN  /\ Fault("crash")
        /\ \E p \in own : job[p].at # "idle"
        /\ lost' = lost \cup (heard \cap (Held(retry[q]) \cup UNION {job[p].recs \cup job[p].marks : p \in own}))
        /\ retry' = [retry EXCEPT ![q] = [s \in Sites |-> Never]]
        /\ job' = [p \in Senders |-> IF p \in own THEN Idle ELSE job[p]]
        /\ UNCHANGED <<bad, told, groups, heard, unsaid>>

----------------------------------------------------------------------------
Step(p) ==
    \/ Load(p) \/ Compose(p) \/ ComposeFails(p)
    \/ DispatchOk(p) \/ DispatchFail(p)
    \/ After(p) \/ AfterFails(p) \/ Mark(p)

Next ==
    \/ Tick
    \/ \E p \in Senders : Check(p)
    \/ \E p \in Senders : Step(p)
    \/ \E q \in Processes : Crash(q)

Spec == Init /\ [][Next]_vars

\* The scheduler's loop goes on, a send that has begun is carried through
\* unless something goes wrong, and time passes.
Fairness ==
    /\ WF_vars(Check(Scheduler))
    /\ \A p \in Senders : WF_vars(Step(p))
    /\ SF_vars(Tick)

FairSpec == Spec /\ Fairness

----------------------------------------------------------------------------
\* Every variable has its type; a stored group has members, and whoever was
\* told of has an open episode.
TypeOK ==
    /\ bad \subseteq Sites /\ told \subseteq bad
    /\ groups \subseteq Groups
    /\ retry \in [Processes -> Retries]
    /\ heard \subseteq Sites /\ lost \subseteq Sites /\ unsaid \subseteq Sites
    /\ faults \in 0 .. MaxFaults
    /\ job \in [Senders ->
            [at : {"idle", "load", "compose", "send", "after", "mark"},
             fails : SUBSET Sites, recs : SUBSET Sites, marks : SUBSET Sites,
             read : SUBSET Groups, kept : SUBSET Groups,
             alarms : SUBSET Sites, clears : SUBSET Sites, edits : SUBSET Sites]]

\* A monitor whose failure counts as told is one the chat names as failing:
\* joining a group instead of sending a message loses nobody, except when
\* adding the line to the message failed.
ToldIsHeard == told \subseteq heard \cup unsaid

\* While the chat names a monitor as failing somebody still has its
\* all-clear to send: its own episode, a stored group that announced it, a
\* send under way or a parked all-clear.  The only ones that are lost were
\* in the memory of a killed process, held back by a group that could not
\* be saved, or thrown away while parked: the site was down again at the
\* next send, or the all-clear had been parked for a day.
Waiting(p) ==
    IF job[p].at \in {"after", "mark"} THEN job[p].marks \cup Announced(job[p].kept)
    ELSE job[p].recs

OwedIsKept ==
    heard \subseteq bad \cup lost \cup Announced(groups)
                  \cup (UNION {Waiting(p) : p \in Senders}) \cup (UNION {Held(retry[q]) : q \in Processes})

\* A monitor that a stored group has announced leaves the stored groups only
\* with its all-clear said: what holds back its own all-clear is never
\* forgotten before.
ListedUntilCleared ==
    [][Announced(groups) \cap heard' \subseteq Announced(groups')]_vars

\* A monitor named in the message of a stored group gets its all-clear if it
\* stays well, also when its neighbours never recover, and whatever is
\* refused or killed meanwhile.
MembersAreCleared ==
    \A s \in Sites : (s \in Announced(groups) \cap heard /\ s \notin bad)
                        ~> (s \notin heard \/ s \in bad)
=============================================================================
