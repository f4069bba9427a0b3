-------------------------- MODULE ExpiryReminders --------------------------
(***************************************************************************)
(* The reminders about a domain that is going to expire: _apply_expiry and *)
(* DomainAlerts of app/collector.py, app/expiry_snooze.py and the requests *)
(* of app/api/checks.py that touch the stored term.                        *)
(*                                                                         *)
(* Several monitors watch sites of one domain.  Each keeps the days it     *)
(* last saw and the threshold it was last reminded at; of all of them one  *)
(* is to speak per threshold, and one when the domain has been renewed.    *)
(* All monitors here have the same thresholds.                             *)
(***************************************************************************)
EXTENDS Integers, Sequences, FiniteSets, FiniteSetsExt

CONSTANTS
    Monitors,
    Warn,           \* domain_warn_days
    Modes,          \* expiry_snooze.MODES; 0 is "do not watch"
    RENEW_SLACK,
    MaxDays,        \* the days a renewal gives
    Jitter,         \* by how many days two probes of one term may differ
    Paused,         \* monitors the operator has switched off
    Views,          \* which monitors a user may see
    None

ASSUME ExpiryConstants ==
    /\ IsFiniteSet(Monitors) /\ Paused \subseteq Monitors
    /\ Views \subseteq SUBSET Monitors
    /\ IsFiniteSet(Warn) /\ Warn # {} /\ Warn \subseteq 1 .. MaxDays - 1
    /\ Modes \subseteq 0 .. MaxDays - 1
    /\ {RENEW_SLACK, Jitter} \subseteq Nat
    /\ MaxDays \in Nat
    /\ None \notin Int

EXPIRED == -1

Terms == EXPIRED - Jitter .. MaxDays + Jitter
Buckets == Warn \cup (Modes \ {0}) \cup {EXPIRED}

VARIABLES
    left,       \* the days the domain really has, EXPIRED when it has none
    days,       \* per monitor: domain_days
    alerted,    \* per monitor: domain_alerted_days
    snooze,     \* per monitor: the "domain" entry of expiry_snooze
    fresh,      \* the monitors refreshed, or put off, since the day began
    held,       \* the monitors whose refresh is put off, expiry_checked_at being new
    pass,       \* the pass under way: what it is still to go through, and has seen
    queue,      \* pending: what the pass is about to send
    said,       \* the closest threshold a reader was told of in this term
    tried,      \* the closest one with a message: delivered, refused or left out
    news,       \* the domain has been renewed and no message has said so
    late        \* it has been renewed since the queue was put together

vars == <<left, days, alerted, snooze, fresh, held, pass, queue, said, tried, news, late>>
rows == <<days, alerted, snooze>>

Messages == [kind : {"remind"}, of : Monitors, bucket : Buckets]
                \cup [kind : {"renewed"}, of : Monitors, bucket : {None}]

\* Every monitor has been probed once: what domain_days is before, NULL, is
\* not modelled.  A paused monitor keeps the mark it had, of this term or an
\* earlier one.
Init ==
    /\ left = MaxDays
    /\ days = [m \in Monitors |-> MaxDays]
    /\ alerted \in [Monitors -> Buckets \cup {None}]
    /\ \A m \in Monitors \ Paused : alerted[m] = None
    /\ snooze = [m \in Monitors |-> None]
    /\ fresh = {} /\ held = {} /\ pass = None /\ queue = <<>>
    /\ said = None /\ tried = None /\ news = FALSE /\ late = FALSE

Resting == pass = None

(***************************************************************************)
(* The world: days go by, and the owner pays.  A monitor is refreshed      *)
(* every few hours (expiry_refresh_hours, 6), so no day ends before every  *)
(* monitor that is not paused has been, nor while a message is on its way. *)
(* A check that somebody asks for puts the refresh off by those hours, to  *)
(* the next day perhaps.  A renewal gives months: the first day after it   *)
(* stands for them, and everyone is refreshed in it.                       *)
(***************************************************************************)
Due == Monitors \ Paused

Day ==
    /\ Resting /\ queue = <<>>
    /\ Due \subseteq fresh
    /\ left' = IF left = EXPIRED THEN left ELSE left - 1
    /\ fresh' = {}
    /\ UNCHANGED <<pass, rows, held, queue, said, tried, news, late>>

Renew ==
    /\ Resting /\ left < MaxDays
    /\ left' = MaxDays /\ fresh' = {}
    /\ said' = None /\ tried' = None /\ news' = TRUE /\ late' = (queue # <<>>)
    /\ UNCHANGED <<pass, rows, held, queue>>

\* expiry_refresh_hours have passed since the checks that were asked for.
Hours ==
    /\ Resting /\ held # {}
    /\ held' = {}
    /\ UNCHANGED <<pass, left, rows, fresh, queue, said, tried, news, late>>

(***************************************************************************)
(* expiry_snooze.                                                          *)
(***************************************************************************)
renewed(e, d) == d > e.days + RENEW_SLACK

hidden(e, d) == e # None /\ (e.mode = 0 \/ (~renewed(e, d) /\ d > e.mode))

thresholds(e, d) ==
    Warn \cup (IF e = None \/ e.mode = 0 \/ renewed(e, d) THEN {} ELSE {e.mode})

\* A term that moved away drops a postponement; "do not watch" stays.
sync(e, d) == IF e # None /\ e.mode > 0 /\ renewed(e, d) THEN None ELSE e

(***************************************************************************)
(* _apply_expiry for the row of monitor m, which the probe gave d days, in *)
(* the course w of a pass.  doms is DomainAlerts: what the monitors of the *)
(* domain had stored when the pass began, kept up to date with those the   *)
(* pass has been through.                                                  *)
(***************************************************************************)
_expiry_bucket(d, thr, at) ==
    LET crossed == {t \in thr : d <= t} \cup (IF d < 0 THEN {EXPIRED} ELSE {})
    IN  IF crossed # {} /\ (at = None \/ Min(crossed) < at) THEN Min(crossed) ELSE None

should_alert_Each(doms, m, bucket) == TRUE
should_alert(doms, m, bucket) ==
    \A o \in Monitors \ {m} : doms[o].alerted = None \/ doms[o].alerted > bucket

first_renewed_Each(doms, m, limit) == TRUE
first_renewed(doms, m, limit) ==
    \A o \in Monitors \ {m} : doms[o].alerted # None \/ doms[o].days <= limit

\* "Renewed": the escalation starts afresh, and the first monitor says so.
Reset(w, m, e, d) ==
    LET limit == Max(thresholds(e, d))
        tell == w.alerted[m] # None /\ ~hidden(e, d) /\ first_renewed(w.doms, m, limit)
    IN  IF d <= limit THEN w
        ELSE [days |-> w.days, snooze |-> w.snooze,
              alerted |-> [w.alerted EXCEPT ![m] = None],
              doms |-> [w.doms EXCEPT ![m] = [alerted |-> None, days |-> d]],
              out |-> IF tell THEN Append(w.out, [kind |-> "renewed", of |-> m, bucket |-> None])
                      ELSE w.out]

\* The first monitor to reach a threshold speaks, and is marked once the
\* message is delivered; the others are marked here.
Remind_Marks(w, m, e, d) ==
    LET bucket == _expiry_bucket(d, thresholds(e, d), w.alerted[m])
        first == should_alert(w.doms, m, bucket) /\ ~hidden(e, d)
    IN  IF bucket = None THEN w
        ELSE [days |-> w.days, snooze |-> w.snooze,
              alerted |-> IF first THEN w.alerted ELSE [w.alerted EXCEPT ![m] = bucket],
              doms |-> [w.doms EXCEPT ![m] = [alerted |-> bucket, days |-> w.doms[m].days]],
              out |-> IF first THEN Append(w.out, [kind |-> "remind", of |-> m, bucket |-> bucket])
                      ELSE w.out]
Remind(w, m, e, d) ==
    LET bucket == _expiry_bucket(d, thresholds(e, d), w.alerted[m])
        first == should_alert(w.doms, m, bucket)
    IN  IF bucket = None \/ hidden(e, d) THEN w
        ELSE [days |-> w.days, snooze |-> w.snooze,
              alerted |-> IF first THEN w.alerted ELSE [w.alerted EXCEPT ![m] = bucket],
              doms |-> [w.doms EXCEPT ![m] = [alerted |-> bucket, days |-> w.doms[m].days]],
              out |-> IF first THEN Append(w.out, [kind |-> "remind", of |-> m, bucket |-> bucket])
                      ELSE w.out]

_apply_expiry(w, m, d) ==
    LET e == sync(w.snooze[m], d)
        stored == [days |-> [w.days EXCEPT ![m] = d], snooze |-> [w.snooze EXCEPT ![m] = e],
                   alerted |-> w.alerted, doms |-> w.doms, out |-> w.out]
    IN  Remind(Reset(stored, m, e, d), m, e, d)

(***************************************************************************)
(* A pass of run_due_checks goes through the monitors that are due for a   *)
(* refresh and got an answer.  The answer about the domain is cached, so   *)
(* it is one for all of them.  Its rows are committed together, before the *)
(* messages go out, and the next pass waits for this one's to be done.  A  *)
(* request that commits while the pass goes through its rows stands before *)
(* or after the pass here.                                                 *)
(***************************************************************************)
Refresh(P) ==
    /\ Resting /\ queue = <<>>
    /\ P # {} /\ P \subseteq Due \ held
    /\ \E d \in left - Jitter .. left + Jitter :
        pass' = [todo |-> P, days |-> d,
                 doms |-> [m \in Monitors |-> [alerted |-> alerted[m], days |-> days[m]]]]
    /\ UNCHANGED <<left, rows, held, fresh, queue, said, tried, news, late>>

Apply(m) ==
    /\ ~Resting /\ m \in pass.todo
    /\ \E done \in {_apply_expiry([days |-> days, alerted |-> alerted, snooze |-> snooze,
                                  doms |-> pass.doms, out |-> queue], m, pass.days)} :
        /\ days' = done.days /\ alerted' = done.alerted /\ snooze' = done.snooze
        /\ queue' = done.out
        /\ pass' = IF pass.todo = {m} THEN None
                   ELSE [todo |-> pass.todo \ {m}, days |-> pass.days, doms |-> done.doms]
    /\ fresh' = fresh \cup {m}
    /\ UNCHANGED <<left, held, said, tried, news, late>>

(***************************************************************************)
(* _send_alerts.  The messages of the monitors M are left out, and not     *)
(* marked: the monitor is muted, snoozed or in a maintenance window, the   *)
(* rule is off or the whole panel muted, now or since a moment ago.  The   *)
(* rest is one message, worded by the first; when the channel takes it,    *)
(* everyone in it is marked.  A process that is killed between the two,    *)
(* and reminds once more, is not modelled.                                 *)
(***************************************************************************)
Audible(q, M) == {i \in DOMAIN q : q[i].of \notin M}

Marked(q, M) ==
    [m \in Monitors |->
        LET mine == {i \in Audible(q, M) : q[i].of = m /\ q[i].bucket # None}
        IN  IF mine = {} THEN alerted[m] ELSE q[Max(mine)].bucket]

Heard(q, M) == Audible(q, M) # {}
Text(q, M) == q[Min(Audible(q, M))]

\* The closest of b and the thresholds S; a message that was put together
\* before a renewal is about another term.
Closest(b, S) == IF late \/ S = {} \/ (b # None /\ b <= Min(S)) THEN b ELSE Min(S)

About(q) == {q[i].bucket : i \in DOMAIN q} \ {None}

Deliver(M) ==
    /\ Resting /\ queue # <<>>
    /\ alerted' = Marked(queue, M)
    /\ said' = IF Heard(queue, M) THEN Closest(said, {Text(queue, M).bucket} \ {None}) ELSE said
    /\ news' = (news /\ ~(Heard(queue, M) /\ Text(queue, M).kind = "renewed"))
    /\ tried' = Closest(tried, About(queue))
    /\ queue' = <<>> /\ late' = FALSE
    /\ UNCHANGED <<pass, left, days, snooze, held, fresh>>

\* "Not delivered: not marked".  A process that dies here leaves the same.
Refuse ==
    /\ Resting /\ queue # <<>>
    /\ tried' = Closest(tried, About(queue))
    /\ queue' = <<>> /\ late' = FALSE
    /\ UNCHANGED <<pass, left, rows, held, fresh, said, news>>

(***************************************************************************)
(* The operator.                                                           *)
(***************************************************************************)
\* run_check_now, and a recheck of the alert: the term is stored, the
\* postponement of a renewed one dropped and the next refresh put off; nobody
\* is reminded and no mark changes.  The request's load of the row and its
\* write, with a probe in between, are one step.
run_check_now(m) ==
    /\ Resting
    /\ held' = held \cup {m}
    /\ fresh' = IF left = MaxDays THEN fresh ELSE fresh \cup {m}
    /\ \E d \in left - Jitter .. left + Jitter :
        /\ days' = [days EXCEPT ![m] = d]
        /\ snooze' = [snooze EXCEPT ![m] = sync(@, d)]
    /\ UNCHANGED <<pass, left, alerted, queue, said, tried, news, late>>

\* expiry_snooze_check, asked for monitor m: every monitor of the domain in
\* a group that the user may see.
\* entry: the term is of use for a postponement only.
entry(mode, d) == [mode |-> mode, days |-> IF mode = 0 THEN 0 ELSE d]

expiry_snooze_check(m, mode) ==
    /\ Resting
    /\ mode > 0 => days[m] > mode
    /\ \E V \in Views :
        /\ m \in V
        /\ snooze' = [o \in Monitors |-> IF o \in V THEN entry(mode, days[o]) ELSE snooze[o]]
    /\ UNCHANGED <<pass, left, days, alerted, held, fresh, queue, said, tried, news, late>>

Watch ==
    /\ Resting
    /\ \E V \in Views : snooze' = [o \in Monitors |-> IF o \in V THEN None ELSE snooze[o]]
    /\ UNCHANGED <<pass, left, days, alerted, held, fresh, queue, said, tried, news, late>>

Operator ==
    \/ \E m \in Monitors :
        run_check_now(m) \/ \E mode \in Modes : expiry_snooze_check(m, mode)
    \/ Watch

Refreshes == \E P \in SUBSET Due : Refresh(P)

Scheduler ==
    \/ Refreshes
    \/ \E m \in Monitors : Apply(m)
    \/ \E M \in SUBSET Monitors : Deliver(M)

Next == Day \/ Renew \/ Hours \/ Scheduler \/ Refuse \/ Operator

Spec == Init /\ [][Next]_vars

\* The scheduler is one loop that runs for ever: it takes up some monitors,
\* goes through them, sends, and begins again.  It comes round within
\* seconds, sooner than somebody who asks for a check after hours without
\* one; and there are such hours some day.
FairSpec == Spec /\ WF_vars(Scheduler) /\ SF_vars(Refreshes) /\ WF_vars(Hours)

(***************************************************************************)
(* Properties.                                                             *)
(***************************************************************************)
\* The types of the state.  A pass leaves at most one message: however many
\* monitors reach a threshold or notice a renewal in it, one of them speaks.
TypeOK ==
    /\ left \in EXPIRED .. MaxDays
    /\ days \in [Monitors -> Terms]
    /\ alerted \in [Monitors -> Buckets \cup {None}]
    /\ snooze \in [Monitors -> [mode : Modes, days : Terms] \cup {None}]
    /\ {fresh, held} \subseteq SUBSET Monitors
    /\ pass \in {None} \cup [todo : (SUBSET Monitors) \ {{}}, days : Terms,
                          doms : [Monitors -> [alerted : Buckets \cup {None}, days : Terms]]]
    /\ queue \in Seq(Messages) /\ Len(queue) <= 1
    /\ {said, tried} \subseteq Buckets \cup {None}
    /\ {news, late} \subseteq BOOLEAN

\* "One per domain and threshold": a reminder that reaches the reader is
\* closer than all he was given in this term, and he is told of a renewal
\* once and never without one, whichever monitors speak, notice, are
\* postponed, muted or refused in between.
IsNews(text) ==
    CASE text.kind = "remind"  -> late \/ said = None \/ text.bucket < said
      [] text.kind = "renewed" -> news

NewsOnce ==
    [][\A M \in SUBSET Monitors : Deliver(M) /\ Heard(queue, M) => IsNews(Text(queue, M))]_vars

\* The domain is postponed beyond the days it has, or not watched at all.
Ignored == \E m \in Monitors : snooze[m] # None /\ (snooze[m].mode = 0 \/ left > snooze[m].mode)

Reached(k) == left <= k /\ ~Ignored

Upto(b, k) == b # None /\ b <= k

\* A reminder is owed: a threshold is reached, and no message about it or a
\* closer one was delivered, refused, or left out because its monitor was
\* muted.
Owed == \E k \in Warn \cup {EXPIRED} : Reached(k) /\ ~Upto(tried, k)

\* No reminder is owed for ever: a threshold that is reached, a postponed one
\* included, is told of, or the domain is renewed or postponed first.  A
\* message that was refused or muted may cost its own threshold and no closer
\* one, and a check that somebody asks for costs none.
ReachedIsTold == []<>~Owed

\* "Not delivered: not marked, repeated on the next tick": the same whatever
\* is refused or muted.  It does not hold: the silent marks of the other
\* monitors were committed before the dispatch (README, section 9).
RefusedIsRepeated ==
    \A k \in Warn \cup {EXPIRED} :
        Reached(k) ~> (Upto(said, k) \/ ~Reached(k))

=============================================================================
