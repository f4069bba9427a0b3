------------------------------ MODULE SiteFlap ------------------------------
(***************************************************************************)
(* When a site is "flapping", "stable again" or "answering every other     *)
(* time": the predicates of backend/app/site_flap.py and                   *)
(* backend/app/flaky.py over the recent samples of one monitor.            *)
(*                                                                         *)
(* A sample is the pair of its age (now - ts, in units of the model's      *)
(* clock) and its status.  No two samples of a monitor carry the same      *)
(* timestamp, so a history is the SET of its samples and the order is the  *)
(* order of the ages.  Every comparison the code makes is a comparison of  *)
(* differences with now, that is, of ages.                                 *)
(***************************************************************************)
EXTENDS Integers, FiniteSets

CONSTANTS
    FLAP_WINDOW,    \* several runs of failures inside it: the site flaps
    STABLE,         \* so long without a failure before a flapping site is cleared
    STABLE_N,       \* ... and so many good samples in a row
    WORSE,          \* flaky -> down: announced only after so long
    WINDOW,         \* "every other time" looks at so many samples
    FAILS, RUNS,    \* ... and starts at so many failures in so many runs
    CLEAR           \* ... and ends when at most so many failures are left

ASSUME FlapConstants ==
    /\ {FLAP_WINDOW, STABLE, STABLE_N, WORSE, WINDOW, FAILS, RUNS, CLEAR} \subseteq Nat
    /\ CLEAR < FAILS

-----------------------------------------------------------------------------
(* Histories.                                                              *)

Newer(S, s) == {t \in S : t.age < s.age}

\* ORDER BY ts DESC LIMIT n
Latest(S, n) == {s \in S : Cardinality(Newer(S, s)) < n}

\* the sample just before s, as a set of at most one element
Previous(S, s) ==
    {t \in S : t.age > s.age /\ ~\E u \in S : s.age < u.age /\ u.age < t.age}

\* the samples t such that everything between s and t, both included, is down
RunOf(S, s) ==
    {t \in S : \A u \in S :
        (u.age >= s.age /\ u.age <= t.age) \/ (u.age >= t.age /\ u.age <= s.age)
            => u.st = "down"}

-----------------------------------------------------------------------------
(* site_flap.py                                                            *)

\* how many separate runs of samples that are not up, none older than since
FailureRuns(S, since) ==
    LET F == {s \in S : s.age <= since /\ s.st # "up"}
    IN  Cardinality({s \in F : Previous(S, s) \cap F = {}})

Flapping(S) == FailureRuns(S, FLAP_WINDOW) >= 2

Stable(S) ==
    /\ Cardinality(Latest(S, STABLE_N)) = STABLE_N
    /\ \A s \in Latest(S, STABLE_N) : s.st = "up"
    /\ \A s \in S : s.st = "down" => s.age >= STABLE

-----------------------------------------------------------------------------
(* flaky.py                                                                *)

\* mutant: a run of exactly longRun failures still counts as short
ShortFailures_UpTo(S, longRun) ==
    {s \in Latest(S, WINDOW) : s.st = "down" /\ Cardinality(RunOf(S, s)) <= longRun}

\* failures inside the window that belong to a run shorter than longRun
ShortFailures(S, longRun) ==
    {s \in Latest(S, WINDOW) : s.st = "down" /\ Cardinality(RunOf(S, s)) < longRun}

\* the runs those failures belong to, each by its newest sample
ShortRuns(S, longRun) ==
    {s \in ShortFailures(S, longRun) : Newer(RunOf(S, s), s) = {}}

InOutage(S, longRun) ==
    /\ Cardinality(Latest(S, longRun)) = longRun
    /\ \A s \in Latest(S, longRun) : s.st = "down"

\* mutant: a plain outage is judged too
IsFlaky_InOutage(S, longRun, was) ==
    LET fails == Cardinality(ShortFailures(S, longRun))
    IN  IF was THEN fails > CLEAR
        ELSE fails >= FAILS /\ Cardinality(ShortRuns(S, longRun)) >= RUNS

\* Is the site answering every other time?  Hysteresis between FAILS and CLEAR;
\* while a plain outage lasts the verdict does not change.
IsFlaky(S, longRun, was) ==
    IF InOutage(S, longRun) THEN was
    ELSE LET fails == Cardinality(ShortFailures(S, longRun))
         IN  IF was THEN fails > CLEAR
             ELSE fails >= FAILS /\ Cardinality(ShortRuns(S, longRun)) >= RUNS
=============================================================================
