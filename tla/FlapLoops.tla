------------------------------ MODULE FlapLoops ------------------------------
(***************************************************************************)
(* The loops of site_flap.py and flaky.py as they are written, folds over  *)
(* the list of samples from the oldest to the newest, against the set      *)
(* definitions of SiteFlap, on every history of a monitor up to MaxLen     *)
(* samples.                                                                *)
(***************************************************************************)
EXTENDS SiteFlap, SequencesExt

CONSTANTS
    Thr,            \* thr of _flaky_step: failures in a row before an alarm
    Spacings,       \* times between two samples
    Outcomes,       \* probe outcomes
    MaxLen          \* bound: samples of a history

ASSUME LoopConstants ==
    Thr \in Nat \ {0} /\ Spacings \subseteq Nat \ {0} /\ MaxLen \in Nat

VARIABLE hist   \* the samples [age, st], oldest first, the newest of age 0

NoSamples == hist = <<>>

\* h[-n:]
Slice(h, n) == SubSeq(h, IF Len(h) > n THEN Len(h) - n + 1 ELSE 1, Len(h))

\* a check is recorded d after the previous one; the oldest samples are pruned
Sample(d, st) ==
    hist' = Slice(Append([i \in DOMAIN hist |-> [hist[i] EXCEPT !.age = @ + d]],
                         [age |-> 0, st |-> st]),
                  MaxLen)

Checked == \E d \in Spacings, st \in Outcomes : Sample(d, st)

Histories == NoSamples /\ [][Checked]_hist

-----------------------------------------------------------------------------
(* The code.                                                               *)

\* site_flap.runs
RunsStep(acc, s, since) ==
    IF s.age > since THEN acc
    ELSE IF s.st # "up"
         THEN [n |-> IF acc.inside THEN acc.n ELSE acc.n + 1, inside |-> TRUE]
         ELSE [n |-> acc.n, inside |-> FALSE]

RunsLoop(h, since) ==
    FoldLeft(LAMBDA acc, s : RunsStep(acc, s, since), [n |-> 0, inside |-> FALSE], h).n

\* site_flap.stable
StableLoop(h) ==
    LET tail == Slice(h, STABLE_N)
        downs == {h[i].age : i \in {i \in DOMAIN h : h[i].st = "down"}}
    IN  /\ Len(tail) >= STABLE_N
        /\ \A i \in DOMAIN tail : tail[i].st = "up"
        /\ downs = {} \/ Min(downs) >= STABLE

\* flaky.short_failures, first loop: the runs as pairs (index past the end, length)
PairsStep(a, s) ==
    IF s.st = "down" THEN [i |-> a.i + 1, n |-> a.n + 1, runs |-> a.runs]
    ELSE [i |-> a.i + 1, n |-> 0,
          runs |-> IF a.n > 0 THEN Append(a.runs, <<a.i, a.n>>) ELSE a.runs]

PairsLoop(h) == FoldLeft(LAMBDA a, s : PairsStep(a, s), [i |-> 0, n |-> 0, runs |-> <<>>], h)

RunPairs(h) ==
    LET acc == PairsLoop(h)
    IN  IF acc.n > 0 THEN Append(acc.runs, <<Len(h), acc.n>>) ELSE acc.runs

\* second loop: (failures inside the window, runs they belong to)
ShortStep(acc, r, lo) ==
    LET inside == r[1] - Max({r[1] - r[2], lo})
    IN  IF r[2] >= Thr \/ inside <= 0 THEN acc ELSE <<acc[1] + inside, acc[2] + 1>>

ShortLoop(h) ==
    FoldLeft(LAMBDA acc, r : ShortStep(acc, r, Max({Len(h) - WINDOW, 0})), <<0, 0>>, RunPairs(h))

\* flaky.in_outage
OutageLoop(h) ==
    LET tail == Slice(h, Thr)
    IN  Len(tail) = Thr /\ \A i \in DOMAIN tail : tail[i].st = "down"

\* flaky.is_flaky
FlakyLoop(h, was) ==
    IF OutageLoop(h) THEN was
    ELSE IF was THEN ShortLoop(h)[1] > CLEAR
    ELSE ShortLoop(h)[1] >= FAILS /\ ShortLoop(h)[2] >= RUNS

\* mutant: the history is cut at the window itself
Queried_WindowOnly(h) == Slice(h, WINDOW)

\* what _flaky_step hands over: WINDOW + thr earlier samples and the new one
Queried(h) == Slice(h, WINDOW + Thr + 1)

-----------------------------------------------------------------------------
(* Properties.                                                             *)

\* The loops of site_flap.runs, site_flap.stable, flaky.short_failures and
\* flaky.is_flaky compute what the set definitions say, on every history: a run
\* that crosses the edge of the window, a slow answer inside a run of failures, a
\* history shorter than the window.
LoopsAgree ==
    LET S == {hist[i] : i \in DOMAIN hist}
    IN  /\ RunsLoop(hist, FLAP_WINDOW) = FailureRuns(S, FLAP_WINDOW)
        /\ StableLoop(hist) = Stable(S)
        /\ \A was \in BOOLEAN : FlakyLoop(hist, was) = IsFlaky(S, Thr, was)

\* The LIMIT of the query in _flaky_step is enough: judging the samples it returns
\* gives the verdict of the whole history, also when a long outage began before
\* the window.
WindowIsEnough ==
    \A was \in BOOLEAN : FlakyLoop(Queried(hist), was) = FlakyLoop(hist, was)
=============================================================================
