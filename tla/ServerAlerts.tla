---------------------------- MODULE ServerAlerts ----------------------------
(***************************************************************************)
(* One kind of alarm of one server, tick by tick (evaluate_servers of       *)
(* collector.py, known.py, fixed.py): a kind with levels, a settling time    *)
(* before the all-clear and no list of members, such as memory or pressure.  *)
(*                                                                         *)
(* A tick reads the server's row, decides by rules that are tried in order,  *)
(* dispatches alarms and then all-clears, and writes alert_state as a whole: *)
(* silent changes always, a transition that was to be told only when it was  *)
(* delivered.  People snooze, mute, mark as known or as fixed at any time,   *)
(* also between the read and the write.                                     *)
(*                                                                         *)
(* Moments are kept as ages: a tick is one unit of time, and an age stops    *)
(* growing where no rule tells it from a greater one.                       *)
(***************************************************************************)
EXTENDS Integers

CONSTANTS
    MaxLevel,       \* levels of the alarm: 1 is a warning
    Flaps,          \* whether the kind is in _FLAP_METRIC_KINDS: a set of choices
    Settle,         \* _SETTLE_S
    Again,          \* _AGAIN_S
    AgainMax,       \* _AGAIN_MAX
    Tell,           \* _AGAIN_TELL
    FlapWindow, FlapLimit,  \* _FLAP_METRIC_WINDOW, _FLAP_METRIC_LIMIT
    Gone,           \* known.GONE_S
    Ops, FlapOps    \* what people do about a kind that does not flap, or does (bound): a
                    \* subset of snooze, mute, known, fixed

ASSUME AlertConstants ==
    /\ Flaps \subseteq BOOLEAN
    /\ Ops \cup FlapOps \subseteq {"snooze", "mute", "known", "fixed"}
    /\ {MaxLevel, Settle, Again, AgainMax, Tell, FlapWindow, FlapLimit, Gone} \subseteq Nat
    /\ FlapLimit # 0

Levels == 0..MaxLevel
No == 0 - 1
Age(cap) == No..cap
Max(a, b) == IF a > b THEN a ELSE b

VARIABLES
    flaps,      \* the kind is one that flaps
    world,      \* the level the conditions give
    seen,       \* the server talks and its report is fresh and complete
    st,         \* alert_state, as far as this kind is concerned
    snooze,     \* snooze_until, or a maintenance window
    mute,       \* the highest level that is muted; 0: none
    known,      \* the entry in known_issues
    fixed,      \* an entry in alert_fixed that is not done
    tick,       \* the tick under way
    chat        \* the highest level told since the last all-clear

vars == <<flaps, world, seen, st, snooze, mute, known, fixed, tick, chat>>
people == <<snooze, mute, known, fixed>>

NoWas == [ts |-> No, first |-> No, lvl |-> 0]
NoFlap == [on |-> FALSE, n |-> 0, since |-> No, last |-> No]
Clear == [lvl |-> 0, from |-> FALSE, told |-> 0, calm |-> No, hush |-> No,
          was |-> NoWas, flap |-> NoFlap]
NoKnown == [on |-> FALSE, lvl |-> 0, gone |-> No]
NoTick == [step |-> "idle", msg |-> "none", lvl |-> 0, imm |-> Clear, then |-> Clear,
           back |-> FALSE, quiet |-> FALSE, kn |-> NoKnown, mine |-> FALSE, fx |-> FALSE]

States == [lvl : Levels, from : BOOLEAN, told : Levels, calm : Age(Settle), hush : Age(Tell),
           was : [ts : Age(Again), first : Age(AgainMax + 1), lvl : Levels],
           flap : [on : BOOLEAN, n : 0..FlapLimit, since : Age(FlapWindow + 1), last : Age(FlapWindow + 1)]]
Knowns == [on : BOOLEAN, lvl : Levels, gone : Age(Gone)]

\* Bounds and types of the state; a series falls silent at the crossing that reaches FlapLimit
\* and counts no further.
TypeOK ==
    /\ flaps \in Flaps /\ world \in Levels /\ seen \in BOOLEAN
    /\ st \in States
    /\ snooze \in BOOLEAN /\ mute \in Levels /\ known \in Knowns /\ fixed \in BOOLEAN
    /\ tick \in [step : {"idle", "send", "write", "told"}, msg : {"none", "alarm", "note", "swing", "clear"},
                 lvl : Levels, imm : States, then : States, back : BOOLEAN, quiet : BOOLEAN,
                 kn : Knowns, mine : BOOLEAN, fx : BOOLEAN]
    /\ chat \in Levels

Init ==
    /\ flaps \in Flaps /\ world = 0 /\ seen = TRUE
    /\ st = Clear /\ snooze = FALSE /\ mute = 0 /\ known = NoKnown /\ fixed = FALSE
    /\ tick = NoTick /\ chat = 0

-----------------------------------------------------------------------------
(* What a tick reads.                                                      *)

Older(a, cap) == IF a = No THEN No ELSE IF a < cap THEN a + 1 ELSE cap

\* A repeat is possible only within Again of the last all-clear: an older one is forgotten.
OlderWas(w) == IF w.ts = No \/ w.ts = Again THEN NoWas
               ELSE [w EXCEPT !.ts = @ + 1, !.first = Older(@, AgainMax + 1)]

\* The series of a metric that crosses its threshold ends after a window without a crossing.
SeriesOver(f) == f.on /\ ~snooze /\ f.last > FlapWindow
OlderFlap == [st.flap EXCEPT !.since = Older(@, FlapWindow + 1), !.last = Older(@, FlapWindow + 1)]
Flap0 == IF SeriesOver(OlderFlap) THEN [OlderFlap EXCEPT !.on = FALSE, !.n = 0, !.last = No]
         ELSE OlderFlap

\* flap_back: the all-clear of a series.
Back == SeriesOver(OlderFlap) /\ st.lvl = 0

\* The first silent descent keeps the level that was told.
Told0 == IF seen /\ 0 < world /\ world < st.lvl /\ st.told = 0 /\ st.hush = No THEN st.lvl ELSE st.told

\* alert_state at the start of the rules; a gap in the reports is not a quiet time.
s == [lvl |-> st.lvl, from |-> IF seen THEN world > 0 ELSE st.from, told |-> Told0,
      calm |-> IF seen THEN Older(st.calm, Settle) ELSE No, hush |-> Older(st.hush, Tell), was |-> OlderWas(st.was), flap |-> Flap0]

\* known.step.  A snoozed server is not looked at, but its time runs on.
KnownNow ==
    LET gone == Older(known.gone, Gone)
    IN  IF ~known.on THEN known
        ELSE IF snooze THEN [known EXCEPT !.gone = gone]
        ELSE IF ~seen THEN [known EXCEPT !.gone = No]
        ELSE IF world > 0 THEN [known EXCEPT !.gone = No, !.lvl = IF @ = 0 THEN world ELSE @]
        ELSE IF gone = Gone THEN NoKnown
        ELSE [known EXCEPT !.gone = Max(gone, 0)]

-----------------------------------------------------------------------------
(* The rules.  Each is tried only when those before it do not apply.       *)

\* _closed_tail
Closed(a) == [a EXCEPT !.lvl = 0, !.told = 0, !.calm = No, !.hush = No]

\* _was_after
WasAfter(a) == IF a.was.ts = No THEN [ts |-> 0, first |-> 0, lvl |-> Max(a.told, a.lvl)]
               ELSE [a.was EXCEPT !.ts = 0, !.lvl = Max(@, Max(a.told, a.lvl))]

\* _again_of
Repeats(a) == a.was.ts # No /\ a.was.first <= AgainMax /\ world <= a.was.lvl

Plan(msg, imm, then) ==
    /\ tick.step = "idle"
    /\ tick' = [step |-> "send", msg |-> msg, lvl |-> world, imm |-> imm, then |-> then, back |-> Back,
                quiet |-> snooze, kn |-> KnownNow, mine |-> TRUE, fx |-> fixed /\ seen]
    /\ UNCHANGED <<flaps, world, seen, st, people, chat>>
Silently(a) == Plan("none", a, a)

\* The server is silent, or its report is a replay: everything is frozen.
Frozen == ~seen /\ Silently(s)

\* Snooze or maintenance: down silently, an announced problem that is gone is told.
Quiet ==
    /\ seen /\ snooze
    /\ IF world >= s.lvl THEN Silently(s)
       ELSE IF world > 0 \/ s.flap.on THEN Silently([s EXCEPT !.lvl = world])
       ELSE Plan("clear", s, Closed(s))

Listening == seen /\ ~snooze
\* mutant: the muted problem that is gone stays hidden
Muted_Gone == mute > 0 /\ world <= mute

Muted == mute > 0 /\ world <= mute /\ (world > 0 \/ s.lvl = 0)

Hidden ==
    /\ Listening /\ Muted
    /\ Silently(IF world < s.lvl THEN [s EXCEPT !.lvl = world] ELSE s)

\* mutant: a known problem that got worse stays silent
Covered_Always == world > 0 /\ KnownNow.on

\* known.covers
Covered == world > 0 /\ KnownNow.on /\ world <= KnownNow.lvl

Known == Listening /\ ~Muted /\ Covered /\ Silently(s)

\* fixed.broken: the mark is dropped when the problem is seen.
FixNow == fixed /\ world = 0

\* mutant: the repeat that ends is told like any other problem
Told_Always(a) == TRUE

\* A repeat has not been told, and its end is not.
Told(a) == a.hush = No

\* Marked as fixed: closed at once, and a repeat is news.
Fixed ==
    /\ Listening /\ ~Muted /\ ~Covered /\ FixNow
    /\ LET end == [Closed(s) EXCEPT !.was = NoWas]
       IN  IF s.lvl > 0 /\ Told(s) THEN Plan("clear", s, end) ELSE Silently(end)

Ordinary == Listening /\ ~Muted /\ ~Covered /\ ~FixNow
Open == [s EXCEPT !.calm = No]

\* The problem is gone: the all-clear comes after Settle, and silently for a repeat.
Settling ==
    /\ Ordinary /\ world = 0 /\ s.lvl > 0
    /\ IF s.calm = No THEN Silently([s EXCEPT !.calm = 0])
       ELSE IF s.calm < Settle THEN Silently(s)
       ELSE LET end == [Closed(s) EXCEPT !.was = WasAfter(s)]
            IN  IF ~Told(s) THEN Silently(end)
                ELSE IF s.flap.on THEN Silently([s EXCEPT !.lvl = 0, !.told = 0])
                ELSE Plan("clear", s, end)

Calm == Ordinary /\ world = 0 /\ s.lvl = 0 /\ Silently(s)

\* The same problem soon after its all-clear: a continuation, without a message.
Repeat ==
    /\ Ordinary /\ world > 0 /\ s.lvl = 0 /\ Repeats(s)
    /\ Silently([Open EXCEPT !.lvl = world, !.hush = 0, !.told = s.was.lvl])

\* mutant: a repeat that lasts is never told
Prev_Hushed == s.lvl

\* A repeat that lasts is told as if it were new.
Prev == IF s.hush = Tell THEN 0 ELSE s.lvl

\* mutant: only the present level counts as told
ToldLevel_Present == Prev

ToldLevel == IF Prev > 0 THEN Max(Prev, s.told) ELSE 0
New == Ordinary /\ world > 0 /\ (s.lvl > 0 \/ ~Repeats(s))

Lower == New /\ world < Prev /\ Silently([Open EXCEPT !.lvl = world])
Same == New /\ world = Prev /\ Silently(Open)

\* Back to a level that was told while the problem was open: not news.
Reached ==
    /\ New /\ world > Prev /\ Prev > 0 /\ world <= ToldLevel
    /\ Silently([Open EXCEPT !.lvl = world, !.told = ToldLevel])

Escalates == New /\ world > Prev /\ (Prev = 0 \/ world > ToldLevel)

\* mutant: the count goes on while the series is silent
Crossed_Counts(f) ==
    IF f.since = No \/ f.since > FlapWindow THEN [f EXCEPT !.since = 0, !.n = 1, !.last = 0]
    ELSE [f EXCEPT !.n = @ + 1, !.last = 0]

\* _flap_metric: crossings are counted as they are seen, whether or not they get told.
Crossed(f) ==
    IF f.on THEN [f EXCEPT !.last = 0]
    ELSE IF f.since = No \/ f.since > FlapWindow THEN [f EXCEPT !.since = 0, !.n = 1, !.last = 0]
    ELSE [f EXCEPT !.n = @ + 1, !.last = 0]

Swings == flaps /\ Prev = 0

\* The message that the metric swings, and silence from then on: a level within the series has
\* no message of its own, but it is written only if the tick's messages were delivered.
Swinging ==
    /\ Escalates /\ Swings
    /\ LET f == Crossed(s.flap)
           a == [Open EXCEPT !.flap = [f EXCEPT !.on = TRUE]]
       IN  /\ f.on \/ f.n >= FlapLimit
           /\ IF f.on THEN Plan("swing", [Open EXCEPT !.flap = f], [Open EXCEPT !.flap = f, !.lvl = world])
              ELSE Plan("note", a, [a EXCEPT !.lvl = world])

\* mutant: the level is marked before it is told
Raised_Early(a) == Plan("alarm", [a EXCEPT !.lvl = world], [a EXCEPT !.lvl = world, !.hush = No])

Raised(a) == Plan("alarm", a, [a EXCEPT !.lvl = world, !.told = Max(ToldLevel, world), !.hush = No])

Alarm ==
    /\ Escalates
    /\ IF Swings THEN LET f == Crossed(s.flap)
                      IN  ~f.on /\ f.n < FlapLimit /\ Raised([Open EXCEPT !.flap = f])
       ELSE Raised(Open)

\* The end of a tick: fires are dispatched, then recoveries, ...
Dispatch(ok, okBack) ==
    /\ tick.step = "send"
    /\ tick' = [tick EXCEPT !.step = IF ok /\ tick.msg # "none" THEN "told" ELSE "write"]
    /\ chat' = IF (tick.back /\ okBack) \/ (tick.msg = "clear" /\ ok) THEN 0
               ELSE IF tick.msg \in {"alarm", "note"} /\ ok THEN Max(chat, tick.lvl) ELSE chat
    /\ UNCHANGED <<flaps, world, seen, st, people>>

\* ... and the rows are written; entries that somebody has changed meanwhile are left.
Write ==
    /\ tick.step \in {"told", "write"}
    /\ st' = IF tick.step = "told" THEN tick.then ELSE tick.imm
    /\ known' = IF tick.mine THEN tick.kn ELSE known
    /\ fixed' = IF tick.fx THEN FALSE ELSE fixed
    /\ tick' = NoTick
    /\ UNCHANGED <<flaps, world, seen, snooze, mute, chat>>

-----------------------------------------------------------------------------
(* People, and the world.                                                  *)

Do(op) == op \in IF flaps THEN FlapOps ELSE Ops

Snooze ==
    /\ Do("snooze") /\ snooze' = ~snooze
    /\ UNCHANGED <<flaps, world, seen, st, mute, known, fixed, tick, chat>>

Mute(l) ==
    /\ Do("mute") /\ l # mute /\ mute' = l
    /\ UNCHANGED <<flaps, world, seen, st, snooze, known, fixed, tick, chat>>

\* A mark is set, of a problem the last tick has seen, renewed or taken off.
MarkKnown(on) ==
    /\ Do("known") /\ IF on THEN st.from ELSE known.on
    /\ known' = [NoKnown EXCEPT !.on = on]
    /\ tick' = IF tick = NoTick THEN tick ELSE [tick EXCEPT !.mine = FALSE]
    /\ UNCHANGED <<flaps, world, seen, st, snooze, mute, fixed, chat>>

\* fixed.mark: refused while the problem is seen; there is nothing left to know of.
MarkFixed ==
    /\ Do("fixed") /\ world = 0
    /\ fixed' = TRUE /\ known' = NoKnown
    /\ tick' = IF tick = NoTick THEN tick
               ELSE [tick EXCEPT !.fx = FALSE, !.mine = IF known.on THEN FALSE ELSE @]
    /\ UNCHANGED <<flaps, world, seen, st, snooze, mute, chat>>

Change(l) ==
    /\ tick = NoTick /\ l # world /\ world' = l
    /\ UNCHANGED <<flaps, seen, st, people, tick, chat>>

Talk ==
    /\ tick = NoTick /\ seen' = ~seen
    /\ UNCHANGED <<flaps, world, st, people, tick, chat>>

-----------------------------------------------------------------------------
Evaluate == \/ Frozen \/ Quiet \/ Hidden \/ Known \/ Fixed \/ Settling \/ Calm \/ Repeat
            \/ Lower \/ Same \/ Reached \/ Swinging \/ Alarm

Next ==
    \/ Evaluate
    \/ \E ok, okBack \in BOOLEAN : Dispatch(ok, okBack)
    \/ Write \/ Snooze \/ MarkFixed \/ Talk
    \/ \E l \in Levels : Mute(l) \/ Change(l)
    \/ \E on \in BOOLEAN : MarkKnown(on)

Spec == Init /\ [][Next]_vars

\* collector_loop goes on; a channel that is tried again and again works some day.
FairSpec == Spec /\ WF_vars(Evaluate) /\ WF_vars(Write) /\ WF_vars(\E ok, okBack \in BOOLEAN : Dispatch(ok, okBack))
                 /\ SF_vars(Dispatch(TRUE, TRUE) /\ tick.msg # "none")
-----------------------------------------------------------------------------
(* Transitions are written "after the delivery is confirmed": a level that   *)
(* the panel takes as told has been told.                                   *)
ToldIsHeard ==
    ~flaps /\ tick.step # "told" /\ st.lvl > 0 /\ st.hush = No => chat >= st.lvl

(* "While a problem is open, the return to a level that was told is not      *)
(* news": an alarm always tells of more than what people have heard since    *)
(* the last all-clear.                                                       *)
Delivered(msg) == ~flaps /\ tick.msg = msg /\ tick.step = "send" /\ tick'.step = "told"
AlarmIsNews == [][Delivered("alarm") => tick.lvl > chat]_vars

(* "The all-clear of such a wave is silent": an all-clear answers an alarm.  *)
(* It does not hold of a snoozed server (README, section 7).                 *)
ClearAnswersAlarm == [][Delivered("clear") => chat > 0]_vars

(* The same of a server that is not snoozed.                                 *)
AwakeClearAnswersAlarm == [][Delivered("clear") /\ ~tick.quiet => chat > 0]_vars

(* A problem that stays, and that nobody has hidden or known to be as bad,    *)
(* is told at its level.                                                     *)
StandingIsTold ==
    \A l \in 1..MaxLevel :
        <>[](/\ world = l /\ seen /\ ~snooze /\ mute = 0 /\ ~flaps
             /\ known.on => known.lvl \in 1..(l - 1)) => <>[](chat >= l)

(* _AGAIN_MAX: a problem that keeps coming back is not silent for ever.  It   *)
(* does not hold: an all-clear begins the chain anew (README, section 7).     *)
RepeatsAreTold == []<>(st.hush = 0) => []<>(tick.msg = "alarm")

(* A problem that is gone for good ends with an all-clear, whatever was       *)
(* snoozed, muted or marked in between.                                      *)
GoneIsTold == <>[](world = 0 /\ seen /\ ~flaps) => <>[](chat = 0)

(* "Other transitions - after the delivery is confirmed", for a metric that   *)
(* swings: while it is over its threshold people have heard of it.  It does   *)
(* not hold: the count is kept before the delivery (README, section 7).       *)
SwingIsHeard == tick.step = "idle" /\ st.lvl > 0 /\ st.hush = No => chat > 0
=============================================================================
