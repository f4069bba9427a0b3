------------------------- MODULE ServerAlertsProofs -------------------------
(***************************************************************************)
(* Theorems about ServerAlerts, for any number of levels, any delays and    *)
(* whatever people do.                                                     *)
(*                                                                         *)
(* HeardInv is the inductive strengthening of what is proved: what people   *)
(* have heard since the last all-clear is at any moment exactly what        *)
(* alert_state takes as told, and a tick under way will keep it so whether  *)
(* or not its message is delivered.                                        *)
(***************************************************************************)
EXTENDS ServerAlerts, TLAPS

\* What alert_state takes as told: nothing when no problem is open or its repeat is
\* silent, and else the highest level of the problem.
Word(a) == IF a.lvl > 0 /\ a.hush = No THEN Max(a.lvl, a.told) ELSE 0

\* No level is open that is above those told.
Covers(a) == a.lvl > 0 /\ a.hush = No => a.told = 0 \/ a.told >= a.lvl

\* What the rules of a tick hand over to the delivery.
Sound(msg, lvl, a, b, back, quiet) ==
    /\ ~a.flap.on /\ ~b.flap.on /\ ~back /\ msg \notin {"note", "swing"}
    /\ Covers(a) /\ Covers(b) /\ chat = Word(a)
    /\ msg = "alarm" => lvl > chat /\ Word(b) = lvl
    /\ msg = "clear" => b.lvl = 0 /\ (~quiet => chat > 0)

HeardInv ==
    ~flaps =>
        /\ ~st.flap.on /\ Covers(st)
        /\ tick.step # "told" => chat = Word(st)
        /\ tick.step = "send" => Sound(tick.msg, tick.lvl, tick.imm, tick.then, tick.back, tick.quiet)
        /\ tick.step = "write" => ~tick.imm.flap.on /\ Covers(tick.imm) /\ chat = Word(tick.imm)
        /\ tick.step = "told" => ~tick.then.flap.on /\ Covers(tick.then) /\ chat = Word(tick.then)

\* A count that reaches the limit begins a series.
Counted(a) == a.flap.on \/ a.flap.n < FlapLimit
Stored(a) == a \in States /\ Counted(a)
TypeInv == TypeOK /\ Counted(st) /\ Counted(tick.imm) /\ Counted(tick.then)

\* What the rules may hand over.
Planned(msg, a, b) ==
    /\ msg \in {"none", "alarm", "note", "swing", "clear"}
    /\ Stored(a) /\ Stored(b)
    /\ ~flaps => Sound(msg, world, a, b, Back, snooze)

USE AlertConstants DEF vars, people, No

-----------------------------------------------------------------------------
(* What a tick reads.                                                      *)

LEMMA OlderType ==
    ASSUME NEW cap \in Nat, NEW a \in Age(cap)
    PROVE  Older(a, cap) \in Age(cap)
BY DEF Older, Age

\* The parts of alert_state.
Wases == [ts : Age(Again), first : Age(AgainMax + 1), lvl : Levels]
Series == [on : BOOLEAN, n : 0..FlapLimit, since : Age(FlapWindow + 1), last : Age(FlapWindow + 1)]

LEMMA WasType == ASSUME NEW w \in Wases PROVE OlderWas(w) \in Wases
<1>1. NoWas \in Wases
  BY DEF NoWas, Wases, Age, Levels
<1>2. Older(w.first, AgainMax + 1) \in Age(AgainMax + 1)
  BY OlderType DEF Wases
<1>3. ASSUME w.ts # No, w.ts # Again PROVE w.ts + 1 \in Age(Again)
  BY <1>3 DEF Wases, Age
<1>4. ASSUME w.ts # No, w.ts # Again
      PROVE  [w EXCEPT !.ts = @ + 1, !.first = Older(@, AgainMax + 1)] \in Wases
  BY <1>2, <1>3, <1>4 DEF Wases
<1> QED BY <1>1, <1>4 DEF OlderWas

LEMMA FlapType ==
    ASSUME TypeInv
    PROVE  /\ Flap0 \in Series
           /\ Flap0.on \/ Flap0.n < FlapLimit
           /\ ~st.flap.on => ~Flap0.on /\ ~Back
<1>1. st.flap \in Series /\ (st.flap.on \/ st.flap.n < FlapLimit)
  BY DEF TypeInv, TypeOK, States, Series, Counted
<1>2. Older(st.flap.since, FlapWindow + 1) \in Age(FlapWindow + 1) /\ Older(st.flap.last, FlapWindow + 1) \in Age(FlapWindow + 1)
  BY <1>1, OlderType DEF Series
<1>3. OlderFlap \in Series /\ OlderFlap.on = st.flap.on /\ OlderFlap.n = st.flap.n
  BY <1>1, <1>2 DEF OlderFlap, Series
<1>4. [OlderFlap EXCEPT !.on = FALSE, !.n = 0, !.last = No] \in Series
  <2>1. No \in Age(FlapWindow + 1) /\ 0 \in 0..FlapLimit
    BY DEF Age
  <2> QED BY <1>3, <2>1 DEF Series
<1>5. Flap0 \in Series
  BY <1>3, <1>4 DEF Flap0
<1>6. Flap0.on \/ Flap0.n < FlapLimit
  BY <1>1, <1>3 DEF Flap0, Series
<1> QED BY <1>1, <1>3, <1>5, <1>6 DEF Flap0, SeriesOver, Back, Series

LEMMA ReadType ==
    ASSUME TypeInv
    PROVE  Stored(s) /\ KnownNow \in Knowns
<1>1. st \in States /\ world \in Levels /\ seen \in BOOLEAN
  BY DEF TypeInv, TypeOK
<1>2. /\ Told0 \in Levels
      /\ Older(st.calm, Settle) \in Age(Settle)
      /\ Older(st.hush, Tell) \in Age(Tell)
      /\ OlderWas(st.was) \in Wases
  BY <1>1, OlderType, WasType DEF States, Told0, Wases
<1>3. s \in States
  <2>1. st.lvl \in Levels /\ st.from \in BOOLEAN
    BY <1>1 DEF States
  <2>3. (world > 0) \in BOOLEAN
    OBVIOUS
  <2>4. (IF seen THEN world > 0 ELSE st.from) \in BOOLEAN
    BY <2>1, <2>3, Zenon
  <2>2. (IF seen THEN Older(st.calm, Settle) ELSE No) \in Age(Settle)
    BY <1>1, <1>2 DEF Age
  <2> QED BY <1>2, <2>1, <2>2, <2>4, FlapType DEF s, States, Wases, Series
<1>4. KnownNow \in Knowns
  <2>1. known \in Knowns /\ known.gone \in Age(Gone) /\ NoKnown \in Knowns
    BY DEF TypeInv, TypeOK, Knowns, NoKnown, Age, Levels
  <2> DEFINE gone == Older(known.gone, Gone)
  <2>2. No \in Age(Gone) /\ gone \in Age(Gone) /\ Max(gone, 0) \in Age(Gone)
    BY <2>1 DEF Age, Older, Max
  <2>3. /\ [known EXCEPT !.gone = No] \in Knowns
        /\ [known EXCEPT !.gone = No, !.lvl = IF @ = 0 THEN world ELSE @] \in Knowns
        /\ [known EXCEPT !.gone = gone] \in Knowns /\ [known EXCEPT !.gone = Max(gone, 0)] \in Knowns
    <3> HIDE DEF gone
    <3> QED BY <1>1, <2>1, <2>2 DEF Knowns
  <2> QED BY <2>1, <2>3 DEF KnownNow
<1> QED BY <1>3, <1>4, FlapType DEF Stored, Counted, s

\* On a kind that does not swing the reading of a tick takes as told what st does.
LEMMA ReadSound ==
    ASSUME TypeInv, HeardInv, tick.step = "idle", ~flaps
    PROVE  /\ ~s.flap.on /\ ~Back /\ Covers(s) /\ chat = Word(s)
           /\ seen /\ 0 < world /\ world < s.lvl /\ s.hush = No => s.told >= s.lvl
<1>1. /\ ~st.flap.on /\ Covers(st) /\ chat = Word(st)
      /\ st.lvl \in Nat /\ st.told \in Nat /\ world \in Nat /\ st.hush \in Age(Tell)
  BY DEF HeardInv, TypeInv, TypeOK, States, Levels
<1>2. s.hush = No <=> st.hush = No
  BY <1>1 DEF s, Older, Age
<1>3. s.lvl = st.lvl /\ s.told = Told0 /\ s.flap = Flap0
  BY DEF s
<1> QED BY <1>1, <1>2, <1>3, FlapType DEF Covers, Word, Max, Told0

-----------------------------------------------------------------------------
(* What the rules hand over.                                               *)

\* The fields of a state.
LEMMA Fields ==
    ASSUME NEW a \in States
    PROVE  /\ a.lvl \in Levels /\ a.from \in BOOLEAN /\ a.told \in Levels /\ a.calm \in Age(Settle)
           /\ a.hush \in Age(Tell) /\ a.was \in Wases /\ a.flap \in Series
           /\ a = [lvl |-> a.lvl, from |-> a.from, told |-> a.told, calm |-> a.calm,
                   hush |-> a.hush, was |-> a.was, flap |-> a.flap]
BY DEF States, Wases, Series

LEMMA Ranges == 0 \in Levels /\ No \in Age(Settle) /\ 0 \in Age(Settle) /\ No \in Age(Tell) /\ 0 \in Age(Tell)
BY DEF Levels, Age

LEMMA MaxLevels == ASSUME NEW a \in Levels, NEW b \in Levels PROVE Max(a, b) \in Levels
BY DEF Max, Levels

LEMMA WasAfterType == ASSUME NEW a \in States PROVE WasAfter(a) \in Wases
<1>1. /\ a.was \in Wases /\ a.lvl \in Levels /\ a.told \in Levels /\ a.was.lvl \in Levels
  BY Fields DEF Wases
<1>2. 0 \in Age(Again) /\ 0 \in Age(AgainMax + 1)
  BY DEF Age
<1>3. Max(a.told, a.lvl) \in Levels /\ Max(a.was.lvl, Max(a.told, a.lvl)) \in Levels
  BY <1>1, MaxLevels
<1> QED BY <1>1, <1>2, <1>3 DEF WasAfter, Wases

LEMMA NoWasType == NoWas \in Wases
BY DEF NoWas, Wases, Age, Levels

Handed == \E msg, a, b : Plan(msg, a, b) /\ Planned(msg, a, b)

\* A rule that says nothing and takes as told what was told.
LEMMA SilentRule ==
    ASSUME TypeInv, HeardInv, NEW a, Silently(a), Stored(a),
           ~flaps => ~a.flap.on /\ Covers(a) /\ Word(a) = Word(s)
    PROVE  Handed
<1>1. tick.step = "idle" /\ Plan("none", a, a)
  BY DEF Silently, Plan
<1>2. Planned("none", a, a)
  BY <1>1, ReadSound DEF Planned, Sound
<1> QED BY <1>1, <1>2 DEF Handed

\* A rule that gives the all-clear.
LEMMA ClearRule ==
    ASSUME TypeInv, HeardInv, NEW b, Plan("clear", s, b), Stored(b), b.lvl = 0, b.flap = s.flap,
           ~flaps => snooze \/ chat > 0
    PROVE  Handed
<1>1. tick.step = "idle"
  BY DEF Plan
<1>2. Planned("clear", s, b)
  BY <1>1, ReadType, ReadSound DEF Planned, Sound, Covers
<1> QED BY <1>2 DEF Handed

\* Changes that the rules make.
LEMMA ChangedType ==
    ASSUME NEW a, Stored(a), NEW l \in Levels
    PROVE  /\ Stored([a EXCEPT !.lvl = l])
           /\ Stored(Closed(a)) /\ Stored([Closed(a) EXCEPT !.was = NoWas])
           /\ Stored([Closed(a) EXCEPT !.was = WasAfter(a)])
           /\ Stored([a EXCEPT !.calm = No]) /\ Stored([a EXCEPT !.calm = 0])
           /\ Stored([a EXCEPT !.lvl = 0, !.told = 0])
<1>1. Stored([a EXCEPT !.lvl = l])
  BY DEF Stored, States, Counted
<1>2. Stored(Closed(a))
  BY Ranges DEF Stored, States, Counted, Closed
<1>3. Stored([Closed(a) EXCEPT !.was = NoWas])
  BY <1>2, NoWasType DEF Stored, States, Counted, Wases
<1>4. Stored([Closed(a) EXCEPT !.was = WasAfter(a)])
  BY <1>2, WasAfterType DEF Stored, States, Counted, Wases
<1>5. Stored([a EXCEPT !.calm = No]) /\ Stored([a EXCEPT !.calm = 0])
  BY Ranges DEF Stored, States, Counted
<1>6. Stored([a EXCEPT !.lvl = 0, !.told = 0])
  BY Ranges DEF Stored, States, Counted
<1> QED BY <1>1, <1>2, <1>3, <1>4, <1>5, <1>6

LEMMA ChangedFields ==
    ASSUME NEW a \in States, NEW l
    PROVE  /\ LET b == [a EXCEPT !.lvl = l]
              IN  b.lvl = l /\ b.told = a.told /\ b.hush = a.hush /\ b.flap = a.flap
           /\ Closed(a).lvl = 0 /\ Closed(a).flap = a.flap
           /\ LET b == [Closed(a) EXCEPT !.was = l] IN b.lvl = 0 /\ b.flap = a.flap
           /\ LET b == [a EXCEPT !.calm = l]
              IN  b.lvl = a.lvl /\ b.told = a.told /\ b.hush = a.hush /\ b.flap = a.flap
           /\ LET b == [a EXCEPT !.lvl = 0, !.told = 0] IN b.lvl = 0 /\ b.flap = a.flap
BY DEF States, Closed

LEMMA OpenFacts ==
    ASSUME TypeInv
    PROVE  /\ Stored(Open) /\ Open.lvl = s.lvl /\ Open.told = s.told
           /\ Open.hush = s.hush /\ Open.flap = s.flap /\ Open.was = s.was
<1>1. Stored(s)
  BY ReadType
<1>2. Stored(Open)
  BY <1>1, ChangedType, Ranges DEF Open
<1> QED BY <1>1, <1>2 DEF Open, Stored, States

LEMMA Levelled ==
    ASSUME TypeInv
    PROVE  /\ s \in States /\ s.lvl \in Nat /\ s.told \in Nat /\ s.hush \in Age(Tell) /\ world \in Nat
           /\ world \in Levels /\ s.lvl \in Levels /\ s.told \in Levels
BY ReadType, Fields DEF Stored, TypeInv, TypeOK, Levels

\* A lower level of an open problem is not news.
LEMMA LowerRule ==
    ASSUME TypeInv, HeardInv, tick.step = "idle", NEW a \in {s, Open}, seen, 0 < world, world < s.lvl,
           Silently([a EXCEPT !.lvl = world])
    PROVE  Handed
<1> DEFINE b == [a EXCEPT !.lvl = world]
<1>1. Stored(a) /\ a.lvl = s.lvl /\ a.told = s.told /\ a.hush = s.hush /\ a.flap = s.flap
  BY OpenFacts, ReadType
<1>2. Stored(b) /\ b.lvl = world /\ b.told = s.told /\ b.hush = s.hush /\ b.flap = s.flap
  <2>1. a \in States /\ world \in Levels
    BY <1>1, Levelled DEF Stored
  <2>2. Stored(b)
    BY <1>1, <2>1, ChangedType
  <2>3. b.lvl = world /\ b.told = a.told /\ b.hush = a.hush /\ b.flap = a.flap
    BY <2>1, ChangedFields
  <2> QED BY <1>1, <2>2, <2>3
<1>3. ~flaps => ~b.flap.on /\ Covers(b) /\ Word(b) = Word(s)
  BY <1>2, ReadSound, Levelled DEF Covers, Word, Max
<1> QED BY <1>2, <1>3, SilentRule

LEMMA FrozenRule == ASSUME TypeInv, HeardInv, Frozen PROVE Handed
BY ReadType, ReadSound, SilentRule DEF Frozen, Silently, Plan

LEMMA QuietRule == ASSUME TypeInv, HeardInv, Quiet PROVE Handed
<1>0. tick.step = "idle" /\ seen /\ snooze
  BY DEF Quiet, Silently, Plan
<1>1. CASE world >= s.lvl
  BY <1>0, <1>1, ReadType, ReadSound, SilentRule DEF Quiet
<1>2. CASE ~(world >= s.lvl) /\ world > 0
  BY <1>0, <1>2, LowerRule, Levelled DEF Quiet
<1>3. CASE ~(world >= s.lvl) /\ ~(world > 0) /\ s.flap.on
  <2>1. Silently([s EXCEPT !.lvl = world])
    BY <1>3 DEF Quiet
  <2>2. flaps
    BY <1>0, <1>3, ReadSound DEF TypeInv, TypeOK
  <2>3. Stored([s EXCEPT !.lvl = world])
    BY ReadType, Levelled, ChangedType
  <2> QED BY <2>1, <2>2, <2>3, SilentRule
<1>4. CASE ~(world >= s.lvl) /\ ~(world > 0) /\ ~s.flap.on
  <2>1. Plan("clear", s, Closed(s))
    BY <1>4 DEF Quiet
  <2>2. Stored(Closed(s)) /\ Closed(s).lvl = 0 /\ Closed(s).flap = s.flap
    BY ReadType, Levelled, ChangedType, ChangedFields
  <2> QED BY <1>0, <2>1, <2>2, ClearRule
<1> QED BY <1>1, <1>2, <1>3, <1>4

LEMMA HiddenRule == ASSUME TypeInv, HeardInv, Hidden PROVE Handed
<1>0. tick.step = "idle" /\ seen /\ Muted
  BY DEF Hidden, Silently, Plan, Listening
<1>1. CASE world < s.lvl
  <2>1. world > 0
    BY <1>0, <1>1, Levelled DEF Muted
  <2> QED BY <1>0, <1>1, <2>1, LowerRule DEF Hidden
<1>2. CASE ~(world < s.lvl)
  BY <1>0, <1>2, ReadType, ReadSound, SilentRule DEF Hidden
<1> QED BY <1>1, <1>2

LEMMA KnownRule == ASSUME TypeInv, HeardInv, Known PROVE Handed
BY ReadType, ReadSound, SilentRule DEF Known, Silently, Plan

LEMMA FixedRule == ASSUME TypeInv, HeardInv, Fixed PROVE Handed
<1> DEFINE end == [Closed(s) EXCEPT !.was = NoWas]
<1>0. tick.step = "idle"
  BY DEF Fixed, Silently, Plan
<1>1. Stored(end) /\ end.lvl = 0 /\ end.flap = s.flap
  BY ReadType, Levelled, ChangedType, ChangedFields
<1>2. CASE s.lvl > 0 /\ Told(s)
  <2>1. Plan("clear", s, end)
    BY <1>2 DEF Fixed
  <2>2. ~flaps => chat > 0
    BY <1>0, <1>2, ReadSound, Levelled DEF Told, Word, Max
  <2> QED BY <1>1, <2>1, <2>2, ClearRule
<1>3. CASE ~(s.lvl > 0 /\ Told(s))
  <2>1. Silently(end)
    BY <1>3 DEF Fixed
  <2>2. ~flaps => ~end.flap.on /\ Covers(end) /\ Word(end) = Word(s)
    BY <1>0, <1>1, <1>3, ReadSound DEF Told, Word, Covers
  <2> QED BY <1>1, <2>1, <2>2, SilentRule
<1> QED BY <1>2, <1>3

LEMMA SettlingRule == ASSUME TypeInv, HeardInv, Settling PROVE Handed
<1> DEFINE end == [Closed(s) EXCEPT !.was = WasAfter(s)]
<1>0. tick.step = "idle" /\ s.lvl > 0 /\ world = 0
  BY DEF Settling, Silently, Plan
<1>1. Stored(end) /\ end.lvl = 0 /\ end.flap = s.flap
  BY ReadType, Levelled, ChangedType, ChangedFields
<1>2. CASE s.calm = No
  <2>1. Stored([s EXCEPT !.calm = 0])
    BY ReadType, Ranges, ChangedType
  <2>2. /\ [s EXCEPT !.calm = 0].lvl = s.lvl /\ [s EXCEPT !.calm = 0].told = s.told
        /\ [s EXCEPT !.calm = 0].hush = s.hush /\ [s EXCEPT !.calm = 0].flap = s.flap
    BY Levelled, ChangedFields
  <2>3. Silently([s EXCEPT !.calm = 0])
    BY <1>2 DEF Settling
  <2>4. ~flaps => /\ ~[s EXCEPT !.calm = 0].flap.on /\ Covers([s EXCEPT !.calm = 0])
                  /\ Word([s EXCEPT !.calm = 0]) = Word(s)
    BY <1>0, <2>2, ReadSound DEF Covers, Word
  <2> QED BY <2>1, <2>3, <2>4, SilentRule
<1>3. CASE s.calm # No /\ s.calm < Settle
  BY <1>0, <1>3, ReadType, ReadSound, SilentRule DEF Settling
<1>4. CASE s.calm # No /\ ~(s.calm < Settle) /\ ~Told(s)
  <2>1. Silently(end)
    BY <1>4 DEF Settling
  <2>2. ~flaps => ~end.flap.on /\ Covers(end) /\ Word(end) = Word(s)
    BY <1>0, <1>1, <1>4, ReadSound DEF Told, Word, Covers
  <2> QED BY <1>1, <2>1, <2>2, SilentRule
<1>5. CASE s.calm # No /\ ~(s.calm < Settle) /\ Told(s) /\ s.flap.on
  <2>1. Silently([s EXCEPT !.lvl = 0, !.told = 0])
    BY <1>5 DEF Settling
  <2>2. flaps
    BY <1>0, <1>5, ReadSound DEF TypeInv, TypeOK
  <2>3. Stored([s EXCEPT !.lvl = 0, !.told = 0])
    BY ReadType, Levelled, ChangedType
  <2> QED BY <2>1, <2>2, <2>3, SilentRule
<1>6. CASE s.calm # No /\ ~(s.calm < Settle) /\ Told(s) /\ ~s.flap.on
  <2>1. Plan("clear", s, end)
    BY <1>6 DEF Settling
  <2>2. ~flaps => chat > 0
    BY <1>0, <1>6, ReadSound, Levelled DEF Told, Word, Max
  <2> QED BY <1>1, <2>1, <2>2, ClearRule
<1> QED BY <1>2, <1>3, <1>4, <1>5, <1>6

LEMMA CalmRule == ASSUME TypeInv, HeardInv, Calm PROVE Handed
BY ReadType, ReadSound, SilentRule DEF Calm, Silently, Plan

LEMMA RepeatRule == ASSUME TypeInv, HeardInv, Repeat PROVE Handed
<1> DEFINE a == [Open EXCEPT !.lvl = world, !.hush = 0, !.told = s.was.lvl]
<1>0. tick.step = "idle" /\ s.lvl = 0 /\ Silently(a)
  BY DEF Repeat, Silently, Plan
<1>1. s.was.lvl \in Levels
  BY Levelled, Fields DEF Wases
<1>2. Stored(a) /\ a.hush = 0 /\ a.flap = s.flap
  BY <1>1, OpenFacts, Levelled, Ranges DEF Stored, States, Counted
<1>3. ~flaps => ~a.flap.on /\ Covers(a) /\ Word(a) = Word(s)
  BY <1>0, <1>2, ReadSound DEF Covers, Word
<1> QED BY <1>0, <1>2, <1>3, SilentRule

\* The levels that news are measured by.
LEMMA NewsFacts ==
    ASSUME TypeInv
    PROVE  /\ Prev \in Nat /\ ToldLevel \in Levels
           /\ Prev > 0 => Prev = s.lvl /\ ToldLevel = Max(s.lvl, s.told)
           /\ Prev = 0 => ToldLevel = 0
           /\ Prev = 0 /\ s.lvl > 0 => s.hush # No
<1>1. Prev = 0 \/ Prev = s.lvl
  BY DEF Prev
<1>2. Prev \in Nat /\ Prev \in Levels
  BY <1>1, Levelled, Ranges
<1>3. ToldLevel \in Levels
  BY <1>2, Levelled, MaxLevels, Ranges DEF ToldLevel
<1> QED BY <1>1, <1>2, <1>3, Levelled DEF Prev, ToldLevel

LEMMA LowerNewRule == ASSUME TypeInv, HeardInv, Lower PROVE Handed
<1>1. tick.step = "idle" /\ seen /\ 0 < world /\ Silently([Open EXCEPT !.lvl = world])
  BY DEF Lower, New, Ordinary, Listening, Silently, Plan
<1>2. world < s.lvl
  BY NewsFacts, Levelled DEF Lower
<1> QED BY <1>1, <1>2, LowerRule

LEMMA SameRule == ASSUME TypeInv, HeardInv, Same PROVE Handed
<1>1. tick.step = "idle" /\ Silently(Open)
  BY DEF Same, Silently, Plan
<1>2. ~flaps => ~Open.flap.on /\ Covers(Open) /\ Word(Open) = Word(s)
  BY <1>1, OpenFacts, ReadSound DEF Covers, Word
<1> QED BY <1>1, <1>2, OpenFacts, SilentRule

LEMMA ReachedRule == ASSUME TypeInv, HeardInv, Reached PROVE Handed
<1> DEFINE a == [Open EXCEPT !.lvl = world, !.told = ToldLevel]
<1>1. /\ tick.step = "idle" /\ Silently(a) /\ world > Prev /\ Prev > 0 /\ world <= ToldLevel
  BY DEF Reached, Silently, Plan
<1>2. Stored(a) /\ a.lvl = world /\ a.told = ToldLevel /\ a.hush = s.hush /\ a.flap = s.flap
  BY OpenFacts, NewsFacts, Levelled DEF Stored, States, Counted
<1>3. ToldLevel = Max(s.lvl, s.told) /\ s.lvl > 0
  BY <1>1, NewsFacts
<1>4. ToldLevel \in Nat /\ world > 0
  BY <1>1, NewsFacts, Levelled DEF Levels
<1> HIDE DEF a
<1>5. Covers(a)
  BY <1>1, <1>2, <1>4 DEF Covers
<1>6. Word(a) = Word(s)
  BY <1>1, <1>2, <1>3, <1>4, Levelled DEF Word, Max
<1> QED BY <1>1, <1>2, <1>5, <1>6, ReadSound, SilentRule

LEMMA CrossedType ==
    ASSUME TypeInv
    PROVE  /\ Crossed(s.flap).on => Crossed(s.flap) \in Series
           /\ ~Crossed(s.flap).on => /\ Crossed(s.flap).n \in 1..FlapLimit
                                     /\ Crossed(s.flap) \in Series
<1>1. /\ s.flap \in Series /\ (s.flap.on \/ s.flap.n < FlapLimit) /\ 0 \in Age(FlapWindow + 1)
      /\ 1 \in 1..FlapLimit /\ 1 \in 0..FlapLimit
  BY ReadType, Fields DEF Stored, Counted, Age
<1>2. [s.flap EXCEPT !.last = 0] \in Series /\ [s.flap EXCEPT !.last = 0].on = s.flap.on
  BY <1>1 DEF Series
<1>3. /\ [s.flap EXCEPT !.since = 0, !.n = 1, !.last = 0] \in Series
      /\ [s.flap EXCEPT !.since = 0, !.n = 1, !.last = 0].n = 1
  BY <1>1 DEF Series
<1>4. ASSUME ~s.flap.on
      PROVE  /\ [s.flap EXCEPT !.n = @ + 1, !.last = 0] \in Series
             /\ [s.flap EXCEPT !.n = @ + 1, !.last = 0].n \in 1..FlapLimit
  <2>1. s.flap.n + 1 \in 0..FlapLimit /\ s.flap.n + 1 \in 1..FlapLimit
    BY <1>1, <1>4 DEF Series
  <2> QED BY <1>1, <2>1 DEF Series
<1> QED BY <1>1, <1>2, <1>3, <1>4 DEF Crossed

LEMMA SwingingRule == ASSUME TypeInv, HeardInv, Swinging PROVE Handed
<1> DEFINE f == Crossed(s.flap)
           a == [Open EXCEPT !.flap = [f EXCEPT !.on = TRUE]]
<1>0. flaps /\ (f.on \/ f.n >= FlapLimit)
  BY DEF Swinging, Swings
<1>1. f \in Series
  BY CrossedType
<1>2. [f EXCEPT !.on = TRUE] \in Series /\ [f EXCEPT !.on = TRUE].on
  BY <1>1 DEF Series
<1>3. Stored(a)
  BY <1>2, OpenFacts DEF Stored, States, Counted, Series
<1>4. Stored([a EXCEPT !.lvl = world])
  BY <1>3, Levelled, ChangedType
<1>5. CASE f.on
  <2>1. Plan("swing", [Open EXCEPT !.flap = f], [Open EXCEPT !.flap = f, !.lvl = world])
    BY <1>5 DEF Swinging
  <2>2. Stored([Open EXCEPT !.flap = f]) /\ Stored([Open EXCEPT !.flap = f, !.lvl = world])
    BY <1>1, <1>5, OpenFacts, Levelled DEF Stored, States, Counted, Series
  <2>3. Planned("swing", [Open EXCEPT !.flap = f], [Open EXCEPT !.flap = f, !.lvl = world])
    BY <1>0, <2>2 DEF Planned
  <2> QED BY <2>1, <2>3 DEF Handed
<1>6. CASE ~f.on
  <2>1. Plan("note", a, [a EXCEPT !.lvl = world])
    BY <1>6 DEF Swinging
  <2>2. Planned("note", a, [a EXCEPT !.lvl = world])
    BY <1>0, <1>3, <1>4 DEF Planned
  <2> QED BY <2>1, <2>2 DEF Handed
<1> QED BY <1>5, <1>6

LEMMA RaisedType ==
    ASSUME TypeInv, NEW a, Stored(a)
    PROVE  LET b == [a EXCEPT !.lvl = world, !.told = Max(ToldLevel, world), !.hush = No]
           IN  /\ Stored(b) /\ b.lvl = world /\ b.told = Max(ToldLevel, world) /\ b.hush = No
               /\ b.flap = a.flap
<1>1. Max(ToldLevel, world) \in Levels
  BY NewsFacts, Levelled, MaxLevels
<1> QED BY <1>1, Levelled, Ranges DEF Stored, States, Counted

LEMMA AlarmRule == ASSUME TypeInv, HeardInv, Alarm PROVE Handed
<1> DEFINE f == Crossed(s.flap)
           Up(a) == [a EXCEPT !.lvl = world, !.told = Max(ToldLevel, world), !.hush = No]
<1>1. CASE flaps /\ Prev = 0
  <2> DEFINE a == [Open EXCEPT !.flap = f]
  <2>1. ~f.on /\ f.n < FlapLimit /\ Plan("alarm", a, Up(a))
    BY <1>1 DEF Alarm, Swings, Raised
  <2>2. Stored(a)
    BY <2>1, CrossedType, OpenFacts DEF Stored, States, Counted, Series
  <2>3. Stored(Up(a))
    BY <2>2, RaisedType
  <2>4. Planned("alarm", a, Up(a))
    BY <1>1, <2>2, <2>3 DEF Planned
  <2> QED BY <2>1, <2>4 DEF Handed
<1>2. CASE ~(flaps /\ Prev = 0)
  <2>1. Plan("alarm", Open, Up(Open)) /\ tick.step = "idle"
    BY <1>2 DEF Alarm, Swings, Raised, Plan
  <2>2. /\ Stored(Open) /\ Stored(Up(Open)) /\ Up(Open).lvl = world /\ Up(Open).hush = No
        /\ Up(Open).told = Max(ToldLevel, world) /\ Up(Open).flap = s.flap
    BY OpenFacts, RaisedType
  <2>3. world > Prev /\ (Prev = 0 \/ world > ToldLevel) /\ ToldLevel \in Nat /\ world \in Nat
    BY NewsFacts, Levelled DEF Alarm, Escalates, Levels
  <2>4. Max(ToldLevel, world) = world /\ world > 0
    BY <2>3, NewsFacts DEF Max
  <2>5. Word(Up(Open)) = world /\ Covers(Up(Open))
    BY <2>2, <2>3, <2>4 DEF Word, Covers, Max
  <2>6. Word(s) < world
    BY <2>3, NewsFacts, Levelled DEF Word, Max
  <2>7. Word(Open) = Word(s) /\ (Covers(s) => Covers(Open)) /\ Open.flap = s.flap
    BY OpenFacts DEF Word, Covers
  <2>8. ~flaps => Sound("alarm", world, Open, Up(Open), Back, snooze)
    BY <2>1, <2>2, <2>3, <2>5, <2>6, <2>7, ReadSound DEF Sound
  <2>9. Planned("alarm", Open, Up(Open))
    BY <2>2, <2>8 DEF Planned
  <2> QED BY <2>1, <2>9 DEF Handed
<1> QED BY <1>1, <1>2

LEMMA EveryRule == ASSUME TypeInv, HeardInv, Evaluate PROVE Handed
BY FrozenRule, QuietRule, HiddenRule, KnownRule, FixedRule, SettlingRule, CalmRule, RepeatRule,
   LowerNewRule, SameRule, ReachedRule, SwingingRule, AlarmRule DEF Evaluate

-----------------------------------------------------------------------------
(* The steps.                                                              *)

Ticks == [step : {"idle", "send", "write", "told"}, msg : {"none", "alarm", "note", "swing", "clear"},
          lvl : Levels, imm : States, then : States, back : BOOLEAN, quiet : BOOLEAN,
          kn : Knowns, mine : BOOLEAN, fx : BOOLEAN]

LEMMA TypeParts ==
    TypeInv <=> /\ flaps \in Flaps /\ world \in Levels /\ seen \in BOOLEAN
                /\ Stored(st) /\ snooze \in BOOLEAN /\ mute \in Levels /\ known \in Knowns /\ fixed \in BOOLEAN
                /\ tick \in Ticks /\ Counted(tick.imm) /\ Counted(tick.then) /\ chat \in Levels
BY DEF TypeInv, TypeOK, Stored, Ticks

LEMMA NoKnownType == NoKnown \in Knowns
BY DEF NoKnown, Knowns, Age, Levels

LEMMA ClearType == Stored(Clear) /\ ~Clear.flap.on /\ Clear.lvl = 0
<1>1. NoFlap \in Series /\ NoFlap.n = 0 /\ NoFlap.on = FALSE
  BY DEF NoFlap, Series, Age
<1> QED BY <1>1, NoWasType, Ranges DEF Clear, Stored, States, Counted, Wases, Series

LEMMA NoTickType == NoTick \in Ticks /\ NoTick.step = "idle" /\ Counted(NoTick.imm) /\ Counted(NoTick.then)
BY ClearType, NoKnownType, Ranges DEF NoTick, Ticks, Stored

LEMMA InitHolds == Init => TypeInv /\ HeardInv
<1> SUFFICES ASSUME Init PROVE TypeInv /\ HeardInv
  OBVIOUS
<1>1. TypeInv
  BY ClearType, NoTickType, NoKnownType, Ranges, TypeParts DEF Init
<1>2. HeardInv
  BY ClearType, NoTickType DEF Init, HeardInv, Covers, Word
<1> QED BY <1>1, <1>2

LEMMA HandedKeeps ==
    ASSUME TypeInv, HeardInv, Handed
    PROVE  TypeInv' /\ HeardInv'
<1>1. PICK msg, a, b : Plan(msg, a, b) /\ Planned(msg, a, b)
  BY DEF Handed
<1>2. /\ tick.step = "idle"
      /\ tick' = [step |-> "send", msg |-> msg, lvl |-> world, imm |-> a, then |-> b, back |-> Back,
                  quiet |-> snooze, kn |-> KnownNow, mine |-> TRUE, fx |-> fixed /\ seen]
      /\ UNCHANGED <<flaps, world, seen, st, people, chat>>
  BY <1>1 DEF Plan
<1>3. Back \in BOOLEAN /\ (fixed /\ seen) \in BOOLEAN
  BY DEF Back
<1>4. tick' \in Ticks /\ Counted(tick'.imm) /\ Counted(tick'.then)
  BY <1>1, <1>2, <1>3, TypeParts, ReadType DEF Planned, Stored, Ticks
<1>5. TypeInv'
  BY <1>2, <1>4, TypeParts DEF TypeInv, TypeOK, Stored, Ticks
<1>6. HeardInv'
  BY <1>1, <1>2 DEF HeardInv, Planned, Sound, Covers, Word
<1> QED BY <1>5, <1>6

LEMMA DispatchKeeps ==
    ASSUME TypeInv, HeardInv, NEW ok \in BOOLEAN, NEW okBack \in BOOLEAN, Dispatch(ok, okBack)
    PROVE  TypeInv' /\ HeardInv'
<1> DEFINE told == ok /\ tick.msg # "none"
<1>1. /\ tick.step = "send" /\ tick \in Ticks /\ tick.lvl \in Nat /\ chat \in Nat
      /\ tick.imm.lvl \in Nat /\ tick.then.lvl \in Nat
  BY TypeParts DEF Dispatch, Ticks, Levels, States
<1>2. /\ tick' = [tick EXCEPT !.step = IF told THEN "told" ELSE "write"]
      /\ UNCHANGED <<flaps, world, seen, st, people>>
  BY DEF Dispatch
<1>3. /\ tick' \in Ticks /\ tick'.step = (IF told THEN "told" ELSE "write")
      /\ tick'.imm = tick.imm /\ tick'.then = tick.then
  BY <1>1, <1>2 DEF Ticks
<1>4. chat' \in Levels
  BY <1>1, TypeParts, MaxLevels, Ranges DEF Dispatch, Ticks
<1>5. TypeInv'
  BY <1>2, <1>3, <1>4, TypeParts DEF TypeInv, TypeOK, Stored, Ticks
<1>6. ASSUME ~flaps PROVE HeardInv'
  <2>1. Sound(tick.msg, tick.lvl, tick.imm, tick.then, tick.back, tick.quiet) /\ Covers(st)
        /\ ~st.flap.on /\ chat = Word(st)
    BY <1>1, <1>6 DEF HeardInv
  <2>2. ~tick.back /\ tick.msg \in {"none", "alarm", "clear"}
    BY <1>1, <2>1 DEF Sound, Ticks
  <2>3. CASE tick.msg = "alarm" /\ ok
    <3>1. chat' = Max(chat, tick.lvl)
      BY <2>2, <2>3 DEF Dispatch
    <3>2. chat' = Word(tick.then)
      BY <1>1, <2>1, <2>3, <3>1 DEF Sound, Max
    <3> QED BY <1>2, <1>3, <2>1, <2>3, <3>2 DEF HeardInv, Sound, Covers, Word
  <2>4. CASE tick.msg = "clear" /\ ok
    <3>1. chat' = 0
      BY <2>2, <2>4 DEF Dispatch
    <3>2. Word(tick.then) = 0
      BY <2>1, <2>4 DEF Sound, Word
    <3> QED BY <1>2, <1>3, <2>1, <2>4, <3>1, <3>2 DEF HeardInv, Sound, Covers, Word
  <2>5. CASE ~told
    <3>1. chat' = chat
      BY <2>2, <2>5 DEF Dispatch
    <3> QED BY <1>2, <1>3, <2>1, <2>5, <3>1 DEF HeardInv, Sound, Covers, Word
  <2> QED BY <2>2, <2>3, <2>4, <2>5
<1>7. flaps => HeardInv'
  BY <1>2 DEF HeardInv
<1> QED BY <1>5, <1>6, <1>7

LEMMA WriteKeeps == ASSUME TypeInv, HeardInv, Write PROVE TypeInv' /\ HeardInv'
<1>1. /\ tick' = NoTick /\ UNCHANGED <<flaps, world, seen, snooze, mute, chat>>
      /\ st' = (IF tick.step = "told" THEN tick.then ELSE tick.imm)
      /\ tick.step \in {"told", "write"}
      /\ known' = (IF tick.mine THEN tick.kn ELSE known)
      /\ fixed' = (IF tick.fx THEN FALSE ELSE fixed)
  BY DEF Write
<1>2. Stored(st') /\ known' \in Knowns /\ fixed' \in BOOLEAN
  BY <1>1, TypeParts DEF Stored, Ticks
<1>3. TypeInv'
  BY <1>1, <1>2, NoTickType, TypeParts DEF TypeInv, TypeOK, Stored, Ticks
<1>4. HeardInv'
  BY <1>1, NoTickType DEF HeardInv, Covers, Word
<1> QED BY <1>3, <1>4

\* People and the world leave alone what was told, and of a tick all but two entries.
LEMMA OthersKeep ==
    ASSUME TypeInv, HeardInv, UNCHANGED <<flaps, st, chat>>,
           world' \in Levels, seen' \in BOOLEAN, snooze' \in BOOLEAN, mute' \in Levels,
           known' \in Knowns, fixed' \in BOOLEAN,
           \E m, x \in BOOLEAN : tick' = [tick EXCEPT !.mine = m, !.fx = x]
    PROVE  TypeInv' /\ HeardInv'
<1>1. PICK m \in BOOLEAN, x \in BOOLEAN : tick' = [tick EXCEPT !.mine = m, !.fx = x]
  OBVIOUS
<1>2. /\ tick' \in Ticks /\ tick'.step = tick.step /\ tick'.msg = tick.msg /\ tick'.lvl = tick.lvl
      /\ tick'.imm = tick.imm /\ tick'.then = tick.then /\ tick'.back = tick.back /\ tick'.quiet = tick.quiet
  BY <1>1, TypeParts DEF Ticks
<1>3. TypeInv'
  BY <1>2, TypeParts DEF TypeInv, TypeOK, Stored, Ticks
<1>4. HeardInv'
  BY <1>2 DEF HeardInv, Sound, Covers, Word
<1> QED BY <1>3, <1>4

LEMMA TickKept ==
    ASSUME TypeInv
    PROVE  /\ tick = [tick EXCEPT !.mine = tick.mine, !.fx = tick.fx]
           /\ \A m \in BOOLEAN : [tick EXCEPT !.mine = m] = [tick EXCEPT !.mine = m, !.fx = tick.fx]
           /\ \A m, x \in BOOLEAN : [tick EXCEPT !.fx = x, !.mine = m] = [tick EXCEPT !.mine = m, !.fx = x]
           /\ tick.mine \in BOOLEAN /\ tick.fx \in BOOLEAN
BY TypeParts DEF Ticks

LEMMA StepHolds == TypeInv /\ HeardInv /\ [Next]_vars => TypeInv' /\ HeardInv'
<1> SUFFICES ASSUME TypeInv, HeardInv, [Next]_vars PROVE TypeInv' /\ HeardInv'
  OBVIOUS
<1>1. CASE Evaluate
  BY <1>1, EveryRule, HandedKeeps
<1>2. ASSUME NEW ok \in BOOLEAN, NEW okBack \in BOOLEAN, Dispatch(ok, okBack) PROVE TypeInv' /\ HeardInv'
  BY <1>2, DispatchKeeps
<1>3. CASE Write
  BY <1>3, WriteKeeps
<1>4. CASE Snooze
  BY <1>4, OthersKeep, TickKept, TypeParts DEF Snooze
<1>5. ASSUME NEW l \in Levels, Mute(l) PROVE TypeInv' /\ HeardInv'
  BY <1>5, OthersKeep, TickKept, TypeParts DEF Mute
<1>6. ASSUME NEW on \in BOOLEAN, MarkKnown(on) PROVE TypeInv' /\ HeardInv'
  <2>1. known' \in Knowns
    BY <1>6, NoKnownType DEF MarkKnown, Knowns
  <2>2. \E m, x \in BOOLEAN : tick' = [tick EXCEPT !.mine = m, !.fx = x]
    BY <1>6, TickKept DEF MarkKnown
  <2> QED BY <1>6, <2>1, <2>2, OthersKeep, TypeParts DEF MarkKnown
<1>7. CASE MarkFixed
  <2>1. \E m, x \in BOOLEAN : tick' = [tick EXCEPT !.mine = m, !.fx = x]
    BY <1>7, TickKept DEF MarkFixed
  <2> QED BY <1>7, <2>1, OthersKeep, NoKnownType, TypeParts DEF MarkFixed
<1>8. ASSUME NEW l \in Levels, Change(l) PROVE TypeInv' /\ HeardInv'
  BY <1>8, OthersKeep, TickKept, TypeParts DEF Change
<1>9. CASE Talk
  BY <1>9, OthersKeep, TickKept, TypeParts DEF Talk
<1>10. CASE UNCHANGED vars
  BY <1>10, OthersKeep, TickKept, TypeParts
<1> QED BY <1>1, <1>2, <1>3, <1>4, <1>5, <1>6, <1>7, <1>8, <1>9, <1>10 DEF Next

LEMMA InvHolds == Spec => [](TypeInv /\ HeardInv)
BY InitHolds, StepHolds, PTL DEF Spec

-----------------------------------------------------------------------------
(* For any levels, delays and actions of people, every state of the rules   *)
(* of evaluate_servers has its type: ages and counts stay within bounds.    *)
THEOREM TypeCorrect == Spec => []TypeOK
<1>1. TypeInv => TypeOK
  BY DEF TypeInv
<1> QED BY <1>1, InvHolds, PTL

(* "After the delivery is confirmed": whatever is refused, snoozed, muted or *)
(* marked, and however the level goes up and down, a level that the panel   *)
(* takes as told has been told.                                             *)
THEOREM WhatIsToldIsHeard == Spec => []ToldIsHeard
<1>1. TypeInv /\ HeardInv => ToldIsHeard
  <2> SUFFICES ASSUME TypeInv, HeardInv, ~flaps, tick.step # "told", st.lvl > 0, st.hush = No
               PROVE  chat >= st.lvl
    BY DEF ToldIsHeard
  <2>1. chat = Max(st.lvl, st.told) /\ st.lvl \in Nat /\ st.told \in Nat
    BY TypeParts DEF HeardInv, Word, Stored, States, Levels
  <2> QED BY <2>1 DEF Max
<1> QED BY <1>1, InvHolds, PTL

(* "The return to a level that was told is not news": an alarm tells of more *)
(* than people have heard since the last all-clear.                          *)
THEOREM AlarmsAreNews == Spec => AlarmIsNews
<1>1. TypeInv /\ HeardInv /\ [Next]_vars => [Delivered("alarm") => tick.lvl > chat]_vars
  BY DEF HeardInv, Sound, Delivered
<1> QED BY <1>1, InvHolds, PTL DEF Spec, AlarmIsNews

(* "The all-clear of such a wave is silent": the all-clear of a server that  *)
(* is not snoozed answers an alarm.                                          *)
THEOREM ClearsAnswerAlarms == Spec => AwakeClearAnswersAlarm
<1>1. TypeInv /\ HeardInv /\ [Next]_vars => [Delivered("clear") /\ ~tick.quiet => chat > 0]_vars
  BY DEF HeardInv, Sound, Delivered
<1> QED BY <1>1, InvHolds, PTL DEF Spec, AwakeClearAnswersAlarm
=============================================================================
