----------------------- MODULE ExpiryRemindersProofs -----------------------
(***************************************************************************)
(* Theorems about ExpiryReminders, for any monitors of a domain, any       *)
(* thresholds, terms and views, and whatever is refused or left out.       *)
(*                                                                         *)
(* QueueInv is the strengthening of "at most one message": whoever has     *)
(* spoken in the pass under way shows in its DomainAlerts what keeps the    *)
(* others silent.  TermInv is that of NewsOnce: whatever the reader was     *)
(* told in this term, some monitor carries the mark of (SaidMarked); once a *)
(* renewal was told, somebody keeps the others silent (NewsKnown); and a    *)
(* message on its way is news (QueueNews).                                 *)
(***************************************************************************)
EXTENDS ExpiryReminders, WellFoundedInduction, TLAPS

-----------------------------------------------------------------------------
(* The least and the greatest of a set of integers with a bound.           *)

LEMMA LeastNat ==
    ASSUME NEW T, T \subseteq Nat, T # {}
    PROVE  \E x \in T : \A y \in T : x <= y
<1>1. PICK x \in T : \A y \in T : ~(<<y, x>> \in OpToRel(<, Nat))
  <2> HIDE DEF OpToRel
  <2> QED BY NatLessThanWellFounded, WFMin
<1>2. \A y \in T : ~(y < x)
  BY <1>1 DEF OpToRel
<1> QED BY <1>2

LEMMA MinMember ==
    ASSUME NEW S, NEW a \in Int, S # {}, \A x \in S : x \in Int /\ x >= a
    PROVE  Min(S) \in S /\ \A y \in S : Min(S) <= y
<1> DEFINE T == {x - a : x \in S}
<1>1. T \subseteq Nat /\ T # {}
  OBVIOUS
<1>2. PICK t \in T : \A u \in T : t <= u
  <2> HIDE DEF T
  <2> QED BY <1>1, LeastNat
<1>3. PICK x \in S : t = x - a
  BY <1>2
<1>4. \A y \in S : x <= y
  <2> SUFFICES ASSUME NEW y \in S PROVE x <= y
    OBVIOUS
  <2>1. x - a <= y - a
    BY <1>2, <1>3
  <2> QED BY <2>1
<1> QED BY <1>4 DEF Min

LEMMA MaxMember ==
    ASSUME NEW S, NEW b \in Int, S # {}, \A x \in S : x \in Int /\ x <= b
    PROVE  Max(S) \in S /\ \A y \in S : Max(S) >= y
<1> DEFINE T == {b - x : x \in S}
<1>1. T \subseteq Nat /\ T # {}
  OBVIOUS
<1>2. PICK t \in T : \A u \in T : t <= u
  <2> HIDE DEF T
  <2> QED BY <1>1, LeastNat
<1>3. PICK x \in S : t = b - x
  BY <1>2
<1>4. \A y \in S : x >= y
  <2> SUFFICES ASSUME NEW y \in S PROVE x >= y
    OBVIOUS
  <2>1. b - x <= b - y
    BY <1>2, <1>3
  <2> QED BY <2>1
<1> QED BY <1>4 DEF Max

-----------------------------------------------------------------------------
(* The thresholds.                                                         *)

\* A postponement is to one of the thresholds, as with the defaults of the code
\* (domain_warn_days = [7, 1], MODES = (7, 1, 0)): whatever is postponed, the
\* thresholds of a monitor are the same.
PlainModes == (Modes \ {0}) \subseteq Warn

Limit == Max(Warn)

Crossed(d) == {t \in Warn : d <= t} \cup (IF d < 0 THEN {EXPIRED} ELSE {})

\* The threshold a term of d days has reached.
Target(d) == Min(Crossed(d))

Snoozes == [mode : Modes, days : Terms] \cup {None}
Marks == Buckets \cup {None}

LEMMA Constants ==
    /\ Warn # {} /\ \A t \in Warn : t \in Int /\ t >= 1 /\ t < MaxDays
    /\ MaxDays \in Int /\ Jitter \in Nat /\ RENEW_SLACK \in Nat
    /\ \A k \in Modes : k \in Int
    /\ None \notin Int /\ Buckets \subseteq Int /\ EXPIRED = 0 - 1
    /\ \A b \in Buckets : b >= 0 - 1
BY ExpiryConstants DEF Buckets, EXPIRED

LEMMA LimitFacts ==
    /\ Limit \in Warn /\ Limit \in Int /\ Limit >= 1 /\ Limit < MaxDays
    /\ \A t \in Warn : t <= Limit
<1>1. Max(Warn) \in Warn /\ \A y \in Warn : Max(Warn) >= y
  BY Constants, MaxMember
<1> QED BY <1>1, Constants DEF Limit

LEMMA TargetFacts ==
    ASSUME NEW d \in Int
    PROVE  /\ d <= Limit => Crossed(d) # {} /\ Target(d) \in Buckets /\ Target(d) \in Int
           /\ d > Limit => Crossed(d) = {}
<1>1. ASSUME d > Limit PROVE Crossed(d) = {}
  <2>1. ~(d < 0) /\ \A t \in Warn : ~(d <= t)
    BY <1>1, LimitFacts, Constants
  <2>2. {t \in Warn : d <= t} = {}
    BY <2>1
  <2> QED BY <2>1, <2>2 DEF Crossed
<1>2. ASSUME d <= Limit PROVE Crossed(d) # {} /\ Target(d) \in Buckets /\ Target(d) \in Int
  <2>1. Limit \in Crossed(d)
    BY <1>2, LimitFacts DEF Crossed
  <2>2. \A x \in Crossed(d) : x \in Int /\ x >= 0 - 1 /\ x \in Buckets
    BY Constants DEF Crossed, Buckets
  <2>3. Crossed(d) # {}
    BY <2>1
  <2>4. Target(d) \in Crossed(d)
    <3> HIDE DEF Crossed
    <3> QED BY <2>2, <2>3, MinMember DEF Target
  <2> QED BY <2>2, <2>3, <2>4
<1> QED BY <1>1, <1>2

LEMMA BucketIsTarget ==
    ASSUME NEW d \in Int, NEW at \in Marks
    PROVE  /\ d > Limit => _expiry_bucket(d, Warn, at) = None
           /\ d <= Limit => _expiry_bucket(d, Warn, at) =
                                IF at = None \/ Target(d) < at THEN Target(d) ELSE None
<1>1. _expiry_bucket(d, Warn, at) =
        IF Crossed(d) # {} /\ (at = None \/ Min(Crossed(d)) < at) THEN Min(Crossed(d)) ELSE None
  BY DEF _expiry_bucket, Crossed
<1> QED BY <1>1, TargetFacts DEF Target

LEMMA SameThresholds ==
    ASSUME PlainModes, NEW e \in Snoozes, NEW d
    PROVE  thresholds(e, d) = Warn
<1>1. CASE e = None
  BY <1>1 DEF thresholds
<1>2. CASE e # None
  <2>1. e.mode \in Modes
    BY <1>2 DEF Snoozes
  <2> QED BY <2>1 DEF thresholds, PlainModes
<1> QED BY <1>1, <1>2

LEMMA SyncType ==
    ASSUME NEW e \in Snoozes, NEW d
    PROVE  sync(e, d) \in Snoozes
BY DEF sync, Snoozes

-----------------------------------------------------------------------------
(* What _apply_expiry does to the row of a monitor.                        *)

Doms == [Monitors -> [alerted : Marks, days : Terms]]
Going(P, d, D) == [todo |-> P, days |-> d, doms |-> D]
After(m, D) == IF pass.todo = {m} THEN None ELSE Going(pass.todo \ {m}, pass.days, D)

\* The types of the state, apart from the length of the queue.
Typed ==
    /\ left \in EXPIRED .. MaxDays
    /\ days \in [Monitors -> Terms]
    /\ alerted \in [Monitors -> Marks]
    /\ snooze \in [Monitors -> Snoozes]
    /\ fresh \in SUBSET Monitors /\ held \in SUBSET Monitors
    /\ pass # None => /\ pass \in [todo : (SUBSET Monitors) \ {{}}, days : Terms, doms : Doms]
    /\ queue \in Seq(Messages)
    /\ said \in Marks /\ tried \in Marks
    /\ news \in BOOLEAN /\ late \in BOOLEAN

\* The message of monitor m.
Renewal(m) == [kind |-> "renewed", of |-> m, bucket |-> None]
Reminder(m, b) == [kind |-> "remind", of |-> m, bucket |-> b]

\* Beyond all thresholds: the mark is cleared.
LEMMA ApplyReset ==
    ASSUME PlainModes, Typed, NEW m \in Monitors, Apply(m), pass.days > Limit
    PROVE  /\ days' = [days EXCEPT ![m] = pass.days]
           /\ snooze' = [snooze EXCEPT ![m] = sync(snooze[m], pass.days)]
           /\ alerted' = [alerted EXCEPT ![m] = None]
           /\ pass' = After(m, [pass.doms EXCEPT ![m] = [alerted |-> None, days |-> pass.days]])
           /\ queue' = queue \/ /\ queue' = Append(queue, Renewal(m))
                                /\ alerted[m] # None /\ first_renewed(pass.doms, m, Limit)
<1> DEFINE d == pass.days
           e == sync(snooze[m], d)
           w == [days |-> days, alerted |-> alerted, snooze |-> snooze, doms |-> pass.doms, out |-> queue]
           stored == [days |-> [days EXCEPT ![m] = d], snooze |-> [snooze EXCEPT ![m] = e],
                      alerted |-> alerted, doms |-> pass.doms, out |-> queue]
           tell == alerted[m] # None /\ ~hidden(e, d) /\ first_renewed(pass.doms, m, Limit)
           reset == [days |-> stored.days, snooze |-> stored.snooze,
                     alerted |-> [alerted EXCEPT ![m] = None],
                     doms |-> [pass.doms EXCEPT ![m] = [alerted |-> None, days |-> d]],
                     out |-> IF tell THEN Append(queue, Renewal(m)) ELSE queue]
<1>t. d \in Int /\ snooze[m] \in Snoozes /\ ~(d <= Limit)
  BY Constants, LimitFacts DEF Typed, Apply, Resting, Terms
<1>1. thresholds(e, d) = Warn
  BY <1>t, SyncType, SameThresholds
<1>2. Reset(stored, m, e, d) = reset
  <2>1. Max(thresholds(e, d)) = Limit
    BY <1>1 DEF Limit
  <2> QED BY <1>t, <2>1 DEF Reset, Renewal
<1>3. reset.alerted[m] = None
  BY DEF Typed
<1>4. _expiry_bucket(d, Warn, None) = None
  BY <1>t, BucketIsTarget DEF Marks
<1>5. Remind(reset, m, e, d) = reset
  <2> HIDE DEF reset, e, d
  <2> QED BY <1>1, <1>3, <1>4 DEF Remind
<1>6. _apply_expiry(w, m, d) = reset
  BY <1>2, <1>5 DEF _apply_expiry
<1>7. /\ days' = reset.days /\ alerted' = reset.alerted /\ snooze' = reset.snooze
      /\ queue' = reset.out /\ pass' = After(m, reset.doms)
  BY <1>6 DEF Apply, After, Going
<1> QED BY <1>7

\* Within a threshold: silent, the first to speak of it, or marked after another.
LEMMA ApplyRemind ==
    ASSUME PlainModes, Typed, NEW m \in Monitors, Apply(m), pass.days <= Limit
    PROVE  LET b == Target(pass.days)
               marked == [pass.doms EXCEPT ![m] = [alerted |-> b, days |-> pass.doms[m].days]]
           IN  /\ days' = [days EXCEPT ![m] = pass.days]
               /\ snooze' = [snooze EXCEPT ![m] = sync(snooze[m], pass.days)]
               /\ \/ alerted' = alerted /\ queue' = queue /\ pass' = After(m, pass.doms)
                  \/ /\ alerted[m] = None \/ b < alerted[m]
                     /\ pass' = After(m, marked)
                     /\ \/ /\ should_alert(pass.doms, m, b)
                           /\ alerted' = alerted /\ queue' = Append(queue, Reminder(m, b))
                        \/ /\ ~should_alert(pass.doms, m, b)
                           /\ alerted' = [alerted EXCEPT ![m] = b] /\ queue' = queue
<1> DEFINE d == pass.days
           e == sync(snooze[m], d)
           b == Target(d)
           marked == [pass.doms EXCEPT ![m] = [alerted |-> b, days |-> pass.doms[m].days]]
           w == [days |-> days, alerted |-> alerted, snooze |-> snooze, doms |-> pass.doms, out |-> queue]
           stored == [days |-> [days EXCEPT ![m] = d], snooze |-> [snooze EXCEPT ![m] = e],
                      alerted |-> alerted, doms |-> pass.doms, out |-> queue]
           first == should_alert(pass.doms, m, b)
           told == [days |-> stored.days, snooze |-> stored.snooze,
                    alerted |-> IF first THEN alerted ELSE [alerted EXCEPT ![m] = b],
                    doms |-> marked,
                    out |-> IF first THEN Append(queue, Reminder(m, b)) ELSE queue]
<1>t. d \in Int /\ snooze[m] \in Snoozes /\ d <= Limit /\ alerted[m] \in Marks
  BY Constants, LimitFacts DEF Typed, Apply, Resting, Terms
<1>n. b \in Int /\ b # None
  BY <1>t, TargetFacts, Constants
<1>1. thresholds(e, d) = Warn
  BY <1>t, SyncType, SameThresholds
<1>2. Reset(stored, m, e, d) = stored
  <2>1. Max(thresholds(e, d)) = Limit
    BY <1>1 DEF Limit
  <2> QED BY <1>t, <2>1 DEF Reset
<1>3. _expiry_bucket(d, thresholds(e, d), stored.alerted[m]) =
         IF alerted[m] = None \/ b < alerted[m] THEN b ELSE None
  BY <1>1, <1>t, BucketIsTarget
<1>4. CASE (alerted[m] = None \/ b < alerted[m]) /\ ~hidden(e, d)
  <2>1. Remind(stored, m, e, d) = told
    <3>1. _expiry_bucket(d, thresholds(e, d), stored.alerted[m]) = b
      BY <1>3, <1>4
    <3> QED BY <1>4, <1>n, <3>1 DEF Remind, Reminder
  <2>2. _apply_expiry(w, m, d) = told
    BY <1>2, <2>1 DEF _apply_expiry
  <2>3. /\ days' = told.days /\ alerted' = told.alerted /\ snooze' = told.snooze
        /\ queue' = told.out /\ pass' = After(m, told.doms)
    BY <2>2 DEF Apply, After, Going
  <2> QED BY <1>4, <2>3
<1>5. CASE ~((alerted[m] = None \/ b < alerted[m]) /\ ~hidden(e, d))
  <2>1. Remind(stored, m, e, d) = stored
    <3> HIDE DEF stored, e, d, b
    <3> QED BY <1>3, <1>5 DEF Remind
  <2>2. _apply_expiry(w, m, d) = stored
    BY <1>2, <2>1 DEF _apply_expiry
  <2>3. /\ days' = stored.days /\ alerted' = stored.alerted /\ snooze' = stored.snooze
        /\ queue' = stored.out /\ pass' = After(m, stored.doms)
    BY <2>2 DEF Apply, After, Going
  <2> QED BY <2>3
<1> QED BY <1>4, <1>5

-----------------------------------------------------------------------------
(* Types, and the length of the queue.                                     *)

\* The monitor that has spoken in a pass has been gone through, and what the pass knows
\* of it keeps every other silent.
PassOne ==
    pass # None /\ queue # <<>> =>
        /\ queue[1].of \notin pass.todo
        /\ pass.days > Limit => pass.doms[queue[1].of] = [alerted |-> None, days |-> pass.days]
        /\ pass.days <= Limit => pass.doms[queue[1].of].alerted = Target(pass.days)
QueueInv == Len(queue) <= 1 /\ PassOne

USE DEF vars, rows

LEMMA TypedIsType == TypeOK <=> Typed /\ Len(queue) <= 1
BY DEF TypeOK, Typed, Doms, Snoozes, Marks

LEMMA MessageTypes ==
    ASSUME NEW m \in Monitors
    PROVE  Renewal(m) \in Messages /\ \A b \in Buckets : Reminder(m, b) \in Messages
BY DEF Messages, Renewal, Reminder

LEMMA QueueFacts ==
    ASSUME Typed
    PROVE  /\ queue = <<>> => Len(queue) = 0
           /\ Len(queue) <= 1 /\ queue # <<>> =>
                /\ Len(queue) = 1 /\ DOMAIN queue = {1} /\ queue[1] \in Messages
                /\ queue[1].of \in Monitors /\ queue[1].kind \in {"remind", "renewed"}
                /\ queue[1].kind = "remind" => queue[1].bucket \in Buckets
                /\ queue[1].kind = "renewed" => queue[1].bucket = None
<1>1. queue \in Seq(Messages)
  BY DEF Typed
<1>2. ASSUME Len(queue) <= 1, queue # <<>>
      PROVE  Len(queue) = 1 /\ DOMAIN queue = {1} /\ queue[1] \in Messages
  <2>1. Len(queue) \in Nat /\ Len(queue) # 0
    BY <1>1, <1>2
  <2>2. Len(queue) = 1
    BY <1>2, <2>1
  <2>3. DOMAIN queue = 1 .. Len(queue)
    BY <1>1
  <2>4. DOMAIN queue = {1}
    BY <2>2, <2>3
  <2> QED BY <1>1, <2>2, <2>4
<1>3. \A x \in Messages : /\ x.of \in Monitors /\ x.kind \in {"remind", "renewed"}
                          /\ x.kind = "remind" => x.bucket \in Buckets
                          /\ x.kind = "renewed" => x.bucket = None
  BY DEF Messages
<1> QED BY <1>1, <1>2, <1>3

LEMMA AppendFacts ==
    ASSUME NEW x \in Messages, queue = <<>>, queue' = Append(queue, x)
    PROVE  queue' \in Seq(Messages) /\ Len(queue') = 1 /\ queue'[1] = x /\ queue' # <<>>
OBVIOUS

LEMMA AfterFacts ==
    ASSUME Typed, NEW m \in Monitors, Apply(m), NEW D \in Doms, pass' = After(m, D)
    PROVE  pass' # None => /\ pass' \in [todo : (SUBSET Monitors) \ {{}}, days : Terms, doms : Doms]
                           /\ pass'.todo = pass.todo \ {m} /\ pass'.days = pass.days /\ pass'.doms = D
<1>1. /\ pass.todo \in SUBSET Monitors /\ pass.days \in Terms /\ m \in pass.todo
  BY DEF Apply, Resting, Typed
<1>2. pass' # None => pass.todo # {m} /\ pass' = Going(pass.todo \ {m}, pass.days, D)
  BY DEF After
<1> QED BY <1>1, <1>2 DEF Going

LEMMA TypedInit == Init => Typed /\ QueueInv
<1> SUFFICES ASSUME Init PROVE Typed /\ QueueInv
  OBVIOUS
<1>1. MaxDays \in EXPIRED .. MaxDays /\ MaxDays \in Terms
  BY Constants, LimitFacts DEF Terms
<1>2. queue \in Seq(Messages) /\ Len(queue) = 0 /\ pass = None
  BY DEF Init
<1>3. alerted \in [Monitors -> Marks] /\ snooze \in [Monitors -> Snoozes] /\ days \in [Monitors -> Terms]
  BY <1>1 DEF Init, Marks, Snoozes
<1>4. left \in EXPIRED .. MaxDays /\ said \in Marks /\ tried \in Marks
  BY <1>1 DEF Init, Marks
<1>5. Typed
  BY <1>2, <1>3, <1>4 DEF Init, Typed
<1> QED BY <1>2, <1>5 DEF QueueInv, PassOne

LEMMA ApplyKeeps ==
    ASSUME PlainModes, Typed, QueueInv, NEW m \in Monitors, Apply(m)
    PROVE  Typed' /\ QueueInv'
<1>p. /\ pass # None /\ m \in pass.todo /\ UNCHANGED <<left, held, said, tried, news, late>>
      /\ fresh' = fresh \cup {m}
  BY DEF Apply, Resting
<1>t. /\ pass.days \in Terms /\ pass.days \in Int /\ pass.doms \in Doms
      /\ snooze[m] \in Snoozes /\ queue \in Seq(Messages)
  BY <1>p, Constants DEF Typed, Terms
<1>q. /\ queue = <<>> => Len(queue) = 0
      /\ queue # <<>> => /\ queue[1].of \in Monitors /\ queue[1].of # m /\ Len(queue) = 1
                         /\ queue[1].of \notin pass.todo
                         /\ pass.days > Limit => pass.doms[queue[1].of] = [alerted |-> None, days |-> pass.days]
                         /\ pass.days <= Limit => pass.doms[queue[1].of].alerted = Target(pass.days)
  BY <1>p, QueueFacts DEF QueueInv, PassOne
<1>s. sync(snooze[m], pass.days) \in Snoozes
  BY <1>t, SyncType
<1>1. CASE pass.days > Limit
  <2> DEFINE D == [pass.doms EXCEPT ![m] = [alerted |-> None, days |-> pass.days]]
  <2>1. /\ days' = [days EXCEPT ![m] = pass.days]
        /\ snooze' = [snooze EXCEPT ![m] = sync(snooze[m], pass.days)]
        /\ alerted' = [alerted EXCEPT ![m] = None]
        /\ pass' = After(m, D)
        /\ queue' = queue \/ /\ queue' = Append(queue, Renewal(m))
                             /\ alerted[m] # None /\ first_renewed(pass.doms, m, Limit)
    BY <1>1, ApplyReset
  <2>2. D \in Doms /\ D[m] = [alerted |-> None, days |-> pass.days] /\ \A o \in Monitors \ {m} : D[o] = pass.doms[o]
    BY <1>t DEF Doms, Marks
  <2> HIDE DEF D
  <2>3. pass' # None => /\ pass' \in [todo : (SUBSET Monitors) \ {{}}, days : Terms, doms : Doms]
                        /\ pass'.todo = pass.todo \ {m} /\ pass'.days = pass.days /\ pass'.doms = D
    BY <2>1, <2>2, AfterFacts
  <2>4. queue' = queue \/ (queue = <<>> /\ queue' = Append(queue, Renewal(m)))
    <3> SUFFICES ASSUME queue # <<>>, first_renewed(pass.doms, m, Limit) PROVE FALSE
      BY <2>1
    <3>1. pass.doms[queue[1].of].alerted = None /\ ~(pass.doms[queue[1].of].days <= Limit)
      BY <1>1, <1>q, <1>t, LimitFacts
    <3> QED BY <1>q, <3>1 DEF first_renewed
  <2>5. queue' \in Seq(Messages) /\ Len(queue') <= 1
        /\ (queue' # <<>> => queue' = queue \/ (queue'[1] = Renewal(m)))
    <3>1. CASE queue' = queue
      BY <1>t, <3>1 DEF QueueInv
    <3>2. CASE queue = <<>> /\ queue' = Append(queue, Renewal(m))
      BY <3>2, MessageTypes, AppendFacts
    <3> QED BY <2>4, <3>1, <3>2
  <2>6. PassOne'
    <3> SUFFICES ASSUME pass' # None, queue' # <<>>
                 PROVE  /\ queue'[1].of \notin pass'.todo
                        /\ pass'.days > Limit => pass'.doms[queue'[1].of] = [alerted |-> None, days |-> pass'.days]
                        /\ pass'.days <= Limit => pass'.doms[queue'[1].of].alerted = Target(pass'.days)
      BY DEF PassOne, Target, Crossed
    <3>1. CASE queue' = queue
      BY <1>1, <1>q, <1>t, <2>2, <2>3, <3>1, LimitFacts
    <3>2. CASE queue'[1] = Renewal(m)
      <4>1. queue'[1].of = m
        BY <3>2 DEF Renewal
      <4> QED BY <1>1, <1>t, <2>2, <2>3, <4>1, LimitFacts
    <3> QED BY <2>5, <3>1, <3>2
  <2>7. Typed'
    <3>1. days' \in [Monitors -> Terms] /\ snooze' \in [Monitors -> Snoozes] /\ alerted' \in [Monitors -> Marks]
      BY <1>s, <1>t, <2>1 DEF Typed, Marks
    <3> QED BY <1>p, <2>3, <2>5, <3>1 DEF Typed
  <2> QED BY <2>5, <2>6, <2>7 DEF QueueInv
<1>2. CASE pass.days <= Limit
  <2> DEFINE b == Target(pass.days)
  <2> DEFINE marked == [pass.doms EXCEPT ![m] = [alerted |-> b, days |-> pass.doms[m].days]]
  <2>1. /\ days' = [days EXCEPT ![m] = pass.days]
        /\ snooze' = [snooze EXCEPT ![m] = sync(snooze[m], pass.days)]
        /\ \/ alerted' = alerted /\ queue' = queue /\ pass' = After(m, pass.doms)
           \/ /\ alerted[m] = None \/ b < alerted[m]
              /\ pass' = After(m, marked)
              /\ \/ /\ should_alert(pass.doms, m, b)
                    /\ alerted' = alerted /\ queue' = Append(queue, Reminder(m, b))
                 \/ /\ ~should_alert(pass.doms, m, b)
                    /\ alerted' = [alerted EXCEPT ![m] = b] /\ queue' = queue
    BY <1>2, ApplyRemind
  <2>b. b \in Buckets /\ b \in Int /\ b # None
    BY <1>2, <1>t, TargetFacts, Constants
  <2> HIDE DEF b
  <2>2. marked \in Doms /\ marked[m].alerted = b /\ \A o \in Monitors \ {m} : marked[o] = pass.doms[o]
    <3>1. [alerted |-> b, days |-> pass.doms[m].days] \in [alerted : Marks, days : Terms]
      BY <1>t, <2>b DEF Doms, Marks
    <3> QED BY <1>t, <3>1 DEF Doms
  <2> HIDE DEF marked
  <2>3. PICK D \in {pass.doms, marked} : /\ pass' = After(m, D)
                                         /\ queue' # queue => D = marked /\ should_alert(pass.doms, m, b)
                                                              /\ queue' = Append(queue, Reminder(m, b))
    BY <2>1
  <2>4. pass' # None => /\ pass' \in [todo : (SUBSET Monitors) \ {{}}, days : Terms, doms : Doms]
                        /\ pass'.todo = pass.todo \ {m} /\ pass'.days = pass.days /\ pass'.doms = D
    BY <1>t, <2>2, <2>3, AfterFacts
  <2>5. queue' # queue => queue = <<>>
    <3> SUFFICES ASSUME queue # <<>>, should_alert(pass.doms, m, b) PROVE FALSE
      BY <2>3
    <3>1. pass.doms[queue[1].of].alerted = b
      BY <1>2, <1>q DEF b
    <3>2. ~(b > b)
      BY <2>b
    <3> QED BY <1>q, <2>b, <3>1, <3>2 DEF should_alert
  <2>6. queue' \in Seq(Messages) /\ Len(queue') <= 1
        /\ (queue' # <<>> => queue' = queue \/ (D = marked /\ queue'[1] = Reminder(m, b)))
    <3>1. CASE queue' = queue
      BY <1>t, <3>1 DEF QueueInv
    <3>2. CASE queue' # queue
      <4>1. queue = <<>> /\ D = marked /\ queue' = Append(queue, Reminder(m, b))
        BY <2>3, <2>5, <3>2
      <4>2. Reminder(m, b) \in Messages
        BY <2>b, MessageTypes
      <4>3. queue' \in Seq(Messages) /\ Len(queue') = 1 /\ queue'[1] = Reminder(m, b)
        BY <4>1, <4>2, AppendFacts
      <4> QED BY <4>1, <4>3
    <3> QED BY <3>1, <3>2
  <2>7. PassOne'
    <3> SUFFICES ASSUME pass' # None, queue' # <<>>
                 PROVE  /\ queue'[1].of \notin pass'.todo
                        /\ pass'.days > Limit => pass'.doms[queue'[1].of] = [alerted |-> None, days |-> pass'.days]
                        /\ pass'.days <= Limit => pass'.doms[queue'[1].of].alerted = Target(pass'.days)
      BY DEF PassOne, Target, Crossed
    <3>0. ~(pass'.days > Limit)
      BY <1>2, <1>t, <2>4, LimitFacts
    <3>1. CASE queue' = queue
      <4>1. D[queue[1].of] = pass.doms[queue[1].of]
        BY <1>q, <2>2, <2>3, <3>1
      <4> QED BY <1>2, <1>q, <2>4, <3>0, <3>1, <4>1
    <3>2. CASE D = marked /\ queue'[1] = Reminder(m, b)
      <4>1. queue'[1].of = m
        BY <3>2 DEF Reminder
      <4> QED BY <2>2, <2>4, <3>0, <3>2, <4>1 DEF b
    <3> QED BY <2>6, <3>1, <3>2
  <2>8. Typed'
    <3>1. days' \in [Monitors -> Terms] /\ snooze' \in [Monitors -> Snoozes]
      BY <1>s, <1>t, <2>1 DEF Typed
    <3>2. alerted' \in [Monitors -> Marks]
      BY <2>1, <2>b DEF Typed, Marks
    <3> QED BY <1>p, <2>4, <2>6, <3>1, <3>2 DEF Typed
  <2> QED BY <2>6, <2>7, <2>8 DEF QueueInv
<1> QED BY <1>1, <1>2, <1>t, LimitFacts

\* A queue of one message: it is what is read out, or left out.
LEMMA OneMessage ==
    ASSUME Typed, NEW M, Len(queue) <= 1, queue # <<>>
    PROVE  /\ Heard(queue, M) <=> queue[1].of \notin M
           /\ Heard(queue, M) => Text(queue, M) = queue[1]
           /\ Marked(queue, M) = [m \in Monitors |->
                 IF Heard(queue, M) /\ queue[1].of = m /\ queue[1].bucket # None
                 THEN queue[1].bucket ELSE alerted[m]]
<1>1. DOMAIN queue = {1}
  BY QueueFacts
<1>2. Min({1}) = 1 /\ Max({1}) = 1
  <2>1. Min({1}) \in {1}
    BY MinMember
  <2>2. Max({1}) \in {1}
    BY MaxMember
  <2> QED BY <2>1, <2>2
<1>3. CASE queue[1].of \in M
  <2>1. Audible(queue, M) = {}
    BY <1>1, <1>3 DEF Audible
  <2>2. ~Heard(queue, M)
    BY <2>1 DEF Heard
  <2>3. Marked(queue, M) = [m \in Monitors |-> alerted[m]]
    BY <2>1 DEF Marked
  <2> QED BY <1>3, <2>2, <2>3
<1>4. CASE queue[1].of \notin M
  <2>1. Audible(queue, M) = {1}
    BY <1>1, <1>4 DEF Audible
  <2>2. Heard(queue, M) /\ Text(queue, M) = queue[1]
    BY <1>2, <2>1 DEF Heard, Text
  <2>3. ASSUME NEW m \in Monitors
        PROVE  Marked(queue, M)[m] = IF queue[1].of = m /\ queue[1].bucket # None
                                  THEN queue[1].bucket ELSE alerted[m]
    <3> DEFINE mine == {i \in Audible(queue, M) : queue[i].of = m /\ queue[i].bucket # None}
    <3>1. Marked(queue, M)[m] = IF mine = {} THEN alerted[m] ELSE queue[Max(mine)].bucket
      BY DEF Marked
    <3>2. CASE queue[1].of = m /\ queue[1].bucket # None
      <4>1. mine = {1}
        BY <2>1, <3>2
      <4> QED BY <1>2, <3>1, <3>2, <4>1
    <3>3. CASE ~(queue[1].of = m /\ queue[1].bucket # None)
      <4>1. mine = {}
        BY <2>1, <3>3
      <4> QED BY <3>1, <3>3, <4>1
    <3> QED BY <3>2, <3>3
  <2>4. Marked(queue, M) = [m \in Monitors |-> Marked(queue, M)[m]]
    BY DEF Marked
  <2>5. Marked(queue, M) = [m \in Monitors |->
                 IF queue[1].of = m /\ queue[1].bucket # None THEN queue[1].bucket ELSE alerted[m]]
    <3> DEFINE F == Marked(queue, M)
    <3>1. F = [m \in Monitors |-> F[m]]
      BY <2>4
    <3>2. \A m \in Monitors : F[m] = IF queue[1].of = m /\ queue[1].bucket # None
                                     THEN queue[1].bucket ELSE alerted[m]
      BY <2>3
    <3> HIDE DEF F
    <3>3. F = [m \in Monitors |->
                 IF queue[1].of = m /\ queue[1].bucket # None THEN queue[1].bucket ELSE alerted[m]]
      BY <3>1, <3>2
    <3> QED BY <3>3 DEF F
  <2> QED BY <1>4, <2>2, <2>5
<1> QED BY <1>3, <1>4

LEMMA ClosestFacts ==
    ASSUME NEW b \in Marks
    PROVE  /\ \A S \in SUBSET Buckets : Closest(b, S) \in Marks
           /\ Closest(b, {}) = b
           /\ \A x \in Buckets :
                Closest(b, {x}) = IF late \/ (b # None /\ b <= x) THEN b ELSE x
<1>1. ASSUME NEW S \in SUBSET Buckets, S # {} PROVE Min(S) \in S
  <2>1. (0 - 1) \in Int /\ \A x \in S : x \in Int /\ x >= 0 - 1
    BY Constants
  <2> QED BY <1>1, <2>1, MinMember
<1>2. ASSUME NEW S \in SUBSET Buckets PROVE Closest(b, S) \in Marks
  <2>1. CASE S = {}
    BY <2>1 DEF Closest
  <2>2. CASE S # {}
    <3>1. Min(S) \in Marks
      BY <1>1, <2>2 DEF Marks
    <3> QED BY <3>1 DEF Closest
  <2> QED BY <2>1, <2>2
<1>3. ASSUME NEW x \in Buckets
      PROVE  Closest(b, {x}) = IF late \/ (b # None /\ b <= x) THEN b ELSE x
  <2>1. Min({x}) = x
    BY <1>1
  <2> QED BY <2>1 DEF Closest
<1>4. Closest(b, {}) = b
  BY DEF Closest
<1> QED BY <1>2, <1>3, <1>4

\* What ends a message leaves a threshold, or none, as the closest that had one.
LEMMA TriedType ==
    ASSUME Typed
    PROVE  Closest(tried, About(queue)) \in Marks
<1>1. \A i \in DOMAIN queue : queue[i] \in Messages
  BY DEF Typed
<1>2. \A x \in Messages : x.bucket \in Buckets \/ x.bucket = None
  BY DEF Messages
<1>3. About(queue) \in SUBSET Buckets
  BY <1>1, <1>2 DEF About
<1>4. tried \in Marks
  BY DEF Typed
<1> HIDE DEF About
<1> QED BY <1>3, <1>4, ClosestFacts

LEMMA DeliverEffect ==
    ASSUME Typed, Len(queue) <= 1, NEW M, Deliver(M)
    PROVE  /\ pass = None /\ queue # <<>> /\ queue' = <<>>
           /\ late' = FALSE /\ tried' \in Marks
           /\ UNCHANGED <<pass, left, days, snooze, held, fresh>>
           /\ ~Heard(queue, M) => UNCHANGED <<alerted, said, news>>
           /\ Heard(queue, M) /\ queue[1].kind = "renewed" => UNCHANGED <<alerted, said>> /\ news' = FALSE
           /\ Heard(queue, M) /\ queue[1].kind = "remind" =>
                /\ alerted' = [alerted EXCEPT ![queue[1].of] = queue[1].bucket] /\ news' = news
                /\ said' = IF late \/ (said # None /\ said <= queue[1].bucket) THEN said ELSE queue[1].bucket
<1>1. /\ pass = None /\ queue # <<>> /\ queue' = <<>> /\ alerted' = Marked(queue, M)
      /\ late' = FALSE /\ UNCHANGED <<pass, left, days, snooze, held, fresh>>
      /\ said' = IF Heard(queue, M) THEN Closest(said, {Text(queue, M).bucket} \ {None}) ELSE said
      /\ news' = (news /\ ~(Heard(queue, M) /\ Text(queue, M).kind = "renewed"))
  BY DEF Deliver, Resting
<1>2. /\ Heard(queue, M) => Text(queue, M) = queue[1]
      /\ alerted' = [m \in Monitors |->
             IF Heard(queue, M) /\ queue[1].of = m /\ queue[1].bucket # None
             THEN queue[1].bucket ELSE alerted[m]]
  BY <1>1, OneMessage
<1>3. /\ queue[1].of \in Monitors /\ queue[1].kind \in {"remind", "renewed"}
      /\ queue[1].kind = "remind" => queue[1].bucket # None /\ queue[1].bucket \in Buckets
      /\ queue[1].kind = "renewed" => queue[1].bucket = None
  BY <1>1, QueueFacts, Constants
<1>4. news \in BOOLEAN /\ alerted \in [Monitors -> Marks] /\ said \in Marks
  BY DEF Typed
<1>m. tried' \in Marks
  BY TriedType DEF Deliver
<1>5. CASE ~Heard(queue, M)
  BY <1>1, <1>m, <1>2, <1>4, <1>5
<1>6. CASE Heard(queue, M) /\ queue[1].kind = "renewed"
  <2>1. Text(queue, M).kind = "renewed" /\ queue[1].bucket = None
    BY <1>2, <1>3, <1>6
  <2>2. said' = Closest(said, {}) /\ news' = FALSE
    <3>1. {Text(queue, M).bucket} \ {None} = {}
      BY <1>2, <1>6, <2>1
    <3> QED BY <1>1, <1>6, <2>1, <3>1
  <2>4. said' = said
    BY <1>4, <2>2, ClosestFacts
  <2>3. alerted' = alerted
    BY <1>2, <1>4, <2>1
  <2> QED BY <1>1, <1>m, <1>6, <2>2, <2>3, <2>4
<1>7. CASE Heard(queue, M) /\ queue[1].kind = "remind"
  <2>1. Text(queue, M) = queue[1] /\ queue[1].bucket # None /\ queue[1].bucket \in Buckets
    BY <1>2, <1>3, <1>7
  <2>2. {Text(queue, M).bucket} \ {None} = {queue[1].bucket}
    BY <2>1
  <2>3. said' = Closest(said, {queue[1].bucket})
    BY <1>1, <1>7, <2>2
  <2>4. said' = IF late \/ (said # None /\ said <= queue[1].bucket) THEN said ELSE queue[1].bucket
    BY <1>4, <2>1, <2>3, ClosestFacts
  <2>5. alerted' = [alerted EXCEPT ![queue[1].of] = queue[1].bucket]
    BY <1>2, <1>3, <1>4, <1>7, <2>1
  <2>6. news' = news
    BY <1>1, <1>4, <1>7, <2>1
  <2> QED BY <1>1, <1>m, <1>7, <2>4, <2>5, <2>6
<1>8. ~Heard(queue, M) \/ (Heard(queue, M) /\ queue[1].kind = "renewed") \/ (Heard(queue, M) /\ queue[1].kind = "remind")
  BY <1>3
<1> QED BY <1>5, <1>6, <1>7, <1>8

LEMMA TypedStep ==
    ASSUME PlainModes
    PROVE  Typed /\ QueueInv /\ [Next]_vars => Typed' /\ QueueInv'
<1> SUFFICES ASSUME Typed, QueueInv, [Next]_vars PROVE Typed' /\ QueueInv'
  OBVIOUS
<1>c. left \in Int /\ MaxDays \in Int /\ EXPIRED = 0 - 1 /\ MaxDays >= 1
  BY Constants, LimitFacts DEF Typed
<1>q. Len(queue) <= 1 /\ PassOne /\ (queue' = <<>> => queue' \in Seq(Messages) /\ Len(queue') <= 1)
  <2>1. ASSUME queue' = <<>> PROVE queue' \in Seq(Messages) /\ Len(queue') <= 1
    <3>1. Len(queue') = 0
      BY <2>1
    <3>2. queue' \in Seq(Messages)
      BY <2>1
    <3> QED BY <3>1, <3>2
  <2>2. Len(queue) <= 1 /\ PassOne
    BY DEF QueueInv
  <2> QED BY <2>1, <2>2
<1>j. \A d \in left - Jitter .. left + Jitter : d \in Terms
  BY <1>c, Constants DEF Terms, Typed
<1>1. CASE Day
  <2>1. left' \in EXPIRED .. MaxDays
    BY <1>1, <1>c DEF Day, Typed
  <2>2. UNCHANGED <<pass, rows, held, queue, said, tried, news, late>> /\ fresh' = {} /\ pass = None
    BY <1>1 DEF Day, Resting
  <2> QED BY <1>q, <2>1, <2>2 DEF Typed, QueueInv, PassOne
<1>2. CASE Renew
  <2>1. left' \in EXPIRED .. MaxDays
    BY <1>2, <1>c DEF Renew
  <2>2. /\ UNCHANGED <<pass, rows, held, queue>> /\ fresh' = {} /\ pass = None
        /\ said' \in Marks /\ tried' \in Marks
    BY <1>2 DEF Renew, Resting, Marks
  <2>3. news' \in BOOLEAN /\ late' \in BOOLEAN
    BY <1>2 DEF Renew
  <2> QED BY <1>q, <2>1, <2>2, <2>3 DEF Typed, QueueInv, PassOne
<1>3. ASSUME NEW P \in SUBSET Due, Refresh(P) PROVE Typed' /\ QueueInv'
  <2>1. P \in (SUBSET Monitors) \ {{}}
    BY <1>3 DEF Refresh, Due
  <2> DEFINE D == [o \in Monitors |-> [alerted |-> alerted[o], days |-> days[o]]]
  <2>2. PICK d \in left - Jitter .. left + Jitter : pass' = [todo |-> P, days |-> d, doms |-> D]
    BY <1>3 DEF Refresh
  <2>3. D \in Doms
    BY DEF Typed, Doms
  <2>4. queue = <<>> /\ UNCHANGED <<left, rows, held, fresh, queue, said, tried, news, late>>
    BY <1>3 DEF Refresh
  <2> HIDE DEF D
  <2>5. pass' \in [todo : (SUBSET Monitors) \ {{}}, days : Terms, doms : Doms]
    BY <1>j, <2>1, <2>2, <2>3
  <2> QED BY <1>q, <2>4, <2>5 DEF Typed, QueueInv, PassOne
<1>4. ASSUME NEW m \in Monitors, Apply(m) PROVE Typed' /\ QueueInv'
  BY <1>4, ApplyKeeps
<1>5. ASSUME NEW M \in SUBSET Monitors, Deliver(M) PROVE Typed' /\ QueueInv'
  <2>1. /\ queue' = <<>> /\ pass = None /\ UNCHANGED <<pass, left, days, snooze, held, fresh>>
        /\ queue # <<>> /\ late' = FALSE /\ tried' \in Marks
        /\ ~Heard(queue, M) => UNCHANGED <<alerted, said, news>>
        /\ Heard(queue, M) /\ queue[1].kind = "renewed" => UNCHANGED <<alerted, said>> /\ news' = FALSE
        /\ Heard(queue, M) /\ queue[1].kind = "remind" =>
             /\ alerted' = [alerted EXCEPT ![queue[1].of] = queue[1].bucket] /\ news' = news
             /\ said' = IF late \/ (said # None /\ said <= queue[1].bucket) THEN said ELSE queue[1].bucket
    BY <1>5, <1>q, DeliverEffect
  <2>2. /\ queue[1].of \in Monitors /\ queue[1].kind \in {"remind", "renewed"}
        /\ queue[1].kind = "remind" => queue[1].bucket \in Buckets
    BY <1>q, <2>1, QueueFacts
  <2>3. alerted' \in [Monitors -> Marks] /\ said' \in Marks /\ news' \in BOOLEAN
    BY <2>1, <2>2 DEF Typed, Marks
  <2> QED BY <1>q, <2>1, <2>3 DEF Typed, QueueInv, PassOne
<1>6. CASE Refuse
  <2>1. tried' \in Marks
    BY <1>6, TriedType DEF Refuse
  <2>2. queue' = <<>> /\ late' = FALSE /\ pass = None /\ UNCHANGED <<pass, left, rows, held, fresh, said, news>>
    BY <1>6 DEF Refuse, Resting
  <2> QED BY <1>q, <2>1, <2>2 DEF Typed, QueueInv, PassOne
<1>7. ASSUME NEW m \in Monitors, run_check_now(m) PROVE Typed' /\ QueueInv'
  <2>1. PICK d \in left - Jitter .. left + Jitter :
            /\ days' = [days EXCEPT ![m] = d]
            /\ snooze' = [snooze EXCEPT ![m] = sync(snooze[m], d)]
    BY <1>7 DEF run_check_now
  <2>2. /\ pass = None /\ UNCHANGED <<pass, left, alerted, queue, said, tried, news, late>>
        /\ held' \in SUBSET Monitors /\ fresh' \in SUBSET Monitors
    BY <1>7 DEF run_check_now, Resting, Typed
  <2>3. snooze[m] \in Snoozes /\ d \in Terms
    BY <1>j DEF Typed
  <2>4. sync(snooze[m], d) \in Snoozes
    BY <2>3, SyncType
  <2> QED BY <1>q, <2>1, <2>2, <2>3, <2>4 DEF Typed, QueueInv, PassOne
<1>8. ASSUME NEW m \in Monitors, NEW mode \in Modes, expiry_snooze_check(m, mode) PROVE Typed' /\ QueueInv'
  <2>1. PICK V \in Views :
            snooze' = [o \in Monitors |-> IF o \in V THEN entry(mode, days[o]) ELSE snooze[o]]
    BY <1>8 DEF expiry_snooze_check
  <2>2. pass = None /\ UNCHANGED <<pass, left, days, alerted, held, fresh, queue, said, tried, news, late>>
    BY <1>8 DEF expiry_snooze_check, Resting
  <2>3. ASSUME NEW o \in Monitors PROVE entry(mode, days[o]) \in Snoozes /\ snooze[o] \in Snoozes
    <3>1. 0 \in Terms /\ days[o] \in Terms /\ snooze[o] \in Snoozes
      BY <1>c, Constants DEF Terms, Typed
    <3> QED BY <3>1 DEF entry, Snoozes
  <2>4. snooze' \in [Monitors -> Snoozes]
    BY <2>1, <2>3
  <2> QED BY <1>q, <2>2, <2>4 DEF Typed, QueueInv, PassOne
<1>9. CASE Watch
  BY <1>q, <1>9 DEF Watch, Resting, Typed, QueueInv, PassOne, Snoozes
<1>10. CASE Hours
  BY <1>q, <1>10 DEF Hours, Resting, Typed, QueueInv, PassOne
<1>11. CASE UNCHANGED vars
  BY <1>11 DEF Typed, QueueInv, PassOne
<1> QED
  BY <1>1, <1>2, <1>3, <1>4, <1>5, <1>6, <1>7, <1>8, <1>9, <1>10, <1>11
     DEF Next, Scheduler, Refreshes, Operator

(* However many monitors reach a threshold or notice a renewal in one pass *)
(* of run_due_checks, one of them speaks: for any monitors, thresholds,    *)
(* paused ones, views, refused and muted messages and disagreement of      *)
(* probes, where postponements are to a threshold.                         *)
THEOREM TypeCorrect == ASSUME PlainModes PROVE Spec => []TypeOK
<1>1. Init => Typed /\ QueueInv
  BY TypedInit
<1>2. Typed /\ QueueInv /\ [Next]_vars => (Typed /\ QueueInv)'
  BY TypedStep
<1>3. Typed /\ QueueInv => TypeOK
  BY TypedIsType DEF QueueInv
<1> QED BY <1>1, <1>2, <1>3, PTL DEF Spec

-----------------------------------------------------------------------------
(* One message per threshold and renewal, where two probes of one term     *)
(* agree.                                                                  *)

\* A pass goes by the days the domain has, and what it knows of a row is the row, or a
\* mark that is about to be made.
PassNow ==
    pass # None =>
        /\ ~late /\ pass.days = left /\ pass.todo \cap Paused = {}
        /\ left > Limit => \A m \in Monitors : pass.doms[m] = [alerted |-> alerted[m], days |-> days[m]]
        /\ left <= Limit => \A m \in Monitors : alerted[m] # None =>
                                pass.doms[m].alerted # None /\ pass.doms[m].alerted <= alerted[m]

\* Once a renewal has been told of, the monitor that told it keeps the others silent.
NewsKnown ==
    ~news /\ left > Limit =>
        \/ \A m \in Monitors \ Paused : alerted[m] = None
        \/ \E m \in Monitors : alerted[m] = None /\ days[m] > Limit

\* Someone carries the mark of the closest threshold that was told.
SaidMarked ==
    said # None => /\ left <= Limit
                   /\ \E m \in Monitors : alerted[m] # None /\ alerted[m] <= said

\* Only a message that waits can be overtaken by a renewal.
LateQueue == late => queue # <<>>

\* What waits for the channel is news, or the domain was renewed in the meantime.
QueueNews ==
    queue # <<>> =>
        /\ queue[1].kind = "renewed" =>
             news /\ left > Limit /\ alerted[queue[1].of] = None /\ days[queue[1].of] > Limit
        /\ queue[1].kind = "remind" =>
             \/ left <= Limit /\ (said = None \/ queue[1].bucket < said)
             \/ late /\ news /\ said = None

TermInv == PassNow /\ NewsKnown /\ SaidMarked /\ QueueNews /\ LateQueue

LEMMA TermInit == Init => TermInv
<1> SUFFICES ASSUME Init PROVE TermInv
  OBVIOUS
<1> QED BY DEF Init, TermInv, PassNow, NewsKnown, SaidMarked, QueueNews, LateQueue

\* A monitor that is beyond all thresholds speaks only of news.
LEMMA TermReset ==
    ASSUME PlainModes, Typed, QueueInv, TermInv, Typed', QueueInv', NEW m \in Monitors, Apply(m),
           left > Limit
    PROVE  TermInv'
<1>p. /\ pass # None /\ m \in pass.todo /\ UNCHANGED <<left, said, news, late>>
  BY DEF Apply, Resting
<1>n. /\ ~late /\ pass.days = left /\ pass.todo \cap Paused = {}
      /\ \A o \in Monitors : pass.doms[o] = [alerted |-> alerted[o], days |-> days[o]]
  BY <1>p DEF TermInv, PassNow
<1>t. left \in Int /\ Limit \in Int /\ left \in Terms /\ pass.doms \in Doms /\ alerted[m] \in Marks
  BY <1>n, <1>p, LimitFacts, Constants DEF Typed
<1> DEFINE D == [pass.doms EXCEPT ![m] = [alerted |-> None, days |-> left]]
<1>1. /\ days' = [days EXCEPT ![m] = left]
      /\ alerted' = [alerted EXCEPT ![m] = None]
      /\ pass' = After(m, D)
      /\ queue' = queue \/ /\ queue' = Append(queue, Renewal(m))
                           /\ alerted[m] # None /\ first_renewed(pass.doms, m, Limit)
  BY <1>n, ApplyReset
<1>2. /\ alerted'[m] = None /\ days'[m] = left
      /\ \A o \in Monitors : o # m => alerted'[o] = alerted[o] /\ days'[o] = days[o]
  BY <1>1 DEF Typed
<1>3. D \in Doms /\ \A o \in Monitors : D[o] = [alerted |-> alerted'[o], days |-> days'[o]]
  BY <1>n, <1>t, <1>2 DEF Doms, Marks
<1> HIDE DEF D
<1>4. pass' # None => pass'.todo = pass.todo \ {m} /\ pass'.days = pass.days /\ pass'.doms = D
  BY <1>1, <1>3, AfterFacts
<1>5. PassNow'
  BY <1>n, <1>p, <1>t, <1>3, <1>4 DEF PassNow
<1>6. NewsKnown'
  BY <1>2, <1>p DEF NewsKnown
<1>s. said = None
  BY <1>t DEF TermInv, SaidMarked
<1>7. SaidMarked'
  BY <1>s, <1>p DEF SaidMarked
<1>8. QueueNews'
  <2>1. CASE queue' = queue
    <3> SUFFICES ASSUME queue # <<>>
                 PROVE  /\ queue[1].kind = "renewed" =>
                             news /\ left > Limit /\ alerted'[queue[1].of] = None /\ days'[queue[1].of] > Limit
                        /\ queue[1].kind # "remind"
      BY <1>p, <2>1 DEF QueueNews
    <3>1. queue[1].of \in Monitors /\ queue[1].of # m
      BY <1>p, QueueFacts DEF QueueInv, PassOne
    <3>2. queue[1].kind # "remind"
      BY <1>n, <1>t DEF TermInv, QueueNews
    <3> QED BY <1>2, <3>1, <3>2 DEF TermInv, QueueNews
  <2>2. CASE queue' # queue
    <3>1. queue' = Append(queue, Renewal(m)) /\ alerted[m] # None /\ first_renewed(pass.doms, m, Limit)
      BY <1>1, <2>2
    <3>2. queue = <<>>
      BY <1>p, <3>1 DEF QueueInv, Typed
    <3>3. queue'[1] = Renewal(m)
      BY <3>1, <3>2, MessageTypes, AppendFacts
    <3>4. news
      <4> SUFFICES ASSUME ~news PROVE FALSE
        OBVIOUS
      <4>1. m \in Monitors \ Paused
        BY <1>n, <1>p
      <4>2. PICK k \in Monitors : alerted[k] = None /\ days[k] > Limit
        BY <3>1, <4>1 DEF TermInv, NewsKnown
      <4>3. k # m /\ pass.doms[k].alerted = None /\ pass.doms[k].days = days[k] /\ days[k] \in Int
        <5>1. days[k] \in Int
          BY Constants DEF Typed, Terms
        <5>2. pass.doms[k] = [alerted |-> alerted[k], days |-> days[k]]
          BY <1>n
        <5> QED BY <3>1, <4>2, <5>1, <5>2
      <4>4. ~(days[k] <= Limit)
        BY <1>t, <4>2, <4>3
      <4> QED BY <3>1, <4>3, <4>4 DEF first_renewed
    <3>5. Renewal(m).kind = "renewed" /\ Renewal(m).of = m
      BY DEF Renewal
    <3> QED BY <1>2, <1>p, <3>3, <3>4, <3>5 DEF QueueNews
  <2> QED BY <2>1, <2>2
<1>9. LateQueue'
  BY <1>n, <1>p DEF LateQueue
<1> QED BY <1>5, <1>6, <1>7, <1>8, <1>9 DEF TermInv

\* A monitor within a threshold speaks only of one that is closer than all that were told.
LEMMA TermRemind ==
    ASSUME PlainModes, Typed, QueueInv, TermInv, Typed', QueueInv', NEW m \in Monitors, Apply(m),
           left <= Limit
    PROVE  TermInv'
<1>p. /\ pass # None /\ m \in pass.todo /\ UNCHANGED <<left, said, news, late>>
  BY DEF Apply, Resting
<1>n. /\ ~late /\ pass.days = left /\ pass.todo \cap Paused = {}
      /\ \A o \in Monitors : alerted[o] # None => pass.doms[o].alerted # None /\ pass.doms[o].alerted <= alerted[o]
  BY <1>p DEF TermInv, PassNow
<1>t. /\ left \in Int /\ Limit \in Int /\ pass.doms \in Doms
      /\ \A o \in Monitors : /\ alerted[o] # None => alerted[o] \in Int
                             /\ pass.doms[o].alerted # None => pass.doms[o].alerted \in Int
      /\ said # None => said \in Int
  <2>1. left \in Int /\ Limit \in Int /\ pass.doms \in Doms /\ said \in Marks
    BY <1>p, LimitFacts, Constants DEF Typed
  <2>2. \A x \in Marks : x # None => x \in Int
    BY Constants DEF Marks
  <2>3. \A o \in Monitors : alerted[o] \in Marks /\ pass.doms[o].alerted \in Marks
    BY <2>1 DEF Typed, Doms
  <2> QED BY <2>1, <2>2, <2>3
<1> DEFINE b == Target(left)
<1> DEFINE marked == [pass.doms EXCEPT ![m] = [alerted |-> b, days |-> pass.doms[m].days]]
<1>b. b \in Buckets /\ b \in Int /\ b # None
  BY <1>t, TargetFacts, Constants
<1>1. \/ alerted' = alerted /\ queue' = queue /\ pass' = After(m, pass.doms)
      \/ /\ alerted[m] = None \/ b < alerted[m]
         /\ pass' = After(m, marked)
         /\ \/ /\ should_alert(pass.doms, m, b)
               /\ alerted' = alerted /\ queue' = Append(queue, Reminder(m, b))
            \/ /\ ~should_alert(pass.doms, m, b)
               /\ alerted' = [alerted EXCEPT ![m] = b] /\ queue' = queue
  BY <1>n, ApplyRemind
<1> HIDE DEF b
<1>2. /\ alerted'[m] = alerted[m] \/ (alerted'[m] = b /\ (alerted[m] = None \/ b < alerted[m]))
      /\ \A o \in Monitors : o # m => alerted'[o] = alerted[o]
  BY <1>1 DEF Typed
<1>3. marked \in Doms /\ marked[m].alerted = b /\ \A o \in Monitors : o # m => marked[o] = pass.doms[o]
  <2>1. [alerted |-> b, days |-> pass.doms[m].days] \in [alerted : Marks, days : Terms]
    BY <1>t, <1>b DEF Doms, Marks
  <2> QED BY <1>t, <2>1 DEF Doms
<1> HIDE DEF marked
<1>4. PICK D \in {pass.doms, marked} :
          /\ pass' = After(m, D)
          /\ \/ D = pass.doms /\ alerted' = alerted
             \/ D = marked /\ (alerted[m] = None \/ b < alerted[m])
  BY <1>1
<1>5. pass' # None => pass'.todo = pass.todo \ {m} /\ pass'.days = pass.days /\ pass'.doms = D
  BY <1>t, <1>3, <1>4, AfterFacts
<1>6. ASSUME NEW o \in Monitors, alerted'[o] # None
      PROVE  D[o].alerted # None /\ D[o].alerted <= alerted'[o]
  <2>1. CASE D = pass.doms /\ alerted' = alerted
    BY <1>n, <1>6, <2>1
  <2>2. CASE D = marked /\ (alerted[m] = None \/ b < alerted[m]) /\ o = m
    <3>1. D[m].alerted = b
      BY <1>3, <2>2
    <3>2. alerted'[m] = b \/ b < alerted'[m]
      BY <1>2, <1>6, <2>2
    <3>3. alerted'[m] \in Int
      BY <1>2, <1>6, <1>b, <1>t, <2>2
    <3> QED BY <1>b, <2>2, <3>1, <3>2, <3>3
  <2>3. CASE D = marked /\ o # m
    <3>1. D[o] = pass.doms[o] /\ alerted'[o] = alerted[o]
      BY <1>2, <1>3, <2>3
    <3> QED BY <1>n, <1>6, <3>1
  <2> QED BY <1>4, <2>1, <2>2, <2>3
<1>7. PassNow'
  <2> SUFFICES ASSUME pass' # None
               PROVE  /\ ~late /\ pass'.days = left /\ pass'.todo \cap Paused = {} /\ ~(left > Limit)
                      /\ \A o \in Monitors : alerted'[o] # None =>
                              pass'.doms[o].alerted # None /\ pass'.doms[o].alerted <= alerted'[o]
    BY <1>p DEF PassNow
  <2> QED BY <1>n, <1>t, <1>5, <1>6
<1>8. NewsKnown'
  BY <1>p, <1>t DEF NewsKnown
<1>9. SaidMarked'
  <2> SUFFICES ASSUME said # None
               PROVE  \E k \in Monitors : alerted'[k] # None /\ alerted'[k] <= said
    BY <1>p DEF SaidMarked
  <2>1. PICK k \in Monitors : alerted[k] # None /\ alerted[k] <= said
    BY DEF TermInv, SaidMarked
  <2>2. alerted'[k] = alerted[k] \/ (alerted'[k] = b /\ b < alerted[k])
    BY <1>2, <2>1
  <2>3. alerted'[k] # None /\ alerted'[k] <= said
    BY <1>b, <1>t, <2>1, <2>2
  <2> QED BY <2>3
<1>10. QueueNews'
  <2>1. CASE queue' = queue
    <3> SUFFICES ASSUME queue # <<>>
                 PROVE  queue[1].kind # "renewed" /\ (queue[1].kind = "remind" => said = None \/ queue[1].bucket < said)
      BY <1>p, <2>1 DEF QueueNews
    <3> QED BY <1>n, <1>t DEF TermInv, QueueNews
  <2>2. CASE queue' # queue
    <3>1. /\ queue' = Append(queue, Reminder(m, b)) /\ should_alert(pass.doms, m, b)
          /\ alerted[m] = None \/ b < alerted[m]
      BY <1>1, <2>2
    <3>2. queue = <<>>
      BY <1>p, <3>1 DEF QueueInv, Typed
    <3>3. Reminder(m, b) \in Messages
      BY <1>b, MessageTypes
    <3>4. queue'[1] = Reminder(m, b)
      BY <3>1, <3>2, <3>3, AppendFacts
    <3>5. said = None \/ b < said
      <4> SUFFICES ASSUME said # None PROVE b < said
        OBVIOUS
      <4>1. PICK k \in Monitors : alerted[k] # None /\ alerted[k] <= said
        BY DEF TermInv, SaidMarked
      <4>2. CASE k = m
        BY <1>b, <1>t, <3>1, <4>1, <4>2
      <4>3. CASE k # m
        <5>1. pass.doms[k].alerted # None /\ pass.doms[k].alerted <= alerted[k]
          BY <1>n, <4>1
        <5>2. pass.doms[k].alerted > b
          BY <3>1, <4>3, <5>1 DEF should_alert
        <5> QED BY <1>b, <1>t, <4>1, <5>1, <5>2
      <4> QED BY <4>2, <4>3
    <3>6. Reminder(m, b).kind = "remind" /\ Reminder(m, b).bucket = b
      BY DEF Reminder
    <3> QED BY <1>p, <3>4, <3>5, <3>6 DEF QueueNews
  <2> QED BY <2>1, <2>2
<1>11. LateQueue'
  BY <1>n, <1>p DEF LateQueue
<1> QED BY <1>7, <1>8, <1>9, <1>10, <1>11 DEF TermInv

LEMMA TermStep ==
    ASSUME PlainModes, Jitter = 0
    PROVE  Typed /\ QueueInv /\ TermInv /\ [Next]_vars => TermInv'
<1> SUFFICES ASSUME Typed, QueueInv, TermInv, [Next]_vars PROVE TermInv'
  OBVIOUS
<1>y. Typed' /\ QueueInv'
  BY TypedStep
<1>c. left \in Int /\ left' \in Int /\ MaxDays \in Int /\ Limit \in Int /\ Limit < MaxDays /\ Limit >= 1
  BY <1>y, Constants, LimitFacts DEF Typed
<1>q. Len(queue) <= 1
  BY DEF QueueInv
<1>k. PassNow /\ NewsKnown /\ SaidMarked /\ QueueNews /\ LateQueue
  BY DEF TermInv
<1>j. \A d \in left - Jitter .. left + Jitter : d = left
  BY <1>c
<1>1. CASE Day
  <2>1. /\ UNCHANGED <<pass, days, alerted, queue, said, news, late>> /\ pass = None /\ queue = <<>>
        /\ left' = IF left = EXPIRED THEN left ELSE left - 1
    BY <1>1 DEF Day, Resting
  <2>2. left' <= left
    BY <1>c, <2>1
  <2>3. NewsKnown'
    BY <1>c, <1>k, <2>1, <2>2 DEF NewsKnown
  <2>4. SaidMarked'
    BY <1>c, <1>k, <2>1, <2>2 DEF SaidMarked
  <2> QED BY <1>k, <2>1, <2>3, <2>4 DEF TermInv, PassNow, QueueNews, LateQueue
<1>2. CASE Renew
  <2>1. /\ UNCHANGED <<pass, days, alerted, queue>> /\ pass = None /\ left' = MaxDays
        /\ said' = None /\ news' = TRUE /\ late' = (queue # <<>>)
    BY <1>2 DEF Renew, Resting
  <2>2. PassNow' /\ NewsKnown' /\ SaidMarked'
    BY <2>1 DEF PassNow, NewsKnown, SaidMarked
  <2>3. QueueNews'
    BY <1>c, <1>k, <2>1 DEF QueueNews
  <2> QED BY <2>1, <2>2, <2>3 DEF TermInv, LateQueue
<1>3. ASSUME NEW P \in SUBSET Due, Refresh(P) PROVE TermInv'
  <2> DEFINE D == [o \in Monitors |-> [alerted |-> alerted[o], days |-> days[o]]]
  <2>2. PICK d \in left - Jitter .. left + Jitter : pass' = [todo |-> P, days |-> d, doms |-> D]
    BY <1>3 DEF Refresh
  <2>3. \A o \in Monitors : D[o] = [alerted |-> alerted[o], days |-> days[o]]
    OBVIOUS
  <2>4. queue = <<>> /\ ~late /\ UNCHANGED <<left, days, alerted, queue, said, news, late>>
    BY <1>3, <1>k DEF Refresh, LateQueue
  <2> HIDE DEF D
  <2>5. pass'.todo = P /\ pass'.days = left /\ pass'.doms = D
    BY <1>j, <2>2
  <2>6. \A o \in Monitors : alerted[o] # None => alerted[o] <= alerted[o]
    <3> SUFFICES ASSUME NEW o \in Monitors, alerted[o] # None PROVE alerted[o] <= alerted[o]
      OBVIOUS
    <3>1. alerted[o] \in Int
      BY Constants DEF Typed, Marks
    <3> QED BY <3>1
  <2>7. PassNow'
    <3> SUFFICES /\ ~late' /\ pass'.days = left' /\ pass'.todo \cap Paused = {}
                 /\ \A o \in Monitors : pass'.doms[o] = [alerted |-> alerted'[o], days |-> days'[o]]
                 /\ \A o \in Monitors : alerted'[o] # None =>
                         pass'.doms[o].alerted # None /\ pass'.doms[o].alerted <= alerted'[o]
      BY DEF PassNow
    <3>1. P \cap Paused = {}
      BY DEF Due
    <3>2. ASSUME NEW o \in Monitors PROVE D[o].alerted = alerted[o]
      <4>1. D[o] = [alerted |-> alerted[o], days |-> days[o]]
        BY <2>3
      <4> QED BY <4>1
    <3> QED BY <2>3, <2>4, <2>5, <2>6, <3>1, <3>2
  <2> QED BY <1>k, <2>4, <2>7 DEF TermInv, NewsKnown, SaidMarked, QueueNews, LateQueue
<1>4. ASSUME NEW m \in Monitors, Apply(m) PROVE TermInv'
  BY <1>4, <1>c, <1>y, TermReset, TermRemind
<1>5. ASSUME NEW M \in SUBSET Monitors, Deliver(M) PROVE TermInv'
  <2>1. /\ queue' = <<>> /\ pass = None /\ UNCHANGED <<pass, left, days, snooze, held, fresh>>
        /\ queue # <<>> /\ late' = FALSE /\ tried' \in Marks
        /\ ~Heard(queue, M) => UNCHANGED <<alerted, said, news>>
        /\ Heard(queue, M) /\ queue[1].kind = "renewed" => UNCHANGED <<alerted, said>> /\ news' = FALSE
        /\ Heard(queue, M) /\ queue[1].kind = "remind" =>
             /\ alerted' = [alerted EXCEPT ![queue[1].of] = queue[1].bucket] /\ news' = news
             /\ said' = IF late \/ (said # None /\ said <= queue[1].bucket) THEN said ELSE queue[1].bucket
    BY <1>5, <1>q, DeliverEffect
  <2>2. /\ queue[1].of \in Monitors /\ queue[1].kind \in {"remind", "renewed"}
        /\ queue[1].kind = "remind" => queue[1].bucket \in Int /\ queue[1].bucket # None
    BY <1>q, <2>1, QueueFacts, Constants
  <2>3. PassNow' /\ QueueNews' /\ LateQueue'
    BY <2>1 DEF PassNow, QueueNews, LateQueue
  <2>4. CASE ~Heard(queue, M)
    BY <1>k, <2>1, <2>3, <2>4 DEF TermInv, NewsKnown, SaidMarked
  <2>5. CASE Heard(queue, M) /\ queue[1].kind = "renewed"
    <3>1. alerted[queue[1].of] = None /\ days[queue[1].of] > Limit
      BY <1>k, <2>1, <2>5 DEF QueueNews
    <3>2. NewsKnown'
      BY <2>1, <2>2, <2>5, <3>1 DEF NewsKnown
    <3>3. SaidMarked'
      BY <1>k, <2>1, <2>5 DEF SaidMarked
    <3> QED BY <2>3, <3>2, <3>3 DEF TermInv
  <2>6. CASE Heard(queue, M) /\ queue[1].kind = "remind"
    <3>0. /\ alerted' = [alerted EXCEPT ![queue[1].of] = queue[1].bucket] /\ news' = news
          /\ said' = IF late \/ (said # None /\ said <= queue[1].bucket) THEN said ELSE queue[1].bucket
          /\ alerted'[queue[1].of] = queue[1].bucket
      BY <2>1, <2>2, <2>6 DEF Typed
    <3>1. \/ left <= Limit /\ (said = None \/ queue[1].bucket < said)
          \/ late /\ news /\ said = None
      BY <1>k, <2>1, <2>6 DEF QueueNews
    <3>2. NewsKnown'
      BY <1>c, <2>1, <3>0, <3>1 DEF NewsKnown
    <3>i. said # None => said \in Int
      BY Constants DEF Typed, Marks
    <3>3. said' # None => left <= Limit /\ queue[1].bucket <= said'
      BY <2>2, <2>6, <3>0, <3>1, <3>i
    <3>4. SaidMarked'
      BY <2>1, <2>2, <2>6, <3>0, <3>3 DEF SaidMarked
    <3> QED BY <2>3, <3>2, <3>4 DEF TermInv
  <2> QED BY <2>2, <2>4, <2>5, <2>6
<1>6. CASE Refuse
  <2>1. queue' = <<>> /\ late' = FALSE /\ pass = None /\ UNCHANGED <<pass, left, days, alerted, said, news>>
    BY <1>6 DEF Refuse, Resting
  <2> QED BY <1>k, <2>1 DEF TermInv, PassNow, NewsKnown, SaidMarked, QueueNews, LateQueue
<1>7. ASSUME NEW m \in Monitors, run_check_now(m) PROVE TermInv'
  <2>1. PICK d \in left - Jitter .. left + Jitter : days' = [days EXCEPT ![m] = d]
    BY <1>7 DEF run_check_now
  <2>2. pass = None /\ UNCHANGED <<pass, left, alerted, queue, said, news, late>>
    BY <1>7 DEF run_check_now, Resting
  <2>3. \A o \in Monitors : days'[o] = days[o] \/ days'[o] = left
    BY <1>j, <2>1 DEF Typed
  <2>4. NewsKnown'
    BY <1>k, <2>2, <2>3 DEF NewsKnown
  <2>5. QueueNews'
    BY <1>k, <1>q, <2>2, <2>3, QueueFacts DEF QueueNews
  <2> QED BY <1>k, <2>2, <2>4, <2>5 DEF TermInv, PassNow, SaidMarked, LateQueue
<1>8. CASE Watch \/ Hours \/ \E m \in Monitors, mode \in Modes : expiry_snooze_check(m, mode)
  <2>1. UNCHANGED <<pass, left, days, alerted, queue, said, news, late>>
    BY <1>8 DEF Watch, Hours, expiry_snooze_check
  <2> QED BY <1>k, <2>1 DEF TermInv, PassNow, NewsKnown, SaidMarked, QueueNews, LateQueue
<1>9. CASE UNCHANGED vars
  BY <1>k, <1>9 DEF TermInv, PassNow, NewsKnown, SaidMarked, QueueNews, LateQueue
<1> QED
  BY <1>1, <1>2, <1>3, <1>4, <1>5, <1>6, <1>7, <1>8, <1>9 DEF Next, Scheduler, Refreshes, Operator

(* A reader is reminded of each threshold at most once per term, every     *)
(* time of a closer one, and told of a renewal once and never without one: *)
(* for any monitors, thresholds, paused ones, views, refused and muted     *)
(* messages, where postponements are to a threshold and two probes of one  *)
(* term agree.                                                             *)
THEOREM ReaderIsToldOnce == ASSUME PlainModes, Jitter = 0 PROVE Spec => NewsOnce
<1>1. Init => Typed /\ QueueInv /\ TermInv
  BY TypedInit, TermInit
<1>2. Typed /\ QueueInv /\ TermInv /\ [Next]_vars => (Typed /\ QueueInv /\ TermInv)'
  BY TypedStep, TermStep
<1>3. ASSUME Typed, QueueInv, TermInv, NEW M \in SUBSET Monitors, Deliver(M), Heard(queue, M)
      PROVE  IsNews(Text(queue, M))
  <2>1. queue # <<>> /\ Len(queue) <= 1
    BY <1>3 DEF Deliver, QueueInv
  <2>2. Text(queue, M) = queue[1] /\ queue[1].kind \in {"remind", "renewed"}
    BY <1>3, <2>1, OneMessage, QueueFacts
  <2>3. /\ queue[1].kind = "renewed" => news
        /\ queue[1].kind = "remind" => late \/ said = None \/ queue[1].bucket < said
    BY <1>3, <2>1 DEF TermInv, QueueNews
  <2>4. CASE queue[1].kind = "remind"
    BY <2>2, <2>3, <2>4 DEF IsNews
  <2>5. CASE queue[1].kind = "renewed"
    BY <2>2, <2>3, <2>5 DEF IsNews
  <2> QED BY <2>2, <2>4, <2>5
<1>4. Typed /\ QueueInv /\ TermInv =>
        \A M \in SUBSET Monitors : Deliver(M) /\ Heard(queue, M) => IsNews(Text(queue, M))
  BY <1>3
<1> QED BY <1>1, <1>2, <1>4, PTL DEF Spec, NewsOnce
=============================================================================
