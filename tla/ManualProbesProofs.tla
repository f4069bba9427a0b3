------------------------- MODULE ManualProbesProofs -------------------------
(***************************************************************************)
(* Theorems about ManualProbes, for any monitor, presses, delays and kind   *)
(* of agent.                                                                *)
(*                                                                         *)
(* SinceInv is the inductive strengthening of VerdictIsFresh: whatever is   *)
(* remembered, under way, read by a transaction or stored for a request was *)
(* obtained after the press that asked, so that it does not matter in which *)
(* order reports, posts and commits come.  JudgedInv is that of            *)
(* ReportsAreJudged: reports are one transaction after the other, so the    *)
(* judgement of the one under way still fits what is stored.  PaceInv and   *)
(* MemoryInv are those of NeverBack: the first says how old a planned       *)
(* result can get, the second what protects a newer one from it.            *)
(***************************************************************************)
EXTENDS ManualProbes, FiniteSetTheorems, TLAPS

\* A moment that is no earlier than the press of a request.
Since(m, t) == born[m[1]] # Never /\ t >= born[m[1]]

BornPast == \A p \in Presses : born[p] <= now
StoredSince == \A m \in Manual : ans[m] # Never => Since(m, ans[m])
RememberedSince == \A m \in Manual : last[m] # Never => Since(m, last[m])
AskedBorn == \A m \in Manual : m \in known \cup todo => born[m[1]] # Never
FlyingSince == \A r \in gos \cup posts : Since(r.req, r.obs)
ReadSince == \A x \in txns : \A r \in x.man : Since(r.req, r.obs)

SinceInv == BornPast /\ StoredSince /\ RememberedSince /\ AskedBorn /\ FlyingSince /\ ReadSince

\* A transaction judges a press when its answers and the stored ones make it complete.
DoneComplete == \A x \in txns : \A p \in x.done : \A q \in Parts :
                    ans[<<p, q>>] # Never \/ \E r \in x.man : r.req = <<p, q>>
VerdictComplete == \A p \in Presses : verdicts[p] > 0 => \A q \in Parts : ans[<<p, q>>] # Never

CompleteInv == DoneComplete /\ VerdictComplete

\* An agent without the fast route answers in its reports, and the server's row makes
\* them one transaction after the other: the one that has read judges by what is still
\* stored when it commits.
OneReport == gos = {} /\ posts = {} /\ \A x, y \in txns : x.by = "report" /\ x = y
JudgedByStored == local => \A x \in txns : x.done = Judged(x.man)
AnsweredHasVerdict ==
    local => \A p \in Presses : (\A q \in Parts : ans[<<p, q>>] # Never) => verdicts[p] = 1

JudgedInv == ~fast => OneReport /\ JudgedByStored /\ AnsweredHasVerdict

USE DEF vars, panel, agent, Never, Times, Maybe

-----------------------------------------------------------------------------
(* What the operators of the model return.                                 *)

LEMMA ManualRowType ==
    ASSUME TypeOK, NEW rs \in SUBSET Answers, NEW q \in Parts, NEW late,
           \E r \in rs : r.req[2] = q
    PROVE  ManualRow(rs, q, late) \in Rows
<1> DEFINE mine == {r \in rs : r.req[2] = q}
<1> DEFINE Good(r) == r.req[1] = late \/ \A s \in mine : s.req[1] # late
<1>1. \E r \in mine : Good(r)
  OBVIOUS
<1>2. (CHOOSE r \in mine : Good(r)) \in mine
  BY <1>1
<1>3. (CHOOSE r \in mine : Good(r)).obs \in Times
  BY <1>2 DEF Answers
<1>4. now + Authority \in Nat
  BY ProbeConstants DEF TypeOK, Authority
<1> QED BY <1>3, <1>4 DEF ManualRow, Rows

LEMMA HandledType ==
    ASSUME TypeOK, NEW by \in {"post", "report"}, NEW rs \in SUBSET Answers,
           NEW planned \in [Parts -> Maybe], NEW late
    PROVE  /\ Handled(by, rs, planned, late) \in Txns
           /\ Handled(by, rs, planned, late).by = by
           /\ Handled(by, rs, planned, late).man = Counted(rs)
           /\ local => Handled(by, rs, planned, late).done = Judged(Counted(rs))
           /\ \A p \in Handled(by, rs, planned, late).done : Complete(p, Counted(rs))
<1> DEFINE man == Counted(rs)
<1> DEFINE fresh == IF local THEN man ELSE {}
<1> DEFINE theRows == [q \in Parts |->
            IF \E r \in fresh : r.req[2] = q THEN ManualRow(fresh, q, late)
            ELSE IF local /\ ~Protected(q) THEN [obs |-> planned[q], until |-> Never]
            ELSE [obs |-> Never, until |-> Never]]
<1>1. man \in SUBSET Answers /\ fresh \in SUBSET Answers /\ fresh \subseteq man
  BY DEF Counted
<1>2. theRows \in [Parts -> Rows]
  <2> SUFFICES ASSUME NEW q \in Parts PROVE theRows[q] \in Rows
    OBVIOUS
  <2>1. CASE \E r \in fresh : r.req[2] = q
    BY <1>1, <2>1, ManualRowType
  <2>2. CASE ~\E r \in fresh : r.req[2] = q
    <3>1. planned[q] \in Maybe
      OBVIOUS
    <3> QED BY <2>2, <3>1, ProbeConstants DEF Rows
  <2> QED BY <2>1, <2>2
<1>3. Judged(fresh) \in SUBSET Presses
  BY DEF Judged
<1>4. Handled(by, rs, planned, late) = [by |-> by, man |-> man, done |-> Judged(fresh), rows |-> theRows]
  BY DEF Handled
<1>5. \A p \in Judged(fresh) : Complete(p, man)
  BY <1>1 DEF Judged, Complete
<1>d. local => fresh = man
  OBVIOUS
<1> HIDE DEF man, fresh, theRows
<1>6. Handled(by, rs, planned, late) \in Txns
  BY <1>1, <1>2, <1>3, <1>4 DEF Txns
<1> QED BY <1>4, <1>5, <1>6, <1>d DEF man

LEMMA CommitEffect ==
    ASSUME TypeOK, NEW x \in txns, Commit(x)
    PROVE  /\ txns' \subseteq txns
           /\ ans' \in [Manual -> Maybe] /\ row' \in [Parts -> Rows] /\ verdicts' \in [Presses -> Nat]
           /\ \A m \in Manual : ans'[m] = ans[m] \/ \E r \in x.man : r.req = m /\ ans'[m] = r.obs
           /\ \A m \in Manual : (\E r \in x.man : r.req = m) => ans'[m] # Never
           /\ \A p \in Presses : verdicts'[p] > 0 => verdicts[p] > 0 \/ p \in x.done
<1> USE DEF Commit
<1>0. /\ x.man \in SUBSET Answers /\ x.rows \in [Parts -> Rows]
  BY DEF TypeOK, Txns
<1>1. ASSUME NEW m \in Manual
      PROVE  /\ ans'[m] \in Maybe
             /\ ans'[m] = ans[m] \/ \E r \in x.man : r.req = m /\ ans'[m] = r.obs
             /\ (\E r \in x.man : r.req = m) => ans'[m] # Never
  <2>1. CASE \E r \in x.man : r.req = m
    <3> DEFINE c == CHOOSE r \in x.man : r.req = m
    <3>1. c \in x.man /\ c.req = m
      BY <2>1
    <3>2. ans'[m] = c.obs
      BY <2>1
    <3>3. c.obs \in Times
      BY <1>0, <3>1 DEF Answers
    <3> HIDE DEF c
    <3> QED BY <3>1, <3>2, <3>3, ProbeConstants
  <2>2. CASE ~\E r \in x.man : r.req = m
    BY <2>2 DEF TypeOK
  <2> QED BY <2>1, <2>2
<1>2. ASSUME NEW q \in Parts PROVE row'[q] \in Rows
  <2>1. x.rows[q] \in Rows /\ row[q] \in Rows
    BY <1>0 DEF TypeOK
  <2>2. /\ Written(x.rows[q].obs, row[q].obs) \in Maybe
        /\ Written(x.rows[q].until, row[q].until) \in Nat \cup {Never}
    BY <2>1 DEF Rows, Written
  <2> QED BY <2>2 DEF Rows
<1>3. ASSUME NEW p \in Presses
      PROVE  verdicts'[p] \in Nat /\ (verdicts'[p] > 0 => verdicts[p] > 0 \/ p \in x.done)
  BY DEF TypeOK
<1>4. ans' \in [Manual -> Maybe]
  BY <1>1
<1>5. row' \in [Parts -> Rows]
  BY <1>2
<1>6. verdicts' \in [Presses -> Nat]
  BY <1>3
<1>7. txns' \subseteq txns
  OBVIOUS
<1> QED BY <1>1, <1>3, <1>4, <1>5, <1>6, <1>7

LEMMA ReportAnswers ==
    ASSUME TypeOK
    PROVE  /\ {[req |-> m, obs |-> last[m]] : m \in Remembered \cap Manual} \in SUBSET Answers
           /\ [q \in Parts |-> IF q \in Remembered THEN last[q] ELSE Never] \in [Parts -> Maybe]
<1>1. \A m \in Remembered \cap Manual : last[m] \in Times
  BY DEF TypeOK, Remembered, Tasks
<1>2. \A m \in Remembered \cap Manual : [req |-> m, obs |-> last[m]] \in Answers
  BY <1>1 DEF Answers
<1>3. \A q \in Parts : last[q] \in Maybe
  BY DEF TypeOK, Tasks, Planned
<1> QED BY <1>2, <1>3, ProbeConstants

-----------------------------------------------------------------------------
LEMMA TypeInit == Init => TypeOK
<1> SUFFICES ASSUME Init PROVE TypeOK
  OBVIOUS
<1>1. now \in Times /\ fast \in BOOLEAN /\ local \in BOOLEAN /\ reported \in Times
  BY ProbeConstants DEF Init
<1>2. row \in [Parts -> Rows]
  BY ProbeConstants DEF Init, Rows
<1>3. known \subseteq Tasks /\ last \in [Tasks -> Maybe]
  BY ProbeConstants DEF Init, Tasks
<1> QED BY <1>1, <1>2, <1>3 DEF Init, TypeOK

LEMMA TypeStep == TypeOK /\ [Next]_vars => TypeOK'
<1> SUFFICES ASSUME TypeOK, [Next]_vars PROVE TypeOK'
  OBVIOUS
<1>t. now \in Times /\ Open \subseteq Manual /\ Manual \subseteq Tasks /\ Planned \subseteq Tasks
  BY DEF TypeOK, Open, Tasks
<1>1. ASSUME NEW p \in Presses, Press(p) PROVE TypeOK'
  BY <1>1 DEF Press, TypeOK
<1>2. CASE Move
  BY <1>2 DEF Move, TypeOK
<1>3. ASSUME NEW heard \in BOOLEAN, FastPoll(heard) PROVE TypeOK'
  <2>1. [req : {m \in Open : taken[m] = Never}, obs : {now}] \subseteq Answers
    BY <1>t DEF Answers
  <2>2. gos' \subseteq Answers
    BY <1>3, <2>1 DEF FastPoll, TypeOK
  <2>3. taken' \in [Manual -> Maybe]
    BY <1>3, <1>t DEF FastPoll, TypeOK
  <2> QED BY <1>3, <2>2, <2>3 DEF FastPoll, TypeOK
<1>4. ASSUME NEW g \in gos, FastDone(g) PROVE TypeOK'
  <2>1. [g EXCEPT !.obs = now] \in Answers
    BY <1>t DEF TypeOK, Answers
  <2> DEFINE sent == [g EXCEPT !.obs = now]
  <2>2. posts' = posts \cup {sent} /\ gos' \subseteq gos
    BY <1>4 DEF FastDone
  <2>3. UNCHANGED <<now, panel, txns, reported, agent>>
    BY <1>4 DEF FastDone
  <2>4. sent \in Answers
    BY <2>1
  <2> HIDE DEF sent
  <2> QED BY <2>2, <2>3, <2>4 DEF TypeOK
<1>5. ASSUME NEW r \in posts, PostLost(r) PROVE TypeOK'
  BY <1>5 DEF PostLost, TypeOK
<1>6. ASSUME NEW r \in posts, PostIn(r) PROVE TypeOK'
  <2>1. Nothing \in [Parts -> Maybe] /\ {r} \in SUBSET Answers
    BY ProbeConstants DEF Nothing, TypeOK
  <2>2. Handled("post", {r}, Nothing, r.req[1]) \in Txns
    BY <2>1, HandledType
  <2> QED BY <1>6, <2>2 DEF PostIn, TypeOK
<1>7. ASSUME NEW p \in Presses, Report(p) PROVE TypeOK'
  <2> DEFINE rs == {[req |-> m, obs |-> last[m]] : m \in Remembered \cap Manual}
  <2> DEFINE planned == [q \in Parts |-> IF q \in Remembered THEN last[q] ELSE Never]
  <2>0. txns' = txns \cup {Handled("report", rs, planned, p)}
    BY <1>7 DEF Report
  <2>a. rs \in SUBSET Answers /\ planned \in [Parts -> Maybe]
    BY ReportAnswers
  <2> HIDE DEF rs, planned
  <2>1. txns' \subseteq Txns
    BY <2>0, <2>a, HandledType DEF TypeOK
  <2>2. last' \in [Tasks -> Maybe]
    BY <1>7 DEF Report, TypeOK
  <2> QED BY <1>7, <2>1, <2>2 DEF Report, TypeOK
<1>8. ASSUME NEW x \in txns, ReportDone(x) PROVE TypeOK'
  <2>1. Commit(x)
    BY <1>8 DEF ReportDone
  <2>2. /\ txns' \subseteq txns /\ ans' \in [Manual -> Maybe]
        /\ row' \in [Parts -> Rows] /\ verdicts' \in [Presses -> Nat]
    BY <2>1, CommitEffect
  <2>3. known' \subseteq Tasks
    BY <1>8, <1>t DEF ReportDone, Asked, Scheduled, Planned
  <2>4. todo' \subseteq Tasks /\ since' \in Maybe
    BY <1>8, <1>t, <2>3 DEF ReportDone, TypeOK
  <2> QED BY <1>8, <2>2, <2>3, <2>4 DEF ReportDone, TypeOK
<1>9. ASSUME NEW x \in txns, PostDone(x) PROVE TypeOK'
  <2>1. Commit(x)
    BY <1>9 DEF PostDone
  <2>2. /\ txns' \subseteq txns /\ ans' \in [Manual -> Maybe]
        /\ row' \in [Parts -> Rows] /\ verdicts' \in [Presses -> Nat]
    BY <2>1, CommitEffect
  <2> QED BY <1>9, <2>2 DEF PostDone, TypeOK
<1>10. ASSUME NEW t \in todo, ProbeDone(t) PROVE TypeOK'
  BY <1>10 DEF ProbeDone, TypeOK
<1>11. CASE Tick
  <2>1. now' \in Times
    BY <1>11, ProbeConstants DEF Tick, TypeOK
  <2> QED BY <1>11, <2>1 DEF Tick, TypeOK
<1>12. CASE UNCHANGED vars
  BY <1>12 DEF TypeOK
<1> QED
  BY <1>1, <1>2, <1>3, <1>4, <1>5, <1>6, <1>7, <1>8, <1>9, <1>10, <1>11, <1>12 DEF Next

(* Every reachable state has its type, whatever is lost, late or repeated. *)
THEOREM TypeCorrect == Spec => []TypeOK
BY TypeInit, TypeStep, PTL DEF Spec

-----------------------------------------------------------------------------
LEMMA SinceInit == Init => SinceInv /\ CompleteInv
<1> SUFFICES ASSUME Init PROVE SinceInv /\ CompleteInv
  OBVIOUS
<1>1. \A m \in Manual : m \notin Planned /\ last[m] = Never
  BY ProbeConstants DEF Init, Tasks
<1> QED
  BY <1>1 DEF Init, SinceInv, BornPast, StoredSince, RememberedSince, AskedBorn, FlyingSince,
              ReadSince, CompleteInv, DoneComplete, VerdictComplete

\* A step that leaves the presses alone and adds nothing to what is known of a request.
QuietStep ==
    /\ born' = born /\ now' >= now
    /\ \A m \in Manual : ans'[m] = ans[m] /\ last'[m] \in {last[m], Never}
    /\ known' \subseteq known /\ todo' \subseteq todo
    /\ gos' \subseteq gos /\ posts' \subseteq posts /\ txns' \subseteq txns
    /\ verdicts' = verdicts

LEMMA QuietKeeps == TypeOK /\ now' \in Nat /\ SinceInv /\ CompleteInv /\ QuietStep => SinceInv' /\ CompleteInv'
<1> SUFFICES ASSUME TypeOK, now' \in Nat, SinceInv, CompleteInv, QuietStep
             PROVE  SinceInv' /\ CompleteInv'
  OBVIOUS
<1> USE DEF QuietStep, SinceInv, CompleteInv
<1>1. BornPast'
  BY DEF BornPast, TypeOK
<1>2. StoredSince' /\ RememberedSince'
  BY DEF StoredSince, RememberedSince, Since
<1>3. AskedBorn' /\ FlyingSince' /\ ReadSince'
  BY DEF AskedBorn, FlyingSince, ReadSince, Since
<1>4. DoneComplete'
  <2> SUFFICES ASSUME NEW x \in txns', NEW p \in x.done, NEW q \in Parts
               PROVE  ans'[<<p, q>>] # Never \/ \E r \in x.man : r.req = <<p, q>>
    BY DEF DoneComplete
  <2>1. x \in txns /\ <<p, q>> \in Manual
    BY DEF TypeOK, Txns, Manual
  <2> QED BY <2>1 DEF DoneComplete
<1>5. VerdictComplete'
  BY DEF VerdictComplete, Manual
<1> QED BY <1>1, <1>2, <1>3, <1>4, <1>5

\* A transaction that has just read judges by what is stored.
LEMMA ReadKeeps ==
    ASSUME TypeOK, SinceInv, CompleteInv, NEW by \in {"post", "report"}, NEW rs \in SUBSET Answers,
           NEW planned \in [Parts -> Maybe], NEW late,
           txns' = txns \cup {Handled(by, rs, planned, late)},
           \A r \in rs : Since(r.req, r.obs), UNCHANGED <<born, ans>>
    PROVE  ReadSince' /\ DoneComplete'
<1> DEFINE new == Handled(by, rs, planned, late)
<1>1. new.man = Counted(rs) /\ \A p \in new.done : Complete(p, Counted(rs))
  BY HandledType
<1>2. txns' = txns \cup {new}
  OBVIOUS
<1> HIDE DEF new
<1>3. \A r \in new.man : Since(r.req, r.obs)
  BY <1>1 DEF Counted
<1>4. ReadSince'
  BY <1>2, <1>3 DEF SinceInv, ReadSince, Since
<1>5. \A p \in new.done : \A q \in Parts : ans[<<p, q>>] # Never \/ \E r \in new.man : r.req = <<p, q>>
  BY <1>1 DEF Complete
<1>6. DoneComplete'
  BY <1>2, <1>5 DEF CompleteInv, DoneComplete
<1> QED BY <1>4, <1>6

LEMMA CommitKeeps ==
    ASSUME TypeOK, SinceInv, CompleteInv, NEW x \in txns, Commit(x), UNCHANGED <<born, now>>
    PROVE  StoredSince' /\ ReadSince' /\ CompleteInv'
<1>1. /\ txns' \subseteq txns
      /\ \A m \in Manual : ans'[m] = ans[m] \/ \E r \in x.man : r.req = m /\ ans'[m] = r.obs
      /\ \A m \in Manual : (\E r \in x.man : r.req = m) => ans'[m] # Never
      /\ \A p \in Presses : verdicts'[p] > 0 => verdicts[p] > 0 \/ p \in x.done
  BY CommitEffect
<1>2. \A r \in x.man : r.req \in Manual /\ Since(r.req, r.obs)
  BY DEF TypeOK, Txns, Answers, SinceInv, ReadSince
<1>3. StoredSince'
  BY <1>1, <1>2 DEF SinceInv, StoredSince, Since
<1>4. ReadSince'
  BY <1>1 DEF SinceInv, ReadSince, Since
<1>5. \A m \in Manual : ans[m] # Never => ans'[m] # Never
  BY <1>1
<1>6. DoneComplete'
  <2> SUFFICES ASSUME NEW y \in txns', NEW p \in y.done, NEW q \in Parts
               PROVE  ans'[<<p, q>>] # Never \/ \E r \in y.man : r.req = <<p, q>>
    BY DEF DoneComplete
  <2>1. y \in txns /\ <<p, q>> \in Manual
    BY <1>1 DEF TypeOK, Txns, Manual
  <2> QED BY <1>5, <2>1 DEF CompleteInv, DoneComplete
<1>7. VerdictComplete'
  <2> SUFFICES ASSUME NEW p \in Presses, verdicts'[p] > 0, NEW q \in Parts
               PROVE  ans'[<<p, q>>] # Never
    BY DEF VerdictComplete
  <2>1. <<p, q>> \in Manual
    BY DEF Manual
  <2>2. CASE verdicts[p] > 0
    BY <1>5, <2>1, <2>2 DEF CompleteInv, VerdictComplete
  <2>3. CASE p \in x.done
    BY <1>1, <1>5, <2>1, <2>3 DEF CompleteInv, DoneComplete
  <2> QED BY <1>1, <2>2, <2>3
<1> QED BY <1>3, <1>4, <1>6, <1>7 DEF CompleteInv

LEMMA SinceStep ==
    TypeOK /\ SinceInv /\ CompleteInv /\ [Next]_vars => SinceInv' /\ CompleteInv'
<1> SUFFICES ASSUME TypeOK, SinceInv, CompleteInv, [Next]_vars PROVE SinceInv' /\ CompleteInv'
  OBVIOUS
<1>t. now \in Nat /\ now' \in Nat /\ \A m \in Manual : m \in Tasks /\ m[1] \in Presses
  BY TypeStep DEF TypeOK, Tasks, Manual
<1>b. \A p \in Presses : born[p] \in Int
  BY DEF TypeOK
<1>o. \A m \in Open : m \in Manual /\ born[m[1]] # Never
  BY DEF Open, Live
<1>1. ASSUME NEW p \in Presses, Press(p) PROVE SinceInv' /\ CompleteInv'
  <2> USE <1>1 DEF Press
  <2>1. \A m \in Manual : born[m[1]] # Never => born'[m[1]] = born[m[1]]
    BY <1>t DEF TypeOK
  <2>2. BornPast'
    BY <1>t DEF SinceInv, BornPast, TypeOK
  <2>3. StoredSince' /\ RememberedSince' /\ AskedBorn'
    BY <2>1 DEF SinceInv, StoredSince, RememberedSince, AskedBorn, Since
  <2>4. FlyingSince'
    BY <2>1 DEF SinceInv, FlyingSince, Since, TypeOK, Answers
  <2>5. ReadSince'
    BY <2>1 DEF SinceInv, ReadSince, Since, TypeOK, Txns, Answers
  <2>6. CompleteInv'
    BY DEF CompleteInv, DoneComplete, VerdictComplete
  <2> QED BY <2>2, <2>3, <2>4, <2>5, <2>6 DEF SinceInv
<1>2. CASE Move \/ Tick \/ UNCHANGED vars
  <2>1. QuietStep
    BY <1>2, <1>t DEF Move, Tick, QuietStep
  <2> QED BY <2>1, <1>t, QuietKeeps
<1>3. ASSUME NEW heard \in BOOLEAN, FastPoll(heard) PROVE SinceInv' /\ CompleteInv'
  <2>0. UNCHANGED <<now, born, ans, verdicts, txns, last, known, todo, posts>>
    BY <1>3 DEF FastPoll
  <2>1. \A g \in gos' : g \in gos \/ (g.req \in Open /\ g.obs = now)
    BY <1>3 DEF FastPoll
  <2>2. FlyingSince'
    BY <2>0, <2>1, <1>o, <1>t, <1>b DEF SinceInv, FlyingSince, BornPast, Since
  <2> QED
    BY <2>0, <2>2 DEF SinceInv, BornPast, StoredSince, RememberedSince, AskedBorn,
                      ReadSince, Since, CompleteInv, DoneComplete, VerdictComplete
<1>4. ASSUME NEW g \in gos, FastDone(g) PROVE SinceInv' /\ CompleteInv'
  <2> DEFINE sent == [g EXCEPT !.obs = now]
  <2>0. /\ UNCHANGED <<now, born, ans, verdicts, txns, last, known, todo>>
        /\ gos' \subseteq gos /\ posts' = posts \cup {sent}
    BY <1>4 DEF FastDone
  <2>1. sent.req = g.req /\ sent.obs = now /\ g.req \in Manual
    BY DEF TypeOK, Answers
  <2> HIDE DEF sent
  <2>2. born[g.req[1]] # Never /\ now >= born[g.req[1]]
    BY <2>1, <1>t, <1>b DEF SinceInv, FlyingSince, BornPast, Since
  <2>3. FlyingSince'
    BY <2>0, <2>1, <2>2 DEF SinceInv, FlyingSince, Since
  <2> QED
    BY <2>0, <2>3 DEF SinceInv, BornPast, StoredSince, RememberedSince, AskedBorn,
                      ReadSince, Since, CompleteInv, DoneComplete, VerdictComplete
<1>5. ASSUME NEW r \in posts, PostLost(r) PROVE SinceInv' /\ CompleteInv'
  <2>1. QuietStep
    BY <1>5, <1>t DEF PostLost, QuietStep
  <2> QED BY <2>1, <1>t, QuietKeeps
<1>6. ASSUME NEW r \in posts, PostIn(r) PROVE SinceInv' /\ CompleteInv'
  <2>0. /\ UNCHANGED <<now, born, ans, verdicts, last, known, todo, gos>> /\ posts' \subseteq posts
        /\ txns' = txns \cup {Handled("post", {r}, Nothing, r.req[1])}
    BY <1>6 DEF PostIn
  <2>1. Nothing \in [Parts -> Maybe] /\ {r} \in SUBSET Answers /\ \A s \in {r} : Since(s.req, s.obs)
    BY ProbeConstants DEF Nothing, TypeOK, SinceInv, FlyingSince
  <2>2. ReadSince' /\ DoneComplete'
    BY <2>0, <2>1, ReadKeeps
  <2> QED
    BY <2>0, <2>2 DEF SinceInv, BornPast, StoredSince, RememberedSince, AskedBorn, FlyingSince,
                      Since, CompleteInv, VerdictComplete
<1>7. ASSUME NEW p \in Presses, Report(p) PROVE SinceInv' /\ CompleteInv'
  <2> DEFINE rs == {[req |-> m, obs |-> last[m]] : m \in Remembered \cap Manual}
  <2> DEFINE planned == [q \in Parts |-> IF q \in Remembered THEN last[q] ELSE Never]
  <2>0. /\ UNCHANGED <<now, born, ans, verdicts, known, todo, gos, posts>>
        /\ txns' = txns \cup {Handled("report", rs, planned, p)}
    BY <1>7 DEF Report
  <2>1. \A m \in Manual : last'[m] \in {last[m], Never}
    BY <1>7, <1>t DEF Report
  <2>2. rs \in SUBSET Answers /\ planned \in [Parts -> Maybe]
    BY ReportAnswers
  <2>3. \A r \in rs : Since(r.req, r.obs)
    BY DEF Remembered, SinceInv, RememberedSince
  <2> HIDE DEF rs, planned
  <2>4. ReadSince' /\ DoneComplete'
    BY <2>0, <2>2, <2>3, ReadKeeps
  <2> QED
    BY <2>0, <2>1, <2>4 DEF SinceInv, BornPast, StoredSince, RememberedSince, AskedBorn,
                            FlyingSince, Since, CompleteInv, VerdictComplete
<1>8. ASSUME NEW x \in txns, ReportDone(x) PROVE SinceInv' /\ CompleteInv'
  <2>0. UNCHANGED <<now, born, last, gos, posts>> /\ Commit(x)
    BY <1>8 DEF ReportDone
  <2>1. StoredSince' /\ ReadSince' /\ CompleteInv'
    BY <2>0, CommitKeeps
  <2>2. \A m \in Manual : m \in known' => m \in Open
    <3>1. Scheduled \subseteq Planned
      BY DEF Scheduled, Planned
    <3> QED BY <1>8, <3>1, ProbeConstants DEF ReportDone, Asked
  <2>3. todo' \subseteq todo \cup known'
    BY <1>8 DEF ReportDone
  <2>4. AskedBorn'
    BY <1>o, <2>0, <2>2, <2>3 DEF SinceInv, AskedBorn
  <2> QED
    BY <2>0, <2>1, <2>4 DEF SinceInv, BornPast, RememberedSince, FlyingSince, Since
<1>9. ASSUME NEW x \in txns, PostDone(x) PROVE SinceInv' /\ CompleteInv'
  <2>0. UNCHANGED <<now, born, last, known, todo, gos, posts>> /\ Commit(x)
    BY <1>9 DEF PostDone
  <2>1. StoredSince' /\ ReadSince' /\ CompleteInv'
    BY <2>0, CommitKeeps
  <2> QED
    BY <2>0, <2>1 DEF SinceInv, BornPast, RememberedSince, AskedBorn, FlyingSince, Since
<1>10. ASSUME NEW t \in todo, ProbeDone(t) PROVE SinceInv' /\ CompleteInv'
  <2>0. UNCHANGED <<now, born, ans, verdicts, txns, known, gos, posts>> /\ todo' \subseteq todo
    BY <1>10 DEF ProbeDone
  <2>1. \A m \in Manual : last'[m] = last[m] \/ (m = t /\ last'[m] = now)
    BY <1>10, <1>t DEF ProbeDone, TypeOK
  <2>2. RememberedSince'
    BY <2>0, <2>1, <1>t, <1>b DEF SinceInv, RememberedSince, AskedBorn, BornPast, Since
  <2> QED
    BY <2>0, <2>2 DEF SinceInv, BornPast, StoredSince, AskedBorn, FlyingSince, ReadSince, Since,
                      CompleteInv, DoneComplete, VerdictComplete
<1> QED
  BY <1>1, <1>2, <1>3, <1>4, <1>5, <1>6, <1>7, <1>8, <1>9, <1>10 DEF Next

(* The outcome recorded for a press rests on answers obtained after it, of *)
(* every address: for any addresses, presses and delays, for agents with   *)
(* and without the fast route, and however its posts and reports cross.    *)
THEOREM VerdictsAreFresh == Spec => []VerdictIsFresh
<1>1. TypeOK /\ SinceInv /\ CompleteInv => VerdictIsFresh
  <2> SUFFICES ASSUME TypeOK, SinceInv, CompleteInv, NEW p \in Presses, verdicts[p] > 0
               PROVE  born[p] # Never /\ \A q \in Parts : ans[<<p, q>>] >= born[p]
    BY DEF VerdictIsFresh
  <2>1. \A q \in Parts : <<p, q>> \in Manual /\ ans[<<p, q>>] # Never
    BY DEF CompleteInv, VerdictComplete, Manual
  <2>2. \A q \in Parts : born[p] # Never /\ ans[<<p, q>>] >= born[p]
    BY <2>1 DEF SinceInv, StoredSince, Since
  <2>3. Main \in Parts
    BY DEF Parts
  <2> QED BY <2>2, <2>3
<1>2. Init => TypeOK /\ SinceInv /\ CompleteInv
  BY TypeInit, SinceInit
<1>3. TypeOK /\ SinceInv /\ CompleteInv /\ [Next]_vars => (TypeOK /\ SinceInv /\ CompleteInv)'
  BY TypeStep, SinceStep
<1> QED BY <1>1, <1>2, <1>3, PTL DEF Spec

-----------------------------------------------------------------------------
LEMMA JudgedInit == Init => JudgedInv
<1> SUFFICES ASSUME Init PROVE JudgedInv
  OBVIOUS
<1>1. Main \in Parts /\ \A p \in Presses : <<p, Main>> \in Manual
  BY DEF Parts, Manual
<1>2. \A p \in Presses : ans[<<p, Main>>] = Never
  BY <1>1 DEF Init
<1> QED BY <1>1, <1>2 DEF Init, JudgedInv, OneReport, JudgedByStored, AnsweredHasVerdict

\* A step that reads or commits nothing keeps what was judged.
LEMMA StillKeeps ==
    ASSUME JudgedInv, fast' = fast, local' => local, UNCHANGED <<ans, verdicts, txns>>,
           ~fast => gos' = {} /\ posts' = {}
    PROVE  JudgedInv'
<1> SUFFICES ASSUME ~fast PROVE (OneReport /\ JudgedByStored /\ AnsweredHasVerdict)'
  BY DEF JudgedInv
<1>1. OneReport'
  BY DEF JudgedInv, OneReport
<1>2. \A rs : Judged(rs)' = Judged(rs)
  BY DEF Judged, Complete
<1>3. JudgedByStored'
  <2> SUFFICES ASSUME local', NEW x \in txns' PROVE x.done = Judged(x.man)'
    BY DEF JudgedByStored
  <2>1. x.done = Judged(x.man)
    BY DEF JudgedInv, JudgedByStored
  <2> QED BY <1>2, <2>1
<1>4. AnsweredHasVerdict'
  BY DEF JudgedInv, AnsweredHasVerdict
<1> QED BY <1>1, <1>3, <1>4

\* The only transaction commits: whatever it completes it also judges, once.
LEMMA CommitJudges ==
    ASSUME TypeOK, CompleteInv, JudgedInv, ~fast, fast' = fast, NEW x \in txns, Commit(x),
           UNCHANGED <<local, gos, posts>>
    PROVE  JudgedInv'
<1>1. OneReport /\ JudgedByStored /\ AnsweredHasVerdict
  BY DEF JudgedInv
<1>2. txns' = {}
  BY <1>1 DEF Commit, OneReport
<1>3. AnsweredHasVerdict'
  <2> SUFFICES ASSUME local, NEW p \in Presses, \A q \in Parts : ans'[<<p, q>>] # Never
               PROVE  verdicts'[p] = 1
    BY DEF AnsweredHasVerdict
  <2>1. verdicts'[p] = verdicts[p] + IF p \in x.done THEN 1 ELSE 0
    BY DEF Commit
  <2>2. x.done = Judged(x.man) /\ verdicts[p] \in Nat
    BY <1>1 DEF JudgedByStored, TypeOK
  <2>3. CASE \A q \in Parts : ans[<<p, q>>] # Never
    <3>1. verdicts[p] = 1
      BY <1>1, <2>3 DEF AnsweredHasVerdict
    <3>2. p \notin x.done
      BY <2>2, <3>1 DEF Judged
    <3> QED BY <2>1, <3>1, <3>2
  <2>4. ASSUME NEW q \in Parts, ans[<<p, q>>] = Never PROVE verdicts'[p] = 1
    <3>1. \A m \in Manual : ans'[m] = ans[m] \/ \E r \in x.man : r.req = m
      BY CommitEffect
    <3>2. \A s \in Parts : <<p, s>> \in Manual
      BY DEF Manual
    <3>3. verdicts[p] = 0
      BY <2>2, <2>4 DEF CompleteInv, VerdictComplete
    <3>4. Complete(p, x.man)
      BY <3>1, <3>2 DEF Complete
    <3>5. PICK r \in x.man : r.req = <<p, q>>
      BY <2>4, <3>1, <3>2
    <3>6. p \in x.done
      BY <2>2, <3>3, <3>4, <3>5 DEF Judged
    <3> QED BY <2>1, <3>3, <3>6
  <2> QED BY <2>3, <2>4
<1> QED BY <1>1, <1>2, <1>3 DEF JudgedInv, OneReport, JudgedByStored

LEMMA JudgedStep == TypeOK /\ CompleteInv /\ JudgedInv /\ [Next]_vars => JudgedInv'
<1> SUFFICES ASSUME TypeOK, CompleteInv, JudgedInv, [Next]_vars PROVE JudgedInv'
  OBVIOUS
<1>f. fast' = fast
  BY DEF Next, Press, Move, FastPoll, FastDone, PostLost, PostIn, Report, ReportDone, PostDone,
         ProbeDone, Tick
<1> SUFFICES ASSUME ~fast PROVE JudgedInv'
  BY <1>f DEF JudgedInv
<1>0. OneReport
  BY DEF JudgedInv
<1>1. CASE \/ \E p \in Presses : Press(p)
           \/ Move \/ Tick \/ UNCHANGED vars
           \/ \E t \in todo : ProbeDone(t)
  <2>1. (local' => local) /\ UNCHANGED <<ans, verdicts, txns, gos, posts>>
    BY <1>1 DEF Press, Move, Tick, ProbeDone
  <2> QED BY <1>f, <1>0, <2>1, StillKeeps DEF OneReport
<1>2. ASSUME NEW p \in Presses, Report(p) PROVE JudgedInv'
  <2> DEFINE rs == {[req |-> m, obs |-> last[m]] : m \in Remembered \cap Manual}
  <2> DEFINE planned == [q \in Parts |-> IF q \in Remembered THEN last[q] ELSE Never]
  <2> DEFINE new == Handled("report", rs, planned, p)
  <2>0. UNCHANGED <<fast, local, ans, verdicts, gos, posts>>
    BY <1>2 DEF Report
  <2>1. txns' = txns \cup {new} /\ \A x \in txns : x.by # "report"
    BY <1>2 DEF Report
  <2>2. txns' = {new}
    BY <1>0, <2>1 DEF OneReport
  <2>3. rs \in SUBSET Answers /\ planned \in [Parts -> Maybe]
    BY ReportAnswers
  <2> HIDE DEF rs, planned
  <2>4. new.by = "report" /\ (local => new.done = Judged(new.man))
    BY <2>3, HandledType
  <2> HIDE DEF new
  <2>5. \A m : Judged(m)' = Judged(m)
    BY <2>0 DEF Judged, Complete
  <2>6. OneReport'
    BY <1>0, <2>0, <2>2, <2>4 DEF OneReport
  <2>7. JudgedByStored'
    <3> SUFFICES ASSUME local', NEW x \in txns' PROVE x.done = Judged(x.man)'
      BY DEF JudgedByStored
    <3>1. x = new /\ local
      BY <2>0, <2>2
    <3>2. x.done = Judged(x.man)
      BY <2>4, <3>1
    <3> QED BY <2>5, <3>2
  <2>8. AnsweredHasVerdict'
    BY <2>0 DEF JudgedInv, AnsweredHasVerdict
  <2> QED BY <2>6, <2>7, <2>8 DEF JudgedInv
<1>3. ASSUME NEW x \in txns, ReportDone(x) \/ PostDone(x) PROVE JudgedInv'
  <2>1. Commit(x) /\ UNCHANGED <<local, gos, posts>>
    BY <1>3 DEF ReportDone, PostDone
  <2> QED BY <1>f, <2>1, CommitJudges
<1>4. CASE \/ \E heard \in BOOLEAN : FastPoll(heard)
           \/ \E g \in gos : FastDone(g)
           \/ \E r \in posts : PostLost(r) \/ PostIn(r)
  BY <1>0, <1>4 DEF FastPoll, OneReport
<1> QED BY <1>1, <1>2, <1>3, <1>4 DEF Next

(* A press whose main address and paths have all answered has exactly one  *)
(* outcome, when its answers come in reports: for any addresses, presses   *)
(* and delays, and whenever the monitor is moved to other hands.           *)
THEOREM ReportedIsJudged == Spec => []ReportsAreJudged
<1>1. JudgedInv => ReportsAreJudged
  BY DEF JudgedInv, AnsweredHasVerdict, ReportsAreJudged, AnsweredIsJudged
<1>2. Init => TypeOK /\ SinceInv /\ CompleteInv /\ JudgedInv
  BY TypeInit, SinceInit, JudgedInit
<1>3. TypeOK /\ SinceInv /\ CompleteInv /\ JudgedInv /\ [Next]_vars
        => (TypeOK /\ SinceInv /\ CompleteInv /\ JudgedInv)'
  BY TypeStep, SinceStep, JudgedStep
<1> QED BY <1>1, <1>2, <1>3, PTL DEF Spec

-----------------------------------------------------------------------------
(* A result from memory never replaces a later one.                        *)

\* What the run under way may still take, when every probe of it may last D.
Left(D) == IF todo = {} THEN 0 ELSE Cardinality(todo) * D - (now - since)

\* A probe lasts no longer than D, and the due tasks of a run are probed within L.
RunFits(L, D) == /\ since # Never => now - since <= D
                 /\ IsFiniteSet(todo) /\ Cardinality(todo) * D <= L

\* How old the planned result of an address may get: it falls due during a run, which
\* ends; the next report starts the run that probes it, which ends too.
Soon(q, L, D) ==
    /\ q \in todo => now + Left(D) <= last[q] + Interval + 2 * L + Gap
    /\ q \notin todo /\ todo # {} => now + Left(D) <= last[q] + Interval + L
    /\ todo = {} /\ txns # {} => now <= last[q] + Interval + L + Gap
    /\ todo = {} /\ txns = {} => reported <= last[q] + Interval + L

OnTime == /\ reported <= now /\ now - reported <= Gap
          /\ todo # {} <=> since # Never
          /\ since # Never => since <= now
          /\ \A t \in Tasks : last[t] <= now
Probed(L, D) == local => \A q \in Parts : q \in known /\ last[q] # Never /\ Soon(q, L, D)

PaceInv(L, D) == ~fast => OnTime /\ Probed(L, D)

\* The result an address holds is the agent's planned one, or an older one, or a manual
\* one under its protection; so is the result a transaction is about to write, and that
\* one is no older than what is stored.  A manual answer that was not read by a report
\* yet was obtained after the last one.
Covers(q, w) == last[q] >= w.obs \/ w.until >= w.obs + Authority
Stored == \A q \in Parts : row[q].obs <= reported /\ (local => Covers(q, row[q]))
Read == \A x \in txns : \A q \in Parts :
            /\ x.rows[q].obs = Never => x.rows[q].until = Never
            /\ x.rows[q].obs # Never => /\ row[q].obs <= x.rows[q].obs /\ x.rows[q].obs <= reported
                                        /\ local => Covers(q, x.rows[q])
Unread == \A m \in Manual : last[m] # Never /\ ans[m] = Never
                                /\ (\A x \in txns : \A r \in x.man : r.req # m) => last[m] >= reported

MemoryInv == ~fast => Stored /\ Read /\ Unread

\* How a transaction treats the row of an address.
LEMMA HandledRows ==
    ASSUME TypeOK, NEW by \in {"post", "report"}, NEW rs \in SUBSET Answers,
           NEW planned \in [Parts -> Maybe], NEW late, NEW q \in Parts
    PROVE  LET w == Handled(by, rs, planned, late).rows[q]
           IN  \/ \E r \in Counted(rs) : r.req[2] = q /\ w = [obs |-> r.obs, until |-> now + Authority]
               \/ local /\ ~Protected(q) /\ w = [obs |-> planned[q], until |-> Never]
               \/ w = [obs |-> Never, until |-> Never]
<1> DEFINE fresh == IF local THEN Counted(rs) ELSE {}
<1> DEFINE w == Handled(by, rs, planned, late).rows[q]
<1>1. w = IF \E r \in fresh : r.req[2] = q THEN ManualRow(fresh, q, late)
          ELSE IF local /\ ~Protected(q) THEN [obs |-> planned[q], until |-> Never]
          ELSE [obs |-> Never, until |-> Never]
  BY DEF Handled
<1>2. CASE \E r \in fresh : r.req[2] = q
  <2> DEFINE mine == {r \in fresh : r.req[2] = q}
  <2> DEFINE Good(r) == r.req[1] = late \/ \A s \in mine : s.req[1] # late
  <2> DEFINE c == CHOOSE r \in mine : Good(r)
  <2>1. \E r \in mine : Good(r)
    BY <1>2
  <2>2. c \in mine
    BY <2>1
  <2>3. ManualRow(fresh, q, late) = [obs |-> c.obs, until |-> now + Authority]
    BY DEF ManualRow
  <2>4. w = [obs |-> c.obs, until |-> now + Authority]
    BY <1>1, <1>2, <2>3
  <2>5. c \in Counted(rs) /\ c.req[2] = q
    BY <2>2
  <2> HIDE DEF c, w
  <2> QED BY <2>4, <2>5 DEF w
<1>3. CASE ~\E r \in fresh : r.req[2] = q
  BY <1>1, <1>3
<1> QED BY <1>2, <1>3

\* The work of a run is a number, and a probe that ends takes its share off it.
LEMMA WorkIs ==
    ASSUME NEW S, IsFiniteSet(S), NEW t \in S, NEW D \in Nat
    PROVE  /\ Cardinality(S) * D \in Nat /\ Cardinality(S \ {t}) * D \in Nat
           /\ Cardinality(S) * D = Cardinality(S \ {t}) * D + D
<1> DEFINE c == Cardinality(S)
           d == Cardinality(S \ {t})
<1>1. c \in Nat /\ d \in Nat /\ d = c - 1
  BY FS_CardinalityType, FS_RemoveElement
<1> HIDE DEF c, d
<1>2. c * D \in Nat /\ d * D \in Nat
  BY <1>1
<1>3. c = d + 1
  BY <1>1
<1>4. c * D = d * D + D
  BY <1>1, <1>3
<1> QED BY <1>2, <1>4 DEF c, d

LEMMA PaceInit == ASSUME NEW L \in Nat, NEW D \in Nat PROVE Init => PaceInv(L, D) /\ MemoryInv
<1> SUFFICES ASSUME Init PROVE PaceInv(L, D) /\ MemoryInv
  OBVIOUS
<1>1. \A t \in Tasks : last[t] \in {0, Never}
  BY DEF Init
<1>2. \A q \in Parts : q \in Planned /\ q \in Tasks /\ last[q] = 0 /\ row[q] = [obs |-> 0, until |-> Never]
  BY DEF Init, Planned, Tasks
<1>3. \A m \in Manual : last[m] = Never
  BY ProbeConstants DEF Init, Tasks
<1>4. OnTime
  BY <1>1, ProbeConstants DEF Init, OnTime
<1>5. Probed(L, D)
  BY <1>2, ProbeConstants DEF Init, Probed, Soon, Planned
<1>6. Stored /\ Read /\ Unread
  BY <1>2, <1>3 DEF Init, Stored, Read, Unread, Covers
<1> QED BY <1>4, <1>5, <1>6 DEF PaceInv, MemoryInv

\* A step that leaves the agent and the transactions alone.
LEMMA IdleKeeps ==
    ASSUME NEW L, NEW D, PaceInv(L, D), MemoryInv, local' => local,
           UNCHANGED <<now, fast, ans, row, txns, reported, agent>>
    PROVE  PaceInv(L, D)' /\ MemoryInv'
<1>1. Left(D)' = Left(D)
  BY DEF Left
<1>2. PaceInv(L, D)'
  BY <1>1 DEF PaceInv, OnTime, Probed, Soon
<1>3. MemoryInv'
  BY DEF MemoryInv, Stored, Read, Unread, Covers
<1> QED BY <1>2, <1>3

LEMMA TickKeeps ==
    ASSUME NEW L \in Nat, NEW D \in Nat, TypeOK, RunFits(L, D), PaceInv(L, D), MemoryInv, Tick
    PROVE  PaceInv(L, D)' /\ MemoryInv'
<1>0. UNCHANGED <<panel, txns, reported, agent>> /\ now' = now + 1 /\ txns = {}
  BY DEF Tick
<1> SUFFICES ASSUME ~fast PROVE (OnTime /\ Probed(L, D))' /\ MemoryInv'
  BY <1>0 DEF PaceInv, MemoryInv
<1>1. OnTime /\ Probed(L, D)
  BY DEF PaceInv
<1>t. now \in Nat /\ reported \in Nat /\ since \in Int /\ Gap \in Nat /\ Timeout \in Nat
      /\ Interval \in Nat /\ \A t \in Tasks : last[t] \in Int
  BY ProbeConstants DEF TypeOK
<1>2. OnTime'
  BY <1>0, <1>1, <1>t DEF OnTime, Tick
<1>3. ASSUME NEW q \in Parts, local PROVE Soon(q, L, D)'
  <2>1. Soon(q, L, D) /\ last[q] \in Int
    BY <1>1, <1>3, <1>t DEF Probed, Tasks, Planned
  <2>2. CASE todo # {}
    <3>1. Cardinality(todo) * D \in Nat
      BY FS_CardinalityType, <1>t DEF RunFits
    <3>2. now' + Left(D)' = now + Left(D)
      BY <1>0, <1>t, <2>2, <3>1 DEF Left
    <3> QED BY <1>0, <2>1, <2>2, <3>2 DEF Soon
  <2>3. CASE todo = {}
    BY <1>0, <2>1, <2>3 DEF Soon
  <2> QED BY <2>2, <2>3
<1>4. Probed(L, D)'
  BY <1>0, <1>1, <1>3 DEF Probed
<1>5. MemoryInv'
  BY <1>0 DEF MemoryInv, Stored, Read, Unread, Covers
<1> QED BY <1>2, <1>4, <1>5

LEMMA ProbeKeeps ==
    ASSUME NEW L \in Nat, NEW D \in Nat, TypeOK, RunFits(L, D), PaceInv(L, D), MemoryInv,
           NEW t \in todo, ProbeDone(t)
    PROVE  PaceInv(L, D)' /\ MemoryInv'
<1>0. /\ UNCHANGED <<now, fast, local, ans, row, txns, reported, known>>
      /\ last' = [last EXCEPT ![t] = now] /\ todo' = todo \ {t}
      /\ since' = IF todo' = {} THEN Never ELSE now
  BY DEF ProbeDone
<1> SUFFICES ASSUME ~fast PROVE (OnTime /\ Probed(L, D))' /\ (Stored /\ Read /\ Unread)'
  BY <1>0 DEF PaceInv, MemoryInv
<1>1. OnTime /\ Probed(L, D) /\ Stored /\ Read /\ Unread
  BY DEF PaceInv, MemoryInv
<1>t. /\ now \in Nat /\ reported \in Nat /\ since \in Int /\ Gap \in Nat /\ Timeout \in Nat
      /\ Interval \in Nat /\ Authority \in Nat
      /\ \A s \in Tasks : last[s] \in Int
      /\ t \in Tasks /\ \A q \in Parts : q \in Tasks
      /\ \A m \in Manual : m \in Tasks
  BY ProbeConstants DEF TypeOK, Tasks, Planned, Authority
<1>2. \A s \in Tasks : last'[s] \in Int /\ last'[s] >= last[s] /\ last'[s] <= now
                       /\ (s # t => last'[s] = last[s])
  BY <1>0, <1>1, <1>t DEF TypeOK, OnTime
<1>3. last'[t] = now
  BY <1>0, <1>t DEF TypeOK
<1>4. OnTime'
  BY <1>0, <1>1, <1>2, <1>t DEF OnTime
<1> DEFINE c == Cardinality(todo) * D
           d == Cardinality(todo \ {t}) * D
<1>5. c \in Nat /\ d \in Nat /\ c = d + D /\ c <= L
  BY WorkIs DEF RunFits
<1>6. Left(D) = c - (now - since) /\ Left(D)' = (IF todo' = {} THEN 0 ELSE d)
  BY <1>0, <1>5, <1>t DEF Left
<1> HIDE DEF c, d
<1>7. now - since <= D /\ since <= now
  BY <1>1 DEF OnTime, RunFits
<1>8. Left(D)' <= Left(D) /\ Left(D) >= 0 /\ Left(D)' \in Nat /\ Left(D) \in Int /\ Left(D)' <= L
  BY <1>5, <1>6, <1>7, <1>t
<1>9. ASSUME NEW q \in Parts, local PROVE last'[q] # Never /\ Soon(q, L, D)'
  <2>1. Soon(q, L, D) /\ last[q] \in Int /\ last'[q] \in Int /\ last[q] # Never
    BY <1>1, <1>9, <1>t, <1>2 DEF Probed
  <2>2. CASE q = t
    <3>1. q \notin todo' /\ last'[q] = now
      BY <1>0, <1>3, <2>2
    <3>2. reported <= now
      BY <1>1 DEF OnTime
    <3> QED BY <1>0, <1>8, <1>t, <3>1, <3>2 DEF Soon
  <2>3. CASE q # t
    <3>1. last'[q] = last[q] /\ (q \in todo' <=> q \in todo) /\ todo # {}
      BY <1>0, <1>2, <1>t, <2>3
    <3>2. reported <= now
      BY <1>1 DEF OnTime
    <3>3. CASE q \in todo
      <4>1. q \in todo' /\ todo' # {}
        BY <3>1, <3>3
      <4> QED BY <1>0, <1>8, <1>t, <2>1, <3>1, <3>3, <4>1 DEF Soon
    <3>4. CASE q \notin todo
      <4>1. now + Left(D) <= last[q] + Interval + L
        BY <2>1, <3>1, <3>4 DEF Soon
      <4> QED BY <1>0, <1>8, <1>t, <2>1, <3>1, <3>2, <3>4, <4>1 DEF Soon
    <3> QED BY <3>3, <3>4
  <2> QED BY <2>2, <2>3
<1>10. Probed(L, D)'
  BY <1>0, <1>1, <1>9 DEF Probed
<1>11. \A q \in Parts : row[q].obs \in Int /\ row[q].until \in Int
  BY DEF TypeOK, Rows
<1>12. Stored'
  BY <1>0, <1>1, <1>2, <1>t, <1>11 DEF Stored, Covers
<1>13. Read'
  <2> SUFFICES ASSUME NEW x \in txns, NEW q \in Parts, x.rows[q].obs # Never, local,
                      Covers(q, x.rows[q])
               PROVE  Covers(q, x.rows[q])'
    BY <1>0, <1>1 DEF Read
  <2>1. x.rows[q].obs \in Int
    BY DEF TypeOK, Txns, Rows
  <2> QED BY <1>2, <1>t, <2>1 DEF Covers
<1>14. Unread'
  <2> SUFFICES ASSUME NEW m \in Manual, last'[m] # Never, ans[m] = Never,
                      \A x \in txns : \A r \in x.man : r.req # m
               PROVE  last'[m] >= reported
    BY <1>0 DEF Unread
  <2>1. CASE m = t
    BY <1>1, <1>3, <2>1 DEF OnTime
  <2>2. CASE m # t
    BY <1>1, <1>2, <1>t, <2>2 DEF Unread
  <2> QED BY <2>1, <2>2
<1> QED BY <1>4, <1>10, <1>12, <1>13, <1>14

\* A planned result that is not kept out by the protection of a manual one is no older
\* than what is stored: the protection lasts until the agent has probed again.
LEMMA PlannedIsNewer ==
    ASSUME NEW L \in Nat, NEW D \in Nat, 2 * L + Gap <= Slack + Timeout, TypeOK,
           RunFits(L, D), OnTime, Probed(L, D), txns = {}, local, NEW q \in Parts, Covers(q, row[q]), ~Protected(q)
    PROVE  row[q].obs <= last[q]
<1>t. /\ now \in Nat /\ reported \in Nat /\ since \in Int /\ last[q] \in Int
      /\ row[q].obs \in Int /\ row[q].obs >= Never /\ row[q].until \in Int
      /\ Gap \in Nat /\ Timeout \in Nat /\ Interval \in Nat /\ Slack \in Nat
  BY ProbeConstants DEF TypeOK, Rows, Tasks, Planned
<1>1. Soon(q, L, D) /\ last[q] # Never /\ reported <= now /\ now - reported <= Gap
  BY DEF Probed, OnTime
<1>2. now <= last[q] + Interval + 2 * L + Gap
  <2>1. CASE todo = {}
    BY <1>1, <1>t, <2>1 DEF Soon
  <2>2. CASE todo # {}
    <3>1. PICK t \in todo : TRUE
      BY <2>2
    <3> DEFINE c == Cardinality(todo) * D
               d == Cardinality(todo \ {t}) * D
    <3>2. c \in Nat /\ d \in Nat /\ c = d + D
      BY WorkIs DEF RunFits
    <3>c. Left(D) = c - (now - since)
      BY <2>2 DEF Left
    <3> HIDE DEF c, d
    <3>3. since <= now /\ now - since <= D
      BY <2>2 DEF OnTime, RunFits
    <3>4. Left(D) \in Int /\ Left(D) >= 0
      BY <1>t, <3>2, <3>3, <3>c
    <3> QED BY <1>1, <1>t, <2>2, <3>4 DEF Soon
  <2> QED BY <2>1, <2>2
<1>3. now <= last[q] + Authority /\ Authority \in Nat
  BY <1>2, <1>t DEF Authority
<1>4. CASE last[q] >= row[q].obs
  BY <1>4, <1>t
<1>5. CASE row[q].until >= row[q].obs + Authority
  <2>1. CASE row[q].until = Never
    BY <1>1, <1>3, <1>5, <1>t, <2>1
  <2>2. CASE now >= row[q].until
    BY <1>3, <1>5, <1>t, <2>2
  <2> QED BY <1>t, <2>1, <2>2 DEF Protected
<1> QED BY <1>4, <1>5 DEF Covers

LEMMA ReportKeeps ==
    ASSUME NEW L \in Nat, NEW D \in Nat, 2 * L + Gap <= Slack + Timeout, TypeOK,
           RunFits(L, D), JudgedInv, PaceInv(L, D), MemoryInv, NEW p \in Presses, Report(p)
    PROVE  PaceInv(L, D)' /\ MemoryInv'
<1> DEFINE rs == {[req |-> m, obs |-> last[m]] : m \in Remembered \cap Manual}
<1> DEFINE planned == [q \in Parts |-> IF q \in Remembered THEN last[q] ELSE Never]
<1> DEFINE new == Handled("report", rs, planned, p)
<1>0. /\ UNCHANGED <<now, panel, known, todo, since>>
      /\ reported' = now /\ txns' = txns \cup {new} /\ \A x \in txns : x.by # "report"
      /\ last' = [t \in Tasks |-> IF Kept(t) THEN last[t] ELSE Never]
  BY DEF Report
<1> SUFFICES ASSUME ~fast PROVE (OnTime /\ Probed(L, D))' /\ (Stored /\ Read /\ Unread)'
  BY <1>0 DEF PaceInv, MemoryInv
<1>1. OnTime /\ Probed(L, D) /\ Stored /\ Read /\ Unread
  BY DEF PaceInv, MemoryInv
<1>2. txns = {} /\ txns' = {new} /\ txns' # {}
  BY <1>0 DEF JudgedInv, OneReport
<1>t. /\ now \in Nat /\ reported \in Nat /\ since \in Int /\ Gap \in Nat /\ Timeout \in Nat
      /\ Interval \in Nat /\ Authority \in Nat /\ reported <= now /\ now - reported <= Gap
      /\ \A s \in Tasks : last[s] \in Int /\ last[s] <= now
      /\ \A q \in Parts : q \in Tasks
      /\ \A m \in Manual : m \in Tasks
      /\ \A q \in Parts : row[q].obs \in Int /\ row[q].until \in Int
  BY <1>1, ProbeConstants DEF TypeOK, Tasks, Planned, Authority, OnTime, Rows
<1>3. \A s \in Tasks : last'[s] = last[s] \/ last'[s] = Never
  BY <1>0
<1>4. ASSUME local, NEW q \in Parts PROVE q \in known /\ last[q] # Never /\ last'[q] = last[q]
  BY <1>0, <1>1, <1>4, <1>t DEF Probed, Kept
<1>5. OnTime'
  BY <1>0, <1>1, <1>3, <1>t, ProbeConstants DEF OnTime
<1>6. Probed(L, D)'
  <2> SUFFICES ASSUME local, NEW q \in Parts PROVE Soon(q, L, D)'
    BY <1>0, <1>4 DEF Probed
  <2>1. Soon(q, L, D) /\ last'[q] = last[q] /\ last[q] \in Int
    BY <1>1, <1>4, <1>t DEF Probed
  <2>2. Left(D)' = Left(D)
    BY <1>0 DEF Left
  <2> HIDE DEF new
  <2>3. CASE todo = {}
    <3>1. reported <= last[q] + Interval + L
      BY <1>2, <2>1, <2>3 DEF Soon
    <3>2. now' = now /\ todo' = {} /\ txns' # {}
      BY <1>0, <1>2, <2>3
    <3> QED BY <1>t, <2>1, <3>1, <3>2 DEF Soon
  <2>4. CASE todo # {}
    BY <1>0, <2>1, <2>2, <2>4 DEF Soon
  <2> QED BY <2>3, <2>4
<1>7. Stored'
  <2> SUFFICES ASSUME NEW q \in Parts
               PROVE  row[q].obs <= now /\ (local => Covers(q, row[q])')
    BY <1>0 DEF Stored
  <2>1. row[q].obs <= reported /\ (local => Covers(q, row[q]))
    BY <1>1 DEF Stored
  <2>2. local => Covers(q, row[q])'
    BY <1>0, <1>4, <2>1 DEF Covers
  <2> QED BY <1>t, <2>1, <2>2
<1>8. rs \in SUBSET Answers /\ planned \in [Parts -> Maybe]
  BY ReportAnswers
<1>9. \A r \in rs : r.req \in Manual /\ r.obs = last[r.req] /\ r.obs # Never /\ r.obs \in Int
  BY <1>t DEF Remembered
<1>10. \A q \in Parts : planned[q] = last[q] \/ planned[q] = Never
  OBVIOUS
<1>11. ASSUME NEW m \in Manual, m \in Remembered PROVE \E r \in rs : r.req = m
  <2>1. [req |-> m, obs |-> last[m]] \in rs
    BY <1>11
  <2> QED BY <2>1
<1> HIDE DEF rs, planned
<1>12. new.man = Counted(rs)
  BY <1>8, HandledType
<1>13. ASSUME NEW q \in Parts
       PROVE  \/ \E r \in Counted(rs) : r.req[2] = q /\ new.rows[q] = [obs |-> r.obs, until |-> now + Authority]
              \/ local /\ ~Protected(q) /\ new.rows[q] = [obs |-> planned[q], until |-> Never]
              \/ new.rows[q] = [obs |-> Never, until |-> Never]
  BY <1>8, HandledRows
<1> HIDE DEF new
<1>14. ASSUME NEW q \in Parts
       PROVE  /\ new.rows[q].obs = Never => new.rows[q].until = Never
              /\ new.rows[q].obs # Never => /\ row[q].obs <= new.rows[q].obs /\ new.rows[q].obs <= now
                                            /\ local => \/ last'[q] >= new.rows[q].obs
                                                        \/ new.rows[q].until >= new.rows[q].obs + Authority
  <2>1. CASE \E r \in Counted(rs) : r.req[2] = q /\ new.rows[q] = [obs |-> r.obs, until |-> now + Authority]
    <3>1. PICK r \in Counted(rs) : new.rows[q] = [obs |-> r.obs, until |-> now + Authority]
      BY <2>1
    <3>2. r \in rs /\ ans[r.req] = Never
      BY DEF Counted
    <3>3. r.req \in Manual /\ r.obs = last[r.req] /\ r.obs # Never /\ r.obs \in Int /\ r.obs <= now
      BY <1>9, <1>t, <3>2
    <3>4. last[r.req] >= reported
      BY <1>1, <1>2, <3>2, <3>3 DEF Unread
    <3>5. row[q].obs <= reported
      BY <1>1 DEF Stored
    <3>6. new.rows[q].obs = r.obs /\ new.rows[q].until = now + Authority
      BY <3>1
    <3>7. row[q].obs <= r.obs
      BY <1>t, <3>3, <3>4, <3>5
    <3>8. new.rows[q].until >= new.rows[q].obs + Authority
      BY <1>t, <3>3, <3>6
    <3> QED BY <3>3, <3>6, <3>7, <3>8
  <2>2. CASE local /\ ~Protected(q) /\ new.rows[q] = [obs |-> planned[q], until |-> Never]
    <3>1. new.rows[q].obs = planned[q] /\ new.rows[q].until = Never
      BY <2>2
    <3>2. Covers(q, row[q])
      BY <1>1, <2>2 DEF Stored
    <3>3. row[q].obs <= last[q]
      BY <1>1, <1>2, <2>2, <3>2, PlannedIsNewer
    <3>4. last[q] <= now /\ last'[q] = last[q] /\ last[q] \in Int
      BY <1>4, <1>t, <2>2
    <3> QED BY <1>10, <3>1, <3>3, <3>4
  <2>3. CASE new.rows[q] = [obs |-> Never, until |-> Never]
    BY <2>3
  <2> QED BY <1>13, <2>1, <2>2, <2>3
<1>15. Read'
  <2> SUFFICES ASSUME NEW x \in txns', NEW q \in Parts
               PROVE  /\ x.rows[q].obs = Never => x.rows[q].until = Never
                      /\ x.rows[q].obs # Never => /\ row'[q].obs <= x.rows[q].obs
                                                  /\ x.rows[q].obs <= reported'
                                                  /\ local' => Covers(q, x.rows[q])'
    BY DEF Read
  <2>1. x = new
    BY <1>2
  <2> QED BY <1>0, <1>14, <2>1 DEF Covers, Authority
<1>16. Unread'
  <2> SUFFICES ASSUME NEW m \in Manual, last'[m] # Never, ans[m] = Never,
                      \A r \in new.man : r.req # m
               PROVE  FALSE
    BY <1>0, <1>2 DEF Unread
  <2>1. m \in Remembered
    BY <1>0, <1>t DEF Remembered
  <2>2. PICK r \in rs : r.req = m
    BY <1>11, <2>1
  <2> QED BY <1>12, <2>2 DEF Counted
<1> QED BY <1>5, <1>6, <1>7, <1>15, <1>16

\* The commit of the only transaction: what it writes is no older than what was stored.
LEMMA CommitWrites ==
    ASSUME TypeOK, NEW x \in txns, Commit(x), NEW q \in Parts
    PROVE  /\ row'[q].obs = (IF x.rows[q].obs = Never THEN row[q].obs ELSE x.rows[q].obs)
           /\ row'[q].until = (IF x.rows[q].until = Never THEN row[q].until ELSE x.rows[q].until)
BY DEF Commit, Written

LEMMA DoneKeeps ==
    ASSUME NEW L \in Nat, NEW D \in Nat, TypeOK, RunFits(L, D)', JudgedInv, PaceInv(L, D), MemoryInv,
           NEW x \in txns, ReportDone(x)
    PROVE  PaceInv(L, D)' /\ MemoryInv'
<1>0. /\ UNCHANGED <<now, fast, local, reported, last>> /\ Commit(x)
      /\ known' = Asked(x.man) \cup Scheduled
      /\ IF todo = {}
         THEN todo' = {t \in known' : Due(t)} /\ since' = IF todo' = {} THEN Never ELSE now
         ELSE UNCHANGED <<todo, since>>
  BY DEF ReportDone
<1> SUFFICES ASSUME ~fast PROVE (OnTime /\ Probed(L, D))' /\ (Stored /\ Read /\ Unread)'
  BY <1>0 DEF PaceInv, MemoryInv
<1>1. OnTime /\ Probed(L, D) /\ Stored /\ Read /\ Unread
  BY DEF PaceInv, MemoryInv
<1>2. txns = {x} /\ txns' = {}
  BY <1>0 DEF JudgedInv, OneReport, Commit
<1>t. /\ now \in Nat /\ reported \in Nat /\ since \in Int /\ Gap \in Nat /\ Timeout \in Nat
      /\ Interval \in Nat /\ Authority \in Nat /\ reported <= now /\ now - reported <= Gap
      /\ \A s \in Tasks : last[s] \in Int /\ last[s] <= now
      /\ \A q \in Parts : q \in Tasks
      /\ \A q \in Parts : row[q].obs \in Int /\ row[q].until \in Int
      /\ \A q \in Parts : x.rows[q].obs \in Int /\ x.rows[q].obs >= Never /\ x.rows[q].until \in Int
  BY <1>1, ProbeConstants DEF TypeOK, Tasks, Planned, Authority, OnTime, Rows, Txns
<1>3. OnTime'
  BY <1>0, <1>1, <1>t DEF OnTime
<1>4. Probed(L, D)'
  <2> SUFFICES ASSUME local, NEW q \in Parts PROVE q \in known' /\ last[q] # Never /\ Soon(q, L, D)'
    BY <1>0 DEF Probed
  <2>1. q \in known'
    BY <1>0 DEF Scheduled, Planned
  <2>2. Soon(q, L, D) /\ last[q] # Never /\ last[q] \in Int
    BY <1>1, <1>t DEF Probed
  <2>3. CASE todo # {}
    <3>1. Left(D)' = Left(D) /\ todo' = todo
      BY <1>0, <2>3 DEF Left
    <3> QED BY <1>0, <2>1, <2>2, <2>3, <3>1 DEF Soon
  <2>4. CASE todo = {}
    <3>1. now <= last[q] + Interval + L + Gap
      BY <1>2, <2>2, <2>4 DEF Soon
    <3>2. todo' = {t \in known' : Due(t)} /\ (todo' # {} => since' = now)
      BY <1>0, <2>4
    <3>3. q \notin todo' => now < last[q] + Interval
      BY <1>t, <2>1, <2>2, <3>2 DEF Due
    <3> DEFINE c == Cardinality(todo') * D
    <3>4. c \in Nat /\ c <= L
      BY FS_CardinalityType, <1>t DEF RunFits
    <3>5. todo' # {} => Left(D)' = c - (now - now)
      BY <1>0, <3>2 DEF Left
    <3> HIDE DEF c
    <3>6. todo' # {} => Left(D)' \in Nat /\ Left(D)' <= L
      BY <1>t, <3>4, <3>5
    <3>7. CASE q \in todo'
      <4>1. todo' # {} /\ now + Left(D)' <= last[q] + Interval + 2 * L + Gap
        BY <1>t, <2>2, <3>1, <3>6, <3>7
      <4> QED BY <1>0, <2>1, <2>2, <3>7, <4>1 DEF Soon
    <3>8. CASE q \notin todo'
      <4>1. todo' # {} => now + Left(D)' <= last[q] + Interval + L
        BY <1>t, <2>2, <3>3, <3>6, <3>8
      <4>2. reported <= last[q] + Interval + L
        BY <1>t, <2>2, <3>3, <3>8
      <4> QED BY <1>0, <1>2, <2>1, <2>2, <3>8, <4>1, <4>2 DEF Soon
    <3> QED BY <3>7, <3>8
  <2> QED BY <2>3, <2>4
<1>5. Stored'
  <2> SUFFICES ASSUME NEW q \in Parts
               PROVE  row'[q].obs <= reported
                      /\ (local => last[q] >= row'[q].obs \/ row'[q].until >= row'[q].obs + Authority)
    BY <1>0 DEF Stored, Covers, Authority
  <2>1. /\ row'[q].obs = (IF x.rows[q].obs = Never THEN row[q].obs ELSE x.rows[q].obs)
        /\ row'[q].until = (IF x.rows[q].until = Never THEN row[q].until ELSE x.rows[q].until)
    BY <1>0, CommitWrites
  <2>2. row[q].obs <= reported /\ (local => Covers(q, row[q]))
    BY <1>1 DEF Stored
  <2>3. CASE x.rows[q].obs = Never
    <3>1. x.rows[q].until = Never
      BY <1>1, <2>3 DEF Read
    <3> QED BY <2>1, <2>2, <2>3, <3>1 DEF Covers
  <2>4. CASE x.rows[q].obs # Never
    <3>1. x.rows[q].obs <= reported /\ (local => Covers(q, x.rows[q]))
      BY <1>1, <2>4 DEF Read
    <3> DEFINE o == x.rows[q].obs
               u == x.rows[q].until
    <3>o. o \in Nat /\ u \in Int /\ Authority \in Nat
      BY <1>t, <2>4
    <3> HIDE DEF o, u
    <3>u. u >= o + Authority => u # Never
      BY <3>o
    <3>2. x.rows[q].until >= x.rows[q].obs + Authority => x.rows[q].until # Never
      BY <3>u DEF o, u
    <3> QED BY <2>1, <2>4, <3>1, <3>2 DEF Covers
  <2> QED BY <2>3, <2>4
<1>6. Read'
  BY <1>2 DEF Read
<1>7. Unread'
  <2> SUFFICES ASSUME NEW m \in Manual, last[m] # Never, ans'[m] = Never PROVE last[m] >= reported
    BY <1>0 DEF Unread
  <2>1. ~\E r \in x.man : r.req = m
    BY <1>0, CommitEffect
  <2>2. ans[m] = Never
    BY <1>0, <2>1, CommitEffect
  <2> QED BY <1>1, <1>2, <2>1, <2>2 DEF Unread
<1> QED BY <1>3, <1>4, <1>5, <1>6, <1>7

LEMMA PaceStep ==
    ASSUME NEW L \in Nat, NEW D \in Nat, 2 * L + Gap <= Slack + Timeout
    PROVE  TypeOK /\ JudgedInv /\ PaceInv(L, D) /\ MemoryInv /\ RunFits(L, D) /\ RunFits(L, D)'
             /\ [Next]_vars
             => PaceInv(L, D)' /\ MemoryInv'
<1> SUFFICES ASSUME TypeOK, JudgedInv, PaceInv(L, D), MemoryInv, RunFits(L, D), RunFits(L, D)',
                    [Next]_vars
             PROVE  PaceInv(L, D)' /\ MemoryInv'
  OBVIOUS
<1>f. fast' = fast
  BY DEF Next, Press, Move, FastPoll, FastDone, PostLost, PostIn, Report, ReportDone, PostDone,
         ProbeDone, Tick
<1> SUFFICES ASSUME ~fast PROVE PaceInv(L, D)' /\ MemoryInv'
  BY <1>f DEF PaceInv, MemoryInv
<1>0. OneReport
  BY DEF JudgedInv
<1>1. CASE \/ \E p \in Presses : Press(p)
           \/ Move \/ UNCHANGED vars
  <2>1. (local' => local) /\ UNCHANGED <<now, fast, ans, row, txns, reported, agent>>
    BY <1>1 DEF Press, Move
  <2> QED BY <2>1, IdleKeeps
<1>2. CASE Tick
  BY <1>2, TickKeeps
<1>3. ASSUME NEW t \in todo, ProbeDone(t) PROVE PaceInv(L, D)' /\ MemoryInv'
  BY <1>3, ProbeKeeps
<1>4. ASSUME NEW p \in Presses, Report(p) PROVE PaceInv(L, D)' /\ MemoryInv'
  BY <1>4, ReportKeeps
<1>5. ASSUME NEW x \in txns, ReportDone(x) PROVE PaceInv(L, D)' /\ MemoryInv'
  BY <1>5, DoneKeeps
<1>6. CASE \/ \E heard \in BOOLEAN : FastPoll(heard)
           \/ \E g \in gos : FastDone(g)
           \/ \E r \in posts : PostLost(r) \/ PostIn(r)
           \/ \E x \in txns : PostDone(x)
  BY <1>0, <1>6 DEF FastPoll, PostDone, OneReport
<1> QED BY <1>1, <1>2, <1>3, <1>4, <1>5, <1>6 DEF Next

LEMMA StepNeverBack ==
    TypeOK /\ JudgedInv /\ MemoryInv /\ [Next]_vars
        => [~fast => \A q \in Parts : row'[q].obs >= row[q].obs]_vars
<1> SUFFICES ASSUME TypeOK, JudgedInv, MemoryInv, [Next]_vars, ~fast, NEW q \in Parts
             PROVE  row'[q].obs >= row[q].obs
  OBVIOUS
<1>t. row[q].obs \in Int
  BY DEF TypeOK, Rows
<1>1. CASE row' = row
  BY <1>1, <1>t
<1>2. ASSUME NEW x \in txns, Commit(x) PROVE row'[q].obs >= row[q].obs
  <2>1. row'[q].obs = (IF x.rows[q].obs = Never THEN row[q].obs ELSE x.rows[q].obs)
    BY <1>2, CommitWrites
  <2>2. x.rows[q].obs # Never => row[q].obs <= x.rows[q].obs
    BY DEF MemoryInv, Read
  <2>3. x.rows[q].obs \in Int
    BY DEF TypeOK, Txns, Rows
  <2> QED BY <1>t, <2>1, <2>2, <2>3
<1> QED
  BY <1>1, <1>2 DEF Next, Press, Move, FastPoll, FastDone, PostLost, PostIn, Report, ReportDone,
                    PostDone, ProbeDone, Tick

(* manual_until and authority_seconds: what an agent repeats from memory   *)
(* never replaces a result that was obtained after it, for any addresses,  *)
(* presses, intervals and delays, provided that two runs of the agent's    *)
(* due tasks and the wait for a report between them fit into the 30        *)
(* seconds and the timeout that authority_seconds adds to the interval: a  *)
(* probe lasts at most D, a run at most L.  (Its docstring promises a fresh *)
(* planned answer within interval, 30 seconds and timeout of any run.)     *)
THEOREM MemoryNeverReplaces ==
    ASSUME NEW L \in Nat, NEW D \in Nat, 2 * L + Gap <= Slack + Timeout
    PROVE  Spec /\ []RunFits(L, D) => NeverBack
<1> DEFINE Inv == TypeOK /\ SinceInv /\ CompleteInv /\ JudgedInv /\ PaceInv(L, D) /\ MemoryInv
<1>1. Init => Inv
  BY TypeInit, SinceInit, JudgedInit, PaceInit
<1>2. Inv /\ RunFits(L, D) /\ RunFits(L, D)' /\ [Next]_vars => Inv'
  BY TypeStep, SinceStep, JudgedStep, PaceStep
<1>3. Inv /\ [Next]_vars => [~fast => \A q \in Parts : row'[q].obs >= row[q].obs]_vars
  BY StepNeverBack
<1> HIDE DEF Inv
<1> QED BY <1>1, <1>2, <1>3, PTL DEF Spec, NeverBack
=============================================================================
