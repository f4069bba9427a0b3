-------------------------- MODULE SiteGroupsProofs --------------------------
(***************************************************************************)
(* Theorems about SiteGroups, for any monitors, delays and faults.  Types   *)
(* hold for any senders; the rest is about the scheduler as the only one.   *)
(*                                                                         *)
(* DebtInv says where the all-clear of a monitor that the chat names as     *)
(* failing is at each stage of a send, and LineInv where the lines of new   *)
(* failures are; both rest on ReadInv, that nobody changes the stored       *)
(* groups between their load and their save.                               *)
(***************************************************************************)
EXTENDS SiteGroups, TLAPS

Sent == job[Scheduler]
Parked == UNION {Held(retry[q]) : q \in Processes}

MarkedBad == \A p \in Senders : job[p].marks \subseteq bad
TypeInv == TypeOK /\ MarkedBad

ReadInv ==
    /\ Sent.at = "idle" => Sent.recs = {}
    /\ Sent.at \in {"compose", "send", "after"} => Sent.read = groups
    /\ Sent.recs \cap bad = {} /\ Sent.clears \cap bad = {}
    /\ Held(retry["web"]) = {}

\* Every new failure is in a message or in a line to be added.
LineInv ==
    /\ Telegram => told \subseteq heard \cup unsaid
    /\ Sent.at \in {"load", "compose"} => Sent.marks = Sent.fails
    /\ Sent.at = "send" => Sent.alarms \subseteq Sent.marks /\ Sent.marks \subseteq Sent.alarms \cup Sent.edits
    /\ Telegram /\ Sent.at = "after" => Sent.marks \subseteq heard \cup unsaid \cup Sent.edits
    /\ Telegram /\ Sent.at = "mark" => Sent.marks \subseteq heard \cup unsaid

\* What the groups after a send no longer announce is cleared by it.
KeptInv ==
    /\ Sent.at = "send" => /\ Sent.recs \cup Announced(groups) \subseteq Sent.clears \cup Announced(Sent.kept)
                           /\ Sent.edits \subseteq Announced(Sent.kept)
    /\ Sent.at = "after" => /\ Announced(groups) \cap heard \subseteq Announced(Sent.kept)
                            /\ Sent.edits \subseteq Announced(Sent.kept)

DebtInv ==
    /\ Sent.at \notin {"after", "mark"} =>
            heard \subseteq told \cup lost \cup Announced(groups) \cup Parked \cup Sent.recs
    /\ Sent.at = "after" =>
            /\ heard \subseteq told \cup lost \cup Parked \cup Sent.marks \cup Announced(Sent.kept)
            /\ heard \subseteq told \cup lost \cup Parked \cup Sent.marks \cup Announced(groups) \cup Sent.recs
    /\ Sent.at = "mark" =>
            heard \subseteq told \cup lost \cup Parked \cup Sent.marks \cup Announced(groups)

SendInv == ReadInv /\ LineInv /\ KeptInv /\ DebtInv

USE GroupConstants DEF vars, Processes, Senders

-----------------------------------------------------------------------------
(* Groups and what _site_groups does to them.                              *)

Oks(M) == [M -> Ages(PARTIAL) \cup {Never}]

LEMMA GroupParts ==
    ASSUME NEW g \in Groups
    PROVE  /\ Members(g) \subseteq Sites /\ Members(g) # {} /\ g.ok \in Oks(Members(g))
           /\ g.last \in Ages(JOIN + 1) /\ g.solo \in BOOLEAN
           /\ g = [ok |-> g.ok, last |-> g.last, solo |-> g.solo]
BY DEF Groups, Members, Oks

LEMMA GroupMade ==
    ASSUME NEW M, M \subseteq Sites, M # {}, NEW ok \in Oks(M), NEW last \in Ages(JOIN + 1),
           NEW solo \in BOOLEAN
    PROVE  [ok |-> ok, last |-> last, solo |-> solo] \in Groups
BY DEF Groups, Oks

LEMMA AgesType ==
    /\ \A age \in Ages(JOIN + 1) : Older(age, JOIN + 1) \in Ages(JOIN + 1)
    /\ \A age \in Ages(PARTIAL) \cup {Never} : Older(age, PARTIAL) \in Ages(PARTIAL) \cup {Never}
    /\ 0 \in Ages(PARTIAL) /\ 0 \in Ages(JOIN + 1)
BY DEF Ages, Older

LEMMA AgedGroup ==
    ASSUME NEW g \in Groups
    PROVE  Aged(g) \in Groups /\ Members(Aged(g)) = Members(g) /\ Aged(g).solo = g.solo
<1> DEFINE ok == [m \in Members(g) |-> Older(g.ok[m], PARTIAL)]
<1>1. Aged(g) = [ok |-> ok, last |-> Older(g.last, JOIN + 1), solo |-> g.solo]
  BY DEF Aged
<1>2. ok \in Oks(Members(g))
  BY GroupParts, AgesType DEF Oks
<1>3. Older(g.last, JOIN + 1) \in Ages(JOIN + 1)
  BY GroupParts, AgesType
<1>4. Aged(g).ok = ok /\ DOMAIN ok = Members(g) /\ Aged(g).solo = g.solo
  BY <1>1
<1>5. Aged(g) \in Groups
  BY <1>1, <1>2, <1>3, GroupParts, GroupMade
<1> QED BY <1>4, <1>5 DEF Members

LEMMA NewGroupType ==
    ASSUME NEW fails, fails \subseteq Sites, fails # {}, NEW g \in NewGroups(fails)
    PROVE  g \in Groups
<1> DEFINE ok == [m \in fails |-> Never]
<1>1. ok \in Oks(fails) /\ 0 \in Ages(JOIN + 1)
  BY AgesType DEF Oks
<1>2. g.ok = ok /\ g.last = 0 /\ g.solo \in BOOLEAN /\ g = [ok |-> g.ok, last |-> g.last, solo |-> g.solo]
  BY DEF NewGroups
<1> HIDE DEF ok
<1> QED BY <1>1, <1>2, GroupMade

LEMMA JoinedGroup ==
    ASSUME NEW g \in Groups, NEW fails, fails \subseteq Sites
    PROVE  /\ Joined(g, fails) \in Groups /\ Members(Joined(g, fails)) = Members(g) \cup fails
           /\ ~Joined(g, fails).solo
<1> DEFINE ok == [m \in Members(g) \cup fails |-> IF m \in Members(g) THEN g.ok[m] ELSE Never]
<1>1. Members(g) \cup fails \subseteq Sites /\ Members(g) \cup fails # {}
  BY GroupParts
<1>2. \A m \in Members(g) : g.ok[m] \in Ages(PARTIAL) \cup {Never}
  BY GroupParts DEF Oks
<1>3. \A m \in Members(g) \cup fails : (IF m \in Members(g) THEN g.ok[m] ELSE Never) \in Ages(PARTIAL) \cup {Never}
  BY <1>2
<1>4. ok \in Oks(Members(g) \cup fails)
  BY <1>3 DEF Oks
<1>5. Joined(g, fails) = [ok |-> ok, last |-> 0, solo |-> FALSE]
  BY DEF Joined
<1>6. Joined(g, fails).ok = ok /\ DOMAIN ok = Members(g) \cup fails /\ ~Joined(g, fails).solo
  BY <1>5
<1>7. Joined(g, fails) \in Groups
  <2> DEFINE M == Members(g) \cup fails
  <2>1. M \subseteq Sites /\ M # {} /\ ok \in Oks(M) /\ 0 \in Ages(JOIN + 1)
    BY <1>1, <1>4, AgesType
  <2> HIDE DEF ok, M
  <2>2. [ok |-> ok, last |-> 0, solo |-> FALSE] \in Groups
    BY <2>1, GroupMade
  <2> QED BY <1>5, <2>2
<1> QED BY <1>6, <1>7 DEF Members

LEMMA LookedGroup ==
    ASSUME NEW g \in Groups, NEW well
    PROVE  /\ Looked(g, well) \in Groups /\ Members(Looked(g, well)) = Members(g)
           /\ Looked(g, well).solo = g.solo /\ Good(Looked(g, well)) \subseteq well
<1> DEFINE ok == [m \in Members(g) |-> IF m \notin well THEN Never ELSE IF g.ok[m] = Never THEN 0 ELSE g.ok[m]]
<1>1. Looked(g, well) = [ok |-> ok, last |-> g.last, solo |-> g.solo]
  BY GroupParts DEF Looked
<1>2. ok \in Oks(Members(g))
  BY GroupParts, AgesType DEF Oks
<1> QED BY <1>1, <1>2, GroupParts, GroupMade DEF Members, Oks, Good

LEMMA ReadyGood == \A g : Ready(g) \subseteq Good(g) /\ Good(g) \subseteq Members(g) /\ (g.solo => Ready(g) = {})
BY DEF Ready, Good

LEMMA WithoutGroup ==
    ASSUME NEW g \in Groups, ~Stale(g)
    PROVE  /\ Without(g, Ready(g)) \in Groups
           /\ Members(Without(g, Ready(g))) = Members(g) \ Ready(g)
           /\ Without(g, Ready(g)).solo = g.solo
<1> DEFINE M == Members(g) \ Ready(g)
           ok == [m \in M |-> g.ok[m]]
<1>1. Without(g, Ready(g)) = [ok |-> ok, last |-> g.last, solo |-> g.solo]
  BY GroupParts DEF Without
<1>2. M \subseteq Sites /\ M # {}
  BY GroupParts, ReadyGood DEF Stale
<1>3. ok \in Oks(M)
  BY GroupParts DEF Oks
<1>4. Without(g, Ready(g)).ok = ok /\ DOMAIN ok = M /\ Without(g, Ready(g)).solo = g.solo
  BY <1>1
<1>5. Without(g, Ready(g)) \in Groups
  BY <1>1, <1>2, <1>3, GroupParts, GroupMade
<1> QED BY <1>4, <1>5 DEF Members

\* What becomes of the groups in a send: composed ones, looked at, and kept.
Looks(folded, well) == {Looked(h, well) : h \in folded}
Keeps(looked) == {Without(h, Ready(h)) : h \in {k \in looked : ~Stale(k)}}
Readies(looked) == UNION {Ready(h) : h \in looked}

LEMMA KeptGroups ==
    ASSUME NEW folded \in SUBSET Groups, NEW well
    PROVE  /\ Looks(folded, well) \subseteq Groups
           /\ Keeps(Looks(folded, well)) \subseteq Groups
           /\ Readies(Looks(folded, well)) \subseteq well \cap Sites
           /\ Announced(folded) \subseteq Announced(Keeps(Looks(folded, well))) \cup Readies(Looks(folded, well))
           /\ \A h \in Looks(folded, well) : ~h.solo => Members(h) \ Ready(h) \subseteq Announced(Keeps(Looks(folded, well)))
<1> DEFINE looked == Looks(folded, well)
           kept == Keeps(looked)
<1>1. looked \subseteq Groups
  BY LookedGroup DEF Looks
<1>2. kept \subseteq Groups
  BY <1>1, WithoutGroup DEF Keeps
<1>3. Readies(looked) \subseteq well \cap Sites
  <2> SUFFICES ASSUME NEW h \in looked PROVE Ready(h) \subseteq well \cap Sites
    BY DEF Readies
  <2>1. PICK g \in folded : h = Looked(g, well)
    BY DEF Looks
  <2> QED BY <1>1, <2>1, LookedGroup, ReadyGood, GroupParts
<1>4. \A h \in looked : ~h.solo => Members(h) \ Ready(h) \subseteq Announced(kept)
  <2> SUFFICES ASSUME NEW h \in looked, ~h.solo, NEW m \in Members(h) \ Ready(h)
               PROVE  m \in Announced(kept)
    OBVIOUS
  <2>1. h \in Groups /\ Good(h) \subseteq Members(h)
    BY <1>1, ReadyGood
  <2>2. CASE Stale(h)
    BY <2>2 DEF Stale
  <2>3. CASE ~Stale(h)
    <3>1. Without(h, Ready(h)) \in kept
      BY <2>3 DEF Keeps
    <3>2. m \in Members(Without(h, Ready(h))) /\ ~Without(h, Ready(h)).solo
      BY <2>1, <2>3, WithoutGroup
    <3> QED BY <3>1, <3>2 DEF Announced
  <2> QED BY <2>2, <2>3
<1>5. Announced(folded) \subseteq Announced(kept) \cup Readies(looked)
  <2> SUFFICES ASSUME NEW g \in folded, ~g.solo, NEW m \in Members(g)
               PROVE  m \in Announced(kept) \cup Readies(looked)
    BY DEF Announced
  <2> DEFINE h == Looked(g, well)
  <2>1. h \in looked /\ m \in Members(h) /\ ~h.solo
    BY LookedGroup DEF Looks
  <2>2. m \in Ready(h) => m \in Readies(looked)
    BY <2>1 DEF Readies
  <2> QED BY <1>4, <2>1, <2>2
<1> QED BY <1>1, <1>2, <1>3, <1>4, <1>5

\* fold and what it loses: nothing.
Folded(read, fails, g) ==
    IF fails = {} THEN read
    ELSE IF OpenFor(read) = {} THEN read \cup {g}
    ELSE (read \ {g}) \cup {Joined(g, fails)}
Choices(read, fails) == IF OpenFor(read) = {} THEN NewGroups(fails) ELSE OpenFor(read)

LEMMA FoldedGroups ==
    ASSUME NEW read, read \subseteq Groups, NEW fails, fails \subseteq Sites, NEW g \in Choices(read, fails)
    PROVE  /\ Folded(read, fails, g) \subseteq Groups
           /\ Announced(read) \subseteq Announced(Folded(read, fails, g))
           /\ OpenFor(read) # {} => g \in Groups
<1>1. OpenFor(read) # {} => g \in read
  BY DEF Choices, OpenFor
<1>2. CASE fails = {}
  BY <1>1, <1>2 DEF Folded
<1>3. CASE fails # {} /\ OpenFor(read) = {}
  BY <1>3, NewGroupType DEF Folded, Choices, Announced
<1>4. CASE fails # {} /\ OpenFor(read) # {}
  <2>1. /\ Joined(g, fails) \in Groups /\ Members(g) \subseteq Members(Joined(g, fails))
        /\ ~Joined(g, fails).solo
    BY <1>1, <1>4, JoinedGroup
  <2>2. Folded(read, fails, g) = (read \ {g}) \cup {Joined(g, fails)}
    BY <1>4 DEF Folded
  <2> QED BY <1>1, <1>4, <2>1, <2>2 DEF Announced
<1> QED BY <1>2, <1>3, <1>4

-----------------------------------------------------------------------------
(* _REC_RETRY.                                                             *)

LEMMA RetryParts ==
    ASSUME NEW parked \in Retries
    PROVE  /\ Held(parked) \subseteq Sites /\ Expired(parked) \subseteq Held(parked)
           /\ AgedRetry(parked) \in Retries /\ Held(AgedRetry(parked)) = Held(parked)
<1>1. Expired(parked) \subseteq Held(parked) /\ Held(parked) \subseteq Sites
  BY DEF Held, Expired
<1>2. ASSUME NEW age \in Ages(REC_RETRY_MAX) \cup {Never}
      PROVE  /\ Older(age, REC_RETRY_MAX) \in Ages(REC_RETRY_MAX) \cup {Never}
             /\ (Older(age, REC_RETRY_MAX) = Never) <=> (age = Never)
  BY DEF Ages, Older
<1>3. \A s \in Sites : parked[s] \in Ages(REC_RETRY_MAX) \cup {Never} /\ AgedRetry(parked)[s] = Older(parked[s], REC_RETRY_MAX)
  BY DEF Retries, AgedRetry
<1>4. AgedRetry(parked) \in Retries
  BY <1>2, <1>3 DEF Retries, AgedRetry
<1>5. Held(AgedRetry(parked)) = Held(parked)
  BY <1>2, <1>3 DEF Held
<1> QED BY <1>1, <1>4, <1>5

LEMMA RetryChanges ==
    ASSUME NEW parked \in Retries, NEW S
    PROVE  /\ Dropped(parked, S) \in Retries /\ Held(Dropped(parked, S)) = Held(parked) \ S
           /\ Added(parked, S) \in Retries /\ Held(Added(parked, S)) = Held(parked) \cup (S \cap Sites)
<1>1. Dropped(parked, S) \in Retries /\ Added(parked, S) \in Retries
  BY DEF Retries, Dropped, Added, Ages
<1>2. Held(Dropped(parked, S)) = Held(parked) \ S
  BY DEF Held, Dropped
<1>3. Held(Added(parked, S)) = Held(parked) \cup (S \cap Sites)
  BY DEF Held, Added
<1> QED BY <1>1, <1>2, <1>3

LEMMA NoRetry == [s \in Sites |-> Never] \in Retries /\ Held([s \in Sites |-> Never]) = {}
BY DEF Retries, Held

-----------------------------------------------------------------------------
(* Types.                                                                  *)

Stages == {"idle", "load", "compose", "send", "after", "mark"}
Jobs ==
    [at : Stages, fails : SUBSET Sites, recs : SUBSET Sites, marks : SUBSET Sites,
     read : SUBSET Groups, kept : SUBSET Groups,
     alarms : SUBSET Sites, clears : SUBSET Sites, edits : SUBSET Sites]

LEMMA IdleJob == Idle \in Jobs /\ Idle.marks = {}
BY DEF Idle, Begun, Jobs, Stages

LEMMA JobParts ==
    ASSUME TypeInv
    PROVE  /\ job \in [Senders -> Jobs] /\ retry \in [Processes -> Retries]
           /\ \A p : ProcessOf(p) \in Processes
           /\ \A p \in Senders :
                /\ job[p] \in Jobs /\ job[p].at \in Stages
                /\ job[p].fails \subseteq Sites /\ job[p].recs \subseteq Sites
                /\ job[p].marks \subseteq Sites /\ job[p].read \subseteq Groups /\ job[p].kept \subseteq Groups
                /\ job[p].alarms \subseteq Sites /\ job[p].clears \subseteq Sites /\ job[p].edits \subseteq Sites
<1>1. job \in [Senders -> Jobs] /\ retry \in [Processes -> Retries]
  BY DEF TypeInv, TypeOK, Jobs, Stages
<1>2. \A p : ProcessOf(p) \in Processes
  BY DEF ProcessOf
<1> QED BY <1>1, <1>2 DEF Jobs

\* What a send hands over, and which groups it will save.
LooksOf(j, g) == Looks(Folded(j.read, j.fails, g), Well(j.fails, j.recs))
AlarmsOf(j) == IF OpenFor(j.read) = {} THEN j.fails ELSE {}
ClearsOf(j, g) == (j.recs \ Announced(Folded(j.read, j.fails, g))) \cup Readies(LooksOf(j, g))
EditsOf(j, g) ==
    IF OpenFor(j.read) = {} \/ j.fails = {} THEN {}
    ELSE LET h == Looked(Joined(g, j.fails), Well(j.fails, j.recs)) IN Members(h) \ Ready(h)

LEMMA Composed ==
    ASSUME TypeInv, NEW p \in Senders, Compose(p)
    PROVE  \E g \in Choices(job[p].read, job[p].fails) :
            job' = [job EXCEPT ![p] = Handed(job[p], Keeps(LooksOf(job[p], g)), AlarmsOf(job[p]),
                                             ClearsOf(job[p], g), EditsOf(job[p], g))]
BY Zenon DEF Compose, Choices, Folded, Looks, Keeps, Readies, LooksOf, AlarmsOf, ClearsOf, EditsOf

LEMMA ComposedType ==
    ASSUME TypeInv, NEW p \in Senders, NEW g \in Choices(job[p].read, job[p].fails)
    PROVE  /\ Keeps(LooksOf(job[p], g)) \subseteq Groups
           /\ AlarmsOf(job[p]) \subseteq Sites
           /\ ClearsOf(job[p], g) \subseteq Sites
           /\ EditsOf(job[p], g) \subseteq Sites
<1> DEFINE j == job[p]
           folded == Folded(j.read, j.fails, g)
           well == Well(j.fails, j.recs)
<1>1. j.read \subseteq Groups /\ j.fails \subseteq Sites /\ j.recs \subseteq Sites
  BY JobParts
<1>2. folded \subseteq Groups /\ (OpenFor(j.read) # {} => g \in Groups)
  BY <1>1, FoldedGroups
<1>3. Keeps(LooksOf(j, g)) \subseteq Groups /\ Readies(LooksOf(j, g)) \subseteq Sites
  <2>1. LooksOf(j, g) = Looks(folded, well)
    BY DEF LooksOf
  <2> HIDE DEF folded, well
  <2>2. Keeps(Looks(folded, well)) \subseteq Groups /\ Readies(Looks(folded, well)) \subseteq Sites
    BY <1>2, KeptGroups
  <2> QED BY <2>1, <2>2
<1>4. EditsOf(j, g) \subseteq Sites
  BY <1>1, <1>2, JoinedGroup, LookedGroup, GroupParts DEF EditsOf
<1> QED BY <1>1, <1>3, <1>4 DEF AlarmsOf, ClearsOf

LEMMA TypeInit == Init => TypeInv
BY IdleJob, NoRetry DEF Init, TypeInv, TypeOK, MarkedBad, Jobs, Stages

LEMMA RecordType ==
    ASSUME TypeInv, NEW p \in Senders, NEW S \in SUBSET Sites, NEW down \in SUBSET S, Record(p, S, down)
    PROVE  TypeInv'
<1> DEFINE closed == (S \ down) \cap bad
           fails == down \ told
           recs == closed \cap told
<1>1. /\ bad' = (bad \cup down) \ closed /\ told' = told \ closed
      /\ UNCHANGED <<groups, retry, heard, faults, lost, unsaid>>
  BY DEF Record
<1>2. \A q \in Senders \ {p} : job'[q] = [job[q] EXCEPT !.marks = @ \ closed]
  BY DEF Record
<1>3. job'[p] \in {Begun("load", fails, recs), Idle}
  BY DEF Record
<1>4. job' = [q \in Senders |-> job'[q]]
  BY DEF Record
<1>5. bad \subseteq Sites /\ told \subseteq bad /\ \A q \in Senders : job[q].marks \subseteq bad
  BY DEF TypeInv, TypeOK, MarkedBad
<1>6. job'[p] \in Jobs /\ job'[p].marks \subseteq bad'
  <2>1. fails \subseteq bad' /\ fails \subseteq Sites /\ recs \subseteq Sites
    BY <1>1, <1>5
  <2> HIDE DEF fails, recs
  <2>2. Begun("load", fails, recs) \in Jobs /\ Begun("load", fails, recs).marks = fails
    BY <2>1 DEF Begun, Jobs, Stages
  <2> QED BY <1>3, <2>1, <2>2, IdleJob
<1>7. ASSUME NEW q \in Senders \ {p} PROVE job'[q] \in Jobs /\ job'[q].marks \subseteq bad'
  <2>1. job[q] \in Jobs
    BY JobParts
  <2>2. [job[q] EXCEPT !.marks = @ \ closed] \in Jobs
    BY <1>5, <2>1 DEF Jobs
  <2>3. [job[q] EXCEPT !.marks = @ \ closed].marks = job[q].marks \ closed
    BY <2>1 DEF Jobs
  <2> QED BY <1>1, <1>2, <1>5, <2>2, <2>3
<1>8. job' \in [Senders -> Jobs] /\ MarkedBad'
  BY <1>4, <1>6, <1>7 DEF MarkedBad
<1>9. TypeOK'
  BY <1>1, <1>5, <1>8 DEF TypeInv, TypeOK, Jobs, Stages
<1> QED BY <1>8, <1>9 DEF TypeInv

\* A step of a send keeps the types when the one job it changes has its type.
LEMMA JobStep ==
    ASSUME TypeInv, NEW p \in Senders, NEW j \in Jobs, job' = [job EXCEPT ![p] = j],
           j.marks \subseteq job[p].marks, bad' = bad
    PROVE  job' \in [Senders -> Jobs] /\ MarkedBad'
BY JobParts DEF TypeInv, MarkedBad

LEMMA FaultType == ASSUME TypeInv, NEW kind, Fault(kind) PROVE faults' \in 0..MaxFaults
BY DEF TypeInv, TypeOK, Fault

LEMMA StepType ==
    ASSUME TypeInv, NEW p \in Senders, Step(p)
    PROVE  TypeInv'
<1> DEFINE j == job[p]
<1> USE DEF TypeInv, TypeOK
<1>1. /\ j \in Jobs /\ j.at \in Stages /\ j.fails \subseteq Sites /\ j.recs \subseteq Sites
      /\ j.marks \subseteq Sites /\ j.read \subseteq Groups /\ j.kept \subseteq Groups
      /\ j.alarms \subseteq Sites /\ j.clears \subseteq Sites /\ j.edits \subseteq Sites
  BY JobParts
<1>2. /\ j.marks \subseteq bad /\ ProcessOf(p) \in Processes
      /\ job \in [Senders -> Jobs] /\ retry[ProcessOf(p)] \in Retries
  BY JobParts DEF MarkedBad
<1>3. CASE Load(p)
  <2> DEFINE parked == retry[ProcessOf(p)]
             want == Held(parked) \ (Expired(parked) \cup j.recs)
             gone == Expired(parked) \cup (want \cap bad)
             next == [j EXCEPT !.at = "compose", !.read = groups, !.recs = @ \cup (want \ bad)]
  <2>1. Held(parked) \subseteq Sites /\ Dropped(parked, gone) \in Retries
    BY <1>2, RetryParts, RetryChanges
  <2>2. want \subseteq Sites
    BY <2>1
  <2>3. /\ job' = [job EXCEPT ![p] = next]
        /\ retry' = [retry EXCEPT ![ProcessOf(p)] = Dropped(parked, gone)]
        /\ lost' \subseteq lost \cup heard /\ UNCHANGED <<bad, told, groups, heard, faults, unsaid>>
    BY <1>3 DEF Load
  <2> HIDE DEF want, gone, parked
  <2>4. next \in Jobs /\ next.marks = j.marks
    BY <1>1, <2>2 DEF Jobs, Stages
  <2> HIDE DEF next
  <2>5. job' \in [Senders -> Jobs] /\ MarkedBad'
    BY <2>3, <2>4, JobStep
  <2>6. retry' \in [Processes -> Retries]
    BY <1>2, <2>1, <2>3
  <2> QED BY <2>3, <2>5, <2>6 DEF Jobs, Stages
<1>4. CASE Compose(p)
  <2>1. PICK g \in Choices(j.read, j.fails) :
            job' = [job EXCEPT ![p] = Handed(j, Keeps(LooksOf(j, g)), AlarmsOf(j), ClearsOf(j, g), EditsOf(j, g))]
    BY <1>4, Composed
  <2>2. /\ Handed(j, Keeps(LooksOf(j, g)), AlarmsOf(j), ClearsOf(j, g), EditsOf(j, g)) \in Jobs
        /\ Handed(j, Keeps(LooksOf(j, g)), AlarmsOf(j), ClearsOf(j, g), EditsOf(j, g)).marks = j.marks
    BY <1>1, ComposedType DEF Handed, Jobs, Stages
  <2>3. job' \in [Senders -> Jobs] /\ MarkedBad'
    BY <1>4, <2>1, <2>2, JobStep DEF Compose
  <2> QED BY <1>4, <2>3 DEF Compose, Jobs, Stages
<1>5. CASE ComposeFails(p)
  <2>1. Handed(j, j.read, j.fails, j.recs, {}) \in Jobs /\ Handed(j, j.read, j.fails, j.recs, {}).marks = j.marks
    BY <1>1 DEF Handed, Jobs, Stages
  <2>2. job' \in [Senders -> Jobs] /\ MarkedBad'
    BY <1>5, <2>1, JobStep DEF ComposeFails
  <2> QED BY <1>5, <2>2, FaultType DEF ComposeFails, Jobs, Stages
<1>6. CASE DispatchOk(p)
  <2>1. /\ [j EXCEPT !.at = "after", !.alarms = {}, !.clears = {}] \in Jobs
        /\ [j EXCEPT !.at = "after", !.alarms = {}, !.clears = {}].marks = j.marks
    BY <1>1 DEF Jobs, Stages
  <2>2. job' = [job EXCEPT ![p] = [j EXCEPT !.at = "after", !.alarms = {}, !.clears = {}]]
    BY <1>6 DEF DispatchOk
  <2>3. job' \in [Senders -> Jobs] /\ MarkedBad'
    BY <1>6, <2>1, <2>2, JobStep DEF DispatchOk
  <2>4. retry' \in [Processes -> Retries]
    BY <1>2, <1>6, RetryChanges DEF DispatchOk
  <2> QED BY <1>1, <1>6, <2>3, <2>4 DEF DispatchOk, Jobs, Stages
<1>7. CASE DispatchFail(p)
  <2>1. job' \in [Senders -> Jobs] /\ MarkedBad'
    BY <1>7, IdleJob, JobStep DEF DispatchFail
  <2>2. retry' \in [Processes -> Retries]
    BY <1>1, <1>2, <1>7, RetryChanges DEF DispatchFail
  <2> QED BY <1>7, <2>1, <2>2, FaultType DEF DispatchFail, Jobs, Stages
<1>8. CASE After(p) \/ AfterFails(p)
  <2>1. [j EXCEPT !.at = "mark"] \in Jobs /\ [j EXCEPT !.at = "mark"].marks = j.marks
    BY <1>1 DEF Jobs, Stages
  <2>2. job' = [job EXCEPT ![p] = [j EXCEPT !.at = "mark"]] /\ bad' = bad
    BY <1>8 DEF After, AfterFails
  <2>3. job' \in [Senders -> Jobs] /\ MarkedBad'
    BY <2>1, <2>2, JobStep
  <2>4. groups' \subseteq Groups
    BY <1>1, <1>8 DEF After, AfterFails, Saved
  <2>5. heard' \subseteq Sites /\ unsaid' \subseteq Sites /\ lost' \subseteq Sites
    BY <1>1, <1>8 DEF After, AfterFails
  <2>6. told' = told /\ retry' = retry /\ faults' \in 0..MaxFaults
    BY <1>8, FaultType DEF After, AfterFails
  <2> QED BY <2>2, <2>3, <2>4, <2>5, <2>6 DEF Jobs, Stages
<1>9. CASE Mark(p)
  <2>1. job' \in [Senders -> Jobs] /\ MarkedBad'
    BY <1>9, IdleJob, JobStep DEF Mark
  <2> QED BY <1>2, <1>9, <2>1 DEF Mark, Jobs, Stages
<1> QED BY <1>3, <1>4, <1>5, <1>6, <1>7, <1>8, <1>9 DEF Step

LEMMA TypeNext == TypeInv /\ [Next]_vars => TypeInv'
<1> SUFFICES ASSUME TypeInv, [Next]_vars PROVE TypeInv'
  OBVIOUS
<1>1. CASE Tick
  <2>1. retry' \in [Processes -> Retries]
    BY <1>1, RetryParts DEF Tick, TypeInv, TypeOK
  <2> QED BY <1>1, <2>1, AgedGroup DEF Tick, TypeInv, TypeOK, MarkedBad
<1>2. ASSUME NEW p \in Senders, Check(p) PROVE TypeInv'
  <2>1. PICK S \in SUBSET Sites : \E down \in SUBSET S : Record(p, S, down)
    BY <1>2 DEF Check
  <2> QED BY <2>1, RecordType
<1>3. ASSUME NEW p \in Senders, Step(p) PROVE TypeInv'
  BY <1>3, StepType
<1>4. ASSUME NEW q \in Processes, Crash(q) PROVE TypeInv'
  <2>1. job' \in [Senders -> Jobs]
    BY <1>4, JobParts, IdleJob DEF Crash
  <2>2. MarkedBad'
    BY <1>4, JobParts, IdleJob DEF Crash, TypeInv, MarkedBad
  <2>3. retry' \in [Processes -> Retries]
    BY <1>4, JobParts, NoRetry DEF Crash
  <2>4. faults' \in 0..MaxFaults
    BY <1>4, FaultType DEF Crash
  <2>5. lost' \subseteq Sites
    BY <1>4 DEF Crash, TypeInv, TypeOK
  <2> QED BY <1>4, <2>1, <2>2, <2>3, <2>4, <2>5 DEF Crash, TypeInv, TypeOK, Jobs, Stages
<1>5. CASE UNCHANGED vars
  BY <1>5 DEF TypeInv, TypeOK, MarkedBad
<1> QED BY <1>1, <1>2, <1>3, <1>4, <1>5 DEF Next

\* Every variable keeps its type, and the marks a send still has to write
\* are of open episodes (_send_alerts, after(), _REC_RETRY).
THEOREM TypeCorrect == Spec => []TypeOK
<1>1. TypeInv => TypeOK
  BY DEF TypeInv
<1> QED BY <1>1, TypeInit, TypeNext, PTL DEF Spec

-----------------------------------------------------------------------------
(* The scheduler as the only sender.                                       *)

LEMMA Alone ==
    ASSUME Webs = {}, TypeInv
    PROVE  /\ Senders = {Scheduler} /\ ProcessOf(Scheduler) = "scheduler"
           /\ Sent \in Jobs /\ Sent.at \in Stages /\ Sent.marks \subseteq bad
           /\ bad \subseteq Sites /\ told \subseteq bad
           /\ Sent.fails \subseteq Sites /\ Sent.recs \subseteq Sites /\ Sent.read \subseteq Groups
           /\ job \in [Senders -> Jobs] /\ retry \in [Processes -> Retries]
<1>1. Scheduler \in Senders /\ Senders = {Scheduler} /\ ProcessOf(Scheduler) = "scheduler"
  BY DEF ProcessOf
<1>2. bad \subseteq Sites /\ told \subseteq bad /\ Sent.marks \subseteq bad
  BY <1>1 DEF TypeInv, TypeOK, MarkedBad, Sent
<1> QED BY <1>1, <1>2, JobParts DEF Sent

\* What a composed send promises.
LEMMA ComposedSound ==
    ASSUME Webs = {}, TypeInv, ReadInv, Sent.marks = Sent.fails, Sent.at = "compose",
           NEW g \in Choices(Sent.read, Sent.fails)
    PROVE  /\ ClearsOf(Sent, g) \cap bad = {}
           /\ AlarmsOf(Sent) \subseteq Sent.marks /\ Sent.marks \subseteq AlarmsOf(Sent) \cup EditsOf(Sent, g)
           /\ Sent.recs \cup Announced(groups) \subseteq ClearsOf(Sent, g) \cup Announced(Keeps(LooksOf(Sent, g)))
           /\ EditsOf(Sent, g) \subseteq Announced(Keeps(LooksOf(Sent, g)))
<1> DEFINE j == Sent
           folded == Folded(j.read, j.fails, g)
           well == Well(j.fails, j.recs)
           looked == Looks(folded, well)
           h == Looked(Joined(g, j.fails), well)
<1>1. j.read \subseteq Groups /\ j.fails \subseteq Sites /\ j.recs \subseteq Sites /\ j.read = groups /\ j.recs \cap bad = {}
  BY Alone DEF ReadInv
<1>2. /\ folded \subseteq Groups /\ Announced(groups) \subseteq Announced(folded)
      /\ OpenFor(j.read) # {} => g \in Groups
  BY <1>1, FoldedGroups
<1>3. well \cap bad = {} /\ well \cap j.fails = {}
  BY <1>1 DEF Well
<1>4. /\ Readies(looked) \subseteq well
      /\ Announced(folded) \subseteq Announced(Keeps(looked)) \cup Readies(looked)
      /\ \A k \in looked : ~k.solo => Members(k) \ Ready(k) \subseteq Announced(Keeps(looked))
  <2> HIDE DEF folded, well
  <2> QED BY <1>2, KeptGroups
<1>5. LooksOf(j, g) = looked /\ ClearsOf(j, g) = (j.recs \ Announced(folded)) \cup Readies(looked)
  BY DEF LooksOf, ClearsOf
<1>6. ASSUME OpenFor(j.read) # {}, j.fails # {}
      PROVE  /\ EditsOf(j, g) = Members(h) \ Ready(h)
             /\ h \in looked /\ ~h.solo /\ j.fails \subseteq Members(h) /\ Ready(h) \cap j.fails = {}
  <2>1. EditsOf(j, g) = Members(h) \ Ready(h)
    BY <1>6 DEF EditsOf
  <2>2. Joined(g, j.fails) \in folded
    BY <1>6 DEF Folded
  <2>3. Joined(g, j.fails) \in Groups /\ j.fails \subseteq Members(Joined(g, j.fails)) /\ ~Joined(g, j.fails).solo
    BY <1>1, <1>2, <1>6, JoinedGroup
  <2>4. h \in looked
    BY <2>2 DEF Looks
  <2>5. ~h.solo /\ Members(h) = Members(Joined(g, j.fails)) /\ Good(h) \subseteq well
    <3> HIDE DEF well
    <3> QED BY <2>3, LookedGroup
  <2> HIDE DEF h, well, looked
  <2> QED BY <1>3, <2>1, <2>3, <2>4, <2>5, ReadyGood
<1> HIDE DEF folded, well, looked, h
<1>7. /\ AlarmsOf(j) \subseteq j.marks /\ j.marks \subseteq AlarmsOf(j) \cup EditsOf(j, g)
      /\ EditsOf(j, g) \subseteq Announced(Keeps(looked))
  <2>1. CASE OpenFor(j.read) = {} \/ j.fails = {}
    BY <2>1 DEF AlarmsOf, EditsOf
  <2>2. CASE OpenFor(j.read) # {} /\ j.fails # {}
    BY <1>4, <1>6, <2>2 DEF AlarmsOf
  <2> QED BY <2>1, <2>2
<1> QED BY <1>1, <1>2, <1>3, <1>4, <1>5, <1>7

LEMMA AgedAnnounced ==
    ASSUME NEW G, G \subseteq Groups
    PROVE  Announced({Aged(g) : g \in G}) = Announced(G)
<1>1. \A g \in G : Members(Aged(g)) = Members(g) /\ Aged(g).solo = g.solo
  BY AgedGroup
<1> QED BY <1>1 DEF Announced

LEMMA SendInit == Webs = {} /\ Init => SendInv
<1> SUFFICES ASSUME Webs = {}, Init PROVE SendInv
  OBVIOUS
<1>1. Sent = Idle /\ Idle.at = "idle" /\ Idle.recs = {} /\ Idle.clears = {}
  BY DEF Init, Sent, Idle, Begun
<1> QED BY <1>1, NoRetry DEF Init, SendInv, ReadInv, LineInv, KeptInv, DebtInv

\* One step of the scheduler's send: the invariant holds after it, and it
\* takes nobody from the groups whom the chat still names.
Keeping == SendInv' /\ Announced(groups) \cap heard' \subseteq Announced(groups')

LEMMA IdleParts == Idle.at = "idle" /\ Idle.recs = {} /\ Idle.marks = {} /\ Idle.clears = {}
BY DEF Idle, Begun

LEMMA StepKeeps ==
    ASSUME Webs = {}, TypeInv, SendInv, Step(Scheduler)
    PROVE  Keeping
<1> DEFINE j == Sent
           parked == Held(retry["scheduler"])
<1> USE DEF Keeping, SendInv, ReadInv, LineInv, KeptInv, DebtInv
<1>1. /\ Scheduler \in Senders /\ ProcessOf(Scheduler) = "scheduler" /\ j = job[Scheduler]
      /\ j \in Jobs /\ j.marks \subseteq bad /\ told \subseteq bad
      /\ job \in [Senders -> Jobs] /\ retry \in [Processes -> Retries]
  BY Alone DEF Sent
<1>2. Parked = parked /\ Held(retry["web"]) = {}
  BY <1>1 DEF Parked
<1>3. ASSUME Held(retry'["web"]) = {} PROVE Parked' = Held(retry'["scheduler"])
  BY <1>3 DEF Parked
<1>11. retry["scheduler"] \in Retries /\ parked \subseteq Sites
  BY <1>1, RetryParts
<1>4. CASE Load(Scheduler)
  <2> DEFINE old == Expired(retry["scheduler"])
             want == parked \ (old \cup j.recs)
  <2>1. /\ j.at = "load" /\ Sent'.at = "compose" /\ Sent'.read = groups /\ Sent'.fails = j.fails
        /\ Sent'.marks = j.marks /\ Sent'.clears = j.clears
        /\ Sent'.recs = j.recs \cup (want \ bad)
    BY <1>1, <1>4 DEF Load, Sent, Jobs
  <2>2. /\ retry' = [retry EXCEPT !["scheduler"] = Dropped(retry["scheduler"], old \cup (want \cap bad))]
        /\ lost' = lost \cup (heard \cap ((old \ j.recs) \cup (want \cap bad)))
        /\ UNCHANGED <<bad, told, groups, heard, unsaid>>
    BY <1>1, <1>4 DEF Load
  <2>3. /\ Held(retry'["web"]) = {}
        /\ Held(retry'["scheduler"]) = parked \ (old \cup (want \cap bad))
    BY <1>1, <1>2, <1>11, <2>2, RetryChanges
  <2>4. ReadInv' /\ LineInv' /\ KeptInv'
    BY <2>1, <2>2, <2>3
  <2>5. DebtInv'
    <3>1. Parked' = parked \ (old \cup (want \cap bad))
      BY <1>3, <2>3
    <3>2. heard \subseteq told \cup lost \cup Announced(groups) \cup parked \cup j.recs
      BY <1>2, <2>1
    <3> HIDE DEF parked, old, j
    <3> QED BY <2>1, <2>2, <3>1, <3>2
  <2> QED BY <2>2, <2>4, <2>5
<1>5. CASE Compose(Scheduler)
  <2>1. PICK g \in Choices(j.read, j.fails) :
            job' = [job EXCEPT ![Scheduler] = Handed(j, Keeps(LooksOf(j, g)), AlarmsOf(j), ClearsOf(j, g), EditsOf(j, g))]
    BY <1>1, <1>5, Composed
  <2>2. /\ j.at = "compose" /\ Sent'.at = "send" /\ Sent'.read = j.read /\ Sent'.recs = j.recs /\ Sent'.marks = j.marks
        /\ Sent'.kept = Keeps(LooksOf(j, g)) /\ Sent'.alarms = AlarmsOf(j)
        /\ Sent'.clears = ClearsOf(j, g) /\ Sent'.edits = EditsOf(j, g)
    BY <1>1, <1>5, <2>1 DEF Compose, Sent, Handed
  <2>3. UNCHANGED <<bad, told, groups, retry, heard, lost, unsaid>> /\ Parked' = Parked
    BY <1>5 DEF Compose, Parked
  <2>4. /\ ClearsOf(j, g) \cap bad = {}
        /\ AlarmsOf(j) \subseteq j.marks /\ j.marks \subseteq AlarmsOf(j) \cup EditsOf(j, g)
        /\ j.recs \cup Announced(groups) \subseteq ClearsOf(j, g) \cup Announced(Keeps(LooksOf(j, g)))
        /\ EditsOf(j, g) \subseteq Announced(Keeps(LooksOf(j, g)))
    BY <2>2, ComposedSound
  <2> QED BY <2>2, <2>3, <2>4
<1>6. CASE ComposeFails(Scheduler)
  <2>1. /\ j.at = "compose" /\ Sent'.at = "send" /\ Sent'.read = j.read /\ Sent'.recs = j.recs /\ Sent'.marks = j.marks
        /\ Sent'.kept = j.read /\ Sent'.alarms = j.fails /\ Sent'.clears = j.recs /\ Sent'.edits = {}
    BY <1>1, <1>6 DEF ComposeFails, Sent, Handed
  <2>2. UNCHANGED <<bad, told, groups, retry, heard, lost, unsaid>> /\ Parked' = Parked
    BY <1>6 DEF ComposeFails, Parked
  <2> QED BY <2>1, <2>2
<1>7. CASE DispatchOk(Scheduler)
  <2>1. /\ j.at = "send" /\ Sent'.at = "after" /\ Sent'.read = j.read /\ Sent'.recs = j.recs /\ Sent'.marks = j.marks
        /\ Sent'.kept = j.kept /\ Sent'.edits = j.edits /\ Sent'.clears = {}
    BY <1>1, <1>7 DEF DispatchOk, Sent, Jobs
  <2>2. /\ heard' = (heard \cup j.alarms) \ j.clears /\ lost' = lost \ j.clears
        /\ unsaid' = unsaid \ (j.alarms \cup j.clears) /\ UNCHANGED <<bad, told, groups>>
    BY <1>1, <1>7 DEF DispatchOk
  <2>3. Held(retry'["web"]) = {} /\ Held(retry'["scheduler"]) = parked \ j.recs
    BY <1>1, <1>2, <1>7, <1>11, RetryChanges DEF DispatchOk
  <2>4. Parked' = parked \ j.recs
    BY <1>3, <2>3
  <2>5. ReadInv' /\ KeptInv'
    BY <2>1, <2>2, <2>3
  <2>6. LineInv'
    BY <1>1, <2>1, <2>2
  <2>7. DebtInv'
    BY <1>2, <2>1, <2>2, <2>4
  <2> QED BY <2>2, <2>5, <2>6, <2>7
<1>8. CASE DispatchFail(Scheduler)
  <2>1. j.at = "send" /\ Sent' = Idle /\ UNCHANGED <<bad, told, groups, heard, lost, unsaid>>
    BY <1>1, <1>8 DEF DispatchFail, Sent
  <2>2. Held(retry'["web"]) = {} /\ Held(retry'["scheduler"]) = parked \cup j.recs
    BY <1>1, <1>2, <1>8, <1>11, JobParts, RetryChanges DEF DispatchFail
  <2>3. Parked' = parked \cup j.recs
    BY <1>3, <2>2
  <2> QED BY <1>2, <2>1, <2>2, <2>3, IdleParts
<1>9. CASE After(Scheduler) \/ AfterFails(Scheduler)
  <2>1. /\ j.at = "after" /\ Sent'.at = "mark" /\ Sent'.recs = j.recs /\ Sent'.marks = j.marks
        /\ Sent'.clears = j.clears
    BY <1>1, <1>9 DEF After, AfterFails, Sent, Jobs
  <2>2. Saved(j) = j.kept /\ UNCHANGED <<bad, told, retry>> /\ Parked' = Parked
    BY <1>9, <2>1 DEF After, AfterFails, Saved, Parked
  <2>3. CASE After(Scheduler)
    <3>1. /\ groups' = j.kept /\ lost' = lost
          /\ heard' = IF Telegram THEN heard \cup j.edits ELSE heard
          /\ unsaid' = IF Telegram THEN unsaid \ j.edits ELSE unsaid
      BY <1>1, <2>2, <2>3 DEF After
    <3> QED BY <2>1, <2>2, <3>1
  <2>4. CASE AfterFails(Scheduler)
    <3>1. /\ groups' \in {groups, j.kept} /\ lost' = lost \cup (heard \cap j.recs)
          /\ heard' = heard /\ unsaid' = unsaid \cup j.edits
      BY <1>1, <2>2, <2>4 DEF AfterFails
    <3> QED BY <2>1, <2>2, <3>1
  <2> QED BY <1>9, <2>3, <2>4
<1>10. CASE Mark(Scheduler)
  <2>1. /\ j.at = "mark" /\ Sent' = Idle /\ told' = told \cup j.marks
        /\ UNCHANGED <<bad, groups, retry, heard, lost, unsaid>> /\ Parked' = Parked
    BY <1>1, <1>10 DEF Mark, Sent, Parked
  <2> QED BY <2>1, IdleParts
<1> QED BY <1>4, <1>5, <1>6, <1>7, <1>8, <1>9, <1>10 DEF Step

LEMMA CheckKeeps ==
    ASSUME Webs = {}, TypeInv, SendInv, Check(Scheduler)
    PROVE  Keeping
<1> USE DEF Keeping, SendInv, ReadInv, LineInv, KeptInv, DebtInv
<1>1. PICK down \in SUBSET Sites : Record(Scheduler, Sites, down)
  BY DEF Check
<1> DEFINE closed == (Sites \ down) \cap bad
           fails == down \ told
           recs == closed \cap told
<1>2. /\ Sent.at = "idle" /\ bad' = (bad \cup down) \ closed /\ told' = told \ closed
      /\ UNCHANGED <<groups, retry, heard, lost, unsaid>> /\ Parked' = Parked
  BY <1>1 DEF Record, Sent, Parked
<1>3. Sent' = Begun("load", fails, recs) \/ (Sent' = Idle /\ recs = {})
  BY <1>1 DEF Record, Sent
<1>4. /\ Begun("load", fails, recs).at = "load" /\ Begun("load", fails, recs).recs = recs
      /\ Begun("load", fails, recs).fails = fails
      /\ Begun("load", fails, recs).marks = fails /\ Begun("load", fails, recs).clears = {}
  BY DEF Begun
<1>5. recs \cap bad' = {} /\ told \subseteq told' \cup recs
  BY <1>2
<1> HIDE DEF fails, recs
<1>6. CASE Sent' = Begun("load", fails, recs)
  BY <1>2, <1>4, <1>5, <1>6
<1>7. CASE Sent' = Idle /\ recs = {}
  BY <1>2, <1>5, <1>7, IdleParts
<1> QED BY <1>3, <1>6, <1>7

LEMMA SendNext ==
    ASSUME Webs = {}, TypeInv, SendInv, [Next]_vars
    PROVE  Keeping
<1>1. CASE Tick
  <2>1. /\ Sent.at = "idle" /\ groups' = {Aged(g) : g \in groups}
        /\ retry' = [q \in Processes |-> AgedRetry(retry[q])]
        /\ UNCHANGED <<bad, told, job, heard, lost, unsaid>>
    BY <1>1 DEF Tick, Sent
  <2>2. Announced(groups') = Announced(groups)
    BY <2>1, AgedAnnounced DEF TypeInv, TypeOK
  <2>3. \A q \in Processes : Held(retry'[q]) = Held(retry[q])
    BY <2>1, RetryParts DEF TypeInv, TypeOK
  <2>4. Sent' = Sent /\ Parked' = Parked
    BY <2>1, <2>3 DEF Sent, Parked
  <2> QED BY <2>1, <2>2, <2>3, <2>4 DEF Keeping, SendInv, ReadInv, LineInv, KeptInv, DebtInv
<1>2. ASSUME NEW p \in Senders, Check(p) PROVE Keeping
  BY <1>2, CheckKeeps
<1>3. ASSUME NEW p \in Senders, Step(p) PROVE Keeping
  BY <1>3, StepKeeps
<1>4. ASSUME NEW q \in Processes, Crash(q) PROVE Keeping
  <2>1. q = "scheduler" /\ Sent' = Idle
    BY <1>4, Alone DEF Crash, Sent, ProcessOf
  <2>2. /\ lost' = lost \cup (heard \cap (Held(retry["scheduler"]) \cup Sent.recs \cup Sent.marks))
        /\ UNCHANGED <<bad, told, groups, heard, unsaid>>
    BY <1>4, <2>1, Alone DEF Crash, Sent, ProcessOf
  <2>3. Held(retry["web"]) = {} /\ Held(retry'["web"]) = {} /\ Held(retry'["scheduler"]) = {}
    BY <1>4, <2>1, Alone, NoRetry DEF Crash, SendInv, ReadInv
  <2>4. Parked = Held(retry["scheduler"]) /\ Parked' = {}
    BY <2>3 DEF Parked
  <2> QED BY <2>1, <2>2, <2>3, <2>4, IdleParts, Alone DEF Keeping, SendInv, ReadInv, LineInv, KeptInv, DebtInv, Stages
<1>5. CASE UNCHANGED vars
  BY <1>5 DEF Keeping, SendInv, ReadInv, LineInv, KeptInv, DebtInv, Sent, Parked
<1> QED BY <1>1, <1>2, <1>3, <1>4, <1>5 DEF Next

LEMMA SendAlways ==
    ASSUME Webs = {}
    PROVE  Spec => [](TypeInv /\ SendInv)
<1>1. Init => TypeInv /\ SendInv
  BY TypeInit, SendInit
<1>2. TypeInv /\ SendInv /\ [Next]_vars => (TypeInv /\ SendInv)'
  BY TypeNext, SendNext DEF Keeping
<1> QED BY <1>1, <1>2, PTL DEF Spec

\* With a channel that can edit its messages, a monitor counts as told only
\* if the chat names it, or adding its line failed: after() and the marks of
\* _send_alerts, whatever is refused, raised or killed.
THEOREM WhatIsToldIsHeard ==
    ASSUME Webs = {}, Telegram
    PROVE  Spec => []ToldIsHeard
<1>1. SendInv => ToldIsHeard
  BY DEF SendInv, LineInv, ToldIsHeard
<1> QED BY <1>1, SendAlways, PTL

\* The all-clear of whatever the chat names as failing is always in an open
\* episode, a stored group, the send under way or _REC_RETRY, or was lost in
\* one of the ways OwedIsKept names.
THEOREM WhatIsOwedIsKept ==
    ASSUME Webs = {}
    PROVE  Spec => []OwedIsKept
<1>1. TypeInv /\ SendInv => OwedIsKept
  <2> SUFFICES ASSUME TypeInv, SendInv PROVE OwedIsKept
    OBVIOUS
  <2>1. Senders = {Scheduler} /\ Sent.at \in Stages /\ told \subseteq bad /\ Sent.marks \subseteq bad
    BY Alone
  <2> DEFINE waiting == UNION {Waiting(p) : p \in Senders}
  <2>2. waiting = Waiting(Scheduler)
    BY <2>1
  <2>3. waiting = IF Sent.at \in {"after", "mark"} THEN Sent.marks \cup Announced(Sent.kept) ELSE Sent.recs
    BY <2>2 DEF Waiting, Sent
  <2>4. heard \subseteq bad \cup lost \cup Announced(groups) \cup waiting \cup Parked
    <3> HIDE DEF waiting
    <3> QED BY <2>1, <2>3 DEF SendInv, DebtInv
  <2> QED BY <2>4 DEF OwedIsKept, Parked
<1> QED BY <1>1, SendAlways, PTL

\* No save of the groups (after() of _site_groups) takes out a monitor that
\* the chat still names: the two ways out of a group, Ready and Stale, leave
\* no announced member behind without its all-clear.
THEOREM MembersLeaveCleared ==
    ASSUME Webs = {}
    PROVE  Spec => ListedUntilCleared
<1>1. TypeInv /\ SendInv /\ [Next]_vars => [Announced(groups) \cap heard' \subseteq Announced(groups')]_vars
  BY SendNext DEF Keeping
<1> QED BY <1>1, SendAlways, PTL DEF Spec, ListedUntilCleared
=============================================================================
