------------------------ MODULE AgentCommandsProofs ------------------------
(***************************************************************************)
(* Theorems about AgentCommands, for any commands, requests and bounds.    *)
(*                                                                         *)
(* RouteInv is the inductive strengthening of OncePerRoute: what the agent *)
(* has heard on a route is no longer pending, so that the request it sends *)
(* next on that route cannot select it again.                              *)
(***************************************************************************)
EXTENDS AgentCommands, TLAPS

Given(r) == req[r] \in {"answered", "heard"}
SameRoute(r, s) == Route(r) = Route(s)

\* The agent waits for one answer on a route.
OneWait == \A r, s \in waits : SameRoute(r, s) => r = s
\* What the agent has begun it was told.
Heard == \A c \in Cmds, r \in Requests :
            <<c, r>> \in jobs \cup ran => req[r] = "heard" /\ c \in got[r]
\* What was handed out is pending no more.
Marked == \A r \in Requests, c \in Cmds :
            Given(r) /\ c \in got[r] => status[c] \notin {"none", "pending"}
\* The request under way on a route names nothing heard on that route.
Fresh == \A r, s \in Requests :
            /\ req[r] = "heard" /\ s \in waits /\ SameRoute(r, s)
            /\ req[s] \in {"taken", "answered"}
            => got[r] \cap got[s] = {}
\* Nothing is heard twice on a route.
HeardOnce == \A r, s \in Requests :
            req[r] = "heard" /\ req[s] = "heard" /\ SameRoute(r, s) /\ r # s
            => got[r] \cap got[s] = {}

RouteInv == OneWait /\ Heard /\ Marked /\ Fresh /\ HeardOnce

USE DEF rows, link, agent, vars

-----------------------------------------------------------------------------
(* Oldest selects pending commands of the server's tables.                 *)
LEMMA SelectedPending ==
    ASSUME NEW c \in Selected
    PROVE  c \in Cmds /\ status[c] = "pending"
<1>1. PICK q \in Queues : c \in Oldest(q)
  BY DEF Selected
<1>2. c \in q /\ status[c] = "pending"
  BY <1>1 DEF Oldest, Pending
<1> QED BY <1>1, <1>2 DEF Queues, Cmds

LEMMA TypeInit == Init => TypeOK
BY CommandConstants DEF Init, TypeOK, Statuses, Cmds

LEMMA TypeStep == TypeOK /\ [Next]_vars => TypeOK'
<1> SUFFICES ASSUME TypeOK, [Next]_vars PROVE TypeOK'
  OBVIOUS
<1> USE DEF TypeOK
<1>1. CASE \E c \in Cmds : Create(c)
  BY <1>1 DEF Create, Statuses
<1>2. CASE \E c \in Cmds : PollLoad(c)
  BY <1>2 DEF PollLoad
<1>3. CASE \E c \in Cmds : PollWrite(c)
  BY <1>3 DEF PollWrite, Statuses, Final
<1>4. CASE \E c \in Cmds : WaitLook(c)
  BY <1>4 DEF WaitLook, Verdicts
<1>5. CASE \E c \in Cmds : WaitLast(c)
  BY <1>5 DEF WaitLast, Verdicts
<1>6. CASE \E c \in Cmds : WaitWrite(c)
  BY <1>6 DEF WaitWrite, Verdicts, Statuses, Final
<1>7. CASE Sweep
  BY <1>7 DEF Sweep, Statuses, Final
<1>8. CASE Tick
  BY <1>8, CommandConstants DEF Tick
<1>9. CASE \E r \in Requests : Send(r)
  BY <1>9 DEF Send
<1>10. CASE \E r \in Requests : Take(r)
  <2>1. Selected \subseteq Cmds
    BY SelectedPending
  <2> QED BY <1>10, <2>1 DEF Take
<1>11. CASE \E r \in Requests : HandOut(r)
  BY <1>11 DEF HandOut, HandedOut, Statuses
<1>12. CASE \E r \in Requests : Abort(r)
  BY <1>12 DEF Abort
<1>13. CASE \E r \in Requests : Hear(r)
  BY <1>13 DEF Hear
<1>14. CASE \E r \in Requests : GiveUp(r)
  BY <1>14 DEF GiveUp
<1>15. CASE \E j \in jobs, ok \in BOOLEAN : Run(j, ok)
  <2>1. PICK j \in jobs, ok \in BOOLEAN : Run(j, ok)
    BY <1>15
  <2>2. [cmd |-> j[1], via |-> j[2], ok |-> ok, read |-> Unread] \in Results
    BY <2>1 DEF Results
  <2> QED BY <2>1, <2>2 DEF Run
<1>16. CASE \E p \in posts : PostLost(p)
  BY <1>16 DEF PostLost
<1>17. CASE \E p \in posts : PostLoad(p)
  <2>1. PICK p \in posts : PostLoad(p)
    BY <1>17
  <2>2. [p EXCEPT !.read = status[p.cmd]] \in Results
    BY <2>1 DEF Results
  <2> QED BY <2>1, <2>2 DEF PostLoad
<1>18. CASE \E p \in posts : PostStore(p)
  BY <1>18 DEF PostStore, Outcome, Results, Statuses, Final
<1>19. CASE Restart
  BY <1>19, CommandConstants DEF Restart
<1>20. CASE UNCHANGED vars
  BY <1>20
<1> QED
  BY <1>1, <1>2, <1>3, <1>4, <1>5, <1>6, <1>7, <1>8, <1>9, <1>10, <1>11, <1>12,
     <1>13, <1>14, <1>15, <1>16, <1>17, <1>18, <1>19, <1>20 DEF Next

(* Every reachable state has its type, whatever is lost or restarted.      *)
THEOREM TypeCorrect == Spec => []TypeOK
BY TypeInit, TypeStep, PTL DEF Spec

-----------------------------------------------------------------------------
LEMMA RouteInit == Init => RouteInv
BY DEF Init, RouteInv, OneWait, Heard, Marked, Fresh, HeardOnce, Given

\* A step that leaves the agent's requests alone and takes no status back to
\* "none" or "pending".
RowStep ==
    /\ UNCHANGED <<req, got>>
    /\ waits' \subseteq waits
    /\ jobs' \cup ran' \subseteq jobs \cup ran
    /\ \A c \in Cmds : status[c] \notin {"none", "pending"} => status'[c] \notin {"none", "pending"}

LEMMA RowStepKeeps == RouteInv /\ RowStep => RouteInv'
BY DEF RouteInv, RowStep, OneWait, Heard, Marked, Fresh, HeardOnce, Given

LEMMA RouteStep == TypeOK /\ RouteInv /\ [Next]_vars => RouteInv'
<1> SUFFICES ASSUME TypeOK, RouteInv, [Next]_vars PROVE RouteInv'
  OBVIOUS
<1>1. CASE \E c \in Cmds : Create(c)
  <2>1. RowStep
    BY <1>1 DEF RowStep, Create, TypeOK
  <2> QED BY <2>1, RowStepKeeps
<1>2. CASE \E c \in Cmds : PollLoad(c) \/ WaitLook(c) \/ WaitLast(c)
  <2>1. RowStep
    BY <1>2 DEF RowStep, PollLoad, WaitLook, WaitLast
  <2> QED BY <2>1, RowStepKeeps
<1>3. CASE \E c \in Cmds : PollWrite(c) \/ WaitWrite(c)
  <2>1. RowStep
    BY <1>3 DEF RowStep, PollWrite, WaitWrite, TypeOK
  <2> QED BY <2>1, RowStepKeeps
<1>4. CASE Sweep
  <2>1. RowStep
    BY <1>4 DEF RowStep, Sweep
  <2> QED BY <2>1, RowStepKeeps
<1>5. CASE Tick \/ UNCHANGED vars
  <2>1. RowStep
    BY <1>5 DEF RowStep, Tick
  <2> QED BY <2>1, RowStepKeeps
<1>6. CASE \E r \in Requests : GiveUp(r)
  <2>1. RowStep
    BY <1>6 DEF RowStep, GiveUp
  <2> QED BY <2>1, RowStepKeeps
<1>7. CASE \E j \in jobs, ok \in BOOLEAN : Run(j, ok)
  <2>1. RowStep
    BY <1>7 DEF RowStep, Run
  <2> QED BY <2>1, RowStepKeeps
<1>8. CASE \E p \in posts : PostLost(p) \/ PostLoad(p)
  <2>1. RowStep
    BY <1>8 DEF RowStep, PostLost, PostLoad
  <2> QED BY <2>1, RowStepKeeps
<1>9. CASE \E p \in posts : PostStore(p)
  <2>1. RowStep
    BY <1>9 DEF RowStep, PostStore, Outcome, TypeOK
  <2> QED BY <2>1, RowStepKeeps
<1>10. CASE Restart
  <2>1. RowStep
    BY <1>10 DEF RowStep, Restart
  <2> QED BY <2>1, RowStepKeeps
<1>11. ASSUME NEW r \in Requests, Send(r) PROVE RouteInv'
  <2> USE <1>11 DEF Send
  <2>1. OneWait'
    BY DEF RouteInv, OneWait, SameRoute, Route, TypeOK, Requests
  <2>2. Heard' /\ Marked' /\ HeardOnce'
    BY DEF RouteInv, Heard, Marked, HeardOnce, Given, TypeOK
  <2>3. Fresh'
    BY DEF RouteInv, Fresh, TypeOK
  <2> QED BY <2>1, <2>2, <2>3 DEF RouteInv
<1>12. ASSUME NEW r \in Requests, Take(r) PROVE RouteInv'
  <2> USE <1>12 DEF Take
  <2>1. \A c \in Selected : c \in Cmds /\ status[c] = "pending"
    BY SelectedPending
  <2>2. OneWait' /\ Heard' /\ Marked' /\ HeardOnce'
    BY DEF RouteInv, OneWait, Heard, Marked, HeardOnce, Given, SameRoute, TypeOK
  <2>3. \A q \in Requests : req[q] = "heard" => got[q] \cap Selected = {}
    BY <2>1 DEF RouteInv, Marked, Given
  <2>4. Fresh'
    BY <2>3 DEF RouteInv, Fresh, SameRoute, TypeOK
  <2> QED BY <2>2, <2>4 DEF RouteInv
<1>13. ASSUME NEW r \in Requests, HandOut(r) PROVE RouteInv'
  <2> USE <1>13 DEF HandOut, HandedOut
  <2>1. OneWait' /\ Heard' /\ HeardOnce'
    BY DEF RouteInv, OneWait, Heard, HeardOnce, SameRoute, TypeOK
  <2>2. Marked'
    BY DEF RouteInv, Marked, Given, TypeOK
  <2>3. Fresh'
    BY DEF RouteInv, Fresh, SameRoute, TypeOK
  <2> QED BY <2>1, <2>2, <2>3 DEF RouteInv
<1>14. ASSUME NEW r \in Requests, Abort(r) PROVE RouteInv'
  <2> USE <1>14 DEF Abort
  <2> QED BY DEF RouteInv, OneWait, Heard, Marked, Fresh, HeardOnce, Given, SameRoute, TypeOK
<1>15. ASSUME NEW r \in Requests, Hear(r) PROVE RouteInv'
  <2> USE <1>15 DEF Hear
  <2>1. OneWait'
    BY DEF RouteInv, OneWait, SameRoute
  <2>2. Heard'
    BY DEF RouteInv, Heard, TypeOK
  <2>3. Marked'
    BY DEF RouteInv, Marked, Given, TypeOK
  <2>4. Fresh'
    \* nobody else waits on r's route
    BY DEF RouteInv, Fresh, OneWait, SameRoute, TypeOK
  <2>5. HeardOnce'
    BY DEF RouteInv, HeardOnce, Fresh, SameRoute, TypeOK
  <2> QED BY <2>1, <2>2, <2>3, <2>4, <2>5 DEF RouteInv
<1> QED
  BY <1>1, <1>2, <1>3, <1>4, <1>5, <1>6, <1>7, <1>8, <1>9, <1>10, <1>11, <1>12,
     <1>13, <1>14, <1>15 DEF Next

LEMMA RouteInvHolds == Spec => [](TypeOK /\ RouteInv)
<1>1. Init => TypeOK /\ RouteInv
  BY TypeInit, RouteInit
<1>2. TypeOK /\ RouteInv /\ [Next]_vars => (TypeOK /\ RouteInv)'
  BY TypeStep, RouteStep
<1> QED BY <1>1, <1>2, PTL DEF Spec

(* Two executions of one command never came by the same route, whatever    *)
(* requests are slow, abandoned or repeated and however often the agent    *)
(* restarts.                                                               *)
THEOREM NoRepeatOnARoute == Spec => []OncePerRoute
<1>1. TypeOK /\ RouteInv => OncePerRoute
  <2> SUFFICES ASSUME TypeOK, RouteInv, NEW j \in ran, NEW k \in ran,
                      j[1] = k[1], Route(j[2]) = Route(k[2])
               PROVE  j = k
    BY DEF OncePerRoute
  <2>1. /\ j = <<j[1], j[2]>> /\ j[1] \in Cmds /\ j[2] \in Requests
        /\ k = <<k[1], k[2]>> /\ k[1] \in Cmds /\ k[2] \in Requests
    BY DEF TypeOK
  <2>2. req[j[2]] = "heard" /\ j[1] \in got[j[2]] /\ req[k[2]] = "heard" /\ k[1] \in got[k[2]]
    BY <2>1 DEF RouteInv, Heard
  <2>3. j[2] = k[2]
    BY <2>1, <2>2 DEF RouteInv, HeardOnce, SameRoute
  <2> QED BY <2>1, <2>3
<1> QED BY <1>1, RouteInvHolds, PTL

(* An agent that fetches commands on one route only (the fast poll answers *)
(* a Windows agent with nothing) runs every command at most once.          *)
THEOREM OneRouteOnce == ASSUME Polls = {} PROVE Spec => []AtMostOnce
<1>1. TypeOK /\ OncePerRoute => AtMostOnce
  <2> SUFFICES ASSUME TypeOK, OncePerRoute, NEW j \in ran, NEW k \in ran, j[1] = k[1]
               PROVE  j = k
    BY DEF AtMostOnce
  <2>1. j[2] \in Reports /\ k[2] \in Reports
    BY DEF TypeOK, Requests
  <2> QED BY <2>1 DEF OncePerRoute, Route
<1> QED BY <1>1, TypeCorrect, NoRepeatOnARoute, PTL

-----------------------------------------------------------------------------
(* On the report route alone, with nobody but the scheduler watching, the  *)
(* lock on the server's row makes the hand-outs disjoint, and a command    *)
(* has one token: its job, then its result, then the stored status.        *)

NoWatch == stale = {} /\ \A c \in Cmds : wait[c] = "no"
OneTaken == \A r, s \in Requests : req[r] = "taken" /\ req[s] = "taken" => r = s
TakenAlone == \A r, s \in Requests : req[r] = "taken" /\ Given(s) => got[r] \cap got[s] = {}
GivenAlone == \A r, s \in Requests : Given(r) /\ Given(s) /\ r # s => got[r] \cap got[s] = {}
PostHeard == \A p \in posts : req[p.via] = "heard" /\ p.cmd \in got[p.via]
DoneHeard == \A c \in Cmds : status[c] = "done" =>
                \E r \in Requests : req[r] = "heard" /\ c \in got[r]
OnePost == \A p, q \in posts : p.cmd = q.cmd => p = q
JobOrPost == \A p \in posts, r \in Requests : <<p.cmd, r>> \notin jobs
DoneNoPost == \A p \in posts : status[p.cmd] # "done"
DoneNoJob == \A c \in Cmds, r \in Requests : status[c] = "done" => <<c, r>> \notin jobs

LockInv == NoWatch /\ OneTaken /\ TakenAlone /\ GivenAlone
TokenInv == PostHeard /\ DoneHeard /\ OnePost /\ JobOrPost /\ DoneNoPost /\ DoneNoJob

LEMMA AloneInit == ASSUME Alone PROVE Init => LockInv /\ TokenInv
BY DEF Init, LockInv, TokenInv, NoWatch, OneTaken, TakenAlone, GivenAlone, PostHeard, DoneHeard,
       OnePost, JobOrPost, DoneNoPost, DoneNoJob, Given

\* The steps of status requests and waiters do not happen.
LEMMA AloneSteps ==
    ASSUME Alone, TypeOK, NoWatch, NEW c \in Cmds
    PROVE  ~PollLoad(c) /\ ~PollWrite(c) /\ ~WaitLook(c) /\ ~WaitLast(c) /\ ~WaitWrite(c)
BY DEF Alone, NoWatch, PollLoad, PollWrite, WaitLook, WaitLast, WaitWrite

LEMMA LockStep == ASSUME Alone PROVE TypeOK /\ RouteInv /\ LockInv /\ [Next]_vars => LockInv'
<1> SUFFICES ASSUME TypeOK, RouteInv, LockInv, [Next]_vars PROVE LockInv'
  OBVIOUS
<1> USE DEF LockInv
<1>1. NoWatch'
  <2>1. CASE \E c \in Cmds : Create(c)
    BY <2>1 DEF Create, NoWatch, Alone, TypeOK
  <2>2. CASE UNCHANGED <<stale, wait>>
    BY <2>2 DEF NoWatch
  <2> QED
    BY <2>1, <2>2, AloneSteps
    DEF Next, Sweep, Tick, Send, Take, HandOut, Abort, Hear, GiveUp, Run, PostLost, PostLoad,
        PostStore, Restart
<1>2. (OneTaken /\ TakenAlone /\ GivenAlone)'
  <2> USE DEF OneTaken, TakenAlone, GivenAlone, Given
  <2>1. ASSUME NEW r \in Requests, Take(r) PROVE (OneTaken /\ TakenAlone /\ GivenAlone)'
    <3>1. \A c \in Selected : c \in Cmds /\ status[c] = "pending"
      BY SelectedPending
    <3>2. \A s \in Requests : Given(s) => got[s] \cap Selected = {}
      BY <3>1 DEF RouteInv, Marked
    <3>3. \A s \in Requests : req[s] # "taken"
      BY <2>1 DEF Take, ServerFree, Alone, Requests
    <3> QED BY <2>1, <3>2, <3>3 DEF Take, TypeOK
  <2>2. ASSUME NEW r \in Requests, HandOut(r) PROVE (OneTaken /\ TakenAlone /\ GivenAlone)'
    BY <2>2 DEF HandOut, TypeOK
  <2>3. ASSUME NEW r \in Requests, Send(r) PROVE (OneTaken /\ TakenAlone /\ GivenAlone)'
    BY <2>3 DEF Send, TypeOK
  <2>4. ASSUME NEW r \in Requests, Abort(r) PROVE (OneTaken /\ TakenAlone /\ GivenAlone)'
    BY <2>4 DEF Abort, TypeOK
  <2>5. ASSUME NEW r \in Requests, Hear(r) PROVE (OneTaken /\ TakenAlone /\ GivenAlone)'
    BY <2>5 DEF Hear, TypeOK
  <2>6. CASE UNCHANGED <<req, got>>
    BY <2>6
  <2> QED
    BY <2>1, <2>2, <2>3, <2>4, <2>5, <2>6
    DEF Next, Create, PollLoad, PollWrite, WaitLook, WaitLast, WaitWrite, Sweep, Tick, GiveUp,
        Run, PostLost, PostLoad, PostStore, Restart
<1> QED BY <1>1, <1>2

\* A step that touches neither requests nor tokens and makes nothing done.
TokenStep ==
    /\ UNCHANGED <<req, got>>
    /\ posts' \subseteq posts
    /\ jobs' \subseteq jobs
    /\ \A c \in Cmds : status'[c] = "done" <=> status[c] = "done"

LEMMA TokenStepKeeps == TypeOK /\ TokenInv /\ TokenStep => TokenInv'
BY DEF TypeOK, Results, TokenInv, TokenStep, PostHeard, DoneHeard, OnePost, JobOrPost,
       DoneNoPost, DoneNoJob

LEMMA TokensKept ==
    ASSUME Alone PROVE TypeOK /\ RouteInv /\ LockInv /\ TokenInv /\ [Next]_vars => TokenInv'
<1> SUFFICES ASSUME TypeOK, RouteInv, LockInv, TokenInv, [Next]_vars PROVE TokenInv'
  OBVIOUS
<1>0. \A p \in posts : p.cmd \in Cmds /\ p.via \in Requests
  BY DEF TypeOK, Results
<1>1. CASE (\E c \in Cmds : Create(c)) \/ Sweep \/ Tick \/ UNCHANGED vars
  <2>1. TokenStep
    BY <1>1 DEF TokenStep, Create, Sweep, Tick, Lost, TypeOK
  <2> QED BY <2>1, TokenStepKeeps
<1>2. CASE (\E r \in Requests : GiveUp(r)) \/ Restart \/ \E p \in posts : PostLost(p)
  <2>1. TokenStep
    BY <1>2 DEF TokenStep, GiveUp, Restart, PostLost
  <2> QED BY <2>1, TokenStepKeeps
<1>3. ASSUME NEW r \in Requests, Send(r) \/ Abort(r) PROVE TokenInv'
  BY <1>0, <1>3 DEF Send, Abort, TokenInv, PostHeard, DoneHeard, OnePost, JobOrPost, DoneNoPost,
                    DoneNoJob, TypeOK
<1>4. ASSUME NEW r \in Requests, Take(r) PROVE TokenInv'
  BY <1>0, <1>4 DEF Take, TokenInv, PostHeard, DoneHeard, OnePost, JobOrPost, DoneNoPost,
                    DoneNoJob, TypeOK
<1>5. ASSUME NEW r \in Requests, HandOut(r) PROVE TokenInv'
  <2>1. \A c \in Cmds : status'[c] = "done" => status[c] = "done"
    BY <1>5 DEF HandOut, HandedOut
  <2> QED
    BY <1>0, <1>5, <2>1 DEF HandOut, TokenInv, PostHeard, DoneHeard, OnePost, JobOrPost,
                            DoneNoPost, DoneNoJob, TypeOK
<1>6. ASSUME NEW r \in Requests, Hear(r) PROVE TokenInv'
  <2> USE <1>6 DEF Hear
  <2>1. \A s \in Requests : req[s] = "heard" => got[s] \cap got[r] = {}
    BY DEF LockInv, GivenAlone, Given
  <2>2. PostHeard' /\ DoneHeard' /\ OnePost' /\ DoneNoPost'
    BY <1>0 DEF TokenInv, PostHeard, DoneHeard, OnePost, DoneNoPost, TypeOK
  <2>3. JobOrPost'
    BY <1>0, <2>1 DEF TokenInv, PostHeard, JobOrPost
  <2>4. DoneNoJob'
    BY <2>1 DEF TokenInv, DoneHeard, DoneNoJob
  <2> QED BY <2>2, <2>3, <2>4 DEF TokenInv
<1>7. ASSUME NEW j \in jobs, NEW ok \in BOOLEAN, Run(j, ok) PROVE TokenInv'
  <2> USE <1>7 DEF Run
  <2>1. /\ j = <<j[1], j[2]>> /\ j[1] \in Cmds /\ j[2] \in Requests
        /\ req[j[2]] = "heard" /\ j[1] \in got[j[2]]
    BY DEF TypeOK, RouteInv, Heard
  <2>2. \A p \in posts : p.cmd # j[1]
    BY <2>1 DEF TokenInv, JobOrPost
  <2>3. \A r \in Requests : <<j[1], r>> \in jobs => r = j[2]
    BY <2>1 DEF RouteInv, Heard, LockInv, GivenAlone, Given
  <2>4. PostHeard' /\ DoneHeard' /\ DoneNoPost' /\ DoneNoJob'
    BY <2>1 DEF TokenInv, PostHeard, DoneHeard, DoneNoPost, DoneNoJob
  <2>5. OnePost'
    BY <2>2 DEF TokenInv, OnePost
  <2>6. JobOrPost'
    <3> SUFFICES ASSUME NEW q \in posts', NEW r \in Requests, <<q.cmd, r>> \in jobs'
                 PROVE  FALSE
      BY DEF JobOrPost
    <3>1. q \notin posts
      BY DEF TokenInv, JobOrPost
    <3>2. q.cmd = j[1]
      BY <3>1
    <3>3. <<q.cmd, r>> = j
      BY <2>1, <2>3, <3>2
    <3> QED BY <3>3
  <2> QED BY <2>4, <2>5, <2>6 DEF TokenInv
<1>8. ASSUME NEW p \in posts, PostLoad(p) PROVE TokenInv'
  <2> USE <1>8 DEF PostLoad
  <2> DEFINE loaded == [p EXCEPT !.read = status[p.cmd]]
  <2>0. loaded.cmd = p.cmd /\ loaded.via = p.via
    BY DEF TypeOK, Results
  <2> HIDE DEF loaded
  <2>1. \A q \in posts' : /\ q \in posts \/ (q.cmd = p.cmd /\ q.via = p.via)
                          /\ q.cmd = p.cmd => q = loaded
    <3>1. posts' = (posts \ {p}) \cup {loaded}
      BY DEF loaded
    <3> SUFFICES ASSUME NEW q \in posts'
                 PROVE  /\ q \in posts \/ (q.cmd = p.cmd /\ q.via = p.via)
                        /\ q.cmd = p.cmd => q = loaded
      OBVIOUS
    <3>2. CASE q = loaded
      BY <2>0, <3>2
    <3>3. CASE q \in posts /\ q # p
      BY <3>3 DEF TokenInv, OnePost
    <3> QED BY <3>1, <3>2, <3>3
  <2>2. PostHeard' /\ DoneHeard' /\ JobOrPost' /\ DoneNoPost' /\ DoneNoJob'
    BY <1>0, <2>1 DEF TokenInv, PostHeard, DoneHeard, JobOrPost, DoneNoPost, DoneNoJob
  <2>3. OnePost'
    BY <2>1 DEF TokenInv, OnePost
  <2> QED BY <2>2, <2>3 DEF TokenInv
<1>9. ASSUME NEW p \in posts, PostStore(p) PROVE TokenInv'
  <2> USE <1>9 DEF PostStore
  <2>1. \A c \in Cmds : c # p.cmd => status'[c] = status[c]
    BY DEF TypeOK
  <2>2. \A q \in posts' : q \in posts /\ q.cmd # p.cmd
    BY DEF TokenInv, OnePost
  <2>3. \A r \in Requests : <<p.cmd, r>> \notin jobs
    BY DEF TokenInv, JobOrPost
  <2>4. PostHeard' /\ OnePost' /\ JobOrPost'
    BY <2>2 DEF TokenInv, PostHeard, OnePost, JobOrPost
  <2>5. DoneHeard'
    BY <1>0, <2>1 DEF TokenInv, DoneHeard, PostHeard
  <2>6. DoneNoPost' /\ DoneNoJob'
    BY <1>0, <2>1, <2>2, <2>3 DEF TokenInv, DoneNoPost, DoneNoJob
  <2> QED BY <2>4, <2>5, <2>6 DEF TokenInv
<1> QED
  BY <1>1, <1>2, <1>3, <1>4, <1>5, <1>6, <1>7, <1>8, <1>9, AloneSteps DEF Next, LockInv

(* When commands go out by the report alone and only the scheduler watches *)
(* them, a command that is done stays done.                                *)
THEOREM DoneIsFinal == ASSUME Alone PROVE Spec => DoneStays
<1> DEFINE Inv == TypeOK /\ RouteInv /\ LockInv /\ TokenInv
<1>1. Init => Inv
  BY TypeInit, RouteInit, AloneInit
<1>2. Inv /\ [Next]_vars => Inv'
  BY TypeStep, RouteStep, LockStep, TokensKept
<1>3. Inv /\ [Next]_vars => [\A c \in Cmds : status[c] = "done" => status'[c] = "done"]_vars
  <2> SUFFICES ASSUME Inv, Next, NEW c \in Cmds, status[c] = "done" PROVE status'[c] = "done"
    OBVIOUS
  <2>1. ASSUME NEW d \in Cmds, Create(d) PROVE status'[c] = "done"
    BY <2>1 DEF Create, TypeOK
  <2>2. CASE Sweep
    BY <2>2 DEF Sweep, Lost
  <2>3. ASSUME NEW r \in Requests, HandOut(r) PROVE status'[c] = "done"
    <3>1. c \notin got[r]
      BY <2>3 DEF HandOut, LockInv, TakenAlone, TokenInv, DoneHeard, Given
    <3> QED BY <2>3, <3>1 DEF HandOut, HandedOut
  <2>4. ASSUME NEW p \in posts, PostStore(p) PROVE status'[c] = "done"
    BY <2>4 DEF PostStore, TokenInv, DoneNoPost, TypeOK
  <2>5. CASE UNCHANGED status
    BY <2>5
  <2> QED
    BY <2>1, <2>2, <2>3, <2>4, <2>5, AloneSteps
    DEF Next, LockInv, Tick, Send, Take, Abort, Hear, GiveUp, Run, PostLost, PostLoad, Restart
<1> QED BY <1>1, <1>2, <1>3, PTL DEF Spec, DoneStays

-----------------------------------------------------------------------------
(* The queues implement CommandLife.                                       *)

\* A result under way, a stored success: the command ran.
PostRan == \A p \in posts : <<p.cmd, p.via>> \in ran
DoneRan == \A c \in Cmds : status[c] = "done" => \E r \in Requests : <<c, r>> \in ran
\* Whatever a request, a status request or a waiter holds was given.
HeldGiven == /\ \A r \in Requests : req[r] = "taken" => \A c \in got[r] : status[c] # "none"
             /\ \A c \in stale : status[c] # "none"
             /\ \A c \in Cmds : wait[c] # "no" => status[c] # "none"
RanInv == PostRan /\ DoneRan /\ HeldGiven

LifeInv == TypeOK /\ RouteInv /\ RanInv /\ (Alone => LockInv /\ TokenInv)

LEMMA RanStep == TypeOK /\ RouteInv /\ RanInv /\ [Next]_vars => RanInv'
<1> SUFFICES ASSUME TypeOK, RouteInv, RanInv, [Next]_vars PROVE RanInv'
  OBVIOUS
<1>0. \A p \in posts : p.cmd \in Cmds /\ p.via \in Requests
  BY DEF TypeOK, Results
<1>s. stale \subseteq Cmds
  BY CommandConstants DEF TypeOK
<1>1. PostRan'
  <2>1. ASSUME NEW j \in jobs, NEW ok \in BOOLEAN, Run(j, ok) PROVE PostRan'
    <3>1. j = <<j[1], j[2]>>
      BY DEF TypeOK
    <3>2. \A q \in posts' : q \in posts \/ (q.cmd = j[1] /\ q.via = j[2])
      BY <2>1 DEF Run
    <3>3. ran' = ran \cup {j}
      BY <2>1 DEF Run
    <3> QED BY <3>1, <3>2, <3>3 DEF RanInv, PostRan
  <2>2. ASSUME NEW p \in posts, PostLoad(p) PROVE PostRan'
    <3> DEFINE loaded == [p EXCEPT !.read = status[p.cmd]]
    <3>1. loaded.cmd = p.cmd /\ loaded.via = p.via /\ posts' = (posts \ {p}) \cup {loaded}
      BY <2>2 DEF TypeOK, Results, PostLoad
    <3> HIDE DEF loaded
    <3>2. \A q \in posts' : <<q.cmd, q.via>> \in ran
      BY <3>1 DEF RanInv, PostRan
    <3>3. ran' = ran
      BY <2>2 DEF PostLoad
    <3> QED BY <3>2, <3>3 DEF PostRan
  <2>3. CASE posts' \subseteq posts /\ ran' = ran
    BY <2>3 DEF RanInv, PostRan
  <2> QED
    BY <2>1, <2>2, <2>3
    DEF Next, Create, PollLoad, PollWrite, WaitLook, WaitLast, WaitWrite, Sweep, Tick, Send, Take,
        HandOut, Abort, Hear, GiveUp, PostLost, PostStore, Restart
<1>2. DoneRan'
  <2>1. ASSUME NEW p \in posts, PostStore(p) PROVE DoneRan'
    BY <1>0, <2>1 DEF PostStore, RanInv, PostRan, DoneRan, TypeOK
  <2>2. CASE ran \subseteq ran' /\ \A c \in Cmds : status'[c] = "done" => status[c] = "done"
    BY <2>2 DEF RanInv, DoneRan
  <2>3. ASSUME NEW c \in Cmds, Create(c) \/ PollWrite(c) \/ WaitWrite(c) PROVE DoneRan'
    BY <2>2, <2>3 DEF Create, PollWrite, WaitWrite, TypeOK
  <2>4. CASE Sweep \/ \E r \in Requests : HandOut(r)
    BY <2>2, <2>4 DEF Sweep, HandOut, HandedOut
  <2> QED
    BY <2>1, <2>2, <2>3, <2>4
    DEF Next, PollLoad, WaitLook, WaitLast, Tick, Send, Take, Abort, Hear, GiveUp, Run, PostLost,
        PostLoad, Restart
<1>3. HeldGiven'
  <2>1. ASSUME NEW c \in Cmds, Create(c) \/ PollLoad(c) PROVE HeldGiven'
    BY <1>s, <2>1 DEF Create, PollLoad, RanInv, HeldGiven, TypeOK
  <2>2. ASSUME NEW r \in Requests, Take(r) PROVE HeldGiven'
    <3>1. \A c \in Selected : c \in Cmds /\ status[c] = "pending"
      BY SelectedPending
    <3> QED BY <1>s, <2>2, <3>1 DEF Take, RanInv, HeldGiven, TypeOK
  <2>3. CASE /\ \A c \in Cmds : status[c] # "none" => status'[c] # "none"
             /\ \A r \in Requests : req'[r] = "taken" => req[r] = "taken" /\ got'[r] = got[r]
             /\ stale' \subseteq stale
             /\ \A c \in Cmds : wait'[c] # "no" => wait[c] # "no"
    BY <1>s, <2>3 DEF RanInv, HeldGiven, TypeOK
  <2>4. ASSUME NEW c \in Cmds, PollWrite(c) \/ WaitLook(c) \/ WaitLast(c) \/ WaitWrite(c) PROVE HeldGiven'
    BY <2>3, <2>4 DEF PollWrite, WaitLook, WaitLast, WaitWrite, TypeOK
  <2>5. ASSUME NEW r \in Requests, Send(r) \/ Abort(r) \/ Hear(r) \/ GiveUp(r) PROVE HeldGiven'
    BY <1>s, <2>5 DEF Send, Abort, Hear, GiveUp, RanInv, HeldGiven, TypeOK
  <2>8. ASSUME NEW r \in Requests, HandOut(r) PROVE HeldGiven'
    BY <1>s, <2>8 DEF HandOut, HandedOut, RanInv, HeldGiven, TypeOK
  <2>6. ASSUME NEW p \in posts, PostStore(p) PROVE HeldGiven'
    BY <1>0, <2>3, <2>6 DEF PostStore, Outcome, TypeOK
  <2>7. CASE Sweep
    BY <2>3, <2>7 DEF Sweep
  <2> QED
    BY <2>1, <2>2, <2>3, <2>4, <2>5, <2>6, <2>7, <2>8
    DEF Next, Tick, Run, PostLost, PostLoad, Restart
<1> QED BY <1>1, <1>2, <1>3 DEF RanInv

\* What a step of the queues looks like from outside.
Look == <<Shown, ran, Answered>>

LEMMA RanGiven ==
    ASSUME TypeOK, RouteInv, NEW c \in Cmds, NEW r \in Requests, <<c, r>> \in jobs \cup ran
    PROVE  status[c] \notin {"none", "pending"}
BY DEF RouteInv, Heard, Marked, Given

LEMMA MarkStep ==
    ASSUME LifeInv, NEW S \in SUBSET Cmds, NEW what \in {"open", "error"},
           \A c \in S : status[c] # "none" /\ (Alone => status[c] # "done"),
           Shown' = [c \in Cmds |-> IF c \in S THEN what ELSE Shown[c]],
           UNCHANGED <<ran, Answered>>
    PROVE  Life!LifeNext
<1>1. \A c \in S : Shown[c] # "none" /\ (Alone => Shown[c] # "done")
  BY DEF Shown
<1>2. Life!Mark(S, what)
  BY <1>1 DEF Life!Mark
<1> QED BY <1>2 DEF Life!LifeNext

LEMMA LifeInvInit == Init => LifeInv
<1>1. Init => RanInv
  BY DEF Init, RanInv, PostRan, DoneRan, HeldGiven
<1> QED BY <1>1, TypeInit, RouteInit, AloneInit DEF LifeInv

LEMMA LifeInvStep == LifeInv /\ [Next]_vars => LifeInv'
<1> SUFFICES ASSUME LifeInv, [Next]_vars PROVE LifeInv'
  OBVIOUS
<1>1. CASE Alone
  BY <1>1, TypeStep, RouteStep, RanStep, LockStep, TokensKept DEF LifeInv
<1>2. CASE ~Alone
  BY <1>2, TypeStep, RouteStep, RanStep DEF LifeInv, Alone
<1> QED BY <1>1, <1>2

LEMMA LifeStarts == Init => Life!LifeInit
<1> SUFFICES ASSUME Init PROVE Life!LifeInit
  OBVIOUS
<1>1. Shown = [c \in Cmds |-> "none"]
  BY DEF Init, Shown
<1>2. ran = {}
  BY DEF Init
<1>3. Answered = [c \in Cmds |-> "none"]
  BY DEF Init, Answered, Verdicts
<1> QED BY <1>1, <1>2, <1>3 DEF Life!LifeInit

LEMMA LifeSteps == LifeInv /\ [Next]_vars => [Life!LifeNext]_(Life!lifeVars)
<1> SUFFICES ASSUME LifeInv, [Next]_vars PROVE Life!LifeNext \/ UNCHANGED Look
  BY DEF Life!lifeVars, Look
<1> USE DEF Look
<1>0. TypeOK /\ RouteInv /\ RanInv
  BY DEF LifeInv
<1>00. \A p \in posts : p.cmd \in Cmds /\ p.via \in Requests
  BY <1>0 DEF TypeOK, Results
<1>1. ASSUME NEW c \in Cmds, Create(c) PROVE Life!LifeNext
  <2>1. Shown[c] = "none" /\ Shown' = [Shown EXCEPT ![c] = "open"]
    BY <1>0, <1>1 DEF Create, Shown, TypeOK
  <2>2. wait[c] = "no"
    BY <1>0, <1>1 DEF Create, RanInv, HeldGiven
  <2>3. Answered' = Answered
    BY <1>0, <1>1, <2>2 DEF Create, Answered, Verdicts, TypeOK
  <2>4. ran' = ran
    BY <1>1 DEF Create
  <2>5. Life!Give(c)
    BY <2>1, <2>3, <2>4 DEF Life!Give
  <2> QED BY <2>5 DEF Life!LifeNext
<1>2. ASSUME NEW c \in Cmds, PollWrite(c) PROVE Life!LifeNext
  <2>1. ~Alone /\ status[c] # "none"
    BY <1>0, <1>2 DEF PollWrite, RanInv, HeldGiven, Alone, TypeOK
  <2>2. Shown' = [d \in Cmds |-> IF d \in {c} THEN "error" ELSE Shown[d]]
    BY <1>0, <1>2 DEF PollWrite, Shown, TypeOK
  <2>3. UNCHANGED <<ran, Answered>>
    BY <1>2 DEF PollWrite, Answered
  <2>4. {c} \in SUBSET Cmds /\ \A d \in {c} : status[d] # "none" /\ (Alone => status[d] # "done")
    BY <2>1
  <2> QED BY <2>2, <2>3, <2>4, MarkStep
<1>3. ASSUME NEW c \in Cmds, WaitLook(c) PROVE Life!LifeNext
  <2> DEFINE what == IF status[c] = "done" THEN "ok" ELSE "failed"
  <2>1. /\ what = "ok" => Shown[c] = "done"
        /\ what = "failed" => Shown[c] = "error"
        /\ Shown[c] # "none" /\ Answered[c] = "none"
    BY <1>3 DEF WaitLook, Shown, Final, Answered, Verdicts
  <2>2. Answered' = [Answered EXCEPT ![c] = what]
    BY <1>0, <1>3 DEF WaitLook, Answered, Verdicts, TypeOK
  <2>3. UNCHANGED <<Shown, ran>>
    BY <1>3 DEF WaitLook, Shown
  <2>4. Life!Answer(c, what)
    BY <2>1, <2>2, <2>3 DEF Life!Answer
  <2> QED BY <2>4 DEF Life!LifeNext
<1>4. ASSUME NEW c \in Cmds, WaitLast(c) PROVE Life!LifeNext \/ UNCHANGED Look
  <2>1. UNCHANGED <<Shown, ran>>
    BY <1>4 DEF WaitLast, Shown
  <2>2. CASE status[c] \in Final
    <3>1. Shown[c] # "none" /\ Answered[c] = "none"
      BY <1>4, <2>2 DEF WaitLast, Shown, Final, Answered, Verdicts
    <3>2. Answered' = [Answered EXCEPT ![c] = "timeout"]
      BY <1>0, <1>4, <2>2 DEF WaitLast, Answered, Verdicts, TypeOK
    <3>3. Life!Answer(c, "timeout")
      BY <2>1, <3>1, <3>2 DEF Life!Answer
    <3> QED BY <3>3 DEF Life!LifeNext
  <2>3. CASE status[c] \notin Final
    BY <1>0, <1>4, <2>1, <2>3 DEF WaitLast, Answered, Verdicts, TypeOK
  <2> QED BY <2>2, <2>3
<1>5. ASSUME NEW c \in Cmds, WaitWrite(c) PROVE Life!LifeNext
  <2>1. ~Alone
    BY <1>5 DEF WaitWrite, LifeInv, LockInv, NoWatch
  <2>2. Shown[c] # "none" /\ Answered[c] = "none"
    BY <1>0, <1>5 DEF WaitWrite, Shown, Answered, Verdicts, RanInv, HeldGiven
  <2>3. /\ Answered' = [Answered EXCEPT ![c] = "timeout"]
        /\ Shown' = [Shown EXCEPT ![c] = "error"]
    BY <1>0, <1>5 DEF WaitWrite, Answered, Shown, Verdicts, TypeOK
  <2>4. ran' = ran
    BY <1>5 DEF WaitWrite
  <2>5. Life!Abandon(c)
    BY <2>1, <2>2, <2>3, <2>4 DEF Life!Abandon
  <2> QED BY <2>5 DEF Life!LifeNext
<1>6. CASE Sweep
  <2>1. Lost \in SUBSET Cmds /\ \A c \in Lost : status[c] \in {"pending", "running"}
    BY DEF Lost, Cmds
  <2>2. Shown' = [c \in Cmds |-> IF c \in Lost THEN "error" ELSE Shown[c]]
    BY <1>6 DEF Sweep, Shown
  <2>3. UNCHANGED <<ran, Answered>>
    BY <1>6 DEF Sweep, Answered
  <2> QED BY <2>1, <2>2, <2>3, MarkStep
<1>7. ASSUME NEW r \in Requests, HandOut(r) PROVE Life!LifeNext
  <2>1. \A c \in got[r] : c \in Cmds /\ status[c] # "none"
    BY <1>0, <1>7 DEF HandOut, RanInv, HeldGiven, TypeOK
  <2>2. Alone => \A c \in got[r] : status[c] # "done"
    BY <1>7, <2>1 DEF HandOut, LifeInv, LockInv, TakenAlone, TokenInv, DoneHeard, Given
  <2>3. Shown' = [c \in Cmds |-> IF c \in got[r] THEN "open" ELSE Shown[c]]
    BY <1>7 DEF HandOut, HandedOut, Shown
  <2>4. UNCHANGED <<ran, Answered>>
    BY <1>7 DEF HandOut, Answered
  <2>5. got[r] \in SUBSET Cmds
    BY <2>1
  <2> QED BY <2>1, <2>2, <2>3, <2>4, <2>5, MarkStep
<1>8. ASSUME NEW j \in jobs, NEW ok \in BOOLEAN, Run(j, ok) PROVE Life!LifeNext \/ UNCHANGED Look
  <2>1. j = <<j[1], j[2]>> /\ j[1] \in Cmds /\ j[2] \in Requests
    BY <1>0 DEF TypeOK
  <2>2. Shown[j[1]] # "none"
    BY <1>0, <2>1, RanGiven DEF Shown
  <2>3. ran' = ran \cup {<<j[1], j[2]>>}
    BY <1>8, <2>1 DEF Run
  <2>4. UNCHANGED <<Shown, Answered>>
    BY <1>8 DEF Run, Shown, Answered
  <2>5. CASE j \in ran
    BY <2>1, <2>3, <2>4, <2>5
  <2>6. CASE j \notin ran
    <3>1. req[j[2]] = "heard" /\ j[1] \in got[j[2]]
      BY <1>0, <2>1 DEF RouteInv, Heard
    <3>2. ASSUME NEW way \in {Reports, Polls}, j[2] \in way, NEW s \in way
          PROVE  <<j[1], s>> \notin ran
      <4>1. s \in Requests /\ SameRoute(j[2], s)
        BY <3>2, CommandConstants DEF Requests, SameRoute, Route
      <4>2. <<j[1], s>> \in ran => req[s] = "heard" /\ j[1] \in got[s]
        BY <1>0, <2>1, <4>1 DEF RouteInv, Heard
      <4>3. <<j[1], s>> \in ran => s = j[2]
        BY <1>0, <2>1, <3>1, <4>1, <4>2 DEF RouteInv, HeardOnce
      <4> QED BY <2>1, <2>6, <4>3
    <3>3. Life!Perform(j[1], j[2])
      BY <2>2, <2>3, <2>4, <3>2 DEF Life!Perform
    <3>4. j[2] \in UNION {Reports, Polls}
      BY <2>1 DEF Requests
    <3> QED BY <2>1, <3>3, <3>4 DEF Life!LifeNext, Life!Errands
  <2> QED BY <2>5, <2>6
<1>9. ASSUME NEW p \in posts, PostStore(p) PROVE Life!LifeNext \/ UNCHANGED Look
  <2>1. <<p.cmd, p.via>> \in ran /\ status[p.cmd] # "none"
    BY <1>0, <1>00, RanGiven DEF RanInv, PostRan
  <2>2. UNCHANGED <<ran, Answered>>
    BY <1>9 DEF PostStore, Answered
  <2>3. CASE Outcome(p) = p.read
    <3>1. status' = status
      BY <1>0, <1>9, <2>3 DEF PostStore, TypeOK
    <3> QED BY <2>2, <3>1 DEF Shown
  <2>4. CASE Outcome(p) # p.read /\ p.ok
    <3>1. Shown' = [Shown EXCEPT ![p.cmd] = "done"]
      BY <1>0, <1>00, <1>9, <2>4 DEF PostStore, Outcome, Shown, TypeOK
    <3>2. p.via \in UNION {Reports, Polls}
      BY <1>00 DEF Requests
    <3>4. Life!Done(p.cmd)
      BY <2>1, <2>2, <3>1, <3>2 DEF Life!Done, Life!Errands
    <3> QED BY <1>00, <3>4 DEF Life!LifeNext
  <2>5. CASE Outcome(p) # p.read /\ ~p.ok
    <3>1. Shown' = [d \in Cmds |-> IF d \in {p.cmd} THEN "error" ELSE Shown[d]]
      BY <1>0, <1>00, <1>9, <2>5 DEF PostStore, Outcome, Shown, TypeOK
    <3>2. Alone => status[p.cmd] # "done"
      BY DEF LifeInv, TokenInv, DoneNoPost
    <3> QED BY <1>00, <2>1, <2>2, <3>1, <3>2, MarkStep
  <2> QED BY <2>3, <2>4, <2>5
<1>10. CASE UNCHANGED <<status, ran, wait>>
  BY <1>10 DEF Shown, Answered
<1> QED
  BY <1>1, <1>2, <1>3, <1>4, <1>5, <1>6, <1>7, <1>8, <1>9, <1>10
  DEF Next, PollLoad, Tick, Send, Take, Abort, Hear, GiveUp, PostLost, PostLoad, Restart

(* For any commands, requests, limits and restarts, the queues of commands *)
(* implement CommandLife: carried out only when given and once per route,  *)
(* "done" and "ok" only of what ran, and for good on the report's route    *)
(* alone.                                                                  *)
THEOREM QueuesKeepPromise == Spec => KeepsPromise
<1>1. LifeInv /\ [Next]_vars => [Life!LifeNext]_(Life!lifeVars)
  BY LifeSteps
<1> QED BY <1>1, LifeInvInit, LifeInvStep, LifeStarts, PTL DEF Spec, KeepsPromise, Life!LifeSpec
=============================================================================
