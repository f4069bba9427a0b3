---------------------------- MODULE CommandLife ----------------------------
(***************************************************************************)
(* What the queues of commands promise whoever gives a command: it is      *)
(* carried out only after it was given, at most once per route by which    *)
(* the agent may learn of it, and "done", on the page or as the answer to  *)
(* a waiting orchestrator, is said only of a command that was carried out. *)
(* Failure is no promise: "error" may be shown of a command that ran, and  *)
(* a command closed as lost may open again.                                *)
(*                                                                         *)
(* AgentCommands is shown to implement this module.                        *)
(***************************************************************************)
CONSTANTS
    Commands,
    Routes,     \* the ways a command reaches the agent, each the set of its errands
    Sticky      \* whether "done", once shown, is shown for good

VARIABLES
    shown,      \* none, open, done or error: what the panel says of a command
    performed,  \* executions: <<command, errand>>
    answer      \* what an orchestrator waiting for the command was told

Errands == UNION Routes

lifeVars == <<shown, performed, answer>>

LifeInit ==
    /\ shown = [c \in Commands |-> "none"]
    /\ performed = {}
    /\ answer = [c \in Commands |-> "none"]

Give(c) ==
    /\ shown[c] = "none"
    /\ shown' = [shown EXCEPT ![c] = "open"]
    /\ UNCHANGED <<performed, answer>>

Perform(c, r) ==
    /\ shown[c] # "none"
    /\ \A way \in Routes : r \in way => \A s \in way : <<c, s>> \notin performed
    /\ performed' = performed \cup {<<c, r>>}
    /\ UNCHANGED <<shown, answer>>

Done(c) ==
    /\ \E r \in Errands : <<c, r>> \in performed
    /\ shown' = [shown EXCEPT ![c] = "done"]
    /\ UNCHANGED <<performed, answer>>

\* Commands are handed out, close as lost, or open again.
Mark(S, what) ==
    /\ \A c \in S : shown[c] # "none" /\ (Sticky => shown[c] # "done")
    /\ shown' = [c \in Commands |-> IF c \in S THEN what ELSE shown[c]]
    /\ UNCHANGED <<performed, answer>>

Answer(c, what) ==
    /\ answer[c] = "none" /\ shown[c] # "none"
    /\ what = "ok" => shown[c] = "done"
    /\ what = "failed" => shown[c] = "error"
    /\ answer' = [answer EXCEPT ![c] = what]
    /\ UNCHANGED <<shown, performed>>

\* The orchestrator stops waiting and closes the command itself.
Abandon(c) ==
    /\ ~Sticky
    /\ answer[c] = "none" /\ shown[c] # "none"
    /\ answer' = [answer EXCEPT ![c] = "timeout"]
    /\ shown' = [shown EXCEPT ![c] = "error"]
    /\ UNCHANGED performed

LifeNext ==
    \/ \E c \in Commands : Give(c) \/ Done(c) \/ Abandon(c)
    \/ \E c \in Commands, r \in Errands : Perform(c, r)
    \/ \E S \in SUBSET Commands, what \in {"open", "error"} : Mark(S, what)
    \/ \E c \in Commands, what \in {"ok", "failed", "timeout"} : Answer(c, what)

LifeSpec == LifeInit /\ [][LifeNext]_lifeVars
=============================================================================
