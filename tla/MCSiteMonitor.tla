--------------------------- MODULE MCSiteMonitor ---------------------------
(***************************************************************************)
(* SiteMonitor for TLC.  The ids of incidents are interchangeable: nothing *)
(* compares them but for equality.  No action reads what the chat has       *)
(* seen: states that differ in it alone have the same futures, and a run    *)
(* whose properties do not speak of the chat may leave it out.             *)
(***************************************************************************)
EXTENDS SiteMonitor, TLC

IdSymmetry == Permutations(Ids)

Unread == <<db, lock, local, retry, env, fails, crashes>>
=============================================================================
