--------------------------- MODULE SessionStates ---------------------------
(***************************************************************************)
(* The statuses a session goes through and the order the Session Manager   *)
(* puts them in.  The same names travel in the XML of every status report, *)
(* so the Session Manager and the Application Server role share them.      *)
(***************************************************************************)
EXTENDS Integers

Status == {"creating", "created", "init", "ready", "logged", "disconnected",
           "wait_destroy", "destroying", "destroyed", "error", "unknown"}

\* The $states table of Session::setServerStatus and Session::setStatus.
Rank == [st \in Status |->
           CASE st = "creating"     -> -1
             [] st = "created"      -> 0
             [] st = "init"         -> 1
             [] st = "ready"        -> 2
             [] st \in {"logged", "disconnected"} -> 3
             [] st = "wait_destroy" -> 4
             [] st = "destroying"   -> 5
             [] OTHER               -> 6]

\* Statuses of a session nobody used yet, and of one that is being taken down.
Unused == {"creating", "created", "init", "ready"}
Ending == {"wait_destroy", "destroying"}
=============================================================================
