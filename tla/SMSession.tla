----------------------------- MODULE SMSession -----------------------------
(***************************************************************************)
(* One user session as the Session Manager keeps it: a row of the table    *)
(* "sessions", read and rewritten by PHP requests that run in parallel     *)
(* without a lock or a transaction.  Each request works on the object it   *)
(* loaded and Abstract_Session::save writes the whole object back, so      *)
(* between its load and its saves a request holds a copy that other        *)
(* requests make stale.  The Application Servers (ApS) that run the        *)
(* session are seen through what they answer and what they report.         *)
(*                                                                         *)
(* A request is the list of calls it has still to make.  Executing the     *)
(* first call is one step, so requests interleave exactly where the code   *)
(* touches the database or asks another machine.                           *)
(***************************************************************************)
EXTENDS Integers, FiniteSets, Sequences, SessionStates

CONSTANTS Aps,         \* the servers of role APS chosen for the session
          Main,        \* $session->server: the desktop server
          Requests,    \* PHP processes: at most that many requests at once
          Persistent,  \* settings['persistent'] == 1
          Desktop,     \* $session->mode is MODE_DESKTOP
          External,    \* allow_external_applications
          Kinds,       \* bound: the requests made besides start and reports
          Unreachable, \* bound: the servers a query may fail to reach
          Failing,     \* bound: the servers where a creation may end in error
          Losing,      \* bound: the servers whose reports may get lost
          NoRow, NoServer, NoReport

VARIABLES row,      \* the session's row in the database, or NoRow
          born,     \* client/start.php has created the session
          calls,    \* calls[r]: what request r has still to do
          objs,     \* objs[r]: the Session objects r holds, innermost first
          reporter, \* reporter[r]: the ApS whose report r is handling
          srvdb,    \* status of each server in the table "servers"
          aps,      \* the session on each ApS, as its role sees it
          report    \* the status report each ApS is sending

vars == <<row, born, calls, objs, reporter, srvdb, aps, report>>

\* What one row, and one Session object, holds of the session.
Session == [status: Status, srv: [Aps -> Status], stop: BOOLEAN]

\* A session ordered to be destroyed while its creation goes on is "doomed"; it
\* becomes "undone" (or "failed") when the creation ends, then is destroyed.
ApsStatus == {"none", "init", "ready", "logged", "disconnected", "doomed",
              "undone", "failed", "wait_destroy", "error", "gone"}
Starting == {"creating", "created", "init"}
Live == {"init", "ready", "logged", "disconnected"}
ASSUME SMSessionAssumption ==
  /\ IsFiniteSet(Aps) /\ Main \in Aps
  /\ Persistent \in BOOLEAN /\ Desktop \in BOOLEAN /\ External \in BOOLEAN
  /\ Kinds \subseteq {"resume", "stop", "logout", "kill", "disconnect",
                     "poll", "wait", "cron", "monitoring", "remove"}
  /\ Unreachable \subseteq Aps /\ Failing \subseteq Aps /\ Losing \subseteq Aps
  /\ NoRow \notin Session /\ NoServer \notin Aps /\ NoReport \notin Status

-----------------------------------------------------------------------------
(* The calls a request is made of.                                         *)

SetServerStatus(s, st) == [op |-> "setServerStatus", srv |-> s, st |-> st]
Commit(st)             == [op |-> "commit", st |-> st]
GetStatus(todo)        == [op |-> "getStatus", todo |-> todo]
Create(todo)           == [op |-> "create", todo |-> todo]
Disconnect(todo, ok)   == [op |-> "disconnect", todo |-> todo, ok |-> ok]
Monitored(s, st)       == [op |-> "monitored", srv |-> s, st |-> st]
Cron(k)                == [op |-> "cron", n |-> k]
Remove(s)              == [op |-> "remove", srv |-> s]
Plain(name)            == [op |-> name]

\* n servers were over at once; "saves" in setStatus, which saves 'wait_destroy'
\* when the deletion returns false.
OrderDeletion(todo, n, saves) ==
  [op |-> "orderDeletion", todo |-> todo, n |-> n, saves |-> saves]
OrderAll == OrderDeletion(Aps, 0, FALSE)

Call ==
  [op: {"setServerStatus", "monitored"}, srv: Aps, st: Status] \cup
  [op: {"commit"}, st: Status] \cup
  [op: {"orderDeletion"}, todo: SUBSET Aps, n: Nat, saves: BOOLEAN] \cup
  [op: {"getStatus", "create"}, todo: SUBSET Aps] \cup
  [op: {"disconnect"}, todo: SUBSET Aps, ok: BOOLEAN] \cup
  [op: {"cron"}, n: Nat] \cup
  [op: {"remove"}, srv: Aps] \cup
  [op: {"purge", "delete", "save", "kill", "notReady", "purgeIfDead",
        "reload", "resumed"}]

TypeOK ==
  /\ row \in Session \cup {NoRow}
  /\ born \in BOOLEAN
  /\ calls \in [Requests -> Seq(Call)]
  /\ objs \in [Requests -> Seq(Session)]
  /\ reporter \in [Requests -> Aps \cup {NoServer}]
  /\ srvdb \in [Aps -> {"ready", "broken", "deleted"}]
  /\ aps \in [Aps -> ApsStatus]
  /\ report \in [Aps -> Status \cup {NoReport}]
-----------------------------------------------------------------------------
(* Session::setStatus up to its first write: the object it leaves and the  *)
(* calls that follow.                                                      *)

CanSwitchToPreviousStatus(o, st) ==
  Persistent /\ o.status \in {"disconnected", "logged"} /\ st = "ready"

\* Mutant: any other status is taken, later or not.
RefusedSame(o, st) == st = o.status
Refused(o, st) ==
  \/ st = o.status
  \/ Rank[st] < Rank[o.status] /\ ~CanSwitchToPreviousStatus(o, st)

Then(o, next) == [obj |-> o, next |-> next]

PurgeRow == <<Plain("purge")>>

WaitDestroy(o) == Then([o EXCEPT !.stop = TRUE], <<OrderDeletion(Aps, 0, TRUE)>>)

SetStatus(o, st) ==
  CASE Refused(o, st)       -> Then(o, <<>>)
    [] ~Refused(o, st) /\ st = "disconnected" /\ ~Persistent -> WaitDestroy(o)
    [] ~Refused(o, st) /\ st = "disconnected" /\ Persistent
         -> Then(o, IF o.status = "ready" THEN <<>> ELSE <<Commit(st)>>)
    [] ~Refused(o, st) /\ st = "wait_destroy" -> WaitDestroy(o)
    [] ~Refused(o, st) /\ st = "destroyed"    -> Then(o, PurgeRow)
    [] OTHER                -> Then(o, <<Commit(st)>>)

\* Mutant: the first server to say so decides for all.
FirstDecides(o, s, st) == TRUE
AllOthers(o, s, st) == \A t \in Aps \ {s} : o.srv[t] = st

\* The switch of Session::setServerStatus, once the server has its status.
React(o, s, st) ==
  CASE st \in {"init", "logged", "wait_destroy", "destroying"} -> SetStatus(o, st)
    [] st \in {"ready", "destroyed"} /\ AllOthers(o, s, st)    -> SetStatus(o, st)
    [] st = "disconnected" /\ ~(Desktop /\ s # Main)           -> SetStatus(o, st)
    [] st \in {"error", "unknown"} -> SetStatus(o, "wait_destroy")
    [] OTHER                       -> Then(o, <<>>)
-----------------------------------------------------------------------------
(* A request goes on with the objects os and the calls cs.                 *)

Continue(r, os, cs) ==
  /\ calls' = [calls EXCEPT ![r] = cs]
  /\ objs' = [objs EXCEPT ![r] = IF cs = <<>> THEN <<>> ELSE os]
  /\ reporter' = [reporter EXCEPT ![r] = IF cs = <<>> THEN NoServer ELSE @]

Begin(r, os, cs) ==
  /\ calls[r] = <<>>
  /\ Continue(r, os, cs)

Doing(r, name) == calls[r] # <<>> /\ Head(calls[r]).op = name
Obj(r) == Head(objs[r])
With(r, o) == <<o>> \o Tail(objs[r])

\* After p = SetStatus(...), run what it asks for and then the rest.
Go(r, p, rest) == Continue(r, With(r, p.obj), p.next \o rest)

DbOnly == UNCHANGED <<born, srvdb, aps, report>>

\* Session::setServerStatus: save the server's status, then react to it.
DoSetServerStatus(r) ==
  /\ Doing(r, "setServerStatus")
  /\ LET c == Head(calls[r])
         o == Obj(r)
         n == [o EXCEPT !.srv[c.srv] = c.st]
         rest == Tail(calls[r])
     IN  \/ /\ c.st = o.srv[c.srv]
            /\ row' = o
            /\ Continue(r, objs[r], rest)
         \/ /\ Rank[c.st] < Rank[o.srv[c.srv]]
            /\ Continue(r, objs[r], rest)
            /\ UNCHANGED row
         \/ /\ c.st # o.srv[c.srv] /\ Rank[c.st] >= Rank[o.srv[c.srv]]
            /\ row' = n
            /\ Go(r, React(n, c.srv, c.st), rest)
  /\ DbOnly

\* The end of Session::setStatus: the new status is saved.
DoCommit(r) ==
  /\ Doing(r, "commit")
  /\ LET n == [Obj(r) EXCEPT !.status = Head(calls[r]).st]
     IN  /\ row' = n
         /\ Continue(r, With(r, n), Tail(calls[r]))
  /\ DbOnly

\* Abstract_Session::save of the object as it is.
DoSave(r) ==
  /\ Doing(r, "save")
  /\ row' = Obj(r)
  /\ Continue(r, objs[r], Tail(calls[r]))
  /\ DbOnly

\* Abstract_Session::delete, and the DESTROYED branch of Session::setStatus.
DoDelete(r) ==
  /\ Doing(r, "delete") \/ Doing(r, "purge")
  /\ row' = NoRow
  /\ Continue(r, objs[r], Tail(calls[r]))
  /\ DbOnly
-----------------------------------------------------------------------------
(* Asking the servers.  A query that fails makes the server "broken" and   *)
(* kills every session on it (Server::isUnreachable, setStatus, isNotReady)*)
(* before the caller sees the failure.                                     *)

OnDown == <<Plain("kill"), Plain("delete"), Plain("notReady")>>

\* The rows are loaded again (getByServer), apart from the caller's object.
DoKill(r) ==
  /\ Doing(r, "kill")
  /\ LET o == IF row = NoRow THEN Obj(r) ELSE row
         p == IF row = NoRow THEN Then(o, <<>>) ELSE SetStatus(o, "wait_destroy")
         rest == IF row = NoRow THEN Tail(Tail(calls[r])) ELSE Tail(calls[r])
     IN  Continue(r, <<p.obj>> \o objs[r], p.next \o rest)
  /\ UNCHANGED row /\ DbOnly

DoNotReady(r) ==
  /\ Doing(r, "notReady")
  /\ row' = NoRow
  /\ Continue(r, Tail(objs[r]), Tail(calls[r]))
  /\ DbOnly

\* Mutant: a session the ApS does not have is answered as it comes.
AnswerRaw(st) == st
\* Dialog.req_session_status: a session the ApS does not have is "unknown".
Answer(st) == CASE st \in {"none", "gone"} -> "unknown"
                [] st = "doomed"           -> "wait_destroy"
                [] st = "undone"           -> "ready"
                [] st = "failed"           -> "error"
                [] OTHER                   -> st

\* Mutant: a suspended session is not destroyed.
AfterOrderIfUsed(st) == IF st \in {"init", "ready", "logged", "undone"}
                        THEN "wait_destroy" ELSE st
\* Dialog.req_session_destroy, and whether its answer is wait_destroy.
AfterOrder(st) == IF st = "init" THEN "doomed"
                  ELSE IF st \in Live \cup {"undone"} THEN "wait_destroy" ELSE st
Accepts(st) == Answer(AfterOrder(st)) = "wait_destroy"

\* A server whose row is deleted cannot be loaded: orderDeletion returns false.
DoOrderDeletion(r) ==
  /\ Doing(r, "orderDeletion")
  /\ LET c == Head(calls[r])
         rest == Tail(calls[r])
         ended(s) == <<SetServerStatus(s, "destroyed"),
                       OrderDeletion(c.todo \ {s}, c.n + 1, c.saves)>> \o rest
         ordered(s) == <<SetServerStatus(s, "destroying"),
                         OrderDeletion(c.todo \ {s}, c.n, c.saves)>> \o rest
     IN  \/ /\ c.todo = {}
            /\ LET p == SetStatus(Obj(r), IF c.n = Cardinality(Aps)
                                          THEN "destroyed" ELSE "destroying")
               IN  Go(r, p, rest)
            /\ UNCHANGED <<srvdb, aps>>
         \/ \E s \in c.todo :
              \/ /\ srvdb[s] = "deleted"
                 /\ Continue(r, objs[r],
                      (IF c.saves THEN <<Commit("wait_destroy")>> ELSE <<>>) \o rest)
                 /\ UNCHANGED <<srvdb, aps>>
              \/ /\ srvdb[s] = "broken"
                 /\ Continue(r, objs[r], ended(s))
                 /\ UNCHANGED <<srvdb, aps>>
              \/ /\ srvdb[s] = "ready"
                 /\ aps' = [aps EXCEPT ![s] = AfterOrder(@)]
                 /\ Continue(r, objs[r], IF Accepts(aps[s]) THEN ordered(s) ELSE ended(s))
                 /\ UNCHANGED srvdb
              \/ /\ srvdb[s] = "ready" /\ s \in Unreachable
                 /\ srvdb' = [srvdb EXCEPT ![s] = "broken"]
                 /\ aps' \in {aps, [aps EXCEPT ![s] = AfterOrder(@)]}
                 /\ Continue(r, objs[r], OnDown \o ended(s))
  /\ UNCHANGED <<row, born, report>>

\* Mutant: only the first server's answer is taken.
HeardOnce(s, st, todo) == <<SetServerStatus(s, st)>>
Heard(s, st, todo) == <<SetServerStatus(s, st), GetStatus(todo \ {s})>>

DoGetStatus(r) ==
  /\ Doing(r, "getStatus")
  /\ LET c == Head(calls[r])
         rest == Tail(calls[r])
         heard(s, st) == Heard(s, st, c.todo) \o rest
     IN  \/ /\ c.todo = {}
            /\ Continue(r, objs[r], rest)
            /\ UNCHANGED srvdb
         \/ \E s \in c.todo :
              \/ /\ srvdb[s] \in {"broken", "deleted"}
                 /\ Continue(r, objs[r], heard(s, "error"))
                 /\ UNCHANGED srvdb
              \/ /\ srvdb[s] = "ready"
                 /\ Continue(r, objs[r], heard(s, Answer(aps[s])))
                 /\ UNCHANGED srvdb
              \/ /\ srvdb[s] = "ready" /\ s \in Unreachable
                 /\ srvdb' = [srvdb EXCEPT ![s] = "broken"]
                 /\ Continue(r, objs[r], OnDown \o heard(s, "error"))
  /\ UNCHANGED <<row, born, aps, report>>
-----------------------------------------------------------------------------
(* The requests.                                                           *)

\* client/start.php, first session: saved as it is created, then prepared and
\* created on the ApS.  Only servers that are online are chosen.
Fresh == [status |-> "creating", srv |-> [s \in Aps |-> "created"], stop |-> FALSE]

\* A desktop session is prepared on its desktop server first, on the others
\* when external applications are allowed.
Prepared == IF Desktop /\ ~External THEN {Main} ELSE Aps
NextOf(todo) == IF Desktop /\ Main \in todo THEN {Main} ELSE todo

StartNew(r) ==
  /\ ~born /\ born' = TRUE
  /\ \A s \in Aps : srvdb[s] = "ready"
  /\ row' = Fresh
  /\ Begin(r, <<Fresh>>, <<Commit("created"), Plain("save"), Create(Prepared)>>)
  /\ UNCHANGED <<srvdb, aps, report>>

\* prepareAPSAccess; when a server fails, its error branch calls a method of
\* the undefined $session and PHP ends the request there.
DoCreate(r) ==
  /\ Doing(r, "create")
  /\ LET c == Head(calls[r])
     IN  \/ /\ c.todo = {}
            /\ Continue(r, objs[r], Tail(calls[r]))
            /\ UNCHANGED aps
         \/ \E s \in NextOf(c.todo) :
              LET more == <<Create(c.todo \ {s})>> \o Tail(calls[r])
              IN  \/ /\ srvdb[s] = "deleted"
                     /\ Continue(r, objs[r], more)
                     /\ UNCHANGED aps
                  \/ /\ srvdb[s] # "deleted" /\ aps[s] = "none"
                     /\ aps' = [aps EXCEPT ![s] = "init"]
                     /\ Continue(r, objs[r], more)
                  \/ /\ srvdb[s] # "deleted"
                     /\ Continue(r, objs[r], <<>>)
                     /\ UNCHANGED aps
  /\ UNCHANGED <<row, born, srvdb, report>>

\* client/start.php, the user has a session: take it over.
StartResume(r) ==
  /\ row # NoRow /\ row.status \in Unused \cup {"logged", "disconnected"}
  /\ Begin(r, <<row>>, <<Plain("reload")>>)
  /\ UNCHANGED row /\ DbOnly

DoReload(r) ==
  /\ Doing(r, "reload")
  /\ \/ /\ row = NoRow
        /\ Continue(r, <<>>, <<>>)
     \/ /\ row # NoRow
        /\ LET p == SetStatus(row, "ready")
           IN  Continue(r, <<p.obj>>, p.next \o <<Plain("resumed")>>)
  /\ UNCHANGED row /\ DbOnly

\* The settings are replaced, stop_time with them, and saved.
DoResumed(r) ==
  /\ Doing(r, "resumed")
  /\ row' = [Obj(r) EXCEPT !.stop = FALSE]
  /\ Continue(r, objs[r], Tail(calls[r]))
  /\ DbOnly

\* Session::orderDeletion(false), as if every server had been asked.
Purge == <<OrderDeletion({}, Cardinality(Aps), FALSE)>>

\* client/start.php finds a session that has been ending for too long.
StartPurge(r) ==
  /\ row # NoRow /\ row.status \in Ending /\ row.stop
  /\ Begin(r, <<row>>, Purge)
  /\ UNCHANGED row /\ DbOnly

\* webservices/session_status.php: an ApS reports a status.
Report(r, s) ==
  /\ report[s] # NoReport /\ calls[r] = <<>>
  /\ report' = [report EXCEPT ![s] = NoReport]
  /\ \/ /\ row = NoRow \/ srvdb[s] = "deleted"
        /\ UNCHANGED <<calls, objs, reporter>>
     \/ /\ row # NoRow /\ srvdb[s] # "deleted"
        /\ calls' = [calls EXCEPT ![r] = <<SetServerStatus(s, report[s])>>]
        /\ objs' = [objs EXCEPT ![r] = <<row>>]
        /\ reporter' = [reporter EXCEPT ![r] = s]
  /\ UNCHANGED <<row, born, srvdb, aps>>

\* webservices/server_monitoring.php: an ApS lists its sessions.
Monitoring(r, s) ==
  /\ srvdb[s] # "deleted"
  /\ Begin(r, <<>>, <<Monitored(s, Answer(aps[s]))>>)
  /\ UNCHANGED row /\ DbOnly

\* A session the ApS lists is left as it is: its server is looked up by its
\* address among keys that are identifiers.  One it does not list is over there,
\* unless it may still be under creation: that one is given
\* DEFAULT_UNUSED_SESSION_DURATION.
\* Mutant: only a session not yet used can be forgotten.
ForgottenUnused(was) == was \in {"created", "ready"}
Forgotten(was) == was # "destroyed"
Spared(was) == was \in {"created", "ready", "destroyed"}

DoMonitored(r) ==
  /\ Doing(r, "monitored")
  /\ LET c == Head(calls[r])
         was == row.srv[c.srv]
     IN  \/ /\ row # NoRow => c.st # "unknown" \/ Spared(was)
            /\ Continue(r, <<>>, <<>>)
         \/ /\ c.st = "unknown" /\ row # NoRow /\ Forgotten(was)
            /\ Continue(r, <<row>>, <<SetServerStatus(c.srv, "destroyed")>>)
  /\ UNCHANGED row /\ DbOnly

\* crons/minutely.php, on the copy load_all made of the session: its checks,
\* in order.  Each waits for a delay, so each may be due or not.  The test that
\* the row still exists comes first, another request may delete it just after:
\* when it fails the cron ends here (DoCronEnd).
CronStart(r) ==
  /\ row # NoRow
  /\ Begin(r, <<row>>, <<Cron(1)>>)
  /\ UNCHANGED row /\ DbOnly

CronDue(k, o) == \/ k = 1
                 \/ k = 2 /\ o.status \in Unused
                 \/ k = 3 /\ o.status = "logged"
                 \/ k = 4 /\ o.status = "destroyed"
                 \/ k = 5 /\ o.status \in Ending /\ o.stop

CronWork(k) == CASE k \in {1, 2} -> <<OrderAll>>
                 [] k = 3 -> <<GetStatus(Aps), Plain("purgeIfDead")>>
                 [] k \in {4, 5} -> Purge \o <<Plain("delete")>>

DoCronDue(r, k) ==
  /\ Doing(r, "cron") /\ Head(calls[r]).n <= k
  /\ CronDue(k, Obj(r))
  /\ Continue(r, objs[r], CronWork(k) \o <<Cron(k + 1)>>)
  /\ UNCHANGED row /\ DbOnly

DoCronEnd(r) ==
  /\ Doing(r, "cron")
  /\ Continue(r, <<>>, <<>>)
  /\ UNCHANGED row /\ DbOnly

DoCron(r) == DoCronEnd(r) \/ \E k \in 1 .. 5 : DoCronDue(r, k)

\* The end of the third check: Session::isAlive, after Session::getStatus.
DoPurgeIfDead(r) ==
  /\ Doing(r, "purgeIfDead")
  /\ Continue(r, objs[r],
       (IF Obj(r).status \in Unused \cup {"logged"} THEN <<>> ELSE Purge)
       \o Tail(calls[r]))
  /\ UNCHANGED row /\ DbOnly

\* client/logout.php, which suspends the session or ends it.
Logout(r) ==
  /\ row # NoRow
  /\ \E st \in {"disconnected", "wait_destroy"} :
       LET p == SetStatus(row, st) IN Begin(r, <<p.obj>>, p.next)
  /\ UNCHANGED row /\ DbOnly

\* admin/api.php session_kill, and the same order by crons/hourly.php.
Kill(r) ==
  /\ row # NoRow
  /\ Begin(r, <<row>>, <<OrderAll>>)
  /\ UNCHANGED row /\ DbOnly

\* admin/api.php session_disconnect: the servers are asked first, every one of
\* them has to agree, and one that cannot be loaded ends the request.
\* crons/hourly.php asks too and leaves the row alone.
AdminDisconnect(r) ==
  /\ row # NoRow
  /\ Begin(r, <<row>>, <<Disconnect(IF Desktop THEN {Main} ELSE Aps, TRUE)>>)
  /\ UNCHANGED row /\ DbOnly

DoDisconnect(r) ==
  /\ Doing(r, "disconnect")
  /\ LET c == Head(calls[r])
         asked(s, ok) == <<Disconnect(c.todo \ {s}, c.ok /\ ok)>>
     IN  \/ /\ c.todo = {} /\ c.ok
            /\ Go(r, SetStatus(Obj(r), "disconnected"), Tail(calls[r]))
            /\ UNCHANGED srvdb
         \/ /\ \/ c.todo = {} /\ ~c.ok
               \/ \E s \in c.todo : srvdb[s] = "deleted"
            /\ Continue(r, <<>>, <<>>)
            /\ UNCHANGED srvdb
         \/ \E s \in c.todo :
              \/ /\ srvdb[s] # "deleted"
                 /\ Continue(r, objs[r], asked(s, srvdb[s] = "ready" /\ aps[s] = "logged"))
                 /\ UNCHANGED srvdb
              \/ /\ srvdb[s] = "ready" /\ s \in Unreachable
                 /\ srvdb' = [srvdb EXCEPT ![s] = "broken"]
                 /\ Continue(r, objs[r], OnDown \o asked(s, FALSE))
  /\ UNCHANGED <<row, born, aps, report>>

\* client/session_status.php: Session::getStatus asks the servers when the row
\* has not been saved for a while, and changes nothing otherwise.
ClientPoll(r) ==
  /\ row # NoRow
  /\ Begin(r, <<row>>, <<GetStatus(Aps)>>)
  /\ UNCHANGED row /\ DbOnly

\* The same request, by a client that waits for its session to be ready.
ClientWait(r) == row # NoRow /\ row.status \in Starting /\ ClientPoll(r)

\* admin/api.php server_remove, refused while a row names the server.  The
\* sessions found since are ordered to be deleted (Abstract_Server::delete),
\* then the server's row is deleted, whatever has been stored meanwhile.
AdminRemove(r, s) ==
  /\ row = NoRow /\ srvdb[s] # "deleted"
  /\ Begin(r, <<>>, <<Remove(s)>>)
  /\ UNCHANGED row /\ DbOnly

DoRemove(r) ==
  /\ Doing(r, "remove")
  /\ \/ /\ srvdb' = [srvdb EXCEPT ![Head(calls[r]).srv] = "deleted"]
        /\ Continue(r, objs[r], Tail(calls[r]))
     \/ /\ objs[r] = <<>> /\ row # NoRow
        /\ Continue(r, <<row>>, <<OrderAll>> \o calls[r])
        /\ UNCHANGED srvdb
  /\ UNCHANGED <<row, born, aps, report>>
-----------------------------------------------------------------------------
(* The Application Servers.  A role reports a change of status with one    *)
(* synchronous request, so it makes no other until that one is answered.   *)

Silent(s) == report[s] = NoReport /\ \A r \in Requests : reporter[r] # s

Change(s, st, to, said) ==
  /\ Silent(s) /\ aps[s] = st
  /\ aps' = [aps EXCEPT ![s] = to]
  /\ report' = [report EXCEPT ![s] = said]
  /\ UNCHANGED <<row, born, calls, objs, reporter, srvdb>>

Created(s)      == \/ Change(s, "init", "ready", "ready")
                   \/ Change(s, "doomed", "undone", "ready")
CreateFailed(s) == /\ s \in Failing
                   /\ \/ Change(s, "init", "error", "error")
                      \/ Change(s, "doomed", "failed", "error")
CreateEnded(s)  == \E st \in {"init", "doomed"} : Change(s, st, "gone", "destroyed")
LogsIn(s)       == \/ /\ row # NoRow /\ row.status \notin Starting
                      /\ Change(s, "ready", "logged", "logged")
                   \/ Change(s, "disconnected", "logged", "logged")
Disconnects(s)  == \/ Change(s, "ready", "disconnected", "disconnected")
                   \/ Change(s, "logged", "disconnected", "disconnected")
LogsOff(s)      == \/ Change(s, "logged", "wait_destroy", "wait_destroy")
                   \/ Change(s, "disconnected", "wait_destroy", "wait_destroy")
Destroyed(s)    == \E st \in {"wait_destroy", "undone", "failed"} :
                     Change(s, st, "gone", "destroyed")

\* A report that cannot be sent is given up (Manager.send_session_status).
LoseReport(s) ==
  /\ s \in Losing /\ report[s] # NoReport
  /\ report' = [report EXCEPT ![s] = NoReport]
  /\ UNCHANGED <<row, born, calls, objs, reporter, srvdb, aps>>
-----------------------------------------------------------------------------
Init ==
  /\ row = NoRow
  /\ born = FALSE
  /\ calls = [r \in Requests |-> <<>>]
  /\ objs = [r \in Requests |-> <<>>]
  /\ reporter = [r \in Requests |-> NoServer]
  /\ srvdb = [s \in Aps |-> "ready"]
  /\ aps = [s \in Aps |-> "none"]
  /\ report = [s \in Aps |-> NoReport]

Do(r) ==
  \/ DoSetServerStatus(r) \/ DoCommit(r) \/ DoSave(r) \/ DoDelete(r)
  \/ DoKill(r) \/ DoNotReady(r) \/ DoOrderDeletion(r) \/ DoGetStatus(r)
  \/ DoCreate(r) \/ DoReload(r) \/ DoResumed(r) \/ DoMonitored(r)
  \/ DoCron(r) \/ DoPurgeIfDead(r) \/ DoDisconnect(r) \/ DoRemove(r)

StartRequest(r) ==
  \/ StartNew(r) \/ \E s \in Aps : Report(r, s)
  \/ "resume" \in Kinds /\ StartResume(r)
  \/ "stop" \in Kinds /\ StartPurge(r)
  \/ "logout" \in Kinds /\ Logout(r)
  \/ "kill" \in Kinds /\ Kill(r)
  \/ "disconnect" \in Kinds /\ AdminDisconnect(r)
  \/ "poll" \in Kinds /\ ClientPoll(r)
  \/ "wait" \in Kinds /\ ClientWait(r)
  \/ "cron" \in Kinds /\ CronStart(r)
  \/ "monitoring" \in Kinds /\ \E s \in Aps : Monitoring(r, s)
  \/ "remove" \in Kinds /\ \E s \in Aps : AdminRemove(r, s)

Server(s) ==
  \/ Created(s) \/ CreateFailed(s) \/ CreateEnded(s) \/ LogsIn(s) \/ Disconnects(s)
  \/ LogsOff(s) \/ Destroyed(s) \/ LoseReport(s)

Next == \/ \E r \in Requests : Do(r) \/ StartRequest(r)
        \/ \E s \in Aps : Server(s)

Spec == Init /\ [][Next]_vars

\* PHP finishes the requests it began; the roles do their work, their reports
\* get through in the end, every server keeps sending its monitoring and the
\* client that waits for its session keeps asking for its status.
FairSpec ==
  /\ Spec
  /\ \A r \in Requests : WF_vars(Do(r))
  /\ SF_vars(\E r \in Requests : "wait" \in Kinds /\ ClientWait(r))
  /\ \A s \in Aps :
       /\ WF_vars(Created(s)) /\ WF_vars(Destroyed(s))
       /\ SF_vars(\E r \in Requests : Report(r, s))
       /\ SF_vars(\E r \in Requests : "monitoring" \in Kinds /\ Monitoring(r, s))

\* The crons too come again and again, and find what is due in the end.
CronFairSpec ==
  /\ FairSpec
  /\ SF_vars(\E r \in Requests : "cron" \in Kinds /\ CronStart(r))
  /\ \A k \in 2 .. 5 : SF_vars(\E r \in Requests : DoCronDue(r, k))
-----------------------------------------------------------------------------
(* Properties.                                                             *)

Idle == \A r \in Requests : calls[r] = <<>>

\* While requests come one at a time, a session the Session Manager has
\* forgotten runs on no server it still considers ready.
NoOrphan ==
  Idle /\ born /\ row = NoRow =>
    \A s \in Aps : srvdb[s] = "ready" => aps[s] \notin Live

\* The row only becomes "ready" once every ApS has really created its part.
ReadyOnlyWhenStarted ==
  [][row' # NoRow /\ row'.status = "ready" /\ (row # NoRow => row.status # "ready")
     => \A s \in Aps : aps[s] \notin {"none", "init"}]_vars

\* No step takes the row back to an earlier status, except a resumption of
\* a persistent session: what setServerStatus and setStatus say they avoid.
NoRegress ==
  [][row # NoRow /\ row' # NoRow =>
       \/ Rank[row'.status] >= Rank[row.status]
       \/ Persistent /\ row'.status = "ready"
                     /\ row.status \in {"logged", "disconnected"}]_vars


\* A session under destruction leaves the table in the end.
Gone == row # NoRow /\ row.status = "destroying" ~> row = NoRow

\* A session that is created on every ApS does not wait for ever, whatever
\* reports get lost: it becomes ready or it ends.
Waiting == /\ row # NoRow /\ row.status \in Starting
           /\ \A s \in Aps : aps[s] = "ready"
Starts == Waiting ~> ~Waiting
=============================================================================
