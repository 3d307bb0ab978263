------------------------------ MODULE ApSRole ------------------------------
(***************************************************************************)
(* The role ApplicationServer of the slave server, for sessions of users   *)
(* it creates itself (DomainUlteo).  Three kinds of actors share the table *)
(* "sessions": the role's main loop, which alone replaces and removes its  *)
(* entries; the threads of the HTTP server and of SlaveServer.stop, which  *)
(* mark sessions and spool work; and the SessionManagement processes, each *)
(* of which works on a pickled copy of the session and sends it back.      *)
(*                                                                         *)
(* "locked" keeps one piece of work per session in the spool at a time.    *)
(* It is tested and set by all the threads without a mutex.                *)
(***************************************************************************)
EXTENDS Integers, FiniteSets, Sequences, SequencesExt

CONSTANTS Sessions,   \* session ids; the Session Manager never reuses one
          Handlers,   \* threads of the HTTP server
          Workers,    \* SessionManagement processes
          Main, Stop, \* the role's thread, and the one that stops the server
          TSFails,    \* bound: a dialog with the RDP server may fail
          Mortal,     \* bound: the workers an exception may kill
          Stopping,   \* bound: the server may be stopped
          MaxOrders,  \* bound: the requests to destroy or disconnect a session
          Absent, None

VARIABLES status,   \* the role: see TypeOK
          loop,     \* Role.loop
          sess,     \* the table "sessions": the object it holds for each id
          born,     \* the sessions the Session Manager has asked to create
          user,     \* the OS accounts of the sessions' users
          ts,       \* their sessions on the RDP server
          threads,  \* where each thread is
          sweep,    \* Role.order_stop: the sessions it has still to stop
          orders,   \* how many of those requests there have been
          deferred, \* locked_sessions: work put off until an unlock
          spooler, spooler2, \* work for the workers
          sync,     \* the copies the workers send back
          workers,
          failed    \* the sessions on which a worker gave up (history)

vars == <<status, loop, sess, born, user, ts, threads, sweep, orders, deferred,
          spooler, spooler2, sync, workers, failed>>
role    == <<status, loop, sweep>>
table   == <<sess, born>>
machine == <<user, ts>>
queues  == <<deferred, spooler, spooler2, sync>>
counts  == <<orders, failed>>
-----------------------------------------------------------------------------
Act == {"create", "destroy", "disconnect"}
St == {"init", "ready", "logged", "disconnected", "wait_destroy", "error", "destroyed"}
Object == [st: St, locked: BOOLEAN]
Job == [act: Act, id: Sessions, st: St]
Copy == [id: Sessions, st: St]
Exit == [act |-> "exit", id |-> None, st |-> "init"]
Threads == Handlers \cup {Main, Stop}

ASSUME ApSRoleAssumption ==
  /\ IsFiniteSet(Workers) /\ IsFiniteSet(Sessions)
  /\ Main \notin Handlers /\ Stop \notin Handlers /\ Main # Stop
  /\ TSFails \in BOOLEAN /\ Mortal \subseteq Workers /\ Stopping \in BOOLEAN
  /\ MaxOrders \in Nat
  /\ None \notin Sessions /\ Absent \notin Object

\* A thread carries the work it spools, for which session, the status it read
\* there, and whether the object it holds is still the one in the table.
Frame == [pc: {"idle", "insert", "mark", "spool", "take", "defer", "apply", "watch"},
          act: Act, id: Sessions \cup {None}, st: St, fresh: BOOLEAN]
IdleFrame == [pc |-> "idle", act |-> "create", id |-> None, st |-> "init", fresh |-> FALSE]
At(pc, act, i, st) == [pc |-> pc, act |-> act, id |-> i, st |-> st, fresh |-> TRUE]

Worker == [mode: {"idle", "exited"}, job: {None}] \cup [mode: {"busy", "dead"}, job: Job]
IdleWorker == [mode |-> "idle", job |-> None]

TypeOK ==
  /\ status \in {"running", "lost",                 \* lost: left by itself
                  "stopping", "draining", "failing", \* its loop, then without it
                  "stopped", "final"}
  /\ loop \in BOOLEAN
  /\ sess \in [Sessions -> Object \cup {Absent}]
  /\ born \subseteq Sessions
  /\ user \in [Sessions -> BOOLEAN]
  /\ ts \in [Sessions -> {"none", "logged", "disconnected"}]
  /\ threads \in [Threads -> Frame]
  /\ sweep \in [Sessions -> {"none", "fresh", "stale"}]
  /\ orders \in 0 .. MaxOrders
  /\ deferred \in Seq([act: Act, id: Sessions])
  /\ spooler \in Seq(Job \cup {Exit})
  /\ spooler2 \in Seq(Job)
  /\ sync \in Seq(Copy)
  /\ workers \in [Workers -> Worker]
  /\ failed \subseteq Sessions

Here(i) == sess[i] # Absent
Free(t) == threads[t].pc = "idle"
Goto(t, f) == threads' = [threads EXCEPT ![t] = f]
Over == {"wait_destroy", "destroyed", "error"}
Alive == status \in {"running", "stopping"}
-----------------------------------------------------------------------------
(* Dialog: the requests of the Session Manager, handled by HTTP threads.   *)

\* Refused while the role stops: but not after a failed dialog, and the test
\* is far from the insertion.  An id the table holds already is refused too.
ReqSessionCreate(h, i) ==
  /\ Free(h) /\ i \notin born /\ status \notin {"stopping", "draining", "final"}
  /\ born' = born \cup {i}
  /\ Goto(h, At("insert", "create", i, "init"))
  /\ UNCHANGED <<role, sess, machine, queues, workers, counts>>

Insert(t) ==
  /\ threads[t].pc = "insert"
  /\ sess' = [sess EXCEPT ![threads[t].id] = [st |-> "init", locked |-> FALSE]]
  /\ Goto(t, At("spool", "create", threads[t].id, "init"))
  /\ UNCHANGED <<role, born, machine, queues, workers, counts>>

Ordered == status # "final" /\ orders < MaxOrders /\ orders' = orders + 1

ReqSessionDestroy(h, i) ==
  /\ Free(h) /\ Here(i) /\ sess[i].st \notin Over /\ Ordered
  /\ Goto(h, At("mark", "destroy", i, sess[i].st))
  /\ UNCHANGED <<role, table, machine, queues, workers, failed>>

ReqSessionDisconnect(h, i) ==
  /\ Free(h) /\ Here(i) /\ sess[i].st = "logged" /\ Ordered
  /\ Goto(h, At("spool", "disconnect", i, "logged"))
  /\ UNCHANGED <<role, table, machine, queues, workers, failed>>

\* session.switch_status on the object the thread holds.
Write(f, st) == sess' = IF f.fresh THEN [sess EXCEPT ![f.id].st = st] ELSE sess

Mark(t) ==
  /\ threads[t].pc = "mark"
  /\ LET f == threads[t]
     IN  /\ Write(f, "wait_destroy")
         /\ Goto(t, [f EXCEPT !.pc = "spool", !.st = "wait_destroy"])
  /\ UNCHANGED <<role, born, machine, queues, workers, counts>>
-----------------------------------------------------------------------------
(* Role.spool_action: the test of "locked", then what it decided.          *)

\* Mutant: the work is spooled without a look at "locked".
NeverLocked(i) == FALSE
Locked(i) == sess[i].locked

SpoolAction(t) ==
  /\ threads[t].pc = "spool"
  /\ LET f == threads[t]
         i == f.id
     IN  \/ ~Here(i) /\ Goto(t, IdleFrame)
         \/ Here(i) /\ Locked(i) /\ Goto(t, At("defer", f.act, i, sess[i].st))
         \/ Here(i) /\ ~Locked(i) /\ Goto(t, At("take", f.act, i, sess[i].st))
  /\ UNCHANGED <<role, table, machine, queues, workers, counts>>

Take(t) ==
  /\ threads[t].pc = "take"
  /\ LET f == threads[t]
     IN  /\ sess' = IF f.fresh THEN [sess EXCEPT ![f.id].locked = TRUE] ELSE sess
         /\ spooler' = Append(spooler, [act |-> f.act, id |-> f.id, st |-> f.st])
  /\ Goto(t, IdleFrame)
  /\ UNCHANGED <<role, born, machine, deferred, spooler2, sync, workers, counts>>

\* Mutant: work on a locked session is refused, not put off.
DropWork(t) ==
  /\ threads[t].pc = "defer" /\ Goto(t, IdleFrame)
  /\ UNCHANGED <<role, table, machine, queues, workers, counts>>

Defer(t) ==
  /\ threads[t].pc = "defer"
  /\ deferred' = Append(deferred, [act |-> threads[t].act, id |-> threads[t].id])
  /\ Goto(t, IdleFrame)
  /\ UNCHANGED <<role, table, machine, spooler, spooler2, sync, workers, counts>>
-----------------------------------------------------------------------------
(* Role.run: the copies that come back.  The Session Manager is told of a  *)
(* new status before the table gets the copy, which takes a while.         *)

SyncTake ==
  /\ Alive /\ Free(Main) /\ sync # <<>>
  /\ sync' = Tail(sync)
  /\ LET c == Head(sync)
     IN  IF Here(c.id) THEN Goto(Main, At("apply", "create", c.id, c.st))
                       ELSE UNCHANGED threads
  /\ UNCHANGED <<role, table, machine, deferred, spooler, spooler2, workers, counts>>

\* Mutant: the worker sends its copy back without unlocking it.
StillLocked(st) == [st |-> st, locked |-> TRUE]
Returned(st) == [st |-> st, locked |-> FALSE]

SyncApply ==
  /\ threads[Main].pc = "apply"
  /\ LET i == threads[Main].id
         st == threads[Main].st
     IN  /\ sess' = [sess EXCEPT ![i] = IF st = "destroyed" THEN Absent ELSE Returned(st)]
         /\ threads' = [t \in Threads |->
                          IF t = Main THEN IdleFrame
                          ELSE IF threads[t].id = i THEN [threads[t] EXCEPT !.fresh = FALSE]
                          ELSE threads[t]]
         /\ sweep' = [sweep EXCEPT ![i] = IF @ = "fresh" THEN "stale" ELSE @]
  /\ UNCHANGED <<status, loop, born, machine, queues, workers, counts>>

\* Role.update_locked_sessions, for the first piece of work it can move: in
\* each round of the loop, and once more in finalize.
Movable(k) == Here(deferred[k].id) => ~sess[deferred[k].id].locked

Swept == Free(Stop) /\ \A i \in Sessions : sweep[i] = "none"

UpdateLockedSessions ==
  /\ Free(Main) /\ (Alive \/ (status = "stopped" /\ Swept))
  /\ \E k \in 1 .. Len(deferred) :
       /\ Movable(k) /\ \A j \in 1 .. k - 1 : ~Movable(j)
       /\ deferred' = RemoveAt(deferred, k)
       /\ LET d == deferred[k]
          IN  \/ ~Here(d.id) /\ UNCHANGED <<sess, spooler2>>
              \/ /\ Here(d.id)
                 /\ sess' = [sess EXCEPT ![d.id].locked = TRUE]
                 /\ spooler2' = Append(spooler2, [act |-> d.act, id |-> d.id,
                                                  st |-> sess[d.id].st])
  /\ UNCHANGED <<role, born, machine, threads, spooler, sync, workers, counts>>

\* The walk over the sessions: what the RDP server says of one of them.  The
\* Session Manager is told before the status is written, here too.
Watched(i) == Alive /\ Free(Main) /\ Here(i)

WatchGone(i) ==
  /\ Watched(i) /\ ts[i] = "none" /\ sess[i].st \in {"logged", "disconnected"}
  /\ Goto(Main, At("mark", "destroy", i, sess[i].st))
  /\ UNCHANGED <<role, table, machine, queues, workers, counts>>

Follows(st, now) ==
  \/ st = "ready" /\ now \in {"logged", "disconnected"}
  \/ st = "logged" /\ now = "disconnected"
  \/ st = "disconnected" /\ now = "logged"

WatchChange(i) ==
  /\ Watched(i) /\ Follows(sess[i].st, ts[i])
  /\ Goto(Main, At("watch", "create", i, ts[i]))
  /\ UNCHANGED <<role, table, machine, queues, workers, counts>>

Switch(t) ==
  /\ threads[t].pc = "watch"
  /\ Write(threads[t], threads[t].st)
  /\ Goto(t, IdleFrame)
  /\ UNCHANGED <<role, born, machine, queues, workers, counts>>
-----------------------------------------------------------------------------
(* SessionManagement: a worker takes work, spooler2 first unless its item  *)
(* is still in the buffer of the queue, does it and sends its copy back.   *)

\* Mutant: "exit" is not told from work on a session.
AlwaysWorks(j) == [mode |-> "busy", job |-> j]
Received(j) == IF j = Exit THEN [mode |-> "exited", job |-> None]
                           ELSE [mode |-> "busy", job |-> j]

WorkerTakes(w) ==
  /\ workers[w].mode = "idle"
  /\ \/ /\ spooler2 # <<>> /\ spooler2' = Tail(spooler2)
        /\ workers' = [workers EXCEPT ![w] = Received(Head(spooler2))]
        /\ UNCHANGED spooler
     \/ /\ spooler # <<>> /\ spooler' = Tail(spooler)
        /\ workers' = [workers EXCEPT ![w] = Received(Head(spooler))]
        /\ UNCHANGED spooler2
  /\ UNCHANGED <<role, table, machine, threads, deferred, sync, counts>>

Doing(w, act) == workers[w].mode = "busy" /\ workers[w].job.act = act

Done(w, st) ==
  /\ sync' = Append(sync, [id |-> workers[w].job.id, st |-> st])
  /\ workers' = [workers EXCEPT ![w] = IdleWorker]
  /\ UNCHANGED <<role, table, threads, orders, deferred, spooler, spooler2>>

GivenUpOn(i) == failed' = failed \cup {i}
GivesUp(i) == TSFails /\ GivenUpOn(i)
Removed(i) == user' = [user EXCEPT ![i] = FALSE] /\ ts' = [ts EXCEPT ![i] = "none"]
Account(i) == user' = [user EXCEPT ![i] = TRUE] /\ UNCHANGED ts

\* A creation that fails destroys the session, which may fail too.
CreateSession(w) ==
  /\ Doing(w, "create")
  /\ LET i == workers[w].job.id
     IN  \/ Account(i) /\ Done(w, "ready") /\ UNCHANGED failed
         \/ Removed(i) /\ Done(w, "destroyed") /\ UNCHANGED failed
         \/ Account(i) /\ Done(w, "error") /\ GivesUp(i)

\* When the RDP server does not answer, the copy goes back as it came.
DestroySession(w) ==
  /\ Doing(w, "destroy")
  /\ LET i == workers[w].job.id
     IN  \/ Removed(i) /\ Done(w, "destroyed") /\ UNCHANGED failed
         \/ /\ user[i] /\ UNCHANGED machine
            /\ Done(w, workers[w].job.st) /\ GivesUp(i)

\* Neither does it find the state of a session that is not there (Windows).
DisconnectSession(w) ==
  /\ Doing(w, "disconnect")
  /\ LET i == workers[w].job.id
     IN  \/ /\ ts' = [ts EXCEPT ![i] = IF @ = "logged" THEN "disconnected" ELSE @]
            /\ Done(w, "disconnected") /\ UNCHANGED failed
         \/ /\ user[i] /\ (TSFails \/ ts[i] = "none") /\ UNCHANGED ts
            /\ Done(w, workers[w].job.st) /\ GivenUpOn(i)
  /\ UNCHANGED user

\* An exception that is not caught ends the process; the role only logs it.
WorkerDies(w) ==
  /\ w \in Mortal /\ workers[w].mode = "busy"
  /\ workers' = [workers EXCEPT ![w].mode = "dead"]
  /\ UNCHANGED <<role, table, machine, threads, queues, counts>>
-----------------------------------------------------------------------------
(* The end of the role: SlaveServer.stop, or a failed dialog.              *)

\* Mutant: one worker is forgotten.
TooFewExits(s) == s \o [n \in 1 .. Cardinality(Workers) - 1 |-> Exit]
WithExits(s) == s \o [n \in 1 .. Cardinality(Workers) |-> Exit]

OrderStop ==
  /\ Stopping /\ status = "running" /\ Free(Stop)
  /\ status' = "stopping"
  /\ sweep' = [i \in Sessions |-> IF Here(i) THEN "fresh" ELSE "none"]
  /\ UNCHANGED <<loop, table, machine, threads, queues, workers, counts>>

StopSession(i) ==
  /\ Free(Stop) /\ sweep[i] # "none"
  /\ sess' = IF sweep[i] = "fresh" THEN [sess EXCEPT ![i].st = "wait_destroy"] ELSE sess
  /\ sweep' = [sweep EXCEPT ![i] = "none"]
  /\ Goto(Stop, At("spool", "destroy", i, "wait_destroy"))
  /\ UNCHANGED <<status, loop, born, machine, queues, workers, counts>>

\* stop_timeout: SlaveServer.stop calls force_stop itself.
StopTimeout ==
  /\ status = "stopping" /\ loop /\ Swept
  /\ loop' = FALSE
  /\ spooler' = WithExits(spooler)
  /\ UNCHANGED <<status, sweep, table, machine, threads, deferred, spooler2, sync,
                 workers, counts>>

\* Role.run leaves its loop, for good, also after a dialog with the RDP server
\* failed, and calls force_stop.
LeaveLoop ==
  /\ Alive /\ Free(Main)
  /\ \/ /\ loop => status = "stopping" /\ \A i \in Sessions : ~Here(i)
        /\ status' = "draining"
     \/ /\ TSFails /\ \E i \in Sessions : Here(i)
        /\ status' = IF status = "stopping" THEN "failing" ELSE "lost"
  /\ loop' = FALSE
  /\ spooler' = WithExits(spooler)
  /\ UNCHANGED <<sweep, table, machine, threads, deferred, spooler2, sync, workers, counts>>

\* The workers are joined.  A role that left by itself is lost for the server,
\* which takes it off its list and never finalizes it.
Joined ==
  /\ status \in {"draining", "failing"} /\ \A w \in Workers : workers[w].mode \in {"exited", "dead"}
  /\ status' = "stopped"
  /\ UNCHANGED <<loop, sweep, table, machine, threads, queues, workers, counts>>

\* Role.finalize: the sessions left are destroyed here, then every account
\* of the group OVDUsers is removed.
Finalize ==
  /\ status = "stopped" /\ Swept /\ \A k \in 1 .. Len(deferred) : ~Movable(k)
  /\ status' = "final"
  /\ \E lost \in SUBSET Sessions :
       /\ lost # {} => TSFails
       /\ failed' = failed \cup lost
       /\ sess' = [i \in Sessions |->
                     IF ~Here(i) THEN Absent
                     ELSE [sess[i] EXCEPT !.st = IF i \in lost THEN "wait_destroy"
                                                              ELSE "destroyed"]]
  /\ user' = [i \in Sessions |-> FALSE] /\ ts' = [i \in Sessions |-> "none"]
  /\ UNCHANGED <<loop, sweep, born, threads, queues, workers, orders>>
-----------------------------------------------------------------------------
(* The users, on the RDP server.                                           *)

UserActs(i, from, to) ==
  /\ ts[i] \in from /\ ts' = [ts EXCEPT ![i] = to]
  /\ UNCHANGED <<role, table, user, threads, queues, workers, counts>>

LogsIn(i)      == user[i] /\ UserActs(i, {"none", "disconnected"}, "logged")
Disconnects(i) == UserActs(i, {"logged"}, "disconnected")
LogsOff(i)     == UserActs(i, {"logged", "disconnected"}, "none")
-----------------------------------------------------------------------------
Init ==
  /\ status = "running" /\ loop = TRUE
  /\ sess = [i \in Sessions |-> Absent]
  /\ born = {}
  /\ user = [i \in Sessions |-> FALSE]
  /\ ts = [i \in Sessions |-> "none"]
  /\ threads = [t \in Threads |-> IdleFrame]
  /\ sweep = [i \in Sessions |-> "none"]
  /\ orders = 0
  /\ deferred = <<>> /\ spooler = <<>> /\ spooler2 = <<>> /\ sync = <<>>
  /\ workers = [w \in Workers |-> IdleWorker]
  /\ failed = {}

Request(h, i) == ReqSessionCreate(h, i) \/ ReqSessionDestroy(h, i) \/ ReqSessionDisconnect(h, i)
Thread(t) == Insert(t) \/ Mark(t) \/ SpoolAction(t) \/ Take(t) \/ Defer(t) \/ Switch(t)
RunLoop == SyncTake \/ SyncApply \/ UpdateLockedSessions
           \/ (\E i \in Sessions : WatchGone(i) \/ WatchChange(i)) \/ LeaveLoop \/ Joined
Work(w) == WorkerTakes(w) \/ CreateSession(w) \/ DestroySession(w) \/ DisconnectSession(w)
StopServer == OrderStop \/ (\E i \in Sessions : StopSession(i)) \/ StopTimeout \/ Finalize
User(i) == LogsIn(i) \/ Disconnects(i) \/ LogsOff(i)

Next ==
  \/ \E h \in Handlers, i \in Sessions : Request(h, i)
  \/ \E t \in Threads : Thread(t)
  \/ RunLoop
  \/ \E w \in Workers : Work(w) \/ WorkerDies(w)
  \/ StopServer
  \/ \E i \in Sessions : User(i)

Spec == Init /\ [][Next]_vars

\* The threads run, the role's loop goes on round, the workers work and
\* SlaveServer.stop carries on until its time is over.
FairSpec ==
  /\ Spec
  /\ \A t \in Threads : WF_vars(Thread(t))
  /\ SF_vars(SyncTake) /\ WF_vars(SyncApply) /\ SF_vars(UpdateLockedSessions)
  /\ SF_vars(LeaveLoop) /\ WF_vars(Joined)
  /\ \A w \in Workers : WF_vars(Work(w))
  /\ WF_vars(\E i \in Sessions : StopSession(i)) /\ WF_vars(StopTimeout) /\ WF_vars(Finalize)
-----------------------------------------------------------------------------
(* Properties.                                                             *)

\* Who is working, or will work, on session i.
InSpool(i) ==
  \/ \E j \in Range(spooler) \cup Range(spooler2) \cup Range(sync) : j.id = i
  \/ \E w \in Workers : workers[w].mode \in {"busy", "dead"} /\ workers[w].job.id = i
  \/ threads[Main].pc = "apply" /\ threads[Main].id = i

\* A session is not locked for nothing: the work that locked it is in a queue,
\* at a worker or on its way back.  Else its deferred work would never start.
\* The worker may be dead: the work it died on stays where it is, the session
\* locked and its deferred work behind it, which this does not exclude.
LockedIsInSpool == \A i \in Sessions : Here(i) /\ sess[i].locked => InSpool(i)

\* Who is destroying, or will destroy, session i.
Destroys(d, i) == d.act = "destroy" /\ d.id = i
DestroyInSpool(i) ==
  \/ \E t \in Threads : threads[t].pc \in {"spool", "take", "defer"} /\ Destroys(threads[t], i)
  \/ \E d \in Range(deferred) \cup Range(spooler) \cup Range(spooler2) : Destroys(d, i)
  \/ \E w \in Workers : workers[w].mode \in {"busy", "dead"} /\ Destroys(workers[w].job, i)
  \/ \E c \in Range(sync) : c.st = "destroyed" /\ c.id = i
  \/ /\ threads[Main].pc = "apply"
     /\ threads[Main].st = "destroyed" /\ threads[Main].id = i

\* An order to destroy is not lost in the races around "locked": a session
\* that waits for its destruction has one under way.  A second order would not
\* help, Dialog ignores it.  Two losses are excused, since no race causes them:
\* a worker that gave up on the session, and one that died with its work.
DestroyIsPending ==
  \A i \in Sessions : Here(i) /\ sess[i].st = "wait_destroy" /\ i \notin failed
                       => DestroyInSpool(i)

\* With one HTTP request at a time and no stop, an OS account never outlives
\* its session: nothing creates it once the role has forgotten the session.
NoOrphanUser == \A i \in Sessions : user[i] => Here(i) \/ InSpool(i)

\* A session that waits for its destruction leaves the table in the end.
DestroyEnds ==
  \A i \in Sessions :
    Here(i) /\ sess[i].st = "wait_destroy" ~> ~Here(i) \/ status = "final"

\* A server that is told to stop does.
StopEnds == status = "stopping" ~> status = "final"
=============================================================================
