---------------------------- MODULE GatewayPool ----------------------------
(***************************************************************************)
(* The pool of processes of the role Gateway, and of the role WebApps that *)
(* has a copy of it.  The father accepts the connections, one at a time,   *)
(* and hands each over to a process of the pool; a process that stayed     *)
(* idle for two periods asks to be killed.  The table of processes is      *)
(* changed under kill_mutex by three kinds of threads: the one that        *)
(* accepts, one control thread per process, and the one that stops.        *)
(*                                                                         *)
(* A process ends when its control thread reads the end of its pipe, that  *)
(* is when nobody holds the other end any more: "held" says who does.  The *)
(* order "stop" of ConnectionPoolProcess.terminate is not modelled: it is  *)
(* written to the pipe on which the process only awaits answers.           *)
(***************************************************************************)
EXTENDS Integers, FiniteSets

CONSTANTS Pids,          \* bound: the processes the pool may create
          Conns,         \* bound: the connections that clients open
          MaxProcess, MaxConnection, \* Config.max_process, max_connection
          Stopping,      \* bound: the role may be ordered to stop
          Father,        \* the process of the slave server
          Server, Stop,  \* its threads that accept, and that stop the role
          Free,          \* kill_mutex is not held
          None

VARIABLES table,  \* Role.processes: its keys
          count,  \* and the number of connections last noted for each
          mutex,  \* who holds kill_mutex
          server, \* GatewayTCPHandler.handle
          stop,   \* Role.order_stop
          ctrl,   \* the control thread of each process, in the father
          child,  \* the threads of each process
          held,   \* who holds the father's end of each process's command pipe
          conn    \* the connections

vars == <<table, count, mutex, server, stop, ctrl, child, held, conn>>
-----------------------------------------------------------------------------
ASSUME GatewayPoolAssumption ==
  /\ IsFiniteSet(Pids) /\ IsFiniteSet(Conns)
  /\ MaxProcess \in Nat \ {0} /\ MaxConnection \in Nat
  /\ Stopping \in BOOLEAN
  /\ Father \notin Pids /\ Server \notin Pids /\ Stop \notin Pids /\ Free \notin Pids
  /\ None \notin Pids /\ None \notin Conns
  /\ Server # Stop /\ Server # Free /\ Stop # Free

\* main: ConnectionPoolProcess.run; listens: its control thread; asyncore: the
\* thread that serves the connections; timer: "asking" once it wants to end.
Child == [main: {"none", "running", "ended"}, listens: BOOLEAN, lazy: BOOLEAN,
          timer: {"armed", "asking", "over"}, asyncore: {"dead", "loop", "leaving"}]
NoChild == [main |-> "none", listens |-> FALSE, lazy |-> FALSE,
            timer |-> "over", asyncore |-> "dead"]
NewChild == [main |-> "running", listens |-> TRUE, lazy |-> FALSE,
             timer |-> "armed", asyncore |-> "dead"]

ServerState == [pc: {"accept", "lock", "ask", "send", "off"}, todo: SUBSET Pids,
                best: Pids \cup {None}, conn: Conns \cup {None}]
Accepting == [pc |-> "accept", todo |-> {}, best |-> None, conn |-> None]

TypeOK ==
  /\ table \subseteq Pids
  /\ count \in [Pids -> Nat]
  /\ mutex \in Pids \cup {Free, Server, Stop}
  /\ server \in ServerState
  /\ stop \in [pc: {"no", "shutdown", "kill", "join", "raised", "done"},
               todo: SUBSET Pids, pid: Pids \cup {None}]
  /\ ctrl \in [Pids -> {"none", "serving", "killing", "joining", "ended"}]
  /\ child \in [Pids -> Child]
  /\ held \in [Pids -> SUBSET (Pids \cup {Father})]
  /\ conn \in [Conns -> [st: {"new", "accepted", "queued", "alone", "paired", "closed"},
                         pid: Pids \cup {None}]]

Running(i) == child[i].main = "running"
ConnsIn(i, st) == {c \in Conns : conn[c].pid = i /\ conn[c].st \in st}
-----------------------------------------------------------------------------
(* The father: accept a connection, choose a process, hand it over.        *)

Accept(c) ==
  /\ server.pc = "accept" /\ conn[c].st = "new"
  /\ conn' = [conn EXCEPT ![c].st = "accepted"]
  /\ server' = [server EXCEPT !.pc = "lock", !.conn = c]
  /\ UNCHANGED <<table, count, mutex, stop, ctrl, child, held>>

Lock ==
  /\ server.pc = "lock" /\ mutex = Free
  /\ mutex' = Server
  /\ server' = [server EXCEPT !.pc = "ask", !.todo = table]
  /\ UNCHANGED <<table, count, stop, ctrl, child, held, conn>>

\* Mutant: asyncore's map is thought to hold one more socket than connections.
NbConnLessOne(i) == (Cardinality(ConnsIn(i, {"alone"}))
                     + 2 * Cardinality(ConnsIn(i, {"paired"})) - 1) \div 2

\* ControlFatherProcess._nb_conn: a connection whose protocol is known has two
\* sockets in asyncore's map, a new one has one, and one in the queue none.
NbConn(i) == (Cardinality(ConnsIn(i, {"alone"}))
              + 2 * Cardinality(ConnsIn(i, {"paired"}))) \div 2

Ask(i) ==
  /\ server.pc = "ask" /\ i \in server.todo
  /\ child[i].listens
  /\ count' = [count EXCEPT ![i] = NbConn(i)]
  /\ server' = IF NbConn(i) < MaxConnection
               THEN [server EXCEPT !.pc = "send", !.todo = {}, !.best = i]
               ELSE [server EXCEPT !.todo = @ \ {i}]
  /\ UNCHANGED <<table, mutex, stop, ctrl, child, held, conn>>

NoneFits == server.pc = "ask" /\ server.todo = {}
Best(i) == server' = [server EXCEPT !.pc = "send", !.best = i]

\* Role.create_process: the new process is a copy of the father and keeps
\* whatever pipes the father has open then, but its own.
CreateProcess(i) ==
  /\ NoneFits /\ Cardinality(table) < MaxProcess
  /\ child[i].main = "none"
  /\ child' = [child EXCEPT ![i] = NewChild]
  /\ ctrl' = [ctrl EXCEPT ![i] = "serving"]
  /\ held' = [k \in Pids |-> IF k = i THEN {Father}
                             ELSE IF Father \in held[k] THEN held[k] \cup {i}
                             ELSE held[k]]
  /\ table' = table \cup {i}
  /\ count' = [count EXCEPT ![i] = 0]
  /\ Best(i)
  /\ UNCHANGED <<mutex, stop, conn>>

UseLeastLoaded(i) ==
  /\ NoneFits /\ Cardinality(table) >= MaxProcess
  /\ i \in table /\ \A j \in table : count[i] <= count[j]
  /\ Best(i)
  /\ UNCHANGED <<table, count, mutex, stop, ctrl, child, held, conn>>

SendSocket ==
  /\ server.pc = "send" /\ child[server.best].listens
  /\ conn' = [conn EXCEPT ![server.conn] = [st |-> "queued", pid |-> server.best]]
  /\ server' = Accepting
  /\ mutex' = Free
  /\ UNCHANGED <<table, count, stop, ctrl, child, held>>
-----------------------------------------------------------------------------
(* Role.kill_process, by the control thread of the process it kills, which *)
(* does not join itself, or by the thread that stops the role.             *)

\* Mutant: the control thread does not take the mutex.
KillsAtOnce(i) ==
  /\ ctrl[i] = "killing"
  /\ mutex' = mutex
  /\ table' = table \ {i}
  /\ held' = [held EXCEPT ![i] = @ \ {Father}]
  /\ ctrl' = [ctrl EXCEPT ![i] = "joining"]
  /\ UNCHANGED <<count, server, stop, child, conn>>

\* The father forgets process i and closes its pipes.
Dismiss(i) ==
  /\ table' = table \ {i}
  /\ held' = [held EXCEPT ![i] = @ \ {Father}]

ReadStopPid(i) ==
  /\ ctrl[i] = "serving" /\ child[i].timer = "asking"
  /\ ctrl' = [ctrl EXCEPT ![i] = "killing"]
  /\ child' = [child EXCEPT ![i].timer = "over"]
  /\ UNCHANGED <<table, count, mutex, server, stop, held, conn>>

KillsItself(i) ==
  /\ ctrl[i] = "killing" /\ mutex = Free
  /\ mutex' = i
  /\ i \in table /\ Dismiss(i)
  /\ ctrl' = [ctrl EXCEPT ![i] = "joining"]
  /\ UNCHANGED <<count, server, stop, child, conn>>

\* Mutant: the mutex is released before the process is joined.
NeverJoins(i) == TRUE
Joined(i) == child[i].main = "ended"

KilledItself(i) ==
  /\ ctrl[i] = "joining" /\ Joined(i)
  /\ ctrl' = [ctrl EXCEPT ![i] = "ended"]
  /\ mutex' = Free
  /\ UNCHANGED <<table, count, server, stop, child, held, conn>>

\* Waiting for a command, it reads the end of its pipe.
CtrlEnds(i) ==
  /\ ctrl[i] = "serving" /\ child[i].main = "ended"
  /\ ctrl' = [ctrl EXCEPT ![i] = "ended"]
  /\ UNCHANGED <<table, count, mutex, server, stop, child, held, conn>>
-----------------------------------------------------------------------------
(* Role.order_stop: end the thread that accepts, then kill the processes.  *)

OrderStop ==
  /\ Stopping /\ stop.pc = "no"
  /\ stop' = [stop EXCEPT !.pc = "shutdown"]
  /\ UNCHANGED <<table, count, mutex, server, ctrl, child, held, conn>>

Shutdown ==
  /\ stop.pc = "shutdown" /\ server.pc = "accept"
  /\ server' = [server EXCEPT !.pc = "off"]
  /\ stop' = [stop EXCEPT !.pc = "kill", !.todo = table]
  /\ UNCHANGED <<table, count, mutex, ctrl, child, held, conn>>

\* A process that is no longer in the table raises an exception in pop, which
\* leaves the mutex held.
StopKills(i) ==
  /\ stop.pc = "kill" /\ i \in stop.todo /\ mutex = Free
  /\ mutex' = Stop
  /\ \/ /\ i \in table /\ Dismiss(i)
        /\ stop' = [pc |-> "join", todo |-> stop.todo \ {i}, pid |-> i]
     \/ /\ i \notin table /\ UNCHANGED <<table, held>>
        /\ stop' = [stop EXCEPT !.pc = "raised"]
  /\ UNCHANGED <<count, server, ctrl, child, conn>>

StopJoins ==
  /\ stop.pc = "join" /\ ctrl[stop.pid] = "ended" /\ Joined(stop.pid)
  /\ stop' = [stop EXCEPT !.pc = "kill", !.pid = None]
  /\ mutex' = Free
  /\ UNCHANGED <<table, count, server, ctrl, child, held, conn>>

StopEnds ==
  /\ stop.pc = "kill" /\ stop.todo = {}
  /\ stop' = [stop EXCEPT !.pc = "done"]
  /\ UNCHANGED <<table, count, mutex, server, ctrl, child, held, conn>>
-----------------------------------------------------------------------------
(* A process of the pool.                                                  *)

\* The control thread reads the end of the pipe.
HangUp(i) ==
  /\ Running(i) /\ child[i].listens /\ held[i] = {}
  /\ child' = [child EXCEPT ![i].listens = FALSE]
  /\ UNCHANGED <<table, count, mutex, server, stop, ctrl, held, conn>>

\* The main loop takes a socket off the queue, whose client may have left.
\* asyncore is started again when its thread is dead, not when it soon will be.
Dispatch(c) ==
  /\ conn[c].st = "queued" /\ Running(conn[c].pid)
  /\ \/ /\ conn' = [conn EXCEPT ![c].st = "alone"]
        /\ child' = [child EXCEPT ![conn[c].pid].asyncore = IF @ = "dead" THEN "loop" ELSE @]
     \/ /\ conn' = [conn EXCEPT ![c].st = "closed"]
        /\ UNCHANGED child
  /\ UNCHANGED <<table, count, mutex, server, stop, ctrl, held>>

\* Mutant: the main loop ends with its control thread, whatever is queued.
EndsAtOnce(i) == ~child[i].listens
LoopEnds(i) == ~child[i].listens /\ ConnsIn(i, {"queued"}) = {}

\* The process ends and closes the connections and the pipes it has.
ChildEnds(i) ==
  /\ Running(i) /\ LoopEnds(i)
  /\ child' = [child EXCEPT ![i].main = "ended", ![i].asyncore = "dead"]
  /\ conn' = [c \in Conns |-> IF c \in ConnsIn(i, {"alone", "paired"})
                              THEN [conn[c] EXCEPT !.st = "closed"] ELSE conn[c]]
  /\ held' = [k \in Pids |-> held[k] \ {i}]
  /\ UNCHANGED <<table, count, mutex, server, stop, ctrl>>

\* ConnectionPoolProcess.clean, run by a timer.
Clean(i) ==
  /\ Running(i) /\ child[i].timer = "armed"
  /\ LET sleeping == child[i].asyncore = "dead"
     IN  child' = [child EXCEPT
                     ![i].lazy = sleeping,
                     ![i].timer = IF sleeping /\ child[i].lazy THEN "asking" ELSE @]
  /\ UNCHANGED <<table, count, mutex, server, stop, ctrl, held, conn>>

\* asyncore.loop returns when no connection is left, then its thread ends.
AsyncoreLeaves(i) ==
  /\ child[i].asyncore = "loop" /\ ConnsIn(i, {"alone", "paired"}) = {}
  /\ child' = [child EXCEPT ![i].asyncore = "leaving"]
  /\ UNCHANGED <<table, count, mutex, server, stop, ctrl, held, conn>>

AsyncoreDies(i) ==
  /\ child[i].asyncore = "leaving"
  /\ child' = [child EXCEPT ![i].asyncore = "dead"]
  /\ UNCHANGED <<table, count, mutex, server, stop, ctrl, held, conn>>

\* What asyncore makes of a connection: proxied to its server, or closed.
Serve(c, from, to) ==
  /\ conn[c].st \in from /\ child[conn[c].pid].asyncore = "loop"
  /\ conn' = [conn EXCEPT ![c].st = to]
  /\ UNCHANGED <<table, count, mutex, server, stop, ctrl, child, held>>

Pair(c)  == Serve(c, {"alone"}, "paired")
Close(c) == Serve(c, {"alone", "paired"}, "closed")
-----------------------------------------------------------------------------
Init ==
  /\ table = {} /\ count = [i \in Pids |-> 0] /\ mutex = Free
  /\ server = Accepting
  /\ stop = [pc |-> "no", todo |-> {}, pid |-> None]
  /\ ctrl = [i \in Pids |-> "none"]
  /\ child = [i \in Pids |-> NoChild]
  /\ held = [i \in Pids |-> {}]
  /\ conn = [c \in Conns |-> [st |-> "new", pid |-> None]]

Handle == \/ Lock \/ SendSocket
          \/ \E i \in Pids : Ask(i) \/ CreateProcess(i) \/ UseLeastLoaded(i)
Control(i) == ReadStopPid(i) \/ KillsItself(i) \/ KilledItself(i) \/ CtrlEnds(i)
StopRole == Shutdown \/ (\E i \in Pids : StopKills(i)) \/ StopJoins \/ StopEnds
Process(i) == HangUp(i) \/ ChildEnds(i)
Asyncore(i) == AsyncoreLeaves(i) \/ AsyncoreDies(i)

Next ==
  \/ \E c \in Conns : Accept(c) \/ Dispatch(c) \/ Pair(c) \/ Close(c)
  \/ Handle
  \/ OrderStop \/ StopRole
  \/ \E i \in Pids : Control(i) \/ Process(i) \/ Asyncore(i) \/ Clean(i)

Spec == Init /\ [][Next]_vars

\* Threads run and timers fire; nothing is asked of the clients.
FairSpec ==
  /\ Spec
  /\ WF_vars(Handle) /\ WF_vars(StopRole)
  /\ \A c \in Conns : WF_vars(Dispatch(c))
  /\ \A i \in Pids : /\ WF_vars(Control(i)) /\ WF_vars(Process(i))
                     /\ WF_vars(Asyncore(i)) /\ WF_vars(Clean(i))
-----------------------------------------------------------------------------
(* Properties.                                                             *)

\* The process that the accepting thread talks to answers.  Else send raises
\* an exception in handle, kill_mutex stays held and the pool is dead.
Talks(i) == \/ server.pc = "ask" /\ i \in server.todo
            \/ server.pc = "send" /\ i = server.best
AskedAnswers == \A i \in Pids : Talks(i) => i \in table /\ child[i].listens

\* There are never more processes than configured, not even while one that is
\* out of the table is still ending.
RunningBound == Cardinality({i \in Pids : Running(i)}) <= MaxProcess

\* No process ends with a connection in its queue that it never looked at.
NoSocketForgotten == \A c \in Conns : conn[c].st = "queued" => Running(conn[c].pid)

\* A process that the father has dismissed ends.
KilledEnds == \A i \in Pids : Running(i) /\ i \notin table ~> ~Running(i)
=============================================================================
