------------------------- MODULE GatewayPool_proofs -------------------------
(***************************************************************************)
(* What holds of the pool for any number of processes and connections and  *)
(* any limits: the accepting thread only ever talks to a process that      *)
(* answers, no process forgets a connection, and the limit holds.          *)
(***************************************************************************)
EXTENDS GatewayPool, FiniteSetTheorems, TLAPS

\* Who holds the mutex, seen from each kind of thread.
MutexInv ==
  /\ mutex = Server <=> server.pc \in {"ask", "send"}
  /\ \A i \in Pids : mutex = i <=> ctrl[i] = "joining"
  /\ mutex = Stop <=> stop.pc \in {"join", "raised"}

\* A process of the table runs and answers, as the father holds its pipe; one
\* that runs outside of the table is being killed by the holder of the mutex.
Dying(i) == mutex = i \/ (stop.pc = "join" /\ stop.pid = i)
LiveInv ==
  /\ \A i \in table : Running(i) /\ child[i].listens /\ Father \in held[i]
  /\ \A i \in Pids : Running(i) => i \in table \/ Dying(i)

\* The accepting thread has its processes from the table.
ChosenInv ==
  /\ server.pc = "ask" => server.todo \subseteq table
  /\ server.pc = "send" => server.best \in table

QueuedInv ==
  \A c \in Conns : conn[c].st = "queued" => conn[c].pid \in Pids /\ Running(conn[c].pid)

PoolInv == TypeOK /\ MutexInv /\ LiveInv /\ ChosenInv /\ QueuedInv
-----------------------------------------------------------------------------
LEMMA NbConnType ==
  ASSUME NEW i \in Pids
  PROVE  NbConn(i) \in Nat
<1>1. \A st : IsFiniteSet(ConnsIn(i, st)) /\ Cardinality(ConnsIn(i, st)) \in Nat
  BY GatewayPoolAssumption, FS_Subset, FS_CardinalityType DEF ConnsIn
<1> DEFINE a == Cardinality(ConnsIn(i, {"alone"}))
           b == Cardinality(ConnsIn(i, {"paired"}))
<1>2. a \in Nat /\ b \in Nat
  BY <1>1
<1> HIDE DEF a, b
<1>3. (a + 2 * b) \div 2 \in Nat
  BY <1>2
<1>4. QED
  BY <1>3 DEF NbConn, a, b

LEMMA ChildWith ==
  ASSUME TypeOK, NEW i \in Pids, NEW e \in Child
  PROVE  [child EXCEPT ![i] = e] \in [Pids -> Child]
BY DEF TypeOK

LEMMA ChildFields ==
  ASSUME NEW e \in Child
  PROVE  /\ [e EXCEPT !.listens = FALSE] \in Child
         /\ \A x \in {"armed", "asking", "over"} : [e EXCEPT !.timer = x] \in Child
         /\ \A x \in {"dead", "loop", "leaving"} : [e EXCEPT !.asyncore = x] \in Child
         /\ [e EXCEPT !.main = "ended", !.asyncore = "dead"] \in Child
         /\ \A y \in BOOLEAN, x \in {"armed", "asking", "over"} :
              [e EXCEPT !.lazy = y, !.timer = x] \in Child
BY DEF Child

LEMMA PoolInit == Init => PoolInv
<1> SUFFICES ASSUME Init PROVE PoolInv
  OBVIOUS
<1>1. TypeOK
  BY GatewayPoolAssumption DEF Init, TypeOK, ServerState, Accepting, Child, NoChild
<1>2. MutexInv /\ LiveInv /\ ChosenInv /\ QueuedInv
  BY GatewayPoolAssumption
     DEF Init, MutexInv, LiveInv, ChosenInv, QueuedInv, Accepting, NoChild, Running
<1>3. QED
  BY <1>1, <1>2 DEF PoolInv
-----------------------------------------------------------------------------
(* Each step keeps the invariant.                                          *)

LEMMA TypeNext == PoolInv /\ [Next]_vars => TypeOK'
<1> SUFFICES ASSUME PoolInv, [Next]_vars PROVE TypeOK'
  OBVIOUS
<1> USE DEF PoolInv, TypeOK
<1>1. ASSUME NEW c \in Conns, Accept(c) PROVE TypeOK'
  <2>1. server' \in ServerState
    BY <1>1 DEF Accept, ServerState
  <2>2. conn' \in [Conns -> [st: {"new", "accepted", "queued", "alone", "paired", "closed"},
                             pid: Pids \cup {None}]]
    BY <1>1 DEF Accept
  <2>3. QED
    BY <1>1, <2>1, <2>2 DEF Accept
<1>2. CASE Lock
  BY <1>2 DEF Lock, ServerState
<1>3. ASSUME NEW i \in Pids, Ask(i) PROVE TypeOK'
  BY <1>3, NbConnType DEF Ask, ServerState
<1>4. ASSUME NEW i \in Pids, CreateProcess(i) PROVE TypeOK'
  <2>1. /\ child' \in [Pids -> Child] /\ ctrl' = [ctrl EXCEPT ![i] = "serving"]
        /\ held' \in [Pids -> SUBSET (Pids \cup {Father})]
    BY <1>4 DEF CreateProcess, Child, NewChild
  <2>2. server' \in ServerState
    BY <1>4 DEF CreateProcess, Best, ServerState
  <2>3. QED
    BY <1>4, <2>1, <2>2 DEF CreateProcess
<1>5. ASSUME NEW i \in Pids, UseLeastLoaded(i) PROVE TypeOK'
  BY <1>5 DEF UseLeastLoaded, Best, ServerState
<1>6. CASE SendSocket
  BY <1>6 DEF SendSocket, ServerState, Accepting
<1>7. ASSUME NEW i \in Pids, ReadStopPid(i) PROVE TypeOK'
  <2>1. child' = [child EXCEPT ![i] = [child[i] EXCEPT !.timer = "over"]]
    BY <1>7 DEF ReadStopPid
  <2>a. [child[i] EXCEPT !.timer = "over"] \in Child
    BY ChildFields
  <2>2. child' \in [Pids -> Child]
    BY <2>1, <2>a, ChildWith
  <2>3. QED
    BY <1>7, <2>2 DEF ReadStopPid
<1>8. ASSUME NEW i \in Pids, KillsItself(i) PROVE TypeOK'
  BY <1>8 DEF KillsItself, Dismiss
<1>9. ASSUME NEW i \in Pids, KilledItself(i) \/ CtrlEnds(i) PROVE TypeOK'
  BY <1>9 DEF KilledItself, CtrlEnds
<1>10. CASE OrderStop \/ StopJoins \/ StopEnds
  BY <1>10 DEF OrderStop, StopJoins, StopEnds
<1>11. CASE Shutdown
  BY <1>11 DEF Shutdown, ServerState
<1>12. ASSUME NEW i \in Pids, StopKills(i) PROVE TypeOK'
  BY <1>12 DEF StopKills, Dismiss
<1>13. ASSUME NEW i \in Pids, HangUp(i) \/ Clean(i) \/ Asyncore(i) PROVE TypeOK'
  <2>1. child[i] \in Child
    OBVIOUS
  <2>2. CASE HangUp(i)
    <3>1. child' = [child EXCEPT ![i] = [child[i] EXCEPT !.listens = FALSE]]
      BY <2>2 DEF HangUp
    <3>2. [child[i] EXCEPT !.listens = FALSE] \in Child
      BY <2>1, ChildFields
    <3>3. child' \in [Pids -> Child]
      BY <3>1, <3>2, ChildWith
    <3>4. QED
      BY <2>2, <3>3 DEF HangUp
  <2>3. CASE Clean(i)
    <3> DEFINE y == child[i].asyncore = "dead"
               x == IF y /\ child[i].lazy THEN "asking" ELSE child[i].timer
    <3>1. child' = [child EXCEPT ![i] = [child[i] EXCEPT !.lazy = y, !.timer = x]]
      BY <2>3 DEF Clean
    <3>2. y \in BOOLEAN /\ x \in {"armed", "asking", "over"}
      BY <2>3 DEF Clean
    <3> HIDE DEF x, y
    <3>3. [child[i] EXCEPT !.lazy = y, !.timer = x] \in Child
      BY <2>1, <3>2, ChildFields
    <3>4. child' \in [Pids -> Child]
      BY <3>1, <3>3, ChildWith
    <3>5. QED
      BY <2>3, <3>4 DEF Clean
  <2>4. CASE Asyncore(i)
    <3>1. PICK x \in {"leaving", "dead"} :
            child' = [child EXCEPT ![i] = [child[i] EXCEPT !.asyncore = x]]
      BY <2>4 DEF Asyncore, AsyncoreLeaves, AsyncoreDies
    <3>2. [child[i] EXCEPT !.asyncore = x] \in Child
      BY <2>1, ChildFields
    <3>3. child' \in [Pids -> Child]
      BY <3>1, <3>2, ChildWith
    <3>4. QED
      BY <2>4, <3>3 DEF Asyncore, AsyncoreLeaves, AsyncoreDies
  <2>5. QED
    BY <1>13, <2>2, <2>3, <2>4
<1>14. ASSUME NEW c \in Conns, Dispatch(c) PROVE TypeOK'
  <2>1. conn' \in [Conns -> [st: {"new", "accepted", "queued", "alone", "paired", "closed"},
                             pid: Pids \cup {None}]]
    BY <1>14 DEF Dispatch
  <2> DEFINE i == conn[c].pid
             x == IF child[i].asyncore = "dead" THEN "loop" ELSE child[i].asyncore
  <2>2. i \in Pids /\ child[i] \in Child /\ x \in {"dead", "loop", "leaving"}
    BY <1>14 DEF Dispatch, QueuedInv, Child
  <2>3. \/ child' = child
        \/ child' = [child EXCEPT ![i] = [child[i] EXCEPT !.asyncore = x]]
    BY <1>14, <2>2 DEF Dispatch
  <2> HIDE DEF x
  <2>4. child' \in [Pids -> Child]
    <3>1. [child[i] EXCEPT !.asyncore = x] \in Child
      BY <2>2, ChildFields
    <3>2. QED
      BY <2>2, <2>3, <3>1, ChildWith
  <2>5. QED
    BY <1>14, <2>1, <2>4 DEF Dispatch
<1>15. ASSUME NEW i \in Pids, ChildEnds(i) PROVE TypeOK'
  <2>0. child' = [child EXCEPT ![i] = [child[i] EXCEPT !.main = "ended", !.asyncore = "dead"]]
    BY <1>15 DEF ChildEnds
  <2>a. [child[i] EXCEPT !.main = "ended", !.asyncore = "dead"] \in Child
    BY ChildFields
  <2>1. child' \in [Pids -> Child] /\ held' \in [Pids -> SUBSET (Pids \cup {Father})]
    BY <1>15, <2>0, <2>a, ChildWith DEF ChildEnds
  <2>2. conn' \in [Conns -> [st: {"new", "accepted", "queued", "alone", "paired", "closed"},
                             pid: Pids \cup {None}]]
    BY <1>15 DEF ChildEnds
  <2>3. QED
    BY <1>15, <2>1, <2>2 DEF ChildEnds
<1>16. ASSUME NEW c \in Conns, Pair(c) \/ Close(c) PROVE TypeOK'
  BY <1>16 DEF Pair, Close, Serve
<1>17. CASE UNCHANGED vars
  BY <1>17 DEF vars
<1>18. QED
  BY <1>1, <1>2, <1>3, <1>4, <1>5, <1>6, <1>7, <1>8, <1>9, <1>10, <1>11, <1>12, <1>13,
     <1>14, <1>15, <1>16, <1>17 DEF Next, Handle, Control, StopRole, Process

LEMMA DispatchKeeps ==
  ASSUME PoolInv, NEW c \in Conns, Dispatch(c), NEW j \in Pids
  PROVE  child'[j].main = child[j].main /\ child'[j].listens = child[j].listens
<1>1. child \in [Pids -> Child] /\ conn[c].pid \in Pids
  BY DEF Dispatch, PoolInv, TypeOK, QueuedInv
<1>2. CASE child' = child
  BY <1>2
<1>3. CASE child' = [child EXCEPT ![conn[c].pid].asyncore = IF @ = "dead" THEN "loop" ELSE @]
  BY <1>1, <1>3 DEF Child
<1>4. QED
  BY <1>2, <1>3 DEF Dispatch

LEMMA TimersKeep ==
  ASSUME PoolInv, NEW i \in Pids, Asyncore(i) \/ Clean(i), NEW j \in Pids
  PROVE  child'[j].main = child[j].main /\ child'[j].listens = child[j].listens
<1>1. child \in [Pids -> Child]
  BY DEF PoolInv, TypeOK
<1>2. CASE Asyncore(i)
  <2>1. PICK x \in {"leaving", "dead"} :
          child' = [child EXCEPT ![i] = [child[i] EXCEPT !.asyncore = x]]
    BY <1>2 DEF Asyncore, AsyncoreLeaves, AsyncoreDies
  <2>2. QED
    BY <1>1, <2>1 DEF Child
<1>3. CASE Clean(i)
  BY <1>1, <1>3 DEF Clean, Child
<1>4. QED
  BY <1>2, <1>3

LEMMA MutexNext == PoolInv /\ [Next]_vars => MutexInv'
<1> SUFFICES ASSUME PoolInv, [Next]_vars PROVE MutexInv'
  OBVIOUS
<1> USE GatewayPoolAssumption DEF PoolInv, TypeOK, MutexInv, ServerState
<1>1. ASSUME NEW c \in Conns, Accept(c) \/ Dispatch(c) \/ Pair(c) \/ Close(c) PROVE MutexInv'
  <2>1. CASE Accept(c)
    BY <2>1 DEF Accept
  <2>2. CASE Dispatch(c) \/ Pair(c) \/ Close(c)
    BY <2>2 DEF Dispatch, Pair, Close, Serve
  <2>3. QED
    BY <1>1, <2>1, <2>2
<1>2. CASE Lock \/ SendSocket
  <2>1. CASE Lock
    BY <2>1 DEF Lock
  <2>2. CASE SendSocket
    BY <2>2 DEF SendSocket, Accepting
  <2>3. QED
    BY <1>2, <2>1, <2>2
<1>3. ASSUME NEW i \in Pids, Ask(i) \/ UseLeastLoaded(i) PROVE MutexInv'
  <2>1. CASE Ask(i)
    BY <2>1 DEF Ask
  <2>2. CASE UseLeastLoaded(i)
    BY <2>2 DEF UseLeastLoaded, NoneFits, Best
  <2>3. QED
    BY <1>3, <2>1, <2>2
<1>4. ASSUME NEW i \in Pids, CreateProcess(i) PROVE MutexInv'
  BY <1>4 DEF CreateProcess, NoneFits, Best
<1>5. ASSUME NEW i \in Pids, Control(i) PROVE MutexInv'
  <2>1. CASE ReadStopPid(i) \/ CtrlEnds(i)
    BY <2>1 DEF ReadStopPid, CtrlEnds
  <2>2. CASE KillsItself(i)
    BY <2>2 DEF KillsItself
  <2>3. CASE KilledItself(i)
    BY <2>3 DEF KilledItself
  <2>4. QED
    BY <1>5, <2>1, <2>2, <2>3 DEF Control
<1>6. CASE OrderStop \/ Shutdown \/ StopJoins \/ StopEnds
  <2>1. CASE OrderStop \/ StopEnds
    BY <2>1 DEF OrderStop, StopEnds
  <2>2. CASE Shutdown
    BY <2>2 DEF Shutdown
  <2>3. CASE StopJoins
    BY <2>3 DEF StopJoins
  <2>4. QED
    BY <1>6, <2>1, <2>2, <2>3
<1>7. ASSUME NEW i \in Pids, StopKills(i) PROVE MutexInv'
  BY <1>7 DEF StopKills
<1>8. ASSUME NEW i \in Pids, Process(i) \/ Asyncore(i) \/ Clean(i) PROVE MutexInv'
  BY <1>8 DEF Process, HangUp, ChildEnds, Asyncore, AsyncoreLeaves, AsyncoreDies, Clean
<1>9. CASE UNCHANGED vars
  BY <1>9 DEF vars
<1>10. QED
  BY <1>1, <1>2, <1>3, <1>4, <1>5, <1>6, <1>7, <1>8, <1>9 DEF Next, Handle, StopRole

LEMMA ChosenNext == PoolInv /\ [Next]_vars => ChosenInv'
<1> SUFFICES ASSUME PoolInv, [Next]_vars PROVE ChosenInv'
  OBVIOUS
<1> USE GatewayPoolAssumption DEF PoolInv, TypeOK, MutexInv, ChosenInv, ServerState
<1>1. ASSUME NEW c \in Conns, Accept(c) \/ Dispatch(c) \/ Pair(c) \/ Close(c) PROVE ChosenInv'
  BY <1>1 DEF Accept, Dispatch, Pair, Close, Serve
<1>2. CASE Lock \/ SendSocket
  <2>1. CASE Lock
    BY <2>1 DEF Lock
  <2>2. CASE SendSocket
    BY <2>2 DEF SendSocket, Accepting
  <2>3. QED
    BY <1>2, <2>1, <2>2
<1>3. ASSUME NEW i \in Pids, Ask(i) \/ UseLeastLoaded(i) PROVE ChosenInv'
  <2>1. CASE Ask(i)
    <3>1. i \in table /\ server.todo \subseteq table
      BY <2>1 DEF Ask
    <3>2. \/ server' = [server EXCEPT !.pc = "send", !.todo = {}, !.best = i]
          \/ server' = [server EXCEPT !.todo = @ \ {i}]
      BY <2>1 DEF Ask
    <3>3. QED
      BY <2>1, <3>1, <3>2 DEF Ask
  <2>2. CASE UseLeastLoaded(i)
    BY <2>2 DEF UseLeastLoaded, NoneFits, Best
  <2>3. QED
    BY <1>3, <2>1, <2>2
<1>4. ASSUME NEW i \in Pids, CreateProcess(i) PROVE ChosenInv'
  BY <1>4 DEF CreateProcess, NoneFits, Best
<1>5. ASSUME NEW i \in Pids, Control(i) PROVE ChosenInv'
  BY <1>5 DEF Control, ReadStopPid, KillsItself, KilledItself, CtrlEnds
<1>6. CASE OrderStop \/ Shutdown \/ StopJoins \/ StopEnds
  BY <1>6 DEF OrderStop, Shutdown, StopJoins, StopEnds
<1>7. ASSUME NEW i \in Pids, StopKills(i) PROVE ChosenInv'
  BY <1>7 DEF StopKills
<1>8. ASSUME NEW i \in Pids, Process(i) \/ Asyncore(i) \/ Clean(i) PROVE ChosenInv'
  BY <1>8 DEF Process, HangUp, ChildEnds, Asyncore, AsyncoreLeaves, AsyncoreDies, Clean
<1>9. CASE UNCHANGED vars
  BY <1>9 DEF vars
<1>10. QED
  BY <1>1, <1>2, <1>3, <1>4, <1>5, <1>6, <1>7, <1>8, <1>9 DEF Next, Handle, StopRole

LEMMA LiveNext == PoolInv /\ [Next]_vars => LiveInv'
<1> SUFFICES ASSUME PoolInv, [Next]_vars PROVE LiveInv'
  OBVIOUS
<1> USE GatewayPoolAssumption DEF PoolInv, TypeOK, Child, Running, LiveInv, Dying
<1>1. ASSUME NEW c \in Conns, Accept(c) \/ Dispatch(c) \/ Pair(c) \/ Close(c) PROVE LiveInv'
  <2>1. CASE Accept(c)
    BY <2>1 DEF Accept
  <2>2. CASE Dispatch(c)
    BY <2>2, DispatchKeeps DEF Dispatch
  <2>3. CASE Pair(c) \/ Close(c)
    BY <2>3 DEF Pair, Close, Serve
  <2>4. QED
    BY <1>1, <2>1, <2>2, <2>3
<1>2. CASE Lock \/ SendSocket
  BY <1>2 DEF Lock, SendSocket, MutexInv
<1>3. ASSUME NEW i \in Pids, Ask(i) \/ UseLeastLoaded(i) PROVE LiveInv'
  BY <1>3 DEF Ask, UseLeastLoaded
<1>4. ASSUME NEW i \in Pids, CreateProcess(i) PROVE LiveInv'
  BY <1>4 DEF CreateProcess, NewChild
<1>5. ASSUME NEW i \in Pids, ReadStopPid(i) \/ CtrlEnds(i) PROVE LiveInv'
  <2>1. CASE ReadStopPid(i)
    BY <2>1 DEF ReadStopPid
  <2>2. CASE CtrlEnds(i)
    BY <2>2 DEF CtrlEnds
  <2>3. QED
    BY <1>5, <2>1, <2>2
<1>6. ASSUME NEW i \in Pids, KillsItself(i) \/ KilledItself(i) PROVE LiveInv'
  BY <1>6 DEF KillsItself, KilledItself, Dismiss, Joined, MutexInv
<1>7. CASE OrderStop \/ Shutdown \/ StopJoins \/ StopEnds
  BY <1>7 DEF OrderStop, Shutdown, StopJoins, StopEnds, Joined, MutexInv
<1>8. ASSUME NEW i \in Pids, StopKills(i) PROVE LiveInv'
  BY <1>8 DEF StopKills, Dismiss, MutexInv
<1>9. ASSUME NEW i \in Pids, HangUp(i) \/ Asyncore(i) \/ Clean(i) PROVE LiveInv'
  <2>1. CASE HangUp(i)
    <3>1. i \notin table
      BY <2>1 DEF HangUp
    <3>2. QED
      BY <2>1, <3>1 DEF HangUp
  <2>2. CASE Asyncore(i) \/ Clean(i)
    <3>1. UNCHANGED <<table, mutex, stop, held>>
      BY <2>2 DEF Asyncore, AsyncoreLeaves, AsyncoreDies, Clean
    <3>2. QED
      BY <2>2, <3>1, TimersKeep
  <2>3. QED
    BY <1>9, <2>1, <2>2
<1>10. ASSUME NEW i \in Pids, ChildEnds(i) PROVE LiveInv'
  BY <1>10 DEF ChildEnds, LoopEnds
<1>11. CASE UNCHANGED vars
  BY <1>11 DEF vars
<1>12. QED
  BY <1>1, <1>2, <1>3, <1>4, <1>5, <1>6, <1>7, <1>8, <1>9, <1>10, <1>11
     DEF Next, Handle, StopRole, Control, Process

LEMMA QueuedNext == PoolInv /\ [Next]_vars => QueuedInv'
<1> SUFFICES ASSUME PoolInv, [Next]_vars PROVE QueuedInv'
  OBVIOUS
<1> USE GatewayPoolAssumption DEF PoolInv, TypeOK, Child, Running, QueuedInv
<1>1. ASSUME NEW c \in Conns, Accept(c) \/ Dispatch(c) \/ Pair(c) \/ Close(c) PROVE QueuedInv'
  <2>1. CASE Accept(c)
    BY <2>1 DEF Accept
  <2>2. CASE Dispatch(c)
    <3>1. PICK x \in {"alone", "closed"} : conn' = [conn EXCEPT ![c].st = x]
      BY <2>2 DEF Dispatch
    <3>2. \A d \in Conns : conn'[d].st = "queued" => d # c /\ conn'[d] = conn[d]
      BY <3>1
    <3>3. QED
      BY <2>2, <3>2, DispatchKeeps
  <2>3. CASE Pair(c) \/ Close(c)
    BY <2>3 DEF Pair, Close, Serve
  <2>4. QED
    BY <1>1, <2>1, <2>2, <2>3
<1>2. CASE SendSocket
  BY <1>2 DEF SendSocket, ChosenInv, LiveInv, ServerState
<1>3. ASSUME NEW i \in Pids, CreateProcess(i) PROVE QueuedInv'
  BY <1>3 DEF CreateProcess, NewChild
<1>4. CASE Lock \/ \E i \in Pids : Ask(i) \/ UseLeastLoaded(i)
  BY <1>4 DEF Lock, Ask, UseLeastLoaded
<1>5. ASSUME NEW i \in Pids, Control(i) PROVE QueuedInv'
  <2>1. CASE ReadStopPid(i)
    <3>1. conn' = conn /\ \A j \in Pids : child'[j].main = child[j].main
      BY <2>1 DEF ReadStopPid
    <3>2. QED
      BY <3>1
  <2>2. CASE KillsItself(i) \/ KilledItself(i) \/ CtrlEnds(i)
    BY <2>2 DEF KillsItself, KilledItself, CtrlEnds
  <2>3. QED
    BY <1>5, <2>1, <2>2 DEF Control
<1>6. CASE OrderStop \/ Shutdown \/ StopJoins \/ StopEnds
  BY <1>6 DEF OrderStop, Shutdown, StopJoins, StopEnds
<1>7. ASSUME NEW i \in Pids, StopKills(i) PROVE QueuedInv'
  BY <1>7 DEF StopKills
<1>8. ASSUME NEW i \in Pids, HangUp(i) \/ Asyncore(i) \/ Clean(i) PROVE QueuedInv'
  <2>1. conn' = conn
    BY <1>8 DEF HangUp, Asyncore, AsyncoreLeaves, AsyncoreDies, Clean
  <2>2. CASE HangUp(i)
    BY <2>1, <2>2 DEF HangUp
  <2>3. CASE Asyncore(i) \/ Clean(i)
    BY <2>1, <2>3, TimersKeep
  <2>4. QED
    BY <1>8, <2>2, <2>3
<1>9. ASSUME NEW i \in Pids, ChildEnds(i) PROVE QueuedInv'
  BY <1>9 DEF ChildEnds, LoopEnds, ConnsIn
<1>10. CASE UNCHANGED vars
  BY <1>10 DEF vars
<1>11. QED
  BY <1>1, <1>2, <1>3, <1>4, <1>5, <1>6, <1>7, <1>8, <1>9, <1>10
     DEF Next, Handle, StopRole, Process

LEMMA PoolNext == PoolInv /\ [Next]_vars => PoolInv'
BY TypeNext, MutexNext, ChosenNext, LiveNext, QueuedNext DEF PoolInv
-----------------------------------------------------------------------------
\* The pool's tables always hold what their readers expect: the types of
\* Role.py, TCPHandler.py and ConnectionPoolProcess.py.
THEOREM PoolTypes == Spec => []TypeOK
<1>1. PoolInv => TypeOK
  BY DEF PoolInv
<1>2. QED
  BY <1>1, PoolInit, PoolNext, PTL DEF Spec

\* handle never talks to a process that is gone: the exception would leave
\* kill_mutex held (TCPHandler.py).
THEOREM AskedSafe == Spec => []AskedAnswers
<1>1. PoolInv => AskedAnswers
  BY DEF PoolInv, LiveInv, ChosenInv, AskedAnswers, Talks
<1>2. QED
  BY <1>1, PoolInit, PoolNext, PTL DEF Spec

\* A process looks at every connection handed over to it before it ends, also
\* at one that comes while it is being killed (ConnectionPoolProcess.run).
THEOREM QueueSafe == Spec => []NoSocketForgotten
<1>1. PoolInv => NoSocketForgotten
  BY DEF PoolInv, QueuedInv, NoSocketForgotten
<1>2. QED
  BY <1>1, PoolInit, PoolNext, PTL DEF Spec
-----------------------------------------------------------------------------
(* The limit, which counts the processes of the table and those that the   *)
(* holder of the mutex is waiting for.                                     *)

All == table \cup {i \in Pids : Running(i)}
BoundInv == Cardinality(All) <= MaxProcess

LEMMA BoundInit == Init => BoundInv
<1> SUFFICES ASSUME Init PROVE BoundInv
  OBVIOUS
<1>1. All = {}
  BY DEF Init, All, Running, NoChild
<1>2. QED
  BY <1>1, FS_EmptySet, GatewayPoolAssumption DEF BoundInv

LEMMA Shrinks ==
  ASSUME PoolInv, BoundInv, All' \subseteq All
  PROVE  BoundInv'
<1>1. IsFiniteSet(All)
  BY GatewayPoolAssumption, FS_Subset DEF PoolInv, TypeOK, All
<1>2. /\ Cardinality(All') <= Cardinality(All)
      /\ Cardinality(All) \in Nat /\ Cardinality(All') \in Nat
  BY <1>1, FS_Subset, FS_CardinalityType
<1>3. QED
  BY <1>2, GatewayPoolAssumption DEF BoundInv

LEMMA BoundNext == PoolInv /\ BoundInv /\ [Next]_vars => BoundInv'
<1> SUFFICES ASSUME PoolInv, BoundInv, [Next]_vars PROVE BoundInv'
  OBVIOUS
<1>1. ASSUME NEW i \in Pids, CreateProcess(i) PROVE BoundInv'
  <2>1. All = table
    BY <1>1, GatewayPoolAssumption
       DEF PoolInv, TypeOK, MutexInv, LiveInv, Dying, CreateProcess, NoneFits, All
  <2>2. All' = table \cup {i}
    BY <1>1, <2>1 DEF CreateProcess, NewChild, PoolInv, TypeOK, Child, All, Running
  <2>3. IsFiniteSet(table)
    BY GatewayPoolAssumption, FS_Subset DEF PoolInv, TypeOK
  <2>4. /\ Cardinality(table) \in Nat
        /\ \/ Cardinality(table \cup {i}) = Cardinality(table)
           \/ Cardinality(table \cup {i}) = Cardinality(table) + 1
    <3>1. Cardinality(table) \in Nat
      BY <2>3, FS_CardinalityType
    <3>2. Cardinality(table \cup {i}) = IF i \in table THEN Cardinality(table)
                                       ELSE Cardinality(table) + 1
      BY <2>3, FS_AddElement
    <3>3. QED
      BY <3>1, <3>2
  <2>5. Cardinality(table) < MaxProcess
    BY <1>1 DEF CreateProcess
  <2>6. QED
    BY <2>2, <2>4, <2>5, GatewayPoolAssumption DEF BoundInv
<1>2. CASE UNCHANGED <<table, child>>
  <2>1. All' = All
    BY <1>2 DEF All, Running
  <2>2. QED
    BY <2>1, Shrinks
<1>3. ASSUME NEW i \in Pids, KillsItself(i) \/ StopKills(i) PROVE BoundInv'
  <2>1. All' \subseteq All
    BY <1>3 DEF KillsItself, StopKills, Dismiss, All, Running
  <2>2. QED
    BY <2>1, Shrinks
<1>4. ASSUME NEW i \in Pids,
             ReadStopPid(i) \/ HangUp(i) \/ ChildEnds(i) \/ Asyncore(i) \/ Clean(i)
      PROVE  BoundInv'
  <2>1. table' = table /\ \A j \in Pids : Running(j)' => Running(j)
    BY <1>4 DEF ReadStopPid, HangUp, ChildEnds, Asyncore, AsyncoreLeaves, AsyncoreDies, Clean,
                PoolInv, TypeOK, Child, Running
  <2>2. QED
    BY <2>1, Shrinks DEF All
<1>5. ASSUME NEW c \in Conns, Dispatch(c) PROVE BoundInv'
  <2>1. \A j \in Pids : Running(j)' => Running(j)
    BY <1>5, DispatchKeeps DEF Running
  <2>2. QED
    BY <1>5, <2>1, Shrinks DEF All, Dispatch
<1>6. QED
  <2>1. \/ UNCHANGED <<table, child>>
        \/ \E i \in Pids : CreateProcess(i)
        \/ \E i \in Pids : KillsItself(i) \/ StopKills(i)
        \/ \E i \in Pids : ReadStopPid(i) \/ HangUp(i) \/ ChildEnds(i) \/ Asyncore(i) \/ Clean(i)
        \/ \E c \in Conns : Dispatch(c)
    BY DEF Next, vars, Accept, Pair, Close, Serve, Handle, Lock, SendSocket, Ask, UseLeastLoaded,
           OrderStop, StopRole, Shutdown, StopJoins, StopEnds, Control, KilledItself, CtrlEnds, Process
  <2>2. QED
    BY <1>1, <1>2, <1>3, <1>4, <1>5, <2>1

\* kill_process holds kill_mutex until it has joined the process, so that a new
\* one is only created when the old one is gone: the limit max_process holds.
THEOREM LimitHolds == Spec => []RunningBound
<1>1. PoolInv /\ BoundInv => RunningBound
  <2> SUFFICES ASSUME PoolInv, BoundInv PROVE RunningBound
    OBVIOUS
  <2>1. IsFiniteSet(All) /\ {i \in Pids : Running(i)} \subseteq All
    BY GatewayPoolAssumption, FS_Subset DEF PoolInv, TypeOK, All
  <2>2. /\ Cardinality({i \in Pids : Running(i)}) <= Cardinality(All)
        /\ Cardinality(All) \in Nat /\ Cardinality({i \in Pids : Running(i)}) \in Nat
    BY <2>1, FS_Subset, FS_CardinalityType
  <2>3. QED
    BY <2>2, GatewayPoolAssumption DEF BoundInv, RunningBound
<1>2. QED
  BY <1>1, PoolInit, PoolNext, BoundInit, BoundNext, PTL DEF Spec
=============================================================================
