---------------------- MODULE SesmanChain_proofs ----------------------
(***************************************************************************)
(* The chain of sessions under its lock, as long as nobody freed it under  *)
(* the feet of a thread at work: the inductive invariant of Sesman, and    *)
(* the theorems.                                                           *)
(***************************************************************************)
EXTENDS Sesman_proofs, FiniteSetTheorems

LockInv == intact => OneThreadInChain /\ (MainInside \/ OthersInside => lock)

ChainInv ==
  intact => /\ chain = Linked
            /\ MonitInside => chain = monit.todo \cup monit.kept /\ monit.todo \cap monit.kept = {}

CountInv ==
  intact =>
    /\ count = Cardinality(chain) + (IF monit.pc = "count" THEN 1 ELSE 0)
                                  - (IF main.pc = "count" THEN 1 ELSE 0)
    /\ main.pc = "count" => main.cnt = count
    /\ monit.pc = "count" => monit.cnt = count
    /\ Starting => Cardinality(chain) < MaxSessions
    /\ Cardinality(chain) <= MaxSessions
    /\ \A w \in Workers : worker[w].pc = "copying" => worker[w].cnt = Cardinality(chain)

DisplayInv ==
  intact => /\ Starting => \A j \in chain : item[j].disp # item[main.i].disp
            /\ \A i, j \in chain : item[i].disp = item[j].disp => i = j

\* session_creation_lock, held from the lookup to the answer, by version 0 only.
Held == {"auth", "find", "found", "update", "updating", "testing", "reviving", "start", "wait"}
CreationInv ==
  /\ \A c \in Clients : client[c].pc \in {"pick", "picking"} => ~V0(c)
  /\ \A c \in Clients : V0(c) /\ client[c].pc \in Held => creation
  /\ \A c, e \in Clients : V0(c) /\ V0(e) /\ client[c].pc \in Held /\ client[e].pc \in Held
                           => c = e
UserInv ==
  intact =>
    /\ \A c \in Clients : OnlyV0(client[c].user) =>
         /\ client[c].pc = "start" => SessionsOf(client[c].user) = {}
         /\ client[c].pc = "wait" /\ sync.sem = 0 /\ main.pc \notin {"count", "ended"}
              => SessionsOf(client[c].user) = {}
    /\ \A i, j \in chain : item[i].user = item[j].user /\ OnlyV0(item[i].user) => i = j

\* Who is about to write another status has seen that the session is not ordered to
\* be destroyed, and nobody can have given the order since.
FinalInv ==
  intact =>
    /\ \A c \in Clients : client[c].pc = "reviving" => item[client[c].i].status # "destroy"
    /\ \A w \in Workers : worker[w].pc = "writing" => item[worker[w].i].status # "destroy"

IInv == /\ TypeOK /\ RefsInv /\ SyncInv /\ NewInv /\ OwnInv /\ SocketInv /\ LockInv
        /\ ChainInv /\ CountInv /\ DisplayInv /\ CreationInv /\ UserInv /\ FinalInv
-----------------------------------------------------------------------------
\* As long as the chain lock was not broken, who is inside holds it alone.
LEMMA LockNext == TypeOK /\ RefsInv /\ LockInv /\ [Next]_vars => LockInv'
<1> SUFFICES ASSUME TypeOK, RefsInv, LockInv, [Next]_vars PROVE LockInv'
  OBVIOUS
<1>1. ASSUME NEW c \in Clients, NEW u \in Users, NEW v \in Versions, Accept(c, u, v)
      PROVE  LockInv'
  <2>1. /\ main.pc = "loop" /\ client[c].pc = "out"
        /\ MainIs("hand", c, main.i, main.cnt)
        /\ ClientIs(c, "out", u, v, client[c].sck, client[c].disp)
        /\ UNCHANGED <<lock, intact, worker, monit>>
    BY <1>1, AcceptPost DEF RefsInv
  <2>2. QED
    BY <2>1
    DEF ClientIs, MainIs, LockInv, OneThreadInChain, MainInside, OthersInside,
       MonitInside, ClientInside, WorkerInside
<1>2. ASSUME HandOver PROVE LockInv'
  <2>1. /\ main.pc = "hand" /\ main.conn \in Clients /\ socket.free
        /\ MainIs("loop", None, main.i, main.cnt)
        /\ \/ Moves(main.conn, "born", client[main.conn].disp)
           \/ Moves(main.conn, "stranded", client[main.conn].disp)
        /\ UNCHANGED <<lock, intact, worker, monit>>
    BY <1>2, HandOverPost DEF RefsInv
  <2>2. QED
    BY <2>1
    DEF Moves, MainIs, ClientIs, LockInv, OneThreadInChain, MainInside, OthersInside,
       MonitInside, ClientInside, WorkerInside
<1>3. ASSUME SyncEvent PROVE LockInv'
  <2>1. /\ main.pc = "loop" /\ sync.event
        /\ MainIs("sync", main.conn, main.i, main.cnt)
        /\ UNCHANGED <<lock, intact, client, worker, monit>>
    BY <1>3, SyncEventPost DEF RefsInv
  <2>2. QED
    BY <2>1
    DEF MainIs, LockInv, OneThreadInChain, MainInside, OthersInside, MonitInside,
       ClientInside, WorkerInside
<1>4. ASSUME SyncLock PROVE LockInv'
  <2>1. /\ main.pc = "sync" /\ ~lock
        /\ MainIs("check", main.conn, main.i, main.cnt)
        /\ lock' = TRUE
        /\ UNCHANGED <<intact, client, worker, monit>>
    BY <1>4, SyncLockPost DEF RefsInv
  <2>2. QED
    BY <2>1
    DEF MainIs, LockInv, OneThreadInChain, MainInside, OthersInside, MonitInside,
       ClientInside, WorkerInside
<1>5. ASSUME StartRefused PROVE LockInv'
  <2>1. /\ main.pc = "check"
        /\ MainIs("refused", main.conn, main.i, main.cnt)
        /\ UNCHANGED <<lock, intact, client, worker, monit>>
    BY <1>5, StartRefusedPost DEF RefsInv
  <2>2. QED
    BY <2>1
    DEF MainIs, LockInv, OneThreadInChain, MainInside, OthersInside, MonitInside,
       ClientInside, WorkerInside
<1>6. ASSUME NEW i \in Items, NEW d \in Displays, ChooseDisplay(i, d) PROVE LockInv'
  <2>1. /\ main.pc = "check" /\ ~Full
        /\ MainIs("prepare", main.conn, i, main.cnt)
        /\ item[i].st = "unused" /\ Usable(d)
        /\ lock' = FALSE
        /\ UNCHANGED <<intact, client, worker, monit>>
    BY <1>6, ChooseDisplayPost DEF RefsInv
  <2>2. QED
    BY <2>1
    DEF MainIs, LockInv, OneThreadInChain, MainInside, OthersInside, MonitInside,
       ClientInside, WorkerInside
<1>7. ASSUME NEW r \in {0, 1} \cup Displays, StartFails(r) PROVE LockInv'
  <2>1. /\ main.pc = "prepare"
        /\ MainIs("ended", main.conn, main.i, main.cnt)
        /\ r \in {0, 1, item[main.i].disp}
        /\ UNCHANGED <<lock, intact, client, worker, monit>>
    BY <1>7, StartFailsPost DEF RefsInv
  <2>2. QED
    BY <2>1
    DEF MainIs, LockInv, OneThreadInChain, MainInside, OthersInside, MonitInside,
       ClientInside, WorkerInside
<1>8. ASSUME Fork PROVE LockInv'
  <2>1. /\ main.pc = "prepare"
        /\ MainIs("waitx", main.conn, main.i, main.cnt)
        /\ UNCHANGED <<lock, intact, client, worker, monit>>
    BY <1>8, ForkPost DEF RefsInv
  <2>2. QED
    BY <2>1
    DEF MainIs, LockInv, OneThreadInChain, MainInside, OthersInside, MonitInside,
       ClientInside, WorkerInside
<1>9. ASSUME XTimeout PROVE LockInv'
  <2>1. /\ main.pc = "waitx"
        /\ MainIs("ended", main.conn, main.i, main.cnt)
        /\ UNCHANGED <<lock, intact, client, worker, monit>>
    BY <1>9, XTimeoutPost DEF RefsInv
  <2>2. QED
    BY <2>1
    DEF MainIs, LockInv, OneThreadInChain, MainInside, OthersInside, MonitInside,
       ClientInside, WorkerInside
<1>10. ASSUME XAnswers PROVE LockInv'
  <2>1. /\ main.pc = "waitx"
        /\ MainIs("relock", main.conn, main.i, main.cnt)
        /\ UNCHANGED <<lock, intact, client, worker, monit>>
    BY <1>10, XAnswersPost DEF RefsInv
  <2>2. QED
    BY <2>1
    DEF MainIs, LockInv, OneThreadInChain, MainInside, OthersInside, MonitInside,
       ClientInside, WorkerInside
<1>11. ASSUME Relock PROVE LockInv'
  <2>1. /\ main.pc = "relock" /\ ~lock
        /\ MainIs("link", main.conn, main.i, main.cnt)
        /\ lock' = TRUE
        /\ UNCHANGED <<intact, client, worker, monit>>
    BY <1>11, RelockPost DEF RefsInv
  <2>2. QED
    BY <2>1
    DEF MainIs, LockInv, OneThreadInChain, MainInside, OthersInside, MonitInside,
       ClientInside, WorkerInside
<1>12. ASSUME LinkItem PROVE LockInv'
  <2>1. /\ main.pc = "link" /\ main.i \in Items
        /\ MainIs("count", main.conn, main.i, count)
        /\ UNCHANGED <<lock, intact, client, worker, monit>>
    BY <1>12, LinkItemPost DEF RefsInv
  <2>2. QED
    BY <2>1
    DEF MainIs, LockInv, OneThreadInChain, MainInside, OthersInside, MonitInside,
       ClientInside, WorkerInside
<1>13. ASSUME CountItem PROVE LockInv'
  <2>1. /\ main.pc = "count"
        /\ MainIs("ended", main.conn, main.i, 0)
        /\ lock' = FALSE
        /\ UNCHANGED <<intact, client, worker, monit>>
    BY <1>13, CountItemPost DEF RefsInv
  <2>2. QED
    BY <2>1
    DEF MainIs, LockInv, OneThreadInChain, MainInside, OthersInside, MonitInside,
       ClientInside, WorkerInside
<1>14. ASSUME SyncDone PROVE LockInv'
  <2>1. /\ main.pc \in {"refused", "ended"}
        /\ MainIs("loop", main.conn, None, main.cnt)
        /\ lock' = FALSE
        /\ intact' = (intact /\ ~OthersInside)
        /\ UNCHANGED <<client, worker, monit>>
    BY <1>14, SyncDonePost DEF RefsInv
  <2>2. QED
    BY <2>1
    DEF MainIs, LockInv, OneThreadInChain, MainInside, OthersInside, MonitInside,
       ClientInside, WorkerInside
<1>15. ASSUME NEW c \in Clients, CopySocket(c) PROVE LockInv'
  <2>1. /\ client[c].pc = "born"
        /\ ClientIs(c, IF V0(c) THEN "creation" ELSE "auth", client[c].user,
                    client[c].version, socket.sck, client[c].disp)
        /\ UNCHANGED <<lock, intact, main, worker, monit>>
    BY <1>15, CopySocketPost DEF RefsInv
  <2>2. QED
    BY <2>1
    DEF ClientIs, LockInv, OneThreadInChain, MainInside, OthersInside, MonitInside,
       ClientInside, WorkerInside
<1>16. ASSUME NEW c \in Clients, CreationLock(c) PROVE LockInv'
  <2>1. /\ client[c].pc = "creation" /\ ~creation
        /\ Moves(c, "auth", client[c].disp)
        /\ UNCHANGED <<lock, intact, main, worker, monit>>
    BY <1>16, CreationLockPost DEF RefsInv
  <2>2. QED
    BY <2>1
    DEF Moves, ClientIs, LockInv, OneThreadInChain, MainInside, OthersInside,
       MonitInside, ClientInside, WorkerInside
<1>17. ASSUME NEW c \in Clients, Authenticate(c) PROVE LockInv'
  <2>1. /\ client[c].pc = "auth"
        /\ \/ Moves(c, "find", client[c].disp) /\ creation' = creation
           \/ Moves(c, "denied", 0) /\ Unlocks(c)
        /\ UNCHANGED <<lock, intact, main, worker, monit>>
    BY <1>17, AuthenticatePost DEF RefsInv
  <2>2. QED
    BY <2>1
    DEF Moves, Unlocks, ClientIs, LockInv, OneThreadInChain, MainInside,
       OthersInside, MonitInside, ClientInside, WorkerInside
<1>18. ASSUME NEW c \in Clients, ChainLock(c) PROVE LockInv'
  <2>1. /\ ~lock
        /\ lock' = TRUE
        /\ \/ client[c].pc = "find" /\ Moves(c, "found", client[c].disp)
           \/ client[c].pc = "update" /\ Moves(c, "updating", client[c].disp)
           \/ client[c].pc = "pick" /\ Moves(c, "picking", client[c].disp)
        /\ UNCHANGED <<intact, main, worker, monit>>
    BY <1>18, ChainLockPost DEF RefsInv
  <2>2. QED
    BY <2>1
    DEF Moves, ClientIs, LockInv, OneThreadInChain, MainInside, OthersInside,
       MonitInside, ClientInside, WorkerInside
<1>19. ASSUME NEW c \in Clients, FindV0(c) PROVE LockInv'
  <2>1. /\ client[c].pc = "found" /\ V0(c)
        /\ lock' = FALSE
        /\ \/ Moves(c, "denied", 0) /\ Unlocks(c)
           \/ \E i \in SessionsOf(client[c].user) :
                Moves(c, "update", item[i].disp) /\ creation' = creation
           \/ /\ SessionsOf(client[c].user) = {} /\ creation' = creation
              /\ Moves(c, "start", client[c].disp)
        /\ UNCHANGED <<intact, main, worker, monit>>
    BY <1>19, FindV0Post DEF RefsInv
  <2>2. QED
    BY <2>1
    DEF Moves, Unlocks, ClientIs, LockInv, OneThreadInChain, MainInside,
       OthersInside, MonitInside, ClientInside, WorkerInside
<1>19a. ASSUME NEW c \in Clients, Research(c) PROVE LockInv'
  <2>1. /\ client[c].pc = "updating"
        /\ \/ Moves(c, "testing", client[c].disp) /\ lock' = lock
           \/ Moves(c, "allowed", client[c].disp) /\ lock' = FALSE
        /\ UNCHANGED <<intact, main, worker, monit>>
    BY <1>19a, ResearchPost DEF RefsInv
  <2>2. QED
    BY <2>1
    DEF Moves, Unlocks, ClientIs, LockInv, OneThreadInChain, MainInside,
       OthersInside, MonitInside, ClientInside, WorkerInside
<1>19b. ASSUME NEW c \in Clients, TestFinal(c) PROVE LockInv'
  <2>1. /\ client[c].pc = "testing"
        /\ \/ Moves(c, "reviving", client[c].disp) /\ lock' = lock
           \/ Moves(c, "allowed", client[c].disp) /\ lock' = FALSE
        /\ UNCHANGED <<intact, main, worker, monit>>
    BY <1>19b, TestFinalPost DEF RefsInv
  <2>2. QED
    BY <2>1
    DEF Moves, Unlocks, ClientIs, LockInv, OneThreadInChain, MainInside,
       OthersInside, MonitInside, ClientInside, WorkerInside
<1>20. ASSUME NEW c \in Clients, Reactivate(c) PROVE LockInv'
  <2>1. /\ client[c].pc = "reviving"
        /\ lock' = FALSE
        /\ Moves(c, "allowed", client[c].disp) /\ Unlocks(c)
        /\ UNCHANGED <<intact, main, worker, monit>>
    BY <1>20, ReactivatePost DEF RefsInv
  <2>2. QED
    BY <2>1
    DEF Moves, Unlocks, ClientIs, LockInv, OneThreadInChain, MainInside,
       OthersInside, MonitInside, ClientInside, WorkerInside
<1>21. ASSUME NEW c \in Clients, FindV1(c) PROVE LockInv'
  <2>1. /\ client[c].pc = "found" /\ ~V0(c)
        /\ lock' = FALSE
        /\ \/ Moves(c, "start", client[c].disp) \/ Moves(c, "denied", client[c].disp)
           \/ Moves(c, "pick", client[c].disp)
        /\ UNCHANGED <<intact, main, worker, monit>>
    BY <1>21, FindV1Post DEF RefsInv
  <2>2. QED
    BY <2>1
    DEF Moves, ClientIs, LockInv, OneThreadInChain, MainInside, OthersInside,
       MonitInside, ClientInside, WorkerInside
<1>22. ASSUME NEW c \in Clients, PickV1(c) PROVE LockInv'
  <2>1. /\ client[c].pc = "picking"
        /\ lock' = FALSE
        /\ Moves(c, "allowed", item[client[c].i].disp) \/ Moves(c, "denied", 0)
        /\ UNCHANGED <<intact, main, worker, monit>>
    BY <1>22, PickV1Post DEF RefsInv
  <2>2. QED
    BY <2>1
    DEF Moves, ClientIs, LockInv, OneThreadInChain, MainInside, OthersInside,
       MonitInside, ClientInside, WorkerInside
<1>23. ASSUME NEW c \in Clients, StartSession(c) PROVE LockInv'
  <2>1. /\ client[c].pc = "start" /\ ~sync.held
        /\ Moves(c, "wait", client[c].disp)
        /\ UNCHANGED <<lock, intact, main, worker, monit>>
    BY <1>23, StartSessionPost DEF RefsInv
  <2>2. QED
    BY <2>1
    DEF Moves, ClientIs, LockInv, OneThreadInChain, MainInside, OthersInside,
       MonitInside, ClientInside, WorkerInside
<1>24. ASSUME NEW c \in Clients, GetResult(c) PROVE LockInv'
  <2>1. /\ client[c].pc = "wait" /\ sync.sem > 0
        /\ Moves(c, "denied", 0) \/ Moves(c, "allowed", sync.result)
        /\ UNCHANGED <<lock, intact, main, worker, monit>>
    BY <1>24, GetResultPost DEF RefsInv
  <2>2. QED
    BY <2>1
    DEF Moves, ClientIs, LockInv, OneThreadInChain, MainInside, OthersInside,
       MonitInside, ClientInside, WorkerInside
<1>25. ASSUME NEW w \in Workers, NEW act \in Orders, NEW u \in Users, Request(w, act, u)
       PROVE  LockInv'
  <2>1. /\ worker[w].pc = "idle"
        /\ ~lock
        /\ lock' = TRUE
        /\ WorkerIs(w, "finding", None)
        /\ UNCHANGED <<intact, main, client, monit>>
    BY <1>25, RequestPost DEF RefsInv
  <2>2. QED
    BY <2>1
    DEF WorkerIs, LockInv, OneThreadInChain, MainInside, OthersInside, MonitInside,
       ClientInside, WorkerInside
<1>26. ASSUME NEW w \in Workers, FindSession(w) PROVE LockInv'
  <2>1. /\ worker[w].pc = "finding"
        /\ \/ \E i \in chain, p \in {"destroying", "testing"} : WorkerIs(w, p, i) /\ lock' = lock
           \/ WorkerIs(w, "idle", None) /\ lock' = FALSE
        /\ UNCHANGED <<intact, main, client, monit>>
    BY <1>26, FindSessionPost DEF RefsInv
  <2>2. QED
    BY <2>1
    DEF WorkerIs, LockInv, OneThreadInChain, MainInside, OthersInside, MonitInside,
       ClientInside, WorkerInside
<1>27. ASSUME NEW w \in Workers, DestroySession(w) PROVE LockInv'
  <2>1. /\ worker[w].pc = "destroying"
        /\ WorkerIs(w, "testing", worker[w].i)
        /\ UNCHANGED <<lock, intact, main, client, monit>>
    BY <1>27, DestroySessionPost DEF RefsInv
  <2>2. QED
    BY <2>1
    DEF WorkerIs, LockInv, OneThreadInChain, MainInside, OthersInside, MonitInside,
       ClientInside, WorkerInside
<1>27a. ASSUME NEW w \in Workers, TestStatus(w) PROVE LockInv'
  <2>1. /\ worker[w].pc = "testing"
        /\ \/ WorkerIs(w, "writing", worker[w].i) /\ lock' = lock
           \/ WorkerIs(w, "idle", None) /\ lock' = FALSE
        /\ UNCHANGED <<intact, main, client, monit>>
    BY <1>27a, TestStatusPost DEF RefsInv
  <2>2. QED
    BY <2>1
    DEF WorkerIs, LockInv, OneThreadInChain, MainInside, OthersInside, MonitInside,
       ClientInside, WorkerInside
<1>28. ASSUME NEW w \in Workers, WriteStatus(w) PROVE LockInv'
  <2>1. /\ worker[w].pc = "writing"
        /\ worker[w].i \in Items
        /\ lock' = FALSE
        /\ WorkerIs(w, "idle", None)
        /\ UNCHANGED <<intact, main, client, monit>>
    BY <1>28, WriteStatusPost DEF RefsInv
  <2>2. QED
    BY <2>1
    DEF WorkerIs, LockInv, OneThreadInChain, MainInside, OthersInside, MonitInside,
       ClientInside, WorkerInside
<1>29. ASSUME NEW w \in Workers, ListAllocates(w) PROVE LockInv'
  <2>1. /\ worker[w].pc = "finding"
        /\ WorkerIs(w, "copying", worker[w].i)
        /\ worker'[w].cnt = count
        /\ UNCHANGED <<lock, intact, main, client, monit>>
    BY <1>29, ListAllocatesPost DEF RefsInv
  <2>2. QED
    BY <2>1
    DEF WorkerIs, LockInv, OneThreadInChain, MainInside, OthersInside, MonitInside,
       ClientInside, WorkerInside
<1>30. ASSUME NEW w \in Workers, ListCopies(w) PROVE LockInv'
  <2>1. /\ worker[w].pc = "copying"
        /\ lock' = FALSE
        /\ WorkerIs(w, "idle", None)
        /\ UNCHANGED <<intact, main, client, monit>>
    BY <1>30, ListCopiesPost DEF RefsInv
  <2>2. QED
    BY <2>1
    DEF WorkerIs, LockInv, OneThreadInChain, MainInside, OthersInside, MonitInside,
       ClientInside, WorkerInside
<1>31. ASSUME MonitLock PROVE LockInv'
  <2>1. /\ monit.pc = "sleep" /\ ~lock
        /\ MonitIs("look", chain, {}, monit.tmp, monit.cnt)
        /\ lock' = TRUE
        /\ UNCHANGED <<intact, main, client, worker>>
    BY <1>31, MonitLockPost DEF RefsInv
  <2>2. QED
    BY <2>1
    DEF MonitIs, LockInv, OneThreadInChain, MainInside, OthersInside, MonitInside,
       ClientInside, WorkerInside
<1>32. ASSUME NEW i \in Items, Inspect(i) PROVE LockInv'
  <2>1. /\ monit.pc = "look" /\ i \in monit.todo
        /\ \/ MonitIs("destroy", monit.todo, monit.kept, i, monit.cnt)
           \/ MonitIs("look", monit.todo \ {i}, monit.kept \cup {i}, monit.tmp, monit.cnt)
        /\ UNCHANGED <<lock, intact, main, client, worker>>
    BY <1>32, InspectPost DEF RefsInv
  <2>2. QED
    BY <2>1
    DEF MonitIs, LockInv, OneThreadInChain, MainInside, OthersInside, MonitInside,
       ClientInside, WorkerInside
<1>33. ASSUME FreeItem PROVE LockInv'
  <2>1. /\ monit.pc = "destroy" /\ monit.tmp \in monit.todo /\ monit.tmp \in Items
        /\ MonitIs("count", monit.todo \ {monit.tmp}, monit.kept, None, count)
        /\ UNCHANGED <<lock, intact, main, client, worker>>
    BY <1>33, FreeItemPost DEF RefsInv
  <2>2. QED
    BY <2>1
    DEF MonitIs, LockInv, OneThreadInChain, MainInside, OthersInside, MonitInside,
       ClientInside, WorkerInside
<1>34. ASSUME UncountItem PROVE LockInv'
  <2>1. /\ monit.pc = "count"
        /\ MonitIs("look", monit.todo, monit.kept, monit.tmp, 0)
        /\ UNCHANGED <<lock, intact, main, client, worker>>
    BY <1>34, UncountItemPost DEF RefsInv
  <2>2. QED
    BY <2>1
    DEF MonitIs, LockInv, OneThreadInChain, MainInside, OthersInside, MonitInside,
       ClientInside, WorkerInside
<1>35. ASSUME MonitUnlock PROVE LockInv'
  <2>1. /\ monit.pc = "look" /\ monit.todo = {}
        /\ \/ MonitIs("sleep", monit.todo, {}, monit.tmp, monit.cnt)
           \/ MonitIs("kill", monit.todo, {}, monit.tmp, monit.cnt)
        /\ lock' = FALSE
        /\ UNCHANGED <<intact, main, client, worker>>
    BY <1>35, MonitUnlockPost DEF RefsInv
  <2>2. QED
    BY <2>1
    DEF MonitIs, LockInv, OneThreadInChain, MainInside, OthersInside, MonitInside,
       ClientInside, WorkerInside
<1>36. ASSUME KillAll PROVE LockInv'
  <2>1. /\ monit.pc = "kill"
        /\ MonitIs("done", monit.todo, monit.kept, monit.tmp, monit.cnt)
        /\ UNCHANGED <<lock, intact, main, client, worker>>
    BY <1>36, KillAllPost DEF RefsInv
  <2>2. QED
    BY <2>1
    DEF MonitIs, LockInv, OneThreadInChain, MainInside, OthersInside, MonitInside,
       ClientInside, WorkerInside
<1>37. CASE UNCHANGED <<lock, intact, main, client, worker, monit>>
  BY <1>37
  DEF LockInv, OneThreadInChain, MainInside, OthersInside, MonitInside, ClientInside,
     WorkerInside
<1>38. QED
  BY <1>1, <1>2, <1>3, <1>4, <1>5, <1>6, <1>7, <1>8, <1>9, <1>10, <1>11, <1>12, <1>13,
     <1>14, <1>15, <1>16, <1>17, <1>18, <1>19, <1>19a, <1>19b, <1>20, <1>21, <1>22,
     <1>23, <1>24, <1>25, <1>26, <1>27, <1>27a, <1>28, <1>29, <1>30, <1>31, <1>32,
     <1>33, <1>34, <1>35, <1>36, <1>37
  DEF Next, MainRuns, ClientRuns, WorkerRuns, MonitRuns, vars, chainVars, otherThreads,
     Shutdown, Exit, XChanges
-----------------------------------------------------------------------------
\* As long as the chain lock was not broken, the chain is the set of the linked
\* items, and monit_thread knows all of them.
LEMMA ChainNext ==
  TypeOK /\ RefsInv /\ NewInv /\ LockInv /\ ChainInv /\ [Next]_vars => ChainInv'
<1> SUFFICES ASSUME TypeOK, RefsInv, NewInv, LockInv, ChainInv, [Next]_vars PROVE ChainInv'
  OBVIOUS
<1>1. ASSUME NEW i \in Items, NEW d \in Displays, ChooseDisplay(i, d) PROVE ChainInv'
  <2>1. /\ main.pc = "check" /\ ~Full
        /\ item[i].st = "unused" /\ Usable(d)
        /\ ItemIs(i, "new", sync.user, d)
        /\ UNCHANGED <<chain, intact, monit>>
    BY <1>1, ChooseDisplayPost DEF RefsInv
  <2>2. QED
    BY <2>1, Ranges DEF ItemIs, ChainInv, MonitInside, Linked
<1>2. ASSUME LinkItem PROVE ChainInv'
  <2>1. /\ main.pc = "link" /\ main.i \in Items
        /\ chain' = chain \cup {main.i}
        /\ ItemIs(main.i, "linked", item[main.i].user, item[main.i].disp)
        /\ UNCHANGED <<intact, monit>>
    BY <1>2, LinkItemPost DEF RefsInv
  <2>2. QED
    BY <2>1, Ranges
    DEF ItemIs, LockInv, OneThreadInChain, MainInside, OthersInside, ChainInv,
       MonitInside, Linked
<1>3. ASSUME SyncDone PROVE ChainInv'
  <2>1. /\ main.pc \in {"refused", "ended"}
        /\ intact' = (intact /\ ~OthersInside)
        /\ UNCHANGED <<chain, item, monit>>
    BY <1>3, SyncDonePost DEF RefsInv
  <2>2. QED
    BY <2>1, Ranges DEF ChainInv, MonitInside, Linked
<1>4. ASSUME NEW c \in Clients, Reactivate(c) PROVE ChainInv'
  <2>1. /\ \A j \in Items : item'[j].st = item[j].st
        /\ UNCHANGED <<chain, monit, intact>>
    BY <1>4, ReactivatePost, Ranges DEF ItemIs, RefsInv
  <2>2. Linked' = Linked
    BY <2>1 DEF Linked
  <2>3. QED
    BY <2>1, <2>2 DEF ChainInv, MonitInside
<1>5. ASSUME NEW w \in Workers, WriteStatus(w) PROVE ChainInv'
  <2>1. /\ \A j \in Items : item'[j].st = item[j].st
        /\ UNCHANGED <<chain, monit, intact>>
    BY <1>5, WriteStatusPost, Ranges DEF ItemIs, RefsInv
  <2>2. Linked' = Linked
    BY <2>1 DEF Linked
  <2>3. QED
    BY <2>1, <2>2 DEF ChainInv, MonitInside
<1>6. ASSUME MonitLock PROVE ChainInv'
  <2>1. /\ monit.pc = "sleep" /\ ~lock
        /\ MonitIs("look", chain, {}, monit.tmp, monit.cnt)
        /\ UNCHANGED <<chain, item, intact>>
    BY <1>6, MonitLockPost DEF RefsInv
  <2>2. QED
    BY <2>1, Ranges DEF MonitIs, ChainInv, MonitInside, Linked
<1>7. ASSUME NEW i \in Items, Inspect(i) PROVE ChainInv'
  <2>1. /\ monit.pc = "look" /\ i \in monit.todo
        /\ \/ MonitIs("destroy", monit.todo, monit.kept, i, monit.cnt)
           \/ MonitIs("look", monit.todo \ {i}, monit.kept \cup {i}, monit.tmp, monit.cnt)
        /\ UNCHANGED <<chain, item, intact>>
    BY <1>7, InspectPost DEF RefsInv
  <2>2. QED
    BY <2>1, Ranges DEF MonitIs, ChainInv, MonitInside, Linked
<1>8. ASSUME FreeItem PROVE ChainInv'
  <2>1. /\ monit.pc = "destroy" /\ monit.tmp \in monit.todo /\ monit.tmp \in Items
        /\ MonitIs("count", monit.todo \ {monit.tmp}, monit.kept, None, count)
        /\ chain' = (IF monit.kept = {} THEN monit.todo ELSE chain) \ {monit.tmp}
        /\ ItemIs(monit.tmp, "freed", item[monit.tmp].user, item[monit.tmp].disp)
        /\ intact' = intact
    BY <1>8, FreeItemPost DEF RefsInv
  <2>2. QED
    BY <2>1, Ranges DEF MonitIs, ItemIs, ChainInv, MonitInside, Linked
<1>9. ASSUME UncountItem PROVE ChainInv'
  <2>1. /\ monit.pc = "count"
        /\ MonitIs("look", monit.todo, monit.kept, monit.tmp, 0)
        /\ UNCHANGED <<chain, item, intact>>
    BY <1>9, UncountItemPost DEF RefsInv
  <2>2. QED
    BY <2>1, Ranges DEF MonitIs, ChainInv, MonitInside, Linked
<1>10. ASSUME MonitUnlock PROVE ChainInv'
  <2>1. /\ monit.pc = "look" /\ monit.todo = {}
        /\ \/ MonitIs("sleep", monit.todo, {}, monit.tmp, monit.cnt)
           \/ MonitIs("kill", monit.todo, {}, monit.tmp, monit.cnt)
        /\ UNCHANGED <<chain, item, intact>>
    BY <1>10, MonitUnlockPost DEF RefsInv
  <2>2. QED
    BY <2>1, Ranges DEF MonitIs, ChainInv, MonitInside, Linked
<1>11. ASSUME KillAll PROVE ChainInv'
  <2>1. /\ monit.pc = "kill"
        /\ MonitIs("done", monit.todo, monit.kept, monit.tmp, monit.cnt)
        /\ UNCHANGED <<chain, item, intact>>
    BY <1>11, KillAllPost DEF RefsInv
  <2>2. QED
    BY <2>1, Ranges DEF MonitIs, ChainInv, MonitInside, Linked
<1>12. CASE UNCHANGED <<chain, item, intact, monit>>
  BY <1>12 DEF ChainInv, MonitInside, Linked
<1>13. QED
  BY <1>1, <1>2, <1>3, <1>4, <1>5, <1>6, <1>7, <1>8, <1>9, <1>10, <1>11, <1>12
  DEF Next, MainRuns, ClientRuns, WorkerRuns, MonitRuns, vars, chainVars, otherThreads,
     Accept, HandOver, SyncEvent, SyncLock, StartRefused, StartFails, Fork, XTimeout,
     XAnswers, Relock, CountItem, CopySocket, CreationLock, Authenticate, ChainLock,
     FindV0, Research, TestFinal, FindV1, PickV1, StartSession, GetResult, Request,
     FindSession, DestroySession, TestStatus, ListAllocates, ListCopies, Shutdown, Exit,
     XChanges

\* session_creation_lock is held by one client of version 0, to its answer.
LEMMA CreationNext == TypeOK /\ RefsInv /\ CreationInv /\ [Next]_vars => CreationInv'
<1> SUFFICES ASSUME TypeOK, RefsInv, CreationInv, [Next]_vars PROVE CreationInv'
  OBVIOUS
<1>1. ASSUME NEW c \in Clients, NEW u \in Users, NEW v \in Versions, Accept(c, u, v)
      PROVE  CreationInv'
  <2>1. /\ main.pc = "loop" /\ client[c].pc = "out"
        /\ ClientIs(c, "out", u, v, client[c].sck, client[c].disp)
        /\ creation' = creation
    BY <1>1, AcceptPost DEF RefsInv
  <2>2. QED
    BY <2>1 DEF ClientIs, RefsInv, OutRefs, CreationInv, Held, V0
<1>2. ASSUME HandOver PROVE CreationInv'
  <2>1. /\ main.pc = "hand" /\ main.conn \in Clients /\ socket.free
        /\ \/ Moves(main.conn, "born", client[main.conn].disp)
           \/ Moves(main.conn, "stranded", client[main.conn].disp)
        /\ creation' = creation
    BY <1>2, HandOverPost DEF RefsInv
  <2>2. QED
    BY <2>1 DEF Moves, ClientIs, CreationInv, Held, V0
<1>3. ASSUME NEW c \in Clients, CopySocket(c) PROVE CreationInv'
  <2>1. /\ client[c].pc = "born"
        /\ ClientIs(c, IF V0(c) THEN "creation" ELSE "auth", client[c].user,
                    client[c].version, socket.sck, client[c].disp)
        /\ creation' = creation
    BY <1>3, CopySocketPost DEF RefsInv
  <2>2. QED
    BY <2>1 DEF ClientIs, CreationInv, Held, V0
<1>4. ASSUME NEW c \in Clients, CreationLock(c) PROVE CreationInv'
  <2>1. /\ client[c].pc = "creation" /\ ~creation
        /\ creation' = TRUE
        /\ Moves(c, "auth", client[c].disp)
    BY <1>4, CreationLockPost DEF RefsInv
  <2>2. QED
    BY <2>1 DEF Moves, ClientIs, CreationInv, Held, V0
<1>5. ASSUME NEW c \in Clients, Authenticate(c) PROVE CreationInv'
  <2>1. client[c].pc = "auth"
    BY <1>5, AuthenticatePost
  <2>2. CASE Moves(c, "find", client[c].disp) /\ creation' = creation
    BY <2>1, <2>2 DEF Moves, Unlocks, ClientIs, CreationInv, Held, V0
  <2>3. CASE Moves(c, "denied", 0) /\ Unlocks(c)
    BY <2>1, <2>3 DEF Moves, Unlocks, ClientIs, CreationInv, Held, V0
  <2>4. QED
    BY <1>5, AuthenticatePost, <2>2, <2>3
<1>6. ASSUME NEW c \in Clients, ChainLock(c) PROVE CreationInv'
  <2>1. /\ ~lock
        /\ \/ client[c].pc = "find" /\ Moves(c, "found", client[c].disp)
           \/ client[c].pc = "update" /\ Moves(c, "updating", client[c].disp)
           \/ client[c].pc = "pick" /\ Moves(c, "picking", client[c].disp)
        /\ creation' = creation
    BY <1>6, ChainLockPost DEF RefsInv
  <2>2. QED
    BY <2>1 DEF Moves, ClientIs, CreationInv, Held, V0
<1>7. ASSUME NEW c \in Clients, FindV0(c) PROVE CreationInv'
  <2>1. client[c].pc = "found"
    BY <1>7, FindV0Post
  <2>2. CASE Moves(c, "denied", 0) /\ Unlocks(c)
    BY <2>1, <2>2 DEF Moves, Unlocks, ClientIs, CreationInv, Held, V0
  <2>3. CASE \E d : Moves(c, "update", d) /\ creation' = creation
    BY <2>1, <2>3 DEF Moves, Unlocks, ClientIs, CreationInv, Held, V0
  <2>4. CASE Moves(c, "start", client[c].disp) /\ creation' = creation
    BY <2>1, <2>4 DEF Moves, Unlocks, ClientIs, CreationInv, Held, V0
  <2>5. QED
    BY <1>7, FindV0Post, <2>2, <2>3, <2>4
<1>7a. ASSUME NEW c \in Clients, Research(c) PROVE CreationInv'
  <2>1. client[c].pc = "updating"
    BY <1>7a, ResearchPost
  <2>2. CASE Moves(c, "testing", client[c].disp) /\ creation' = creation
    BY <2>1, <2>2 DEF Moves, ClientIs, CreationInv, Held, V0
  <2>3. CASE Moves(c, "allowed", client[c].disp) /\ Unlocks(c)
    BY <2>1, <2>3 DEF Moves, Unlocks, ClientIs, CreationInv, Held, V0
  <2>4. QED
    BY <1>7a, ResearchPost, <2>2, <2>3
<1>7b. ASSUME NEW c \in Clients, TestFinal(c) PROVE CreationInv'
  <2>1. client[c].pc = "testing"
    BY <1>7b, TestFinalPost
  <2>2. CASE Moves(c, "reviving", client[c].disp) /\ creation' = creation
    BY <2>1, <2>2 DEF Moves, ClientIs, CreationInv, Held, V0
  <2>3. CASE Moves(c, "allowed", client[c].disp) /\ Unlocks(c)
    BY <2>1, <2>3 DEF Moves, Unlocks, ClientIs, CreationInv, Held, V0
  <2>4. QED
    BY <1>7b, TestFinalPost, <2>2, <2>3
<1>8. ASSUME NEW c \in Clients, Reactivate(c) PROVE CreationInv'
  <2>1. /\ client[c].pc = "reviving"
        /\ Moves(c, "allowed", client[c].disp) /\ Unlocks(c)
    BY <1>8, ReactivatePost DEF RefsInv
  <2>2. QED
    BY <2>1 DEF Moves, Unlocks, ClientIs, CreationInv, Held, V0
<1>9. ASSUME NEW c \in Clients, FindV1(c) PROVE CreationInv'
  <2>1. /\ client[c].pc = "found" /\ ~V0(c)
        /\ \/ Moves(c, "start", client[c].disp) \/ Moves(c, "denied", client[c].disp)
           \/ Moves(c, "pick", client[c].disp)
        /\ creation' = creation
    BY <1>9, FindV1Post DEF RefsInv
  <2>2. QED
    BY <2>1 DEF Moves, ClientIs, CreationInv, Held, V0
<1>10. ASSUME NEW c \in Clients, PickV1(c) PROVE CreationInv'
  <2>1. /\ client[c].pc = "picking"
        /\ Moves(c, "allowed", item[client[c].i].disp) \/ Moves(c, "denied", 0)
        /\ Unlocks(c)
    BY <1>10, PickV1Post DEF RefsInv
  <2>2. QED
    BY <2>1 DEF Moves, Unlocks, ClientIs, CreationInv, Held, V0
<1>11. ASSUME NEW c \in Clients, StartSession(c) PROVE CreationInv'
  <2>1. /\ client[c].pc = "start" /\ ~sync.held
        /\ Moves(c, "wait", client[c].disp)
        /\ creation' = creation
    BY <1>11, StartSessionPost DEF RefsInv
  <2>2. QED
    BY <2>1 DEF Moves, ClientIs, CreationInv, Held, V0
<1>12. ASSUME NEW c \in Clients, GetResult(c) PROVE CreationInv'
  <2>1. /\ client[c].pc = "wait" /\ sync.sem > 0
        /\ Moves(c, "denied", 0) \/ Moves(c, "allowed", sync.result)
        /\ Unlocks(c)
    BY <1>12, GetResultPost DEF RefsInv
  <2>2. QED
    BY <2>1 DEF Moves, Unlocks, ClientIs, CreationInv, Held, V0
<1>13. CASE UNCHANGED <<creation, client>>
  BY <1>13 DEF CreationInv, Held, V0
<1>14. QED
  BY <1>1, <1>2, <1>3, <1>4, <1>5, <1>6, <1>7, <1>7a, <1>7b, <1>8, <1>9, <1>10, <1>11,
     <1>12, <1>13
  DEF Next, MainRuns, ClientRuns, WorkerRuns, MonitRuns, vars, chainVars, otherThreads,
     SyncEvent, SyncLock, StartRefused, ChooseDisplay, StartFails, Fork, XTimeout,
     XAnswers, Relock, LinkItem, CountItem, SyncDone, Request, FindSession,
     DestroySession, TestStatus, WriteStatus, ListAllocates, ListCopies, MonitLock,
     Inspect, FreeItem, UncountItem, MonitUnlock, KillAll, Shutdown, Exit, XChanges
-----------------------------------------------------------------------------
\* The chain is finite: adding and taking one item changes its size by one.
LEMMA ChainCard ==
  ASSUME TypeOK
  PROVE  /\ Cardinality(chain) \in Nat /\ count \in Int /\ MaxSessions \in Nat
         /\ \A i \in Items \ chain : Cardinality(chain \cup {i}) = Cardinality(chain) + 1
         /\ \A i \in chain : Cardinality(chain \ {i}) = Cardinality(chain) - 1
<1>1. IsFiniteSet(chain)
  BY SesmanAssumption, FS_Subset DEF TypeOK
<1>2. QED
  BY <1>1, SesmanAssumption, FS_CardinalityType, FS_AddElement, FS_RemoveElement DEF TypeOK

\* As long as the chain lock was not broken, the counter is the number of
\* sessions but for the increment or decrement that is on the way.
LEMMA CountNext ==
  TypeOK /\ RefsInv /\ NewInv /\ LockInv /\ ChainInv /\ CountInv /\ [Next]_vars => CountInv'
<1> SUFFICES ASSUME TypeOK, RefsInv, NewInv, LockInv, ChainInv, CountInv, [Next]_vars
    PROVE  CountInv'
  OBVIOUS
<1>1. ASSUME NEW c \in Clients, NEW u \in Users, NEW v \in Versions, Accept(c, u, v)
      PROVE  CountInv'
  <2>1. /\ main.pc = "loop" /\ client[c].pc = "out"
        /\ MainIs("hand", c, main.i, main.cnt)
        /\ UNCHANGED <<chain, count, intact, worker, monit>>
    BY <1>1, AcceptPost DEF RefsInv
  <2>2. QED
    BY <2>1, ChainCard DEF MainIs, CountInv, Starting
<1>2. ASSUME HandOver PROVE CountInv'
  <2>1. /\ main.pc = "hand" /\ main.conn \in Clients /\ socket.free
        /\ MainIs("loop", None, main.i, main.cnt)
        /\ UNCHANGED <<chain, count, intact, worker, monit>>
    BY <1>2, HandOverPost DEF RefsInv
  <2>2. QED
    BY <2>1, ChainCard DEF MainIs, CountInv, Starting
<1>3. ASSUME SyncEvent PROVE CountInv'
  <2>1. /\ main.pc = "loop" /\ sync.event
        /\ MainIs("sync", main.conn, main.i, main.cnt)
        /\ UNCHANGED <<chain, count, intact, worker, monit>>
    BY <1>3, SyncEventPost DEF RefsInv
  <2>2. QED
    BY <2>1, ChainCard DEF MainIs, CountInv, Starting
<1>4. ASSUME SyncLock PROVE CountInv'
  <2>1. /\ main.pc = "sync" /\ ~lock
        /\ MainIs("check", main.conn, main.i, main.cnt)
        /\ UNCHANGED <<chain, count, intact, worker, monit>>
    BY <1>4, SyncLockPost DEF RefsInv
  <2>2. QED
    BY <2>1, ChainCard DEF MainIs, CountInv, Starting
<1>5. ASSUME StartRefused PROVE CountInv'
  <2>1. /\ main.pc = "check"
        /\ MainIs("refused", main.conn, main.i, main.cnt)
        /\ UNCHANGED <<chain, count, intact, worker, monit>>
    BY <1>5, StartRefusedPost DEF RefsInv
  <2>2. QED
    BY <2>1, ChainCard DEF MainIs, CountInv, Starting
<1>6. ASSUME NEW i \in Items, NEW d \in Displays, ChooseDisplay(i, d) PROVE CountInv'
  <2>1. /\ main.pc = "check" /\ ~Full
        /\ MainIs("prepare", main.conn, i, main.cnt)
        /\ item[i].st = "unused" /\ Usable(d)
        /\ UNCHANGED <<chain, count, intact, worker, monit>>
    BY <1>6, ChooseDisplayPost DEF RefsInv
  <2>2. QED
    BY <2>1, ChainCard
    DEF MainIs, LockInv, OneThreadInChain, MainInside, OthersInside, MonitInside,
       WorkerInside, Full, CountInv, Starting
<1>7. ASSUME NEW r \in {0, 1} \cup Displays, StartFails(r) PROVE CountInv'
  <2>1. /\ main.pc = "prepare"
        /\ MainIs("ended", main.conn, main.i, main.cnt)
        /\ r \in {0, 1, item[main.i].disp}
        /\ UNCHANGED <<chain, count, intact, worker, monit>>
    BY <1>7, StartFailsPost DEF RefsInv
  <2>2. QED
    BY <2>1, ChainCard DEF MainIs, CountInv, Starting
<1>8. ASSUME Fork PROVE CountInv'
  <2>1. /\ main.pc = "prepare"
        /\ MainIs("waitx", main.conn, main.i, main.cnt)
        /\ UNCHANGED <<chain, count, intact, worker, monit>>
    BY <1>8, ForkPost DEF RefsInv
  <2>2. QED
    BY <2>1, ChainCard DEF MainIs, CountInv, Starting
<1>9. ASSUME XTimeout PROVE CountInv'
  <2>1. /\ main.pc = "waitx"
        /\ MainIs("ended", main.conn, main.i, main.cnt)
        /\ UNCHANGED <<chain, count, intact, worker, monit>>
    BY <1>9, XTimeoutPost DEF RefsInv
  <2>2. QED
    BY <2>1, ChainCard DEF MainIs, CountInv, Starting
<1>10. ASSUME XAnswers PROVE CountInv'
  <2>1. /\ main.pc = "waitx"
        /\ MainIs("relock", main.conn, main.i, main.cnt)
        /\ UNCHANGED <<chain, count, intact, worker, monit>>
    BY <1>10, XAnswersPost DEF RefsInv
  <2>2. QED
    BY <2>1, ChainCard DEF MainIs, CountInv, Starting
<1>11. ASSUME Relock PROVE CountInv'
  <2>1. /\ main.pc = "relock" /\ ~lock
        /\ MainIs("link", main.conn, main.i, main.cnt)
        /\ UNCHANGED <<chain, count, intact, worker, monit>>
    BY <1>11, RelockPost DEF RefsInv
  <2>2. QED
    BY <2>1, ChainCard DEF MainIs, CountInv, Starting
<1>12. ASSUME LinkItem PROVE CountInv'
  <2>1. /\ main.pc = "link" /\ main.i \in Items
        /\ MainIs("count", main.conn, main.i, count)
        /\ chain' = chain \cup {main.i}
        /\ UNCHANGED <<count, intact, worker, monit>>
    BY <1>12, LinkItemPost DEF RefsInv
  <2>2. intact => main.i \notin chain
    BY <2>1 DEF NewInv, Starting, ChainInv, Linked
  <2>3. QED
    BY <2>1, <2>2, ChainCard
    DEF MainIs, LockInv, OneThreadInChain, MainInside, OthersInside, MonitInside,
       WorkerInside, CountInv, Starting
<1>13. ASSUME CountItem PROVE CountInv'
  <2>1. /\ main.pc = "count"
        /\ MainIs("ended", main.conn, main.i, 0)
        /\ count' = main.cnt + 1
        /\ UNCHANGED <<chain, intact, worker, monit>>
    BY <1>13, CountItemPost DEF RefsInv
  <2>2. QED
    BY <2>1, ChainCard
    DEF MainIs, LockInv, OneThreadInChain, MainInside, OthersInside, MonitInside,
       WorkerInside, CountInv, Starting
<1>14. ASSUME SyncDone PROVE CountInv'
  <2>1. /\ main.pc \in {"refused", "ended"}
        /\ MainIs("loop", main.conn, None, main.cnt)
        /\ intact' = (intact /\ ~OthersInside)
        /\ UNCHANGED <<chain, count, worker, monit>>
    BY <1>14, SyncDonePost DEF RefsInv
  <2>2. QED
    BY <2>1, ChainCard DEF MainIs, CountInv, Starting
<1>15. ASSUME NEW w \in Workers, NEW act \in Orders, NEW u \in Users, Request(w, act, u)
       PROVE  CountInv'
  <2>1. /\ worker[w].pc = "idle"
        /\ ~lock
        /\ WorkerIs(w, "finding", None)
        /\ UNCHANGED <<chain, count, intact, main, monit>>
    BY <1>15, RequestPost DEF RefsInv
  <2>2. QED
    BY <2>1, ChainCard DEF WorkerIs, CountInv, Starting
<1>16. ASSUME NEW w \in Workers, FindSession(w) PROVE CountInv'
  <2>1. /\ worker[w].pc = "finding"
        /\ \/ \E i \in chain, p \in {"destroying", "testing"} : WorkerIs(w, p, i) /\ lock' = lock
           \/ WorkerIs(w, "idle", None) /\ lock' = FALSE
        /\ UNCHANGED <<chain, count, intact, main, monit>>
    BY <1>16, FindSessionPost DEF RefsInv
  <2>2. QED
    BY <2>1, ChainCard DEF WorkerIs, CountInv, Starting
<1>17. ASSUME NEW w \in Workers, DestroySession(w) PROVE CountInv'
  <2>1. /\ worker[w].pc = "destroying"
        /\ WorkerIs(w, "testing", worker[w].i)
        /\ UNCHANGED <<chain, count, intact, main, monit>>
    BY <1>17, DestroySessionPost DEF RefsInv
  <2>2. QED
    BY <2>1, ChainCard DEF WorkerIs, CountInv, Starting
<1>17a. ASSUME NEW w \in Workers, TestStatus(w) PROVE CountInv'
  <2>1. /\ worker[w].pc = "testing"
        /\ \/ WorkerIs(w, "writing", worker[w].i) /\ lock' = lock
           \/ WorkerIs(w, "idle", None) /\ lock' = FALSE
        /\ UNCHANGED <<chain, count, intact, main, monit>>
    BY <1>17a, TestStatusPost DEF RefsInv
  <2>2. QED
    BY <2>1, ChainCard DEF WorkerIs, CountInv, Starting
<1>18. ASSUME NEW w \in Workers, WriteStatus(w) PROVE CountInv'
  <2>1. /\ worker[w].pc = "writing"
        /\ worker[w].i \in Items
        /\ WorkerIs(w, "idle", None)
        /\ UNCHANGED <<chain, count, intact, main, monit>>
    BY <1>18, WriteStatusPost DEF RefsInv
  <2>2. QED
    BY <2>1, ChainCard DEF WorkerIs, CountInv, Starting
<1>19. ASSUME NEW w \in Workers, ListAllocates(w) PROVE CountInv'
  <2>1. /\ worker[w].pc = "finding"
        /\ WorkerIs(w, "copying", worker[w].i)
        /\ worker'[w].cnt = count
        /\ UNCHANGED <<chain, count, intact, main, monit>>
    BY <1>19, ListAllocatesPost DEF RefsInv
  <2>2. QED
    BY <2>1, ChainCard
    DEF WorkerIs, LockInv, OneThreadInChain, MainInside, OthersInside, MonitInside,
       WorkerInside, CountInv, Starting
<1>20. ASSUME NEW w \in Workers, ListCopies(w) PROVE CountInv'
  <2>1. /\ worker[w].pc = "copying"
        /\ WorkerIs(w, "idle", None)
        /\ UNCHANGED <<chain, count, intact, main, monit>>
    BY <1>20, ListCopiesPost DEF RefsInv
  <2>2. QED
    BY <2>1, ChainCard DEF WorkerIs, CountInv, Starting
<1>21. ASSUME MonitLock PROVE CountInv'
  <2>1. /\ monit.pc = "sleep" /\ ~lock
        /\ MonitIs("look", chain, {}, monit.tmp, monit.cnt)
        /\ UNCHANGED <<chain, count, intact, main, worker>>
    BY <1>21, MonitLockPost DEF RefsInv
  <2>2. QED
    BY <2>1, ChainCard DEF MonitIs, CountInv, Starting
<1>22. ASSUME NEW i \in Items, Inspect(i) PROVE CountInv'
  <2>1. /\ monit.pc = "look" /\ i \in monit.todo
        /\ \/ MonitIs("destroy", monit.todo, monit.kept, i, monit.cnt)
           \/ MonitIs("look", monit.todo \ {i}, monit.kept \cup {i}, monit.tmp, monit.cnt)
        /\ UNCHANGED <<chain, count, intact, main, worker>>
    BY <1>22, InspectPost DEF RefsInv
  <2>2. QED
    BY <2>1, ChainCard DEF MonitIs, CountInv, Starting
<1>23. ASSUME FreeItem PROVE CountInv'
  <2>1. /\ monit.pc = "destroy" /\ monit.tmp \in monit.todo /\ monit.tmp \in Items
        /\ MonitIs("count", monit.todo \ {monit.tmp}, monit.kept, None, count)
        /\ chain' = (IF monit.kept = {} THEN monit.todo ELSE chain) \ {monit.tmp}
        /\ UNCHANGED <<count, intact, main, worker>>
    BY <1>23, FreeItemPost DEF RefsInv
  <2>2. intact => chain' = chain \ {monit.tmp} /\ monit.tmp \in chain
    BY <2>1 DEF ChainInv, MonitInside
  <2>3. QED
    BY <2>1, <2>2, ChainCard
    DEF MonitIs, LockInv, OneThreadInChain, MainInside, OthersInside, MonitInside,
       WorkerInside, CountInv, Starting
<1>24. ASSUME UncountItem PROVE CountInv'
  <2>1. /\ monit.pc = "count"
        /\ MonitIs("look", monit.todo, monit.kept, monit.tmp, 0)
        /\ count' = monit.cnt - 1
        /\ UNCHANGED <<chain, intact, main, worker>>
    BY <1>24, UncountItemPost DEF RefsInv
  <2>2. QED
    BY <2>1, ChainCard
    DEF MonitIs, LockInv, OneThreadInChain, MainInside, OthersInside, MonitInside,
       WorkerInside, CountInv, Starting
<1>25. ASSUME MonitUnlock PROVE CountInv'
  <2>1. /\ monit.pc = "look" /\ monit.todo = {}
        /\ \/ MonitIs("sleep", monit.todo, {}, monit.tmp, monit.cnt)
           \/ MonitIs("kill", monit.todo, {}, monit.tmp, monit.cnt)
        /\ UNCHANGED <<chain, count, intact, main, worker>>
    BY <1>25, MonitUnlockPost DEF RefsInv
  <2>2. QED
    BY <2>1, ChainCard DEF MonitIs, CountInv, Starting
<1>26. ASSUME KillAll PROVE CountInv'
  <2>1. /\ monit.pc = "kill"
        /\ MonitIs("done", monit.todo, monit.kept, monit.tmp, monit.cnt)
        /\ UNCHANGED <<chain, count, intact, main, worker>>
    BY <1>26, KillAllPost DEF RefsInv
  <2>2. QED
    BY <2>1, ChainCard DEF MonitIs, CountInv, Starting
<1>27. CASE UNCHANGED <<chain, count, intact, main, worker, monit>>
  BY <1>27, ChainCard DEF CountInv, Starting
<1>28. QED
  BY <1>1, <1>2, <1>3, <1>4, <1>5, <1>6, <1>7, <1>8, <1>9, <1>10, <1>11, <1>12, <1>13,
     <1>14, <1>15, <1>16, <1>17, <1>17a, <1>18, <1>19, <1>20, <1>21, <1>22, <1>23,
     <1>24, <1>25, <1>26, <1>27
  DEF Next, MainRuns, ClientRuns, WorkerRuns, MonitRuns, vars, chainVars, otherThreads,
     CopySocket, CreationLock, Authenticate, ChainLock, FindV0, Research, TestFinal,
     Reactivate, FindV1, PickV1, StartSession, GetResult, Shutdown, Exit, XChanges
-----------------------------------------------------------------------------
\* As long as the chain lock was not broken, no linked session has the display
\* of the one being started.
LEMMA DisplayNext ==
  TypeOK /\ RefsInv /\ NewInv /\ LockInv /\ ChainInv /\ DisplayInv /\ [Next]_vars =>
  DisplayInv'
<1> SUFFICES ASSUME TypeOK, RefsInv, NewInv, LockInv, ChainInv, DisplayInv, [Next]_vars
    PROVE  DisplayInv'
  OBVIOUS
<1>1. ASSUME NEW c \in Clients, NEW u \in Users, NEW v \in Versions, Accept(c, u, v)
      PROVE  DisplayInv'
  <2>1. /\ main.pc = "loop" /\ client[c].pc = "out"
        /\ MainIs("hand", c, main.i, main.cnt)
        /\ UNCHANGED <<chain, item, intact>>
    BY <1>1, AcceptPost DEF RefsInv
  <2>2. QED
    BY <2>1, Ranges DEF MainIs, DisplayInv, Starting
<1>2. ASSUME HandOver PROVE DisplayInv'
  <2>1. /\ main.pc = "hand" /\ main.conn \in Clients /\ socket.free
        /\ MainIs("loop", None, main.i, main.cnt)
        /\ UNCHANGED <<chain, item, intact>>
    BY <1>2, HandOverPost DEF RefsInv
  <2>2. QED
    BY <2>1, Ranges DEF MainIs, DisplayInv, Starting
<1>3. ASSUME SyncEvent PROVE DisplayInv'
  <2>1. /\ main.pc = "loop" /\ sync.event
        /\ MainIs("sync", main.conn, main.i, main.cnt)
        /\ UNCHANGED <<chain, item, intact>>
    BY <1>3, SyncEventPost DEF RefsInv
  <2>2. QED
    BY <2>1, Ranges DEF MainIs, DisplayInv, Starting
<1>4. ASSUME SyncLock PROVE DisplayInv'
  <2>1. /\ main.pc = "sync" /\ ~lock
        /\ MainIs("check", main.conn, main.i, main.cnt)
        /\ UNCHANGED <<chain, item, intact>>
    BY <1>4, SyncLockPost DEF RefsInv
  <2>2. QED
    BY <2>1, Ranges DEF MainIs, DisplayInv, Starting
<1>5. ASSUME StartRefused PROVE DisplayInv'
  <2>1. /\ main.pc = "check"
        /\ MainIs("refused", main.conn, main.i, main.cnt)
        /\ UNCHANGED <<chain, item, intact>>
    BY <1>5, StartRefusedPost DEF RefsInv
  <2>2. QED
    BY <2>1, Ranges DEF MainIs, DisplayInv, Starting
<1>6. ASSUME NEW i \in Items, NEW d \in Displays, ChooseDisplay(i, d) PROVE DisplayInv'
  <2>1. /\ main.pc = "check" /\ ~Full
        /\ MainIs("prepare", main.conn, i, main.cnt)
        /\ item[i].st = "unused" /\ Usable(d)
        /\ ItemIs(i, "new", sync.user, d)
        /\ UNCHANGED <<chain, intact>>
    BY <1>6, ChooseDisplayPost DEF RefsInv
  <2>2. i \notin chain /\ \A j \in chain : item[j].disp # d
    BY <2>1 DEF RefsInv, MonitRefs, Usable
  <2>3. QED
    BY <2>1, <2>2, Ranges DEF MainIs, ItemIs, DisplayInv, Starting
<1>7. ASSUME NEW r \in {0, 1} \cup Displays, StartFails(r) PROVE DisplayInv'
  <2>1. /\ main.pc = "prepare"
        /\ MainIs("ended", main.conn, main.i, main.cnt)
        /\ r \in {0, 1, item[main.i].disp}
        /\ UNCHANGED <<chain, item, intact>>
    BY <1>7, StartFailsPost DEF RefsInv
  <2>2. QED
    BY <2>1, Ranges DEF MainIs, DisplayInv, Starting
<1>8. ASSUME Fork PROVE DisplayInv'
  <2>1. /\ main.pc = "prepare"
        /\ MainIs("waitx", main.conn, main.i, main.cnt)
        /\ UNCHANGED <<chain, item, intact>>
    BY <1>8, ForkPost DEF RefsInv
  <2>2. QED
    BY <2>1, Ranges DEF MainIs, DisplayInv, Starting
<1>9. ASSUME XTimeout PROVE DisplayInv'
  <2>1. /\ main.pc = "waitx"
        /\ MainIs("ended", main.conn, main.i, main.cnt)
        /\ UNCHANGED <<chain, item, intact>>
    BY <1>9, XTimeoutPost DEF RefsInv
  <2>2. QED
    BY <2>1, Ranges DEF MainIs, DisplayInv, Starting
<1>10. ASSUME XAnswers PROVE DisplayInv'
  <2>1. /\ main.pc = "waitx"
        /\ MainIs("relock", main.conn, main.i, main.cnt)
        /\ UNCHANGED <<chain, item, intact>>
    BY <1>10, XAnswersPost DEF RefsInv
  <2>2. QED
    BY <2>1, Ranges DEF MainIs, DisplayInv, Starting
<1>11. ASSUME Relock PROVE DisplayInv'
  <2>1. /\ main.pc = "relock" /\ ~lock
        /\ MainIs("link", main.conn, main.i, main.cnt)
        /\ UNCHANGED <<chain, item, intact>>
    BY <1>11, RelockPost DEF RefsInv
  <2>2. QED
    BY <2>1, Ranges DEF MainIs, DisplayInv, Starting
<1>12. ASSUME LinkItem PROVE DisplayInv'
  <2>1. /\ main.pc = "link" /\ main.i \in Items
        /\ MainIs("count", main.conn, main.i, count)
        /\ chain' = chain \cup {main.i}
        /\ ItemIs(main.i, "linked", item[main.i].user, item[main.i].disp)
        /\ intact' = intact
    BY <1>12, LinkItemPost DEF RefsInv
  <2>2. \A j \in Items : item'[j].disp = item[j].disp
    BY <2>1 DEF ItemIs
  <2>3. QED
    BY <2>1, <2>2, Ranges DEF MainIs, ItemIs, DisplayInv, Starting
<1>13. ASSUME CountItem PROVE DisplayInv'
  <2>1. /\ main.pc = "count"
        /\ MainIs("ended", main.conn, main.i, 0)
        /\ UNCHANGED <<chain, item, intact>>
    BY <1>13, CountItemPost DEF RefsInv
  <2>2. QED
    BY <2>1, Ranges DEF MainIs, DisplayInv, Starting
<1>14. ASSUME SyncDone PROVE DisplayInv'
  <2>1. /\ main.pc \in {"refused", "ended"}
        /\ MainIs("loop", main.conn, None, main.cnt)
        /\ intact' = (intact /\ ~OthersInside)
        /\ UNCHANGED <<chain, item>>
    BY <1>14, SyncDonePost DEF RefsInv
  <2>2. QED
    BY <2>1, Ranges DEF MainIs, DisplayInv, Starting
<1>15. ASSUME NEW c \in Clients, Reactivate(c) PROVE DisplayInv'
  <2>1. \A j \in Items : item'[j].user = item[j].user /\ item'[j].disp = item[j].disp
    BY <1>15, ReactivatePost, Ranges DEF ItemIs, RefsInv
  <2>2. UNCHANGED <<chain, main, intact>>
    BY <1>15, ReactivatePost DEF RefsInv
  <2>3. QED
    BY <2>1, <2>2, Ranges DEF DisplayInv, Starting, RefsInv, MainRefs
<1>16. ASSUME NEW w \in Workers, WriteStatus(w) PROVE DisplayInv'
  <2>1. \A j \in Items : item'[j].user = item[j].user /\ item'[j].disp = item[j].disp
    BY <1>16, WriteStatusPost, Ranges DEF ItemIs, RefsInv
  <2>2. UNCHANGED <<chain, main, intact>>
    BY <1>16, WriteStatusPost DEF RefsInv
  <2>3. QED
    BY <2>1, <2>2, Ranges DEF DisplayInv, Starting, RefsInv, MainRefs
<1>17. ASSUME FreeItem PROVE DisplayInv'
  <2>1. /\ monit.pc = "destroy" /\ monit.tmp \in monit.todo /\ monit.tmp \in Items
        /\ chain' = (IF monit.kept = {} THEN monit.todo ELSE chain) \ {monit.tmp}
        /\ ItemIs(monit.tmp, "freed", item[monit.tmp].user, item[monit.tmp].disp)
        /\ UNCHANGED <<intact, main>>
    BY <1>17, FreeItemPost DEF RefsInv
  <2>2. (intact => chain' \subseteq chain) /\ \A j \in Items : item'[j].disp = item[j].disp
    BY <2>1 DEF ItemIs, ChainInv, MonitInside
  <2>3. QED
    BY <2>1, <2>2, Ranges DEF ItemIs, RefsInv, MainRefs, DisplayInv, Starting
<1>18. CASE UNCHANGED <<chain, item, intact, main>>
  BY <1>18 DEF DisplayInv, Starting
<1>19. QED
  BY <1>1, <1>2, <1>3, <1>4, <1>5, <1>6, <1>7, <1>8, <1>9, <1>10, <1>11, <1>12, <1>13,
     <1>14, <1>15, <1>16, <1>17, <1>18
  DEF Next, MainRuns, ClientRuns, WorkerRuns, MonitRuns, vars, chainVars, otherThreads,
     CopySocket, CreationLock, Authenticate, ChainLock, FindV0, Research, TestFinal,
     FindV1, PickV1, StartSession, GetResult, Request, FindSession, DestroySession,
     TestStatus, ListAllocates, ListCopies, MonitLock, Inspect, UncountItem, MonitUnlock,
     KillAll, Shutdown, Exit, XChanges

\* OnlyV0 and UserInv after the step.
OnlyV0After(u) == \A c \in Clients : client'[c].user = u => client'[c].version = 0
UserAfter ==
  intact' =>
    /\ \A c \in Clients : OnlyV0After(client'[c].user) =>
         /\ client'[c].pc = "start" => \A i \in chain' : item'[i].user # client'[c].user
         /\ client'[c].pc = "wait" /\ sync'.sem = 0 /\ main'.pc \notin {"count", "ended"}
              => \A i \in chain' : item'[i].user # client'[c].user
    /\ \A i, j \in chain' : item'[i].user = item'[j].user /\ OnlyV0After(item'[i].user) => i = j

\* No step makes a user speak version 0 only who did not before.
LEMMA OnlyV0Next == TypeOK /\ RefsInv /\ [Next]_vars => \A u : OnlyV0After(u) => OnlyV0(u)
<1> SUFFICES ASSUME TypeOK, RefsInv, [Next]_vars PROVE \A u : OnlyV0After(u) => OnlyV0(u)
  OBVIOUS
<1>1. ASSUME NEW c \in Clients, NEW u \in Users, NEW v \in Versions, Accept(c, u, v)
      PROVE  \A w : OnlyV0After(w) => OnlyV0(w)
  <2>1. /\ main.pc = "loop" /\ client[c].pc = "out"
        /\ ClientIs(c, "out", u, v, client[c].sck, client[c].disp)
    BY <1>1, AcceptPost DEF RefsInv
  <2>2. QED
    BY <2>1 DEF ClientIs, RefsInv, OutRefs, OnlyV0After, OnlyV0, V0
<1>2. ASSUME HandOver PROVE \A u : OnlyV0After(u) => OnlyV0(u)
  <2>1. /\ main.pc = "hand" /\ main.conn \in Clients /\ socket.free
        /\ \/ Moves(main.conn, "born", client[main.conn].disp)
           \/ Moves(main.conn, "stranded", client[main.conn].disp)
    BY <1>2, HandOverPost DEF RefsInv
  <2>2. QED
    BY <2>1 DEF Moves, ClientIs, OnlyV0After, OnlyV0, V0
<1>3. ASSUME NEW c \in Clients, CopySocket(c) PROVE \A u : OnlyV0After(u) => OnlyV0(u)
  <2>1. /\ client[c].pc = "born"
        /\ ClientIs(c, IF V0(c) THEN "creation" ELSE "auth", client[c].user,
                    client[c].version, socket.sck, client[c].disp)
    BY <1>3, CopySocketPost DEF RefsInv
  <2>2. QED
    BY <2>1 DEF ClientIs, OnlyV0After, OnlyV0, V0
<1>4. ASSUME NEW c \in Clients, CreationLock(c) PROVE \A u : OnlyV0After(u) => OnlyV0(u)
  <2>1. /\ client[c].pc = "creation" /\ ~creation
        /\ Moves(c, "auth", client[c].disp)
    BY <1>4, CreationLockPost DEF RefsInv
  <2>2. QED
    BY <2>1 DEF Moves, ClientIs, OnlyV0After, OnlyV0, V0
<1>5. ASSUME NEW c \in Clients, Authenticate(c) PROVE \A u : OnlyV0After(u) => OnlyV0(u)
  <2>1. /\ client[c].pc = "auth"
        /\ \/ Moves(c, "find", client[c].disp) /\ creation' = creation
           \/ Moves(c, "denied", 0) /\ Unlocks(c)
    BY <1>5, AuthenticatePost DEF RefsInv
  <2>2. QED
    BY <2>1 DEF Moves, Unlocks, ClientIs, OnlyV0After, OnlyV0, V0
<1>6. ASSUME NEW c \in Clients, ChainLock(c) PROVE \A u : OnlyV0After(u) => OnlyV0(u)
  <2>1. /\ ~lock
        /\ \/ client[c].pc = "find" /\ Moves(c, "found", client[c].disp)
           \/ client[c].pc = "update" /\ Moves(c, "updating", client[c].disp)
           \/ client[c].pc = "pick" /\ Moves(c, "picking", client[c].disp)
    BY <1>6, ChainLockPost DEF RefsInv
  <2>2. QED
    BY <2>1 DEF Moves, ClientIs, OnlyV0After, OnlyV0, V0
<1>7. ASSUME NEW c \in Clients, FindV0(c) PROVE \A u : OnlyV0After(u) => OnlyV0(u)
  <2>1. /\ client[c].pc = "found" /\ V0(c)
        /\ \/ Moves(c, "denied", 0) /\ Unlocks(c)
           \/ \E i \in SessionsOf(client[c].user) :
                Moves(c, "update", item[i].disp) /\ creation' = creation
           \/ /\ SessionsOf(client[c].user) = {} /\ creation' = creation
              /\ Moves(c, "start", client[c].disp)
    BY <1>7, FindV0Post DEF RefsInv
  <2>2. QED
    BY <2>1 DEF Moves, Unlocks, ClientIs, OnlyV0After, OnlyV0, V0
<1>7a. ASSUME NEW c \in Clients, Research(c) PROVE \A u : OnlyV0After(u) => OnlyV0(u)
  <2>1. /\ client[c].pc = "updating"
        /\ Moves(c, "testing", client[c].disp) \/ Moves(c, "allowed", client[c].disp)
    BY <1>7a, ResearchPost DEF RefsInv
  <2>2. QED
    BY <2>1 DEF Moves, Unlocks, ClientIs, OnlyV0After, OnlyV0, V0
<1>7b. ASSUME NEW c \in Clients, TestFinal(c) PROVE \A u : OnlyV0After(u) => OnlyV0(u)
  <2>1. /\ client[c].pc = "testing"
        /\ Moves(c, "reviving", client[c].disp) \/ Moves(c, "allowed", client[c].disp)
    BY <1>7b, TestFinalPost DEF RefsInv
  <2>2. QED
    BY <2>1 DEF Moves, Unlocks, ClientIs, OnlyV0After, OnlyV0, V0
<1>8. ASSUME NEW c \in Clients, Reactivate(c) PROVE \A u : OnlyV0After(u) => OnlyV0(u)
  <2>1. /\ client[c].pc = "reviving"
        /\ Moves(c, "allowed", client[c].disp) /\ Unlocks(c)
    BY <1>8, ReactivatePost DEF RefsInv
  <2>2. QED
    BY <2>1 DEF Moves, Unlocks, ClientIs, OnlyV0After, OnlyV0, V0
<1>9. ASSUME NEW c \in Clients, FindV1(c) PROVE \A u : OnlyV0After(u) => OnlyV0(u)
  <2>1. /\ client[c].pc = "found" /\ ~V0(c)
        /\ \/ Moves(c, "start", client[c].disp) \/ Moves(c, "denied", client[c].disp)
           \/ Moves(c, "pick", client[c].disp)
    BY <1>9, FindV1Post DEF RefsInv
  <2>2. QED
    BY <2>1 DEF Moves, ClientIs, OnlyV0After, OnlyV0, V0
<1>10. ASSUME NEW c \in Clients, PickV1(c) PROVE \A u : OnlyV0After(u) => OnlyV0(u)
  <2>1. /\ client[c].pc = "picking"
        /\ Moves(c, "allowed", item[client[c].i].disp) \/ Moves(c, "denied", 0)
    BY <1>10, PickV1Post DEF RefsInv
  <2>2. QED
    BY <2>1 DEF Moves, ClientIs, OnlyV0After, OnlyV0, V0
<1>11. ASSUME NEW c \in Clients, StartSession(c) PROVE \A u : OnlyV0After(u) => OnlyV0(u)
  <2>1. /\ client[c].pc = "start" /\ ~sync.held
        /\ Moves(c, "wait", client[c].disp)
    BY <1>11, StartSessionPost DEF RefsInv
  <2>2. QED
    BY <2>1 DEF Moves, ClientIs, OnlyV0After, OnlyV0, V0
<1>12. ASSUME NEW c \in Clients, GetResult(c) PROVE \A u : OnlyV0After(u) => OnlyV0(u)
  <2>1. /\ client[c].pc = "wait" /\ sync.sem > 0
        /\ Moves(c, "denied", 0) \/ Moves(c, "allowed", sync.result)
    BY <1>12, GetResultPost DEF RefsInv
  <2>2. QED
    BY <2>1 DEF Moves, ClientIs, OnlyV0After, OnlyV0, V0
<1>13. CASE UNCHANGED <<client>>
  BY <1>13 DEF OnlyV0After, OnlyV0, V0
<1>14. QED
  BY <1>1, <1>2, <1>3, <1>4, <1>5, <1>6, <1>7, <1>7a, <1>7b, <1>8, <1>9, <1>10, <1>11,
     <1>12, <1>13
  DEF Next, MainRuns, ClientRuns, WorkerRuns, MonitRuns, vars, chainVars, otherThreads,
     SyncEvent, SyncLock, StartRefused, ChooseDisplay, StartFails, Fork, XTimeout,
     XAnswers, Relock, LinkItem, CountItem, SyncDone, Request, FindSession,
     DestroySession, TestStatus, WriteStatus, ListAllocates, ListCopies, MonitLock,
     Inspect, FreeItem, UncountItem, MonitUnlock, KillAll, Shutdown, Exit, XChanges

\* As long as the chain lock was not broken, a user of version 0 whose session is
\* being started has none yet.
LEMMA UserNext ==
  TypeOK /\ RefsInv /\ SyncInv /\ NewInv /\ ChainInv /\ CreationInv /\ UserInv /\
  [Next]_vars => UserInv'
<1> SUFFICES ASSUME TypeOK, RefsInv, SyncInv, NewInv, ChainInv, CreationInv, UserInv,
           [Next]_vars
    PROVE  UserAfter
  BY DEF UserAfter, UserInv, OnlyV0After, OnlyV0, V0, SessionsOf
<1>0. \A u : OnlyV0After(u) => OnlyV0(u)
  BY OnlyV0Next
<1>1. ASSUME NEW c \in Clients, NEW u \in Users, NEW v \in Versions, Accept(c, u, v)
      PROVE  UserAfter
  <2>1. /\ main.pc = "loop" /\ client[c].pc = "out"
        /\ MainIs("hand", c, main.i, main.cnt)
        /\ ClientIs(c, "out", u, v, client[c].sck, client[c].disp)
        /\ UNCHANGED <<chain, item, intact, sync>>
    BY <1>1, AcceptPost DEF RefsInv
  <2>2. QED
    BY <2>1, <1>0 DEF ClientIs, MainIs, UserInv, UserAfter, SessionsOf
<1>2. ASSUME HandOver PROVE UserAfter
  <2>1. /\ main.pc = "hand" /\ main.conn \in Clients /\ socket.free
        /\ MainIs("loop", None, main.i, main.cnt)
        /\ \/ Moves(main.conn, "born", client[main.conn].disp)
           \/ Moves(main.conn, "stranded", client[main.conn].disp)
        /\ UNCHANGED <<chain, item, intact, sync>>
    BY <1>2, HandOverPost DEF RefsInv
  <2>2. QED
    BY <2>1, <1>0 DEF Moves, MainIs, ClientIs, UserInv, UserAfter, SessionsOf
<1>3. ASSUME SyncEvent PROVE UserAfter
  <2>1. /\ main.pc = "loop" /\ sync.event
        /\ MainIs("sync", main.conn, main.i, main.cnt)
        /\ SyncIs(sync.held, sync.user, FALSE, sync.sem, sync.result)
        /\ UNCHANGED <<chain, item, intact, client>>
    BY <1>3, SyncEventPost DEF RefsInv
  <2>2. QED
    BY <2>1, <1>0 DEF MainIs, SyncIs, UserInv, UserAfter, SessionsOf
<1>4. ASSUME SyncLock PROVE UserAfter
  <2>1. /\ main.pc = "sync" /\ ~lock
        /\ MainIs("check", main.conn, main.i, main.cnt)
        /\ UNCHANGED <<chain, item, intact, sync, client>>
    BY <1>4, SyncLockPost DEF RefsInv
  <2>2. QED
    BY <2>1, <1>0 DEF MainIs, UserInv, UserAfter, SessionsOf
<1>5. ASSUME StartRefused PROVE UserAfter
  <2>1. /\ main.pc = "check"
        /\ MainIs("refused", main.conn, main.i, main.cnt)
        /\ SyncIs(sync.held, sync.user, sync.event, sync.sem, 0)
        /\ UNCHANGED <<chain, item, intact, client>>
    BY <1>5, StartRefusedPost DEF RefsInv
  <2>2. QED
    BY <2>1, <1>0 DEF MainIs, SyncIs, UserInv, UserAfter, SessionsOf
<1>6. ASSUME NEW i \in Items, NEW d \in Displays, ChooseDisplay(i, d) PROVE UserAfter
  <2>1. /\ main.pc = "check" /\ main'.pc = "prepare"
        /\ \A j \in chain : item'[j].user = item[j].user
        /\ UNCHANGED <<chain, sync, client, intact>>
    BY <1>6, ChooseDisplayPost, Ranges DEF MainIs, ItemIs, RefsInv, MonitRefs
  <2>2. QED
    BY <2>1, <1>0 DEF UserInv, UserAfter, SessionsOf
<1>7. ASSUME NEW r \in {0, 1} \cup Displays, StartFails(r) PROVE UserAfter
  <2>1. /\ main.pc = "prepare"
        /\ MainIs("ended", main.conn, main.i, main.cnt)
        /\ r \in {0, 1, item[main.i].disp}
        /\ SyncIs(sync.held, sync.user, sync.event, sync.sem, r)
        /\ UNCHANGED <<chain, item, intact, client>>
    BY <1>7, StartFailsPost DEF RefsInv
  <2>2. QED
    BY <2>1, <1>0 DEF MainIs, SyncIs, UserInv, UserAfter, SessionsOf
<1>8. ASSUME Fork PROVE UserAfter
  <2>1. /\ main.pc = "prepare"
        /\ MainIs("waitx", main.conn, main.i, main.cnt)
        /\ UNCHANGED <<chain, item, intact, sync, client>>
    BY <1>8, ForkPost DEF RefsInv
  <2>2. QED
    BY <2>1, <1>0 DEF MainIs, UserInv, UserAfter, SessionsOf
<1>9. ASSUME XTimeout PROVE UserAfter
  <2>1. /\ main.pc = "waitx"
        /\ MainIs("ended", main.conn, main.i, main.cnt)
        /\ SyncIs(sync.held, sync.user, sync.event, sync.sem, 0)
        /\ UNCHANGED <<chain, item, intact, client>>
    BY <1>9, XTimeoutPost DEF RefsInv
  <2>2. QED
    BY <2>1, <1>0 DEF MainIs, SyncIs, UserInv, UserAfter, SessionsOf
<1>10. ASSUME XAnswers PROVE UserAfter
  <2>1. /\ main.pc = "waitx"
        /\ MainIs("relock", main.conn, main.i, main.cnt)
        /\ UNCHANGED <<chain, item, intact, sync, client>>
    BY <1>10, XAnswersPost DEF RefsInv
  <2>2. QED
    BY <2>1, <1>0 DEF MainIs, UserInv, UserAfter, SessionsOf
<1>11. ASSUME Relock PROVE UserAfter
  <2>1. /\ main.pc = "relock" /\ ~lock
        /\ MainIs("link", main.conn, main.i, main.cnt)
        /\ UNCHANGED <<chain, item, intact, sync, client>>
    BY <1>11, RelockPost DEF RefsInv
  <2>2. QED
    BY <2>1, <1>0 DEF MainIs, UserInv, UserAfter, SessionsOf
<1>12. ASSUME LinkItem PROVE UserAfter
  <2>1. /\ main.pc = "link" /\ main.i \in Items /\ main'.pc = "count"
        /\ chain' = chain \cup {main.i} /\ item[main.i].user = sync.user
        /\ \A j \in Items : item'[j].user = item[j].user
        /\ UNCHANGED <<sync, client, intact>>
    BY <1>12, LinkItemPost DEF RefsInv, MainIs, ItemIs, NewInv, Starting
  <2>2. PICK c \in Clients : client[c].pc = "wait" /\ client[c].user = sync.user /\ sync.sem = 0
    BY <2>1 DEF SyncInv, MainBusy
  <2>3. /\ \A e \in Clients : client[e].pc = "wait" => e = c
        /\ \A e \in Clients : OnlyV0(sync.user) /\ client[e].user = sync.user
                              => client[e].pc # "start"
    BY <2>2 DEF SyncInv, CreationInv, OnlyV0, Held
  <2>4. intact /\ OnlyV0(sync.user) => \A i \in chain : item[i].user # sync.user
    BY <2>1, <2>2 DEF UserInv, SessionsOf
  <2>5. QED
    BY <2>1, <2>2, <2>3, <2>4, <1>0, Ranges DEF UserInv, UserAfter, SessionsOf
<1>13. ASSUME CountItem PROVE UserAfter
  <2>1. /\ main.pc = "count"
        /\ MainIs("ended", main.conn, main.i, 0)
        /\ SyncIs(sync.held, sync.user, sync.event, sync.sem, item[main.i].disp)
        /\ UNCHANGED <<chain, item, intact, client>>
    BY <1>13, CountItemPost DEF RefsInv
  <2>2. QED
    BY <2>1, <1>0 DEF MainIs, SyncIs, UserInv, UserAfter, SessionsOf
<1>14. ASSUME SyncDone PROVE UserAfter
  <2>1. sync.sem = 0
    BY <1>14, SyncDonePost DEF SyncInv, MainBusy
  <2>2. sync'.sem = 1 /\ UNCHANGED <<chain, item, client>>
    BY <1>14, <2>1, SyncDonePost DEF SyncIs
  <2>3. intact' => intact
    BY <1>14, SyncDonePost
  <2>4. QED
    BY <1>14, <2>2, <2>3, <1>0, SyncDonePost DEF MainIs, UserInv, UserAfter, SessionsOf
<1>15. ASSUME NEW c \in Clients, CopySocket(c) PROVE UserAfter
  <2>1. /\ client[c].pc = "born"
        /\ ClientIs(c, IF V0(c) THEN "creation" ELSE "auth", client[c].user,
                    client[c].version, socket.sck, client[c].disp)
        /\ UNCHANGED <<chain, item, intact, sync, main>>
    BY <1>15, CopySocketPost DEF RefsInv
  <2>2. QED
    BY <2>1, <1>0 DEF ClientIs, UserInv, UserAfter, SessionsOf
<1>16. ASSUME NEW c \in Clients, CreationLock(c) PROVE UserAfter
  <2>1. /\ client[c].pc = "creation" /\ ~creation
        /\ Moves(c, "auth", client[c].disp)
        /\ UNCHANGED <<chain, item, intact, sync, main>>
    BY <1>16, CreationLockPost DEF RefsInv
  <2>2. QED
    BY <2>1, <1>0 DEF Moves, ClientIs, UserInv, UserAfter, SessionsOf
<1>17. ASSUME NEW c \in Clients, Authenticate(c) PROVE UserAfter
  <2>1. /\ client[c].pc = "auth"
        /\ \/ Moves(c, "find", client[c].disp) /\ creation' = creation
           \/ Moves(c, "denied", 0) /\ Unlocks(c)
        /\ UNCHANGED <<chain, item, intact, sync, main>>
    BY <1>17, AuthenticatePost DEF RefsInv
  <2>2. CASE Moves(c, "find", client[c].disp)
    BY <2>1, <2>2, <1>0 DEF Moves, ClientIs, UserInv, UserAfter, SessionsOf
  <2>3. CASE Moves(c, "denied", 0)
    BY <2>1, <2>3, <1>0 DEF Moves, ClientIs, UserInv, UserAfter, SessionsOf
  <2>4. QED
    BY <2>1, <2>2, <2>3
<1>18. ASSUME NEW c \in Clients, ChainLock(c) PROVE UserAfter
  <2>1. /\ ~lock
        /\ \/ client[c].pc = "find" /\ Moves(c, "found", client[c].disp)
           \/ client[c].pc = "update" /\ Moves(c, "updating", client[c].disp)
           \/ client[c].pc = "pick" /\ Moves(c, "picking", client[c].disp)
        /\ UNCHANGED <<chain, item, intact, sync, main>>
    BY <1>18, ChainLockPost DEF RefsInv
  <2>2. QED
    BY <2>1, <1>0 DEF Moves, ClientIs, UserInv, UserAfter, SessionsOf
<1>19. ASSUME NEW c \in Clients, FindV0(c) PROVE UserAfter
  <2>1. /\ client[c].pc = "found"
        /\ \/ \E p \in {"denied", "update"} : \E d : Moves(c, p, d)
           \/ SessionsOf(client[c].user) = {} /\ Moves(c, "start", client[c].disp)
        /\ UNCHANGED <<chain, item, intact, sync, main>>
    BY <1>19, FindV0Post
  <2>2. CASE \E p \in {"denied", "update"} : \E d : Moves(c, p, d)
    BY <2>1, <2>2, <1>0 DEF Moves, ClientIs, UserInv, UserAfter, SessionsOf
  <2>3. CASE SessionsOf(client[c].user) = {} /\ Moves(c, "start", client[c].disp)
    BY <2>1, <2>3, <1>0 DEF Moves, ClientIs, UserInv, UserAfter, SessionsOf
  <2>4. QED
    BY <2>1, <2>2, <2>3
<1>19a. ASSUME NEW c \in Clients, Research(c) PROVE UserAfter
  <2>1. /\ Moves(c, "testing", client[c].disp) \/ Moves(c, "allowed", client[c].disp)
        /\ UNCHANGED <<chain, item, sync, main, intact>>
    BY <1>19a, ResearchPost
  <2>2. QED
    BY <2>1, <1>0 DEF Moves, ClientIs, UserInv, UserAfter, SessionsOf
<1>19b. ASSUME NEW c \in Clients, TestFinal(c) PROVE UserAfter
  <2>1. /\ Moves(c, "reviving", client[c].disp) \/ Moves(c, "allowed", client[c].disp)
        /\ UNCHANGED <<chain, item, sync, main, intact>>
    BY <1>19b, TestFinalPost
  <2>2. QED
    BY <2>1, <1>0 DEF Moves, ClientIs, UserInv, UserAfter, SessionsOf
<1>20. ASSUME NEW c \in Clients, Reactivate(c) PROVE UserAfter
  <2>1. /\ \A j \in Items : item'[j].user = item[j].user
        /\ Moves(c, "allowed", client[c].disp)
        /\ UNCHANGED <<chain, sync, main, intact>>
    BY <1>20, ReactivatePost, Ranges DEF ItemIs, RefsInv
  <2>2. QED
    BY <2>1, <1>0, Ranges DEF Moves, ClientIs, UserInv, UserAfter, SessionsOf
<1>21. ASSUME NEW c \in Clients, FindV1(c) PROVE UserAfter
  <2>1. /\ client[c].pc = "found" /\ ~V0(c)
        /\ \/ Moves(c, "start", client[c].disp) \/ Moves(c, "denied", client[c].disp)
           \/ Moves(c, "pick", client[c].disp)
        /\ UNCHANGED <<chain, item, intact, sync, main>>
    BY <1>21, FindV1Post DEF RefsInv
  <2>2. QED
    BY <2>1, <1>0 DEF Moves, ClientIs, OnlyV0, V0, UserInv, UserAfter, SessionsOf
<1>22. ASSUME NEW c \in Clients, PickV1(c) PROVE UserAfter
  <2>1. /\ client[c].pc = "picking"
        /\ Moves(c, "allowed", item[client[c].i].disp) \/ Moves(c, "denied", 0)
        /\ UNCHANGED <<chain, item, intact, sync, main>>
    BY <1>22, PickV1Post DEF RefsInv
  <2>2. QED
    BY <2>1, <1>0 DEF Moves, ClientIs, UserInv, UserAfter, SessionsOf
<1>23. ASSUME NEW c \in Clients, StartSession(c) PROVE UserAfter
  <2>1. /\ client[c].pc = "start" /\ ~sync.held
        /\ Moves(c, "wait", client[c].disp)
        /\ SyncIs(TRUE, client[c].user, TRUE, sync.sem, sync.result)
        /\ UNCHANGED <<chain, item, intact, main>>
    BY <1>23, StartSessionPost DEF RefsInv
  <2>2. QED
    BY <2>1, <1>0 DEF Moves, SyncIs, ClientIs, UserInv, UserAfter, SessionsOf
<1>24. ASSUME NEW c \in Clients, GetResult(c) PROVE UserAfter
  <2>1. /\ client[c].pc = "wait" /\ sync.sem > 0
        /\ Moves(c, "denied", 0) \/ Moves(c, "allowed", sync.result)
        /\ SyncIs(FALSE, sync.user, sync.event, sync.sem - 1, sync.result)
        /\ UNCHANGED <<chain, item, intact, main>>
    BY <1>24, GetResultPost DEF RefsInv
  <2>2. QED
    BY <2>1, <1>0 DEF Moves, SyncIs, ClientIs, SyncInv, UserInv, UserAfter, SessionsOf
<1>25. ASSUME NEW w \in Workers, WriteStatus(w) PROVE UserAfter
  <2>1. \A j \in Items : item'[j].user = item[j].user /\ item'[j].disp = item[j].disp
    BY <1>25, WriteStatusPost, Ranges DEF ItemIs, RefsInv
  <2>2. UNCHANGED <<chain, client, sync, main, intact>>
    BY <1>25, WriteStatusPost DEF RefsInv
  <2>3. QED
    BY <2>1, <2>2, Ranges, <1>0 DEF UserInv, UserAfter, SessionsOf
<1>26. ASSUME FreeItem PROVE UserAfter
  <2>1. /\ \A j \in Items : item'[j].user = item[j].user
        /\ intact => chain' \subseteq chain
        /\ UNCHANGED <<sync, main, client, intact>>
    BY <1>26, FreeItemPost DEF RefsInv, ItemIs, ChainInv, MonitInside
  <2>2. QED
    BY <2>1, <1>0, Ranges DEF UserInv, UserAfter, SessionsOf
<1>27. CASE UNCHANGED <<chain, item, intact, sync, main, client>>
  BY <1>27, <1>0 DEF UserInv, UserAfter, SessionsOf
<1>28. QED
  BY <1>1, <1>2, <1>3, <1>4, <1>5, <1>6, <1>7, <1>8, <1>9, <1>10, <1>11, <1>12, <1>13,
     <1>14, <1>15, <1>16, <1>17, <1>18, <1>19, <1>19a, <1>19b, <1>20, <1>21, <1>22,
     <1>23, <1>24, <1>25, <1>26, <1>27
  DEF Next, MainRuns, ClientRuns, WorkerRuns, MonitRuns, vars, chainVars, otherThreads,
     Request, FindSession, DestroySession, TestStatus, ListAllocates, ListCopies,
     MonitLock, Inspect, UncountItem, MonitUnlock, KillAll, Shutdown, Exit, XChanges
-----------------------------------------------------------------------------
\* The status that a thread has tested is not changed before that thread writes.
LEMMA FinalNext == TypeOK /\ RefsInv /\ LockInv /\ FinalInv /\ [Next]_vars => FinalInv'
<1> SUFFICES ASSUME TypeOK, RefsInv, LockInv, FinalInv, [Next]_vars PROVE FinalInv'
  OBVIOUS
<1> DEFINE Elsewhere(c) == /\ \A e \in Clients \ {c} : client'[e] = client[e]
                           /\ client'[c].pc # "reviving"
                           /\ UNCHANGED <<item, worker, intact>>
           Outside(w) == /\ \A v \in Workers \ {w} : worker'[v] = worker[v]
                         /\ worker'[w].pc # "writing"
                         /\ UNCHANGED <<item, client, intact>>
<1>1. ASSUME NEW c \in Clients, Elsewhere(c) PROVE FinalInv'
  BY <1>1 DEF FinalInv
<1>2. ASSUME NEW w \in Workers, Outside(w) PROVE FinalInv'
  BY <1>2 DEF FinalInv
<1>3. ASSUME NEW c \in Clients, NEW u \in Users, NEW v \in Versions, Accept(c, u, v)
      PROVE  FinalInv'
  BY <1>1, <1>3, AcceptPost DEF ClientIs
<1>4. ASSUME HandOver PROVE FinalInv'
  BY <1>1, <1>4, HandOverPost DEF Moves, ClientIs, RefsInv
<1>5. ASSUME NEW c \in Clients, CopySocket(c) PROVE FinalInv'
  BY <1>1, <1>5, CopySocketPost DEF ClientIs
<1>6. ASSUME NEW c \in Clients, CreationLock(c) PROVE FinalInv'
  BY <1>1, <1>6, CreationLockPost DEF Moves, ClientIs
<1>7. ASSUME NEW c \in Clients, Authenticate(c) PROVE FinalInv'
  BY <1>1, <1>7, AuthenticatePost DEF Moves, ClientIs
<1>8. ASSUME NEW c \in Clients, ChainLock(c) PROVE FinalInv'
  BY <1>1, <1>8, ChainLockPost DEF Moves, ClientIs
<1>9. ASSUME NEW c \in Clients, FindV0(c) PROVE FinalInv'
  <2>1. /\ \E p \in {"denied", "update", "start"} : \E d : Moves(c, p, d)
        /\ UNCHANGED <<item, worker, intact>>
    BY <1>9, FindV0Post
  <2>2. QED
    BY <1>1, <2>1 DEF Moves, ClientIs
<1>10. ASSUME NEW c \in Clients, Research(c) PROVE FinalInv'
  BY <1>1, <1>10, ResearchPost DEF Moves, ClientIs
<1>11. ASSUME NEW c \in Clients, TestFinal(c) PROVE FinalInv'
  <2>1. /\ \A e \in Clients \ {c} : client'[e] = client[e]
        /\ UNCHANGED <<item, worker, intact>>
    BY <1>11, TestFinalPost DEF Moves, ClientIs
  <2>2. client'[c].pc = "reviving" => item[client'[c].i].status # "destroy"
    BY <1>11, TestFinalPost DEF Moves, ClientIs
  <2>3. QED
    BY <2>1, <2>2 DEF FinalInv
<1>12. ASSUME NEW c \in Clients, Reactivate(c) PROVE FinalInv'
  <2>1. /\ client[c].pc = "reviving" /\ client'[c].pc = "allowed"
        /\ \A e \in Clients \ {c} : client'[e] = client[e]
        /\ UNCHANGED <<worker, intact>>
    BY <1>12, ReactivatePost DEF Moves, ClientIs, RefsInv
  <2>2. intact => /\ \A e \in Clients \ {c} : client[e].pc # "reviving"
                  /\ \A w \in Workers : worker[w].pc # "writing"
    BY <2>1 DEF LockInv, OneThreadInChain, ClientInside, WorkerInside
  <2>3. QED
    BY <2>1, <2>2 DEF FinalInv
<1>13. ASSUME NEW c \in Clients, FindV1(c) PROVE FinalInv'
  BY <1>1, <1>13, FindV1Post DEF Moves, ClientIs
<1>14. ASSUME NEW c \in Clients, PickV1(c) PROVE FinalInv'
  BY <1>1, <1>14, PickV1Post DEF Moves, ClientIs, RefsInv
<1>15. ASSUME NEW c \in Clients, StartSession(c) PROVE FinalInv'
  BY <1>1, <1>15, StartSessionPost DEF Moves, ClientIs
<1>16. ASSUME NEW c \in Clients, GetResult(c) PROVE FinalInv'
  BY <1>1, <1>16, GetResultPost DEF Moves, ClientIs
<1>17. ASSUME NEW w \in Workers, NEW act \in Orders, NEW u \in Users, Request(w, act, u)
       PROVE  FinalInv'
  BY <1>2, <1>17, RequestPost DEF WorkerIs
<1>18. ASSUME NEW w \in Workers, FindSession(w) PROVE FinalInv'
  BY <1>2, <1>18, FindSessionPost DEF WorkerIs
<1>19. ASSUME NEW w \in Workers, DestroySession(w) PROVE FinalInv'
  BY <1>2, <1>19, DestroySessionPost DEF WorkerIs
<1>20. ASSUME NEW w \in Workers, TestStatus(w) PROVE FinalInv'
  <2>1. /\ \A v \in Workers \ {w} : worker'[v] = worker[v]
        /\ UNCHANGED <<item, client, intact>>
    BY <1>20, TestStatusPost DEF WorkerIs
  <2>2. worker'[w].pc = "writing" => item[worker'[w].i].status # "destroy"
    BY <1>20, TestStatusPost DEF WorkerIs
  <2>3. QED
    BY <2>1, <2>2 DEF FinalInv
<1>21. ASSUME NEW w \in Workers, WriteStatus(w) PROVE FinalInv'
  <2>1. /\ worker[w].pc = "writing" /\ worker'[w].pc = "idle"
        /\ \A v \in Workers \ {w} : worker'[v] = worker[v]
        /\ UNCHANGED <<client, intact>>
    BY <1>21, WriteStatusPost DEF WorkerIs, RefsInv
  <2>2. intact => /\ \A v \in Workers \ {w} : worker[v].pc # "writing"
                  /\ \A c \in Clients : client[c].pc # "reviving"
    BY <2>1 DEF LockInv, OneThreadInChain, ClientInside, WorkerInside
  <2>3. QED
    BY <2>1, <2>2 DEF FinalInv
<1>22. ASSUME NEW w \in Workers, ListAllocates(w) PROVE FinalInv'
  BY <1>2, <1>22, ListAllocatesPost DEF WorkerIs
<1>23. ASSUME NEW w \in Workers, ListCopies(w) PROVE FinalInv'
  BY <1>2, <1>23, ListCopiesPost DEF WorkerIs
<1>24. ASSUME NEW i \in Items, NEW d \in Displays, ChooseDisplay(i, d) PROVE FinalInv'
  <2>1. \A j \in Items : item'[j].status = item[j].status \/ item'[j].status = "active"
    BY <1>24 DEF ChooseDisplay, TypeOK, Item
  <2>2. UNCHANGED <<client, worker, intact>>
    BY <1>24, ChooseDisplayPost
  <2>3. QED
    BY <2>1, <2>2 DEF FinalInv, RefsInv, ClientRefs, WorkerRefs
<1>25. ASSUME LinkItem PROVE FinalInv'
  <2>1. \A j \in Items : item'[j].status = item[j].status
    BY <1>25, LinkItemPost DEF LinkItem, TypeOK, Item, RefsInv
  <2>2. UNCHANGED <<client, worker, intact>>
    BY <1>25 DEF LinkItem
  <2>3. QED
    BY <2>1, <2>2 DEF FinalInv, RefsInv, ClientRefs, WorkerRefs
<1>26. ASSUME FreeItem PROVE FinalInv'
  <2>1. \A j \in Items : item'[j].status = item[j].status
    BY <1>26 DEF FreeItem, TypeOK, Item
  <2>2. UNCHANGED <<client, worker, intact>>
    BY <1>26 DEF FreeItem
  <2>3. QED
    BY <2>1, <2>2 DEF FinalInv, RefsInv, ClientRefs, WorkerRefs
<1>27. ASSUME SyncDone PROVE FinalInv'
  BY <1>27, SyncDonePost DEF FinalInv
<1>28. CASE UNCHANGED <<item, client, worker, intact>>
  BY <1>28 DEF FinalInv
<1>29. QED
  BY <1>3, <1>4, <1>5, <1>6, <1>7, <1>8, <1>9, <1>10, <1>11, <1>12, <1>13, <1>14, <1>15,
     <1>16, <1>17, <1>18, <1>19, <1>20, <1>21, <1>22, <1>23, <1>24, <1>25, <1>26,
     <1>27, <1>28
  DEF Next, MainRuns, ClientRuns, WorkerRuns, MonitRuns, vars, chainVars, otherThreads,
     SyncEvent, SyncLock, StartRefused, StartFails, Fork, XTimeout, XAnswers, Relock,
     CountItem, MonitLock, Inspect, UncountItem, MonitUnlock, KillAll, Shutdown, Exit,
     XChanges
-----------------------------------------------------------------------------
\* The initial states satisfy the inductive invariant.
LEMMA InitInv == Init => IInv
<1> SUFFICES ASSUME Init PROVE IInv
  OBVIOUS
<1>1. TypeOK
  <2>1. 0 \in Int /\ 0 \in Nat
    OBVIOUS
  <2>2. main \in Main /\ monit \in Monit /\ sync \in Sync /\ socket \in Socket
    BY <2>1 DEF Init, Main, Monit, Sync, Socket
  <2>3. item \in [Items -> Item] /\ client \in [Clients -> Client]
    BY DEF Init, Item, Client
  <2>4. worker \in [Workers -> Worker]
    BY <2>1 DEF Init, Worker
  <2>5. xs \in [Displays -> XServer]
    BY DEF Init, XServer, NoX
  <2>6. QED
    BY <2>1, <2>2, <2>3, <2>4, <2>5 DEF Init, TypeOK
<1>2. RefsInv
  BY DEF Init, RefsInv, MainRefs, ClientRefs, WorkerRefs, MonitRefs, OutRefs, Starting, V0
<1>3. SyncInv /\ NewInv /\ OwnInv /\ SocketInv
  BY DEF Init, SyncInv, NewInv, OwnInv, ClientOwns, SyncOwns, SocketInv, MainBusy, Starting
<1>4. LockInv
  BY DEF Init, LockInv, OneThreadInChain, MainInside, OthersInside, MonitInside,
         ClientInside, WorkerInside
<1>5. ChainInv
  BY DEF Init, ChainInv, MonitInside, Linked
<1>6. CountInv
  BY SesmanAssumption, FS_EmptySet DEF Init, CountInv, Starting
<1>7. DisplayInv /\ CreationInv /\ UserInv /\ FinalInv
  BY DEF Init, DisplayInv, CreationInv, UserInv, FinalInv, Starting, Held
<1>8. QED
  BY <1>1, <1>2, <1>3, <1>4, <1>5, <1>6, <1>7 DEF IInv

\* Every step preserves the inductive invariant.
LEMMA NextInv == IInv /\ [Next]_vars => IInv'
<1> SUFFICES ASSUME IInv, [Next]_vars PROVE IInv'
  OBVIOUS
<1>1. TypeOK' /\ RefsInv'
  BY TypeNext, MainRefsNext, ClientRefsNext, WorkerRefsNext, MonitRefsNext, OutRefsNext
  DEF IInv, RefsInv
<1>2. SyncInv' /\ NewInv' /\ OwnInv' /\ SocketInv'
  BY SyncNext, NewNext, OwnNext, SocketNext DEF IInv
<1>3. LockInv' /\ ChainInv' /\ CountInv' /\ DisplayInv'
  BY LockNext, ChainNext, CountNext, DisplayNext DEF IInv
<1>4. CreationInv' /\ UserInv' /\ FinalInv'
  BY CreationNext, UserNext, FinalNext DEF IInv
<1>5. QED
  BY <1>1, <1>2, <1>3, <1>4 DEF IInv

\* The inductive invariant holds in every state of the specification.
LEMMA SesmanInv == Spec => []IInv
BY InitInv, NextInv, PTL DEF Spec

\* The fields of every record, of every thread and of every item keep their types.
THEOREM SesmanTypes == Spec => []TypeOK
<1>1. IInv => TypeOK
  BY DEF IInv
<1>2. QED
  BY <1>1, SesmanInv, PTL

\* No mixture of two starts in g_sync_* or of two connections in g_thread_sck:
\* a client is only sent to a display chosen for a session of its own user, to 1 if
\* that user may have no home directory, or to 0 in version 1 if the start failed.
THEOREM SesmanOwnDisplay == Spec => []OwnDisplay
<1>1. IInv => OwnDisplay
  BY DEF IInv, SocketInv, OwnInv, ClientOwns, OwnDisplay, RightFor, ChosenFor, V0
<1>2. QED
  BY <1>1, SesmanInv, PTL

\* session_creation_lock keeps a user whose clients speak version 0 to one
\* session, as long as the lock of the chain is not broken.
THEOREM SesmanOneSession == Spec => []OneSessionPerUser
<1>1. IInv => OneSessionPerUser
  BY DEF IInv, ChainInv, UserInv, OneSessionPerUser
<1>2. QED
  BY <1>1, SesmanInv, PTL

\* The display chosen in session_start_fork is still free when the session is
\* added, as long as the lock of the chain is not broken.
THEOREM SesmanDisplays == Spec => []DisplaysDiffer
<1>1. IInv => DisplaysDiffer
  BY DEF IInv, ChainInv, DisplayInv, DisplaysDiffer
<1>2. QED
  BY <1>1, SesmanInv, PTL

\* The test of the limit in session_start_fork still holds when the session is
\* added, as long as the lock of the chain is not broken.
THEOREM SesmanLimit == Spec => []LimitHolds
<1>1. IInv => LimitHolds
  BY DEF IInv, ChainInv, CountInv, LimitHolds
<1>2. QED
  BY <1>1, SesmanInv, PTL

\* session_list_session copies no more sessions than it allocated for, as long
\* as the lock of the chain is not broken.
THEOREM SesmanList == Spec => []ListFits
<1>1. IInv => ListFits
  <2>1. SUFFICES ASSUME IInv, intact, NEW w \in Workers, worker[w].pc = "copying"
                 PROVE  Cardinality(chain) <= worker[w].cnt
    BY DEF ListFits
  <2>2. worker[w].cnt = Cardinality(chain) /\ Cardinality(chain) \in Nat
    BY <2>1, ChainCard DEF IInv, CountInv
  <2>3. QED
    BY <2>2
<1>2. QED
  BY <1>1, SesmanInv, PTL

\* As long as the lock of the chain is not broken, no thread revives a session that
\* was ordered to be destroyed: no order comes between the test of
\* session_update_status_by_user and its write.
THEOREM SesmanDestroyIsFinal == Spec => DestroyIsFinal
<1> DEFINE Kept == intact => \A i \in Items : item[i].st = "linked" /\ item[i].status = "destroy"
                                              => item'[i].status = "destroy"
<1>1. ASSUME IInv, [Next]_vars PROVE Kept
  <2> USE <1>1 DEF IInv
  <2>1. ASSUME NEW i \in Items, NEW d \in Displays, ChooseDisplay(i, d) PROVE Kept
    BY <2>1, ChooseDisplayPost DEF ItemIs
  <2>2. ASSUME LinkItem PROVE Kept
    BY <2>2, LinkItemPost DEF LinkItem, TypeOK, Item
  <2>3. ASSUME NEW c \in Clients, Reactivate(c) PROVE Kept
    <3>1. client[c].pc = "reviving" /\ client[c].i \in Items
      BY <2>3, ReactivatePost DEF RefsInv
    <3>2. \A i \in Items \ {client[c].i} : item'[i] = item[i]
      BY <2>3 DEF Reactivate, TypeOK
    <3>3. QED
      BY <3>1, <3>2 DEF FinalInv
  <2>4. ASSUME NEW w \in Workers, WriteStatus(w) PROVE Kept
    <3>1. worker[w].pc = "writing" /\ worker[w].i \in Items
      BY <2>4, WriteStatusPost DEF RefsInv
    <3>2. \A i \in Items \ {worker[w].i} : item'[i] = item[i]
      BY <2>4 DEF WriteStatus, TypeOK
    <3>3. QED
      BY <3>1, <3>2 DEF FinalInv
  <2>5. ASSUME FreeItem PROVE Kept
    BY <2>5 DEF FreeItem, TypeOK, Item
  <2>6. CASE item' = item
    BY <2>6
  <2>7. QED
    BY <2>1, <2>2, <2>3, <2>4, <2>5, <2>6
    DEF Next, MainRuns, ClientRuns, WorkerRuns, MonitRuns, vars, chainVars, otherThreads,
        Accept, HandOver, SyncEvent, SyncLock, StartRefused, StartFails, Fork, XTimeout,
        XAnswers, Relock, CountItem, SyncDone, CopySocket, CreationLock, Authenticate,
        ChainLock, FindV0, Research, TestFinal, FindV1, PickV1, StartSession, GetResult,
        Request, FindSession, DestroySession, TestStatus, ListAllocates, ListCopies,
        MonitLock, Inspect, UncountItem, MonitUnlock, KillAll, Shutdown, Exit, XChanges
<1>2. QED
  BY <1>1, SesmanInv, PTL DEF Spec, DestroyIsFinal
=============================================================================
