-------------------------- MODULE Sesman_proofs --------------------------
(***************************************************************************)
(* What every step of Sesman does to the fields of the records it changes, *)
(* the types, and the variables in which the threads hand requests over to *)
(* each other: g_sync_* and g_thread_sck.  The lock of the chain is the    *)
(* matter of SesmanChain_proofs, where the theorems are.                   *)
(***************************************************************************)
EXTENDS Sesman, TLAPS

\* The main thread works on a start; it has chosen an item, not in the chain yet.
MainBusy == main.pc \in {"sync", "check", "refused", "prepare", "waitx", "relock",
                         "link", "count", "ended"}
Starting == main.pc \in {"prepare", "waitx", "relock", "link"}

\* What the program counters say of the other fields of a thread.
MainRefs ==
  /\ main.pc = "hand" => main.conn \in Clients
  /\ Starting \/ main.pc = "count" => main.i \in Items
ClientRefs ==
  \A c \in Clients : client[c].pc \in {"testing", "reviving", "pick", "picking"}
                       => client[c].i \in Items
WorkerRefs ==
  \A w \in Workers : worker[w].pc \in {"destroying", "testing", "writing"}
                       => worker[w].i \in Items
MonitRefs ==
  /\ monit.pc = "destroy" => monit.tmp \in monit.todo
  /\ \A i \in monit.todo \cup chain : item[i].st = "linked"
OutRefs ==
  /\ main.pc = "hand" => main.conn \in Clients /\ client[main.conn].pc = "out"
  /\ \A c \in Clients : client[c].pc = "out" =>
       client[c].disp = 0 /\ (V0(c) \/ (main.pc = "hand" /\ c = main.conn))
RefsInv == MainRefs /\ ClientRefs /\ WorkerRefs /\ MonitRefs /\ OutRefs

\* One thread at a time has the variables g_sync_*, from session_start to its
\* answer, and the main thread works for that one.
SyncInv ==
  /\ \A c \in Clients : client[c].pc = "wait" => sync.held /\ sync.user = client[c].user
  /\ \A c, e \in Clients : client[c].pc = "wait" /\ client[e].pc = "wait" => c = e
  /\ sync.event \/ MainBusy \/ sync.sem # 0 => \E c \in Clients : client[c].pc = "wait"
  /\ ~(sync.event /\ MainBusy)
  /\ sync.sem # 0 => ~sync.event /\ ~MainBusy /\ sync.sem = 1

NewInv ==
  /\ Starting \/ main.pc = "count" =>
       item[main.i].user = sync.user /\ item[main.i].disp \in Displays
  /\ Starting => item[main.i].st = "new"
  /\ main.pc = "count" => item[main.i].st # "unused"

\* A display in the hands of a thread was chosen for its user, or is the 1 that a
\* user without home directory is answered.  Version 0 is allowed no display 0.
ChosenFor(d, u) == \E i \in Items : item[i].st # "unused" /\ item[i].user = u /\ item[i].disp = d
RightFor(d, u) == ChosenFor(d, u) \/ (d = 1 /\ u \in Homeless)
ClientOwns(c) ==
  /\ client[c].disp # 0 => RightFor(client[c].disp, client[c].user)
  /\ client[c].pc \in {"update", "updating", "testing", "reviving"} => client[c].disp # 0
  /\ client[c].pc = "allowed" /\ V0(c) => client[c].disp # 0
  /\ client[c].pc \in {"pick", "picking"} => /\ item[client[c].i].st # "unused"
                                            /\ item[client[c].i].user = client[c].user
SyncOwns ==
  (sync.sem # 0 \/ main.pc \in {"refused", "ended"}) /\ sync.result # 0
    => RightFor(sync.result, sync.user)
OwnInv == /\ \A i \in Items : item[i].st # "unused" => item[i].disp # 0
          /\ \A c \in Clients : ClientOwns(c)
          /\ SyncOwns
SocketInv ==
  /\ \A c \in Clients : client[c].sck \in {None, c}
  /\ \A c \in Clients : client[c].pc = "born" => ~socket.free /\ socket.sck = c
-----------------------------------------------------------------------------
(* What a step leaves in the record of one thread.                         *)

ClientPc == {"out", "stranded", "born", "creation", "auth", "find", "found", "update",
             "updating", "testing", "reviving", "start", "wait", "pick", "picking",
             "denied", "allowed"}

ClientIs(c, p, u, v, s, d) ==
  /\ client' \in [Clients -> Client]
  /\ \A e \in Clients \ {c} : client'[e] = client[e]
  /\ client'[c].pc = p /\ client'[c].user = u /\ client'[c].version = v
  /\ client'[c].sck = s /\ client'[c].disp = d

\* One client's record is replaced, or some of its fields are.
LEMMA ClientSet ==
  ASSUME client \in [Clients -> Client], NEW c \in Clients, NEW r \in Client,
         client' = [client EXCEPT ![c] = r]
  PROVE  ClientIs(c, r.pc, r.user, r.version, r.sck, r.disp)
BY DEF ClientIs

LEMMA ClientGoesIs ==
  ASSUME client \in [Clients -> Client], NEW c \in Clients, NEW p \in ClientPc, ClientGoes(c, p)
  PROVE  /\ ClientIs(c, p, client[c].user, client[c].version, client[c].sck, client[c].disp)
         /\ client'[c].i = client[c].i
BY DEF ClientIs, Client, ClientPc, ClientGoes

LEMMA ClientPicksIs ==
  ASSUME client \in [Clients -> Client], NEW c \in Clients, NEW p \in ClientPc,
         NEW d \in Displays \cup {0, 1},
         client' = [client EXCEPT ![c].pc = p, ![c].disp = d]
  PROVE  ClientIs(c, p, client[c].user, client[c].version, client[c].sck, d)
<1> DEFINE r == [client[c] EXCEPT !.pc = p, !.disp = d]
<1>1. client[c] \in Client
  OBVIOUS
<1>2. client' = [client EXCEPT ![c] = r]
  OBVIOUS
<1>3. r \in Client
  BY <1>1 DEF Client, ClientPc
<1>4. r.pc = p /\ r.disp = d
  BY <1>1 DEF Client
<1>5. r.user = client[c].user /\ r.version = client[c].version /\ r.sck = client[c].sck
  BY <1>1 DEF Client
<1> HIDE DEF r
<1>6. QED
  BY <1>2, <1>3, <1>4, <1>5, ClientSet

LEMMA ClientAnswersIs ==
  ASSUME client \in [Clients -> Client], NEW c \in Clients, NEW p \in ClientPc,
         NEW d \in Displays \cup {0, 1},
         client' = [client EXCEPT ![c].pc = p, ![c].disp = d, ![c].i = None]
  PROVE  ClientIs(c, p, client[c].user, client[c].version, client[c].sck, d)
<1> DEFINE r == [client[c] EXCEPT !.pc = p, !.disp = d, !.i = None]
<1>1. client[c] \in Client
  OBVIOUS
<1>2. client' = [client EXCEPT ![c] = r]
  OBVIOUS
<1>3. r \in Client
  BY <1>1 DEF Client, ClientPc
<1>4. r.pc = p /\ r.disp = d
  BY <1>1 DEF Client
<1>5. r.user = client[c].user /\ r.version = client[c].version /\ r.sck = client[c].sck
  BY <1>1 DEF Client
<1> HIDE DEF r
<1>6. QED
  BY <1>2, <1>3, <1>4, <1>5, ClientSet

LEMMA ClientChoosesIs ==
  ASSUME client \in [Clients -> Client], NEW c \in Clients, NEW p \in ClientPc, NEW i \in Items,
         client' = [client EXCEPT ![c].pc = p, ![c].i = i]
  PROVE  /\ ClientIs(c, p, client[c].user, client[c].version, client[c].sck, client[c].disp)
         /\ client'[c].i = i
<1> DEFINE r == [client[c] EXCEPT !.pc = p, !.i = i]
<1>1. client[c] \in Client
  OBVIOUS
<1>2. client' = [client EXCEPT ![c] = r]
  OBVIOUS
<1>3. r \in Client
  BY <1>1 DEF Client, ClientPc
<1>4. r.pc = p /\ r.i = i /\ r.disp = client[c].disp
  BY <1>1 DEF Client
<1>5. r.user = client[c].user /\ r.version = client[c].version /\ r.sck = client[c].sck
  BY <1>1 DEF Client
<1>6. client'[c] = r
  BY <1>2
<1> HIDE DEF r
<1>7. QED
  BY <1>2, <1>3, <1>4, <1>5, <1>6, ClientSet

LEMMA ClientArrivesIs ==
  ASSUME client \in [Clients -> Client], NEW c \in Clients, NEW u \in Users, NEW v \in {0, 1},
         client' = [client EXCEPT ![c].user = u, ![c].version = v]
  PROVE  ClientIs(c, client[c].pc, u, v, client[c].sck, client[c].disp)
<1> DEFINE r == [client[c] EXCEPT !.user = u, !.version = v]
<1>1. client[c] \in Client
  OBVIOUS
<1>2. client' = [client EXCEPT ![c] = r]
  OBVIOUS
<1>3. /\ r \in Client /\ r.pc = client[c].pc /\ r.user = u /\ r.version = v
      /\ r.sck = client[c].sck /\ r.disp = client[c].disp
  BY <1>1 DEF Client
<1> HIDE DEF r
<1>4. QED
  BY <1>2, <1>3, ClientSet

LEMMA ClientCopiesIs ==
  ASSUME client \in [Clients -> Client], NEW c \in Clients, NEW p \in ClientPc,
         NEW s \in Clients \cup {None},
         client' = [client EXCEPT ![c].pc = p, ![c].sck = s]
  PROVE  ClientIs(c, p, client[c].user, client[c].version, s, client[c].disp)
<1> DEFINE r == [client[c] EXCEPT !.pc = p, !.sck = s]
<1>1. client[c] \in Client
  OBVIOUS
<1>2. client' = [client EXCEPT ![c] = r]
  OBVIOUS
<1>3. r \in Client
  BY <1>1 DEF Client, ClientPc
<1>4. r.pc = p /\ r.sck = s
  BY <1>1 DEF Client
<1>5. r.user = client[c].user /\ r.version = client[c].version /\ r.disp = client[c].disp
  BY <1>1 DEF Client
<1> HIDE DEF r
<1>6. QED
  BY <1>2, <1>3, <1>4, <1>5, ClientSet

ItemIs(i, s, u, d) ==
  /\ item' \in [Items -> Item]
  /\ \A j \in Items \ {i} : item'[j] = item[j]
  /\ item'[i].st = s /\ item'[i].user = u /\ item'[i].disp = d

\* One item's record is replaced, or its state, or its status.
LEMMA ItemSet ==
  ASSUME item \in [Items -> Item], NEW i \in Items, NEW r \in Item,
         item' = [item EXCEPT ![i] = r]
  PROVE  ItemIs(i, r.st, r.user, r.disp)
BY DEF ItemIs

LEMMA ItemStIs ==
  ASSUME item \in [Items -> Item], NEW i \in Items, NEW s \in {"unused", "new", "linked", "freed"},
         item' = [item EXCEPT ![i].st = s]
  PROVE  ItemIs(i, s, item[i].user, item[i].disp)
BY DEF ItemIs, Item

LEMMA ItemStatusIs ==
  ASSUME item \in [Items -> Item], NEW i \in Items,
         NEW s \in {"active", "disconnected", "destroy"},
         item' = [item EXCEPT ![i].status = s]
  PROVE  ItemIs(i, item[i].st, item[i].user, item[i].disp)
<1> DEFINE r == [item[i] EXCEPT !.status = s]
<1>1. item[i] \in Item
  OBVIOUS
<1>2. item' = [item EXCEPT ![i] = r]
  OBVIOUS
<1>3. r \in Item /\ r.st = item[i].st /\ r.user = item[i].user /\ r.disp = item[i].disp
  BY <1>1 DEF Item
<1> HIDE DEF r
<1>4. QED
  BY <1>2, <1>3, ItemSet
-----------------------------------------------------------------------------
(* What the steps do to the fields of the records they change.             *)

\* Client c goes to p with display d, and is otherwise as it was.
Moves(c, p, d) == ClientIs(c, p, client[c].user, client[c].version, client[c].sck, d)
Unlocks(c) == creation' = IF V0(c) THEN FALSE ELSE creation
MainIs(p, c, i, n) == main'.pc = p /\ main'.conn = c /\ main'.i = i /\ main'.cnt = n
SyncIs(h, u, e, s, r) == /\ sync'.held = h /\ sync'.user = u /\ sync'.event = e
                         /\ sync'.sem = s /\ sync'.result = r
MonitIs(p, todo, kept, i, n) == /\ monit'.pc = p /\ monit'.todo = todo /\ monit'.kept = kept
                                /\ monit'.tmp = i /\ monit'.cnt = n
WorkerIs(w, p, i) ==
  /\ worker' \in [Workers -> Worker]
  /\ \A v \in Workers \ {w} : worker'[v] = worker[v]
  /\ worker'[w].pc = p /\ worker'[w].i = i

\* What the sets of items are made of.
LEMMA Ranges ==
  ASSUME TypeOK
  PROVE  /\ chain \subseteq Items /\ monit.todo \subseteq Items /\ monit.kept \subseteq Items
         /\ \A c \in Clients : SessionsOf(client[c].user) \subseteq Items
BY DEF TypeOK, Monit, SessionsOf

\* A client goes on, with its display, or with another one.
LEMMA GoesMoves ==
  ASSUME TypeOK, NEW c \in Clients, NEW p \in ClientPc, ClientGoes(c, p)
  PROVE  Moves(c, p, client[c].disp) /\ client'[c].i = client[c].i
BY ClientGoesIs DEF Moves, TypeOK

LEMMA AnswerMoves ==
  ASSUME TypeOK, NEW c \in Clients, NEW p \in ClientPc, NEW d \in Displays \cup {0, 1},
         Answer(c, p, d)
  PROVE  Moves(c, p, d) /\ Unlocks(c)
<1>1. client \in [Clients -> Client]
  BY DEF TypeOK
<1>2. ClientIs(c, p, client[c].user, client[c].version, client[c].sck, d)
  BY <1>1, ClientAnswersIs DEF Answer
<1>3. QED
  BY <1>2 DEF Moves, Answer, Unlocks

LEMMA PicksMoves ==
  ASSUME TypeOK, NEW c \in Clients, NEW p \in ClientPc, NEW d \in Displays \cup {0, 1},
         client' = [client EXCEPT ![c].pc = p, ![c].disp = d]
  PROVE  Moves(c, p, d)
<1>1. client \in [Clients -> Client]
  BY DEF TypeOK
<1>2. ClientIs(c, p, client[c].user, client[c].version, client[c].sck, d)
  BY <1>1, ClientPicksIs
<1>3. QED
  BY <1>2 DEF Moves

LEMMA ChoosesMoves ==
  ASSUME TypeOK, NEW c \in Clients, NEW p \in ClientPc, NEW i \in Items,
         client' = [client EXCEPT ![c].pc = p, ![c].i = i]
  PROVE  Moves(c, p, client[c].disp) /\ client'[c].i = i
<1>1. client \in [Clients -> Client]
  BY DEF TypeOK
<1>2. /\ ClientIs(c, p, client[c].user, client[c].version, client[c].sck, client[c].disp)
      /\ client'[c].i = i
  BY <1>1, ClientChoosesIs
<1>3. QED
  BY <1>2 DEF Moves

\* The record of one worker is replaced.
LEMMA WorkerBecomes ==
  ASSUME TypeOK, NEW w \in Workers, NEW r \in Worker, worker' = [worker EXCEPT ![w] = r]
  PROVE  WorkerIs(w, r.pc, r.i) /\ worker'[w].cnt = r.cnt
BY DEF TypeOK, WorkerIs

LEMMA EndsIs ==
  ASSUME TypeOK, NEW w \in Workers, WorkerEnds(w)
  PROVE  WorkerIs(w, "idle", None)
<1>1. Idle \in Worker /\ Idle.pc = "idle" /\ Idle.i = None
  BY DEF Idle, Worker
<1>2. QED
  BY <1>1, WorkerBecomes DEF WorkerEnds

\* The steps of a connection's thread.
LEMMA CopySocketPost ==
  ASSUME TypeOK, NEW c \in Clients, CopySocket(c)
  PROVE  /\ client[c].pc = "born"
         /\ ClientIs(c, IF V0(c) THEN "creation" ELSE "auth", client[c].user,
                     client[c].version, socket.sck, client[c].disp)
         /\ socket'.free = TRUE /\ socket'.sck = socket.sck
         /\ UNCHANGED <<chain, item, count, lock, intact, sync, creation, main, worker,
                        monit, stop, xs>>
<1>1. socket.sck \in Clients \cup {None} /\ socket' = [socket EXCEPT !.free = TRUE]
  BY DEF TypeOK, Socket, CopySocket
<1>2. socket'.free = TRUE /\ socket'.sck = socket.sck
  BY <1>1 DEF TypeOK, Socket
<1>3. client \in [Clients -> Client]
  BY DEF TypeOK
<1>4. ClientIs(c, IF V0(c) THEN "creation" ELSE "auth", client[c].user, client[c].version,
               socket.sck, client[c].disp)
  BY <1>1, <1>3, ClientCopiesIs DEF CopySocket, ClientPc
<1>5. QED
  BY <1>2, <1>4 DEF CopySocket, ClientAt, chainVars, otherThreads

LEMMA CreationLockPost ==
  ASSUME TypeOK, NEW c \in Clients, CreationLock(c)
  PROVE  /\ client[c].pc = "creation" /\ ~creation
         /\ creation' = TRUE
         /\ Moves(c, "auth", client[c].disp)
         /\ UNCHANGED <<chain, item, count, lock, intact, sync, socket, main, worker, monit,
                        stop, xs>>
BY GoesMoves, AnswerMoves DEF CreationLock, ClientAt, ClientPc, chainVars, otherThreads

LEMMA AuthenticatePost ==
  ASSUME TypeOK, NEW c \in Clients, Authenticate(c)
  PROVE  /\ client[c].pc = "auth"
         /\ \/ Moves(c, "find", client[c].disp) /\ creation' = creation
            \/ Moves(c, "denied", 0) /\ Unlocks(c)
         /\ UNCHANGED <<chain, item, count, lock, intact, sync, socket, main, worker, monit,
                        stop, xs>>
BY GoesMoves, AnswerMoves DEF Authenticate, ClientAt, ClientPc, chainVars, otherThreads

LEMMA ChainLockPost ==
  ASSUME TypeOK, NEW c \in Clients, ChainLock(c)
  PROVE  /\ ~lock
         /\ lock' = TRUE
         /\ \/ client[c].pc = "find" /\ Moves(c, "found", client[c].disp)
            \/ client[c].pc = "update" /\ Moves(c, "updating", client[c].disp)
            \/ client[c].pc = "pick" /\ Moves(c, "picking", client[c].disp)
         /\ client'[c].i = client[c].i
         /\ UNCHANGED <<chain, item, count, intact, sync, socket, creation, main, worker,
                        monit, stop, xs>>
BY GoesMoves DEF ChainLock, ClientPc, chainVars, otherThreads

LEMMA FindV0Post ==
  ASSUME TypeOK, NEW c \in Clients, FindV0(c)
  PROVE  /\ client[c].pc = "found" /\ V0(c)
         /\ lock' = FALSE
         /\ \/ Moves(c, "denied", 0) /\ Unlocks(c)
            \/ \E i \in SessionsOf(client[c].user) :
                 Moves(c, "update", item[i].disp) /\ creation' = creation
            \/ /\ SessionsOf(client[c].user) = {} /\ creation' = creation
               /\ Moves(c, "start", client[c].disp)
         /\ UNCHANGED <<chain, item, count, intact, sync, socket, main, worker, monit, stop,
                        xs>>
<1>1. \A i \in SessionsOf(client[c].user) : item[i].disp \in Displays \cup {0, 1}
  BY DEF TypeOK, Item, SessionsOf
<1>2. QED
  BY <1>1, GoesMoves, AnswerMoves, PicksMoves
  DEF FindV0, ClientAt, ClientPc, chainVars, otherThreads

LEMMA ResearchPost ==
  ASSUME TypeOK, NEW c \in Clients, Research(c)
  PROVE  /\ client[c].pc = "updating"
         /\ \/ /\ Moves(c, "testing", client[c].disp) /\ lock' = lock /\ creation' = creation
               /\ client'[c].i \in SessionsOf(client[c].user)
            \/ Moves(c, "allowed", client[c].disp) /\ Unlocks(c) /\ lock' = FALSE
         /\ UNCHANGED <<chain, item, count, intact, sync, socket, main, worker, monit, stop, xs>>
<1>1. client[c].disp \in Displays \cup {0, 1}
  BY DEF TypeOK, Client
<1>2. \A i \in SessionsOf(client[c].user) : i \in Items
  BY DEF TypeOK, SessionsOf
<1>3. ASSUME NEW i \in SessionsOf(client[c].user),
             client' = [client EXCEPT ![c].pc = "testing", ![c].i = i]
      PROVE  Moves(c, "testing", client[c].disp) /\ client'[c].i = i
  BY <1>2, <1>3, ChoosesMoves DEF ClientPc
<1>4. QED
  BY <1>1, <1>3, AnswerMoves DEF Research, ClientAt, ClientPc, chainVars, otherThreads

LEMMA TestFinalPost ==
  ASSUME TypeOK, NEW c \in Clients, TestFinal(c)
  PROVE  /\ client[c].pc = "testing"
         /\ \/ /\ Moves(c, "reviving", client[c].disp) /\ lock' = lock /\ creation' = creation
               /\ client'[c].i = client[c].i /\ item[client[c].i].status # "destroy"
            \/ Moves(c, "allowed", client[c].disp) /\ Unlocks(c) /\ lock' = FALSE
         /\ UNCHANGED <<chain, item, count, intact, sync, socket, main, worker, monit, stop, xs>>
<1>1. client[c].disp \in Displays \cup {0, 1}
  BY DEF TypeOK, Client
<1>2. QED
  BY <1>1, GoesMoves, AnswerMoves
  DEF TestFinal, Final, ClientAt, ClientPc, chainVars, otherThreads

LEMMA ReactivatePost ==
  ASSUME TypeOK, ClientRefs, NEW c \in Clients, Reactivate(c)
  PROVE  /\ client[c].pc = "reviving"
         /\ lock' = FALSE
         /\ client[c].i \in Items
         /\ ItemIs(client[c].i, item[client[c].i].st, item[client[c].i].user,
                   item[client[c].i].disp)
         /\ Moves(c, "allowed", client[c].disp) /\ Unlocks(c)
         /\ UNCHANGED <<chain, count, intact, sync, socket, main, worker, monit, stop, xs>>
<1>1. client[c].disp \in Displays \cup {0, 1}
  BY DEF TypeOK, Client
<1>2. Moves(c, "allowed", client[c].disp) /\ Unlocks(c)
  BY <1>1, AnswerMoves DEF Reactivate, ClientPc
<1>3. client[c].i \in Items
  BY DEF Reactivate, ClientAt, ClientRefs
<1>4. ItemIs(client[c].i, item[client[c].i].st, item[client[c].i].user, item[client[c].i].disp)
  BY <1>3, ItemStatusIs DEF Reactivate, TypeOK
<1>5. QED
  BY <1>2, <1>3, <1>4 DEF Reactivate, ClientAt, chainVars, otherThreads

LEMMA FindV1Post ==
  ASSUME TypeOK, NEW c \in Clients, FindV1(c)
  PROVE  /\ client[c].pc = "found" /\ ~V0(c)
         /\ lock' = FALSE
         /\ \/ Moves(c, "start", client[c].disp) \/ Moves(c, "denied", client[c].disp)
            \/ /\ Moves(c, "pick", client[c].disp)
               /\ client'[c].i \in SessionsOf(client[c].user)
         /\ UNCHANGED <<chain, item, count, intact, sync, socket, creation, main, worker,
                        monit, stop, xs>>
<1>1. \A i \in Offered(client[c].user) : i \in Items /\ i \in SessionsOf(client[c].user)
  BY DEF TypeOK, SessionsOf, Offered
<1>2. ASSUME NEW i \in Offered(client[c].user),
             client' = [client EXCEPT ![c].pc = "pick", ![c].i = i]
      PROVE  Moves(c, "pick", client[c].disp) /\ client'[c].i = i
  BY <1>1, <1>2, ChoosesMoves DEF ClientPc
<1>3. QED
  BY <1>1, <1>2, GoesMoves DEF FindV1, ClientAt, ClientPc, chainVars, otherThreads

LEMMA PickV1Post ==
  ASSUME TypeOK, ClientRefs, NEW c \in Clients, PickV1(c)
  PROVE  /\ client[c].pc = "picking" /\ client[c].i \in Items
         /\ lock' = FALSE
         /\ Moves(c, "allowed", item[client[c].i].disp) \/ Moves(c, "denied", 0)
         /\ Unlocks(c)
         /\ UNCHANGED <<chain, item, count, intact, sync, socket, main, worker, monit, stop, xs>>
<1>1. client[c].pc = "picking" /\ client[c].i \in Items
  BY DEF PickV1, ClientAt, ClientRefs
<1>2. item[client[c].i].disp \in Displays \cup {0, 1}
  BY <1>1 DEF TypeOK, Item
<1>3. QED
  BY <1>1, <1>2, AnswerMoves DEF PickV1, ClientPc, chainVars, otherThreads

LEMMA StartSessionPost ==
  ASSUME TypeOK, NEW c \in Clients, StartSession(c)
  PROVE  /\ client[c].pc = "start" /\ ~sync.held
         /\ Moves(c, "wait", client[c].disp)
         /\ SyncIs(TRUE, client[c].user, TRUE, sync.sem, sync.result)
         /\ UNCHANGED <<chain, item, count, lock, intact, socket, creation, main, worker,
                        monit, stop, xs>>
<1>1. SyncIs(TRUE, client[c].user, TRUE, sync.sem, sync.result)
  BY DEF StartSession, SyncIs, TypeOK, Sync
<1>2. QED
  BY <1>1, GoesMoves DEF StartSession, ClientAt, ClientPc, chainVars, otherThreads

LEMMA GetResultPost ==
  ASSUME TypeOK, NEW c \in Clients, GetResult(c)
  PROVE  /\ client[c].pc = "wait" /\ sync.sem > 0
         /\ \/ Moves(c, "denied", 0)
            \/ Moves(c, "allowed", sync.result) /\ (V0(c) => sync.result # 0)
         /\ Unlocks(c)
         /\ SyncIs(FALSE, sync.user, sync.event, sync.sem - 1, sync.result)
         /\ UNCHANGED <<chain, item, count, lock, intact, socket, main, worker, monit, stop,
                        xs>>
<1>1. SyncIs(FALSE, sync.user, sync.event, sync.sem - 1, sync.result)
  BY DEF GetResult, SyncIs, TypeOK, Sync
<1>2. sync.result \in Displays \cup {0, 1}
  BY DEF TypeOK, Sync
<1>3. QED
  BY <1>1, <1>2, AnswerMoves DEF GetResult, ClientAt, ClientPc, chainVars, otherThreads

\* The steps of the main thread.
LEMMA AcceptPost ==
  ASSUME TypeOK, NEW c \in Clients, NEW u \in Users, NEW v \in Versions, Accept(c, u, v)
  PROVE  /\ main.pc = "loop" /\ client[c].pc = "out"
         /\ MainIs("hand", c, main.i, main.cnt)
         /\ ClientIs(c, "out", u, v, client[c].sck, client[c].disp)
         /\ UNCHANGED <<chain, item, count, lock, intact, sync, socket, creation, worker,
                        monit, stop, xs>>
<1>1. MainIs("hand", c, main.i, main.cnt)
  BY DEF Accept, MainIs, TypeOK, Main
<1>2. v \in {0, 1}
  BY SesmanAssumption
<1>3. client \in [Clients -> Client]
  BY DEF TypeOK
<1>4. ClientIs(c, client[c].pc, u, v, client[c].sck, client[c].disp)
  BY <1>2, <1>3, ClientArrivesIs DEF Accept
<1>5. QED
  BY <1>1, <1>4 DEF Accept, MainAt, chainVars

LEMMA HandOverPost ==
  ASSUME TypeOK, MainRefs, HandOver
  PROVE  /\ main.pc = "hand" /\ main.conn \in Clients /\ socket.free
         /\ ~socket'.free /\ socket'.sck = main.conn
         /\ MainIs("loop", None, main.i, main.cnt)
         /\ \/ Moves(main.conn, "born", client[main.conn].disp)
            \/ Moves(main.conn, "stranded", client[main.conn].disp)
         /\ UNCHANGED <<chain, item, count, lock, intact, sync, creation, worker, monit,
                        stop, xs>>
<1>1. MainIs("loop", None, main.i, main.cnt)
  BY DEF HandOver, MainIs, TypeOK, Main
<1>2. ~socket'.free /\ socket'.sck = main.conn
  BY DEF HandOver
<1>3. main.pc = "hand" /\ main.conn \in Clients
  BY DEF HandOver, MainAt, MainRefs
<1>4. PICK p \in {"born", "stranded"} : ClientGoes(main.conn, p)
  BY DEF HandOver, ClientGoes
<1>5. Moves(main.conn, p, client[main.conn].disp)
  BY <1>3, <1>4, GoesMoves DEF ClientPc
<1>6. QED
  BY <1>1, <1>2, <1>3, <1>5 DEF HandOver, chainVars

LEMMA SyncEventPost ==
  ASSUME TypeOK, SyncEvent
  PROVE  /\ main.pc = "loop" /\ sync.event
         /\ MainIs("sync", main.conn, main.i, main.cnt)
         /\ SyncIs(sync.held, sync.user, FALSE, sync.sem, sync.result)
         /\ UNCHANGED <<chain, item, count, lock, intact, socket, creation, client, worker,
                        monit, stop, xs>>
<1>1. MainIs("sync", main.conn, main.i, main.cnt)
  BY DEF SyncEvent, MainGoes, MainIs, TypeOK, Main
<1>2. SyncIs(sync.held, sync.user, FALSE, sync.sem, sync.result)
  BY DEF SyncEvent, SyncIs, TypeOK, Sync
<1>3. QED
  BY <1>1, <1>2 DEF SyncEvent, MainAt, chainVars

LEMMA SyncLockPost ==
  ASSUME TypeOK, SyncLock
  PROVE  /\ main.pc = "sync" /\ ~lock
         /\ MainIs("check", main.conn, main.i, main.cnt)
         /\ lock' = TRUE
         /\ UNCHANGED <<chain, item, count, intact, sync, socket, creation, client, worker,
                        monit, stop, xs>>
<1>1. MainIs("check", main.conn, main.i, main.cnt)
  BY DEF SyncLock, MainGoes, MainIs, TypeOK, Main
<1>2. QED
  BY <1>1 DEF SyncLock, MainAt, chainVars

LEMMA StartRefusedPost ==
  ASSUME TypeOK, StartRefused
  PROVE  /\ main.pc = "check"
         /\ MainIs("refused", main.conn, main.i, main.cnt)
         /\ SyncIs(sync.held, sync.user, sync.event, sync.sem, 0)
         /\ UNCHANGED <<chain, item, count, lock, intact, socket, creation, client, worker,
                        monit, stop, xs>>
<1>1. MainIs("refused", main.conn, main.i, main.cnt)
  BY DEF StartRefused, MainGoes, MainIs, TypeOK, Main
<1>2. SyncIs(sync.held, sync.user, sync.event, sync.sem, 0)
  BY DEF StartRefused, SyncIs, TypeOK, Sync
<1>3. QED
  BY <1>1, <1>2 DEF StartRefused, MainAt, chainVars

LEMMA ChooseDisplayPost ==
  ASSUME TypeOK, NEW i \in Items, NEW d \in Displays, ChooseDisplay(i, d)
  PROVE  /\ main.pc = "check" /\ ~Full
         /\ MainIs("prepare", main.conn, i, main.cnt)
         /\ item[i].st = "unused" /\ Usable(d)
         /\ ItemIs(i, "new", sync.user, d)
         /\ lock' = FALSE
         /\ UNCHANGED <<chain, count, intact, sync, socket, creation, client, worker, monit,
                        stop, xs>>
<1>1. MainIs("prepare", main.conn, i, main.cnt)
  BY DEF ChooseDisplay, MainGoes, MainIs, TypeOK, Main
<1> DEFINE r == [st |-> "new", user |-> sync.user, disp |-> d, status |-> "active"]
<1>2. r \in Item /\ r.st = "new" /\ r.user = sync.user /\ r.disp = d
  BY DEF TypeOK, Sync, Item
<1>3. item' = [item EXCEPT ![i] = r]
  BY DEF ChooseDisplay
<1> HIDE DEF r
<1>4. ItemIs(i, "new", sync.user, d)
  BY <1>2, <1>3, ItemSet DEF TypeOK
<1>5. QED
  BY <1>1, <1>4 DEF ChooseDisplay, MainAt, chainVars

LEMMA StartFailsPost ==
  ASSUME TypeOK, NEW r \in {0, 1} \cup Displays, StartFails(r)
  PROVE  /\ main.pc = "prepare"
         /\ MainIs("ended", main.conn, main.i, main.cnt)
         /\ r \in {0, 1, item[main.i].disp} /\ (r = 1 => sync.user \in Homeless)
         /\ SyncIs(sync.held, sync.user, sync.event, sync.sem, r)
         /\ UNCHANGED <<chain, item, count, lock, intact, socket, creation, client, worker,
                        monit, stop, xs>>
<1>1. MainIs("ended", main.conn, main.i, main.cnt)
  BY DEF StartFails, MainGoes, MainIs, TypeOK, Main
<1>2. SyncIs(sync.held, sync.user, sync.event, sync.sem, r)
  BY DEF StartFails, SyncIs, TypeOK, Sync
<1>3. QED
  BY <1>1, <1>2 DEF StartFails, MainAt, chainVars

LEMMA ForkPost ==
  ASSUME TypeOK, Fork
  PROVE  /\ main.pc = "prepare"
         /\ MainIs("waitx", main.conn, main.i, main.cnt)
         /\ UNCHANGED <<chain, item, count, lock, intact, sync, socket, creation, client,
                        worker, monit, stop>>
<1>1. MainIs("waitx", main.conn, main.i, main.cnt)
  BY DEF Fork, MainGoes, MainIs, TypeOK, Main
<1>2. QED
  BY <1>1 DEF Fork, MainAt, chainVars

LEMMA XTimeoutPost ==
  ASSUME TypeOK, XTimeout
  PROVE  /\ main.pc = "waitx"
         /\ MainIs("ended", main.conn, main.i, main.cnt)
         /\ SyncIs(sync.held, sync.user, sync.event, sync.sem, 0)
         /\ UNCHANGED <<chain, item, count, lock, intact, socket, creation, client, worker,
                        monit, stop, xs>>
<1>1. MainIs("ended", main.conn, main.i, main.cnt)
  BY DEF XTimeout, MainGoes, MainIs, TypeOK, Main
<1>2. SyncIs(sync.held, sync.user, sync.event, sync.sem, 0)
  BY DEF XTimeout, SyncIs, TypeOK, Sync
<1>3. QED
  BY <1>1, <1>2 DEF XTimeout, MainAt, chainVars

LEMMA XAnswersPost ==
  ASSUME TypeOK, XAnswers
  PROVE  /\ main.pc = "waitx"
         /\ MainIs("relock", main.conn, main.i, main.cnt)
         /\ UNCHANGED <<chain, item, count, lock, intact, sync, socket, creation, client,
                        worker, monit, stop, xs>>
<1>1. MainIs("relock", main.conn, main.i, main.cnt)
  BY DEF XAnswers, MainGoes, MainIs, TypeOK, Main
<1>2. QED
  BY <1>1 DEF XAnswers, MainAt, chainVars

LEMMA RelockPost ==
  ASSUME TypeOK, Relock
  PROVE  /\ main.pc = "relock" /\ ~lock
         /\ MainIs("link", main.conn, main.i, main.cnt)
         /\ lock' = TRUE
         /\ UNCHANGED <<chain, item, count, intact, sync, socket, creation, client, worker,
                        monit, stop, xs>>
<1>1. MainIs("link", main.conn, main.i, main.cnt)
  BY DEF Relock, MainGoes, MainIs, TypeOK, Main
<1>2. QED
  BY <1>1 DEF Relock, MainAt, chainVars

LEMMA LinkItemPost ==
  ASSUME TypeOK, MainRefs, LinkItem
  PROVE  /\ main.pc = "link" /\ main.i \in Items
         /\ MainIs("count", main.conn, main.i, count)
         /\ chain' = chain \cup {main.i}
         /\ ItemIs(main.i, "linked", item[main.i].user, item[main.i].disp)
         /\ UNCHANGED <<count, lock, intact, sync, socket, creation, client, worker, monit,
                        stop, xs>>
<1>1. MainIs("count", main.conn, main.i, count)
  BY DEF LinkItem, MainGoes, MainIs, TypeOK, Main
<1>2. main.i \in Items
  BY DEF LinkItem, MainAt, MainRefs, Starting
<1>3. ItemIs(main.i, "linked", item[main.i].user, item[main.i].disp)
  BY <1>2, ItemStIs DEF LinkItem, TypeOK
<1>4. QED
  BY <1>1, <1>2, <1>3 DEF LinkItem, MainAt, chainVars

LEMMA CountItemPost ==
  ASSUME TypeOK, CountItem
  PROVE  /\ main.pc = "count"
         /\ MainIs("ended", main.conn, main.i, 0)
         /\ count' = main.cnt + 1
         /\ lock' = FALSE
         /\ SyncIs(sync.held, sync.user, sync.event, sync.sem, item[main.i].disp)
         /\ UNCHANGED <<chain, item, intact, socket, creation, client, worker, monit, stop,
                        xs>>
<1>1. MainIs("ended", main.conn, main.i, 0)
  BY DEF CountItem, MainGoes, MainIs, TypeOK, Main
<1>2. SyncIs(sync.held, sync.user, sync.event, sync.sem, item[main.i].disp)
  BY DEF CountItem, SyncIs, TypeOK, Sync
<1>3. QED
  BY <1>1, <1>2 DEF CountItem, MainAt, chainVars

LEMMA SyncDonePost ==
  ASSUME TypeOK, SyncDone
  PROVE  /\ main.pc \in {"refused", "ended"}
         /\ MainIs("loop", main.conn, None, main.cnt)
         /\ lock' = FALSE
         /\ intact' = (intact /\ ~OthersInside)
         /\ SyncIs(sync.held, sync.user, sync.event, sync.sem + 1, sync.result)
         /\ UNCHANGED <<chain, item, count, socket, creation, client, worker, monit, stop,
                        xs>>
<1>1. MainIs("loop", main.conn, None, main.cnt)
  BY DEF SyncDone, MainIs, TypeOK, Main
<1>2. SyncIs(sync.held, sync.user, sync.event, sync.sem + 1, sync.result)
  BY DEF SyncDone, SyncIs, TypeOK, Sync
<1>3. QED
  BY <1>1, <1>2 DEF SyncDone, chainVars

\* The steps of a worker.
LEMMA RequestPost ==
  ASSUME TypeOK, NEW w \in Workers, NEW act \in Orders, NEW u \in Users, Request(w, act, u)
  PROVE  /\ worker[w].pc = "idle"
         /\ ~lock
         /\ lock' = TRUE
         /\ WorkerIs(w, "finding", None)
         /\ UNCHANGED <<chain, item, count, intact, sync, socket, creation, main, client,
                        monit, stop, xs>>
<1> DEFINE r == [Idle EXCEPT !.pc = "finding", !.act = act, !.user = u]
<1>a. Idle \in Worker /\ Idle.i = None
  BY DEF Idle, Worker
<1>1. r \in Worker /\ r.pc = "finding" /\ r.i = None
  BY <1>a DEF Worker
<1>2. worker' = [worker EXCEPT ![w] = r]
  BY DEF Request
<1> HIDE DEF r
<1>3. WorkerIs(w, "finding", None)
  BY <1>1, <1>2, WorkerBecomes
<1>4. QED
  BY <1>3 DEF Request, WorkerAt, chainVars

LEMMA FindSessionPost ==
  ASSUME TypeOK, NEW w \in Workers, FindSession(w)
  PROVE  /\ worker[w].pc = "finding"
         /\ \/ \E i \in chain, p \in {"destroying", "testing"} : WorkerIs(w, p, i) /\ lock' = lock
            \/ WorkerIs(w, "idle", None) /\ lock' = FALSE
         /\ UNCHANGED <<chain, item, count, intact, sync, socket, creation, main, client,
                        monit, stop, xs>>
<1>1. CASE WorkerEnds(w) /\ lock' = FALSE
  BY <1>1, EndsIs DEF FindSession, WorkerAt, chainVars
<1>2. ASSUME NEW i \in SessionsOf(worker[w].user), lock' = lock,
             NEW p \in {"destroying", "testing"},
             worker' = [worker EXCEPT ![w].i = i, ![w].pc = p]
      PROVE  WorkerIs(w, p, i)
  <2> DEFINE r == [worker[w] EXCEPT !.i = i, !.pc = p]
  <2>1. r \in Worker /\ r.pc = p /\ r.i = i
    BY DEF Worker, TypeOK, SessionsOf
  <2>2. worker' = [worker EXCEPT ![w] = r]
    BY <1>2 DEF TypeOK
  <2> HIDE DEF r
  <2>3. QED
    BY <2>1, <2>2, WorkerBecomes
<1>3. \A i \in SessionsOf(worker[w].user) : i \in chain
  BY DEF SessionsOf
<1>4. CASE \E i \in SessionsOf(worker[w].user) :
             worker' = [worker EXCEPT ![w].i = i,
                          ![w].pc = IF worker[w].act = "logoff" THEN "destroying" ELSE "testing"]
             /\ lock' = lock
  BY <1>2, <1>3, <1>4 DEF FindSession, WorkerAt, chainVars
<1>5. QED
  BY <1>1, <1>4 DEF FindSession, WorkerAt, chainVars

LEMMA DestroySessionPost ==
  ASSUME TypeOK, NEW w \in Workers, DestroySession(w)
  PROVE  /\ worker[w].pc = "destroying"
         /\ WorkerIs(w, "testing", worker[w].i)
         /\ UNCHANGED <<chain, item, count, lock, intact, sync, socket, creation, main,
                        client, monit, stop>>
<1> DEFINE r == [worker[w] EXCEPT !.pc = "testing"]
<1>1. r \in Worker /\ r.pc = "testing" /\ r.i = worker[w].i
  BY DEF Worker, TypeOK
<1>2. worker' = [worker EXCEPT ![w] = r]
  BY DEF DestroySession, WorkerGoes, TypeOK
<1> HIDE DEF r
<1>3. WorkerIs(w, "testing", worker[w].i)
  BY <1>1, <1>2, WorkerBecomes
<1>4. QED
  BY <1>3 DEF DestroySession, WorkerAt, chainVars

LEMMA TestStatusPost ==
  ASSUME TypeOK, NEW w \in Workers, TestStatus(w)
  PROVE  /\ worker[w].pc = "testing"
         /\ \/ /\ WorkerIs(w, "writing", worker[w].i) /\ lock' = lock
               /\ item[worker[w].i].status # "destroy"
            \/ WorkerIs(w, "idle", None) /\ lock' = FALSE
         /\ UNCHANGED <<chain, item, count, intact, sync, socket, creation, main, client,
                        monit, stop, xs>>
<1> DEFINE r == [worker[w] EXCEPT !.pc = "writing"]
<1>1. r \in Worker /\ r.pc = "writing" /\ r.i = worker[w].i
  BY DEF Worker, TypeOK
<1>2. WorkerGoes(w, "writing") => worker' = [worker EXCEPT ![w] = r]
  BY DEF WorkerGoes, TypeOK
<1> HIDE DEF r
<1>3. WorkerGoes(w, "writing") => WorkerIs(w, "writing", worker[w].i)
  BY <1>1, <1>2, WorkerBecomes
<1>4. QED
  BY <1>3, EndsIs DEF TestStatus, Final, WorkerAt, chainVars

LEMMA WriteStatusPost ==
  ASSUME TypeOK, WorkerRefs, NEW w \in Workers, WriteStatus(w)
  PROVE  /\ worker[w].pc = "writing"
         /\ ItemIs(worker[w].i, item[worker[w].i].st, item[worker[w].i].user,
                   item[worker[w].i].disp)
         /\ worker[w].i \in Items
         /\ lock' = FALSE
         /\ WorkerIs(w, "idle", None)
         /\ UNCHANGED <<chain, count, intact, sync, socket, creation, main, client, monit,
                        stop, xs>>
<1>1. WorkerIs(w, "idle", None)
  BY EndsIs DEF WriteStatus
<1>2. worker[w].i \in Items
  BY DEF WriteStatus, WorkerAt, WorkerRefs
<1>3. PICK s \in {"destroy", "disconnected"} : item' = [item EXCEPT ![worker[w].i].status = s]
  BY DEF WriteStatus
<1>4. ItemIs(worker[w].i, item[worker[w].i].st, item[worker[w].i].user, item[worker[w].i].disp)
  BY <1>2, <1>3, ItemStatusIs DEF TypeOK
<1>5. QED
  BY <1>1, <1>2, <1>4 DEF WriteStatus, WorkerAt, chainVars

LEMMA ListAllocatesPost ==
  ASSUME TypeOK, NEW w \in Workers, ListAllocates(w)
  PROVE  /\ worker[w].pc = "finding"
         /\ WorkerIs(w, "copying", worker[w].i)
         /\ worker'[w].cnt = count
         /\ UNCHANGED <<chain, item, count, lock, intact, sync, socket, creation, main,
                        client, monit, stop, xs>>
<1> DEFINE r == [worker[w] EXCEPT !.pc = "copying", !.cnt = count]
<1>1. r \in Worker /\ r.pc = "copying" /\ r.i = worker[w].i /\ r.cnt = count
  BY DEF Worker, TypeOK
<1>2. worker' = [worker EXCEPT ![w] = r]
  BY DEF ListAllocates, TypeOK
<1> HIDE DEF r
<1>3. WorkerIs(w, "copying", worker[w].i) /\ worker'[w].cnt = count
  BY <1>1, <1>2, WorkerBecomes
<1>4. QED
  BY <1>3 DEF ListAllocates, WorkerAt, chainVars

LEMMA ListCopiesPost ==
  ASSUME TypeOK, NEW w \in Workers, ListCopies(w)
  PROVE  /\ worker[w].pc = "copying"
         /\ lock' = FALSE
         /\ WorkerIs(w, "idle", None)
         /\ UNCHANGED <<chain, item, count, intact, sync, socket, creation, main, client,
                        monit, stop, xs>>
<1>1. WorkerIs(w, "idle", None)
  BY EndsIs DEF ListCopies
<1>2. QED
  BY <1>1 DEF ListCopies, WorkerAt, chainVars

\* The steps of monit_thread.
LEMMA MonitLockPost ==
  ASSUME TypeOK, MonitLock
  PROVE  /\ monit.pc = "sleep" /\ ~lock
         /\ MonitIs("look", chain, {}, monit.tmp, monit.cnt)
         /\ lock' = TRUE
         /\ UNCHANGED <<chain, item, count, intact, sync, socket, creation, main, client,
                        worker, stop, xs>>
<1>1. MonitIs("look", chain, {}, monit.tmp, monit.cnt)
  BY DEF MonitLock, MonitIs, Doomed, TypeOK, Monit
<1>9. QED
  BY <1>1 DEF MonitLock, MonitAt, chainVars

LEMMA InspectPost ==
  ASSUME TypeOK, NEW i \in Items, Inspect(i)
  PROVE  /\ monit.pc = "look" /\ i \in monit.todo
         /\ \/ MonitIs("destroy", monit.todo, monit.kept, i, monit.cnt)
            \/ MonitIs("look", monit.todo \ {i}, monit.kept \cup {i}, monit.tmp, monit.cnt)
         /\ UNCHANGED <<chain, item, count, lock, intact, sync, socket, creation, main,
                        client, worker, stop, xs>>
<1>1. CASE monit' = [monit EXCEPT !.pc = "destroy", !.tmp = i]
  <2>1. MonitIs("destroy", monit.todo, monit.kept, i, monit.cnt)
    BY <1>1 DEF MonitIs, TypeOK, Monit
  <2>2. QED
    BY <2>1 DEF Inspect, MonitAt, chainVars
<1>2. CASE monit' = [monit EXCEPT !.todo = @ \ {i}, !.kept = @ \cup {i}]
  <2>1. MonitIs("look", monit.todo \ {i}, monit.kept \cup {i}, monit.tmp, monit.cnt)
    BY <1>2 DEF MonitIs, TypeOK, Monit, Inspect, MonitAt
  <2>2. QED
    BY <2>1 DEF Inspect, MonitAt, chainVars
<1>3. QED
  BY <1>1, <1>2 DEF Inspect

LEMMA FreeItemPost ==
  ASSUME TypeOK, MonitRefs, FreeItem
  PROVE  /\ monit.pc = "destroy" /\ monit.tmp \in monit.todo /\ monit.tmp \in Items
         /\ MonitIs("count", monit.todo \ {monit.tmp}, monit.kept, None, count)
         /\ chain' = (IF monit.kept = {} THEN monit.todo ELSE chain) \ {monit.tmp}
         /\ ItemIs(monit.tmp, "freed", item[monit.tmp].user, item[monit.tmp].disp)
         /\ UNCHANGED <<count, lock, intact, sync, socket, creation, main, client, worker,
                        stop>>
<1>1. MonitIs("count", monit.todo \ {monit.tmp}, monit.kept, None, count)
  BY DEF FreeItem, MonitIs, Doomed, TypeOK, Monit
<1>2. monit.tmp \in monit.todo /\ monit.tmp \in Items
  BY DEF FreeItem, MonitAt, MonitRefs, TypeOK, Monit
<1>3. ItemIs(monit.tmp, "freed", item[monit.tmp].user, item[monit.tmp].disp)
  BY <1>2, ItemStIs DEF FreeItem, TypeOK
<1>9. QED
  BY <1>1, <1>2, <1>3 DEF FreeItem, MonitAt, chainVars

LEMMA UncountItemPost ==
  ASSUME TypeOK, UncountItem
  PROVE  /\ monit.pc = "count"
         /\ MonitIs("look", monit.todo, monit.kept, monit.tmp, 0)
         /\ count' = monit.cnt - 1
         /\ UNCHANGED <<chain, item, lock, intact, sync, socket, creation, main, client,
                        worker, stop, xs>>
<1>1. MonitIs("look", monit.todo, monit.kept, monit.tmp, 0)
  BY DEF UncountItem, MonitIs, Doomed, TypeOK, Monit
<1>9. QED
  BY <1>1 DEF UncountItem, MonitAt, chainVars

LEMMA MonitUnlockPost ==
  ASSUME TypeOK, MonitUnlock
  PROVE  /\ monit.pc = "look" /\ monit.todo = {}
         /\ \/ MonitIs("sleep", monit.todo, {}, monit.tmp, monit.cnt)
            \/ MonitIs("kill", monit.todo, {}, monit.tmp, monit.cnt)
         /\ lock' = FALSE
         /\ UNCHANGED <<chain, item, count, intact, sync, socket, creation, main, client,
                        worker, stop, xs>>
<1>1. \/ MonitIs("sleep", monit.todo, {}, monit.tmp, monit.cnt)
      \/ MonitIs("kill", monit.todo, {}, monit.tmp, monit.cnt)
  BY DEF MonitUnlock, MonitIs, Doomed, TypeOK, Monit
<1>9. QED
  BY <1>1 DEF MonitUnlock, MonitAt, chainVars

LEMMA KillAllPost ==
  ASSUME TypeOK, KillAll
  PROVE  /\ monit.pc = "kill"
         /\ MonitIs("done", monit.todo, monit.kept, monit.tmp, monit.cnt)
         /\ UNCHANGED <<chain, item, count, lock, intact, sync, socket, creation, main,
                        client, worker, stop>>
<1>1. MonitIs("done", monit.todo, monit.kept, monit.tmp, monit.cnt)
  BY DEF KillAll, MonitIs, Doomed, TypeOK, Monit
<1>9. QED
  BY <1>1 DEF KillAll, MonitAt, chainVars
-----------------------------------------------------------------------------
\* Every step keeps the types.
LEMMA TypeNext == TypeOK /\ RefsInv /\ [Next]_vars => TypeOK'
<1> SUFFICES ASSUME TypeOK, RefsInv, [Next]_vars PROVE TypeOK'
  OBVIOUS
<1> USE SesmanAssumption DEF TypeOK, chainVars, otherThreads
<1>1. ASSUME NEW c \in Clients, NEW u \in Users, NEW v \in Versions, Accept(c, u, v)
      PROVE  TypeOK'
  <2>1. main' \in Main
    BY <1>1 DEF Accept, Main, MainAt
  <2>2. client' \in [Clients -> Client]
    BY <1>1, ClientArrivesIs DEF Accept, ClientIs
  <2>3. QED
    BY <1>1, <2>1, <2>2 DEF Accept
<1>2. ASSUME HandOver PROVE TypeOK'
  <2>1. socket' \in Socket
    BY <1>2 DEF HandOver, Socket, Main, Client, MainAt
  <2>2. main' \in Main
    BY <1>2 DEF HandOver, Main, MainAt
  <2>3. client' \in [Clients -> Client]
    BY <1>2, HandOverPost DEF RefsInv, MainRefs, HandOver, MainAt, Moves, ClientIs
  <2>4. QED
    BY <1>2, <2>1, <2>2, <2>3 DEF HandOver
<1>3. ASSUME SyncEvent PROVE TypeOK'
  <2>1. sync' \in Sync
    BY <1>3 DEF SyncEvent, Sync, Item, Client, MainAt
  <2>2. main' \in Main
    BY <1>3 DEF SyncEvent, Main, MainGoes, MainAt
  <2>3. QED
    BY <1>3, <2>1, <2>2 DEF SyncEvent
<1>4. ASSUME SyncLock PROVE TypeOK'
  <2>1. lock' \in BOOLEAN
    BY <1>4 DEF SyncLock
  <2>2. main' \in Main
    BY <1>4 DEF SyncLock, Main, MainGoes, MainAt
  <2>3. QED
    BY <1>4, <2>1, <2>2 DEF SyncLock
<1>5. ASSUME StartRefused PROVE TypeOK'
  <2>1. sync' \in Sync
    BY <1>5 DEF StartRefused, Sync, Item, Client, MainAt
  <2>2. main' \in Main
    BY <1>5 DEF StartRefused, Main, MainGoes, MainAt
  <2>3. QED
    BY <1>5, <2>1, <2>2 DEF StartRefused
<1>6. ASSUME NEW i \in Items, NEW d \in Displays, ChooseDisplay(i, d) PROVE TypeOK'
  <2>1. item' \in [Items -> Item]
    BY <1>6, ChooseDisplayPost DEF ItemIs, RefsInv
  <2>2. lock' \in BOOLEAN
    BY <1>6 DEF ChooseDisplay
  <2>3. main' \in Main
    BY <1>6 DEF ChooseDisplay, Main, MainAt
  <2>4. QED
    BY <1>6, <2>1, <2>2, <2>3 DEF ChooseDisplay
<1>7. ASSUME NEW r \in {0, 1} \cup Displays, StartFails(r) PROVE TypeOK'
  <2>1. sync' \in Sync
    BY <1>7 DEF StartFails, Sync, Item, Client, MainAt
  <2>2. main' \in Main
    BY <1>7 DEF StartFails, Main, MainGoes, MainAt
  <2>3. QED
    BY <1>7, <2>1, <2>2 DEF StartFails
<1>8. ASSUME Fork PROVE TypeOK'
  <2>1. main' \in Main
    BY <1>8 DEF Fork, Main, MainGoes, MainAt
  <2>2. xs' \in [Displays -> XServer]
    BY <1>8 DEF Fork, XServer, NoX, Sync, Item, MainAt
  <2>3. QED
    BY <1>8, <2>1, <2>2 DEF Fork
<1>9. ASSUME XTimeout PROVE TypeOK'
  <2>1. sync' \in Sync
    BY <1>9 DEF XTimeout, Sync, Item, Client, MainAt
  <2>2. main' \in Main
    BY <1>9 DEF XTimeout, Main, MainGoes, MainAt
  <2>3. QED
    BY <1>9, <2>1, <2>2 DEF XTimeout
<1>10. ASSUME XAnswers PROVE TypeOK'
  <2>1. main' \in Main
    BY <1>10 DEF XAnswers, Main, MainGoes, MainAt
  <2>2. QED
    BY <1>10, <2>1 DEF XAnswers
<1>11. ASSUME Relock PROVE TypeOK'
  <2>1. lock' \in BOOLEAN
    BY <1>11 DEF Relock
  <2>2. main' \in Main
    BY <1>11 DEF Relock, Main, MainGoes, MainAt
  <2>3. QED
    BY <1>11, <2>1, <2>2 DEF Relock
<1>12. ASSUME LinkItem PROVE TypeOK'
  <2>1. chain' \subseteq Items
    BY <1>12 DEF LinkItem, MainAt, RefsInv, MainRefs, Starting
  <2>2. item' \in [Items -> Item]
    BY <1>12, LinkItemPost DEF ItemIs, RefsInv
  <2>3. main' \in Main
    BY <1>12 DEF LinkItem, Main, MainAt
  <2>4. QED
    BY <1>12, <2>1, <2>2, <2>3 DEF LinkItem
<1>13. ASSUME CountItem PROVE TypeOK'
  <2>1. count' \in Int
    BY <1>13 DEF CountItem, Main, Monit, MainAt
  <2>2. lock' \in BOOLEAN
    BY <1>13 DEF CountItem
  <2>3. sync' \in Sync
    <3>1. item[main.i].disp \in Displays \cup {0}
      BY <1>13 DEF CountItem, MainAt, RefsInv, MainRefs, Starting, Item
    <3>2. QED
      BY <1>13, <3>1 DEF CountItem, Sync
  <2>4. main' \in Main
    <3>1. 0 \in Int
      OBVIOUS
    <3>2. \A n \in Int : [main EXCEPT !.pc = "ended", !.cnt = n] \in Main
      BY DEF Main
    <3>3. [main EXCEPT !.pc = "ended", !.cnt = 0] \in Main
      BY <3>1, <3>2, Zenon
    <3>4. QED
      BY <1>13, <3>3, Zenon DEF CountItem
  <2>5. QED
    BY <1>13, <2>1, <2>2, <2>3, <2>4 DEF CountItem
<1>14. ASSUME SyncDone PROVE TypeOK'
  <2>1. lock' \in BOOLEAN
    BY <1>14 DEF SyncDone
  <2>2. intact' \in BOOLEAN
    BY <1>14 DEF SyncDone
  <2>3. sync' \in Sync
    BY <1>14 DEF SyncDone, Sync, Item, Client
  <2>4. main' \in Main
    BY <1>14 DEF SyncDone, Main
  <2>5. QED
    BY <1>14, <2>1, <2>2, <2>3, <2>4 DEF SyncDone
<1>15. ASSUME NEW c \in Clients, CopySocket(c) PROVE TypeOK'
  <2>1. socket' \in Socket
    BY <1>15 DEF CopySocket, Socket, Main, Client, ClientAt
  <2>2. client' \in [Clients -> Client]
    BY <1>15, CopySocketPost DEF Moves, ClientIs
  <2>3. QED
    BY <1>15, <2>1, <2>2 DEF CopySocket
<1>16. ASSUME NEW c \in Clients, CreationLock(c) PROVE TypeOK'
  <2>1. creation' \in BOOLEAN
    BY <1>16 DEF CreationLock, ClientAt
  <2>2. client' \in [Clients -> Client]
    BY <1>16, CreationLockPost DEF Moves, ClientIs
  <2>3. QED
    BY <1>16, <2>1, <2>2 DEF CreationLock
<1>17. ASSUME NEW c \in Clients, Authenticate(c) PROVE TypeOK'
  <2>1. creation' \in BOOLEAN
    BY <1>17 DEF Authenticate, Answer, ClientAt
  <2>2. client' \in [Clients -> Client]
    BY <1>17, AuthenticatePost DEF Moves, ClientIs
  <2>3. QED
    BY <1>17, <2>1, <2>2 DEF Authenticate
<1>18. ASSUME NEW c \in Clients, ChainLock(c) PROVE TypeOK'
  <2>1. lock' \in BOOLEAN
    BY <1>18 DEF ChainLock
  <2>2. client' \in [Clients -> Client]
    BY <1>18, ChainLockPost DEF Moves, ClientIs
  <2>3. QED
    BY <1>18, <2>1, <2>2 DEF ChainLock
<1>19. ASSUME NEW c \in Clients, FindV0(c) PROVE TypeOK'
  <2>1. lock' \in BOOLEAN
    BY <1>19 DEF FindV0
  <2>2. creation' \in BOOLEAN
    BY <1>19 DEF FindV0, Answer, ClientAt
  <2>3. client' \in [Clients -> Client]
    BY <1>19, FindV0Post DEF Moves, ClientIs
  <2>4. QED
    BY <1>19, <2>1, <2>2, <2>3 DEF FindV0
<1>19a. ASSUME NEW c \in Clients, Research(c) PROVE TypeOK'
  <2>1. lock' \in BOOLEAN
    BY <1>19a DEF Research
  <2>2. creation' \in BOOLEAN
    BY <1>19a DEF Research, Answer, ClientAt
  <2>3. client' \in [Clients -> Client]
    BY <1>19a, ResearchPost DEF Moves, ClientIs
  <2>4. QED
    BY <1>19a, <2>1, <2>2, <2>3 DEF Research
<1>19b. ASSUME NEW c \in Clients, TestFinal(c) PROVE TypeOK'
  <2>1. lock' \in BOOLEAN
    BY <1>19b DEF TestFinal
  <2>2. creation' \in BOOLEAN
    BY <1>19b DEF TestFinal, Answer, ClientAt
  <2>3. client' \in [Clients -> Client]
    BY <1>19b, TestFinalPost DEF Moves, ClientIs
  <2>4. QED
    BY <1>19b, <2>1, <2>2, <2>3 DEF TestFinal
<1>20. ASSUME NEW c \in Clients, Reactivate(c) PROVE TypeOK'
  <2>1. item' \in [Items -> Item]
    BY <1>20, ReactivatePost DEF ItemIs, RefsInv
  <2>2. lock' \in BOOLEAN
    BY <1>20 DEF Reactivate
  <2>3. creation' \in BOOLEAN
    BY <1>20 DEF Reactivate, Answer, ClientAt
  <2>4. client' \in [Clients -> Client]
    BY <1>20, ReactivatePost DEF Moves, ClientIs, RefsInv
  <2>5. QED
    BY <1>20, <2>1, <2>2, <2>3, <2>4 DEF Reactivate
<1>21. ASSUME NEW c \in Clients, FindV1(c) PROVE TypeOK'
  <2>1. lock' \in BOOLEAN
    BY <1>21 DEF FindV1
  <2>2. client' \in [Clients -> Client]
    BY <1>21, FindV1Post DEF Moves, ClientIs
  <2>3. QED
    BY <1>21, <2>1, <2>2 DEF FindV1
<1>22. ASSUME NEW c \in Clients, PickV1(c) PROVE TypeOK'
  <2>1. lock' \in BOOLEAN
    BY <1>22 DEF PickV1
  <2>2. creation' \in BOOLEAN
    BY <1>22 DEF PickV1, Answer, ClientAt
  <2>3. client' \in [Clients -> Client]
    BY <1>22, PickV1Post DEF Moves, ClientIs, RefsInv
  <2>4. QED
    BY <1>22, <2>1, <2>2, <2>3 DEF PickV1
<1>23. ASSUME NEW c \in Clients, StartSession(c) PROVE TypeOK'
  <2>1. sync' \in Sync
    BY <1>23 DEF StartSession, Sync, Item, Client, ClientAt
  <2>2. client' \in [Clients -> Client]
    BY <1>23, StartSessionPost DEF Moves, ClientIs
  <2>3. QED
    BY <1>23, <2>1, <2>2 DEF StartSession
<1>24. ASSUME NEW c \in Clients, GetResult(c) PROVE TypeOK'
  <2>1. sync' \in Sync
    <3>1. sync.sem - 1 \in Nat
      BY <1>24 DEF GetResult, Sync
    <3>2. QED
      BY <1>24, <3>1 DEF GetResult, Sync
  <2>2. creation' \in BOOLEAN
    BY <1>24 DEF GetResult, Answer, ClientAt
  <2>3. client' \in [Clients -> Client]
    BY <1>24, GetResultPost DEF Moves, ClientIs
  <2>4. QED
    BY <1>24, <2>1, <2>2, <2>3 DEF GetResult
<1>25. ASSUME NEW w \in Workers, NEW act \in Orders, NEW u \in Users, Request(w, act, u)
       PROVE  TypeOK'
  <2>1. lock' \in BOOLEAN
    BY <1>25 DEF Request
  <2>2. worker' \in [Workers -> Worker]
    BY <1>25, RequestPost DEF WorkerIs, RefsInv
  <2>3. QED
    BY <1>25, <2>1, <2>2 DEF Request
<1>26. ASSUME NEW w \in Workers, FindSession(w) PROVE TypeOK'
  <2>1. lock' \in BOOLEAN
    BY <1>26 DEF FindSession
  <2>2. worker' \in [Workers -> Worker]
    BY <1>26, FindSessionPost DEF WorkerIs, RefsInv
  <2>3. QED
    BY <1>26, <2>1, <2>2 DEF FindSession
<1>27. ASSUME NEW w \in Workers, DestroySession(w) PROVE TypeOK'
  <2>1. worker' \in [Workers -> Worker]
    BY <1>27, DestroySessionPost DEF WorkerIs, RefsInv
  <2>2. xs' \in [Displays -> XServer]
    BY <1>27 DEF DestroySession, XServer, NoX, XAfterDestroy, Sync, Item, WorkerAt
  <2>3. QED
    BY <1>27, <2>1, <2>2 DEF DestroySession
<1>27a. ASSUME NEW w \in Workers, TestStatus(w) PROVE TypeOK'
  <2>1. lock' \in BOOLEAN
    BY <1>27a DEF TestStatus
  <2>2. worker' \in [Workers -> Worker]
    BY <1>27a, TestStatusPost DEF WorkerIs, RefsInv
  <2>3. QED
    BY <1>27a, <2>1, <2>2 DEF TestStatus
<1>28. ASSUME NEW w \in Workers, WriteStatus(w) PROVE TypeOK'
  <2>1. item' \in [Items -> Item]
    BY <1>28, WriteStatusPost DEF ItemIs, RefsInv
  <2>2. lock' \in BOOLEAN
    BY <1>28 DEF WriteStatus
  <2>3. worker' \in [Workers -> Worker]
    BY <1>28, WriteStatusPost DEF WorkerIs, RefsInv
  <2>4. QED
    BY <1>28, <2>1, <2>2, <2>3 DEF WriteStatus
<1>29. ASSUME NEW w \in Workers, ListAllocates(w) PROVE TypeOK'
  <2>1. worker' \in [Workers -> Worker]
    BY <1>29, ListAllocatesPost DEF WorkerIs, RefsInv
  <2>2. QED
    BY <1>29, <2>1 DEF ListAllocates
<1>30. ASSUME NEW w \in Workers, ListCopies(w) PROVE TypeOK'
  <2>1. lock' \in BOOLEAN
    BY <1>30 DEF ListCopies
  <2>2. worker' \in [Workers -> Worker]
    BY <1>30, ListCopiesPost DEF WorkerIs, RefsInv
  <2>3. QED
    BY <1>30, <2>1, <2>2 DEF ListCopies
<1>31. ASSUME MonitLock PROVE TypeOK'
  <2>1. lock' \in BOOLEAN
    BY <1>31 DEF MonitLock
  <2>2. monit' \in Monit
    BY <1>31 DEF MonitLock, Monit, MonitAt
  <2>3. QED
    BY <1>31, <2>1, <2>2 DEF MonitLock
<1>32. ASSUME NEW i \in Items, Inspect(i) PROVE TypeOK'
  <2>1. monit' \in Monit
    BY <1>32 DEF Inspect, Monit, MonitAt
  <2>2. QED
    BY <1>32, <2>1 DEF Inspect
<1>33. ASSUME FreeItem PROVE TypeOK'
  <2>1. chain' \subseteq Items
    BY <1>33 DEF FreeItem, Monit
  <2>2. item' \in [Items -> Item]
    BY <1>33, FreeItemPost DEF ItemIs, RefsInv
  <2>3. monit' \in Monit
    BY <1>33 DEF FreeItem, Monit, MonitAt
  <2>4. xs' \in [Displays -> XServer]
    BY <1>33 DEF FreeItem, XServer, NoX, XAfterDestroy, Sync, Item, MonitAt
  <2>5. QED
    BY <1>33, <2>1, <2>2, <2>3, <2>4 DEF FreeItem
<1>34. ASSUME UncountItem PROVE TypeOK'
  <2>1. count' \in Int
    BY <1>34 DEF UncountItem, Main, Monit, MonitAt
  <2>2. monit' \in Monit
    <3>1. 0 \in Int
      OBVIOUS
    <3>2. \A n \in Int : [monit EXCEPT !.pc = "look", !.cnt = n] \in Monit
      BY DEF Monit
    <3>3. [monit EXCEPT !.pc = "look", !.cnt = 0] \in Monit
      BY <3>1, <3>2, Zenon
    <3>4. QED
      BY <1>34, <3>3, Zenon DEF UncountItem
  <2>3. QED
    BY <1>34, <2>1, <2>2 DEF UncountItem
<1>35. ASSUME MonitUnlock PROVE TypeOK'
  <2>1. lock' \in BOOLEAN
    BY <1>35 DEF MonitUnlock
  <2>2. monit' \in Monit
    BY <1>35 DEF MonitUnlock, Monit, MonitAt
  <2>3. QED
    BY <1>35, <2>1, <2>2 DEF MonitUnlock
<1>36. ASSUME KillAll PROVE TypeOK'
  <2>1. monit' \in Monit
    BY <1>36 DEF KillAll, Monit, MonitAt
  <2>2. xs' \in [Displays -> XServer]
    BY <1>36 DEF KillAll, XServer, NoX, Sync, Item, MonitAt
  <2>3. QED
    BY <1>36, <2>1, <2>2 DEF KillAll
<1>37. ASSUME Shutdown PROVE TypeOK'
  <2>1. stop' \in {"no", "asked", "done"}
    BY <1>37 DEF Shutdown
  <2>2. QED
    BY <1>37, <2>1 DEF Shutdown
<1>38. ASSUME Exit PROVE TypeOK'
  <2>1. stop' \in {"no", "asked", "done"}
    BY <1>38 DEF Exit
  <2>2. QED
    BY <1>38, <2>1 DEF Exit
<1>39. ASSUME NEW d \in Displays, XChanges(d) PROVE TypeOK'
  <2>1. xs' \in [Displays -> XServer]
    BY <1>39 DEF XChanges, XServer, NoX, Sync, Item
  <2>2. QED
    BY <1>39, <2>1 DEF XChanges
<1>40. CASE UNCHANGED vars
  BY <1>40 DEF vars
<1>41. QED
  BY <1>1, <1>2, <1>3, <1>4, <1>5, <1>6, <1>7, <1>8, <1>9, <1>10, <1>11, <1>12, <1>13,
     <1>14, <1>15, <1>16, <1>17, <1>18, <1>19, <1>19a, <1>19b, <1>20, <1>21, <1>22,
     <1>23, <1>24, <1>25, <1>26, <1>27, <1>27a, <1>28, <1>29, <1>30, <1>31, <1>32,
     <1>33, <1>34, <1>35, <1>36, <1>37, <1>38, <1>39, <1>40
  DEF Next, MainRuns, ClientRuns, WorkerRuns, MonitRuns
-----------------------------------------------------------------------------
\* The connection and the item that the main thread works on stay what they are.
LEMMA MainRefsNext == TypeOK /\ MainRefs /\ [Next]_vars => MainRefs'
<1> SUFFICES ASSUME TypeOK, MainRefs, [Next]_vars PROVE MainRefs'
  OBVIOUS
<1>1. ASSUME NEW c \in Clients, NEW u \in Users, NEW v \in Versions, Accept(c, u, v)
      PROVE  MainRefs'
  <2>1. /\ main.pc = "loop" /\ client[c].pc = "out"
        /\ MainIs("hand", c, main.i, main.cnt)
    BY <1>1, AcceptPost
  <2>2. QED
    BY <2>1 DEF MainIs, MainRefs, Starting
<1>2. ASSUME HandOver PROVE MainRefs'
  <2>1. /\ main.pc = "hand" /\ main.conn \in Clients /\ socket.free
        /\ MainIs("loop", None, main.i, main.cnt)
    BY <1>2, HandOverPost
  <2>2. QED
    BY <2>1 DEF MainIs, MainRefs, Starting
<1>3. ASSUME SyncEvent PROVE MainRefs'
  <2>1. /\ main.pc = "loop" /\ sync.event
        /\ MainIs("sync", main.conn, main.i, main.cnt)
    BY <1>3, SyncEventPost
  <2>2. QED
    BY <2>1 DEF MainIs, MainRefs, Starting
<1>4. ASSUME SyncLock PROVE MainRefs'
  <2>1. /\ main.pc = "sync" /\ ~lock
        /\ MainIs("check", main.conn, main.i, main.cnt)
    BY <1>4, SyncLockPost
  <2>2. QED
    BY <2>1 DEF MainIs, MainRefs, Starting
<1>5. ASSUME StartRefused PROVE MainRefs'
  <2>1. /\ main.pc = "check"
        /\ MainIs("refused", main.conn, main.i, main.cnt)
    BY <1>5, StartRefusedPost
  <2>2. QED
    BY <2>1 DEF MainIs, MainRefs, Starting
<1>6. ASSUME NEW i \in Items, NEW d \in Displays, ChooseDisplay(i, d) PROVE MainRefs'
  <2>1. /\ main.pc = "check" /\ ~Full
        /\ MainIs("prepare", main.conn, i, main.cnt)
        /\ item[i].st = "unused" /\ Usable(d)
    BY <1>6, ChooseDisplayPost
  <2>2. QED
    BY <2>1 DEF MainIs, MainRefs, Starting
<1>7. ASSUME NEW r \in {0, 1} \cup Displays, StartFails(r) PROVE MainRefs'
  <2>1. /\ main.pc = "prepare"
        /\ MainIs("ended", main.conn, main.i, main.cnt)
        /\ r \in {0, 1, item[main.i].disp}
    BY <1>7, StartFailsPost
  <2>2. QED
    BY <2>1 DEF MainIs, MainRefs, Starting
<1>8. ASSUME Fork PROVE MainRefs'
  <2>1. /\ main.pc = "prepare"
        /\ MainIs("waitx", main.conn, main.i, main.cnt)
    BY <1>8, ForkPost
  <2>2. QED
    BY <2>1 DEF MainIs, MainRefs, Starting
<1>9. ASSUME XTimeout PROVE MainRefs'
  <2>1. /\ main.pc = "waitx"
        /\ MainIs("ended", main.conn, main.i, main.cnt)
    BY <1>9, XTimeoutPost
  <2>2. QED
    BY <2>1 DEF MainIs, MainRefs, Starting
<1>10. ASSUME XAnswers PROVE MainRefs'
  <2>1. /\ main.pc = "waitx"
        /\ MainIs("relock", main.conn, main.i, main.cnt)
    BY <1>10, XAnswersPost
  <2>2. QED
    BY <2>1 DEF MainIs, MainRefs, Starting
<1>11. ASSUME Relock PROVE MainRefs'
  <2>1. /\ main.pc = "relock" /\ ~lock
        /\ MainIs("link", main.conn, main.i, main.cnt)
    BY <1>11, RelockPost
  <2>2. QED
    BY <2>1 DEF MainIs, MainRefs, Starting
<1>12. ASSUME LinkItem PROVE MainRefs'
  <2>1. /\ main.pc = "link" /\ main.i \in Items
        /\ MainIs("count", main.conn, main.i, count)
    BY <1>12, LinkItemPost
  <2>2. QED
    BY <2>1 DEF MainIs, MainRefs, Starting
<1>13. ASSUME CountItem PROVE MainRefs'
  <2>1. /\ main.pc = "count"
        /\ MainIs("ended", main.conn, main.i, 0)
    BY <1>13, CountItemPost
  <2>2. QED
    BY <2>1 DEF MainIs, MainRefs, Starting
<1>14. ASSUME SyncDone PROVE MainRefs'
  <2>1. /\ main.pc \in {"refused", "ended"}
        /\ MainIs("loop", main.conn, None, main.cnt)
    BY <1>14, SyncDonePost
  <2>2. QED
    BY <2>1 DEF MainIs, MainRefs, Starting
<1>15. CASE UNCHANGED <<main>>
  BY <1>15 DEF MainRefs, Starting
<1>16. QED
  BY <1>1, <1>2, <1>3, <1>4, <1>5, <1>6, <1>7, <1>8, <1>9, <1>10, <1>11, <1>12, <1>13,
     <1>14, <1>15
  DEF Next, MainRuns, ClientRuns, WorkerRuns, MonitRuns, vars, chainVars, otherThreads,
     CopySocket, CreationLock, Authenticate, ChainLock, FindV0, Research, TestFinal,
     Reactivate, FindV1, PickV1, StartSession, GetResult, Request, FindSession,
     DestroySession, TestStatus, WriteStatus, ListAllocates, ListCopies, MonitLock,
     Inspect, FreeItem, UncountItem, MonitUnlock, KillAll, Shutdown, Exit, XChanges

\* A worker that is to change a session has one.
LEMMA WorkerRefsNext == TypeOK /\ WorkerRefs /\ [Next]_vars => WorkerRefs'
<1> SUFFICES ASSUME TypeOK, WorkerRefs, [Next]_vars PROVE WorkerRefs'
  OBVIOUS
<1>1. ASSUME NEW w \in Workers, NEW act \in Orders, NEW u \in Users, Request(w, act, u)
      PROVE  WorkerRefs'
  <2>1. /\ worker[w].pc = "idle"
        /\ ~lock
        /\ WorkerIs(w, "finding", None)
    BY <1>1, RequestPost
  <2>2. QED
    BY <2>1 DEF WorkerIs, WorkerRefs
<1>2. ASSUME NEW w \in Workers, FindSession(w) PROVE WorkerRefs'
  <2>1. /\ worker[w].pc = "finding"
        /\ \/ \E i \in chain, p \in {"destroying", "testing"} : WorkerIs(w, p, i) /\ lock' = lock
           \/ WorkerIs(w, "idle", None) /\ lock' = FALSE
    BY <1>2, FindSessionPost
  <2>2. QED
    BY <2>1 DEF WorkerIs, TypeOK, WorkerRefs
<1>3. ASSUME NEW w \in Workers, DestroySession(w) PROVE WorkerRefs'
  <2>1. /\ worker[w].pc = "destroying"
        /\ WorkerIs(w, "testing", worker[w].i)
    BY <1>3, DestroySessionPost
  <2>2. QED
    BY <2>1 DEF WorkerIs, WorkerRefs
<1>3a. ASSUME NEW w \in Workers, TestStatus(w) PROVE WorkerRefs'
  <2>1. /\ worker[w].pc = "testing"
        /\ WorkerIs(w, "writing", worker[w].i) \/ WorkerIs(w, "idle", None)
    BY <1>3a, TestStatusPost
  <2>2. QED
    BY <2>1 DEF WorkerIs, WorkerRefs
<1>4. ASSUME NEW w \in Workers, WriteStatus(w) PROVE WorkerRefs'
  <2>1. /\ worker[w].pc = "writing"
        /\ worker[w].i \in Items
        /\ WorkerIs(w, "idle", None)
    BY <1>4, WriteStatusPost
  <2>2. QED
    BY <2>1 DEF WorkerIs, WorkerRefs
<1>5. ASSUME NEW w \in Workers, ListAllocates(w) PROVE WorkerRefs'
  <2>1. /\ worker[w].pc = "finding"
        /\ WorkerIs(w, "copying", worker[w].i)
        /\ worker'[w].cnt = count
    BY <1>5, ListAllocatesPost
  <2>2. QED
    BY <2>1 DEF WorkerIs, WorkerRefs
<1>6. ASSUME NEW w \in Workers, ListCopies(w) PROVE WorkerRefs'
  <2>1. /\ worker[w].pc = "copying"
        /\ WorkerIs(w, "idle", None)
    BY <1>6, ListCopiesPost
  <2>2. QED
    BY <2>1 DEF WorkerIs, WorkerRefs
<1>7. CASE UNCHANGED <<worker>>
  BY <1>7 DEF WorkerRefs
<1>8. QED
  BY <1>1, <1>2, <1>3, <1>3a, <1>4, <1>5, <1>6, <1>7
  DEF Next, MainRuns, ClientRuns, WorkerRuns, MonitRuns, vars, chainVars, otherThreads,
     Accept, HandOver, SyncEvent, SyncLock, StartRefused, ChooseDisplay, StartFails,
     Fork, XTimeout, XAnswers, Relock, LinkItem, CountItem, SyncDone, CopySocket,
     CreationLock, Authenticate, ChainLock, FindV0, Research, TestFinal, Reactivate,
     FindV1, PickV1, StartSession, GetResult, MonitLock, Inspect, FreeItem, UncountItem,
     MonitUnlock, KillAll, Shutdown, Exit, XChanges

\* A client that holds an item has one.
LEMMA ClientRefsNext ==
  TypeOK /\ MainRefs /\ OutRefs /\ ClientRefs /\ [Next]_vars => ClientRefs'
<1> DEFINE Holds == {"testing", "reviving", "pick", "picking"}
<1> SUFFICES ASSUME TypeOK, MainRefs, OutRefs, ClientRefs, [Next]_vars PROVE ClientRefs'
  OBVIOUS
<1>0. ASSUME NEW c \in Clients, NEW p, NEW u, NEW v, NEW s, NEW d, ClientIs(c, p, u, v, s, d),
             p \notin Holds \/ client'[c].i \in Items
      PROVE  ClientRefs'
  BY <1>0 DEF ClientIs, ClientRefs
<1>1. ASSUME NEW c \in Clients, NEW u \in Users, NEW v \in Versions, Accept(c, u, v)
      PROVE  ClientRefs'
  <2>1. ClientIs(c, "out", u, v, client[c].sck, client[c].disp)
    BY <1>1, AcceptPost
  <2>2. QED
    BY <2>1, <1>0
<1>2. ASSUME HandOver PROVE ClientRefs'
  <2>1. main.conn \in Clients /\ \E p \in {"born", "stranded"} : Moves(main.conn, p, client[main.conn].disp)
    BY <1>2, HandOverPost
  <2>2. QED
    BY <2>1, <1>0 DEF Moves
<1>3. ASSUME NEW c \in Clients, CopySocket(c) PROVE ClientRefs'
  <2>1. ClientIs(c, IF V0(c) THEN "creation" ELSE "auth", client[c].user, client[c].version,
                 socket.sck, client[c].disp)
    BY <1>3, CopySocketPost
  <2>2. QED
    BY <2>1, <1>0
<1>4. ASSUME NEW c \in Clients, CreationLock(c) \/ Authenticate(c) \/ FindV0(c) PROVE ClientRefs'
  <2>1. \E p \in {"auth", "find", "denied", "update", "start"} : \E d : Moves(c, p, d)
    BY <1>4, CreationLockPost, AuthenticatePost, FindV0Post
  <2>2. QED
    BY <2>1, <1>0 DEF Moves
<1>5. ASSUME NEW c \in Clients, ChainLock(c) PROVE ClientRefs'
  <2>1. /\ \/ client[c].pc = "find" /\ Moves(c, "found", client[c].disp)
           \/ client[c].pc = "update" /\ Moves(c, "updating", client[c].disp)
           \/ client[c].pc = "pick" /\ Moves(c, "picking", client[c].disp)
        /\ client'[c].i = client[c].i
    BY <1>5, ChainLockPost
  <2>2. client[c].pc = "pick" => client[c].i \in Items
    BY DEF ClientRefs
  <2>3. QED
    BY <2>1, <2>2, <1>0 DEF Moves
<1>6. ASSUME NEW c \in Clients, Research(c) \/ FindV1(c) PROVE ClientRefs'
  <2>1. \/ \E p \in {"allowed", "denied", "start"} : Moves(c, p, client[c].disp)
        \/ /\ \E p \in {"testing", "pick"} : Moves(c, p, client[c].disp)
           /\ client'[c].i \in SessionsOf(client[c].user)
    BY <1>6, ResearchPost, FindV1Post
  <2>2. SessionsOf(client[c].user) \subseteq Items
    BY Ranges
  <2>3. QED
    BY <2>1, <2>2, <1>0 DEF Moves
<1>7. ASSUME NEW c \in Clients, TestFinal(c) PROVE ClientRefs'
  <2>1. /\ client[c].pc = "testing"
        /\ \/ Moves(c, "reviving", client[c].disp) /\ client'[c].i = client[c].i
           \/ Moves(c, "allowed", client[c].disp)
    BY <1>7, TestFinalPost
  <2>2. client[c].i \in Items
    BY <2>1 DEF ClientRefs
  <2>3. QED
    BY <2>1, <2>2, <1>0 DEF Moves
<1>8. ASSUME NEW c \in Clients, Reactivate(c) \/ PickV1(c) \/ StartSession(c) \/ GetResult(c)
      PROVE  ClientRefs'
  <2>1. \E p \in {"allowed", "denied", "wait"} : \E d : Moves(c, p, d)
    BY <1>8, ReactivatePost, PickV1Post, StartSessionPost, GetResultPost
  <2>2. QED
    BY <2>1, <1>0 DEF Moves
<1>9. CASE UNCHANGED client
  BY <1>9 DEF ClientRefs
<1>10. QED
  BY <1>1, <1>2, <1>3, <1>4, <1>5, <1>6, <1>7, <1>8, <1>9
  DEF Next, MainRuns, ClientRuns, WorkerRuns, MonitRuns, vars, chainVars, otherThreads,
     SyncEvent, SyncLock, StartRefused, ChooseDisplay, StartFails, Fork, XTimeout,
     XAnswers, Relock, LinkItem, CountItem, SyncDone, Request, FindSession,
     DestroySession, TestStatus, WriteStatus, ListAllocates, ListCopies, MonitLock,
     Inspect, FreeItem, UncountItem, MonitUnlock, KillAll, Shutdown, Exit, XChanges

\* What is in the chain, or still to be inspected, is the item of a session.
LEMMA MonitRefsNext ==
  TypeOK /\ MainRefs /\ ClientRefs /\ WorkerRefs /\ NewInv /\ MonitRefs /\ [Next]_vars
    => MonitRefs'
<1> SUFFICES ASSUME TypeOK, MainRefs, ClientRefs, WorkerRefs, NewInv, MonitRefs, [Next]_vars
    PROVE  MonitRefs'
  OBVIOUS
<1>1. ASSUME NEW i \in Items, NEW d \in Displays, ChooseDisplay(i, d) PROVE MonitRefs'
  <2>1. \A j \in monit.todo \cup chain : item'[j].st = item[j].st
    BY <1>1, ChooseDisplayPost, Ranges DEF ItemIs, MonitRefs
  <2>2. monit' = monit /\ chain' = chain
    BY <1>1, ChooseDisplayPost
  <2>3. QED
    BY <2>1, <2>2 DEF MonitRefs
<1>2. ASSUME LinkItem PROVE MonitRefs'
  <2>1. /\ main.pc = "link" /\ main.i \in Items
        /\ chain' = chain \cup {main.i}
        /\ ItemIs(main.i, "linked", item[main.i].user, item[main.i].disp)
        /\ monit' = monit
    BY <1>2, LinkItemPost
  <2>2. QED
    BY <2>1, Ranges DEF ItemIs, MonitRefs
<1>3. ASSUME NEW c \in Clients, Reactivate(c) PROVE MonitRefs'
  <2>1. \A j \in monit.todo \cup chain : item'[j].st = item[j].st
    BY <1>3, ReactivatePost, Ranges DEF ItemIs, MonitRefs
  <2>2. monit' = monit /\ chain' = chain
    BY <1>3, ReactivatePost
  <2>3. QED
    BY <2>1, <2>2 DEF MonitRefs
<1>4. ASSUME NEW w \in Workers, WriteStatus(w) PROVE MonitRefs'
  <2>1. \A j \in monit.todo \cup chain : item'[j].st = item[j].st
    BY <1>4, WriteStatusPost, Ranges DEF ItemIs, MonitRefs
  <2>2. monit' = monit /\ chain' = chain
    BY <1>4, WriteStatusPost
  <2>3. QED
    BY <2>1, <2>2 DEF MonitRefs
<1>5. ASSUME MonitLock PROVE MonitRefs'
  <2>1. /\ monit.pc = "sleep" /\ ~lock
        /\ MonitIs("look", chain, {}, monit.tmp, monit.cnt)
        /\ UNCHANGED <<chain, item>>
    BY <1>5, MonitLockPost
  <2>2. QED
    BY <2>1, Ranges DEF MonitIs, MonitRefs
<1>6. ASSUME NEW i \in Items, Inspect(i) PROVE MonitRefs'
  <2>1. /\ monit.pc = "look" /\ i \in monit.todo
        /\ \/ MonitIs("destroy", monit.todo, monit.kept, i, monit.cnt)
           \/ MonitIs("look", monit.todo \ {i}, monit.kept \cup {i}, monit.tmp, monit.cnt)
        /\ UNCHANGED <<chain, item>>
    BY <1>6, InspectPost
  <2>2. QED
    BY <2>1, Ranges DEF MonitIs, MonitRefs
<1>7. ASSUME FreeItem PROVE MonitRefs'
  <2>1. /\ monit.pc = "destroy" /\ monit.tmp \in monit.todo /\ monit.tmp \in Items
        /\ MonitIs("count", monit.todo \ {monit.tmp}, monit.kept, None, count)
        /\ chain' = (IF monit.kept = {} THEN monit.todo ELSE chain) \ {monit.tmp}
        /\ ItemIs(monit.tmp, "freed", item[monit.tmp].user, item[monit.tmp].disp)
    BY <1>7, FreeItemPost
  <2>2. QED
    BY <2>1, Ranges DEF MonitIs, ItemIs, MonitRefs
<1>8. ASSUME UncountItem PROVE MonitRefs'
  <2>1. /\ monit.pc = "count"
        /\ MonitIs("look", monit.todo, monit.kept, monit.tmp, 0)
        /\ UNCHANGED <<chain, item>>
    BY <1>8, UncountItemPost
  <2>2. QED
    BY <2>1, Ranges DEF MonitIs, MonitRefs
<1>9. ASSUME MonitUnlock PROVE MonitRefs'
  <2>1. /\ monit.pc = "look" /\ monit.todo = {}
        /\ \/ MonitIs("sleep", monit.todo, {}, monit.tmp, monit.cnt)
           \/ MonitIs("kill", monit.todo, {}, monit.tmp, monit.cnt)
        /\ UNCHANGED <<chain, item>>
    BY <1>9, MonitUnlockPost
  <2>2. QED
    BY <2>1, Ranges DEF MonitIs, MonitRefs
<1>10. ASSUME KillAll PROVE MonitRefs'
  <2>1. /\ monit.pc = "kill"
        /\ MonitIs("done", monit.todo, monit.kept, monit.tmp, monit.cnt)
        /\ UNCHANGED <<chain, item>>
    BY <1>10, KillAllPost
  <2>2. QED
    BY <2>1, Ranges DEF MonitIs, MonitRefs
<1>11. CASE UNCHANGED <<chain, item, monit>>
  BY <1>11 DEF MonitRefs
<1>12. QED
  BY <1>1, <1>2, <1>3, <1>4, <1>5, <1>6, <1>7, <1>8, <1>9, <1>10, <1>11
  DEF Next, MainRuns, ClientRuns, WorkerRuns, MonitRuns, vars, chainVars, otherThreads,
     Accept, HandOver, SyncEvent, SyncLock, StartRefused, StartFails, Fork, XTimeout,
     XAnswers, Relock, CountItem, SyncDone, CopySocket, CreationLock, Authenticate,
     ChainLock, FindV0, Research, TestFinal, FindV1, PickV1, StartSession, GetResult,
     Request, FindSession, DestroySession, TestStatus, ListAllocates, ListCopies,
     Shutdown, Exit, XChanges

\* A connection that has not arrived yet has no display; the one that is being
\* handed over is still there.
LEMMA OutRefsNext ==
  TypeOK /\ MainRefs /\ ClientRefs /\ OutRefs /\ [Next]_vars => OutRefs'
<1> SUFFICES ASSUME TypeOK, MainRefs, ClientRefs, OutRefs, [Next]_vars PROVE OutRefs'
  OBVIOUS
<1>1. ASSUME NEW c \in Clients, NEW u \in Users, NEW v \in Versions, Accept(c, u, v)
      PROVE  OutRefs'
  <2>1. /\ main.pc = "loop" /\ client[c].pc = "out"
        /\ MainIs("hand", c, main.i, main.cnt)
        /\ ClientIs(c, "out", u, v, client[c].sck, client[c].disp)
    BY <1>1, AcceptPost
  <2>2. QED
    BY <2>1 DEF ClientIs, MainIs, OutRefs, V0
<1>2. ASSUME HandOver PROVE OutRefs'
  <2>1. /\ main.pc = "hand" /\ main.conn \in Clients /\ socket.free
        /\ MainIs("loop", None, main.i, main.cnt)
        /\ \/ Moves(main.conn, "born", client[main.conn].disp)
           \/ Moves(main.conn, "stranded", client[main.conn].disp)
    BY <1>2, HandOverPost
  <2>2. QED
    BY <2>1 DEF Moves, MainIs, ClientIs, OutRefs, V0
<1>3. ASSUME SyncEvent PROVE OutRefs'
  <2>1. /\ main.pc = "loop" /\ sync.event
        /\ MainIs("sync", main.conn, main.i, main.cnt)
        /\ client' = client
    BY <1>3, SyncEventPost
  <2>2. QED
    BY <2>1 DEF MainIs, OutRefs, V0
<1>4. ASSUME SyncLock PROVE OutRefs'
  <2>1. /\ main.pc = "sync" /\ ~lock
        /\ MainIs("check", main.conn, main.i, main.cnt)
        /\ client' = client
    BY <1>4, SyncLockPost
  <2>2. QED
    BY <2>1 DEF MainIs, OutRefs, V0
<1>5. ASSUME StartRefused PROVE OutRefs'
  <2>1. /\ main.pc = "check"
        /\ MainIs("refused", main.conn, main.i, main.cnt)
        /\ client' = client
    BY <1>5, StartRefusedPost
  <2>2. QED
    BY <2>1 DEF MainIs, OutRefs, V0
<1>6. ASSUME NEW i \in Items, NEW d \in Displays, ChooseDisplay(i, d) PROVE OutRefs'
  <2>1. /\ main.pc = "check" /\ ~Full
        /\ MainIs("prepare", main.conn, i, main.cnt)
        /\ item[i].st = "unused" /\ Usable(d)
        /\ client' = client
    BY <1>6, ChooseDisplayPost
  <2>2. QED
    BY <2>1 DEF MainIs, OutRefs, V0
<1>7. ASSUME NEW r \in {0, 1} \cup Displays, StartFails(r) PROVE OutRefs'
  <2>1. /\ main.pc = "prepare"
        /\ MainIs("ended", main.conn, main.i, main.cnt)
        /\ r \in {0, 1, item[main.i].disp}
        /\ client' = client
    BY <1>7, StartFailsPost
  <2>2. QED
    BY <2>1 DEF MainIs, OutRefs, V0
<1>8. ASSUME Fork PROVE OutRefs'
  <2>1. /\ main.pc = "prepare"
        /\ MainIs("waitx", main.conn, main.i, main.cnt)
        /\ client' = client
    BY <1>8, ForkPost
  <2>2. QED
    BY <2>1 DEF MainIs, OutRefs, V0
<1>9. ASSUME XTimeout PROVE OutRefs'
  <2>1. /\ main.pc = "waitx"
        /\ MainIs("ended", main.conn, main.i, main.cnt)
        /\ client' = client
    BY <1>9, XTimeoutPost
  <2>2. QED
    BY <2>1 DEF MainIs, OutRefs, V0
<1>10. ASSUME XAnswers PROVE OutRefs'
  <2>1. /\ main.pc = "waitx"
        /\ MainIs("relock", main.conn, main.i, main.cnt)
        /\ client' = client
    BY <1>10, XAnswersPost
  <2>2. QED
    BY <2>1 DEF MainIs, OutRefs, V0
<1>11. ASSUME Relock PROVE OutRefs'
  <2>1. /\ main.pc = "relock" /\ ~lock
        /\ MainIs("link", main.conn, main.i, main.cnt)
        /\ client' = client
    BY <1>11, RelockPost
  <2>2. QED
    BY <2>1 DEF MainIs, OutRefs, V0
<1>12. ASSUME LinkItem PROVE OutRefs'
  <2>1. /\ main.pc = "link" /\ main.i \in Items
        /\ MainIs("count", main.conn, main.i, count)
        /\ client' = client
    BY <1>12, LinkItemPost
  <2>2. QED
    BY <2>1 DEF MainIs, OutRefs, V0
<1>13. ASSUME CountItem PROVE OutRefs'
  <2>1. /\ main.pc = "count"
        /\ MainIs("ended", main.conn, main.i, 0)
        /\ client' = client
    BY <1>13, CountItemPost
  <2>2. QED
    BY <2>1 DEF MainIs, OutRefs, V0
<1>14. ASSUME SyncDone PROVE OutRefs'
  <2>1. /\ main.pc \in {"refused", "ended"}
        /\ MainIs("loop", main.conn, None, main.cnt)
        /\ client' = client
    BY <1>14, SyncDonePost
  <2>2. QED
    BY <2>1 DEF MainIs, OutRefs, V0
<1>15. ASSUME NEW c \in Clients, CopySocket(c) PROVE OutRefs'
  <2>1. /\ client[c].pc = "born"
        /\ ClientIs(c, IF V0(c) THEN "creation" ELSE "auth", client[c].user,
                    client[c].version, socket.sck, client[c].disp)
        /\ main' = main
    BY <1>15, CopySocketPost
  <2>2. QED
    BY <2>1 DEF ClientIs, OutRefs, V0
<1>16. ASSUME NEW c \in Clients, CreationLock(c) PROVE OutRefs'
  <2>1. /\ client[c].pc = "creation" /\ ~creation
        /\ Moves(c, "auth", client[c].disp)
        /\ main' = main
    BY <1>16, CreationLockPost
  <2>2. QED
    BY <2>1 DEF Moves, ClientIs, OutRefs, V0
<1>17. ASSUME NEW c \in Clients, Authenticate(c) PROVE OutRefs'
  <2>1. /\ client[c].pc = "auth"
        /\ \/ Moves(c, "find", client[c].disp) /\ creation' = creation
           \/ Moves(c, "denied", 0) /\ Unlocks(c)
        /\ main' = main
    BY <1>17, AuthenticatePost
  <2>2. QED
    BY <2>1 DEF Moves, Unlocks, ClientIs, OutRefs, V0
<1>18. ASSUME NEW c \in Clients, ChainLock(c) PROVE OutRefs'
  <2>1. /\ ~lock
        /\ \/ client[c].pc = "find" /\ Moves(c, "found", client[c].disp)
           \/ client[c].pc = "update" /\ Moves(c, "updating", client[c].disp)
           \/ client[c].pc = "pick" /\ Moves(c, "picking", client[c].disp)
        /\ main' = main
    BY <1>18, ChainLockPost
  <2>2. QED
    BY <2>1 DEF Moves, ClientIs, OutRefs, V0
<1>19. ASSUME NEW c \in Clients, FindV0(c) PROVE OutRefs'
  <2>1. /\ client[c].pc = "found" /\ V0(c)
        /\ \/ Moves(c, "denied", 0) /\ Unlocks(c)
           \/ \E i \in SessionsOf(client[c].user) :
                Moves(c, "update", item[i].disp) /\ creation' = creation
           \/ /\ SessionsOf(client[c].user) = {} /\ creation' = creation
              /\ Moves(c, "start", client[c].disp)
        /\ main' = main
    BY <1>19, FindV0Post
  <2>2. QED
    BY <2>1 DEF Moves, Unlocks, ClientIs, OutRefs, V0
<1>19a. ASSUME NEW c \in Clients, Research(c) PROVE OutRefs'
  <2>1. /\ client[c].pc = "updating"
        /\ Moves(c, "testing", client[c].disp) \/ Moves(c, "allowed", client[c].disp)
        /\ main' = main
    BY <1>19a, ResearchPost
  <2>2. QED
    BY <2>1 DEF Moves, Unlocks, ClientIs, OutRefs, V0
<1>19b. ASSUME NEW c \in Clients, TestFinal(c) PROVE OutRefs'
  <2>1. /\ client[c].pc = "testing"
        /\ Moves(c, "reviving", client[c].disp) \/ Moves(c, "allowed", client[c].disp)
        /\ main' = main
    BY <1>19b, TestFinalPost
  <2>2. QED
    BY <2>1 DEF Moves, Unlocks, ClientIs, OutRefs, V0
<1>20. ASSUME NEW c \in Clients, Reactivate(c) PROVE OutRefs'
  <2>1. /\ client[c].pc = "reviving"
        /\ Moves(c, "allowed", client[c].disp) /\ Unlocks(c)
        /\ main' = main
    BY <1>20, ReactivatePost
  <2>2. QED
    BY <2>1 DEF Moves, Unlocks, ClientIs, OutRefs, V0
<1>21. ASSUME NEW c \in Clients, FindV1(c) PROVE OutRefs'
  <2>1. /\ client[c].pc = "found" /\ ~V0(c)
        /\ \/ Moves(c, "start", client[c].disp) \/ Moves(c, "denied", client[c].disp)
           \/ Moves(c, "pick", client[c].disp)
        /\ main' = main
    BY <1>21, FindV1Post
  <2>2. QED
    BY <2>1 DEF Moves, ClientIs, OutRefs, V0
<1>22. ASSUME NEW c \in Clients, PickV1(c) PROVE OutRefs'
  <2>1. /\ client[c].pc = "picking"
        /\ Moves(c, "allowed", item[client[c].i].disp) \/ Moves(c, "denied", 0)
        /\ main' = main
    BY <1>22, PickV1Post
  <2>2. QED
    BY <2>1 DEF Moves, ClientIs, OutRefs, V0
<1>23. ASSUME NEW c \in Clients, StartSession(c) PROVE OutRefs'
  <2>1. /\ client[c].pc = "start" /\ ~sync.held
        /\ Moves(c, "wait", client[c].disp)
        /\ main' = main
    BY <1>23, StartSessionPost
  <2>2. QED
    BY <2>1 DEF Moves, ClientIs, OutRefs, V0
<1>24. ASSUME NEW c \in Clients, GetResult(c) PROVE OutRefs'
  <2>1. /\ client[c].pc = "wait" /\ sync.sem > 0
        /\ Moves(c, "denied", 0) \/ Moves(c, "allowed", sync.result)
        /\ main' = main
    BY <1>24, GetResultPost
  <2>2. QED
    BY <2>1 DEF Moves, ClientIs, OutRefs, V0
<1>25. CASE UNCHANGED <<main, client>>
  BY <1>25 DEF OutRefs, V0
<1>26. QED
  BY <1>1, <1>2, <1>3, <1>4, <1>5, <1>6, <1>7, <1>8, <1>9, <1>10, <1>11, <1>12, <1>13,
     <1>14, <1>15, <1>16, <1>17, <1>18, <1>19, <1>19a, <1>19b, <1>20, <1>21, <1>22,
     <1>23, <1>24, <1>25
  DEF Next, MainRuns, ClientRuns, WorkerRuns, MonitRuns, vars, chainVars, otherThreads,
     Request, FindSession, DestroySession, TestStatus, WriteStatus, ListAllocates,
     ListCopies, MonitLock, Inspect, FreeItem, UncountItem, MonitUnlock, KillAll,
     Shutdown, Exit, XChanges
-----------------------------------------------------------------------------
\* The start of a session is handed over to the main thread and back, for one
\* client at a time: lock_sync is held from session_start to its return.
LEMMA SyncNext == TypeOK /\ RefsInv /\ SyncInv /\ [Next]_vars => SyncInv'
<1> SUFFICES ASSUME TypeOK, RefsInv, SyncInv, [Next]_vars PROVE SyncInv'
  OBVIOUS
<1>1. ASSUME NEW c \in Clients, NEW u \in Users, NEW v \in Versions, Accept(c, u, v)
      PROVE  SyncInv'
  <2>1. /\ main.pc = "loop" /\ client[c].pc = "out"
        /\ MainIs("hand", c, main.i, main.cnt)
        /\ ClientIs(c, "out", u, v, client[c].sck, client[c].disp)
        /\ sync' = sync
    BY <1>1, AcceptPost DEF RefsInv
  <2>2. QED
    BY <2>1 DEF ClientIs, MainIs, SyncInv, MainBusy
<1>2. ASSUME HandOver PROVE SyncInv'
  <2>1. /\ main.pc = "hand" /\ main.conn \in Clients /\ socket.free
        /\ MainIs("loop", None, main.i, main.cnt)
        /\ \/ Moves(main.conn, "born", client[main.conn].disp)
           \/ Moves(main.conn, "stranded", client[main.conn].disp)
        /\ sync' = sync
    BY <1>2, HandOverPost DEF RefsInv
  <2>2. QED
    BY <2>1 DEF Moves, MainIs, ClientIs, RefsInv, OutRefs, SyncInv, MainBusy
<1>3. ASSUME SyncEvent PROVE SyncInv'
  <2>1. /\ main.pc = "loop" /\ sync.event
        /\ MainIs("sync", main.conn, main.i, main.cnt)
        /\ SyncIs(sync.held, sync.user, FALSE, sync.sem, sync.result)
        /\ client' = client
    BY <1>3, SyncEventPost DEF RefsInv
  <2>2. QED
    BY <2>1 DEF MainIs, SyncIs, SyncInv, MainBusy
<1>4. ASSUME SyncLock PROVE SyncInv'
  <2>1. /\ main.pc = "sync" /\ ~lock
        /\ MainIs("check", main.conn, main.i, main.cnt)
        /\ UNCHANGED <<sync, client>>
    BY <1>4, SyncLockPost DEF RefsInv
  <2>2. QED
    BY <2>1 DEF MainIs, SyncInv, MainBusy
<1>5. ASSUME StartRefused PROVE SyncInv'
  <2>1. /\ main.pc = "check"
        /\ MainIs("refused", main.conn, main.i, main.cnt)
        /\ SyncIs(sync.held, sync.user, sync.event, sync.sem, 0)
        /\ client' = client
    BY <1>5, StartRefusedPost DEF RefsInv
  <2>2. QED
    BY <2>1 DEF MainIs, SyncIs, SyncInv, MainBusy
<1>6. ASSUME NEW i \in Items, NEW d \in Displays, ChooseDisplay(i, d) PROVE SyncInv'
  <2>1. /\ main.pc = "check" /\ ~Full
        /\ MainIs("prepare", main.conn, i, main.cnt)
        /\ item[i].st = "unused" /\ Usable(d)
        /\ UNCHANGED <<sync, client>>
    BY <1>6, ChooseDisplayPost DEF RefsInv
  <2>2. QED
    BY <2>1 DEF MainIs, SyncInv, MainBusy
<1>7. ASSUME NEW r \in {0, 1} \cup Displays, StartFails(r) PROVE SyncInv'
  <2>1. /\ main.pc = "prepare"
        /\ MainIs("ended", main.conn, main.i, main.cnt)
        /\ r \in {0, 1, item[main.i].disp}
        /\ SyncIs(sync.held, sync.user, sync.event, sync.sem, r)
        /\ client' = client
    BY <1>7, StartFailsPost DEF RefsInv
  <2>2. QED
    BY <2>1 DEF MainIs, SyncIs, SyncInv, MainBusy
<1>8. ASSUME Fork PROVE SyncInv'
  <2>1. /\ main.pc = "prepare"
        /\ MainIs("waitx", main.conn, main.i, main.cnt)
        /\ UNCHANGED <<sync, client>>
    BY <1>8, ForkPost DEF RefsInv
  <2>2. QED
    BY <2>1 DEF MainIs, SyncInv, MainBusy
<1>9. ASSUME XTimeout PROVE SyncInv'
  <2>1. /\ main.pc = "waitx"
        /\ MainIs("ended", main.conn, main.i, main.cnt)
        /\ SyncIs(sync.held, sync.user, sync.event, sync.sem, 0)
        /\ client' = client
    BY <1>9, XTimeoutPost DEF RefsInv
  <2>2. QED
    BY <2>1 DEF MainIs, SyncIs, SyncInv, MainBusy
<1>10. ASSUME XAnswers PROVE SyncInv'
  <2>1. /\ main.pc = "waitx"
        /\ MainIs("relock", main.conn, main.i, main.cnt)
        /\ UNCHANGED <<sync, client>>
    BY <1>10, XAnswersPost DEF RefsInv
  <2>2. QED
    BY <2>1 DEF MainIs, SyncInv, MainBusy
<1>11. ASSUME Relock PROVE SyncInv'
  <2>1. /\ main.pc = "relock" /\ ~lock
        /\ MainIs("link", main.conn, main.i, main.cnt)
        /\ UNCHANGED <<sync, client>>
    BY <1>11, RelockPost DEF RefsInv
  <2>2. QED
    BY <2>1 DEF MainIs, SyncInv, MainBusy
<1>12. ASSUME LinkItem PROVE SyncInv'
  <2>1. /\ main.pc = "link" /\ main.i \in Items
        /\ MainIs("count", main.conn, main.i, count)
        /\ UNCHANGED <<sync, client>>
    BY <1>12, LinkItemPost DEF RefsInv
  <2>2. QED
    BY <2>1 DEF MainIs, SyncInv, MainBusy
<1>13. ASSUME CountItem PROVE SyncInv'
  <2>1. /\ main.pc = "count"
        /\ MainIs("ended", main.conn, main.i, 0)
        /\ SyncIs(sync.held, sync.user, sync.event, sync.sem, item[main.i].disp)
        /\ client' = client
    BY <1>13, CountItemPost DEF RefsInv
  <2>2. QED
    BY <2>1 DEF MainIs, SyncIs, SyncInv, MainBusy
<1>14. ASSUME SyncDone PROVE SyncInv'
  <2>1. /\ main.pc \in {"refused", "ended"}
        /\ MainIs("loop", main.conn, None, main.cnt)
        /\ SyncIs(sync.held, sync.user, sync.event, sync.sem + 1, sync.result)
        /\ client' = client
    BY <1>14, SyncDonePost DEF RefsInv
  <2>2. QED
    BY <2>1 DEF MainIs, SyncIs, SyncInv, MainBusy
<1>15. ASSUME NEW c \in Clients, CopySocket(c) PROVE SyncInv'
  <2>1. /\ client[c].pc = "born"
        /\ ClientIs(c, IF V0(c) THEN "creation" ELSE "auth", client[c].user,
                    client[c].version, socket.sck, client[c].disp)
        /\ UNCHANGED <<sync, main>>
    BY <1>15, CopySocketPost DEF RefsInv
  <2>2. QED
    BY <2>1 DEF ClientIs, SyncInv, MainBusy
<1>16. ASSUME NEW c \in Clients, CreationLock(c) PROVE SyncInv'
  <2>1. /\ client[c].pc = "creation" /\ ~creation
        /\ Moves(c, "auth", client[c].disp)
        /\ UNCHANGED <<sync, main>>
    BY <1>16, CreationLockPost DEF RefsInv
  <2>2. QED
    BY <2>1 DEF Moves, ClientIs, SyncInv, MainBusy
<1>17. ASSUME NEW c \in Clients, Authenticate(c) PROVE SyncInv'
  <2>1. /\ client[c].pc = "auth"
        /\ \/ Moves(c, "find", client[c].disp) /\ creation' = creation
           \/ Moves(c, "denied", 0) /\ Unlocks(c)
        /\ UNCHANGED <<sync, main>>
    BY <1>17, AuthenticatePost DEF RefsInv
  <2>2. CASE Moves(c, "find", client[c].disp)
    BY <2>1, <2>2 DEF Moves, ClientIs, SyncInv, MainBusy
  <2>3. CASE Moves(c, "denied", 0)
    BY <2>1, <2>3 DEF Moves, ClientIs, SyncInv, MainBusy
  <2>4. QED
    BY <2>1, <2>2, <2>3
<1>18. ASSUME NEW c \in Clients, ChainLock(c) PROVE SyncInv'
  <2>1. /\ ~lock
        /\ \/ client[c].pc = "find" /\ Moves(c, "found", client[c].disp)
           \/ client[c].pc = "update" /\ Moves(c, "updating", client[c].disp)
           \/ client[c].pc = "pick" /\ Moves(c, "picking", client[c].disp)
        /\ UNCHANGED <<sync, main>>
    BY <1>18, ChainLockPost DEF RefsInv
  <2>2. QED
    BY <2>1 DEF Moves, ClientIs, SyncInv, MainBusy
<1>19. ASSUME NEW c \in Clients, FindV0(c) PROVE SyncInv'
  <2>1. /\ client[c].pc = "found" /\ V0(c)
        /\ \/ Moves(c, "denied", 0) /\ Unlocks(c)
           \/ \E i \in SessionsOf(client[c].user) :
                Moves(c, "update", item[i].disp) /\ creation' = creation
           \/ /\ SessionsOf(client[c].user) = {} /\ creation' = creation
              /\ Moves(c, "start", client[c].disp)
        /\ UNCHANGED <<sync, main>>
    BY <1>19, FindV0Post DEF RefsInv
  <2>2. PICK p \in {"denied", "update", "start"} : \E d : Moves(c, p, d)
    BY <2>1
  <2>3. QED
    BY <2>1, <2>2 DEF Moves, ClientIs, SyncInv, MainBusy
<1>19a. ASSUME NEW c \in Clients, Research(c) PROVE SyncInv'
  <2>1. /\ client[c].pc = "updating"
        /\ Moves(c, "testing", client[c].disp) \/ Moves(c, "allowed", client[c].disp)
        /\ UNCHANGED <<sync, main>>
    BY <1>19a, ResearchPost DEF RefsInv
  <2>2. QED
    BY <2>1 DEF Moves, Unlocks, ClientIs, SyncInv, MainBusy
<1>19b. ASSUME NEW c \in Clients, TestFinal(c) PROVE SyncInv'
  <2>1. /\ client[c].pc = "testing"
        /\ Moves(c, "reviving", client[c].disp) \/ Moves(c, "allowed", client[c].disp)
        /\ UNCHANGED <<sync, main>>
    BY <1>19b, TestFinalPost DEF RefsInv
  <2>2. QED
    BY <2>1 DEF Moves, Unlocks, ClientIs, SyncInv, MainBusy
<1>20. ASSUME NEW c \in Clients, Reactivate(c) PROVE SyncInv'
  <2>1. /\ client[c].pc = "reviving"
        /\ Moves(c, "allowed", client[c].disp) /\ Unlocks(c)
        /\ UNCHANGED <<sync, main>>
    BY <1>20, ReactivatePost DEF RefsInv
  <2>2. QED
    BY <2>1 DEF Moves, Unlocks, ClientIs, SyncInv, MainBusy
<1>21. ASSUME NEW c \in Clients, FindV1(c) PROVE SyncInv'
  <2>1. /\ client[c].pc = "found" /\ ~V0(c)
        /\ \/ Moves(c, "start", client[c].disp) \/ Moves(c, "denied", client[c].disp)
           \/ Moves(c, "pick", client[c].disp)
        /\ UNCHANGED <<sync, main>>
    BY <1>21, FindV1Post DEF RefsInv
  <2>2. QED
    BY <2>1 DEF Moves, ClientIs, SyncInv, MainBusy
<1>22. ASSUME NEW c \in Clients, PickV1(c) PROVE SyncInv'
  <2>1. /\ client[c].pc = "picking"
        /\ Moves(c, "allowed", item[client[c].i].disp) \/ Moves(c, "denied", 0)
        /\ UNCHANGED <<sync, main>>
    BY <1>22, PickV1Post DEF RefsInv
  <2>2. QED
    BY <2>1 DEF Moves, ClientIs, SyncInv, MainBusy
<1>23. ASSUME NEW c \in Clients, StartSession(c) PROVE SyncInv'
  <2>1. /\ client[c].pc = "start" /\ ~sync.held
        /\ Moves(c, "wait", client[c].disp)
        /\ SyncIs(TRUE, client[c].user, TRUE, sync.sem, sync.result)
        /\ main' = main
    BY <1>23, StartSessionPost DEF RefsInv
  <2>2. QED
    BY <2>1 DEF Moves, SyncIs, ClientIs, SyncInv, MainBusy
<1>24. ASSUME NEW c \in Clients, GetResult(c) PROVE SyncInv'
  <2>1. /\ client[c].pc = "wait" /\ sync.sem > 0
        /\ Moves(c, "denied", 0) \/ Moves(c, "allowed", sync.result)
        /\ SyncIs(FALSE, sync.user, sync.event, sync.sem - 1, sync.result)
        /\ main' = main
    BY <1>24, GetResultPost DEF RefsInv
  <2>2. QED
    BY <2>1 DEF Moves, SyncIs, ClientIs, SyncInv, MainBusy
<1>25. CASE UNCHANGED <<sync, main, client>>
  BY <1>25 DEF SyncInv, MainBusy
<1>26. QED
  BY <1>1, <1>2, <1>3, <1>4, <1>5, <1>6, <1>7, <1>8, <1>9, <1>10, <1>11, <1>12, <1>13,
     <1>14, <1>15, <1>16, <1>17, <1>18, <1>19, <1>19a, <1>19b, <1>20, <1>21, <1>22,
     <1>23, <1>24, <1>25
  DEF Next, MainRuns, ClientRuns, WorkerRuns, MonitRuns, vars, chainVars, otherThreads,
     Request, FindSession, DestroySession, TestStatus, WriteStatus, ListAllocates,
     ListCopies, MonitLock, Inspect, FreeItem, UncountItem, MonitUnlock, KillAll,
     Shutdown, Exit, XChanges

\* The item in the hands of the main thread belongs to the user of the start.
LEMMA NewNext == TypeOK /\ RefsInv /\ SyncInv /\ NewInv /\ [Next]_vars => NewInv'
<1> SUFFICES ASSUME TypeOK, RefsInv, SyncInv, NewInv, [Next]_vars PROVE NewInv'
  OBVIOUS
<1>1. ASSUME NEW c \in Clients, NEW u \in Users, NEW v \in Versions, Accept(c, u, v)
      PROVE  NewInv'
  <2>1. /\ main.pc = "loop" /\ client[c].pc = "out"
        /\ MainIs("hand", c, main.i, main.cnt)
        /\ UNCHANGED <<item, sync>>
    BY <1>1, AcceptPost DEF RefsInv
  <2>2. QED
    BY <2>1, Ranges DEF MainIs, NewInv, Starting
<1>2. ASSUME HandOver PROVE NewInv'
  <2>1. /\ main.pc = "hand" /\ main.conn \in Clients /\ socket.free
        /\ MainIs("loop", None, main.i, main.cnt)
        /\ UNCHANGED <<item, sync>>
    BY <1>2, HandOverPost DEF RefsInv
  <2>2. QED
    BY <2>1, Ranges DEF MainIs, NewInv, Starting
<1>3. ASSUME SyncEvent PROVE NewInv'
  <2>1. /\ main.pc = "loop" /\ sync.event
        /\ MainIs("sync", main.conn, main.i, main.cnt)
        /\ SyncIs(sync.held, sync.user, FALSE, sync.sem, sync.result)
        /\ item' = item
    BY <1>3, SyncEventPost DEF RefsInv
  <2>2. QED
    BY <2>1, Ranges DEF MainIs, SyncIs, NewInv, Starting
<1>4. ASSUME SyncLock PROVE NewInv'
  <2>1. /\ main.pc = "sync" /\ ~lock
        /\ MainIs("check", main.conn, main.i, main.cnt)
        /\ UNCHANGED <<item, sync>>
    BY <1>4, SyncLockPost DEF RefsInv
  <2>2. QED
    BY <2>1, Ranges DEF MainIs, NewInv, Starting
<1>5. ASSUME StartRefused PROVE NewInv'
  <2>1. /\ main.pc = "check"
        /\ MainIs("refused", main.conn, main.i, main.cnt)
        /\ SyncIs(sync.held, sync.user, sync.event, sync.sem, 0)
        /\ item' = item
    BY <1>5, StartRefusedPost DEF RefsInv
  <2>2. QED
    BY <2>1, Ranges DEF MainIs, SyncIs, NewInv, Starting
<1>6. ASSUME NEW i \in Items, NEW d \in Displays, ChooseDisplay(i, d) PROVE NewInv'
  <2>1. /\ main.pc = "check" /\ ~Full
        /\ MainIs("prepare", main.conn, i, main.cnt)
        /\ item[i].st = "unused" /\ Usable(d)
        /\ ItemIs(i, "new", sync.user, d)
        /\ sync' = sync
    BY <1>6, ChooseDisplayPost DEF RefsInv
  <2>2. QED
    BY <2>1, Ranges DEF MainIs, ItemIs, NewInv, Starting
<1>7. ASSUME NEW r \in {0, 1} \cup Displays, StartFails(r) PROVE NewInv'
  <2>1. /\ main.pc = "prepare"
        /\ MainIs("ended", main.conn, main.i, main.cnt)
        /\ r \in {0, 1, item[main.i].disp}
        /\ SyncIs(sync.held, sync.user, sync.event, sync.sem, r)
        /\ item' = item
    BY <1>7, StartFailsPost DEF RefsInv
  <2>2. QED
    BY <2>1, Ranges DEF MainIs, SyncIs, NewInv, Starting
<1>8. ASSUME Fork PROVE NewInv'
  <2>1. /\ main.pc = "prepare"
        /\ MainIs("waitx", main.conn, main.i, main.cnt)
        /\ UNCHANGED <<item, sync>>
    BY <1>8, ForkPost DEF RefsInv
  <2>2. QED
    BY <2>1, Ranges DEF MainIs, NewInv, Starting
<1>9. ASSUME XTimeout PROVE NewInv'
  <2>1. /\ main.pc = "waitx"
        /\ MainIs("ended", main.conn, main.i, main.cnt)
        /\ SyncIs(sync.held, sync.user, sync.event, sync.sem, 0)
        /\ item' = item
    BY <1>9, XTimeoutPost DEF RefsInv
  <2>2. QED
    BY <2>1, Ranges DEF MainIs, SyncIs, NewInv, Starting
<1>10. ASSUME XAnswers PROVE NewInv'
  <2>1. /\ main.pc = "waitx"
        /\ MainIs("relock", main.conn, main.i, main.cnt)
        /\ UNCHANGED <<item, sync>>
    BY <1>10, XAnswersPost DEF RefsInv
  <2>2. QED
    BY <2>1, Ranges DEF MainIs, NewInv, Starting
<1>11. ASSUME Relock PROVE NewInv'
  <2>1. /\ main.pc = "relock" /\ ~lock
        /\ MainIs("link", main.conn, main.i, main.cnt)
        /\ UNCHANGED <<item, sync>>
    BY <1>11, RelockPost DEF RefsInv
  <2>2. QED
    BY <2>1, Ranges DEF MainIs, NewInv, Starting
<1>12. ASSUME LinkItem PROVE NewInv'
  <2>1. /\ main.pc = "link" /\ main.i \in Items
        /\ MainIs("count", main.conn, main.i, count)
        /\ ItemIs(main.i, "linked", item[main.i].user, item[main.i].disp)
        /\ sync' = sync
    BY <1>12, LinkItemPost DEF RefsInv
  <2>2. QED
    BY <2>1, Ranges DEF MainIs, ItemIs, NewInv, Starting
<1>13. ASSUME CountItem PROVE NewInv'
  <2>1. /\ main.pc = "count"
        /\ MainIs("ended", main.conn, main.i, 0)
        /\ SyncIs(sync.held, sync.user, sync.event, sync.sem, item[main.i].disp)
        /\ item' = item
    BY <1>13, CountItemPost DEF RefsInv
  <2>2. QED
    BY <2>1, Ranges DEF MainIs, SyncIs, NewInv, Starting
<1>14. ASSUME SyncDone PROVE NewInv'
  <2>1. /\ main.pc \in {"refused", "ended"}
        /\ MainIs("loop", main.conn, None, main.cnt)
        /\ SyncIs(sync.held, sync.user, sync.event, sync.sem + 1, sync.result)
        /\ item' = item
    BY <1>14, SyncDonePost DEF RefsInv
  <2>2. QED
    BY <2>1, Ranges DEF MainIs, SyncIs, NewInv, Starting
<1>15. ASSUME NEW c \in Clients, Reactivate(c) PROVE NewInv'
  <2>1. \A j \in Items : /\ item'[j].user = item[j].user /\ item'[j].disp = item[j].disp
                         /\ item'[j].st = item[j].st
    BY <1>15, ReactivatePost, Ranges DEF ItemIs, RefsInv, MonitRefs
  <2>2. UNCHANGED <<main, sync>>
    BY <1>15, ReactivatePost DEF RefsInv
  <2>3. QED
    BY <2>1, <2>2 DEF NewInv, Starting, RefsInv, MainRefs
<1>16. ASSUME NEW c \in Clients, StartSession(c) PROVE NewInv'
  <2>1. /\ client[c].pc = "start" /\ ~sync.held
        /\ SyncIs(TRUE, client[c].user, TRUE, sync.sem, sync.result)
        /\ UNCHANGED <<item, main>>
    BY <1>16, StartSessionPost DEF RefsInv
  <2>2. QED
    BY <2>1, Ranges DEF SyncIs, SyncInv, MainBusy, NewInv, Starting
<1>17. ASSUME NEW c \in Clients, GetResult(c) PROVE NewInv'
  <2>1. /\ client[c].pc = "wait" /\ sync.sem > 0
        /\ SyncIs(FALSE, sync.user, sync.event, sync.sem - 1, sync.result)
        /\ UNCHANGED <<item, main>>
    BY <1>17, GetResultPost DEF RefsInv
  <2>2. QED
    BY <2>1, Ranges DEF SyncIs, NewInv, Starting
<1>18. ASSUME NEW w \in Workers, WriteStatus(w) PROVE NewInv'
  <2>1. \A j \in Items : /\ item'[j].user = item[j].user /\ item'[j].disp = item[j].disp
                         /\ item'[j].st = item[j].st
    BY <1>18, WriteStatusPost, Ranges DEF ItemIs, RefsInv, MonitRefs
  <2>2. UNCHANGED <<main, sync>>
    BY <1>18, WriteStatusPost DEF RefsInv
  <2>3. QED
    BY <2>1, <2>2 DEF NewInv, Starting, RefsInv, MainRefs
<1>19. ASSUME FreeItem PROVE NewInv'
  <2>1. \A j \in Items : /\ item'[j].user = item[j].user /\ item'[j].disp = item[j].disp
                         /\ \/ item'[j].st = item[j].st
                            \/ (item[j].st = "linked" /\ item'[j].st = "freed")
    BY <1>19, FreeItemPost, Ranges DEF ItemIs, RefsInv, MonitRefs
  <2>2. UNCHANGED <<main, sync>>
    BY <1>19, FreeItemPost DEF RefsInv
  <2>3. QED
    BY <2>1, <2>2 DEF NewInv, Starting, RefsInv, MainRefs
<1>20. CASE UNCHANGED <<item, sync, main>>
  BY <1>20 DEF NewInv, Starting
<1>21. QED
  BY <1>1, <1>2, <1>3, <1>4, <1>5, <1>6, <1>7, <1>8, <1>9, <1>10, <1>11, <1>12, <1>13,
     <1>14, <1>15, <1>16, <1>17, <1>18, <1>19, <1>20
  DEF Next, MainRuns, ClientRuns, WorkerRuns, MonitRuns, vars, chainVars, otherThreads,
     CopySocket, CreationLock, Authenticate, ChainLock, FindV0, Research, TestFinal,
     FindV1, PickV1, Request, FindSession, DestroySession, TestStatus, ListAllocates,
     ListCopies, MonitLock, Inspect, UncountItem, MonitUnlock, KillAll, Shutdown, Exit,
     XChanges

\* g_lock_socket keeps g_thread_sck until the new thread has copied it.
LEMMA SocketNext == TypeOK /\ RefsInv /\ SocketInv /\ [Next]_vars => SocketInv'
<1> SUFFICES ASSUME TypeOK, RefsInv, SocketInv, [Next]_vars PROVE SocketInv'
  OBVIOUS
<1>1. ASSUME NEW c \in Clients, NEW u \in Users, NEW v \in Versions, Accept(c, u, v)
      PROVE  SocketInv'
  <2>1. /\ main.pc = "loop" /\ client[c].pc = "out"
        /\ ClientIs(c, "out", u, v, client[c].sck, client[c].disp)
        /\ socket' = socket
    BY <1>1, AcceptPost DEF RefsInv
  <2>2. QED
    BY <2>1 DEF ClientIs, SocketInv
<1>2. ASSUME HandOver PROVE SocketInv'
  <2>1. /\ main.pc = "hand" /\ main.conn \in Clients /\ socket.free
        /\ ~socket'.free /\ socket'.sck = main.conn
        /\ \/ Moves(main.conn, "born", client[main.conn].disp)
           \/ Moves(main.conn, "stranded", client[main.conn].disp)
    BY <1>2, HandOverPost DEF RefsInv
  <2>2. QED
    BY <2>1 DEF Moves, ClientIs, RefsInv, SocketInv
<1>3. ASSUME NEW c \in Clients, CopySocket(c) PROVE SocketInv'
  <2>1. /\ client[c].pc = "born"
        /\ ClientIs(c, IF V0(c) THEN "creation" ELSE "auth", client[c].user,
                    client[c].version, socket.sck, client[c].disp)
        /\ socket'.free = TRUE /\ socket'.sck = socket.sck
    BY <1>3, CopySocketPost DEF RefsInv
  <2>2. QED
    BY <2>1 DEF ClientIs, SocketInv
<1>4. ASSUME NEW c \in Clients, CreationLock(c) PROVE SocketInv'
  <2>1. /\ client[c].pc = "creation" /\ ~creation
        /\ Moves(c, "auth", client[c].disp)
        /\ socket' = socket
    BY <1>4, CreationLockPost DEF RefsInv
  <2>2. QED
    BY <2>1 DEF Moves, ClientIs, SocketInv
<1>5. ASSUME NEW c \in Clients, Authenticate(c) PROVE SocketInv'
  <2>1. /\ client[c].pc = "auth"
        /\ \/ Moves(c, "find", client[c].disp) /\ creation' = creation
           \/ Moves(c, "denied", 0) /\ Unlocks(c)
        /\ socket' = socket
    BY <1>5, AuthenticatePost DEF RefsInv
  <2>2. QED
    BY <2>1 DEF Moves, Unlocks, ClientIs, SocketInv
<1>6. ASSUME NEW c \in Clients, ChainLock(c) PROVE SocketInv'
  <2>1. /\ ~lock
        /\ \/ client[c].pc = "find" /\ Moves(c, "found", client[c].disp)
           \/ client[c].pc = "update" /\ Moves(c, "updating", client[c].disp)
           \/ client[c].pc = "pick" /\ Moves(c, "picking", client[c].disp)
        /\ socket' = socket
    BY <1>6, ChainLockPost DEF RefsInv
  <2>2. QED
    BY <2>1 DEF Moves, ClientIs, SocketInv
<1>7. ASSUME NEW c \in Clients, FindV0(c) PROVE SocketInv'
  <2>1. /\ client[c].pc = "found" /\ V0(c)
        /\ \/ Moves(c, "denied", 0) /\ Unlocks(c)
           \/ \E i \in SessionsOf(client[c].user) :
                Moves(c, "update", item[i].disp) /\ creation' = creation
           \/ /\ SessionsOf(client[c].user) = {} /\ creation' = creation
              /\ Moves(c, "start", client[c].disp)
        /\ socket' = socket
    BY <1>7, FindV0Post DEF RefsInv
  <2>2. QED
    BY <2>1 DEF Moves, Unlocks, ClientIs, SocketInv
<1>7a. ASSUME NEW c \in Clients, Research(c) PROVE SocketInv'
  <2>1. /\ client[c].pc = "updating"
        /\ Moves(c, "testing", client[c].disp) \/ Moves(c, "allowed", client[c].disp)
        /\ socket' = socket
    BY <1>7a, ResearchPost DEF RefsInv
  <2>2. QED
    BY <2>1 DEF Moves, Unlocks, ClientIs, SocketInv
<1>7b. ASSUME NEW c \in Clients, TestFinal(c) PROVE SocketInv'
  <2>1. /\ client[c].pc = "testing"
        /\ Moves(c, "reviving", client[c].disp) \/ Moves(c, "allowed", client[c].disp)
        /\ socket' = socket
    BY <1>7b, TestFinalPost DEF RefsInv
  <2>2. QED
    BY <2>1 DEF Moves, Unlocks, ClientIs, SocketInv
<1>8. ASSUME NEW c \in Clients, Reactivate(c) PROVE SocketInv'
  <2>1. /\ client[c].pc = "reviving"
        /\ Moves(c, "allowed", client[c].disp) /\ Unlocks(c)
        /\ socket' = socket
    BY <1>8, ReactivatePost DEF RefsInv
  <2>2. QED
    BY <2>1 DEF Moves, Unlocks, ClientIs, SocketInv
<1>9. ASSUME NEW c \in Clients, FindV1(c) PROVE SocketInv'
  <2>1. /\ client[c].pc = "found" /\ ~V0(c)
        /\ \/ Moves(c, "start", client[c].disp) \/ Moves(c, "denied", client[c].disp)
           \/ Moves(c, "pick", client[c].disp)
        /\ socket' = socket
    BY <1>9, FindV1Post DEF RefsInv
  <2>2. QED
    BY <2>1 DEF Moves, ClientIs, SocketInv
<1>10. ASSUME NEW c \in Clients, PickV1(c) PROVE SocketInv'
  <2>1. /\ client[c].pc = "picking"
        /\ Moves(c, "allowed", item[client[c].i].disp) \/ Moves(c, "denied", 0)
        /\ socket' = socket
    BY <1>10, PickV1Post DEF RefsInv
  <2>2. QED
    BY <2>1 DEF Moves, ClientIs, SocketInv
<1>11. ASSUME NEW c \in Clients, StartSession(c) PROVE SocketInv'
  <2>1. /\ client[c].pc = "start" /\ ~sync.held
        /\ Moves(c, "wait", client[c].disp)
        /\ socket' = socket
    BY <1>11, StartSessionPost DEF RefsInv
  <2>2. QED
    BY <2>1 DEF Moves, ClientIs, SocketInv
<1>12. ASSUME NEW c \in Clients, GetResult(c) PROVE SocketInv'
  <2>1. /\ client[c].pc = "wait" /\ sync.sem > 0
        /\ Moves(c, "denied", 0) \/ Moves(c, "allowed", sync.result)
        /\ socket' = socket
    BY <1>12, GetResultPost DEF RefsInv
  <2>2. QED
    BY <2>1 DEF Moves, ClientIs, SocketInv
<1>13. CASE UNCHANGED <<socket, client>>
  BY <1>13 DEF SocketInv
<1>14. QED
  BY <1>1, <1>2, <1>3, <1>4, <1>5, <1>6, <1>7, <1>7a, <1>7b, <1>8, <1>9, <1>10, <1>11,
     <1>12, <1>13
  DEF Next, MainRuns, ClientRuns, WorkerRuns, MonitRuns, vars, chainVars, otherThreads,
     SyncEvent, SyncLock, StartRefused, ChooseDisplay, StartFails, Fork, XTimeout,
     XAnswers, Relock, LinkItem, CountItem, SyncDone, Request, FindSession,
     DestroySession, TestStatus, WriteStatus, ListAllocates, ListCopies, MonitLock,
     Inspect, FreeItem, UncountItem, MonitUnlock, KillAll, Shutdown, Exit, XChanges

\* No item that was allocated changes its user or its display; one that is allocated
\* gets a display.
Stays == \A j \in Items :
  IF item[j].st = "unused"
  THEN item'[j].st # "unused" => item'[j].disp # 0
  ELSE item'[j].st # "unused" /\ item'[j].user = item[j].user /\ item'[j].disp = item[j].disp

\* An allocated item keeps its user and its display.
LEMMA ItemsStay == TypeOK /\ RefsInv /\ NewInv /\ [Next]_vars => Stays
<1> SUFFICES ASSUME TypeOK, RefsInv, NewInv, [Next]_vars PROVE Stays
  OBVIOUS
<1>1. ASSUME NEW i \in Items, NEW d \in Displays, ChooseDisplay(i, d) PROVE Stays
  <2>1. /\ main.pc = "check" /\ ~Full
        /\ item[i].st = "unused" /\ Usable(d)
        /\ ItemIs(i, "new", sync.user, d)
    BY <1>1, ChooseDisplayPost DEF RefsInv
  <2>2. d # 0
    BY SesmanAssumption DEF Displays, First
  <2>3. QED
    BY <2>1, <2>2, Ranges DEF ItemIs, Stays
<1>2. ASSUME LinkItem PROVE Stays
  <2>1. /\ main.pc = "link" /\ main.i \in Items
        /\ ItemIs(main.i, "linked", item[main.i].user, item[main.i].disp)
    BY <1>2, LinkItemPost DEF RefsInv
  <2>2. QED
    BY <2>1, Ranges DEF ItemIs, NewInv, Starting, Stays
<1>3. ASSUME NEW c \in Clients, Reactivate(c) PROVE Stays
  <2>1. /\ client[c].i \in Items
        /\ ItemIs(client[c].i, item[client[c].i].st, item[client[c].i].user,
                  item[client[c].i].disp)
    BY <1>3, ReactivatePost DEF RefsInv
  <2>2. QED
    BY <2>1, Ranges DEF ItemIs, Stays
<1>4. ASSUME NEW w \in Workers, WriteStatus(w) PROVE Stays
  <2>1. /\ worker[w].pc = "writing"
        /\ ItemIs(worker[w].i, item[worker[w].i].st, item[worker[w].i].user,
                  item[worker[w].i].disp)
        /\ worker[w].i \in Items
    BY <1>4, WriteStatusPost DEF RefsInv
  <2>2. QED
    BY <2>1, Ranges DEF ItemIs, Stays
<1>5. ASSUME FreeItem PROVE Stays
  <2>1. /\ monit.pc = "destroy" /\ monit.tmp \in monit.todo /\ monit.tmp \in Items
        /\ ItemIs(monit.tmp, "freed", item[monit.tmp].user, item[monit.tmp].disp)
    BY <1>5, FreeItemPost DEF RefsInv
  <2>2. item[monit.tmp].st # "unused"
    BY <2>1 DEF RefsInv, MonitRefs
  <2>3. QED
    BY <2>1, <2>2, Ranges DEF ItemIs, Stays
<1>6. CASE UNCHANGED <<item>>
  BY <1>6 DEF Stays
<1>7. QED
  BY <1>1, <1>2, <1>3, <1>4, <1>5, <1>6
  DEF Next, MainRuns, ClientRuns, WorkerRuns, MonitRuns, vars, chainVars, otherThreads,
     Accept, HandOver, SyncEvent, SyncLock, StartRefused, StartFails, Fork, XTimeout,
     XAnswers, Relock, CountItem, SyncDone, CopySocket, CreationLock, Authenticate,
     ChainLock, FindV0, Research, TestFinal, FindV1, PickV1, StartSession, GetResult,
     Request, FindSession, DestroySession, TestStatus, ListAllocates, ListCopies,
     MonitLock, Inspect, UncountItem, MonitUnlock, KillAll, Shutdown, Exit, XChanges

\* RightFor and OwnInv after the step.
RightAfter(d, u) ==
  \/ \E i \in Items : item'[i].st # "unused" /\ item'[i].user = u /\ item'[i].disp = d
  \/ d = 1 /\ u \in Homeless
ClientOwnsAfter(c) ==
  /\ client'[c].disp # 0 => RightAfter(client'[c].disp, client'[c].user)
  /\ client'[c].pc \in {"update", "updating", "testing", "reviving"} => client'[c].disp # 0
  /\ client'[c].pc = "allowed" /\ client'[c].version = 0 => client'[c].disp # 0
  /\ client'[c].pc \in {"pick", "picking"} => /\ item'[client'[c].i].st # "unused"
                                             /\ item'[client'[c].i].user = client'[c].user
SyncOwnsAfter ==
  (sync'.sem # 0 \/ main'.pc \in {"refused", "ended"}) /\ sync'.result # 0
    => RightAfter(sync'.result, sync'.user)
OwnAfter == (\A c \in Clients : ClientOwnsAfter(c)) /\ SyncOwnsAfter

\* Every display in the hands of a client was chosen for its user.
LEMMA OwnNext == TypeOK /\ RefsInv /\ SyncInv /\ NewInv /\ OwnInv /\ [Next]_vars => OwnInv'
<1> SUFFICES ASSUME TypeOK, RefsInv, SyncInv, NewInv, OwnInv, [Next]_vars PROVE OwnInv'
  OBVIOUS
<1>a. Stays
  BY ItemsStay
<1>b. \A d, u : RightFor(d, u) => RightAfter(d, u)
  BY <1>a DEF Stays, ChosenFor, RightFor, RightAfter
<1>c. SUFFICES OwnAfter
  <2>1. \A i \in Items : item'[i].st # "unused" => item'[i].disp # 0
    BY <1>a DEF Stays, OwnInv
  <2>2. QED
    BY <1>c, <2>1 DEF OwnInv, OwnAfter, ClientOwns, ClientOwnsAfter, SyncOwns, SyncOwnsAfter,
       RightFor, RightAfter, ChosenFor, V0
<1>d. \A e \in Clients : client'[e] = client[e] => ClientOwnsAfter(e)
  <2> SUFFICES ASSUME NEW e \in Clients, client'[e] = client[e] PROVE ClientOwnsAfter(e)
    OBVIOUS
  <2>1. ClientOwns(e)
    BY DEF OwnInv
  <2>2. client[e].pc \in {"pick", "picking"} =>
          item'[client[e].i].st # "unused" /\ item'[client[e].i].user = client[e].user
    BY <2>1, <1>a DEF ClientOwns, RefsInv, ClientRefs, Stays
  <2>3. QED
    BY <2>1, <2>2, <1>b DEF ClientOwns, ClientOwnsAfter, V0
<1>e. sync' = sync /\ (main'.pc \in {"refused", "ended"} => main.pc \in {"refused", "ended"})
        => SyncOwnsAfter
  BY <1>b DEF OwnInv, SyncOwns, SyncOwnsAfter
<1>f. ASSUME NEW c \in Clients, NEW p, NEW d, Moves(c, p, d), p \notin {"pick", "picking"},
             d # 0 => RightFor(d, client[c].user),
             p \in {"update", "updating", "testing", "reviving"} => d # 0,
             p = "allowed" /\ V0(c) => d # 0
      PROVE  \A e \in Clients : ClientOwnsAfter(e)
  <2>1. ClientOwnsAfter(c)
    BY <1>f, <1>b DEF Moves, ClientIs, ClientOwnsAfter, V0
  <2>2. \A e \in Clients \ {c} : ClientOwnsAfter(e)
    BY <1>f, <1>d DEF Moves, ClientIs
  <2>3. QED
    BY <2>1, <2>2
<1>g. \A c \in Clients : ClientOwns(c)
  BY DEF OwnInv
<1>h. UNCHANGED client => \A e \in Clients : ClientOwnsAfter(e)
  BY <1>d
<1>1. ASSUME NEW c \in Clients, NEW u \in Users, NEW v \in Versions, Accept(c, u, v)
      PROVE  OwnAfter
  <2>1. /\ main.pc = "loop" /\ client[c].pc = "out"
        /\ MainIs("hand", c, main.i, main.cnt)
        /\ ClientIs(c, "out", u, v, client[c].sck, client[c].disp)
        /\ sync' = sync
    BY <1>1, AcceptPost DEF RefsInv
  <2>2. client[c].disp = 0
    BY <2>1 DEF RefsInv, OutRefs
  <2>3. ClientOwnsAfter(c)
    BY <2>1, <2>2 DEF ClientIs, ClientOwnsAfter
  <2>4. \A e \in Clients \ {c} : ClientOwnsAfter(e)
    BY <2>1, <1>d DEF ClientIs
  <2>5. QED
    BY <2>1, <2>3, <2>4, <1>e DEF MainIs, OwnAfter
<1>2. ASSUME HandOver PROVE OwnAfter
  <2>1. /\ main.pc = "hand" /\ main.conn \in Clients
        /\ MainIs("loop", None, main.i, main.cnt)
        /\ \E p \in {"born", "stranded"} : Moves(main.conn, p, client[main.conn].disp)
        /\ sync' = sync
    BY <1>2, HandOverPost DEF RefsInv
  <2>2. client[main.conn].disp # 0 => RightFor(client[main.conn].disp, client[main.conn].user)
    BY <2>1, <1>g DEF ClientOwns
  <2>3. QED
    BY <2>1, <2>2, <1>e, <1>f DEF MainIs, OwnAfter
<1>3. ASSUME SyncEvent PROVE OwnAfter
  <2>1. /\ main.pc = "loop" /\ sync.event
        /\ MainIs("sync", main.conn, main.i, main.cnt)
        /\ SyncIs(sync.held, sync.user, FALSE, sync.sem, sync.result)
        /\ client' = client
    BY <1>3, SyncEventPost DEF RefsInv
  <2>2. SyncOwnsAfter
    BY <2>1, <1>b DEF MainIs, SyncIs, OwnInv, SyncOwns, SyncOwnsAfter
  <2>3. QED
    BY <2>1, <2>2, <1>h DEF OwnAfter
<1>4. ASSUME SyncLock \/ (\E i \in Items, d \in Displays : ChooseDisplay(i, d)) \/ Fork \/ XAnswers
             \/ Relock \/ LinkItem
      PROVE  OwnAfter
  <2>1. main'.pc \notin {"refused", "ended"} /\ sync' = sync /\ client' = client
    BY <1>4, SyncLockPost, ChooseDisplayPost, ForkPost, XAnswersPost, RelockPost, LinkItemPost
    DEF MainIs, RefsInv
  <2>2. QED
    BY <2>1, <1>e, <1>h DEF OwnAfter
<1>5. ASSUME StartRefused \/ XTimeout PROVE OwnAfter
  <2>1. SyncIs(sync.held, sync.user, sync.event, sync.sem, 0) /\ client' = client
    BY <1>5, StartRefusedPost, XTimeoutPost DEF RefsInv
  <2>2. SyncOwnsAfter
    BY <2>1 DEF SyncIs, SyncOwnsAfter
  <2>3. QED
    BY <2>1, <2>2, <1>h DEF OwnAfter
<1>6. ASSUME NEW r \in {0, 1} \cup Displays, StartFails(r) PROVE OwnAfter
  <2>1. /\ main.pc = "prepare"
        /\ r \in {0, 1, item[main.i].disp} /\ (r = 1 => sync.user \in Homeless)
        /\ SyncIs(sync.held, sync.user, sync.event, sync.sem, r)
        /\ client' = client
    BY <1>6, StartFailsPost DEF RefsInv
  <2>2. RightFor(item[main.i].disp, sync.user)
    BY <2>1 DEF NewInv, Starting, RefsInv, MainRefs, ChosenFor, RightFor
  <2>3. r # 0 => RightFor(r, sync.user)
    BY <2>1, <2>2 DEF RightFor
  <2>4. SyncOwnsAfter
    BY <2>1, <2>3, <1>b DEF SyncIs, SyncOwnsAfter
  <2>5. QED
    BY <2>1, <2>4, <1>h DEF OwnAfter
<1>7. ASSUME CountItem PROVE OwnAfter
  <2>1. /\ main.pc = "count"
        /\ SyncIs(sync.held, sync.user, sync.event, sync.sem, item[main.i].disp)
        /\ client' = client
    BY <1>7, CountItemPost DEF RefsInv
  <2>2. RightFor(item[main.i].disp, sync.user)
    BY <2>1 DEF NewInv, Starting, RefsInv, MainRefs, ChosenFor, RightFor
  <2>3. SyncOwnsAfter
    BY <2>1, <2>2, <1>b DEF SyncIs, SyncOwnsAfter
  <2>4. QED
    BY <2>1, <2>3, <1>h DEF OwnAfter
<1>8. ASSUME SyncDone PROVE OwnAfter
  <2>1. /\ main.pc \in {"refused", "ended"}
        /\ SyncIs(sync.held, sync.user, sync.event, sync.sem + 1, sync.result)
        /\ client' = client
    BY <1>8, SyncDonePost DEF RefsInv
  <2>2. SyncOwnsAfter
    BY <2>1, <1>b DEF SyncIs, OwnInv, SyncOwns, SyncOwnsAfter
  <2>3. QED
    BY <2>1, <2>2, <1>h DEF OwnAfter
<1>9. ASSUME NEW c \in Clients, CopySocket(c) PROVE OwnAfter
  <2>1. /\ ClientIs(c, IF V0(c) THEN "creation" ELSE "auth", client[c].user,
                    client[c].version, socket.sck, client[c].disp)
        /\ UNCHANGED <<sync, main>>
    BY <1>9, CopySocketPost DEF RefsInv
  <2>2. ClientOwnsAfter(c)
    BY <2>1, <1>b, <1>g DEF ClientIs, ClientOwns, ClientOwnsAfter
  <2>3. \A e \in Clients \ {c} : ClientOwnsAfter(e)
    BY <2>1, <1>d DEF ClientIs
  <2>4. QED
    BY <2>1, <2>2, <2>3, <1>e DEF OwnAfter
<1>10. ASSUME NEW c \in Clients, CreationLock(c) \/ Authenticate(c) PROVE OwnAfter
  <2>1. /\ \/ \E p \in {"auth", "find"} : Moves(c, p, client[c].disp)
           \/ Moves(c, "denied", 0)
        /\ UNCHANGED <<sync, main>>
    BY <1>10, CreationLockPost, AuthenticatePost DEF RefsInv
  <2>2. client[c].disp # 0 => RightFor(client[c].disp, client[c].user)
    BY <1>g DEF ClientOwns
  <2>3. QED
    BY <2>1, <2>2, <1>e, <1>f DEF OwnAfter
<1>11. ASSUME NEW c \in Clients, ChainLock(c) PROVE OwnAfter
  <2>1. /\ \/ client[c].pc = "find" /\ Moves(c, "found", client[c].disp)
           \/ client[c].pc = "update" /\ Moves(c, "updating", client[c].disp)
           \/ client[c].pc = "pick" /\ Moves(c, "picking", client[c].disp)
        /\ client'[c].i = client[c].i
        /\ UNCHANGED <<item, sync, main>>
    BY <1>11, ChainLockPost DEF RefsInv
  <2>2. ClientOwnsAfter(c)
    BY <2>1, <1>b, <1>g DEF Moves, ClientIs, ClientOwns, ClientOwnsAfter
  <2>3. \A e \in Clients \ {c} : ClientOwnsAfter(e)
    BY <2>1, <1>d DEF Moves, ClientIs
  <2>4. QED
    BY <2>1, <2>2, <2>3, <1>e DEF OwnAfter
<1>12. ASSUME NEW c \in Clients, FindV0(c) PROVE OwnAfter
  <2>1. /\ \/ Moves(c, "denied", 0)
           \/ \E i \in SessionsOf(client[c].user) : Moves(c, "update", item[i].disp)
           \/ Moves(c, "start", client[c].disp)
        /\ UNCHANGED <<sync, main>>
    BY <1>12, FindV0Post DEF RefsInv
  <2>2. \A i \in SessionsOf(client[c].user) : item[i].disp # 0 /\ RightFor(item[i].disp, client[c].user)
    BY Ranges DEF SessionsOf, RefsInv, MonitRefs, ChosenFor, RightFor, OwnInv
  <2>3. client[c].disp # 0 => RightFor(client[c].disp, client[c].user)
    BY <1>g DEF ClientOwns
  <2>4. QED
    BY <2>1, <2>2, <2>3, <1>e, <1>f DEF OwnAfter
<1>13. ASSUME NEW c \in Clients, Research(c) \/ TestFinal(c) \/ Reactivate(c) PROVE OwnAfter
  <2>1. /\ client[c].pc \in {"updating", "testing", "reviving"}
        /\ \E p \in {"testing", "reviving", "allowed"} : Moves(c, p, client[c].disp)
        /\ UNCHANGED <<sync, main>>
    BY <1>13, ResearchPost, TestFinalPost, ReactivatePost DEF RefsInv
  <2>2. client[c].disp # 0 /\ RightFor(client[c].disp, client[c].user)
    BY <2>1, <1>g DEF ClientOwns
  <2>3. QED
    BY <2>1, <2>2, <1>e, <1>f DEF OwnAfter
<1>14. ASSUME NEW c \in Clients, FindV1(c) PROVE OwnAfter
  <2>1. /\ ~V0(c)
        /\ \/ \E p \in {"start", "denied"} : Moves(c, p, client[c].disp)
           \/ /\ Moves(c, "pick", client[c].disp)
              /\ client'[c].i \in SessionsOf(client[c].user)
        /\ UNCHANGED <<item, sync, main>>
    BY <1>14, FindV1Post DEF RefsInv
  <2>2. \A i \in SessionsOf(client[c].user) : item[i].st # "unused" /\ item[i].user = client[c].user
    BY Ranges DEF SessionsOf, RefsInv, MonitRefs
  <2>3. client[c].disp # 0 => RightFor(client[c].disp, client[c].user)
    BY <1>g DEF ClientOwns
  <2>4. CASE \E p \in {"start", "denied"} : Moves(c, p, client[c].disp)
    BY <2>1, <2>3, <2>4, <1>e, <1>f DEF OwnAfter
  <2>5. CASE Moves(c, "pick", client[c].disp) /\ client'[c].i \in SessionsOf(client[c].user)
    <3>1. ClientOwnsAfter(c)
      BY <2>1, <2>2, <2>3, <2>5, <1>b DEF Moves, ClientIs, ClientOwnsAfter
    <3>2. \A e \in Clients \ {c} : ClientOwnsAfter(e)
      BY <2>5, <1>d DEF Moves, ClientIs
    <3>3. QED
      BY <2>1, <3>1, <3>2, <1>e DEF OwnAfter
  <2>6. QED
    BY <2>1, <2>4, <2>5
<1>15. ASSUME NEW c \in Clients, PickV1(c) PROVE OwnAfter
  <2>1. /\ client[c].pc = "picking" /\ client[c].i \in Items
        /\ Moves(c, "allowed", item[client[c].i].disp) \/ Moves(c, "denied", 0)
        /\ UNCHANGED <<sync, main>>
    BY <1>15, PickV1Post DEF RefsInv
  <2>2. item[client[c].i].disp # 0 /\ RightFor(item[client[c].i].disp, client[c].user)
    BY <2>1, <1>g DEF ClientOwns, OwnInv, RightFor, ChosenFor
  <2>3. QED
    BY <2>1, <2>2, <1>e, <1>f DEF OwnAfter
<1>16. ASSUME NEW c \in Clients, StartSession(c) PROVE OwnAfter
  <2>1. /\ client[c].pc = "start" /\ ~sync.held
        /\ Moves(c, "wait", client[c].disp)
        /\ SyncIs(TRUE, client[c].user, TRUE, sync.sem, sync.result)
        /\ main' = main
    BY <1>16, StartSessionPost DEF RefsInv
  <2>2. SyncOwnsAfter
    BY <2>1 DEF SyncIs, SyncInv, MainBusy, SyncOwnsAfter
  <2>3. client[c].disp # 0 => RightFor(client[c].disp, client[c].user)
    BY <1>g DEF ClientOwns
  <2>4. QED
    BY <2>1, <2>2, <2>3, <1>f DEF OwnAfter
<1>17. ASSUME NEW c \in Clients, GetResult(c) PROVE OwnAfter
  <2>1. /\ client[c].pc = "wait" /\ sync.sem > 0
        /\ \/ Moves(c, "denied", 0)
           \/ Moves(c, "allowed", sync.result) /\ (V0(c) => sync.result # 0)
        /\ SyncIs(FALSE, sync.user, sync.event, sync.sem - 1, sync.result)
        /\ main' = main
    BY <1>17, GetResultPost DEF RefsInv
  <2>2. sync.sem # 0 /\ sync.user = client[c].user
    BY <2>1 DEF SyncInv
  <2>3. sync.result # 0 => RightFor(sync.result, client[c].user)
    BY <2>2 DEF OwnInv, SyncOwns
  <2>4. SyncOwnsAfter
    BY <2>1, <2>2, <2>3, <1>b DEF SyncIs, SyncOwnsAfter
  <2>5. QED
    BY <2>1, <2>3, <2>4, <1>f DEF OwnAfter
<1>18. CASE UNCHANGED <<sync, main, client>>
  BY <1>18, <1>e, <1>h DEF OwnAfter
<1>19. QED
  BY <1>1, <1>2, <1>3, <1>4, <1>5, <1>6, <1>7, <1>8, <1>9, <1>10, <1>11, <1>12, <1>13,
     <1>14, <1>15, <1>16, <1>17, <1>18
  DEF Next, MainRuns, ClientRuns, WorkerRuns, MonitRuns, vars, chainVars, otherThreads,
     Request, FindSession, DestroySession, TestStatus, WriteStatus, ListAllocates,
     ListCopies, MonitLock, Inspect, FreeItem, UncountItem, MonitUnlock, KillAll,
     Shutdown, Exit, XChanges
=============
