------------------------------ MODULE Sesman ------------------------------
(***************************************************************************)
(* sesman, the session manager of xrdp: the main thread, which accepts the *)
(* connections and starts the sessions, one thread per connection, the     *)
(* workers that take the requests on sessions, and the thread that         *)
(* monitors them.  They share the chain of sessions under lock_chain, a    *)
(* mutex that knows no owner: whoever unlocks it frees it.  session_start  *)
(* hands a start over to the main thread through the variables g_sync_*.   *)
(*                                                                         *)
(* session_sync_start unlocks the chain once more than it locks it, so it  *)
(* may free it while another thread is at work there: "intact" tells that  *)
(* this has not happened yet.                                              *)
(***************************************************************************)
EXTENDS Integers, FiniteSets

CONSTANTS Clients,       \* the connections, each with its thread
          Users, Workers,
          Versions,      \* of the protocol that the connections speak: 0 and 1
          Items,         \* bound: the session_items that will be allocated
          MaxSessions, KillDisconnected, \* sesman.ini
          Orders,        \* bound: what the workers are asked for
          Stopping,      \* bound: the process may be told to end
          ThreadFails,   \* bound: pthread_create may fail
          Homeless,      \* bound: the users whose home directory may not be found
          None

VARIABLES chain,  \* the items reachable from g_sessions
          item,   \* every session_item: its user, display and status
          count,  \* g_session_count
          lock,   \* lock_chain is held
          intact, \* it was never freed under the feet of another thread
          sync,   \* lock_sync, g_sync_*, its event and its semaphore
          socket, \* g_lock_socket and g_thread_sck
          creation, \* session_creation_lock is held
          main, client, worker, monit, \* the threads
          stop,   \* the signal that ends the process
          xs      \* the displays with an X server: coming up, or running

vars == <<chain, item, count, lock, intact, sync, socket, creation,
          main, client, worker, monit, stop, xs>>
chainVars == <<chain, item, count>>
-----------------------------------------------------------------------------
ASSUME SesmanAssumption ==
  /\ IsFiniteSet(Items) /\ MaxSessions \in Nat \ {0} /\ KillDisconnected \in BOOLEAN
  /\ Versions \subseteq {0, 1}
  /\ Orders \subseteq {"logoff", "disconnect", "list"}
  /\ Stopping \in BOOLEAN /\ ThreadFails \in BOOLEAN /\ Homeless \subseteq Users
  /\ None \notin Items /\ None \notin Clients /\ None \notin Users

First == 10
Displays == First .. (First + MaxSessions)

Item == [st: {"unused", "new", "linked", "freed"}, user: Users \cup {None},
         disp: Displays \cup {0}, status: {"active", "disconnected", "destroy"}]

XServer == [st: {"no", "coming", "running"}, user: Users \cup {None}]
NoX == [st |-> "no", user |-> None]

Sync == [held: BOOLEAN, user: Users \cup {None}, event: BOOLEAN, sem: Nat,
         result: Displays \cup {0, 1}]
Socket == [free: BOOLEAN, sck: Clients \cup {None}]
Main == [pc: {"loop", "hand", "sync", "check", "refused", "prepare", "waitx",
              "relock", "link", "count", "ended"},
         conn: Clients \cup {None}, i: Items \cup {None}, cnt: Int]
Client == [pc: {"out", "stranded", "born", "creation", "auth", "find", "found", "update",
                "updating", "testing", "reviving", "start", "wait", "pick", "picking",
                "denied", "allowed"},
           user: Users \cup {None}, version: {0, 1}, i: Items \cup {None},
           sck: Clients \cup {None}, disp: Displays \cup {0, 1}]
Worker == [pc: {"idle", "finding", "destroying", "testing", "writing", "copying"},
           act: Orders \cup {None}, user: Users \cup {None}, i: Items \cup {None}, cnt: Int]
Monit == [pc: {"sleep", "look", "destroy", "count", "kill", "done"},
          todo: SUBSET Items, kept: SUBSET Items, tmp: Items \cup {None}, cnt: Int]

TypeOK ==
  /\ chain \subseteq Items /\ item \in [Items -> Item]
  /\ count \in Int /\ lock \in BOOLEAN /\ intact \in BOOLEAN /\ creation \in BOOLEAN
  /\ sync \in Sync /\ socket \in Socket
  /\ main \in Main /\ client \in [Clients -> Client]
  /\ worker \in [Workers -> Worker] /\ monit \in Monit
  /\ stop \in {"no", "asked", "done"} /\ xs \in [Displays -> XServer]

Init ==
  /\ chain = {} /\ count = 0 /\ lock = FALSE /\ intact = TRUE /\ creation = FALSE
  /\ item = [i \in Items |-> [st |-> "unused", user |-> None, disp |-> 0, status |-> "active"]]
  /\ sync = [held |-> FALSE, user |-> None, event |-> FALSE, sem |-> 0, result |-> 0]
  /\ socket = [free |-> TRUE, sck |-> None]
  /\ main = [pc |-> "loop", conn |-> None, i |-> None, cnt |-> 0]
  /\ client = [c \in Clients |-> [pc |-> "out", user |-> None, version |-> 0, i |-> None,
                                  sck |-> None, disp |-> 0]]
  /\ worker = [w \in Workers |-> [pc |-> "idle", act |-> None, user |-> None,
                                  i |-> None, cnt |-> 0]]
  /\ monit = [pc |-> "sleep", todo |-> {}, kept |-> {}, tmp |-> None, cnt |-> 0]
  /\ stop = "no" /\ xs = [d \in Displays |-> NoX]

\* Who is between a lock of the chain and the unlock that belongs to it.
MainInside == main.pc \in {"check", "refused", "link", "count"}
ClientInside(c) == client[c].pc \in {"found", "updating", "testing", "reviving", "picking"}
WorkerInside(w) == worker[w].pc \in {"finding", "destroying", "testing", "writing", "copying"}
MonitInside == monit.pc \in {"look", "destroy", "count"}
OthersInside == MonitInside \/ (\E c \in Clients : ClientInside(c))
                            \/ (\E w \in Workers : WorkerInside(w))

SessionsOf(u) == {i \in chain : item[i].user = u}

\* Mutant: a session ordered to be destroyed may get another status.
NeverFinal(i) == FALSE

\* The test of session_update_status_by_user before it writes the status.
Final(i) == item[i].status = "destroy"

\* session_destroy kills every process of the user that belongs to a session.
XAfterDestroy(u) == [d \in Displays |-> IF xs[d].user = u THEN NoX ELSE xs[d]]
-----------------------------------------------------------------------------
(* The main thread: sesman_main_loop, thread_scp_start, session_sync_start *)
(* and session_start_fork.  A signal suspends it for good.                 *)

MainAt(p) == stop = "no" /\ main.pc = p
MainGoes(p) == main' = [main EXCEPT !.pc = p]

\* The connection brings the name of a user, in the one or the other protocol.
Accept(c, u, v) ==
  /\ MainAt("loop") /\ client[c].pc = "out"
  /\ main' = [main EXCEPT !.pc = "hand", !.conn = c]
  /\ client' = [client EXCEPT ![c].user = u, ![c].version = v]
  /\ UNCHANGED <<chainVars, lock, intact, sync, socket, creation, worker, monit, stop, xs>>

\* Nobody gives the socket back when the thread could not be created.
HandOver ==
  /\ MainAt("hand") /\ socket.free
  /\ socket' = [free |-> FALSE, sck |-> main.conn]
  /\ \/ client' = [client EXCEPT ![main.conn].pc = "born"]
     \/ ThreadFails /\ client' = [client EXCEPT ![main.conn].pc = "stranded"]
  /\ main' = [main EXCEPT !.pc = "loop", !.conn = None]
  /\ UNCHANGED <<chainVars, lock, intact, sync, creation, worker, monit, stop, xs>>

SyncEvent ==
  /\ MainAt("loop") /\ sync.event
  /\ sync' = [sync EXCEPT !.event = FALSE]
  /\ MainGoes("sync")
  /\ UNCHANGED <<chainVars, lock, intact, socket, creation, client, worker, monit, stop, xs>>

SyncLock ==
  /\ MainAt("sync") /\ ~lock
  /\ lock' = TRUE
  /\ MainGoes("check")
  /\ UNCHANGED <<chainVars, intact, sync, socket, creation, client, worker, monit, stop, xs>>

\* Mutants: the chain is not searched for the display; one session too many.
UsableX(d) == xs[d].st # "running"
FullLate == count > MaxSessions

\* session_is_display_in_chain, x_server_running_check_ports
Usable(d) == xs[d].st # "running" /\ \A i \in chain : item[i].disp # d
Full == count >= MaxSessions

StartRefused ==
  /\ MainAt("check") /\ (Full \/ ~\E d \in Displays : Usable(d))
  /\ sync' = [sync EXCEPT !.result = 0]
  /\ MainGoes("refused")
  /\ UNCHANGED <<chainVars, lock, intact, socket, creation, client, worker, monit, stop, xs>>

\* session_get_aval_display_from_chain takes the first display and unlocks.
ChooseDisplay(i, d) ==
  /\ MainAt("check") /\ ~Full
  /\ item[i].st = "unused"
  /\ Usable(d) /\ \A e \in First .. (d - 1) : ~Usable(e)
  /\ item' = [item EXCEPT ![i] = [st |-> "new", user |-> sync.user, disp |-> d,
                                  status |-> "active"]]
  /\ lock' = FALSE
  /\ main' = [main EXCEPT !.pc = "prepare", !.i = i]
  /\ UNCHANGED <<chain, count, intact, sync, socket, creation, client, worker, monit, stop, xs>>

\* A user without home directory is answered 1, files that cannot be made 0; a
\* fork that fails leaves the function with the display, as if all were well.
StartFails(r) ==
  /\ MainAt("prepare") /\ r \in {0, 1, item[main.i].disp}
  /\ r = 1 => sync.user \in Homeless
  /\ sync' = [sync EXCEPT !.result = r]
  /\ MainGoes("ended")
  /\ UNCHANGED <<chainVars, lock, intact, socket, creation, client, worker, monit, stop, xs>>

Fork ==
  /\ MainAt("prepare")
  /\ xs' = [xs EXCEPT ![item[main.i].disp] = [st |-> "coming", user |-> sync.user]]
  /\ MainGoes("waitx")
  /\ UNCHANGED <<chainVars, lock, intact, sync, socket, creation, client, worker, monit, stop>>

\* wait_for_xserver: the processes that were started are not stopped.
XTimeout ==
  /\ MainAt("waitx") /\ xs[item[main.i].disp].st # "running"
  /\ sync' = [sync EXCEPT !.result = 0]
  /\ MainGoes("ended")
  /\ UNCHANGED <<chainVars, lock, intact, socket, creation, client, worker, monit, stop, xs>>

XAnswers ==
  /\ MainAt("waitx") /\ xs[item[main.i].disp].st = "running"
  /\ MainGoes("relock")
  /\ UNCHANGED <<chainVars, lock, intact, sync, socket, creation, client, worker, monit, stop, xs>>

Relock ==
  /\ MainAt("relock") /\ ~lock
  /\ lock' = TRUE
  /\ MainGoes("link")
  /\ UNCHANGED <<chainVars, intact, sync, socket, creation, client, worker, monit, stop, xs>>

LinkItem ==
  /\ MainAt("link")
  /\ chain' = chain \cup {main.i}
  /\ item' = [item EXCEPT ![main.i].st = "linked"]
  /\ main' = [main EXCEPT !.pc = "count", !.cnt = count]
  /\ UNCHANGED <<count, lock, intact, sync, socket, creation, client, worker, monit, stop, xs>>

\* Mutant: the session is not counted.
CountNothing ==
  /\ MainAt("count")
  /\ lock' = FALSE
  /\ sync' = [sync EXCEPT !.result = item[main.i].disp]
  /\ main' = [main EXCEPT !.pc = "ended", !.cnt = 0]
  /\ UNCHANGED <<chainVars, intact, socket, creation, client, worker, monit, stop, xs>>

\* g_session_count++, and the unlock of session_start_fork.
CountItem ==
  /\ MainAt("count")
  /\ count' = main.cnt + 1
  /\ lock' = FALSE
  /\ sync' = [sync EXCEPT !.result = item[main.i].disp]
  /\ main' = [main EXCEPT !.pc = "ended", !.cnt = 0]
  /\ UNCHANGED <<chain, item, intact, socket, creation, client, worker, monit, stop, xs>>

\* Mutant: a start that was refused is not told to the thread that asked.
SyncDoneSilent ==
  /\ stop = "no" /\ main.pc \in {"refused", "ended"}
  /\ lock' = FALSE
  /\ intact' = (intact /\ ~OthersInside)
  /\ sync' = IF sync.result = 0 THEN sync ELSE [sync EXCEPT !.sem = @ + 1]
  /\ main' = [main EXCEPT !.pc = "loop", !.i = None]
  /\ UNCHANGED <<chainVars, socket, creation, client, worker, monit, stop, xs>>

\* session_sync_start: its unlock is the only one of a start that is refused,
\* and one too many for every other start.
SyncDone ==
  /\ stop = "no" /\ main.pc \in {"refused", "ended"}
  /\ lock' = FALSE
  /\ intact' = (intact /\ ~OthersInside)
  /\ sync' = [sync EXCEPT !.sem = @ + 1]
  /\ main' = [main EXCEPT !.pc = "loop", !.i = None]
  /\ UNCHANGED <<chainVars, socket, creation, client, worker, monit, stop, xs>>
-----------------------------------------------------------------------------
(* The threads of the connections: scp_process_start, scp_v0_process and   *)
(* scp_v1_process.                                                         *)

ClientAt(c, p) == stop # "done" /\ client[c].pc = p
ClientGoes(c, p) == client' = [client EXCEPT ![c].pc = p]
V0(c) == client[c].version = 0
otherThreads == <<main, worker, monit, stop, xs>>

\* The end of scp_v0_process unlocks session_creation_lock.
Answer(c, p, d) ==
  /\ client' = [client EXCEPT ![c].pc = p, ![c].disp = d, ![c].i = None]
  /\ creation' = IF V0(c) THEN FALSE ELSE creation

CopySocket(c) ==
  /\ ClientAt(c, "born")
  /\ client' = [client EXCEPT ![c].pc = IF V0(c) THEN "creation" ELSE "auth",
                              ![c].sck = socket.sck]
  /\ socket' = [socket EXCEPT !.free = TRUE]
  /\ UNCHANGED <<chainVars, lock, intact, sync, creation, otherThreads>>

\* Mutant: session_creation_lock is not waited for.
CreationLockFree(c) ==
  /\ ClientAt(c, "creation")
  /\ creation' = TRUE
  /\ ClientGoes(c, "auth")
  /\ UNCHANGED <<chainVars, lock, intact, sync, socket, otherThreads>>

CreationLock(c) ==
  /\ ClientAt(c, "creation") /\ ~creation
  /\ creation' = TRUE
  /\ ClientGoes(c, "auth")
  /\ UNCHANGED <<chainVars, lock, intact, sync, socket, otherThreads>>

\* auth_userpass; access_login_allowed comes here in version 1.
Authenticate(c) ==
  /\ ClientAt(c, "auth")
  /\ \/ ClientGoes(c, "find") /\ UNCHANGED creation
     \/ Answer(c, "denied", 0)
  /\ UNCHANGED <<chainVars, lock, intact, sync, socket, otherThreads>>

ChainLock(c) ==
  /\ stop # "done" /\ ~lock
  /\ \E p \in {<<"find", "found">>, <<"update", "updating">>, <<"pick", "picking">>} :
       client[c].pc = p[1] /\ ClientGoes(c, p[2])
  /\ lock' = TRUE
  /\ UNCHANGED <<chainVars, intact, sync, socket, creation, otherThreads>>

\* session_get_bydata: the decision is taken on a copy, after the unlock; without
\* a session access_login_allowed takes it.
FindV0(c) ==
  /\ ClientAt(c, "found") /\ V0(c)
  /\ lock' = FALSE
  /\ \/ \E i \in SessionsOf(client[c].user) :
          IF item[i].status = "destroy"
          THEN Answer(c, "denied", 0)
          ELSE client' = [client EXCEPT ![c].pc = "update", ![c].disp = item[i].disp]
               /\ UNCHANGED creation
     \/ /\ SessionsOf(client[c].user) = {}
        /\ \/ ClientGoes(c, "start") /\ UNCHANGED creation
           \/ Answer(c, "denied", 0)
  /\ UNCHANGED <<chainVars, intact, sync, socket, otherThreads>>

\* session_update_status_by_user(ACTIVE) in three accesses: the search, the test
\* and the write.  The client is allowed whatever became of the session.
Research(c) ==
  /\ ClientAt(c, "updating")
  /\ \/ \E i \in SessionsOf(client[c].user) :
          client' = [client EXCEPT ![c].pc = "testing", ![c].i = i]
          /\ UNCHANGED <<lock, creation>>
     \/ /\ SessionsOf(client[c].user) = {}
        /\ lock' = FALSE
        /\ Answer(c, "allowed", client[c].disp)
  /\ UNCHANGED <<chainVars, intact, sync, socket, otherThreads>>

TestFinal(c) ==
  /\ ClientAt(c, "testing")
  /\ IF Final(client[c].i)
     THEN lock' = FALSE /\ Answer(c, "allowed", client[c].disp)
     ELSE ClientGoes(c, "reviving") /\ UNCHANGED <<lock, creation>>
  /\ UNCHANGED <<chainVars, intact, sync, socket, otherThreads>>

Reactivate(c) ==
  /\ ClientAt(c, "reviving")
  /\ item' = [item EXCEPT ![client[c].i].status = "active"]
  /\ lock' = FALSE
  /\ Answer(c, "allowed", client[c].disp)
  /\ UNCHANGED <<chain, count, intact, sync, socket, otherThreads>>

\* session_get_byuser tests "status & DISCONNECTED": the bit is set in TO_DESTROY too,
\* so that the client may also choose a session that is being destroyed.
Offered(u) == {i \in SessionsOf(u) : item[i].status \in {"disconnected", "destroy"}}

FindV1(c) ==
  /\ ClientAt(c, "found") /\ ~V0(c)
  /\ lock' = FALSE
  /\ LET found == Offered(client[c].user)
     IN  \/ found = {} /\ ClientGoes(c, "start")
         \/ \E i \in found : client' = [client EXCEPT ![c].pc = "pick", ![c].i = i]
         \/ found # {} /\ ClientGoes(c, "denied")
  /\ UNCHANGED <<chainVars, intact, sync, socket, creation, otherThreads>>

\* session_get_bypid
PickV1(c) ==
  /\ ClientAt(c, "picking")
  /\ lock' = FALSE
  /\ IF client[c].i \in chain THEN Answer(c, "allowed", item[client[c].i].disp)
                              ELSE Answer(c, "denied", 0)
  /\ UNCHANGED <<chainVars, intact, sync, socket, otherThreads>>

\* Mutant: lock_sync is not taken.
StartSessionUnlocked(c) ==
  /\ ClientAt(c, "start")
  /\ sync' = [sync EXCEPT !.user = client[c].user, !.event = TRUE]
  /\ ClientGoes(c, "wait")
  /\ UNCHANGED <<chainVars, lock, intact, socket, creation, otherThreads>>

\* session_start
StartSession(c) ==
  /\ ClientAt(c, "start") /\ ~sync.held
  /\ sync' = [sync EXCEPT !.held = TRUE, !.user = client[c].user, !.event = TRUE]
  /\ ClientGoes(c, "wait")
  /\ UNCHANGED <<chainVars, lock, intact, socket, creation, otherThreads>>

\* Mutant: the answer is not waited for.
GetResultEarly(c) ==
  /\ ClientAt(c, "wait")
  /\ sync' = [sync EXCEPT !.held = FALSE, !.sem = @ - 1]
  /\ IF V0(c) /\ sync.result = 0 THEN Answer(c, "denied", 0)
                                 ELSE Answer(c, "allowed", sync.result)
  /\ UNCHANGED <<chainVars, lock, intact, socket, otherThreads>>

\* Version 1 is told to connect, whatever the answer.
GetResult(c) ==
  /\ ClientAt(c, "wait") /\ sync.sem > 0
  /\ sync' = [sync EXCEPT !.held = FALSE, !.sem = @ - 1]
  /\ IF V0(c) /\ sync.result = 0 THEN Answer(c, "denied", 0)
                                 ELSE Answer(c, "allowed", sync.result)
  /\ UNCHANGED <<chainVars, lock, intact, socket, otherThreads>>
-----------------------------------------------------------------------------
(* The workers: process_request, for "logoff" and "disconnect" of a user   *)
(* or of a session, and for the list of sessions.                          *)

WorkerAt(w, p) == stop # "done" /\ worker[w].pc = p
WorkerGoes(w, p) == worker' = [worker EXCEPT ![w].pc = p]
Idle == [pc |-> "idle", act |-> None, user |-> None, i |-> None, cnt |-> 0]
WorkerEnds(w) == worker' = [worker EXCEPT ![w] = Idle]

\* A request changes nothing before it has the lock.
Request(w, act, u) ==
  /\ WorkerAt(w, "idle") /\ ~lock
  /\ lock' = TRUE
  /\ worker' = [worker EXCEPT ![w] = [Idle EXCEPT !.pc = "finding", !.act = act, !.user = u]]
  /\ UNCHANGED <<chainVars, intact, sync, socket, creation, main, client, monit, stop, xs>>

\* session_update_status_by_user works on the first session of the user.
FindSession(w) ==
  /\ WorkerAt(w, "finding") /\ worker[w].act # "list"
  /\ \/ \E i \in SessionsOf(worker[w].user) :
          /\ worker' = [worker EXCEPT ![w].i = i,
                          ![w].pc = IF worker[w].act = "logoff" THEN "destroying" ELSE "testing"]
          /\ UNCHANGED lock
     \/ /\ SessionsOf(worker[w].user) = {}
        /\ lock' = FALSE
        /\ WorkerEnds(w)
  /\ UNCHANGED <<chainVars, intact, sync, socket, creation, main, client, monit, stop, xs>>

DestroySession(w) ==
  /\ WorkerAt(w, "destroying")
  /\ xs' = XAfterDestroy(worker[w].user)
  /\ WorkerGoes(w, "testing")
  /\ UNCHANGED <<chainVars, lock, intact, sync, socket, creation, main, client, monit, stop>>

TestStatus(w) ==
  /\ WorkerAt(w, "testing")
  /\ IF Final(worker[w].i) THEN lock' = FALSE /\ WorkerEnds(w)
                           ELSE WorkerGoes(w, "writing") /\ UNCHANGED lock
  /\ UNCHANGED <<chainVars, intact, sync, socket, creation, main, client, monit, stop, xs>>

WriteStatus(w) ==
  /\ WorkerAt(w, "writing")
  /\ item' = [item EXCEPT ![worker[w].i].status =
                  IF worker[w].act = "logoff" THEN "destroy" ELSE "disconnected"]
  /\ lock' = FALSE
  /\ WorkerEnds(w)
  /\ UNCHANGED <<chain, count, intact, sync, socket, creation, main, client, monit, stop, xs>>

\* session_list_session allocates for g_session_count sessions, then copies.
ListAllocates(w) ==
  /\ WorkerAt(w, "finding") /\ worker[w].act = "list"
  /\ worker' = [worker EXCEPT ![w].pc = "copying", ![w].cnt = count]
  /\ UNCHANGED <<chainVars, lock, intact, sync, socket, creation, main, client, monit, stop, xs>>

ListCopies(w) ==
  /\ WorkerAt(w, "copying")
  /\ lock' = FALSE
  /\ WorkerEnds(w)
  /\ UNCHANGED <<chainVars, intact, sync, socket, creation, main, client, monit, stop, xs>>
-----------------------------------------------------------------------------
(* monit_thread: session_monit under the lock, and the end of the process. *)

MonitAt(p) == stop # "done" /\ monit.pc = p

MonitLock ==
  /\ MonitAt("sleep") /\ ~lock
  /\ lock' = TRUE
  /\ monit' = [monit EXCEPT !.pc = "look", !.todo = chain, !.kept = {}]
  /\ UNCHANGED <<chainVars, intact, sync, socket, creation, main, client, worker, stop, xs>>

Doomed(i) == item[i].status = "destroy" \/ (item[i].status = "disconnected" /\ KillDisconnected)

Inspect(i) ==
  /\ MonitAt("look") /\ i \in monit.todo
  /\ monit' = IF Doomed(i) THEN [monit EXCEPT !.pc = "destroy", !.tmp = i]
              ELSE [monit EXCEPT !.todo = @ \ {i}, !.kept = @ \cup {i}]
  /\ UNCHANGED <<chainVars, lock, intact, sync, socket, creation, main, client, worker, stop, xs>>

\* sigterm, then session_destroy if the process has ended by now; the item is
\* freed in any case.  Taken out at the head of the list ("kept" is empty), it
\* takes with it what was added there since the lock.
FreeItem ==
  /\ MonitAt("destroy")
  /\ xs' \in {xs, XAfterDestroy(item[monit.tmp].user)}
  /\ chain' = (IF monit.kept = {} THEN monit.todo ELSE chain) \ {monit.tmp}
  /\ item' = [item EXCEPT ![monit.tmp].st = "freed"]
  /\ monit' = [monit EXCEPT !.pc = "count", !.todo = @ \ {monit.tmp}, !.tmp = None, !.cnt = count]
  /\ UNCHANGED <<count, lock, intact, sync, socket, creation, main, client, worker, stop>>

\* g_session_count--
UncountItem ==
  /\ MonitAt("count")
  /\ count' = monit.cnt - 1
  /\ monit' = [monit EXCEPT !.pc = "look", !.cnt = 0]
  /\ UNCHANGED <<chain, item, lock, intact, sync, socket, creation, main, client, worker, stop, xs>>

MonitUnlock ==
  /\ MonitAt("look") /\ monit.todo = {}
  /\ lock' = FALSE
  /\ monit' = [monit EXCEPT !.pc = IF stop = "no" THEN "sleep" ELSE "kill", !.kept = {}]
  /\ UNCHANGED <<chainVars, intact, sync, socket, creation, main, client, worker, stop, xs>>

\* session_sigkill_all, which does not lock the chain.
KillAll ==
  /\ MonitAt("kill")
  /\ xs' = [d \in Displays |-> IF \E i \in chain : item[i].user = xs[d].user THEN NoX ELSE xs[d]]
  /\ monit' = [monit EXCEPT !.pc = "done"]
  /\ UNCHANGED <<chainVars, lock, intact, sync, socket, creation, main, client, worker, stop>>

\* sig_sesman_shutdown runs in the main thread and waits for monit_thread.
Shutdown ==
  /\ Stopping /\ stop = "no"
  /\ stop' = "asked"
  /\ UNCHANGED <<chainVars, lock, intact, sync, socket, creation, main, client, worker, monit, xs>>

Exit ==
  /\ stop = "asked" /\ monit.pc = "done"
  /\ stop' = "done"
  /\ UNCHANGED <<chainVars, lock, intact, sync, socket, creation, main, client, worker, monit, xs>>
-----------------------------------------------------------------------------
(* The X servers: they come up late or never, and end with the session.    *)

XChanges(d) ==
  /\ \/ xs[d].st = "coming" /\ xs' = [xs EXCEPT ![d].st = "running"]
     \/ xs[d].st # "no" /\ xs' = [xs EXCEPT ![d] = NoX]
  /\ UNCHANGED <<chainVars, lock, intact, sync, socket, creation, main, client, worker, monit, stop>>
-----------------------------------------------------------------------------
MainRuns ==
  \/ HandOver \/ SyncEvent \/ SyncLock \/ StartRefused
  \/ (\E i \in Items, d \in Displays : ChooseDisplay(i, d))
  \/ (\E r \in {0, 1} \cup Displays : StartFails(r)) \/ Fork \/ XTimeout \/ XAnswers
  \/ Relock \/ LinkItem \/ CountItem \/ SyncDone

ClientRuns(c) ==
  \/ CopySocket(c) \/ CreationLock(c) \/ Authenticate(c) \/ ChainLock(c) \/ FindV0(c)
  \/ Research(c) \/ TestFinal(c) \/ Reactivate(c) \/ FindV1(c) \/ PickV1(c)
  \/ StartSession(c) \/ GetResult(c)

WorkerRuns(w) ==
  \/ FindSession(w) \/ DestroySession(w) \/ TestStatus(w) \/ WriteStatus(w)
  \/ ListAllocates(w) \/ ListCopies(w)

MonitRuns == (\E i \in Items : Inspect(i)) \/ FreeItem \/ UncountItem \/ MonitUnlock \/ KillAll

Next == \/ (\E c \in Clients, u \in Users, v \in Versions : Accept(c, u, v)) \/ MainRuns
        \/ (\E c \in Clients : ClientRuns(c))
        \/ (\E w \in Workers, act \in Orders, u \in Users : Request(w, act, u))
        \/ (\E w \in Workers : WorkerRuns(w))
        \/ MonitLock \/ MonitRuns \/ Shutdown \/ Exit \/ (\E d \in Displays : XChanges(d))

Spec == Init /\ [][Next]_vars

\* Every thread runs, and gets what it waits for if that is free again and again:
\* a mutex is never kept from one waiting thread for ever.
Fairness ==
  /\ SF_vars(MainRuns) /\ SF_vars(MonitLock \/ MonitRuns) /\ WF_vars(Exit)
  /\ \A c \in Clients : SF_vars(ClientRuns(c))
  /\ \A w \in Workers : WF_vars(WorkerRuns(w))

FairSpec == Spec /\ Fairness
-----------------------------------------------------------------------------
Linked == {i \in Items : item[i].st = "linked"}
OnlyV0(u) == \A c \in Clients : client[c].user = u => V0(c)

\* A client goes through its own socket, and is only sent to a display that was
\* chosen for a session of its own user, to 1 if that user may have no home directory,
\* or to 0 in version 1, which does not look whether the start failed: the requests
\* of several threads do not mix in the variables g_sync_* and g_thread_sck.
OwnDisplay ==
  \A c \in Clients : client[c].sck \in {None, c} /\
   (client[c].pc = "allowed" =>
      \/ client[c].disp = 1 /\ client[c].user \in Homeless
      \/ client[c].disp = 0 /\ ~V0(c)
      \/ \E i \in Items : /\ item[i].st # "unused" /\ item[i].user = client[c].user
                           /\ item[i].disp = client[c].disp)

\* While the chain lock was never broken, a user whose clients speak version 0
\* has one session, though it is looked up long before it is added.
OneSessionPerUser ==
  intact => \A i, j \in Linked : item[i].user = item[j].user /\ OnlyV0(item[i].user) => i = j

\* While the chain lock was never broken, no two sessions share a display,
\* though it is chosen long before the session is added.
DisplaysDiffer ==
  intact => \A i, j \in Linked : item[i].disp = item[j].disp => i = j

\* While the chain lock was never broken, the limit holds, though it is tested
\* long before the session is counted.
LimitHolds == intact => Cardinality(Linked) <= MaxSessions

\* While the chain lock was never broken, the list of sessions fits in the
\* memory allocated for g_session_count of them.
ListFits ==
  intact => \A w \in Workers : worker[w].pc = "copying" => Cardinality(chain) <= worker[w].cnt

\* Every accepted connection is answered, unless the process is told to end.
Answered ==
  \A c \in Clients : client[c].pc = "born" ~>
                     (client[c].pc \in {"allowed", "denied"} \/ stop # "no")

\* While the chain lock was never broken, a session ordered to be destroyed is not
\* revived by a client that found it before the order, nor by a disconnection, though
\* the test and the write are two accesses: its processes were killed already.
DestroyIsFinal ==
  [][intact => \A i \in Items : item[i].st = "linked" /\ item[i].status = "destroy"
                                 => item'[i].status = "destroy"]_vars

\* Violated: one thread at a time works on the chain of sessions.
OneThreadInChain ==
  /\ MainInside => ~OthersInside
  /\ \A c, e \in Clients : ClientInside(c) /\ ClientInside(e) => c = e
  /\ \A v, w \in Workers : WorkerInside(v) /\ WorkerInside(w) => v = w
  /\ \A c \in Clients : ClientInside(c) => ~MonitInside /\ \A w \in Workers : ~WorkerInside(w)
  /\ \A w \in Workers : WorkerInside(w) => ~MonitInside

\* Violated: DestroyIsFinal without its premise.  The extra unlock lets a logoff in
\* between the test and the write of a client that comes back.
NeverRevived ==
  [][\A i \in Items : item[i].st = "linked" /\ item[i].status = "destroy"
                       => item'[i].status = "destroy"]_vars

\* Violated: a sesman told to end ends.
StopEnds == stop = "asked" ~> stop = "done"
=============================================================================
