------------------------ MODULE ApSRoleOrphan_proofs ------------------------
(***************************************************************************)
(* No OS account outlives its session: NoOrphanUser of ApSRole, for any    *)
(* number of sessions and workers, as long as one HTTP thread serves the   *)
(* Session Manager and the server is not told to stop.  Only a creation    *)
(* makes an account, so the proof is about what else may be at work on a   *)
(* session while its creation is: nothing, for "locked" keeps it away.     *)
(***************************************************************************)
EXTENDS ApSRole_proofs

\* One HTTP thread, and no order to stop.
OneAtATime == Stopping = FALSE /\ \A h, g \in Handlers : h = g

\* What the role and the threads do then, and which work there can be.
NoStop ==
  /\ status \in {"running", "lost"} /\ (status = "running" => loop)
  /\ threads[Stop].pc = "idle" /\ \A i \in Sessions : sweep[i] = "none"
ThreadsDo ==
  \A t \in Threads :
    /\ threads[t].pc \in {"mark", "defer"} => threads[t].act # "create"
    /\ threads[t].pc = "insert" => threads[t].act = "create"
    /\ threads[t].pc \in {"watch", "apply"} => t = Main
    /\ threads[t].pc # "apply" => threads[t].st # "destroyed"
NotCreate == \A d \in Range(deferred) \cup Range(spooler2) : d.act # "create"
NotDestroyed ==
  /\ \A i \in Sessions : Here(i) => sess[i].st # "destroyed"
  /\ \A j \in Range(spooler) \cup Range(spooler2) : j.st # "destroyed"
  /\ \A w \in Workers : workers[w].mode = "busy" => workers[w].job.st # "destroyed"
WorkInv == NoStop /\ ThreadsDo /\ NotCreate /\ NotDestroyed

\* The work on session i.
Has(w, i) == w.mode \in {"busy", "dead"} /\ w.job.id = i
Queued(q, i) == \E j \in Range(q) : j.id = i
Once(q, i) == \A k, l \in DOMAIN q : q[k].id = i /\ q[l].id = i => k = l
Creates(j, i) == j.act = "create" /\ j.id = i
Starts(f, i) == f.pc \in {"insert", "spool", "take"} /\ Creates(f, i)

\* Nobody but the thread that creates session i knows of it.
Clear(i) ==
  /\ ~Queued(spooler, i) /\ ~Queued(spooler2, i) /\ ~Queued(sync, i) /\ ~Queued(deferred, i)
  /\ \A w \in Workers : ~Has(workers[w], i)
  /\ threads[Main].id # i /\ ~user[i]
\* Its creation is spooled: the lock keeps all other work on it away.
Held(i) ==
  /\ Here(i) /\ sess[i].locked /\ sess[i].st \in {"init", "wait_destroy"}
  /\ ~Queued(spooler2, i) /\ ~Queued(sync, i) /\ ~user[i]
  /\ threads[Main].id # i
  /\ \A t \in Threads : threads[t].pc = "take" => threads[t].id # i

UnbornOk(i) == i \notin born => /\ Clear(i) /\ ~Here(i)
                                /\ \A t \in Threads : threads[t].id # i
StartingOk(i) ==
  \A t \in Threads : Starts(threads[t], i) =>
    /\ Clear(i)
    /\ threads[t].pc = "insert" => ~Here(i)
    /\ threads[t].pc # "insert" => /\ Here(i) /\ ~sess[i].locked /\ sess[i].st = "init"
                                   /\ threads[t].fresh
QueuedOk(i) ==
  \A j \in Range(spooler) : Creates(j, i) =>
    /\ Held(i) /\ Once(spooler, i)
    /\ \A w \in Workers : ~Has(workers[w], i)
WorkedOk(i) ==
  \A w \in Workers : Has(workers[w], i) /\ workers[w].job.act = "create" =>
    /\ Held(i) /\ ~Queued(spooler, i)
    /\ \A v \in Workers : Has(workers[v], i) => v = w
EndedOk(i) ==
  /\ user[i] => Here(i)
  /\ \A c \in Range(sync) : c.id = i /\ c.st = "destroyed" => ~user[i]
  /\ threads[Main].pc = "apply" /\ threads[Main].id = i /\ threads[Main].st = "destroyed"
       => ~user[i]
SessionOk(i) == UnbornOk(i) /\ StartingOk(i) /\ QueuedOk(i) /\ WorkedOk(i) /\ EndedOk(i)
OrphanInv == WorkInv /\ \A i \in Sessions : SessionOk(i)

\* The creation of session i is over: no work can make its account any more.
Settled(i) ==
  /\ i \in born
  /\ \A t \in Threads : ~Starts(threads[t], i)
  /\ \A j \in Range(spooler) : ~Creates(j, i)
  /\ \A w \in Workers : Has(workers[w], i) => workers[w].job.act # "create"
-----------------------------------------------------------------------------
(* A session's work in a queue.                                            *)

LEMMA OnceAppend ==
  ASSUME NEW S, NEW s \in Seq(S), NEW e \in S, NEW i,
         e.id = i => ~Queued(s, i), Once(s, i)
  PROVE  Once(Append(s, e), i)
<1>1. /\ DOMAIN s = 1 .. Len(s) /\ DOMAIN Append(s, e) = 1 .. Len(s) + 1
      /\ \A k \in 1 .. Len(s) : Append(s, e)[k] = s[k]
      /\ Append(s, e)[Len(s) + 1] = e
      /\ Len(s) \in Nat
  OBVIOUS
<1>2. \A k \in 1 .. Len(s) : s[k].id = i => Queued(s, i)
  BY <1>1 DEF Queued, Range
<1>3. \A k \in 1 .. Len(s) + 1 : k \in 1 .. Len(s) \/ k = Len(s) + 1
  BY <1>1
<1>4. QED
  BY <1>1, <1>2, <1>3 DEF Once

LEMMA OnceTail ==
  ASSUME NEW S, NEW s \in Seq(S), s # <<>>, NEW i, Once(s, i)
  PROVE  Once(Tail(s), i) /\ (Head(s).id = i => ~Queued(Tail(s), i))
<1>1. /\ Len(Tail(s)) = Len(s) - 1 /\ Len(s) \in Nat \ {0} /\ Head(s) = s[1]
      /\ \A k \in 1 .. Len(s) - 1 : Tail(s)[k] = s[k + 1]
      /\ DOMAIN s = 1 .. Len(s) /\ DOMAIN Tail(s) = 1 .. Len(s) - 1
  OBVIOUS
<1>2. \A k \in DOMAIN Tail(s) : k + 1 \in DOMAIN s /\ Tail(s)[k] = s[k + 1]
  BY <1>1
<1>3. Once(Tail(s), i)
  <2> SUFFICES ASSUME NEW k \in DOMAIN Tail(s), NEW l \in DOMAIN Tail(s),
                      Tail(s)[k].id = i, Tail(s)[l].id = i
               PROVE  k = l
    BY DEF Once
  <2>1. k + 1 = l + 1
    BY <1>2 DEF Once
  <2>2. QED
    BY <1>1, <2>1
<1>4. ASSUME Head(s).id = i, NEW k \in DOMAIN Tail(s), Tail(s)[k].id = i PROVE FALSE
  <2>1. 1 \in DOMAIN s
    BY <1>1
  <2>2. k + 1 = 1
    BY <1>1, <1>2, <1>4, <2>1 DEF Once
  <2>3. QED
    BY <1>1, <2>2
<1>5. QED
  BY <1>3, <1>4 DEF Queued, Range

\* The ends for the workers are no work on a session.
LEMMA ExitsLast ==
  ASSUME NEW S, NEW s \in Seq(S), NEW k \in DOMAIN WithExits(s)
  PROVE  (k \in DOMAIN s /\ WithExits(s)[k] = s[k]) \/ WithExits(s)[k] = Exit
<1> DEFINE n == Cardinality(Workers)
           x == [m \in 1 .. n |-> Exit]
<1>1. n \in Nat
  BY ApSRoleAssumption, FS_CardinalityType
<1>2. x \in Seq({Exit}) /\ Len(x) = n
  BY <1>1
<1>3. WithExits(s) = s \o x
  BY DEF WithExits
<1> HIDE DEF n
<1>4. /\ DOMAIN WithExits(s) = 1 .. Len(s) + n /\ DOMAIN s = 1 .. Len(s)
      /\ \A m \in 1 .. Len(s) : WithExits(s)[m] = s[m]
      /\ \A m \in Len(s) + 1 .. Len(s) + n : WithExits(s)[m] = Exit
      /\ Len(s) \in Nat
  BY <1>1, <1>2, <1>3
<1>5. QED
  BY <1>1, <1>4

LEMMA ExitsOnly ==
  ASSUME NEW S, NEW s \in Seq(S)
  PROVE  \A j \in Range(WithExits(s)) : j \in Range(s) \/ j = Exit
BY ExitsLast DEF Range

LEMMA OnceExits ==
  ASSUME NEW S, NEW s \in Seq(S), NEW i \in Sessions, Once(s, i)
  PROVE  Once(WithExits(s), i)
<1>1. Exit.id # i
  BY ApSRoleAssumption DEF Exit
<1>2. QED
  BY <1>1, ExitsLast DEF Once
-----------------------------------------------------------------------------
(* When a session stays as it should.                                      *)

\* Something is at work on the session, and no creation.
LEMMA Settles ==
  ASSUME NEW i \in Sessions, SessionOk(i), ~Held(i),
         \/ ~Clear(i)
         \/ /\ \E t \in Threads : threads[t].id = i
            /\ \A t \in Threads : ~Starts(threads[t], i)
  PROVE  Settled(i)
BY DEF SessionOk, UnbornOk, StartingOk, QueuedOk, WorkedOk, Settled

LEMMA SettledOk ==
  ASSUME NEW i \in Sessions, Settled(i)', EndedOk(i)'
  PROVE  SessionOk(i)'
BY DEF SessionOk, UnbornOk, StartingOk, QueuedOk, WorkedOk, Settled, Creates

\* A step that only takes work on session i away, or does not touch it.
Less(q, r, i) == \A j \in Range(r) : j.id = i => j \in Range(q)
LEMMA Apart ==
  ASSUME TypeOK, NEW i \in Sessions, SessionOk(i),
         sess'[i] = sess[i], user'[i] = user[i], i \in born' <=> i \in born,
         Less(spooler, spooler', i), Less(spooler2, spooler2', i),
         Less(sync, sync', i), Less(deferred, deferred', i),
         Once(spooler, i) => Once(spooler', i),
         \A w \in Workers : Has(workers'[w], i) => /\ Has(workers[w], i)
                                                   /\ workers'[w].job = workers[w].job,
         \A t \in Threads : threads'[t].id = i => threads'[t] = threads[t]
  PROVE  SessionOk(i)'
<1>1. Main \in Threads
  BY DEF Threads
<1>2. /\ Here(i)' <=> Here(i)
      /\ Queued(spooler', i) => Queued(spooler, i)
      /\ Queued(spooler2', i) => Queued(spooler2, i)
      /\ Queued(sync', i) => Queued(sync, i)
      /\ Queued(deferred', i) => Queued(deferred, i)
  BY DEF Here, Less, Queued
<1>3. Clear(i) => Clear(i)'
  BY <1>1, <1>2 DEF Clear
<1>4. Held(i) => Held(i)'
  BY <1>1, <1>2 DEF Held
<1>5. UnbornOk(i)'
  BY <1>2, <1>3 DEF SessionOk, UnbornOk
<1>6. StartingOk(i)'
  BY <1>2, <1>3 DEF SessionOk, StartingOk, Starts, Creates
<1>7. QueuedOk(i)'
  BY <1>4 DEF SessionOk, QueuedOk, Less, Creates
<1>8. WorkedOk(i)'
  BY <1>2, <1>4 DEF SessionOk, WorkedOk
<1>9. EndedOk(i)'
  BY <1>1, <1>2 DEF SessionOk, EndedOk, Less
<1>10. QED
  BY <1>5, <1>6, <1>7, <1>8, <1>9 DEF SessionOk
-----------------------------------------------------------------------------
(* The work there can be.                                                  *)

LEMMA Known ==
  /\ Main \in Threads /\ Stop \in Threads /\ Handlers \subseteq Threads
  /\ Main # Stop /\ Main \notin Handlers /\ Stop \notin Handlers
  /\ \A t \in Threads : t \in Handlers \/ t = Main \/ t = Stop
  /\ IdleFrame.pc = "idle" /\ IdleFrame.id = None /\ IdleFrame.st = "init"
  /\ \A pc, act, i, st : /\ At(pc, act, i, st).pc = pc /\ At(pc, act, i, st).act = act
                         /\ At(pc, act, i, st).id = i /\ At(pc, act, i, st).st = st
                         /\ At(pc, act, i, st).fresh
BY ApSRoleAssumption DEF Threads, IdleFrame, At

LEMMA GoneTo ==
  ASSUME TypeOK, NEW t \in Threads, NEW f, Goto(t, f)
  PROVE  \A u \in Threads : threads'[u] = IF u = t THEN f ELSE threads[u]
BY DEF TypeOK, Goto

LEMMA Queues ==
  ASSUME TypeOK
  PROVE  /\ spooler \in Seq(Job \cup {Exit}) /\ spooler2 \in Seq(Job) /\ sync \in Seq(Copy)
         /\ deferred \in Seq([act: Act, id: Sessions])
         /\ workers \in [Workers -> Worker]
BY DEF TypeOK

\* A worker takes the next job from one of the two queues.
LEMMA Taken ==
  ASSUME TypeOK, NEW w \in Workers, WorkerTakes(w)
  PROVE  \E j \in Job \cup {Exit} :
           /\ workers' = [workers EXCEPT ![w] = Received(j)]
           /\ Range(spooler') \subseteq Range(spooler) /\ Range(spooler2') \subseteq Range(spooler2)
           /\ \/ j \in Range(spooler2) /\ UNCHANGED spooler
              \/ /\ j \in Range(spooler)
                 /\ \A i \in Sessions :
                      Once(spooler, i) => /\ Once(spooler', i)
                                          /\ j.id = i => ~Queued(spooler', i)
<1>1. CASE /\ spooler2 # <<>> /\ spooler2' = Tail(spooler2)
           /\ workers' = [workers EXCEPT ![w] = Received(Head(spooler2))]
           /\ UNCHANGED spooler
  <2>1. /\ Head(spooler2) \in Job
        /\ Range(spooler2) = Range(Tail(spooler2)) \cup {Head(spooler2)}
    BY <1>1, Queues, TailRange
  <2>2. QED
    BY <1>1, <2>1
<1>2. CASE /\ spooler # <<>> /\ spooler' = Tail(spooler)
           /\ workers' = [workers EXCEPT ![w] = Received(Head(spooler))]
           /\ UNCHANGED spooler2
  <2>1. /\ Head(spooler) \in Job \cup {Exit}
        /\ Range(spooler) = Range(Tail(spooler)) \cup {Head(spooler)}
    BY <1>2, Queues, TailRange
  <2>2. \A i \in Sessions : Once(spooler, i) => /\ Once(Tail(spooler), i)
                                                /\ Head(spooler).id = i => ~Queued(Tail(spooler), i)
    BY <1>2, Queues, OnceTail
  <2>3. QED
    BY <1>2, <2>1, <2>2
<1>3. QED
  BY <1>1, <1>2 DEF WorkerTakes

\* Work is put off, and moved to the workers once its session is unlocked.
LEMMA PutOff ==
  ASSUME TypeOK, NEW d \in [act: Act, id: Sessions], deferred' = Append(deferred, d)
  PROVE  Range(deferred') = Range(deferred) \cup {d}
<1> DEFINE D == [act: Act, id: Sessions]
<1>1. deferred \in Seq(D) /\ d \in D
  BY Queues
<1> HIDE DEF D
<1>2. QED
  BY <1>1, AppendRange

LEMMA Unlocked ==
  ASSUME TypeOK, UpdateLockedSessions
  PROVE  \E d \in Range(deferred) :
           /\ d.id \in Sessions /\ Range(deferred') \subseteq Range(deferred)
           /\ UNCHANGED <<role, born, machine, threads, spooler, sync, workers, counts>>
           /\ \/ UNCHANGED <<sess, spooler2>>
              \/ /\ Here(d.id) /\ ~sess[d.id].locked
                 /\ sess' = [sess EXCEPT ![d.id].locked = TRUE]
                 /\ \E j \in Job : /\ j.act = d.act /\ j.id = d.id /\ j.st = sess[d.id].st
                                   /\ Range(spooler2') = Range(spooler2) \cup {j}
<1> DEFINE D == [act: Act, id: Sessions]
<1>1. PICK k \in 1 .. Len(deferred) :
        /\ Movable(k) /\ deferred' = RemoveAt(deferred, k)
        /\ LET d == deferred[k]
           IN  \/ UNCHANGED <<sess, spooler2>>
               \/ /\ Here(d.id) /\ sess' = [sess EXCEPT ![d.id].locked = TRUE]
                  /\ spooler2' = Append(spooler2, [act |-> d.act, id |-> d.id, st |-> sess[d.id].st])
  BY DEF UpdateLockedSessions
<1>2. deferred \in Seq(D)
  BY Queues
<1> HIDE DEF D
<1>3. deferred[k] \in D /\ Range(deferred') \subseteq Range(deferred) /\ deferred[k] \in Range(deferred)
  BY <1>1, <1>2, RemoveRange
<1> DEFINE d == deferred[k]
           j == [act |-> d.act, id |-> d.id, st |-> sess[d.id].st]
<1>4. d.id \in Sessions /\ d.act \in Act
  BY <1>3 DEF D
<1>5. UNCHANGED <<role, born, machine, threads, spooler, sync, workers, counts>>
  BY DEF UpdateLockedSessions
<1>6. CASE UNCHANGED <<sess, spooler2>>
  BY <1>3, <1>4, <1>5, <1>6
<1>7. CASE /\ Here(d.id) /\ sess' = [sess EXCEPT ![d.id].locked = TRUE]
           /\ spooler2' = Append(spooler2, j)
  <2>1. ~sess[d.id].locked
    BY <1>1, <1>7 DEF Movable
  <2>2. j \in Job /\ j.act = d.act /\ j.id = d.id /\ j.st = sess[d.id].st
    BY <1>4, <1>7 DEF Job, TypeOK, Object, Here
  <2> HIDE DEF j
  <2>3. Range(spooler2') = Range(spooler2) \cup {j}
    BY <1>7, <2>2, Queues, AppendRange
  <2>4. QED
    BY <1>3, <1>4, <1>5, <1>7, <2>1, <2>2, <2>3
<1>8. QED
  BY <1>1, <1>6, <1>7

LEMMA NoStopNext == OneAtATime /\ TypeInv /\ NoStop /\ [Next]_vars => NoStop'
<1> SUFFICES ASSUME OneAtATime, TypeInv, NoStop, [Next]_vars PROVE NoStop'
  OBVIOUS
<1> USE DEF role, table, machine, queues, counts
<1>a. /\ TypeOK /\ status \in {"running", "lost"} /\ threads[Stop].pc = "idle" /\ ~Stopping
      /\ \A t \in Threads : threads[t].pc # "idle" => t # Stop
  BY Known DEF TypeInv, NoStop, OneAtATime
<1>b. ASSUME NEW t \in Threads, NEW f, Goto(t, f), t # Stop, UNCHANGED role
      PROVE  NoStop'
  BY <1>a, <1>b, Known, GoneTo DEF NoStop
<1>c. ASSUME UNCHANGED threads, UNCHANGED role PROVE NoStop'
  BY <1>c DEF NoStop
<1>1. ASSUME NEW h \in Handlers, NEW i \in Sessions, Request(h, i) PROVE NoStop'
  BY <1>1, <1>b, Known
     DEF Request, ReqSessionCreate, ReqSessionDestroy, ReqSessionDisconnect
<1>2. ASSUME NEW t \in Threads, Thread(t) PROVE NoStop'
  BY <1>2, <1>a, <1>b DEF Thread, Insert, Mark, SpoolAction, Take, Defer, Switch
<1>3. CASE SyncTake
  BY <1>3, <1>b, <1>c, Known DEF SyncTake
<1>4. CASE SyncApply
  <2>1. threads'[Stop].pc = "idle" /\ UNCHANGED <<status, loop>>
    BY <1>4, <1>a, Known DEF SyncApply, TypeOK, Frame
  <2>2. \A i \in Sessions : sweep'[i] = "none"
    BY <1>4, <1>a DEF SyncApply, NoStop, TypeOK
  <2>3. QED
    BY <2>1, <2>2 DEF NoStop
<1>5. ASSUME NEW i \in Sessions, WatchGone(i) \/ WatchChange(i) PROVE NoStop'
  BY <1>5, <1>b, Known DEF WatchGone, WatchChange
<1>6. CASE LeaveLoop
  BY <1>6, <1>a, Known DEF LeaveLoop, Alive, NoStop
<1>7. CASE UpdateLockedSessions \/ Joined
  BY <1>7, <1>a, <1>c DEF UpdateLockedSessions, Joined
<1>8. ASSUME NEW w \in Workers, Work(w) \/ WorkerDies(w) PROVE NoStop'
  BY <1>8, <1>c DEF Work, WorkerTakes, CreateSession, DestroySession, DisconnectSession,
                    Done, WorkerDies
<1>9. CASE StopServer
  BY <1>9, <1>a DEF StopServer, OrderStop, StopSession, StopTimeout, Finalize, NoStop
<1>10. ASSUME NEW i \in Sessions, User(i) PROVE NoStop'
  BY <1>10, <1>c DEF User, LogsIn, Disconnects, LogsOff, UserActs
<1>11. CASE UNCHANGED vars
  BY <1>11, <1>c DEF vars
<1>12. QED
  BY <1>1, <1>2, <1>3, <1>4, <1>5, <1>6, <1>7, <1>8, <1>9, <1>10, <1>11 DEF Next, RunLoop

LEMMA ThreadsNext == TypeInv /\ OrphanInv /\ [Next]_vars => ThreadsDo'
<1> SUFFICES ASSUME TypeInv, OrphanInv, [Next]_vars PROVE ThreadsDo'
  OBVIOUS
<1> USE DEF role, table, machine, queues, counts
<1>a. TypeOK /\ ThreadsDo /\ NoStop /\ NotDestroyed
  BY DEF TypeInv, OrphanInv, WorkInv
<1>b. ASSUME NEW t \in Threads, NEW f, Goto(t, f),
             f.pc \in {"mark", "defer"} => f.act # "create",
             f.pc = "insert" => f.act = "create",
             f.pc \in {"watch", "apply"} => t = Main,
             f.pc # "apply" => f.st # "destroyed"
      PROVE  ThreadsDo'
  BY <1>a, <1>b, GoneTo DEF ThreadsDo
<1>c. ASSUME UNCHANGED threads PROVE ThreadsDo'
  BY <1>a, <1>c DEF ThreadsDo
<1>1. ASSUME NEW h \in Handlers, NEW i \in Sessions, Request(h, i) PROVE ThreadsDo'
  BY <1>1, <1>a, <1>b, Known
     DEF Request, ReqSessionCreate, ReqSessionDestroy, ReqSessionDisconnect, Over
<1>2. ASSUME NEW t \in Threads, Thread(t) PROVE ThreadsDo'
  <2>1. CASE Mark(t)
    <3> DEFINE f == [threads[t] EXCEPT !.pc = "spool", !.st = "wait_destroy"]
    <3>1. f.pc = "spool" /\ f.st = "wait_destroy" /\ Goto(t, f)
      BY <1>a, <2>1 DEF Mark, TypeOK, Frame
    <3> HIDE DEF f
    <3>2. QED
      BY <1>b, <3>1
  <2>2. CASE SpoolAction(t)
    <3> DEFINE i == threads[t].id
    <3>1. CASE Goto(t, IdleFrame)
      BY <3>1, <1>b, Known
    <3>2. CASE Here(i) /\ Locked(i) /\ Goto(t, At("defer", threads[t].act, i, sess[i].st))
      <4>1. i \in Sessions /\ sess[i].st # "destroyed"
        BY <3>2, <2>2, <1>a DEF SpoolAction, TypeInv, Named, NotDestroyed
      <4>2. threads[t].act # "create"
        BY <3>2, <2>2, <4>1 DEF SpoolAction, Locked, OrphanInv, SessionOk, StartingOk, Starts, Creates
      <4>3. QED
        BY <3>2, <4>1, <4>2, <1>b, Known
    <3>3. CASE Here(i) /\ Goto(t, At("take", threads[t].act, i, sess[i].st))
      <4>1. i \in Sessions /\ sess[i].st # "destroyed"
        BY <3>3, <2>2, <1>a DEF SpoolAction, TypeInv, Named, NotDestroyed
      <4>2. QED
        BY <3>3, <4>1, <1>b, Known
    <3>4. QED
      BY <2>2, <3>1, <3>2, <3>3 DEF SpoolAction
  <2>3. CASE Take(t) \/ Defer(t) \/ Switch(t)
    BY <2>3, <1>b, Known DEF Take, Defer, Switch
  <2>4. CASE Insert(t)
    BY <2>4, <1>b, Known DEF Insert
  <2>5. QED
    BY <1>2, <2>1, <2>2, <2>3, <2>4 DEF Thread
<1>3. CASE SyncTake
  BY <1>3, <1>b, <1>c, Known DEF SyncTake
<1>4. CASE SyncApply
  <2>1. \A t \in Threads : \/ threads'[t] = IdleFrame
                           \/ /\ threads'[t].pc = threads[t].pc /\ threads'[t].act = threads[t].act
                              /\ threads'[t].st = threads[t].st
    BY <1>4, <1>a DEF SyncApply, TypeOK, Frame
  <2>2. QED
    BY <2>1, <1>a, Known DEF ThreadsDo
<1>5. ASSUME NEW i \in Sessions, WatchGone(i) \/ WatchChange(i) PROVE ThreadsDo'
  BY <1>5, <1>b, Known DEF WatchGone, WatchChange, Follows
<1>6. ASSUME NEW w \in Workers, Work(w) \/ WorkerDies(w) PROVE ThreadsDo'
  BY <1>6, <1>c DEF Work, WorkerTakes, CreateSession, DestroySession, DisconnectSession,
                    Done, WorkerDies
<1>7. CASE LeaveLoop \/ UpdateLockedSessions \/ Joined
  BY <1>7, <1>c DEF LeaveLoop, UpdateLockedSessions, Joined
<1>8. CASE StopServer
  BY <1>8, <1>a, <1>c DEF StopServer, OrderStop, StopSession, StopTimeout, Finalize, NoStop
<1>9. ASSUME NEW i \in Sessions, User(i) PROVE ThreadsDo'
  BY <1>9, <1>c DEF User, LogsIn, Disconnects, LogsOff, UserActs
<1>10. CASE UNCHANGED vars
  BY <1>10, <1>c DEF vars
<1>11. QED
  BY <1>1, <1>2, <1>3, <1>4, <1>5, <1>6, <1>7, <1>8, <1>9, <1>10 DEF Next, RunLoop

LEMMA NotCreateNext == TypeInv /\ WorkInv /\ [Next]_vars => NotCreate'
<1> SUFFICES ASSUME TypeInv, WorkInv, [Next]_vars PROVE NotCreate'
  OBVIOUS
<1> USE DEF role, table, machine, queues, counts
<1>a. TypeOK /\ ThreadsDo /\ NoStop /\ NotCreate
  BY DEF TypeInv, WorkInv
<1>b. ASSUME Range(deferred') \subseteq Range(deferred), Range(spooler2') \subseteq Range(spooler2)
      PROVE  NotCreate'
  BY <1>a, <1>b DEF NotCreate
<1>1. ASSUME NEW h \in Handlers, NEW i \in Sessions, Request(h, i) PROVE NotCreate'
  BY <1>1, <1>b DEF Request, ReqSessionCreate, ReqSessionDestroy, ReqSessionDisconnect
<1>2. ASSUME NEW t \in Threads, Thread(t) PROVE NotCreate'
  <2>1. CASE Defer(t)
    <3> DEFINE d == [act |-> threads[t].act, id |-> threads[t].id]
    <3>1. d \in [act: Act, id: Sessions] /\ d.act # "create"
      BY <2>1, <1>a DEF Defer, TypeInv, TypeOK, Named, Frame, ThreadsDo
    <3>2. deferred' = Append(deferred, d) /\ UNCHANGED spooler2
      BY <2>1 DEF Defer
    <3> HIDE DEF d
    <3>3. Range(deferred') = Range(deferred) \cup {d}
      BY <1>a, <3>1, <3>2, PutOff
    <3>4. QED
      BY <1>a, <3>1, <3>2, <3>3 DEF NotCreate
  <2>2. CASE ~Defer(t)
    BY <1>2, <2>2, <1>b DEF Thread, Insert, Mark, SpoolAction, Take, Switch
  <2>3. QED
    BY <2>1, <2>2
<1>3. CASE UpdateLockedSessions
  <2>1. PICK d \in Range(deferred) :
          /\ Range(deferred') \subseteq Range(deferred)
          /\ \/ UNCHANGED spooler2
             \/ \E j \in Job : j.act = d.act /\ Range(spooler2') = Range(spooler2) \cup {j}
    BY <1>3, <1>a, Unlocked
  <2>2. QED
    BY <1>a, <2>1 DEF NotCreate
<1>4. CASE RunLoop /\ ~UpdateLockedSessions
  BY <1>4, <1>b DEF RunLoop, SyncTake, SyncApply, WatchGone, WatchChange, LeaveLoop, Joined
<1>5. ASSUME NEW w \in Workers, Work(w) \/ WorkerDies(w) PROVE NotCreate'
  <2>1. CASE WorkerTakes(w)
    <3>1. UNCHANGED deferred
      BY <2>1 DEF WorkerTakes
    <3>2. UNCHANGED spooler2 \/ (spooler2 # <<>> /\ spooler2' = Tail(spooler2))
      BY <2>1 DEF WorkerTakes
    <3>3. Range(spooler2') \subseteq Range(spooler2)
      BY <1>a, <3>2, Queues, TailRange
    <3>4. QED
      BY <1>b, <3>1, <3>3
  <2>2. CASE ~WorkerTakes(w)
    BY <1>5, <2>2, <1>b DEF Work, CreateSession, DestroySession, DisconnectSession,
                            Done, WorkerDies
  <2>3. QED
    BY <2>1, <2>2
<1>6. CASE StopServer
  BY <1>6, <1>a, <1>b DEF StopServer, OrderStop, StopSession, StopTimeout, Finalize, NoStop
<1>7. ASSUME NEW i \in Sessions, User(i) PROVE NotCreate'
  BY <1>7, <1>b DEF User, LogsIn, Disconnects, LogsOff, UserActs
<1>8. CASE UNCHANGED vars
  BY <1>8, <1>b DEF vars
<1>9. QED
  BY <1>1, <1>2, <1>3, <1>4, <1>5, <1>6, <1>7, <1>8 DEF Next

LEMMA NotDestroyedNext == TypeInv /\ WorkInv /\ [Next]_vars => NotDestroyed'
<1> SUFFICES ASSUME TypeInv, WorkInv, [Next]_vars PROVE NotDestroyed'
  OBVIOUS
<1> USE DEF role, table, machine, queues, counts
<1>a. TypeOK /\ ThreadsDo /\ NoStop /\ NotDestroyed /\ "destroyed" \in St
  BY DEF TypeInv, WorkInv, St
<1>b. ASSUME \A i \in Sessions : Here(i)' => sess'[i].st # "destroyed",
             Range(spooler') \subseteq Range(spooler), Range(spooler2') \subseteq Range(spooler2),
             UNCHANGED workers
      PROVE  NotDestroyed'
  BY <1>a, <1>b DEF NotDestroyed
<1>c. ASSUME UNCHANGED <<sess, spooler, spooler2, workers>> PROVE NotDestroyed'
  BY <1>a, <1>c DEF NotDestroyed, Here
<1>1. ASSUME NEW h \in Handlers, NEW i \in Sessions, Request(h, i) PROVE NotDestroyed'
  BY <1>1, <1>c DEF Request, ReqSessionCreate, ReqSessionDestroy, ReqSessionDisconnect
<1>2. ASSUME NEW t \in Threads, Thread(t) PROVE NotDestroyed'
  <2>1. CASE Mark(t) \/ Switch(t)
    <3>1. PICK x \in St : /\ Write(threads[t], x) /\ x # "destroyed"
                          /\ threads[t].pc \in {"mark", "watch"}
      BY <2>1, <1>a DEF Mark, Switch, ThreadsDo, TypeOK, Frame, St
    <3>2. \A i \in Sessions : Here(i)' => sess'[i].st # "destroyed"
      BY <1>a, <3>1, WriteHeld DEF NotDestroyed
    <3>3. QED
      BY <1>b, <2>1, <3>2 DEF Mark, Switch
  <2>2. CASE Insert(t)
    <3>1. \A i \in Sessions : Here(i)' => sess'[i].st # "destroyed"
      BY <1>a, <2>2 DEF Insert, TypeOK, NotDestroyed, Here
    <3>2. QED
      BY <1>b, <2>2, <3>1 DEF Insert
  <2>3. CASE Take(t)
    <3> DEFINE f == threads[t]
               j == [act |-> f.act, id |-> f.id, st |-> f.st]
    <3>1. /\ f \in Frame /\ f.id \in Sessions /\ (f.fresh => Here(f.id)) /\ f.st # "destroyed"
          /\ sess' = IF f.fresh THEN [sess EXCEPT ![f.id].locked = TRUE] ELSE sess
          /\ spooler' = Append(spooler, j) /\ UNCHANGED <<spooler2, workers>>
      BY <2>3, <1>a DEF Take, TypeInv, TypeOK, Named, HeldHere, ThreadsDo
    <3>2. \A i \in Sessions : Here(i)' => sess'[i].st # "destroyed"
      <4>1. CASE f.fresh
        <5>1. /\ \A i \in Sessions : i # f.id => sess'[i] = sess[i]
              /\ sess'[f.id].st = sess[f.id].st
          BY <1>a, <3>1, <4>1, WriteLock
        <5>2. QED
          BY <1>a, <3>1, <4>1, <5>1 DEF NotDestroyed, Here
      <4>2. CASE ~f.fresh
        BY <1>a, <3>1, <4>2 DEF NotDestroyed, Here
      <4>3. QED
        BY <4>1, <4>2
    <3>3. j \in Job \cup {Exit} /\ j.st = f.st
      BY <3>1 DEF Job, Frame
    <3> HIDE DEF j, f
    <3>4. Range(spooler') = Range(spooler) \cup {j}
      BY <1>a, <3>1, <3>3, Queues, AppendRange
    <3>5. QED
      BY <1>a, <3>1, <3>2, <3>3, <3>4 DEF NotDestroyed
  <2>4. CASE SpoolAction(t) \/ Defer(t)
    BY <1>c, <2>4 DEF SpoolAction, Defer
  <2>5. QED
    BY <1>2, <2>1, <2>2, <2>3, <2>4 DEF Thread
<1>3. CASE SyncApply
  <2>1. \A i \in Sessions : Here(i)' => sess'[i].st # "destroyed"
    BY <1>3, <1>a DEF SyncApply, Returned, TypeOK, NotDestroyed, Here
  <2>2. QED
    BY <1>3, <1>b, <2>1 DEF SyncApply
<1>4. CASE UpdateLockedSessions
  <2>1. PICK d \in Range(deferred) :
          /\ d.id \in Sessions /\ UNCHANGED <<spooler, workers>>
          /\ \/ UNCHANGED <<sess, spooler2>>
             \/ /\ Here(d.id) /\ sess' = [sess EXCEPT ![d.id].locked = TRUE]
                /\ \E j \in Job : /\ j.st = sess[d.id].st
                                  /\ Range(spooler2') = Range(spooler2) \cup {j}
    BY <1>4, <1>a, Unlocked
  <2>2. CASE UNCHANGED <<sess, spooler2>>
    BY <1>c, <2>1, <2>2
  <2>3. CASE Here(d.id) /\ sess' = [sess EXCEPT ![d.id].locked = TRUE]
    <3>1. /\ \A x \in Sessions : x # d.id => sess'[x] = sess[x]
          /\ sess'[d.id].st = sess[d.id].st
      BY <1>a, <2>1, <2>3, WriteLock
    <3>2. \A x \in Sessions : Here(x)' => sess'[x].st # "destroyed"
      BY <1>a, <2>1, <2>3, <3>1 DEF NotDestroyed, Here
    <3>3. \A j \in Range(spooler2') : j \in Range(spooler2) \/ j.st = sess[d.id].st
      BY <2>1
    <3>4. QED
      BY <1>a, <2>1, <2>3, <3>2, <3>3 DEF NotDestroyed
  <2>4. QED
    BY <2>1, <2>2, <2>3
<1>5. CASE LeaveLoop
  <2>1. UNCHANGED <<sess, spooler2, workers>> /\ spooler' = WithExits(spooler)
    BY <1>5 DEF LeaveLoop
  <2>2. \A j \in Range(spooler') : j \in Range(spooler) \/ j.st # "destroyed"
    <3>1. \A j \in Range(WithExits(spooler)) : j \in Range(spooler) \/ j = Exit
      BY <1>a, Queues, ExitsOnly
    <3>2. QED
      BY <2>1, <3>1 DEF Exit
  <2>3. QED
    BY <1>a, <2>1, <2>2 DEF NotDestroyed, Here
<1>6. CASE SyncTake \/ Joined \/ \E i \in Sessions : WatchGone(i) \/ WatchChange(i)
  BY <1>6, <1>c DEF SyncTake, WatchGone, WatchChange, Joined
<1>7. ASSUME NEW w \in Workers, Work(w) \/ WorkerDies(w) PROVE NotDestroyed'
  <2>1. CASE WorkerTakes(w)
    <3>1. PICK j \in Job \cup {Exit} :
            /\ j \in Range(spooler) \cup Range(spooler2)
            /\ Range(spooler') \subseteq Range(spooler) /\ Range(spooler2') \subseteq Range(spooler2)
            /\ workers' = [workers EXCEPT ![w] = Received(j)]
      BY <1>a, <2>1, Taken
    <3>2. \A v \in Workers : workers'[v].mode = "busy" => workers'[v].job.st # "destroyed"
      BY <1>a, <3>1 DEF TypeOK, Received, NotDestroyed
    <3>3. UNCHANGED sess
      BY <2>1 DEF WorkerTakes
    <3>4. QED
      BY <1>a, <3>1, <3>2, <3>3 DEF NotDestroyed, Here
  <2>2. CASE CreateSession(w) \/ DestroySession(w) \/ DisconnectSession(w) \/ WorkerDies(w)
    <3>1. \A v \in Workers : workers'[v].mode = "busy" => workers'[v] = workers[v]
      BY <1>a, <2>2 DEF CreateSession, DestroySession, DisconnectSession, Done, WorkerDies,
                        IdleWorker, TypeOK, Worker
    <3>2. UNCHANGED <<sess, spooler, spooler2>>
      BY <2>2 DEF CreateSession, DestroySession, DisconnectSession, Done, WorkerDies
    <3>3. QED
      BY <1>a, <3>1, <3>2 DEF NotDestroyed, Here
  <2>3. QED
    BY <1>7, <2>1, <2>2 DEF Work
<1>8. CASE StopServer
  BY <1>8, <1>a, <1>c DEF StopServer, OrderStop, StopSession, StopTimeout, Finalize, NoStop
<1>9. ASSUME NEW i \in Sessions, User(i) PROVE NotDestroyed'
  BY <1>9, <1>c DEF User, LogsIn, Disconnects, LogsOff, UserActs
<1>10. CASE UNCHANGED vars
  BY <1>10, <1>c DEF vars
<1>11. QED
  BY <1>1, <1>2, <1>3, <1>4, <1>5, <1>6, <1>7, <1>8, <1>9, <1>10 DEF Next, RunLoop

LEMMA WorkNext == OneAtATime /\ TypeInv /\ OrphanInv /\ [Next]_vars => WorkInv'
<1>1. OrphanInv => WorkInv /\ NoStop
  BY DEF OrphanInv, WorkInv
<1>2. QED
  BY <1>1, NoStopNext, ThreadsNext, NotCreateNext, NotDestroyedNext DEF WorkInv
-----------------------------------------------------------------------------
(* What each thread does to session i.                                     *)

\* A thread turns to something else than session i.
LEMMA Elsewhere ==
  ASSUME TypeOK, NEW i \in Sessions, SessionOk(i),
         NEW t \in Threads, NEW f, Goto(t, f), f.id # i,
         sess'[i] = sess[i], i \in born' <=> i \in born,
         UNCHANGED <<user, deferred, spooler, spooler2, sync, workers>>
  PROVE  SessionOk(i)'
<1>1. \A u \in Threads : threads'[u].id = i => threads'[u] = threads[u]
  BY GoneTo
<1>2. QED
  BY <1>1, Apart DEF Less

\* Who starts the creation of session i is the HTTP thread.
LEMMA Starter ==
  ASSUME NEW i \in Sessions, SessionOk(i), NoStop, NEW t \in Threads, Starts(threads[t], i)
  PROVE  t \in Handlers
<1>1. t # Main /\ t # Stop
  BY Known DEF SessionOk, StartingOk, Clear, Starts, Creates, NoStop
<1>2. QED
  BY <1>1, Known

\* A thread turns to session i, not to create it.
LEMMA TurnsTo ==
  ASSUME OneAtATime, TypeOK, NoStop, NEW i \in Sessions, SessionOk(i),
         NEW t \in Threads, NEW f, Goto(t, f), ~Starts(f, i), f.pc # "apply",
         t = Main => Settled(i), t \in Handlers \/ t = Main,
         i \in born, f.pc = "take" /\ f.id = i => ~Held(i),
         Here(i) => /\ Here(i)' /\ sess'[i].locked = sess[i].locked
                    /\ sess'[i].st \in {sess[i].st, "wait_destroy"},
         UNCHANGED <<user, born, deferred, spooler, spooler2, sync, workers>>
  PROVE  SessionOk(i)'
<1>1. \A u \in Threads : threads'[u] = IF u = t THEN f ELSE threads[u]
  BY GoneTo
<1>2. \A u \in Threads : Starts(threads[u], i) => u = t
  BY Starter, Known DEF OneAtATime, Settled
<1>3. \A u \in Threads : ~Starts(threads'[u], i)
  BY <1>1, <1>2
<1>4. EndedOk(i)'
  BY <1>1, Known DEF SessionOk, EndedOk
<1>5. CASE t = Main
  <2>1. Settled(i)'
    BY <1>3, <1>5 DEF Settled
  <2>2. QED
    BY <1>4, <2>1, SettledOk
<1>6. CASE t # Main
  <2>1. ASSUME Held(i) PROVE Held(i)'
    <3>1. /\ Here(i)' /\ sess'[i].locked /\ sess'[i].st \in {"init", "wait_destroy"}
          /\ ~Queued(spooler2', i) /\ ~Queued(sync', i) /\ ~user'[i]
      BY <2>1 DEF Held
    <3>2. threads'[Main].id # i
      BY <1>1, <1>6, <2>1, Known DEF Held
    <3>3. \A u \in Threads : threads'[u].pc = "take" => threads'[u].id # i
      BY <1>1, <2>1 DEF Held
    <3>4. QED
      BY <3>1, <3>2, <3>3 DEF Held
  <2>2. UnbornOk(i)' /\ StartingOk(i)'
    BY <1>3 DEF UnbornOk, StartingOk
  <2>3. QueuedOk(i)' /\ WorkedOk(i)'
    BY <2>1 DEF SessionOk, QueuedOk, WorkedOk
  <2>4. QED
    BY <1>4, <2>2, <2>3 DEF SessionOk
<1>7. QED
  BY <1>5, <1>6

LEMMA CreateAsked ==
  ASSUME TypeOK, NEW i \in Sessions, SessionOk(i), NEW h \in Handlers,
         ReqSessionCreate(h, i)
  PROVE  SessionOk(i)'
<1> USE DEF role, table, machine, queues, counts
<1>1. i \notin born /\ i \in born' /\ h \in Threads /\ h # Main
      /\ Goto(h, At("insert", "create", i, "init"))
      /\ UNCHANGED <<user, sess, deferred, spooler, spooler2, sync, workers>>
  BY Known DEF ReqSessionCreate
<1>2. \A u \in Threads : threads'[u] = IF u = h THEN At("insert", "create", i, "init")
                                                ELSE threads[u]
  BY <1>1, GoneTo
<1>3. Clear(i) /\ ~Here(i) /\ \A u \in Threads : threads[u].id # i
  BY <1>1 DEF SessionOk, UnbornOk
<1>4. Clear(i)' /\ ~Here(i)'
  BY <1>1, <1>2, <1>3, Known DEF Clear, Here
<1>5. StartingOk(i)'
  BY <1>2, <1>3, <1>4, Known DEF StartingOk, Starts, Creates
<1>6. UnbornOk(i)' /\ QueuedOk(i)' /\ WorkedOk(i)' /\ EndedOk(i)'
  BY <1>1, <1>4 DEF UnbornOk, QueuedOk, WorkedOk, EndedOk, Clear, Queued, Creates
<1>7. QED
  BY <1>5, <1>6 DEF SessionOk

LEMMA RequestOk ==
  ASSUME OneAtATime, TypeInv, OrphanInv, NEW i \in Sessions,
         NEW h \in Handlers, NEW x \in Sessions, Request(h, x)
  PROVE  SessionOk(i)'
<1> USE DEF role, table, machine, queues, counts
<1>1. SessionOk(i) /\ TypeOK /\ NoStop /\ h \in Threads
  BY Known DEF OrphanInv, WorkInv, TypeInv
<1>2. CASE ReqSessionCreate(h, x)
  <2>1. CASE x = i
    BY <1>1, <1>2, <2>1, CreateAsked
  <2>2. CASE x # i
    BY <1>1, <1>2, <2>2, Elsewhere, Known DEF ReqSessionCreate
  <2>3. QED
    BY <2>1, <2>2
<1>3. CASE ReqSessionDestroy(h, x) \/ ReqSessionDisconnect(h, x)
  <2>1. PICK pc \in {"mark", "spool"}, act \in {"destroy", "disconnect"}, st \in St :
          Goto(h, At(pc, act, x, st))
    BY <1>1, <1>3 DEF ReqSessionDestroy, ReqSessionDisconnect, Here, TypeOK, Object, St
  <2>2. Here(x) /\ UNCHANGED <<sess, born, user, deferred, spooler, spooler2, sync, workers>>
    BY <1>3 DEF ReqSessionDestroy, ReqSessionDisconnect
  <2> DEFINE f == At(pc, act, x, st)
  <2>3. f.id = x /\ ~Starts(f, i) /\ f.pc # "apply" /\ f.pc # "take"
    BY Known DEF Starts, Creates
  <2> HIDE DEF f
  <2>4. CASE x = i
    <3>1. i \in born
      BY <1>1, <2>2, <2>4 DEF SessionOk, UnbornOk
    <3>2. QED
      BY <1>1, <2>1, <2>2, <2>3, <3>1, TurnsTo, Known DEF f, Here
  <2>5. CASE x # i
    BY <1>1, <2>1, <2>2, <2>3, <2>5, Elsewhere DEF f
  <2>6. QED
    BY <2>4, <2>5
<1>4. QED
  BY <1>2, <1>3 DEF Request

\* The object is in the table and unlocked, and what makes its account is spooled.
LEMMA InsertOk ==
  ASSUME OneAtATime, TypeInv, OrphanInv, NEW i \in Sessions, NEW t \in Threads, Insert(t)
  PROVE  SessionOk(i)'
<1> USE DEF role, table, machine, queues, counts
<1> DEFINE x == threads[t].id
<1>1. SessionOk(i) /\ TypeOK /\ x \in Sessions /\ threads[t].pc = "insert"
  BY DEF OrphanInv, TypeInv, Insert, Named
<1>2. /\ Goto(t, At("spool", "create", x, "init"))
      /\ sess' = [sess EXCEPT ![x] = [st |-> "init", locked |-> FALSE]]
      /\ UNCHANGED <<born, user, deferred, spooler, spooler2, sync, workers>>
  BY DEF Insert
<1>3. CASE x # i
  <2>1. sess'[i] = sess[i]
    BY <1>1, <1>2, <1>3 DEF TypeOK
  <2>2. QED
    BY <1>1, <1>2, <1>3, <2>1, Elsewhere, Known
<1>4. CASE x = i
  <2>1. Starts(threads[t], i)
    BY <1>1, <1>4 DEF OrphanInv, WorkInv, ThreadsDo, Starts, Creates
  <2>2. Clear(i) /\ i \in born /\ t # Main
    BY <1>1, <1>4, <2>1 DEF SessionOk, StartingOk, UnbornOk, Clear
  <2>3. \A u \in Threads : threads'[u] = IF u = t THEN At("spool", "create", i, "init")
                                                  ELSE threads[u]
    BY <1>1, <1>2, <1>4, GoneTo
  <2>4. Here(i)' /\ sess'[i] = [st |-> "init", locked |-> FALSE]
    BY <1>1, <1>2, <1>4, WriteObject DEF Object, St
  <2>5. Clear(i)'
    BY <1>2, <2>2, <2>3, Known DEF Clear
  <2>6. \A u \in Threads : Starts(threads[u], i) => u = t
    BY <1>1, <2>1, Starter DEF OneAtATime, OrphanInv, WorkInv
  <2>7. StartingOk(i)'
    BY <2>3, <2>4, <2>5, <2>6, Known DEF StartingOk
  <2>8. UnbornOk(i)' /\ QueuedOk(i)' /\ WorkedOk(i)' /\ EndedOk(i)'
    BY <1>2, <2>2, <2>5 DEF UnbornOk, QueuedOk, WorkedOk, EndedOk, Clear, Queued, Creates
  <2>9. QED
    BY <2>7, <2>8 DEF SessionOk
<1>5. QED
  BY <1>3, <1>4

\* While the creation is spooled, other work finds the lock and is put off.
LEMMA SpoolOk ==
  ASSUME OneAtATime, TypeInv, OrphanInv, NEW i \in Sessions, NEW t \in Threads,
         SpoolAction(t)
  PROVE  SessionOk(i)'
<1> USE DEF role, table, machine, queues, counts
<1> DEFINE x == threads[t].id
<1>1. SessionOk(i) /\ TypeOK /\ NoStop /\ x \in Sessions /\ threads[t].pc = "spool"
  BY DEF OrphanInv, WorkInv, TypeInv, SpoolAction, Named
<1>2. UNCHANGED <<sess, born, user, deferred, spooler, spooler2, sync, workers>>
  BY DEF SpoolAction
<1>3. PICK f : /\ Goto(t, f)
               /\ \/ f = IdleFrame
                  \/ /\ f.id = x /\ f.act = threads[t].act /\ f.fresh /\ Here(x)
                     /\ \/ f.pc = "defer" /\ sess[x].locked
                        \/ f.pc = "take" /\ ~sess[x].locked
  BY Known DEF SpoolAction, Locked, At
<1>4. CASE x # i \/ f = IdleFrame
  <2>1. f.id # i
    BY <1>3, <1>4, Known, ApSRoleAssumption
  <2>2. QED
    BY <1>1, <1>2, <1>3, <2>1, Elsewhere
<1>5. CASE x = i /\ f # IdleFrame /\ ~Starts(threads[t], i)
  <2>1. i \in born /\ threads[t].act # "create" /\ t # Stop
    BY <1>1, <1>5 DEF SessionOk, UnbornOk, Starts, Creates, NoStop
  <2>2. ~Starts(f, i) /\ f.pc # "apply" /\ (f.pc = "take" => ~Held(i))
    BY <1>3, <1>5, <2>1 DEF Starts, Creates, Held
  <2>3. t = Main => Settled(i)
    BY <1>1, <1>5, Settles DEF Clear, Held
  <2>4. QED
    BY <1>1, <1>2, <1>3, <2>1, <2>2, <2>3, TurnsTo, Known DEF Here
<1>6. CASE x = i /\ f # IdleFrame /\ Starts(threads[t], i)
  <2>1. Clear(i) /\ Here(i) /\ ~sess[i].locked /\ sess[i].st = "init" /\ i \in born /\ t # Main
    BY <1>1, <1>6 DEF SessionOk, StartingOk, UnbornOk, Clear
  <2>2. \A u \in Threads : threads'[u] = IF u = t THEN f ELSE threads[u]
    BY <1>1, <1>3, GoneTo
  <2>3. f.pc = "take" /\ f.id = i /\ f.fresh
    BY <1>3, <1>6, <2>1
  <2>4. Clear(i)'
    BY <1>2, <2>1, <2>2, Known DEF Clear
  <2>5. StartingOk(i)'
    BY <1>1, <1>2, <2>1, <2>2, <2>3, <2>4 DEF SessionOk, StartingOk, Starts, Here
  <2>6. UnbornOk(i)' /\ QueuedOk(i)' /\ WorkedOk(i)' /\ EndedOk(i)'
    BY <1>2, <2>1, <2>4 DEF UnbornOk, QueuedOk, WorkedOk, EndedOk, Clear, Queued, Creates
  <2>7. QED
    BY <2>5, <2>6 DEF SessionOk
<1>7. QED
  BY <1>4, <1>5, <1>6

\* The creation enters the queue, and locks the session; or other work does,
\* once the creation is over.
LEMMA TakeOk ==
  ASSUME OneAtATime, TypeInv, OrphanInv, NEW i \in Sessions, NEW t \in Threads, Take(t)
  PROVE  SessionOk(i)'
<1> USE DEF role, table, machine, queues, counts
<1> DEFINE f == threads[t]
           j == [act |-> f.act, id |-> f.id, st |-> f.st]
<1>1. SessionOk(i) /\ TypeOK /\ NoStop
  BY DEF OrphanInv, WorkInv, TypeInv
<1>2. f \in Frame /\ f.id \in Sessions /\ f.pc = "take" /\ (f.fresh => Here(f.id))
  BY DEF Take, TypeInv, TypeOK, Named, HeldHere
<1>3. /\ sess' = IF f.fresh THEN [sess EXCEPT ![f.id].locked = TRUE] ELSE sess
      /\ spooler' = Append(spooler, j) /\ Goto(t, IdleFrame)
      /\ UNCHANGED <<born, user, deferred, spooler2, sync, workers>>
  BY DEF Take
<1>4. j \in Job \cup {Exit} /\ j.act = f.act /\ j.id = f.id
  BY <1>2 DEF Job, Frame
<1>5. /\ \A u \in Threads : threads'[u] = IF u = t THEN IdleFrame ELSE threads[u]
      /\ IdleFrame.id # i /\ IdleFrame.pc = "idle"
  BY <1>1, <1>3, GoneTo, Known, ApSRoleAssumption
<1>6. f.fresh => /\ \A y \in Sessions : y # f.id => sess'[y] = sess[y]
                 /\ \A y \in Sessions : Here(y) => Here(y)'
                 /\ sess'[f.id].st = sess[f.id].st /\ sess'[f.id].locked
  BY <1>1, <1>2, <1>3, WriteLock
<1> HIDE DEF j
<1>7. Range(spooler') = Range(spooler) \cup {j}
  BY <1>1, <1>3, <1>4, Queues, AppendRange
<1>8. CASE f.id # i
  <2>1. sess'[i] = sess[i]
    BY <1>3, <1>6, <1>8
  <2>2. Once(spooler, i) => Once(spooler', i)
    BY <1>1, <1>3, <1>4, <1>8, Queues, OnceAppend
  <2>3. \A u \in Threads : threads'[u].id = i => threads'[u] = threads[u]
    BY <1>5
  <2>4. QED
    BY <1>1, <1>3, <1>4, <1>7, <1>8, <2>1, <2>2, <2>3, Apart DEF Less
<1>9. CASE f.id = i /\ ~Starts(f, i)
  <2>1. i \in born /\ f.act # "create" /\ ~Held(i) /\ t # Stop
    BY <1>1, <1>2, <1>9 DEF SessionOk, UnbornOk, Starts, Creates, Held, NoStop
  <2>2. \A u \in Threads : ~Starts(threads[u], i)
    BY <1>1, <1>9, <2>1, Starter, Known
       DEF OneAtATime, SessionOk, StartingOk, Clear
  <2>3. Settled(i)
    BY <1>1, <1>9, <2>1, <2>2, Settles
  <2>4. Settled(i)'
    BY <1>3, <1>4, <1>5, <1>7, <2>1, <2>3 DEF Settled, Starts, Creates
  <2>5. Here(i) => Here(i)'
    BY <1>2, <1>3, <1>6, <1>9 DEF Here
  <2>6. EndedOk(i)'
    BY <1>1, <1>3, <1>5, <2>5, Known DEF SessionOk, EndedOk
  <2>7. QED
    BY <2>4, <2>6, SettledOk
<1>10. CASE Starts(f, i)
  <2>1. /\ Clear(i) /\ Here(i) /\ sess[i].st = "init" /\ f.fresh /\ i \in born /\ f.id = i
        /\ f.act = "create" /\ t \in Handlers
    BY <1>1, <1>2, <1>10, Starter
       DEF SessionOk, StartingOk, UnbornOk, Clear, Starts, Creates
  <2>2. \A u \in Threads : ~Starts(threads'[u], i)
    BY <1>1, <1>5, <2>1, Starter DEF OneAtATime, Starts
  <2>3. \A u \in Threads : threads'[u].pc = "take" => threads'[u].id # i
    BY <1>1, <1>5, <2>1, Known DEF OneAtATime, NoStop, Clear
  <2>4. Held(i)'
    BY <1>3, <1>5, <1>6, <2>1, <2>3, Known DEF Held, Clear
  <2>5. Once(spooler, i) /\ Once(spooler', i)
    <3>1. Once(spooler, i)
      BY <2>1 DEF Clear, Queued, Once, Range
    <3>2. QED
      BY <1>1, <1>3, <1>4, <2>1, <3>1, Queues, OnceAppend DEF Clear
  <2>6. QueuedOk(i)' /\ WorkedOk(i)'
    BY <1>3, <2>1, <2>4, <2>5 DEF QueuedOk, WorkedOk, Clear
  <2>7. UnbornOk(i)' /\ StartingOk(i)' /\ EndedOk(i)'
    BY <1>3, <1>5, <2>1, <2>2, Known DEF UnbornOk, StartingOk, EndedOk, Clear
  <2>8. QED
    BY <2>6, <2>7 DEF SessionOk
<1>11. QED
  BY <1>8, <1>9, <1>10 DEF Starts, Creates

LEMMA MarkOk ==
  ASSUME OneAtATime, TypeInv, OrphanInv, NEW i \in Sessions, NEW t \in Threads, Mark(t)
  PROVE  SessionOk(i)'
<1> USE DEF role, table, machine, queues, counts
<1> DEFINE x == threads[t].id
           f == [threads[t] EXCEPT !.pc = "spool", !.st = "wait_destroy"]
<1>1. /\ SessionOk(i) /\ TypeOK /\ NoStop /\ x \in Sessions /\ threads[t].pc = "mark"
      /\ threads[t].act # "create" /\ (threads[t].fresh => Here(x))
      /\ "wait_destroy" \in St
  BY DEF OrphanInv, WorkInv, TypeInv, Mark, Named, HeldHere, ThreadsDo, St
<1>2. /\ Write(threads[t], "wait_destroy") /\ Goto(t, f)
      /\ UNCHANGED <<born, user, deferred, spooler, spooler2, sync, workers>>
  BY DEF Mark
<1>3. f.pc = "spool" /\ f.id = x /\ f.act = threads[t].act /\ t # Stop
  BY <1>1 DEF TypeOK, Frame, NoStop
<1> HIDE DEF f
<1>4. /\ \A y \in Sessions : y # x => sess'[y] = sess[y]
      /\ threads[t].fresh => /\ sess'[x].st = "wait_destroy" /\ sess'[x].locked = sess[x].locked
                             /\ \A y \in Sessions : Here(y) => Here(y)'
      /\ ~threads[t].fresh => sess' = sess
  BY <1>1, <1>2, WriteStatus DEF Write
<1>5. CASE x # i
  BY <1>1, <1>2, <1>3, <1>4, <1>5, Elsewhere
<1>6. CASE x = i
  <2>1. i \in born /\ ~Starts(f, i)
    BY <1>1, <1>3, <1>6 DEF SessionOk, UnbornOk, Starts, Creates
  <2>2. t = Main => Settled(i)
    BY <1>1, <1>6, Settles DEF Clear, Held
  <2>3. Here(i) => /\ Here(i)' /\ sess'[i].locked = sess[i].locked
                   /\ sess'[i].st \in {sess[i].st, "wait_destroy"}
    BY <1>4, <1>6 DEF Here
  <2>4. QED
    BY <1>1, <1>2, <1>3, <2>1, <2>2, <2>3, TurnsTo, Known
<1>7. QED
  BY <1>5, <1>6

\* The walk knows of no session that is being created.
LEMMA SwitchOk ==
  ASSUME TypeInv, OrphanInv, NEW i \in Sessions, NEW t \in Threads, Switch(t)
  PROVE  SessionOk(i)'
<1> USE DEF role, table, machine, queues, counts
<1> DEFINE x == threads[t].id
<1>1. /\ SessionOk(i) /\ TypeOK /\ x \in Sessions /\ threads[t].pc = "watch"
      /\ t = Main /\ threads[t].st \in St
  BY DEF OrphanInv, WorkInv, TypeInv, TypeOK, Frame, Switch, Named, ThreadsDo
<1>2. /\ Write(threads[t], threads[t].st) /\ Goto(t, IdleFrame)
      /\ UNCHANGED <<born, user, deferred, spooler, spooler2, sync, workers>>
  BY DEF Switch
<1>3. /\ \A y \in Sessions : y # x => sess'[y] = sess[y]
      /\ \A y \in Sessions : Here(y) => Here(y)'
  BY <1>1, <1>2, WriteHeld
<1>4. IdleFrame.id # i /\ IdleFrame.pc = "idle"
  BY Known, ApSRoleAssumption
<1>5. CASE x # i
  BY <1>1, <1>2, <1>3, <1>4, <1>5, Elsewhere
<1>6. CASE x = i
  <2>1. \A u \in Threads : threads'[u] = IF u = t THEN IdleFrame ELSE threads[u]
    BY <1>1, <1>2, GoneTo
  <2>2. Settled(i)
    BY <1>1, <1>6, Settles DEF Clear, Held
  <2>3. Settled(i)'
    BY <1>2, <1>4, <2>1, <2>2 DEF Settled, Starts
  <2>4. EndedOk(i)'
    BY <1>1, <1>2, <1>3, <1>4, <2>1, Known DEF SessionOk, EndedOk
  <2>5. QED
    BY <2>3, <2>4, SettledOk
<1>7. QED
  BY <1>5, <1>6

LEMMA DeferOk ==
  ASSUME OneAtATime, TypeInv, OrphanInv, NEW i \in Sessions, NEW t \in Threads, Defer(t)
  PROVE  SessionOk(i)'
<1> USE DEF role, table, machine, queues, counts
<1> DEFINE d == [act |-> threads[t].act, id |-> threads[t].id]
<1>1. /\ SessionOk(i) /\ TypeOK /\ NoStop /\ threads[t].pc = "defer"
      /\ threads[t].act # "create" /\ threads[t].id \in Sessions /\ threads[t].act \in Act
  BY DEF OrphanInv, WorkInv, TypeInv, TypeOK, Frame, Defer, Named, ThreadsDo
<1>2. /\ deferred' = Append(deferred, d) /\ Goto(t, IdleFrame)
      /\ UNCHANGED <<sess, born, user, spooler, spooler2, sync, workers>>
  BY DEF Defer
<1>3. Range(deferred') = Range(deferred) \cup {d} /\ d.id = threads[t].id
  BY <1>1, <1>2, PutOff
<1>4. \A u \in Threads : threads'[u] = IF u = t THEN IdleFrame ELSE threads[u]
  BY <1>1, <1>2, GoneTo
<1>5. IdleFrame.id # i /\ IdleFrame.pc = "idle"
  BY Known, ApSRoleAssumption
<1> HIDE DEF d
<1>6. CASE threads[t].id # i
  <2>1. Less(deferred, deferred', i)
    BY <1>3, <1>6 DEF Less
  <2>2. \A u \in Threads : threads'[u].id = i => threads'[u] = threads[u]
    BY <1>4, <1>5
  <2>3. QED
    BY <1>1, <1>2, <2>1, <2>2, Apart DEF Less
<1>7. CASE threads[t].id = i
  <2>1. i \in born /\ t # Stop /\ ~Starts(threads[t], i)
    BY <1>1, <1>7 DEF SessionOk, UnbornOk, Starts, Creates, NoStop
  <2>2. \A u \in Threads : ~Starts(threads[u], i)
    BY <1>1, <1>7, <2>1, Starter, Known DEF OneAtATime, SessionOk, StartingOk, Clear
  <2>3. \A u \in Threads : ~Starts(threads'[u], i)
    BY <1>4, <1>5, <2>2 DEF Starts
  <2>4. Held(i) => Held(i)'
    BY <1>2, <1>4, <1>5, Known DEF Held, Here
  <2>5. UnbornOk(i)' /\ StartingOk(i)'
    BY <1>2, <2>1, <2>3 DEF UnbornOk, StartingOk
  <2>6. QueuedOk(i)' /\ WorkedOk(i)'
    BY <1>1, <1>2, <2>4 DEF SessionOk, QueuedOk, WorkedOk
  <2>7. EndedOk(i)'
    BY <1>1, <1>2, <1>4, <1>5, Known DEF SessionOk, EndedOk, Here
  <2>8. QED
    BY <2>5, <2>6, <2>7 DEF SessionOk
<1>8. QED
  BY <1>6, <1>7
-----------------------------------------------------------------------------
(* What the loop of the role does to session i.                            *)

LEMMA SyncTakeOk ==
  ASSUME TypeInv, OrphanInv, NEW i \in Sessions, SyncTake
  PROVE  SessionOk(i)'
<1> USE DEF role, table, machine, queues, counts
<1> DEFINE c == Head(sync)
<1>1. SessionOk(i) /\ TypeOK
  BY DEF OrphanInv, TypeInv
<1>2. /\ c \in Copy /\ Range(sync) = Range(sync') \cup {c}
      /\ UNCHANGED <<sess, born, user, deferred, spooler, spooler2, workers>>
  BY <1>1, Queues, TailRange DEF SyncTake
<1>3. UNCHANGED threads \/ Goto(Main, At("apply", "create", c.id, c.st))
  BY DEF SyncTake
<1> HIDE DEF c
<1>4. CASE c.id # i \/ UNCHANGED threads
  <2>1. \A u \in Threads : threads'[u].id = i => threads'[u] = threads[u]
    BY <1>1, <1>3, <1>4, GoneTo, Known
  <2>2. QED
    BY <1>1, <1>2, <2>1, Apart DEF Less
<1>5. CASE c.id = i /\ Goto(Main, At("apply", "create", c.id, c.st))
  <2>1. Queued(sync, i)
    BY <1>2, <1>5 DEF Queued
  <2>2. Settled(i)
    BY <1>1, <2>1, Settles DEF Clear, Held
  <2>3. \A u \in Threads : threads'[u] = IF u = Main THEN At("apply", "create", c.id, c.st)
                                                     ELSE threads[u]
    BY <1>1, <1>5, GoneTo, Known
  <2>4. Settled(i)'
    BY <1>2, <2>2, <2>3, Known DEF Settled, Starts
  <2>5. EndedOk(i)'
    BY <1>1, <1>2, <2>3, Known DEF SessionOk, EndedOk, Here
  <2>6. QED
    BY <2>4, <2>5, SettledOk
<1>6. QED
  BY <1>3, <1>4, <1>5

\* A session leaves the table when its account is gone.
LEMMA SyncApplyOk ==
  ASSUME TypeInv, OrphanInv, NEW i \in Sessions, SyncApply
  PROVE  SessionOk(i)'
<1> USE DEF role, table, machine, queues, counts
<1> DEFINE x == threads[Main].id
           st == threads[Main].st
<1>1. SessionOk(i) /\ TypeOK /\ x \in Sessions /\ st \in St /\ threads[Main].pc = "apply"
  BY Known DEF OrphanInv, TypeInv, TypeOK, Frame, SyncApply, Named
<1>2. /\ sess' = [sess EXCEPT ![x] = IF st = "destroyed" THEN Absent ELSE Returned(st)]
      /\ UNCHANGED <<born, user, deferred, spooler, spooler2, sync, workers>>
  BY DEF SyncApply
<1>3. /\ threads'[Main] = IdleFrame
      /\ \A u \in Threads : u # Main =>
           /\ threads'[u].pc = threads[u].pc /\ threads'[u].act = threads[u].act
           /\ threads'[u].id = threads[u].id
           /\ threads[u].id # x => threads'[u] = threads[u]
  BY <1>1, Known DEF SyncApply, TypeOK, Frame
<1>4. IdleFrame.id # i /\ IdleFrame.pc = "idle"
  BY Known, ApSRoleAssumption
<1>5. CASE x # i
  <2>1. sess'[i] = sess[i]
    BY <1>1, <1>2, <1>5 DEF TypeOK
  <2>2. \A u \in Threads : threads'[u].id = i => threads'[u] = threads[u]
    BY <1>3, <1>4, <1>5
  <2>3. QED
    BY <1>1, <1>2, <2>1, <2>2, Apart DEF Less
<1>6. CASE x = i
  <2>1. Settled(i)
    BY <1>1, <1>6, Settles DEF Clear, Held
  <2>2. Settled(i)'
    BY <1>2, <1>3, <1>4, <2>1 DEF Settled, Starts, Creates
  <2>3. user[i] => Here(i)'
    <3>1. user[i] => st # "destroyed"
      BY <1>1, <1>6 DEF SessionOk, EndedOk
    <3>2. st # "destroyed" => sess'[i] = Returned(st)
      BY <1>1, <1>2, <1>6 DEF TypeOK
    <3>3. Returned(st) \in Object
      BY <1>1 DEF Returned, Object
    <3>4. QED
      BY <3>1, <3>2, <3>3, ApSRoleAssumption DEF Here
  <2>4. EndedOk(i)'
    BY <1>1, <1>2, <1>3, <1>4, <2>3 DEF SessionOk, EndedOk
  <2>5. QED
    BY <2>2, <2>4, SettledOk
<1>7. QED
  BY <1>5, <1>6

LEMMA UnlockedOk ==
  ASSUME TypeInv, OrphanInv, NEW i \in Sessions, UpdateLockedSessions
  PROVE  SessionOk(i)'
<1> USE DEF role, table, machine, queues, counts
<1>1. SessionOk(i) /\ TypeOK
  BY DEF OrphanInv, TypeInv
<1>2. PICK d \in Range(deferred) :
        /\ d.id \in Sessions /\ Range(deferred') \subseteq Range(deferred)
        /\ UNCHANGED <<born, user, threads, spooler, sync, workers>>
        /\ \/ UNCHANGED <<sess, spooler2>>
           \/ /\ Here(d.id) /\ ~sess[d.id].locked
              /\ sess' = [sess EXCEPT ![d.id].locked = TRUE]
              /\ \E j \in Job : /\ j.act = d.act /\ j.id = d.id /\ j.st = sess[d.id].st
                                /\ Range(spooler2') = Range(spooler2) \cup {j}
  BY <1>1, Unlocked
<1>3. CASE d.id # i \/ UNCHANGED <<sess, spooler2>>
  <2>1. sess'[i] = sess[i]
    BY <1>1, <1>2, <1>3 DEF TypeOK
  <2>2. Less(spooler2, spooler2', i) /\ Less(deferred, deferred', i)
    BY <1>2, <1>3 DEF Less
  <2>3. QED
    BY <1>1, <1>2, <2>1, <2>2, Apart DEF Less
<1>4. CASE d.id = i /\ Here(d.id) /\ ~sess[d.id].locked
           /\ sess' = [sess EXCEPT ![d.id].locked = TRUE]
  <2>1. Queued(deferred, i)
    BY <1>2, <1>4 DEF Queued
  <2>2. Settled(i)
    BY <1>1, <1>4, <2>1, Settles DEF Clear, Held
  <2>3. Settled(i)'
    BY <1>2, <2>2 DEF Settled
  <2>4. Here(i)'
    BY <1>1, <1>4, WriteLock
  <2>5. EndedOk(i)'
    BY <1>1, <1>2, <2>4 DEF SessionOk, EndedOk
  <2>6. QED
    BY <2>3, <2>5, SettledOk
<1>5. QED
  BY <1>2, <1>3, <1>4

LEMMA WatchOk ==
  ASSUME OneAtATime, TypeInv, OrphanInv, NEW i \in Sessions, NEW x \in Sessions,
         WatchGone(x) \/ WatchChange(x)
  PROVE  SessionOk(i)'
<1> USE DEF role, table, machine, queues, counts
<1>1. SessionOk(i) /\ TypeOK /\ NoStop
  BY DEF OrphanInv, WorkInv, TypeInv
<1>2. /\ Here(x) /\ sess[x].st \in {"ready", "logged", "disconnected"}
      /\ UNCHANGED <<sess, born, user, deferred, spooler, spooler2, sync, workers>>
  BY DEF WatchGone, WatchChange, Watched, Follows
<1>3. PICK f : Goto(Main, f) /\ f.id = x /\ f.pc \in {"mark", "watch"}
  BY Known DEF WatchGone, WatchChange
<1>4. CASE x # i
  BY <1>1, <1>2, <1>3, <1>4, Elsewhere, Known
<1>5. CASE x = i
  <2>1. ~Held(i) /\ i \in born /\ \A u \in Threads : ~Starts(threads[u], i)
    BY <1>1, <1>2, <1>5 DEF SessionOk, UnbornOk, StartingOk, Held
  <2>2. Settled(i)
    BY <1>1, <2>1 DEF SessionOk, QueuedOk, WorkedOk, Settled
  <2>3. ~Starts(f, i)
    BY <1>3 DEF Starts
  <2>4. QED
    BY <1>1, <1>2, <1>3, <2>1, <2>2, <2>3, TurnsTo, Known DEF Here
<1>6. QED
  BY <1>4, <1>5

LEMMA LeaveOk ==
  ASSUME TypeInv, OrphanInv, NEW i \in Sessions, LeaveLoop
  PROVE  SessionOk(i)'
<1> USE DEF role, table, machine, queues, counts
<1>1. SessionOk(i) /\ TypeOK
  BY DEF OrphanInv, TypeInv
<1>2. /\ spooler' = WithExits(spooler)
      /\ UNCHANGED <<sess, born, user, threads, deferred, spooler2, sync, workers>>
  BY DEF LeaveLoop
<1>3. Once(spooler, i) => Once(spooler', i)
  BY <1>1, <1>2, Queues, OnceExits
<1>4. \A j \in Range(spooler') : j \in Range(spooler) \/ j = Exit
  BY <1>1, <1>2, Queues, ExitsOnly
<1>5. Less(spooler, spooler', i)
  BY <1>4, ApSRoleAssumption DEF Less, Exit
<1>6. QED
  BY <1>1, <1>2, <1>3, <1>5, Apart DEF Less
-----------------------------------------------------------------------------
(* What the workers do to session i.                                       *)

LEMMA TakesOk ==
  ASSUME TypeInv, OrphanInv, NEW i \in Sessions, NEW w \in Workers, WorkerTakes(w)
  PROVE  SessionOk(i)'
<1> USE DEF role, table, machine, queues, counts
<1>1. SessionOk(i) /\ TypeOK /\ NotCreate /\ workers[w].mode = "idle"
      /\ UNCHANGED <<sess, born, user, threads, deferred, sync>>
  BY DEF OrphanInv, WorkInv, TypeInv, WorkerTakes
<1>2. PICK j \in Job \cup {Exit} :
        /\ workers' = [workers EXCEPT ![w] = Received(j)]
        /\ Range(spooler') \subseteq Range(spooler) /\ Range(spooler2') \subseteq Range(spooler2)
        /\ \/ j \in Range(spooler2) /\ UNCHANGED spooler
           \/ /\ j \in Range(spooler)
              /\ \A x \in Sessions :
                   Once(spooler, x) => /\ Once(spooler', x)
                                       /\ j.id = x => ~Queued(spooler', x)
  BY <1>1, Taken
<1>3. \A v \in Workers : workers'[v] = IF v = w THEN Received(j) ELSE workers[v]
  BY <1>1, <1>2 DEF TypeOK
<1>4. /\ Has(Received(j), i) => j.id = i /\ Received(j).job = j
      /\ ~Has(workers[w], i)
  BY <1>1, ApSRoleAssumption DEF Received, Has, Exit
<1>5. Once(spooler, i) => Once(spooler', i)
  BY <1>2
<1>6. CASE j.id # i
  <2>1. \A v \in Workers : Has(workers'[v], i) => Has(workers[v], i) /\ workers'[v] = workers[v]
    BY <1>3, <1>4, <1>6
  <2>2. QED
    BY <1>1, <1>2, <1>5, <2>1, Apart DEF Less
<1>7. CASE j.id = i /\ j \in Range(spooler2)
  <2>1. Settled(i)
    BY <1>1, <1>7, Settles DEF Clear, Held, Queued
  <2>2. j.act # "create"
    BY <1>1, <1>7 DEF NotCreate
  <2>3. Settled(i)'
    BY <1>1, <1>2, <1>3, <1>4, <2>1, <2>2 DEF Settled
  <2>4. EndedOk(i)'
    BY <1>1 DEF SessionOk, EndedOk, Here
  <2>5. QED
    BY <2>3, <2>4, SettledOk
<1>8. CASE /\ j.id = i /\ j \in Range(spooler)
           /\ (Once(spooler, i) => ~Queued(spooler', i))
  <2>1. ~Clear(i) /\ i \in born /\ \A u \in Threads : ~Starts(threads[u], i)
    BY <1>1, <1>8 DEF SessionOk, UnbornOk, StartingOk, Clear, Queued
  <2>2. EndedOk(i)' /\ UnbornOk(i)' /\ StartingOk(i)'
    BY <1>1, <2>1 DEF SessionOk, EndedOk, UnbornOk, StartingOk, Here
  <2>3. Held(i) => Held(i)'
    BY <1>1, <1>2 DEF Held, Here, Queued
  <2>4. CASE \E k \in Range(spooler) : Creates(k, i)
    <3>1. Held(i) /\ Once(spooler, i) /\ \A v \in Workers : ~Has(workers[v], i)
      BY <1>1, <2>4 DEF SessionOk, QueuedOk
    <3>2. ~Queued(spooler', i) /\ \A v \in Workers : Has(workers'[v], i) => v = w
      BY <1>3, <1>8, <3>1
    <3>3. QueuedOk(i)' /\ WorkedOk(i)'
      BY <2>3, <3>1, <3>2 DEF QueuedOk, WorkedOk, Queued, Creates
    <3>4. QED
      BY <2>2, <3>3 DEF SessionOk
  <2>5. CASE \A k \in Range(spooler) : ~Creates(k, i)
    <3>1. \A v \in Workers : Has(workers[v], i) => workers[v].job.act # "create"
      BY <1>1, <1>8 DEF SessionOk, WorkedOk, Queued
    <3>2. \A v \in Workers : Has(workers'[v], i) => workers'[v].job.act # "create"
      BY <1>3, <1>4, <1>8, <2>5, <3>1 DEF Creates
    <3>3. Settled(i)'
      BY <1>1, <1>2, <2>1, <2>5, <3>2 DEF Settled
    <3>4. QED
      BY <2>2, <3>3, SettledOk
  <2>6. QED
    BY <2>4, <2>5
<1>9. QED
  BY <1>2, <1>6, <1>7, <1>8

\* A worker is done with a session: after a creation nobody else is at work on
\* it, and a session said to be destroyed has no account.
LEMMA DoneOk ==
  ASSUME TypeInv, OrphanInv, NEW i \in Sessions, NEW w \in Workers, workers[w].mode = "busy",
         NEW st \in St, Done(w, st),
         \A x \in Sessions : x # workers[w].job.id => user'[x] = user[x],
         LET x == workers[w].job.id
         IN  /\ st = "destroyed" => ~user'[x]
             /\ user'[x] => user[x] \/ workers[w].job.act = "create"
  PROVE  SessionOk(i)'
<1> DEFINE x == workers[w].job.id
           c == [id |-> x, st |-> st]
<1>1. SessionOk(i) /\ TypeOK /\ x \in Sessions /\ c \in Copy /\ c.id = x /\ c.st = st
  BY DEF OrphanInv, TypeInv, TypeOK, Worker, Job, Copy
<1>2. sync' = Append(sync, c) /\ workers' = [workers EXCEPT ![w] = IdleWorker]
      /\ UNCHANGED <<sess, born, threads, deferred, spooler, spooler2>>
  BY DEF Done, role, table
<1> HIDE DEF c
<1>3. Range(sync') = Range(sync) \cup {c}
  BY <1>1, <1>2, Queues, AppendRange
<1>4. /\ \A v \in Workers : v # w => workers'[v] = workers[v]
      /\ ~Has(workers'[w], i)
  BY <1>1, <1>2 DEF TypeOK, Has, IdleWorker
<1>5. CASE x # i
  <2>1. Less(sync, sync', i)
    BY <1>1, <1>3, <1>5 DEF Less
  <2>2. \A v \in Workers : Has(workers'[v], i) => Has(workers[v], i) /\ workers'[v] = workers[v]
    BY <1>4
  <2>3. user'[i] = user[i]
    BY <1>5
  <2>4. QED
    BY <1>1, <1>2, <2>1, <2>2, <2>3, Apart DEF Less
<1>6. CASE x = i
  <2>1. Has(workers[w], i)
    BY <1>6 DEF Has
  <2>2. i \in born /\ \A u \in Threads : ~Starts(threads[u], i)
    BY <1>1, <2>1 DEF SessionOk, UnbornOk, StartingOk, Clear
  <2>3. \A j \in Range(spooler) : ~Creates(j, i)
    BY <1>1, <2>1 DEF SessionOk, QueuedOk
  <2>4. \A v \in Workers : v # w /\ Has(workers[v], i) => workers[v].job.act # "create"
    BY <1>1, <2>1 DEF SessionOk, WorkedOk
  <2>5. Settled(i)'
    BY <1>2, <1>4, <2>2, <2>3, <2>4 DEF Settled
  <2>6. CASE workers[w].job.act = "create"
    <3>1. Held(i)
      BY <1>1, <2>1, <2>6 DEF SessionOk, WorkedOk
    <3>2. EndedOk(i)'
      BY <1>1, <1>2, <1>3, <1>6, <3>1 DEF EndedOk, Held, Here, Queued
    <3>3. QED
      BY <2>5, <3>2, SettledOk
  <2>7. CASE workers[w].job.act # "create"
    <3>1. user'[i] => user[i]
      BY <1>6, <2>7
    <3>2. EndedOk(i)'
      BY <1>1, <1>2, <1>3, <1>6, <3>1 DEF SessionOk, EndedOk, Here
    <3>3. QED
      BY <2>5, <3>2, SettledOk
  <2>8. QED
    BY <2>6, <2>7
<1>7. QED
  BY <1>5, <1>6

LEMMA WorkOk ==
  ASSUME TypeInv, OrphanInv, NEW i \in Sessions, NEW w \in Workers, Work(w)
  PROVE  SessionOk(i)'
<1> DEFINE x == workers[w].job.id
<1>a. /\ TypeOK /\ NotDestroyed /\ {"ready", "destroyed", "error", "disconnected"} \subseteq St
      /\ user \in [Sessions -> BOOLEAN]
      /\ workers[w].mode = "busy" => x \in Sessions /\ workers[w].job.st \in St
  BY DEF TypeInv, TypeOK, OrphanInv, WorkInv, St, Worker, Job
<1>b. workers[w].mode = "busy" => workers[w].job.st # "destroyed"
  BY <1>a DEF NotDestroyed
<1>1. CASE CreateSession(w)
  <2>1. workers[w].mode = "busy" /\ workers[w].job.act = "create"
    BY <1>1 DEF CreateSession, Doing
  <2>2. CASE Account(x) /\ (Done(w, "ready") \/ Done(w, "error"))
    BY <1>a, <2>1, <2>2, DoneOk DEF Account
  <2>3. CASE Removed(x) /\ Done(w, "destroyed")
    BY <1>a, <2>1, <2>3, DoneOk DEF Removed
  <2>4. QED
    BY <1>1, <2>2, <2>3 DEF CreateSession
<1>2. CASE DestroySession(w)
  <2>1. workers[w].mode = "busy"
    BY <1>2 DEF DestroySession, Doing
  <2>2. CASE Removed(x) /\ Done(w, "destroyed")
    BY <1>a, <2>1, <2>2, DoneOk DEF Removed
  <2>3. CASE UNCHANGED machine /\ Done(w, workers[w].job.st)
    BY <1>a, <1>b, <2>1, <2>3, DoneOk DEF machine
  <2>4. QED
    BY <1>2, <2>2, <2>3 DEF DestroySession
<1>3. CASE DisconnectSession(w)
  <2>1. workers[w].mode = "busy" /\ UNCHANGED user
    BY <1>3 DEF DisconnectSession, Doing
  <2>2. Done(w, "disconnected") \/ Done(w, workers[w].job.st)
    BY <1>3 DEF DisconnectSession
  <2>3. QED
    BY <1>a, <1>b, <2>1, <2>2, DoneOk
<1>4. QED
  BY <1>1, <1>2, <1>3, TakesOk DEF Work

LEMMA DiesOk ==
  ASSUME TypeInv, OrphanInv, NEW i \in Sessions, NEW w \in Workers, WorkerDies(w)
  PROVE  SessionOk(i)'
<1> USE DEF role, table, machine, queues, counts
<1>1. /\ SessionOk(i) /\ TypeOK
      /\ UNCHANGED <<sess, born, user, threads, deferred, spooler, spooler2, sync>>
  BY DEF OrphanInv, TypeInv, WorkerDies
<1>2. \A v \in Workers : Has(workers'[v], i) =>
        Has(workers[v], i) /\ workers'[v].job = workers[v].job
  BY <1>1 DEF WorkerDies, TypeOK, Worker, Has
<1>3. QED
  BY <1>1, <1>2, Apart DEF Less
-----------------------------------------------------------------------------
LEMMA SessionNext ==
  ASSUME OneAtATime, TypeInv, OrphanInv, [Next]_vars, NEW i \in Sessions
  PROVE  SessionOk(i)'
<1> USE DEF role, table, machine, queues, counts
<1>a. SessionOk(i) /\ TypeOK /\ NoStop /\ ~Stopping
  BY DEF OrphanInv, WorkInv, TypeInv, OneAtATime
<1>b. ASSUME UNCHANGED <<sess, born, user, threads, deferred, spooler, spooler2, sync, workers>>
      PROVE  SessionOk(i)'
  BY <1>a, <1>b, Apart DEF Less
<1>1. ASSUME NEW t \in Threads, Thread(t) PROVE SessionOk(i)'
  BY <1>1, InsertOk, MarkOk, SpoolOk, TakeOk, DeferOk, SwitchOk DEF Thread
<1>2. CASE RunLoop
  <2>1. CASE Joined
    BY <1>b, <2>1 DEF Joined
  <2>2. QED
    BY <1>2, <2>1, SyncTakeOk, SyncApplyOk, UnlockedOk, WatchOk, LeaveOk DEF RunLoop
<1>3. CASE StopServer
  BY <1>3, <1>a DEF StopServer, OrderStop, StopSession, StopTimeout, Finalize, NoStop
<1>4. ASSUME NEW x \in Sessions, User(x) PROVE SessionOk(i)'
  BY <1>4, <1>b DEF User, LogsIn, Disconnects, LogsOff, UserActs
<1>5. CASE UNCHANGED vars
  BY <1>5, <1>b DEF vars
<1>6. QED
  BY <1>1, <1>2, <1>3, <1>4, <1>5, RequestOk, WorkOk, DiesOk DEF Next

LEMMA OrphanInit == OneAtATime /\ Init => OrphanInv
<1> SUFFICES ASSUME Init PROVE OrphanInv
  OBVIOUS
<1>1. /\ \A t \in Threads : threads[t] = IdleFrame
      /\ \A i \in Sessions : sess[i] = Absent /\ ~user[i] /\ IdleFrame.id # i
      /\ born = {} /\ \A w \in Workers : workers[w].mode = "idle"
      /\ Main \in Threads /\ Stop \in Threads
  BY Known, ApSRoleAssumption DEF Init, IdleWorker
<1>2. Range(spooler) = {} /\ Range(spooler2) = {} /\ Range(sync) = {} /\ Range(deferred) = {}
  BY DEF Init, Range
<1>3. WorkInv
  BY <1>1, <1>2, Known
     DEF Init, WorkInv, NoStop, ThreadsDo, NotCreate, NotDestroyed, Here
<1>4. ASSUME NEW i \in Sessions PROVE SessionOk(i)
  <2>1. Clear(i) /\ ~Here(i)
    BY <1>1, <1>2 DEF Clear, Queued, Has, Here
  <2>2. QED
    BY <1>1, <1>2, <2>1, Known
       DEF SessionOk, UnbornOk, StartingOk, QueuedOk, WorkedOk, EndedOk, Starts, Creates, Has, Clear
<1>5. QED
  BY <1>3, <1>4 DEF OrphanInv

\* With one HTTP thread and no order to stop, an OS account does not outlive
\* its session, for any sessions and workers, whichever dialogs with the RDP
\* server fail and workers die.
THEOREM OrphanSafe == OneAtATime => (Spec => []NoOrphanUser)
<1> SUFFICES ASSUME OneAtATime PROVE Spec => []NoOrphanUser
  OBVIOUS
<1>1. Init => TypeInv /\ OrphanInv
  BY TypeInit, OrphanInit
<1>2. TypeInv /\ OrphanInv /\ [Next]_vars => (TypeInv /\ OrphanInv)'
  BY TypeNext, WorkNext, SessionNext DEF OrphanInv
<1>3. OrphanInv => NoOrphanUser
  BY DEF OrphanInv, SessionOk, EndedOk, NoOrphanUser
<1>4. QED
  BY <1>1, <1>2, <1>3, PTL DEF Spec
=============================================================================
