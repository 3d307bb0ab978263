---------------------------- MODULE ThreadPool ----------------------------
(***************************************************************************)
(* The pool of threads of common/thread_pool.c, as sesman and printerd use *)
(* it: one thread accepts connections and pushes each of them, the workers *)
(* wait, pop one and process it.  There is no condition variable: the      *)
(* mutex thread_wait is held while the queue is empty.  It is locked by    *)
(* one thread and unlocked by another, which the mutexes of the system     *)
(* allow, and unlocked when nobody holds it, which they ignore: a mutex is *)
(* here only held or not.                                                  *)
(***************************************************************************)
EXTENDS Naturals, Sequences, FiniteSets

CONSTANTS Jobs,    \* bound: the sockets that will be accepted
          Workers  \* the threads of the pool

VARIABLES coming,     \* the connections nobody accepted yet
          queue,      \* THREAD_POOL.job_queue
          jobWait,    \* the mutex job_wait is held
          threadWait, \* the mutex thread_wait is held
          admin,      \* the thread that accepts
          pc, job,    \* each worker, and the job it popped (0: none)
          served      \* the jobs that were processed

vars == <<coming, queue, jobWait, threadWait, admin, pc, job, served>>

ASSUME ThreadPoolAssumption == Jobs \subseteq Nat /\ IsFiniteSet(Workers)

TypeOK ==
  /\ coming \subseteq Jobs
  /\ queue \in Seq(Jobs \ {0})
  /\ jobWait \in BOOLEAN /\ threadWait \in BOOLEAN
  /\ admin \in [pc: {"accept", "push", "add", "release", "signal"}, job: Jobs \cup {0}]
  /\ pc \in [Workers -> {"wait", "woken", "pop", "look", "sleep", "release", "process"}]
  /\ job \in [Workers -> Jobs \cup {0}]
  /\ served \subseteq Jobs

\* thread_pool_start_pool_thread locks thread_wait, then creates the threads.
Init ==
  /\ coming = Jobs /\ served = {}
  /\ queue = <<>>
  /\ jobWait = FALSE /\ threadWait = TRUE
  /\ admin = [pc |-> "accept", job |-> 0]
  /\ pc = [w \in Workers |-> "wait"] /\ job = [w \in Workers |-> 0]

Goes(w, to) == pc' = [pc EXCEPT ![w] = to]
-----------------------------------------------------------------------------
(* The thread that accepts: thread_pool_push_job.                          *)

\* Mutant: the socket 0 is a job like any other.
AcceptZero(j) ==
  /\ admin.pc = "accept" /\ j \in coming
  /\ coming' = coming \ {j}
  /\ admin' = [pc |-> "push", job |-> j]
  /\ UNCHANGED <<queue, jobWait, threadWait, pc, job, served>>

\* The socket 0 is refused, and the caller does not look at the answer.
Accept(j) ==
  /\ admin.pc = "accept" /\ j \in coming
  /\ coming' = coming \ {j}
  /\ admin' = IF j = 0 THEN admin ELSE [pc |-> "push", job |-> j]
  /\ UNCHANGED <<queue, jobWait, threadWait, pc, job, served>>

PushLock ==
  /\ admin.pc = "push" /\ ~jobWait
  /\ jobWait' = TRUE
  /\ admin' = [admin EXCEPT !.pc = "add"]
  /\ UNCHANGED <<coming, queue, threadWait, pc, job, served>>

PushAdd ==
  /\ admin.pc = "add"
  /\ queue' = Append(queue, admin.job)
  /\ admin' = [admin EXCEPT !.pc = "release"]
  /\ UNCHANGED <<coming, jobWait, threadWait, pc, job, served>>

PushRelease ==
  /\ admin.pc = "release"
  /\ jobWait' = FALSE
  /\ admin' = [admin EXCEPT !.pc = "signal"]
  /\ UNCHANGED <<coming, queue, threadWait, pc, job, served>>

Signal ==
  /\ admin.pc = "signal"
  /\ threadWait' = FALSE
  /\ admin' = [pc |-> "accept", job |-> 0]
  /\ UNCHANGED <<coming, queue, jobWait, pc, job, served>>
-----------------------------------------------------------------------------
(* A worker: thread_pool_wait_job, thread_pool_pop_job, process_request.   *)

WaitLock(w) ==
  /\ pc[w] = "wait" /\ ~threadWait
  /\ threadWait' = TRUE
  /\ Goes(w, "woken")
  /\ UNCHANGED <<coming, queue, jobWait, admin, job, served>>

\* Mutant: the worker that is woken keeps the others asleep.
WaitKeep(w) ==
  /\ pc[w] = "woken"
  /\ Goes(w, "pop")
  /\ UNCHANGED <<coming, queue, jobWait, threadWait, admin, job, served>>

WaitUnlock(w) ==
  /\ pc[w] = "woken"
  /\ threadWait' = FALSE
  /\ Goes(w, "pop")
  /\ UNCHANGED <<coming, queue, jobWait, admin, job, served>>

\* Mutant: the queue is looked at without its mutex.
PopUnlocked(w) ==
  /\ pc[w] = "pop"
  /\ jobWait' = TRUE
  /\ Goes(w, "look")
  /\ UNCHANGED <<coming, queue, threadWait, admin, job, served>>

PopLock(w) ==
  /\ pc[w] = "pop" /\ ~jobWait
  /\ jobWait' = TRUE
  /\ Goes(w, "look")
  /\ UNCHANGED <<coming, queue, threadWait, admin, job, served>>

PopEmpty(w) ==
  /\ pc[w] = "look" /\ queue = <<>>
  /\ jobWait' = FALSE
  /\ Goes(w, "wait")
  /\ UNCHANGED <<coming, queue, threadWait, admin, job, served>>

\* Mutant: the worker always puts the others to sleep.
PopTakeSleep(w) ==
  /\ pc[w] = "look" /\ queue # <<>>
  /\ job' = [job EXCEPT ![w] = Head(queue)]
  /\ queue' = Tail(queue)
  /\ Goes(w, "sleep")
  /\ UNCHANGED <<coming, jobWait, threadWait, admin, served>>

\* Mutant: the job is left in the queue.
PopTakeNotRemoved(w) ==
  /\ pc[w] = "look" /\ queue # <<>>
  /\ job' = [job EXCEPT ![w] = Head(queue)]
  /\ queue' = queue
  /\ Goes(w, "release")
  /\ UNCHANGED <<coming, jobWait, threadWait, admin, served>>

PopTake(w) ==
  /\ pc[w] = "look" /\ queue # <<>>
  /\ job' = [job EXCEPT ![w] = Head(queue)]
  /\ queue' = Tail(queue)
  /\ Goes(w, IF Len(queue) = 1 THEN "sleep" ELSE "release")
  /\ UNCHANGED <<coming, jobWait, threadWait, admin, served>>

\* The one that empties the queue locks thread_wait, with job_wait held.
PopSleep(w) ==
  /\ pc[w] = "sleep" /\ ~threadWait
  /\ threadWait' = TRUE
  /\ Goes(w, "release")
  /\ UNCHANGED <<coming, queue, jobWait, admin, job, served>>

PopRelease(w) ==
  /\ pc[w] = "release"
  /\ jobWait' = FALSE
  /\ Goes(w, "process")
  /\ UNCHANGED <<coming, queue, threadWait, admin, job, served>>

ProcessRequest(w) ==
  /\ pc[w] = "process"
  /\ served' = served \cup {job[w]}
  /\ job' = [job EXCEPT ![w] = 0]
  /\ Goes(w, "wait")
  /\ UNCHANGED <<coming, queue, jobWait, threadWait, admin>>
-----------------------------------------------------------------------------
Pushes == PushLock \/ PushAdd \/ PushRelease \/ Signal

Locks(w) == WaitLock(w) \/ PopLock(w) \/ PopSleep(w)
Runs(w) == WaitUnlock(w) \/ PopEmpty(w) \/ PopTake(w) \/ PopRelease(w) \/ ProcessRequest(w)

Next == (\E j \in Jobs : Accept(j)) \/ Pushes \/ (\E w \in Workers : Locks(w) \/ Runs(w))

Spec == Init /\ [][Next]_vars

\* Threads run; a mutex released again and again is not refused for ever to
\* one of those that lock it.
Fairness ==
  /\ SF_vars(PushLock) /\ WF_vars(PushAdd \/ PushRelease \/ Signal)
  /\ \A w \in Workers : SF_vars(WaitLock(w)) /\ SF_vars(PopLock(w)) /\ SF_vars(PopSleep(w))
                        /\ WF_vars(Runs(w))

FairSpec == Spec /\ Fairness
-----------------------------------------------------------------------------
Popping(w) == pc[w] \in {"look", "sleep", "release"}
Pushing == admin.pc \in {"add", "release"}

\* One thread at a time is between the lock of job_wait and its unlock: the
\* list of jobs, which is not made for several threads, is safe.
Exclusive ==
  /\ \A v, w \in Workers : Popping(v) /\ Popping(w) => v = w
  /\ \A w \in Workers : Popping(w) => ~Pushing

\* Jobs in the queue never wait with every worker locked out: thread_wait is
\* free, or the one that pushed is about to free it, or a worker that passes is.
NoLostWakeup ==
  queue # <<>> => \/ ~threadWait
                  \/ admin.pc \in {"release", "signal"}
                  \/ \E w \in Workers : pc[w] = "woken"

JQ == INSTANCE JobQueue WITH pending <- queue, given <- job, done <- served

\* The two mutexes make a queue that gives every job to exactly one worker,
\* in order, and no job is left while a worker is idle.
ImplementsJobQueue == JQ!FairSpec

\* Every connection that is accepted is processed, but the socket 0.
Served == \A j \in Jobs \ {0} : (admin.job = j) ~> (j \in served)
=============================================================================
