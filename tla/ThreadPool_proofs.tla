------------------------- MODULE ThreadPool_proofs -------------------------
(***************************************************************************)
(* For any number of workers and connections: the list of jobs is used by  *)
(* one thread at a time, no job is left behind a locked thread_wait, and   *)
(* every step of the pool is a step of the abstract queue or changes       *)
(* nothing there.                                                          *)
(***************************************************************************)
EXTENDS ThreadPool, TLAPS

Elements(s) == {s[i] : i \in DOMAIN s}

\* A worker has a job exactly between the pop and the end of its processing,
\* and the thread that accepts has one until it signalled it.
JobsFit ==
  /\ \A w \in Workers : job[w] # 0 <=> pc[w] \in {"sleep", "release", "process"}
  /\ admin.pc # "accept" => admin.job # 0

\* Whoever uses the list holds job_wait; whoever goes to lock thread_wait in
\* thread_pool_pop_job has just emptied the list.
LockInv ==
  /\ Pushing => jobWait
  /\ \A w \in Workers : Popping(w) => jobWait
  /\ \A w \in Workers : pc[w] = "sleep" => queue = <<>>

\* What the pool has already seen, and has nothing in common with what comes.
Known == Elements(queue) \cup ({job[w] : w \in Workers} \ {0}) \cup served

FreshInv ==
  /\ Known \cap coming = {}
  /\ admin.job # 0 => admin.job \notin coming
  /\ admin.pc \in {"push", "add"} => admin.job \notin Known

SafeInv == TypeOK /\ JobsFit /\ LockInv /\ Exclusive /\ NoLostWakeup
PoolInv == SafeInv /\ FreshInv
-----------------------------------------------------------------------------
\* list_add_item adds one element to the end of the list.
LEMMA AppendElements ==
  ASSUME NEW S, NEW s \in Seq(S), NEW e \in S
  PROVE  /\ Append(s, e) \in Seq(S)
         /\ Elements(Append(s, e)) = Elements(s) \cup {e}
  <1>1. /\ Append(s, e) \in Seq(S) /\ DOMAIN Append(s, e) = 1..(Len(s) + 1)
        /\ DOMAIN s = 1..Len(s) /\ Len(s) \in Nat
        /\ Append(s, e)[Len(s) + 1] = e
        /\ \A i \in 1..Len(s) : Append(s, e)[i] = s[i]
    OBVIOUS
  <1>3. \A i \in 1..(Len(s) + 1) : i = Len(s) + 1 \/ i \in 1..Len(s)
    BY <1>1
  <1>4. \A i \in 1..Len(s) : i \in 1..(Len(s) + 1)
    BY <1>1
  <1>5. Len(s) + 1 \in 1..(Len(s) + 1)
    BY <1>1
  <1>6. QED
    BY <1>1, <1>3, <1>4, <1>5, Zenon DEF Elements

\* list_remove_item(0) removes the element list_get_item(0) returned.
LEMMA TailElements ==
  ASSUME NEW S, NEW s \in Seq(S), s # <<>>
  PROVE  /\ Tail(s) \in Seq(S) /\ Head(s) \in S /\ Head(s) \in Elements(s)
         /\ Elements(Tail(s)) \subseteq Elements(s)
         /\ Len(s) = 1 => Tail(s) = <<>>
  <1>1. /\ Tail(s) \in Seq(S) /\ Head(s) \in S /\ Len(s) \in Nat \ {0}
        /\ DOMAIN s = 1..Len(s) /\ DOMAIN Tail(s) = 1..(Len(s) - 1)
        /\ \A i \in 1..(Len(s) - 1) : Tail(s)[i] = s[i + 1]
        /\ Head(s) = s[1]
    OBVIOUS
  <1>2. Len(s) = 1 => Tail(s) = <<>>
    BY <1>1
  <1>3. 1 \in DOMAIN s /\ \A i \in DOMAIN Tail(s) : i + 1 \in DOMAIN s /\ i \in 1..(Len(s) - 1)
    BY <1>1
  <1>4. QED
    BY <1>1, <1>2, <1>3, Zenon DEF Elements
-----------------------------------------------------------------------------
\* The pool starts asleep and empty, with nothing seen.
LEMMA PoolInit == ASSUME Init PROVE PoolInv
  <1> USE ThreadPoolAssumption
  <1>1. queue = <<>> /\ queue \in Seq(Jobs \ {0})
    BY DEF Init
  <1>2. TypeOK
    BY <1>1 DEF Init, TypeOK
  <1>3. JobsFit /\ LockInv /\ Exclusive /\ NoLostWakeup
    BY DEF Init, JobsFit, LockInv, Exclusive, NoLostWakeup, Popping, Pushing
  <1>4. Elements(<<>>) = {}
    BY DEF Elements
  <1>5. FreshInv
    BY <1>4 DEF Init, FreshInv, Known
  <1>6. QED
    BY <1>2, <1>3, <1>5 DEF PoolInv, SafeInv

\* The steps of the thread that accepts keep the invariant.
LEMMA PushKeeps ==
  ASSUME SafeInv, (\E j \in Jobs : Accept(j)) \/ Pushes
  PROVE  SafeInv'
  <1> USE ThreadPoolAssumption DEF SafeInv
  <1>1. ASSUME NEW j \in Jobs, Accept(j) PROVE SafeInv'
    BY <1>1 DEF Accept, TypeOK, JobsFit, LockInv, Exclusive, NoLostWakeup, Popping, Pushing
  <1>2. ASSUME PushLock PROVE SafeInv'
    BY <1>2 DEF PushLock, TypeOK, JobsFit, LockInv, Exclusive, NoLostWakeup, Popping, Pushing
  <1>3. ASSUME PushAdd PROVE SafeInv'
    <2>1. admin.job \in Jobs \ {0}
      BY <1>3 DEF PushAdd, TypeOK, JobsFit
    <2>2. queue' \in Seq(Jobs \ {0})
      BY <1>3, <2>1, AppendElements DEF PushAdd, TypeOK
    <2>3. TypeOK' /\ JobsFit'
      BY <1>3, <2>2 DEF PushAdd, TypeOK, JobsFit
    <2>4. \A w \in Workers : ~Popping(w) /\ ~Popping(w)'
      BY <1>3 DEF PushAdd, Exclusive, Pushing, Popping
    <2>5. LockInv' /\ Exclusive'
      BY <1>3, <2>4 DEF PushAdd, LockInv, Exclusive, Pushing, Popping, TypeOK
    <2>6. NoLostWakeup'
      BY <1>3 DEF PushAdd, NoLostWakeup, TypeOK
    <2>7. QED
      BY <2>3, <2>5, <2>6
  <1>4. ASSUME PushRelease PROVE SafeInv'
    BY <1>4 DEF PushRelease, TypeOK, JobsFit, LockInv, Exclusive, NoLostWakeup, Popping, Pushing
  <1>5. ASSUME Signal PROVE SafeInv'
    BY <1>5 DEF Signal, TypeOK, JobsFit, LockInv, Exclusive, NoLostWakeup, Popping, Pushing
  <1>6. QED
    BY <1>1, <1>2, <1>3, <1>4, <1>5 DEF Pushes

\* The steps of a worker keep the invariant.
LEMMA WorkerKeeps ==
  ASSUME SafeInv, NEW w \in Workers, Locks(w) \/ Runs(w)
  PROVE  SafeInv'
  <1> USE ThreadPoolAssumption DEF SafeInv, Goes
  <1>1. ASSUME WaitLock(w) PROVE SafeInv'
    BY <1>1 DEF WaitLock, TypeOK, JobsFit, LockInv, Exclusive, NoLostWakeup, Popping, Pushing
  <1>2. ASSUME WaitUnlock(w) PROVE SafeInv'
    BY <1>2 DEF WaitUnlock, TypeOK, JobsFit, LockInv, Exclusive, NoLostWakeup, Popping, Pushing
  <1>3. ASSUME PopLock(w) PROVE SafeInv'
    BY <1>3 DEF PopLock, TypeOK, JobsFit, LockInv, Exclusive, NoLostWakeup, Popping, Pushing
  <1>4. ASSUME PopEmpty(w) PROVE SafeInv'
    BY <1>4 DEF PopEmpty, TypeOK, JobsFit, LockInv, Exclusive, NoLostWakeup, Popping, Pushing
  <1>5. ASSUME PopTake(w) PROVE SafeInv'
    <2>1. /\ queue' \in Seq(Jobs \ {0}) /\ Head(queue) \in Jobs \ {0}
          /\ Len(queue) = 1 => queue' = <<>>
      BY <1>5, TailElements DEF PopTake, TypeOK
    <2>2. TypeOK'
      BY <1>5, <2>1 DEF PopTake, TypeOK
    <2>3. JobsFit'
      BY <1>5, <2>1 DEF PopTake, TypeOK, JobsFit
    <2>4. \A v \in Workers \ {w} : ~Popping(v) /\ pc'[v] = pc[v]
      BY <1>5 DEF PopTake, TypeOK, Exclusive, Popping
    <2>5. /\ jobWait /\ jobWait' = jobWait /\ admin' = admin /\ ~Pushing
          /\ pc'[w] = "sleep" => Len(queue) = 1
      BY <1>5 DEF PopTake, TypeOK, LockInv, Exclusive, Popping
    <2>6. LockInv' /\ Exclusive'
      BY <2>1, <2>4, <2>5 DEF LockInv, Exclusive, Popping, Pushing
    <2>7. NoLostWakeup'
      BY <1>5 DEF PopTake, NoLostWakeup, TypeOK
    <2>8. QED
      BY <2>2, <2>3, <2>6, <2>7
  <1>6. ASSUME PopSleep(w) PROVE SafeInv'
    BY <1>6 DEF PopSleep, TypeOK, JobsFit, LockInv, Exclusive, NoLostWakeup, Popping, Pushing
  <1>7. ASSUME PopRelease(w) PROVE SafeInv'
    <2>1. TypeOK' /\ JobsFit'
      BY <1>7 DEF PopRelease, TypeOK, JobsFit
    <2>2. \A v \in Workers \ {w} : ~Popping(v) /\ pc'[v] = pc[v]
      BY <1>7 DEF PopRelease, TypeOK, Exclusive, Popping
    <2>3. admin' = admin /\ ~Pushing /\ pc'[w] = "process" /\ queue' = queue
      BY <1>7 DEF PopRelease, TypeOK, Exclusive, Popping
    <2>4. LockInv' /\ Exclusive'
      BY <2>2, <2>3 DEF LockInv, Exclusive, Popping, Pushing
    <2>5. NoLostWakeup'
      BY <1>7 DEF PopRelease, NoLostWakeup, TypeOK
    <2>6. QED
      BY <2>1, <2>4, <2>5
  <1>8. ASSUME ProcessRequest(w) PROVE SafeInv'
    BY <1>8 DEF ProcessRequest, TypeOK, JobsFit, LockInv, Exclusive, NoLostWakeup, Popping, Pushing
  <1>9. QED
    BY <1>1, <1>2, <1>3, <1>4, <1>5, <1>6, <1>7, <1>8 DEF Locks, Runs

\* What the pool has seen grows only by the job that is pushed.
LEMMA FreshKeeps ==
  ASSUME PoolInv, Next
  PROVE  FreshInv'
  <1> USE ThreadPoolAssumption DEF PoolInv, SafeInv, Goes
  <1>1. ASSUME NEW j \in Jobs, Accept(j) PROVE FreshInv'
    BY <1>1 DEF Accept, FreshInv, Known, TypeOK
  <1>2. ASSUME PushAdd PROVE FreshInv'
    <2>1. admin.job \in Jobs \ {0}
      BY <1>2 DEF PushAdd, TypeOK, JobsFit
    <2>2. Elements(queue') = Elements(queue) \cup {admin.job}
      BY <1>2, <2>1, AppendElements DEF PushAdd, TypeOK
    <2>3. Known' = Known \cup {admin.job} /\ admin'.job = admin.job
      BY <1>2, <2>2 DEF PushAdd, Known, TypeOK
    <2>4. QED
      BY <1>2, <2>1, <2>3 DEF PushAdd, FreshInv, TypeOK
  <1>3. ASSUME PushLock \/ PushRelease \/ Signal PROVE FreshInv'
    <2>1. Known' = Known /\ coming' = coming
      BY <1>3 DEF PushLock, PushRelease, Signal, Known
    <2>2. QED
      BY <1>3, <2>1 DEF PushLock, PushRelease, Signal, FreshInv, TypeOK
  <1>4. ASSUME NEW w \in Workers, Locks(w) \/ Runs(w) PROVE FreshInv'
    <2>1. Known' \subseteq Known
      <3>1. CASE PopTake(w)
        <4>1. Head(queue) \in Elements(queue) /\ Elements(queue') \subseteq Elements(queue)
          BY <3>1, TailElements DEF PopTake, TypeOK
        <4>2. \A v \in Workers : job'[v] \in {job[v], Head(queue)}
          BY <3>1 DEF PopTake, TypeOK
        <4>3. QED
          BY <3>1, <4>1, <4>2 DEF PopTake, Known
      <3>2. CASE ProcessRequest(w)
        <4>1. job[w] # 0 /\ \A v \in Workers : job'[v] \in {job[v], 0}
          BY <3>2 DEF ProcessRequest, TypeOK, JobsFit
        <4>2. QED
          BY <3>2, <4>1 DEF ProcessRequest, Known
      <3>3. CASE ~PopTake(w) /\ ~ProcessRequest(w)
        BY <1>4, <3>3 DEF Locks, Runs, WaitLock, WaitUnlock, PopLock, PopEmpty, PopSleep,
                          PopRelease, Known
      <3>4. QED
        BY <3>1, <3>2, <3>3
    <2>2. coming' = coming /\ admin' = admin
      BY <1>4 DEF Locks, Runs, WaitLock, WaitUnlock, PopLock, PopEmpty, PopTake, PopSleep,
                  PopRelease, ProcessRequest
    <2>3. QED
      BY <2>1, <2>2 DEF FreshInv
  <1>5. QED
    BY <1>1, <1>2, <1>3, <1>4 DEF Next, Pushes

\* The invariant holds for ever.
LEMMA PoolAlways == Spec => []PoolInv
  <1>1. Init => PoolInv
    BY PoolInit
  <1>2. PoolInv /\ [Next]_vars => PoolInv'
    <2> SUFFICES ASSUME PoolInv, [Next]_vars PROVE PoolInv'
      OBVIOUS
    <2>1. CASE Next
      <3>1. SafeInv'
        BY <2>1, PushKeeps, WorkerKeeps DEF PoolInv, Next
      <3>2. QED
        BY <2>1, <3>1, FreshKeeps DEF PoolInv
    <2>2. CASE UNCHANGED vars
      BY <2>2 DEF vars, PoolInv, SafeInv, FreshInv, Known, Elements, TypeOK, JobsFit, LockInv,
                  Exclusive, NoLostWakeup, Popping, Pushing
    <2>3. QED
      BY <2>1, <2>2
  <1>3. QED
    BY <1>1, <1>2, PTL DEF Spec
-----------------------------------------------------------------------------
\* The pool's threads, its queue and its two mutexes keep their types.
THEOREM PoolTypes == Spec => []TypeOK
  <1>1. PoolInv => TypeOK
    BY DEF PoolInv, SafeInv
  <1>2. QED
    BY <1>1, PoolAlways, PTL

\* At most one thread of the pool is between the lock and the unlock of
\* job_wait, for any number of workers.
THEOREM PoolExclusive == Spec => []Exclusive
  <1>1. PoolInv => Exclusive
    BY DEF PoolInv, SafeInv
  <1>2. QED
    BY <1>1, PoolAlways, PTL

\* No job waits in the queue behind a thread_wait that nobody is about to free,
\* for any number of workers: thread_wait is a safe condition variable here.
THEOREM PoolWakes == Spec => []NoLostWakeup
  <1>1. PoolInv => NoLostWakeup
    BY DEF PoolInv, SafeInv
  <1>2. QED
    BY <1>1, PoolAlways, PTL

\* Every step of the pool is a step of the abstract queue, or none of its steps.
LEMMA StepImplements ==
  ASSUME PoolInv, [Next]_vars
  PROVE  [JQ!Next]_(JQ!jobVars)
  <1> USE ThreadPoolAssumption DEF PoolInv, SafeInv, JQ!jobVars
  <1>1. ASSUME PushAdd PROVE JQ!Submit(admin.job) /\ admin.job \in Jobs \ {0}
    <2>1. admin.job \in Jobs \ {0} /\ admin.job \notin Known
      BY <1>1 DEF PushAdd, TypeOK, JobsFit, FreshInv
    <2>2. JQ!Pending = Elements(queue)
      BY DEF JQ!Pending, Elements
    <2>3. QED
      BY <1>1, <2>1, <2>2 DEF PushAdd, JQ!Submit, Known
  <1>2. ASSUME NEW w \in Workers, PopTake(w) PROVE JQ!Give(w)
    <2>1. job[w] = 0
      BY <1>2 DEF PopTake, JobsFit
    <2>2. QED
      BY <1>2, <2>1 DEF PopTake, JQ!Give
  <1>3. ASSUME NEW w \in Workers, ProcessRequest(w) PROVE JQ!Finish(w)
    <2>1. job[w] # 0
      BY <1>3 DEF ProcessRequest, JobsFit
    <2>2. QED
      BY <1>3, <2>1 DEF ProcessRequest, JQ!Finish
  <1>4. ASSUME NEW j \in Jobs, Accept(j) PROVE UNCHANGED <<queue, job, served>>
    BY <1>4 DEF Accept
  <1>5. ASSUME Pushes, ~PushAdd PROVE UNCHANGED <<queue, job, served>>
    BY <1>5 DEF Pushes, PushLock, PushRelease, Signal
  <1>6. ASSUME NEW w \in Workers, Locks(w) \/ Runs(w), ~PopTake(w), ~ProcessRequest(w)
        PROVE  UNCHANGED <<queue, job, served>>
    BY <1>6 DEF Locks, Runs, WaitLock, WaitUnlock, PopLock, PopEmpty, PopSleep, PopRelease
  <1>7. CASE UNCHANGED vars
    BY <1>7 DEF vars
  <1>8. QED
    BY <1>1, <1>2, <1>3, <1>4, <1>5, <1>6, <1>7 DEF Next, JQ!Next, JQ!GiveSome

\* The pool implements the abstract queue of jobs: each job that is accepted is
\* given to one worker, once, in the order of arrival.
THEOREM PoolImplements == Spec => JQ!Spec
  <1>1. Init => JQ!Init
    BY DEF Init, JQ!Init
  <1>2. QED
    BY <1>1, PoolAlways, StepImplements, PTL DEF Spec, JQ!Spec
=============================================================================
