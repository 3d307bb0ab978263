----------------------------- MODULE JobQueue -----------------------------
(***************************************************************************)
(* What the users of a thread pool rely on: jobs are given to the workers  *)
(* in the order they were submitted, each to exactly one of them, and none *)
(* stays behind while a worker has nothing to do.                          *)
(***************************************************************************)
EXTENDS Naturals, Sequences

CONSTANTS Jobs, Workers

VARIABLES pending, \* submitted, given to nobody yet
          given,   \* the job each worker has, or 0
          done     \* the jobs that were processed

jobVars == <<pending, given, done>>

Pending == {pending[i] : i \in DOMAIN pending}

Init == /\ pending = <<>>
        /\ given = [w \in Workers |-> 0]
        /\ done = {}

Submit(j) ==
  /\ j \notin Pending \cup done /\ \A w \in Workers : given[w] # j
  /\ pending' = Append(pending, j)
  /\ UNCHANGED <<given, done>>

Give(w) ==
  /\ given[w] = 0 /\ pending # <<>>
  /\ given' = [given EXCEPT ![w] = Head(pending)]
  /\ pending' = Tail(pending)
  /\ UNCHANGED done

Finish(w) ==
  /\ given[w] # 0
  /\ done' = done \cup {given[w]}
  /\ given' = [given EXCEPT ![w] = 0]
  /\ UNCHANGED pending

GiveSome == \E w \in Workers : Give(w)

Next == \/ \E j \in Jobs \ {0} : Submit(j)
        \/ GiveSome
        \/ \E w \in Workers : Finish(w)

Spec == Init /\ [][Next]_jobVars

FairSpec == /\ Spec
            /\ WF_jobVars(GiveSome)
            /\ \A w \in Workers : WF_jobVars(Finish(w))
=============================================================================
