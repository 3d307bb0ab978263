-------------------------- MODULE SMSession_proofs --------------------------
(***************************************************************************)
(* What holds of a session's row for every set of servers and any number   *)
(* of parallel requests: its types, and that the row becomes "ready" only  *)
(* once every server is.  A request is a list of calls over a stack of     *)
(* objects; most of the argument for the types is that no call finds the   *)
(* stack empty.                                                            *)
(***************************************************************************)
EXTENDS SMSession, FiniteSetTheorems, SequenceTheorems, TLAPS

\* The statuses that Session::setStatus saves, and the objects that have one.
Storable == Status \ {"destroyed", "error", "unknown"}
Stored == {o \in Session : o.status \in Storable}

\* The calls a request is made of once it has loaded its object; the first call
\* of monitoring and of a resumption loads it, a removal may find no session.
Work == {c \in Call : /\ c.op \notin {"monitored", "reload"}
                      /\ c.op = "commit" => c.st \in Storable}
Flat == {c \in Work : c.op \notin {"kill", "notReady"}}
Entry == {c \in Call : c.op \in {"monitored", "reload", "remove"}}

\* Server::isUnreachable works on objects of its own: "kill" puts one on the
\* stack and "notReady" takes it off.  d[i] is the size of the stack at call i.
Delta(c) == IF c.op = "kill" THEN 1 ELSE IF c.op = "notReady" THEN -1 ELSE 0
Depths(cs, n, d) ==
  /\ d \in [1 .. Len(cs) + 1 -> Nat] /\ d[1] = n
  /\ \A i \in 1 .. Len(cs) :
       /\ d[i] >= 1 /\ d[i + 1] = d[i] + Delta(cs[i])
       /\ cs[i].op = "kill" => i < Len(cs) /\ cs[i + 1].op = "delete"
Runs(cs, n) == cs \in Seq(Work) /\ \E d : Depths(cs, n, d)

Fits(os, cs) == os \in Seq(Stored) /\ Runs(cs, Len(os))
Enters(os, cs) == os \in Seq(Stored) /\ cs \in Seq(Entry) /\ Len(cs) = 1
RequestInv == \A r \in Requests : Fits(objs[r], calls[r]) \/ Enters(objs[r], calls[r])

\* The parts of TypeOK about the servers, which no request depends on.
ServersOK ==
  /\ born \in BOOLEAN
  /\ srvdb \in [Aps -> {"ready", "broken", "deleted"}]
  /\ aps \in [Aps -> ApsStatus]
  /\ report \in [Aps -> Status \cup {NoReport}]
CallsOK ==
  /\ DOMAIN calls = Requests /\ calls = [r \in Requests |-> calls[r]]
  /\ DOMAIN objs = Requests /\ objs = [r \in Requests |-> objs[r]]
  /\ reporter \in [Requests -> Aps \cup {NoServer}]
RowInv == row \in Stored \cup {NoRow}
SInv == RowInv /\ ServersOK /\ CallsOK /\ RequestInv
-----------------------------------------------------------------------------
(* Lists of calls.                                                         *)

LEMMA RunsEmpty == ASSUME NEW n \in Nat PROVE Runs(<<>>, n)
<1> DEFINE d == [i \in 1 .. 1 |-> n]
<1>1. <<>> \in Seq(Work) /\ Len(<<>>) = 0
  BY EmptySeq
<1>2. d \in [1 .. Len(<<>>) + 1 -> Nat] /\ d[1] = n /\ 1 .. Len(<<>>) = {}
  BY <1>1
<1> HIDE DEF d
<1>3. Depths(<<>>, n, d)
  BY <1>2 DEF Depths
<1>4. QED
  BY <1>1, <1>3 DEF Runs

\* The first call of a list finds an object; the others go on from there.
LEMMA RunsTail ==
  ASSUME NEW cs, NEW n \in Nat, Runs(cs, n), cs # <<>>
  PROVE  /\ n >= 1 /\ Head(cs) \in Work /\ n + Delta(Head(cs)) \in Nat
         /\ Runs(Tail(cs), n + Delta(Head(cs)))
         /\ Head(cs).op = "kill" => Tail(cs) # <<>> /\ Head(Tail(cs)).op = "delete"
<1>1. PICK d : Depths(cs, n, d)
  BY DEF Runs
<1>2. cs \in Seq(Work) /\ Len(cs) \in Nat \ {0} /\ Head(cs) = cs[1]
  BY EmptySeq DEF Runs
<1>3. /\ Head(cs) \in Work /\ Tail(cs) \in Seq(Work) /\ Len(Tail(cs)) = Len(cs) - 1
      /\ \A i \in 1 .. Len(Tail(cs)) : Tail(cs)[i] = cs[i + 1]
  BY <1>2, HeadTailProperties
<1> DEFINE e == [i \in 1 .. Len(cs) |-> d[i + 1]]
<1>4. /\ d \in [1 .. Len(cs) + 1 -> Nat] /\ d[1] = n
      /\ \A i \in 1 .. Len(cs) :
           /\ d[i] >= 1 /\ d[i + 1] = d[i] + Delta(cs[i])
           /\ cs[i].op = "kill" => i < Len(cs) /\ cs[i + 1].op = "delete"
  BY <1>1 DEF Depths
<1>5. 1 \in 1 .. Len(cs) /\ \A i \in 1 .. Len(cs) : i + 1 \in 1 .. Len(cs) + 1
  BY <1>2
<1>6. n >= 1 /\ d[2] = n + Delta(Head(cs)) /\ d[2] \in Nat
  BY <1>2, <1>4, <1>5
<1>7. e \in [1 .. Len(Tail(cs)) + 1 -> Nat] /\ e[1] = d[2]
  BY <1>2, <1>3, <1>4, <1>5
<1>8. \A i \in 1 .. Len(cs) : e[i] = d[i + 1]
  OBVIOUS
<1> HIDE DEF e
<1>9. ASSUME NEW i \in 1 .. Len(Tail(cs))
      PROVE  /\ e[i] >= 1 /\ e[i + 1] = e[i] + Delta(Tail(cs)[i])
             /\ Tail(cs)[i].op = "kill" => i < Len(Tail(cs)) /\ Tail(cs)[i + 1].op = "delete"
  <2>1. i \in 1 .. Len(cs) /\ i + 1 \in 1 .. Len(cs) /\ i \in Nat
    BY <1>2, <1>3
  <2>2. e[i] = d[i + 1] /\ e[i + 1] = d[i + 1 + 1] /\ Tail(cs)[i] = cs[i + 1]
    BY <1>3, <1>8, <2>1
  <2>3. /\ d[i + 1] >= 1 /\ d[i + 1 + 1] = d[i + 1] + Delta(cs[i + 1])
        /\ cs[i + 1].op = "kill" => i + 1 < Len(cs) /\ cs[i + 1 + 1].op = "delete"
    BY <1>4, <2>1
  <2>4. ASSUME cs[i + 1].op = "kill"
        PROVE  i < Len(Tail(cs)) /\ Tail(cs)[i + 1].op = "delete"
    <3>1. i + 1 < Len(cs)
      BY <2>3, <2>4
    <3>2. i < Len(Tail(cs)) /\ i + 1 \in 1 .. Len(Tail(cs))
      BY <1>2, <1>3, <2>1, <3>1
    <3>3. QED
      BY <1>3, <2>3, <2>4, <3>2
  <2>5. QED
    BY <2>2, <2>3, <2>4
<1>10. Runs(Tail(cs), n + Delta(Head(cs)))
  BY <1>3, <1>6, <1>7, <1>9 DEF Runs, Depths
<1>11. ASSUME Head(cs).op = "kill" PROVE Tail(cs) # <<>> /\ Head(Tail(cs)).op = "delete"
  <2>1. 1 < Len(cs) /\ cs[1 + 1].op = "delete"
    BY <1>2, <1>4, <1>5, <1>11
  <2>2. 1 \in 1 .. Len(Tail(cs)) /\ Tail(cs)[1].op = "delete"
    BY <1>2, <1>3, <2>1
  <2>3. QED
    BY <1>3, <2>2, EmptySeq
<1>12. QED
  BY <1>3, <1>6, <1>10, <1>11

\* Calls that leave the stack alone may be put before a list.
LEMMA RunsFlat ==
  ASSUME NEW ps \in Seq(Flat), NEW cs, NEW n \in Nat, n >= 1, Runs(cs, n)
  PROVE  Runs(ps \o cs, n)
<1>1. PICK d : Depths(cs, n, d)
  BY DEF Runs
<1>2. /\ cs \in Seq(Work) /\ ps \in Seq(Work) /\ Len(cs) \in Nat /\ Len(ps) \in Nat
      /\ \A i \in 1 .. Len(ps) : ps[i] \in Flat
  <2>1. Flat \subseteq Work /\ cs \in Seq(Work)
    BY DEF Flat, Runs
  <2>2. ps \in Seq(Work)
    BY <2>1, SeqMonotonic
  <2>3. QED
    BY <2>1, <2>2, LenProperties, ElementOfSeq
<1> DEFINE l == Len(ps)
           q == ps \o cs
           e == [i \in 1 .. Len(q) + 1 |-> IF i <= l THEN n ELSE d[i - l]]
<1>3. /\ q \in Seq(Work) /\ Len(q) = l + Len(cs) /\ l \in Nat /\ Len(q) \in Nat
      /\ \A i \in 1 .. l + Len(cs) : q[i] = IF i <= l THEN ps[i] ELSE cs[i - l]
  BY <1>2, ConcatProperties
<1>4. /\ d \in [1 .. Len(cs) + 1 -> Nat] /\ d[1] = n
      /\ \A i \in 1 .. Len(cs) :
           /\ d[i] >= 1 /\ d[i + 1] = d[i] + Delta(cs[i])
           /\ cs[i].op = "kill" => i < Len(cs) /\ cs[i + 1].op = "delete"
  BY <1>1 DEF Depths
<1>5. \A i \in 1 .. Len(q) + 1 : e[i] = IF i <= l THEN n ELSE d[i - l]
  OBVIOUS
<1>6. e \in [1 .. Len(q) + 1 -> Nat]
  <2>1. ASSUME NEW i \in 1 .. Len(q) + 1, ~(i <= l) PROVE d[i - l] \in Nat
    <3>1. i - l \in 1 .. Len(cs) + 1
      BY <1>2, <1>3, <2>1
    <3>2. QED
      BY <1>4, <3>1
  <2>2. QED
    BY <2>1
<1> HIDE DEF e, q, l
<1>7. e[1] = n
  BY <1>2, <1>3, <1>4, <1>5
<1>8. ASSUME NEW i \in 1 .. Len(q)
      PROVE  /\ e[i] >= 1 /\ e[i + 1] = e[i] + Delta(q[i])
             /\ q[i].op = "kill" => i < Len(q) /\ q[i + 1].op = "delete"
  <2>1. i \in 1 .. Len(q) + 1 /\ i + 1 \in 1 .. Len(q) + 1 /\ i \in Nat
    BY <1>3
  <2>2. CASE i <= l
    <3>1. q[i] = ps[i] /\ ps[i] \in Flat
      BY <1>2, <1>3, <2>2 DEF l
    <3>2. Delta(q[i]) = 0 /\ q[i].op # "kill"
      BY <3>1 DEF Flat, Delta
    <3>3. e[i] = n
      BY <1>5, <2>1, <2>2
    <3>4. e[i + 1] = n
      <4>1. CASE i + 1 <= l
        BY <1>5, <2>1, <4>1
      <4>2. CASE ~(i + 1 <= l)
        <5>1. i + 1 - l = 1
          BY <1>3, <2>1, <2>2, <4>2
        <5>2. e[i + 1] = d[i + 1 - l]
          BY <1>3, <1>5, <2>1, <4>2
        <5>3. QED
          BY <1>4, <5>1, <5>2
      <4>3. QED
        BY <4>1, <4>2
    <3>5. QED
      BY <3>2, <3>3, <3>4
  <2>3. CASE ~(i <= l)
    <3>1. /\ i - l \in 1 .. Len(cs) /\ ~(i + 1 <= l) /\ i + 1 - l = i - l + 1
      BY <1>2, <1>3, <2>1, <2>3
    <3>2. /\ e[i] = d[i - l] /\ e[i + 1] = d[i - l + 1] /\ q[i] = cs[i - l]
      <4>1. e[i] = d[i - l]
        BY <1>3, <1>5, <2>1, <2>3
      <4>2. e[i + 1] = d[i + 1 - l]
        BY <1>3, <1>5, <2>1, <3>1
      <4>3. q[i] = cs[i - l]
        BY <1>3, <2>3
      <4>4. QED
        BY <3>1, <4>1, <4>2, <4>3
    <3>3. ASSUME q[i].op = "kill" PROVE i < Len(q) /\ q[i + 1].op = "delete"
      <4>1. i - l < Len(cs) /\ cs[i - l + 1].op = "delete"
        BY <1>4, <3>1, <3>2, <3>3
      <4>2. i < Len(q) /\ i + 1 \in 1 .. l + Len(cs)
        BY <1>2, <1>3, <2>1, <4>1
      <4>3. q[i + 1] = cs[i + 1 - l]
        BY <1>3, <3>1, <4>2
      <4>4. QED
        BY <3>1, <4>1, <4>2, <4>3
    <3>4. QED
      BY <1>4, <3>1, <3>2, <3>3
  <2>4. QED
    BY <2>2, <2>3
<1>9. QED
  <2>1. Depths(q, n, e)
    BY <1>6, <1>7, <1>8 DEF Depths
  <2>2. Runs(q, n)
    BY <1>3, <2>1 DEF Runs
  <2>3. QED
    BY <2>2 DEF q

LEMMA OnDownCalls ==
  /\ OnDown \in Seq(Work) /\ Len(OnDown) = 3
  /\ OnDown[1].op = "kill" /\ OnDown[2].op = "delete" /\ OnDown[3].op = "notReady"
<1>1. Plain("kill") \in Work /\ Plain("delete") \in Work /\ Plain("notReady") \in Work
  BY DEF Work, Call, Plain
<1>2. QED
  BY <1>1 DEF OnDown, Plain

\* A failed query puts its object on the stack and takes it off again.
LEMMA RunsDown ==
  ASSUME NEW cs, NEW n \in Nat, n >= 1, Runs(cs, n)
  PROVE  Runs(OnDown \o cs, n)
<1>1. PICK d : Depths(cs, n, d)
  BY DEF Runs
<1>2. cs \in Seq(Work) /\ Len(cs) \in Nat
  BY LenProperties DEF Runs
<1> DEFINE q == OnDown \o cs
           e == [i \in 1 .. Len(q) + 1 |->
                   IF i = 1 THEN n ELSE IF i <= 3 THEN n + 1 ELSE d[i - 3]]
<1>3. /\ q \in Seq(Work) /\ Len(q) = 3 + Len(cs) /\ Len(q) \in Nat
      /\ \A i \in 1 .. 3 + Len(cs) : q[i] = IF i <= 3 THEN OnDown[i] ELSE cs[i - 3]
  <2>1. /\ q \in Seq(Work) /\ Len(q) = Len(OnDown) + Len(cs)
        /\ \A i \in 1 .. Len(OnDown) + Len(cs) :
             q[i] = IF i <= Len(OnDown) THEN OnDown[i] ELSE cs[i - Len(OnDown)]
    BY <1>2, OnDownCalls, ConcatProperties
  <2>2. QED
    BY <1>2, <2>1, OnDownCalls
<1>4. /\ d \in [1 .. Len(cs) + 1 -> Nat] /\ d[1] = n
      /\ \A i \in 1 .. Len(cs) :
           /\ d[i] >= 1 /\ d[i + 1] = d[i] + Delta(cs[i])
           /\ cs[i].op = "kill" => i < Len(cs) /\ cs[i + 1].op = "delete"
  BY <1>1 DEF Depths
<1>5. \A i \in 1 .. Len(q) + 1 : e[i] = IF i = 1 THEN n ELSE IF i <= 3 THEN n + 1 ELSE d[i - 3]
  OBVIOUS
<1>6. e \in [1 .. Len(q) + 1 -> Nat]
  <2>1. ASSUME NEW i \in 1 .. Len(q) + 1, ~(i <= 3) PROVE d[i - 3] \in Nat
    <3>1. i - 3 \in 1 .. Len(cs) + 1
      BY <1>2, <1>3, <2>1
    <3>2. QED
      BY <1>4, <3>1
  <2>2. QED
    BY <2>1
<1> HIDE DEF e, q
<1>7. e[1] = n /\ e[2] = n + 1 /\ e[3] = n + 1 /\ e[4] = n
  <2>1. {1, 2, 3, 4} \subseteq 1 .. Len(q) + 1
    BY <1>2, <1>3
  <2>2. QED
    BY <1>4, <1>5, <2>1
<1>8. q[1].op = "kill" /\ q[2].op = "delete" /\ q[3].op = "notReady"
  <2>1. {1, 2, 3} \subseteq 1 .. 3 + Len(cs)
    BY <1>2
  <2>2. QED
    BY <1>3, <2>1, OnDownCalls
<1>9. ASSUME NEW i \in 1 .. Len(q)
      PROVE  /\ e[i] >= 1 /\ e[i + 1] = e[i] + Delta(q[i])
             /\ q[i].op = "kill" => i < Len(q) /\ q[i + 1].op = "delete"
  <2>1. CASE i \in {1, 2, 3}
    <3>1. 1 < Len(q)
      BY <1>2, <1>3
    <3>2. QED
      BY <1>7, <1>8, <2>1, <3>1 DEF Delta
  <2>2. CASE i \notin {1, 2, 3}
    <3>1. /\ i - 3 \in 1 .. Len(cs) /\ i + 1 - 3 = i - 3 + 1 /\ ~(i <= 3) /\ ~(i + 1 <= 3)
          /\ i \in 1 .. 3 + Len(cs) /\ i \in 1 .. Len(q) + 1 /\ i + 1 \in 1 .. Len(q) + 1
          /\ i # 1 /\ i + 1 # 1
      BY <1>2, <1>3, <2>2
    <3>2. /\ e[i] = d[i - 3] /\ e[i + 1] = d[i - 3 + 1] /\ q[i] = cs[i - 3]
      BY <1>3, <1>5, <3>1
    <3>3. ASSUME q[i].op = "kill" PROVE i < Len(q) /\ q[i + 1].op = "delete"
      <4>1. i - 3 < Len(cs) /\ cs[i - 3 + 1].op = "delete"
        BY <1>4, <3>1, <3>2, <3>3
      <4>2. i < Len(q) /\ i + 1 \in 1 .. 3 + Len(cs)
        BY <1>2, <1>3, <4>1
      <4>3. QED
        BY <1>3, <3>1, <4>1, <4>2
    <3>4. QED
      BY <1>4, <3>1, <3>2, <3>3
  <2>3. QED
    BY <2>1, <2>2
<1>10. Depths(q, n, e)
  BY <1>6, <1>7, <1>9 DEF Depths
<1>11. QED
  BY <1>3, <1>10 DEF Runs, q
-----------------------------------------------------------------------------
(* The calls, and what setStatus asks for.                                 *)

LEMMA OneCall == ASSUME NEW S, NEW c \in S PROVE <<c>> \in Seq(S)
OBVIOUS

LEMMA Alone ==
  ASSUME NEW S, NEW q \in Seq(S), Len(q) = 1
  PROVE  Head(q) = q[1] /\ Tail(q) = <<>> /\ q = <<Head(q)>>
<1>1. q = <<q[1]>>
  OBVIOUS
<1>2. Tail(<<q[1]>>) = <<>> /\ Head(q) = q[1]
  OBVIOUS
<1>3. QED
  BY <1>1, <1>2

LEMMA ThenFields ==
  ASSUME NEW o, NEW next PROVE Then(o, next).obj = o /\ Then(o, next).next = next
BY DEF Then

LEMMA WaitDestroyFields ==
  ASSUME NEW o
  PROVE  /\ WaitDestroy(o).obj = [o EXCEPT !.stop = TRUE]
         /\ WaitDestroy(o).next = <<OrderDeletion(Aps, 0, TRUE)>>
<1> DEFINE n == [o EXCEPT !.stop = TRUE]
           cs == <<OrderDeletion(Aps, 0, TRUE)>>
<1>1. WaitDestroy(o) = Then(n, cs)
  BY DEF WaitDestroy
<1> HIDE DEF n, cs
<1>2. WaitDestroy(o).obj = n /\ WaitDestroy(o).next = cs
  BY <1>1, ThenFields
<1>3. QED
  BY <1>2 DEF n, cs

LEMMA FlatCalls ==
  /\ \A s \in Aps, st \in Status : SetServerStatus(s, st) \in Flat
  /\ \A st \in Storable : Commit(st) \in Flat
  /\ \A todo \in SUBSET Aps, n \in Nat, b \in BOOLEAN : OrderDeletion(todo, n, b) \in Flat
  /\ \A todo \in SUBSET Aps : GetStatus(todo) \in Flat /\ Create(todo) \in Flat
  /\ \A todo \in SUBSET Aps, ok \in BOOLEAN : Disconnect(todo, ok) \in Flat
  /\ \A k \in Nat : Cron(k) \in Flat
  /\ OrderAll \in Flat
  /\ \A s \in Aps : Remove(s) \in Flat
  /\ \A name \in {"purge", "delete", "save", "purgeIfDead", "resumed"} : Plain(name) \in Flat
<1>1. \A s \in Aps, st \in Status : SetServerStatus(s, st) \in Flat
  BY DEF SetServerStatus, Flat, Work, Call
<1>2. \A st \in Storable : Commit(st) \in Flat
  BY DEF Commit, Flat, Work, Call, Storable
<1>3. \A todo \in SUBSET Aps, n \in Nat, b \in BOOLEAN : OrderDeletion(todo, n, b) \in Flat
  BY DEF OrderDeletion, Flat, Work, Call
<1>4. \A todo \in SUBSET Aps : GetStatus(todo) \in Flat /\ Create(todo) \in Flat
  BY DEF GetStatus, Create, Flat, Work, Call
<1>5. \A todo \in SUBSET Aps, ok \in BOOLEAN : Disconnect(todo, ok) \in Flat
  BY DEF Disconnect, Flat, Work, Call
<1>6. \A k \in Nat : Cron(k) \in Flat
  BY DEF Cron, Flat, Work, Call
<1>7. \A name \in {"purge", "delete", "save", "purgeIfDead", "resumed"} : Plain(name) \in Flat
  BY DEF Plain, Flat, Work, Call
<1>8. \A s \in Aps : Remove(s) \in Flat
  BY DEF Remove, Flat, Work, Call
<1>9. OrderAll \in Flat
  BY <1>3 DEF OrderAll
<1>10. QED
  BY <1>1, <1>2, <1>3, <1>4, <1>5, <1>6, <1>7, <1>8, <1>9

\* What a call carries.
LEMMA CallFields ==
  ASSUME NEW c \in Call
  PROVE  /\ c.op \in {"setServerStatus", "monitored"} => c.srv \in Aps /\ c.st \in Status
         /\ c.op = "commit" => c.st \in Status
         /\ c.op = "remove" => c.srv \in Aps
         /\ c.op \in {"orderDeletion", "getStatus", "create", "disconnect"} => c.todo \in SUBSET Aps
         /\ c.op = "orderDeletion" => c.n \in Nat /\ c.saves \in BOOLEAN
         /\ c.op = "disconnect" => c.ok \in BOOLEAN
         /\ c.op = "cron" => c.n \in Nat
BY DEF Call

\* Session::setStatus never asks for a final status to be saved.
LEMMA SetStatusKeeps ==
  ASSUME NEW o \in Stored, NEW st \in Status \ {"error", "unknown"}
  PROVE  SetStatus(o, st).obj \in Stored /\ SetStatus(o, st).next \in Seq(Flat)
<1>1. [o EXCEPT !.stop = TRUE] \in Stored
  BY DEF Stored, Session
<1>2. OrderDeletion(Aps, 0, TRUE) \in Flat /\ Plain("purge") \in Flat /\ <<>> \in Seq(Flat)
  BY FlatCalls, EmptySeq
<1>3. CASE st = "wait_destroy" \/ (st = "disconnected" /\ ~Persistent)
  <2>1. SetStatus(o, st) = Then(o, <<>>) \/ SetStatus(o, st) = WaitDestroy(o)
    BY <1>3 DEF SetStatus
  <2>2. WaitDestroy(o).obj \in Stored /\ WaitDestroy(o).next \in Seq(Flat)
    <3>1. <<OrderDeletion(Aps, 0, TRUE)>> \in Seq(Flat)
      BY <1>2, OneCall
    <3>2. QED
      BY <1>1, <3>1, WaitDestroyFields, Zenon
  <2>3. QED
    <3>1. Then(o, <<>>).obj \in Stored /\ Then(o, <<>>).next \in Seq(Flat)
      BY <1>2, ThenFields
    <3>2. QED
      BY <2>1, <2>2, <3>1, Zenon
<1>4. CASE st = "destroyed"
  BY <1>2, <1>4 DEF SetStatus, Then, PurgeRow
<1>5. CASE st \notin {"wait_destroy", "destroyed"} /\ ~(st = "disconnected" /\ ~Persistent)
  <2>1. Commit(st) \in Flat
    BY <1>5, FlatCalls DEF Storable
  <2>2. QED
    BY <1>2, <1>5, <2>1 DEF SetStatus, Then
<1>6. QED
  BY <1>3, <1>4, <1>5

LEMMA ReactKeeps ==
  ASSUME NEW o \in Stored, NEW s \in Aps, NEW st \in Status
  PROVE  React(o, s, st).obj \in Stored /\ React(o, s, st).next \in Seq(Flat)
<1>1. /\ SetStatus(o, "wait_destroy").obj \in Stored
      /\ SetStatus(o, "wait_destroy").next \in Seq(Flat)
  BY SetStatusKeeps DEF Status
<1>2. CASE st \in {"error", "unknown"}
  BY <1>1, <1>2 DEF React
<1>3. CASE st \notin {"error", "unknown"}
  <2>1. SetStatus(o, st).obj \in Stored /\ SetStatus(o, st).next \in Seq(Flat)
    BY <1>3, SetStatusKeeps
  <2>2. Then(o, <<>>).obj \in Stored /\ Then(o, <<>>).next \in Seq(Flat)
    BY EmptySeq DEF Then
  <2>3. React(o, s, st) \in {SetStatus(o, st), Then(o, <<>>)}
    BY <1>3 DEF React
  <2>4. QED
    BY <2>1, <2>2, <2>3
<1>4. QED
  BY <1>2, <1>3
-----------------------------------------------------------------------------
(* A request that goes on.                                                 *)

LEMMA Continues ==
  ASSUME CallsOK, RequestInv, NEW r \in Requests, NEW os, NEW cs, Continue(r, os, cs),
         Fits(os, cs) \/ Enters(os, cs)
  PROVE  CallsOK' /\ RequestInv'
<1>1. /\ calls' = [calls EXCEPT ![r] = cs]
      /\ objs' = [objs EXCEPT ![r] = IF cs = <<>> THEN <<>> ELSE os]
      /\ reporter' = [reporter EXCEPT ![r] = IF cs = <<>> THEN NoServer ELSE @]
  BY DEF Continue
<1>2. CallsOK'
  BY <1>1 DEF CallsOK
<1>3. Fits(<<>>, <<>>)
  BY RunsEmpty, EmptySeq DEF Fits
<1>4. /\ calls'[r] = cs /\ objs'[r] = IF cs = <<>> THEN <<>> ELSE os
      /\ \A q \in Requests \ {r} : calls'[q] = calls[q] /\ objs'[q] = objs[q]
  BY <1>1 DEF CallsOK
<1>5. Fits(objs'[r], calls'[r]) \/ Enters(objs'[r], calls'[r])
  BY <1>3, <1>4
<1>6. QED
  BY <1>2, <1>4, <1>5 DEF RequestInv

LEMMA Quiet ==
  ASSUME CallsOK, RequestInv, UNCHANGED <<calls, objs, reporter>>
  PROVE  CallsOK' /\ RequestInv'
BY DEF CallsOK, RequestInv

\* The object and the call of a request that has loaded its object.
LEMMA Running ==
  ASSUME RequestInv, NEW r \in Requests, calls[r] # <<>>,
         Head(calls[r]).op \notin {"monitored", "reload", "remove"}
  PROVE  /\ objs[r] \in Seq(Stored) /\ Len(objs[r]) \in Nat /\ Len(objs[r]) >= 1
         /\ Obj(r) \in Stored /\ Tail(objs[r]) \in Seq(Stored)
         /\ Len(Tail(objs[r])) = Len(objs[r]) - 1
         /\ \A o \in Stored : With(r, o) \in Seq(Stored) /\ Len(With(r, o)) = Len(objs[r])
         /\ Head(calls[r]) \in Work /\ Head(calls[r]) \in Call
         /\ Runs(Tail(calls[r]), Len(objs[r]) + Delta(Head(calls[r])))
         /\ Head(calls[r]).op = "kill" =>
              Tail(calls[r]) # <<>> /\ Head(Tail(calls[r])).op = "delete"
<1>1. ~Enters(objs[r], calls[r])
  <2>1. SUFFICES ASSUME Enters(objs[r], calls[r]) PROVE FALSE
    OBVIOUS
  <2>2. Head(calls[r]) \in Entry
    BY <2>1, HeadTailProperties DEF Enters
  <2>3. QED
    BY <2>2 DEF Entry
<1>2. objs[r] \in Seq(Stored) /\ Runs(calls[r], Len(objs[r])) /\ Len(objs[r]) \in Nat
  BY <1>1, LenProperties DEF RequestInv, Fits
<1>3. /\ Len(objs[r]) >= 1 /\ Head(calls[r]) \in Work
      /\ Runs(Tail(calls[r]), Len(objs[r]) + Delta(Head(calls[r])))
      /\ Head(calls[r]).op = "kill" => Tail(calls[r]) # <<>> /\ Head(Tail(calls[r])).op = "delete"
  BY <1>2, RunsTail
<1>4. objs[r] # <<>>
  BY <1>3, EmptySeq
<1>5. /\ Obj(r) \in Stored /\ Tail(objs[r]) \in Seq(Stored)
      /\ Len(Tail(objs[r])) = Len(objs[r]) - 1
  BY <1>2, <1>4, HeadTailProperties DEF Obj
<1>6. ASSUME NEW o \in Stored
      PROVE  With(r, o) \in Seq(Stored) /\ Len(With(r, o)) = Len(objs[r])
  <2>1. <<o>> \in Seq(Stored) /\ Len(<<o>>) = 1
    OBVIOUS
  <2>2. With(r, o) \in Seq(Stored) /\ Len(With(r, o)) = 1 + Len(Tail(objs[r]))
    BY <1>5, <2>1, ConcatProperties DEF With
  <2>3. QED
    BY <1>2, <1>5, <2>2
<1>7. Head(calls[r]) \in Call
  BY <1>3 DEF Work
<1>8. QED
  BY <1>2, <1>3, <1>5, <1>6, <1>7

\* Calls that leave the stack alone, before or after a failed query.
LEMMA FlatFits ==
  ASSUME NEW os \in Seq(Stored), Len(os) >= 1, NEW rest, Runs(rest, Len(os)), NEW ps \in Seq(Flat)
  PROVE  /\ Fits(os, rest) /\ Fits(os, ps \o rest) /\ Fits(os, OnDown \o (ps \o rest))
<1>1. Len(os) \in Nat
  BY LenProperties
<1>2. Runs(ps \o rest, Len(os))
  BY <1>1, RunsFlat
<1>3. Runs(OnDown \o (ps \o rest), Len(os))
  BY <1>1, <1>2, RunsDown
<1>4. QED
  BY <1>2, <1>3 DEF Fits

LEMMA FlatOnly ==
  ASSUME NEW os \in Seq(Stored), Len(os) >= 1, NEW ps \in Seq(Flat)
  PROVE  Fits(os, ps) /\ Fits(os, OnDown \o ps)
<1>1. Len(os) \in Nat
  BY LenProperties
<1>2. ps \o <<>> = ps
  BY ConcatEmptySeq
<1>3. Runs(<<>>, Len(os))
  BY <1>1, RunsEmpty
<1>4. QED
  BY <1>2, <1>3, FlatFits

\* What a call that leaves the stack alone may go on with.
LEMMA Stays ==
  ASSUME RequestInv, NEW r \in Requests, calls[r] # <<>>,
         Head(calls[r]).op \notin {"monitored", "reload", "remove", "kill", "notReady"}
  PROVE  /\ Obj(r) \in Stored /\ Head(calls[r]) \in Work /\ Head(calls[r]) \in Call
         /\ Fits(objs[r], Tail(calls[r]))
         /\ \A ps \in Seq(Flat) : /\ Fits(objs[r], ps) /\ Fits(objs[r], OnDown \o ps)
                                 /\ Fits(objs[r], ps \o Tail(calls[r]))
                                 /\ Fits(objs[r], OnDown \o (ps \o Tail(calls[r])))
         /\ \A o \in Stored : /\ Fits(With(r, o), Tail(calls[r]))
                             /\ \A ps \in Seq(Flat) : Fits(With(r, o), ps \o Tail(calls[r]))
<1> DEFINE rest == Tail(calls[r])
           os == objs[r]
<1>1. /\ os \in Seq(Stored) /\ Len(os) \in Nat /\ Len(os) >= 1 /\ Obj(r) \in Stored
      /\ \A o \in Stored : With(r, o) \in Seq(Stored) /\ Len(With(r, o)) = Len(os)
      /\ Head(calls[r]) \in Work /\ Head(calls[r]) \in Call
      /\ Runs(rest, Len(os) + Delta(Head(calls[r])))
  BY Running
<1>2. Runs(rest, Len(os))
  <2>1. Delta(Head(calls[r])) = 0 /\ Len(os) + 0 = Len(os)
    BY <1>1 DEF Delta
  <2>2. QED
    BY <1>1, <2>1
<1> HIDE DEF rest, os
<1>3. \A ps \in Seq(Flat) : /\ Fits(os, ps) /\ Fits(os, OnDown \o ps) /\ Fits(os, ps \o rest)
                          /\ Fits(os, OnDown \o (ps \o rest))
  BY <1>1, <1>2, FlatFits, FlatOnly
<1>4. \A o \in Stored : \A ps \in Seq(Flat) : Fits(With(r, o), ps \o rest)
  <2> SUFFICES ASSUME NEW o \in Stored, NEW ps \in Seq(Flat) PROVE Fits(With(r, o), ps \o rest)
    OBVIOUS
  <2>1. With(r, o) \in Seq(Stored) /\ Len(With(r, o)) >= 1 /\ Runs(rest, Len(With(r, o)))
    BY <1>1, <1>2
  <2>2. QED
    BY <2>1, FlatFits
<1>5. Fits(os, rest) /\ \A o \in Stored : Fits(With(r, o), rest)
  BY <1>1, <1>2 DEF Fits
<1>6. QED
  BY <1>1, <1>3, <1>4, <1>5 DEF os, rest

LEMMA ServersQuiet == ASSUME ServersOK, DbOnly PROVE ServersOK'
BY DEF ServersOK, DbOnly
-----------------------------------------------------------------------------
(* Every call of a request keeps the invariant.                            *)

LEMMA SetServerStatusKeeps ==
  ASSUME SInv, NEW r \in Requests, DoSetServerStatus(r) PROVE SInv'
<1> DEFINE c == Head(calls[r])
           o == Obj(r)
           n == [o EXCEPT !.srv[c.srv] = c.st]
           rest == Tail(calls[r])
<1>1. calls[r] # <<>> /\ c.op = "setServerStatus" /\ RowInv /\ ServersOK /\ CallsOK /\ RequestInv
  BY DEF DoSetServerStatus, Doing, SInv
<1>2. /\ o \in Stored /\ c \in Call /\ Fits(objs[r], rest)
      /\ \A x \in Stored : \A ps \in Seq(Flat) : Fits(With(r, x), ps \o rest)
  BY <1>1, Stays
<1>3. c.srv \in Aps /\ c.st \in Status
  BY <1>1, <1>2, CallFields
<1>4. n \in Stored
  BY <1>2, <1>3 DEF Stored, Session
<1>5. /\ DbOnly
      /\ \/ row' = o /\ Continue(r, objs[r], rest)
         \/ row' = row /\ Continue(r, objs[r], rest)
         \/ /\ row' = n
            /\ Continue(r, With(r, React(n, c.srv, c.st).obj), React(n, c.srv, c.st).next \o rest)
  BY DEF DoSetServerStatus, Go
<1>6. React(n, c.srv, c.st).obj \in Stored /\ React(n, c.srv, c.st).next \in Seq(Flat)
  BY <1>3, <1>4, ReactKeeps
<1> HIDE DEF c, o, n, rest
<1>7. RowInv' /\ ServersOK'
  BY <1>1, <1>2, <1>4, <1>5, ServersQuiet DEF RowInv
<1>8. Fits(With(r, React(n, c.srv, c.st).obj), React(n, c.srv, c.st).next \o rest)
  BY <1>2, <1>6
<1>9. CallsOK' /\ RequestInv'
  BY <1>1, <1>2, <1>5, <1>8, Continues
<1>10. QED
  BY <1>7, <1>9 DEF SInv

LEMMA WritesKeep ==
  ASSUME SInv, NEW r \in Requests,
         DoCommit(r) \/ DoSave(r) \/ DoDelete(r) \/ DoResumed(r) PROVE SInv'
<1> DEFINE c == Head(calls[r])
           o == Obj(r)
           rest == Tail(calls[r])
<1>1. RowInv /\ ServersOK /\ CallsOK /\ RequestInv
  BY DEF SInv
<1>2. calls[r] # <<>> /\ c.op \in {"commit", "save", "delete", "purge", "resumed"} /\ DbOnly
  BY DEF DoCommit, DoSave, DoDelete, DoResumed, Doing
<1>3. /\ o \in Stored /\ c \in Work /\ Fits(objs[r], rest)
      /\ \A x \in Stored : Fits(With(r, x), rest)
  BY <1>1, <1>2, Stays
<1>4. [o EXCEPT !.stop = FALSE] \in Stored
  BY <1>3 DEF Stored, Session
<1>5. c.op = "commit" => [o EXCEPT !.status = c.st] \in Stored
  BY <1>3 DEF Work, Stored, Session, Storable
<1>6. \/ /\ c.op = "commit" /\ row' = [o EXCEPT !.status = c.st]
         /\ Continue(r, With(r, [o EXCEPT !.status = c.st]), rest)
      \/ /\ row' \in {o, NoRow, [o EXCEPT !.stop = FALSE]}
         /\ Continue(r, objs[r], rest)
  BY DEF DoCommit, DoSave, DoDelete, DoResumed, Doing
<1> HIDE DEF c, o, rest
<1>7. RowInv' /\ ServersOK'
  BY <1>1, <1>2, <1>3, <1>4, <1>5, <1>6, ServersQuiet DEF RowInv
<1>8. CallsOK' /\ RequestInv'
  BY <1>1, <1>3, <1>5, <1>6, Continues
<1>9. QED
  BY <1>7, <1>8 DEF SInv

LEMMA KillKeeps ==
  ASSUME SInv, NEW r \in Requests, DoKill(r) PROVE SInv'
<1> DEFINE o == IF row = NoRow THEN Obj(r) ELSE row
           p == IF row = NoRow THEN Then(o, <<>>) ELSE SetStatus(o, "wait_destroy")
           rest == IF row = NoRow THEN Tail(Tail(calls[r])) ELSE Tail(calls[r])
           os == <<p.obj>> \o objs[r]
<1>1. RowInv /\ ServersOK /\ CallsOK /\ RequestInv /\ calls[r] # <<>>
      /\ Head(calls[r]).op = "kill" /\ row' = row /\ DbOnly
      /\ Continue(r, os, p.next \o rest)
  BY DEF SInv, DoKill, Doing
<1>2. /\ objs[r] \in Seq(Stored) /\ Len(objs[r]) \in Nat /\ Len(objs[r]) >= 1 /\ Obj(r) \in Stored
      /\ Runs(Tail(calls[r]), Len(objs[r]) + Delta(Head(calls[r])))
      /\ Tail(calls[r]) # <<>> /\ Head(Tail(calls[r])).op = "delete"
  BY <1>1, Running
<1>3. /\ Len(objs[r]) + 1 \in Nat /\ Runs(Tail(calls[r]), Len(objs[r]) + 1)
  BY <1>1, <1>2 DEF Delta
<1>4. Runs(Tail(Tail(calls[r])), Len(objs[r]) + 1)
  <2>1. Runs(Tail(Tail(calls[r])), Len(objs[r]) + 1 + Delta(Head(Tail(calls[r]))))
    BY <1>2, <1>3, RunsTail
  <2>2. Delta(Head(Tail(calls[r]))) = 0
    BY <1>2 DEF Delta
  <2>3. QED
    BY <1>2, <2>1, <2>2
<1>5. Runs(rest, Len(objs[r]) + 1)
  BY <1>3, <1>4
<1>6. o \in Stored
  BY <1>1, <1>2 DEF RowInv
<1>7. p.obj \in Stored /\ p.next \in Seq(Flat)
  <2>1. SetStatus(o, "wait_destroy").obj \in Stored /\ SetStatus(o, "wait_destroy").next \in Seq(Flat)
    BY <1>6, SetStatusKeeps DEF Status
  <2>2. Then(o, <<>>).obj \in Stored /\ Then(o, <<>>).next \in Seq(Flat)
    BY <1>6, EmptySeq DEF Then
  <2>3. QED
    BY <2>1, <2>2
<1>8. os \in Seq(Stored) /\ Len(os) = Len(objs[r]) + 1
  <2>1. <<p.obj>> \in Seq(Stored) /\ Len(<<p.obj>>) = 1
    BY <1>7
  <2>2. os \in Seq(Stored) /\ Len(os) = 1 + Len(objs[r])
    BY <1>2, <2>1, ConcatProperties
  <2>3. 1 + Len(objs[r]) = Len(objs[r]) + 1
    BY <1>2
  <2>4. QED
    BY <2>2, <2>3
<1> HIDE DEF o, p, rest, os
<1>9. Fits(os, p.next \o rest)
  <2>1. Len(os) >= 1 /\ Runs(rest, Len(os))
    BY <1>2, <1>5, <1>8
  <2>2. QED
    BY <1>7, <1>8, <2>1, FlatFits
<1>10. CallsOK' /\ RequestInv'
  BY <1>1, <1>9, Continues
<1>11. QED
  BY <1>1, <1>10, ServersQuiet DEF SInv, RowInv

LEMMA NotReadyKeeps ==
  ASSUME SInv, NEW r \in Requests, DoNotReady(r) PROVE SInv'
<1>1. RowInv /\ ServersOK /\ CallsOK /\ RequestInv /\ calls[r] # <<>>
      /\ Head(calls[r]).op = "notReady" /\ row' = NoRow /\ DbOnly
      /\ Continue(r, Tail(objs[r]), Tail(calls[r]))
  BY DEF SInv, DoNotReady, Doing
<1>2. /\ Len(objs[r]) \in Nat /\ Tail(objs[r]) \in Seq(Stored)
      /\ Len(Tail(objs[r])) = Len(objs[r]) - 1
      /\ Runs(Tail(calls[r]), Len(objs[r]) + Delta(Head(calls[r])))
  BY <1>1, Running
<1>3. Len(objs[r]) + Delta(Head(calls[r])) = Len(Tail(objs[r]))
  BY <1>1, <1>2 DEF Delta
<1>4. Fits(Tail(objs[r]), Tail(calls[r]))
  BY <1>2, <1>3 DEF Fits
<1>5. CallsOK' /\ RequestInv'
  BY <1>1, <1>4, Continues
<1>6. QED
  BY <1>1, <1>5, ServersQuiet DEF SInv, RowInv

LEMMA OrderDeletionKeeps ==
  ASSUME SInv, NEW r \in Requests, DoOrderDeletion(r) PROVE SInv'
<1> DEFINE c == Head(calls[r])
           rest == Tail(calls[r])
           ended(s) == <<SetServerStatus(s, "destroyed"),
                         OrderDeletion(c.todo \ {s}, c.n + 1, c.saves)>>
           ordered(s) == <<SetServerStatus(s, "destroying"),
                           OrderDeletion(c.todo \ {s}, c.n, c.saves)>>
           failed == IF c.saves THEN <<Commit("wait_destroy")>> ELSE <<>>
           p == SetStatus(Obj(r), IF c.n = Cardinality(Aps) THEN "destroyed" ELSE "destroying")
<1>1. RowInv /\ ServersOK /\ CallsOK /\ RequestInv /\ calls[r] # <<>>
      /\ c.op = "orderDeletion" /\ UNCHANGED <<row, born, report>>
  BY DEF SInv, DoOrderDeletion, Doing
<1>2. \/ Continue(r, With(r, p.obj), p.next \o rest) /\ UNCHANGED <<srvdb, aps>>
      \/ \E s \in c.todo :
           /\ \/ Continue(r, objs[r], failed \o rest)
              \/ Continue(r, objs[r], ended(s) \o rest)
              \/ Continue(r, objs[r], ordered(s) \o rest)
              \/ Continue(r, objs[r], OnDown \o (ended(s) \o rest))
           /\ srvdb' \in {srvdb, [srvdb EXCEPT ![s] = "broken"]}
           /\ aps' \in {aps, [aps EXCEPT ![s] = AfterOrder(@)]}
  BY DEF DoOrderDeletion, Go
<1>3. /\ Obj(r) \in Stored /\ c \in Call
      /\ \A ps \in Seq(Flat) : /\ Fits(objs[r], ps \o rest)
                              /\ Fits(objs[r], OnDown \o (ps \o rest))
      /\ \A o \in Stored : \A ps \in Seq(Flat) : Fits(With(r, o), ps \o rest)
  BY <1>1, Stays
<1>4. c.todo \subseteq Aps /\ c.n \in Nat /\ c.saves \in BOOLEAN
  BY <1>1, <1>3, CallFields
<1>5. p.obj \in Stored /\ p.next \in Seq(Flat)
  BY <1>3, SetStatusKeeps DEF Status
<1>6. ASSUME NEW s \in c.todo PROVE ended(s) \in Seq(Flat) /\ ordered(s) \in Seq(Flat)
  <2>1. c.todo \ {s} \in SUBSET Aps /\ c.n + 1 \in Nat /\ s \in Aps
        /\ {"destroyed", "destroying"} \subseteq Status
    BY <1>4 DEF Status
  <2>2. /\ SetServerStatus(s, "destroyed") \in Flat /\ SetServerStatus(s, "destroying") \in Flat
        /\ OrderDeletion(c.todo \ {s}, c.n + 1, c.saves) \in Flat
        /\ OrderDeletion(c.todo \ {s}, c.n, c.saves) \in Flat
    BY <1>4, <2>1, FlatCalls
  <2>3. QED
    BY <2>2
<1>7. \A st \in ApsStatus : AfterOrder(st) \in ApsStatus
  BY DEF AfterOrder, ApsStatus
<1>8. failed \in Seq(Flat)
  <2>1. Commit("wait_destroy") \in Flat
    BY FlatCalls DEF Storable, Status
  <2>2. <<Commit("wait_destroy")>> \in Seq(Flat) /\ <<>> \in Seq(Flat)
    BY <2>1, EmptySeq
  <2>3. QED
    BY <2>2
<1> HIDE DEF c, rest, ended, ordered, failed, p
<1>9. ServersOK'
  <2>1. \/ UNCHANGED <<srvdb, aps>>
        \/ \E s \in Aps : /\ srvdb' \in {srvdb, [srvdb EXCEPT ![s] = "broken"]}
                         /\ aps' \in {aps, [aps EXCEPT ![s] = AfterOrder(@)]}
    BY <1>2, <1>4
  <2>2. QED
    BY <1>1, <1>7, <2>1 DEF ServersOK
<1>10. CallsOK' /\ RequestInv'
  <2>1. CASE Continue(r, With(r, p.obj), p.next \o rest)
    BY <1>1, <1>3, <1>5, <2>1, Continues
  <2>2. ASSUME NEW s \in c.todo,
               \/ Continue(r, objs[r], failed \o rest)
               \/ Continue(r, objs[r], ended(s) \o rest)
               \/ Continue(r, objs[r], ordered(s) \o rest)
               \/ Continue(r, objs[r], OnDown \o (ended(s) \o rest))
        PROVE  CallsOK' /\ RequestInv'
    <3>1. /\ Fits(objs[r], ended(s) \o rest) /\ Fits(objs[r], ordered(s) \o rest)
          /\ Fits(objs[r], OnDown \o (ended(s) \o rest)) /\ Fits(objs[r], failed \o rest)
      BY <1>3, <1>6, <1>8
    <3>2. QED
      BY <1>1, <2>2, <3>1, Continues
  <2>3. QED
    BY <1>2, <2>1, <2>2
<1>11. QED
  BY <1>1, <1>9, <1>10 DEF SInv, RowInv

LEMMA GetStatusKeeps ==
  ASSUME SInv, NEW r \in Requests, DoGetStatus(r) PROVE SInv'
<1> DEFINE c == Head(calls[r])
           rest == Tail(calls[r])
           heard(s, st) == <<SetServerStatus(s, st), GetStatus(c.todo \ {s})>>
<1>1. RowInv /\ ServersOK /\ CallsOK /\ RequestInv /\ calls[r] # <<>>
      /\ c.op = "getStatus" /\ UNCHANGED <<row, born, aps, report>>
  BY DEF SInv, DoGetStatus, Doing
<1>2. \/ Continue(r, objs[r], rest) /\ UNCHANGED srvdb
      \/ \E s \in c.todo :
           /\ \/ Continue(r, objs[r], heard(s, "error") \o rest)
              \/ Continue(r, objs[r], heard(s, Answer(aps[s])) \o rest)
              \/ Continue(r, objs[r], OnDown \o (heard(s, "error") \o rest))
           /\ srvdb' \in {srvdb, [srvdb EXCEPT ![s] = "broken"]}
  BY DEF DoGetStatus, Heard
<1>3. /\ c \in Call /\ Fits(objs[r], rest)
      /\ \A ps \in Seq(Flat) : /\ Fits(objs[r], ps \o rest)
                              /\ Fits(objs[r], OnDown \o (ps \o rest))
  BY <1>1, Stays
<1>4. c.todo \subseteq Aps
  BY <1>1, <1>3, CallFields
<1>5. \A st \in ApsStatus : Answer(st) \in Status
  BY DEF Answer, ApsStatus, Status
<1>6. ASSUME NEW s \in c.todo
      PROVE  heard(s, "error") \in Seq(Flat) /\ heard(s, Answer(aps[s])) \in Seq(Flat)
  <2>1. c.todo \ {s} \in SUBSET Aps /\ s \in Aps /\ "error" \in Status /\ Answer(aps[s]) \in Status
    BY <1>1, <1>4, <1>5 DEF Status, ServersOK
  <2>2. /\ SetServerStatus(s, "error") \in Flat /\ SetServerStatus(s, Answer(aps[s])) \in Flat
        /\ GetStatus(c.todo \ {s}) \in Flat
    BY <2>1, FlatCalls
  <2>3. QED
    BY <2>2
<1>7. ServersOK'
  BY <1>1, <1>2, <1>4 DEF ServersOK
<1> HIDE DEF c, rest, heard
<1>8. CallsOK' /\ RequestInv'
  <2>1. CASE Continue(r, objs[r], rest)
    BY <1>1, <1>3, <2>1, Continues
  <2>2. ASSUME NEW s \in c.todo,
               \/ Continue(r, objs[r], heard(s, "error") \o rest)
               \/ Continue(r, objs[r], heard(s, Answer(aps[s])) \o rest)
               \/ Continue(r, objs[r], OnDown \o (heard(s, "error") \o rest))
        PROVE  CallsOK' /\ RequestInv'
    <3>1. /\ Fits(objs[r], heard(s, "error") \o rest)
          /\ Fits(objs[r], heard(s, Answer(aps[s])) \o rest)
          /\ Fits(objs[r], OnDown \o (heard(s, "error") \o rest))
      BY <1>3, <1>6
    <3>2. QED
      BY <1>1, <2>2, <3>1, Continues
  <2>3. QED
    BY <1>2, <2>1, <2>2
<1>9. QED
  BY <1>1, <1>7, <1>8 DEF SInv, RowInv

\* A request that ends has no calls left.
LEMMA Ends == Fits(<<>>, <<>>) /\ \A os \in Seq(Stored) : Fits(os, <<>>)
BY RunsEmpty, EmptySeq, LenProperties DEF Fits

LEMMA CreateKeeps ==
  ASSUME SInv, NEW r \in Requests, DoCreate(r) PROVE SInv'
<1> DEFINE c == Head(calls[r])
           rest == Tail(calls[r])
<1>1. RowInv /\ ServersOK /\ CallsOK /\ RequestInv /\ calls[r] # <<>>
      /\ c.op = "create" /\ UNCHANGED <<row, born, srvdb, report>>
  BY DEF SInv, DoCreate, Doing
<1>2. \/ Continue(r, objs[r], rest) /\ UNCHANGED aps
      \/ \E s \in c.todo : /\ aps' \in {aps, [aps EXCEPT ![s] = "init"]}
                          /\ \/ Continue(r, objs[r], <<Create(c.todo \ {s})>> \o rest)
                             \/ Continue(r, objs[r], <<>>)
  <2>1. NextOf(c.todo) \subseteq c.todo
    BY DEF NextOf
  <2>2. QED
    BY <2>1 DEF DoCreate
<1>3. /\ c \in Call /\ Fits(objs[r], rest) /\ objs[r] \in Seq(Stored)
      /\ \A ps \in Seq(Flat) : Fits(objs[r], ps \o rest)
  BY <1>1, Stays, Running
<1>4. c.todo \subseteq Aps
  BY <1>1, <1>3, CallFields
<1>5. ASSUME NEW s \in c.todo PROVE <<Create(c.todo \ {s})>> \in Seq(Flat)
  <2>1. Create(c.todo \ {s}) \in Flat
    BY <1>4, FlatCalls
  <2>2. QED
    BY <2>1
<1>6. ServersOK'
  BY <1>1, <1>2, <1>4 DEF ServersOK, ApsStatus
<1> HIDE DEF c, rest
<1>7. CallsOK' /\ RequestInv'
  <2>1. CASE Continue(r, objs[r], rest) \/ Continue(r, objs[r], <<>>)
    BY <1>1, <1>3, <2>1, Ends, Continues
  <2>2. ASSUME NEW s \in c.todo, Continue(r, objs[r], <<Create(c.todo \ {s})>> \o rest)
        PROVE  CallsOK' /\ RequestInv'
    <3>1. Fits(objs[r], <<Create(c.todo \ {s})>> \o rest)
      BY <1>3, <1>5
    <3>2. QED
      BY <1>1, <2>2, <3>1, Continues
  <2>3. QED
    BY <1>2, <2>1, <2>2
<1>8. QED
  BY <1>1, <1>6, <1>7 DEF SInv, RowInv

LEMMA DisconnectKeeps ==
  ASSUME SInv, NEW r \in Requests, DoDisconnect(r) PROVE SInv'
<1> DEFINE c == Head(calls[r])
           rest == Tail(calls[r])
           asked(s, ok) == <<Disconnect(c.todo \ {s}, c.ok /\ ok)>>
           p == SetStatus(Obj(r), "disconnected")
<1>1. RowInv /\ ServersOK /\ CallsOK /\ RequestInv /\ calls[r] # <<>>
      /\ c.op = "disconnect" /\ UNCHANGED <<row, born, aps, report>>
  BY DEF SInv, DoDisconnect, Doing
<1>2. \/ Continue(r, With(r, p.obj), p.next \o rest) /\ UNCHANGED srvdb
      \/ Continue(r, <<>>, <<>>) /\ UNCHANGED srvdb
      \/ \E s \in c.todo : \E ok \in BOOLEAN :
           /\ \/ Continue(r, objs[r], asked(s, ok))
              \/ Continue(r, objs[r], OnDown \o asked(s, ok))
           /\ srvdb' \in {srvdb, [srvdb EXCEPT ![s] = "broken"]}
  <2>1. \A s : (srvdb[s] = "ready" /\ aps[s] = "logged") \in BOOLEAN
    OBVIOUS
  <2>2. QED
    BY <2>1 DEF DoDisconnect, Go
<1>3. /\ c \in Call /\ Obj(r) \in Stored
      /\ \A ps \in Seq(Flat) : Fits(objs[r], ps) /\ Fits(objs[r], OnDown \o ps)
      /\ \A o \in Stored : \A ps \in Seq(Flat) : Fits(With(r, o), ps \o rest)
  BY <1>1, Stays
<1>4. c.todo \subseteq Aps /\ c.ok \in BOOLEAN
  BY <1>1, <1>3, CallFields
<1>5. ASSUME NEW s \in c.todo, NEW ok \in BOOLEAN PROVE asked(s, ok) \in Seq(Flat)
  <2>1. (c.ok /\ ok) \in BOOLEAN
    BY <1>4
  <2>2. Disconnect(c.todo \ {s}, c.ok /\ ok) \in Flat
    BY <1>4, <2>1, FlatCalls
  <2>3. QED
    BY <2>2
<1>6. p.obj \in Stored /\ p.next \in Seq(Flat)
  BY <1>3, SetStatusKeeps DEF Status
<1>7. ServersOK'
  BY <1>1, <1>2, <1>4 DEF ServersOK
<1> HIDE DEF c, rest, asked, p
<1>8. CallsOK' /\ RequestInv'
  <2>1. CASE Continue(r, With(r, p.obj), p.next \o rest)
    BY <1>1, <1>3, <1>6, <2>1, Continues
  <2>2. CASE Continue(r, <<>>, <<>>)
    BY <1>1, <2>2, Ends, Continues
  <2>3. ASSUME NEW s \in c.todo, NEW ok \in BOOLEAN,
               Continue(r, objs[r], asked(s, ok)) \/ Continue(r, objs[r], OnDown \o asked(s, ok))
        PROVE  CallsOK' /\ RequestInv'
    <3>1. Fits(objs[r], asked(s, ok)) /\ Fits(objs[r], OnDown \o asked(s, ok))
      BY <1>3, <1>5
    <3>2. QED
      BY <1>1, <2>3, <3>1, Continues
  <2>4. QED
    BY <1>2, <2>1, <2>2, <2>3
<1>9. QED
  BY <1>1, <1>7, <1>8 DEF SInv, RowInv

\* The rest of a request: it loads an object, or goes on with work of its own.
LEMMA EntryKeeps ==
  ASSUME SInv, NEW r \in Requests, DoReload(r) \/ DoMonitored(r) PROVE SInv'
<1>1. RowInv /\ ServersOK /\ CallsOK /\ RequestInv /\ calls[r] # <<>>
      /\ Head(calls[r]).op \in {"monitored", "reload"} /\ row' = row /\ DbOnly
  BY DEF SInv, DoReload, DoMonitored, Doing
<1>2. Head(calls[r]) \in Entry
  <2>1. CASE Fits(objs[r], calls[r])
    <3>1. Head(calls[r]) \in Work
      BY <1>1, <2>1, RunsTail, LenProperties DEF Fits
    <3>2. QED
      BY <1>1, <3>1 DEF Work
  <2>2. CASE Enters(objs[r], calls[r])
    BY <1>1, <2>2, HeadTailProperties DEF Enters
  <2>3. QED
    BY <1>1, <2>1, <2>2 DEF RequestInv
<1>3. ASSUME NEW o \in Stored, NEW ps \in Seq(Flat) PROVE Fits(<<o>>, ps)
  <2>1. <<o>> \in Seq(Stored) /\ Len(<<o>>) >= 1
    OBVIOUS
  <2>2. QED
    BY <2>1, FlatOnly
<1>4. CASE DoReload(r)
  <2> DEFINE p == SetStatus(row, "ready")
  <2>1. \/ Continue(r, <<>>, <<>>)
        \/ row # NoRow /\ Continue(r, <<p.obj>>, p.next \o <<Plain("resumed")>>)
    BY <1>4 DEF DoReload
  <2>2. row # NoRow => p.obj \in Stored /\ p.next \in Seq(Flat)
    BY <1>1, SetStatusKeeps DEF RowInv, Status
  <2> HIDE DEF p
  <2>3. row # NoRow => p.next \o <<Plain("resumed")>> \in Seq(Flat)
    <3>1. <<Plain("resumed")>> \in Seq(Flat)
      BY FlatCalls
    <3>2. QED
      BY <2>2, <3>1, ConcatProperties
  <2>4. CallsOK' /\ RequestInv'
    BY <1>1, <1>3, <2>1, <2>2, <2>3, Ends, Continues
  <2>5. QED
    BY <1>1, <2>4, ServersQuiet DEF SInv, RowInv
<1>5. CASE DoMonitored(r)
  <2> DEFINE c == Head(calls[r])
             over == <<SetServerStatus(c.srv, "destroyed")>>
  <2>1. c.op = "monitored" /\ c \in Call
    BY <1>2, <1>5 DEF DoMonitored, Doing, Entry
  <2>2. c.srv \in Aps /\ c.st \in Status
    BY <2>1, CallFields
  <2>3. \/ Continue(r, <<>>, <<>>)
        \/ row # NoRow /\ Continue(r, <<row>>, over)
    BY <1>5 DEF DoMonitored
  <2>4. SetServerStatus(c.srv, "destroyed") \in Flat
    BY <2>2, FlatCalls DEF Status
  <2>5. over \in Seq(Flat)
    BY <2>4
  <2> HIDE DEF over
  <2>6. row # NoRow => row \in Stored
    BY <1>1 DEF RowInv
  <2>7. CallsOK' /\ RequestInv'
    BY <1>1, <1>3, <2>3, <2>5, <2>6, Ends, Continues
  <2>8. QED
    BY <1>1, <2>7, ServersQuiet DEF SInv, RowInv
<1>6. QED
  BY <1>4, <1>5

\* A removal: the sessions found are ordered to be deleted first.
LEMMA RemoveKeeps ==
  ASSUME SInv, NEW r \in Requests, DoRemove(r) PROVE SInv'
<1> DEFINE c == Head(calls[r])
           ps == <<OrderAll>> \o calls[r]
<1>1. /\ RowInv /\ ServersOK /\ CallsOK /\ RequestInv /\ calls[r] # <<>> /\ c.op = "remove"
      /\ UNCHANGED <<row, born, aps, report>>
  BY DEF SInv, DoRemove, Doing
<1>2. \/ /\ srvdb' = [srvdb EXCEPT ![c.srv] = "deleted"]
         /\ Continue(r, objs[r], Tail(calls[r]))
      \/ /\ objs[r] = <<>> /\ row # NoRow /\ srvdb' = srvdb
         /\ Continue(r, <<row>>, ps)
  BY DEF DoRemove
<1>3. c.srv \in Aps
  <2>1. c \in Call
    BY <1>1, RunsTail, HeadTailProperties, LenProperties DEF RequestInv, Fits, Enters, Work, Entry
  <2>2. QED
    BY <1>1, <2>1, CallFields
<1>4. ServersOK'
  BY <1>1, <1>2, <1>3 DEF ServersOK
<1>5. CASE Fits(objs[r], calls[r])
  <2>1. /\ objs[r] \in Seq(Stored) /\ Len(objs[r]) \in Nat /\ Len(objs[r]) >= 1
        /\ Runs(Tail(calls[r]), Len(objs[r]) + Delta(c))
    BY <1>1, <1>5, RunsTail, LenProperties DEF Fits
  <2>2. Delta(c) = 0 /\ Len(objs[r]) + 0 = Len(objs[r])
    BY <1>1, <2>1 DEF Delta
  <2>3. Fits(objs[r], Tail(calls[r])) /\ objs[r] # <<>>
    BY <2>1, <2>2, EmptySeq DEF Fits
  <2>4. CallsOK' /\ RequestInv'
    BY <1>1, <1>2, <2>3, Continues
  <2>5. QED
    BY <1>1, <1>4, <2>4 DEF SInv, RowInv
<1>6. CASE Enters(objs[r], calls[r])
  <2>1. /\ objs[r] \in Seq(Stored) /\ calls[r] \in Seq(Entry) /\ Len(calls[r]) = 1
    BY <1>6 DEF Enters
  <2>2. c = calls[r][1] /\ Tail(calls[r]) = <<>> /\ calls[r] = <<c>>
    BY <1>1, <2>1, Alone
  <2>3. c \in Flat /\ OrderAll \in Flat
    <3>1. c \in Call
      BY <2>1, <2>2 DEF Entry
    <3>2. c \in Flat
      BY <1>1, <3>1 DEF Flat, Work
    <3>3. QED
      BY <3>2, FlatCalls
  <2>4. ps \in Seq(Flat)
    <3>1. <<c>> \in Seq(Flat) /\ <<OrderAll>> \in Seq(Flat)
      BY <2>3, OneCall
    <3>2. QED
      BY <2>2, <3>1, ConcatProperties
  <2>5. row # NoRow => Fits(<<row>>, ps)
    <3>1. row # NoRow => <<row>> \in Seq(Stored) /\ Len(<<row>>) >= 1
      BY <1>1 DEF RowInv
    <3>2. QED
      BY <2>4, <3>1, FlatOnly
  <2>6. Fits(objs[r], Tail(calls[r]))
    BY <2>1, <2>2, Ends
  <2> HIDE DEF c, ps
  <2>7. CallsOK' /\ RequestInv'
    BY <1>1, <1>2, <2>5, <2>6, Continues
  <2>8. QED
    BY <1>1, <1>4, <2>7 DEF SInv, RowInv
<1>7. QED
  BY <1>1, <1>5, <1>6 DEF RequestInv

LEMMA CronCalls ==
  /\ Purge \in Seq(Flat)
  /\ \A k \in 1 .. 5 : CronWork(k) \o <<Cron(k + 1)>> \in Seq(Flat)
<1>1. Cardinality(Aps) \in Nat
  BY SMSessionAssumption, FS_CardinalityType
<1>2. /\ OrderDeletion({}, Cardinality(Aps), FALSE) \in Flat /\ OrderAll \in Flat
      /\ GetStatus(Aps) \in Flat /\ Plain("purgeIfDead") \in Flat /\ Plain("delete") \in Flat
  BY <1>1, FlatCalls
<1>3. Purge \in Seq(Flat)
  BY <1>2, OneCall DEF Purge
<1>4. ASSUME NEW k \in 1 .. 5 PROVE CronWork(k) \o <<Cron(k + 1)>> \in Seq(Flat)
  <2>1. <<Plain("delete")>> \in Seq(Flat) /\ <<OrderAll>> \in Seq(Flat)
    BY <1>2, OneCall
  <2>2. <<GetStatus(Aps), Plain("purgeIfDead")>> \in Seq(Flat)
    BY <1>2
  <2>3. Purge \o <<Plain("delete")>> \in Seq(Flat)
    BY <1>3, <2>1, ConcatProperties
  <2>4. CronWork(k) \in Seq(Flat)
    <3>1. CASE k \in {1, 2}
      BY <2>1, <3>1 DEF CronWork
    <3>2. CASE k = 3
      BY <2>2, <3>2 DEF CronWork
    <3>3. CASE k \in {4, 5}
      BY <2>3, <3>3 DEF CronWork
    <3>4. QED
      BY <3>1, <3>2, <3>3
  <2>5. Cron(k + 1) \in Flat
    BY FlatCalls
  <2>6. <<Cron(k + 1)>> \in Seq(Flat)
    BY <2>5
  <2>7. QED
    BY <2>4, <2>6, ConcatProperties
<1>5. QED
  BY <1>3, <1>4

LEMMA CronKeeps ==
  ASSUME SInv, NEW r \in Requests, DoCron(r) \/ DoPurgeIfDead(r) PROVE SInv'
<1> DEFINE rest == Tail(calls[r])
<1>1. RowInv /\ ServersOK /\ CallsOK /\ RequestInv /\ calls[r] # <<>>
      /\ Head(calls[r]).op \in {"cron", "purgeIfDead"} /\ row' = row /\ DbOnly
  BY DEF SInv, DoCron, DoCronEnd, DoCronDue, DoPurgeIfDead, Doing
<1>2. /\ Fits(objs[r], rest)
      /\ \A ps \in Seq(Flat) : Fits(objs[r], ps) /\ Fits(objs[r], ps \o rest)
  BY <1>1, Stays
<1>3. \/ Continue(r, <<>>, <<>>)
      \/ \E k \in 1 .. 5 : Continue(r, objs[r], CronWork(k) \o <<Cron(k + 1)>>)
      \/ Continue(r, objs[r], (IF Obj(r).status \in Unused \cup {"logged"} THEN <<>> ELSE Purge) \o rest)
  BY DEF DoCron, DoCronEnd, DoCronDue, DoPurgeIfDead
<1>4. (IF Obj(r).status \in Unused \cup {"logged"} THEN <<>> ELSE Purge) \in Seq(Flat)
  BY CronCalls, EmptySeq
<1> HIDE DEF rest
<1>5. CallsOK' /\ RequestInv'
  BY <1>1, <1>2, <1>3, <1>4, CronCalls, Ends, Continues
<1>6. QED
  BY <1>1, <1>5, ServersQuiet DEF SInv, RowInv
-----------------------------------------------------------------------------
(* The requests as they come, and the servers.                             *)

\* Most requests load the row, and have calls to make on it.
LEMMA Loads ==
  ASSUME SInv, NEW r \in Requests, row # NoRow, row' = row, DbOnly,
         NEW o \in Stored, NEW ps \in Seq(Flat), Begin(r, <<o>>, ps)
  PROVE  SInv'
<1>1. RowInv /\ ServersOK /\ CallsOK /\ RequestInv
  BY DEF SInv
<1>2. Fits(<<o>>, ps)
  <2>1. <<o>> \in Seq(Stored) /\ Len(<<o>>) >= 1
    OBVIOUS
  <2>2. QED
    BY <2>1, FlatOnly
<1>3. CallsOK' /\ RequestInv'
  BY <1>1, <1>2, Continues DEF Begin
<1>4. QED
  BY <1>1, <1>3, ServersQuiet DEF SInv, RowInv

LEMMA PreparedType == Prepared \in SUBSET Aps
BY SMSessionAssumption DEF Prepared

LEMMA StartNewKeeps ==
  ASSUME SInv, NEW r \in Requests, StartNew(r) PROVE SInv'
<1> DEFINE ps == <<Commit("created"), Plain("save"), Create(Prepared)>>
<1>1. RowInv /\ ServersOK /\ CallsOK /\ RequestInv /\ born' = TRUE /\ row' = Fresh
      /\ Continue(r, <<Fresh>>, ps) /\ UNCHANGED <<srvdb, aps, report>>
  BY DEF SInv, StartNew, Begin
<1>2. Fresh \in Stored
  BY DEF Fresh, Stored, Session, Storable, Status
<1>3. ps \in Seq(Flat)
  <2>1. Commit("created") \in Flat /\ Plain("save") \in Flat /\ Create(Prepared) \in Flat
    BY FlatCalls, PreparedType DEF Storable, Status
  <2>2. QED
    BY <2>1
<1> HIDE DEF ps
<1>4. Fits(<<Fresh>>, ps)
  <2>1. <<Fresh>> \in Seq(Stored) /\ Len(<<Fresh>>) >= 1
    BY <1>2
  <2>2. QED
    BY <1>3, <2>1, FlatOnly
<1>5. CallsOK' /\ RequestInv'
  BY <1>1, <1>4, Continues
<1>6. QED
  BY <1>1, <1>2, <1>5 DEF SInv, RowInv, ServersOK

LEMMA ReportKeeps ==
  ASSUME SInv, NEW r \in Requests, NEW s \in Aps, Report(r, s) PROVE SInv'
<1> DEFINE ps == <<SetServerStatus(s, report[s])>>
<1>1. RowInv /\ ServersOK /\ CallsOK /\ RequestInv /\ report[s] # NoReport
      /\ report' = [report EXCEPT ![s] = NoReport] /\ UNCHANGED <<row, born, srvdb, aps>>
      /\ \/ UNCHANGED <<calls, objs, reporter>>
         \/ /\ row # NoRow
            /\ calls' = [calls EXCEPT ![r] = ps] /\ objs' = [objs EXCEPT ![r] = <<row>>]
            /\ reporter' = [reporter EXCEPT ![r] = s]
  BY DEF SInv, Report
<1>2. ServersOK'
  BY <1>1 DEF ServersOK
<1>3. CASE UNCHANGED <<calls, objs, reporter>>
  BY <1>1, <1>2, <1>3, Quiet DEF SInv, RowInv
<1>4. CASE /\ row # NoRow
           /\ calls' = [calls EXCEPT ![r] = ps] /\ objs' = [objs EXCEPT ![r] = <<row>>]
           /\ reporter' = [reporter EXCEPT ![r] = s]
  <2>1. ps \in Seq(Flat)
    <3>1. SetServerStatus(s, report[s]) \in Flat
      BY <1>1, FlatCalls DEF ServersOK
    <3>2. QED
      BY <3>1
  <2> HIDE DEF ps
  <2>2. Fits(<<row>>, ps)
    <3>1. <<row>> \in Seq(Stored) /\ Len(<<row>>) >= 1
      BY <1>1, <1>4 DEF RowInv
    <3>2. QED
      BY <2>1, <3>1, FlatOnly
  <2>3. CallsOK'
    BY <1>1, <1>4 DEF CallsOK
  <2>4. /\ calls'[r] = ps /\ objs'[r] = <<row>>
        /\ \A q \in Requests \ {r} : calls'[q] = calls[q] /\ objs'[q] = objs[q]
    BY <1>1, <1>4 DEF CallsOK
  <2>5. RequestInv'
    BY <1>1, <2>2, <2>4 DEF RequestInv
  <2>6. QED
    BY <1>1, <1>2, <2>3, <2>5 DEF SInv, RowInv
<1>5. QED
  BY <1>1, <1>3, <1>4

LEMMA EntersKeep ==
  ASSUME SInv, NEW r \in Requests, NEW os \in Seq(Stored), NEW c \in Entry, row' = row, DbOnly,
         Begin(r, os, <<c>>)
  PROVE  SInv'
<1>1. RowInv /\ ServersOK /\ CallsOK /\ RequestInv
  BY DEF SInv
<1>2. Enters(os, <<c>>)
  BY DEF Enters
<1>3. CallsOK' /\ RequestInv'
  BY <1>1, <1>2, Continues DEF Begin
<1>4. QED
  BY <1>1, <1>3, ServersQuiet DEF SInv, RowInv

LEMMA StartsKeep ==
  ASSUME SInv, NEW r \in Requests, StartRequest(r) PROVE SInv'
<1>1. /\ row # NoRow => row \in Stored
      /\ RowInv /\ ServersOK
  BY DEF SInv, RowInv
<1>2. CASE StartNew(r)
  BY <1>2, StartNewKeeps
<1>3. CASE \E s \in Aps : Report(r, s)
  BY <1>3, ReportKeeps
<1>4. CASE StartResume(r)
  <2>1. Plain("reload") \in Entry
    BY DEF Plain, Entry, Call
  <2>2. row # NoRow /\ <<row>> \in Seq(Stored) /\ row' = row /\ DbOnly
        /\ Begin(r, <<row>>, <<Plain("reload")>>)
    BY <1>1, <1>4 DEF StartResume
  <2>3. QED
    BY <2>1, <2>2, EntersKeep
<1>5. CASE StartPurge(r)
  BY <1>1, <1>5, Loads, CronCalls DEF StartPurge
<1>6. CASE Logout(r)
  <2>1. PICK st \in {"disconnected", "wait_destroy"} :
          Begin(r, <<SetStatus(row, st).obj>>, SetStatus(row, st).next)
    BY <1>6 DEF Logout
  <2>2. row # NoRow /\ row' = row /\ DbOnly
    BY <1>6 DEF Logout
  <2>3. SetStatus(row, st).obj \in Stored /\ SetStatus(row, st).next \in Seq(Flat)
    BY <1>1, <2>2, SetStatusKeeps DEF Status
  <2>4. QED
    BY <2>1, <2>2, <2>3, Loads
<1>7. CASE Kill(r)
  <2>1. OrderAll \in Flat
    BY FlatCalls
  <2>2. <<OrderAll>> \in Seq(Flat)
    BY <2>1, OneCall
  <2>3. QED
    BY <1>1, <1>7, <2>2, Loads DEF Kill
<1>8. CASE AdminDisconnect(r)
  <2>1. Disconnect(IF Desktop THEN {Main} ELSE Aps, TRUE) \in Flat
    BY FlatCalls, SMSessionAssumption
  <2>2. <<Disconnect(IF Desktop THEN {Main} ELSE Aps, TRUE)>> \in Seq(Flat)
    BY <2>1, OneCall
  <2>3. QED
    BY <1>1, <1>8, <2>2, Loads DEF AdminDisconnect
<1>9. CASE ClientPoll(r)
  <2>1. GetStatus(Aps) \in Flat
    BY FlatCalls
  <2>2. <<GetStatus(Aps)>> \in Seq(Flat)
    BY <2>1
  <2>3. QED
    BY <1>1, <1>9, <2>2, Loads DEF ClientPoll
<1>10. CASE CronStart(r)
  <2>1. Cron(1) \in Flat
    BY FlatCalls
  <2>2. <<Cron(1)>> \in Seq(Flat)
    BY <2>1
  <2>3. QED
    BY <1>1, <1>10, <2>2, Loads DEF CronStart
<1>11. ASSUME NEW s \in Aps, Monitoring(r, s) PROVE SInv'
  <2>1. Answer(aps[s]) \in Status
    BY <1>1 DEF ServersOK, Answer, ApsStatus, Status
  <2>2. Monitored(s, Answer(aps[s])) \in Entry
    BY <2>1 DEF Monitored, Entry, Call
  <2>3. <<>> \in Seq(Stored)
    BY EmptySeq
  <2>4. QED
    BY <1>11, <2>2, <2>3, EntersKeep DEF Monitoring
<1>12. ASSUME NEW s \in Aps, AdminRemove(r, s) PROVE SInv'
  <2>1. Remove(s) \in Entry
    BY DEF Remove, Entry, Call
  <2>2. <<>> \in Seq(Stored)
    BY EmptySeq
  <2>3. QED
    BY <1>12, <2>1, <2>2, EntersKeep DEF AdminRemove
<1>13. QED
  BY <1>2, <1>3, <1>4, <1>5, <1>6, <1>7, <1>8, <1>9, <1>10, <1>11, <1>12
     DEF StartRequest, ClientWait

\* A server changes what it has, and says so.
LEMMA ServerKeeps ==
  ASSUME SInv, NEW s \in Aps, Server(s) PROVE SInv'
<1>1. RowInv /\ ServersOK /\ CallsOK /\ RequestInv
  BY DEF SInv
<1>2. /\ UNCHANGED <<row, born, calls, objs, reporter, srvdb>>
      /\ \/ UNCHANGED aps /\ report' = [report EXCEPT ![s] = NoReport]
         \/ \E to \in ApsStatus, said \in Status :
              aps' = [aps EXCEPT ![s] = to] /\ report' = [report EXCEPT ![s] = said]
  BY DEF Server, Created, CreateFailed, CreateEnded, LogsIn, Disconnects, LogsOff, Destroyed,
         Change, LoseReport, ApsStatus, Status
<1>3. ServersOK'
  BY <1>1, <1>2 DEF ServersOK
<1>4. QED
  BY <1>1, <1>2, <1>3, Quiet DEF SInv, RowInv
-----------------------------------------------------------------------------
(* The theorems.                                                           *)

LEMMA SessionInit == Init => SInv
<1> SUFFICES ASSUME Init PROVE SInv
  OBVIOUS
<1>1. RowInv /\ ServersOK /\ CallsOK
  BY DEF Init, RowInv, ServersOK, CallsOK, ApsStatus
<1>2. RequestInv
  BY Ends DEF Init, RequestInv
<1>3. QED
  BY <1>1, <1>2 DEF SInv

LEMMA SessionNext == SInv /\ [Next]_vars => SInv'
<1> SUFFICES ASSUME SInv, [Next]_vars PROVE SInv'
  OBVIOUS
<1>1. ASSUME NEW r \in Requests, Do(r) PROVE SInv'
  BY <1>1, SetServerStatusKeeps, WritesKeep, KillKeeps, NotReadyKeeps, OrderDeletionKeeps,
     GetStatusKeeps, CreateKeeps, EntryKeeps, CronKeeps, DisconnectKeeps, RemoveKeeps DEF Do
<1>2. ASSUME NEW r \in Requests, StartRequest(r) PROVE SInv'
  BY <1>2, StartsKeep
<1>3. ASSUME NEW s \in Aps, Server(s) PROVE SInv'
  BY <1>3, ServerKeeps
<1>4. CASE UNCHANGED vars
  BY <1>4, Quiet DEF vars, SInv, RowInv, ServersOK
<1>5. QED
  BY <1>1, <1>2, <1>3, <1>4 DEF Next

LEMMA SessionTypes == SInv => TypeOK
<1> SUFFICES ASSUME SInv PROVE TypeOK
  OBVIOUS
<1>1. row \in Session \cup {NoRow}
  BY DEF SInv, RowInv, Stored
<1>2. ASSUME NEW r \in Requests PROVE calls[r] \in Seq(Call) /\ objs[r] \in Seq(Session)
  <2>1. Work \subseteq Call /\ Entry \subseteq Call /\ Stored \subseteq Session
    BY DEF Work, Entry, Stored
  <2>2. objs[r] \in Seq(Stored) /\ (calls[r] \in Seq(Work) \/ calls[r] \in Seq(Entry))
    BY DEF SInv, RequestInv, Fits, Enters, Runs
  <2>3. QED
    BY <2>1, <2>2, SeqMonotonic
<1>3. calls \in [Requests -> Seq(Call)] /\ objs \in [Requests -> Seq(Session)]
  BY <1>2 DEF SInv, CallsOK
<1>4. QED
  BY <1>1, <1>3 DEF TypeOK, SInv, CallsOK, ServersOK

LEMMA SessionInv == Spec => []SInv
<1>1. QED
  BY SessionInit, SessionNext, PTL DEF Spec

\* Every state is well typed, for any servers and requests: in particular no
\* call of a request finds its stack of objects empty, however many servers
\* fail inside one another's queries.
THEOREM SessionTypesSafe == Spec => []TypeOK
<1>1. QED
  BY SessionInv, SessionTypes, PTL
-----------------------------------------------------------------------------
(* What the row, the copies of it and the calls say of the servers: that a *)
(* server is "ready" only of those of a set R, that it is "destroyed" only *)
(* of those of a set D.                                                    *)

SaidObj(R, D) ==
  {o \in Session : /\ \A s \in Aps : /\ o.srv[s] = "ready" => s \in R
                                     /\ o.srv[s] = "destroyed" => s \in D
                   /\ o.status = "ready" => Aps \subseteq R}
SaidCall(R, D) ==
  {c \in Call : /\ c.op = "setServerStatus" => /\ c.st = "ready" => c.srv \in R
                                               /\ c.st = "destroyed" => c.srv \in D
                /\ c.op = "monitored" => /\ c.st = "ready" => c.srv \in R
                                         /\ c.st \in {"unknown", "destroyed"} => c.srv \in D
                                         /\ c.st # "destroying"
                /\ c.op = "reload" => Aps \subseteq R
                /\ c.op = "commit" => (c.st = "ready" => Aps \subseteq R)}
Said(R, D) ==
  /\ row \in SaidObj(R, D) \cup {NoRow}
  /\ \A r \in Requests : calls[r] \in Seq(SaidCall(R, D)) /\ objs[r] \in Seq(SaidObj(R, D))
  /\ \A s \in Aps : /\ report[s] = "ready" => s \in R
                    /\ report[s] = "destroyed" => s \in D
                    /\ report[s] # "destroying"

\* R and D hold the servers that may say so after a step.
Truth(R, D) ==
  \A s \in Aps : /\ aps'[s] \notin {"none", "init"} => s \in R
                 /\ srvdb'[s] = "broken" \/ aps'[s] \notin Live \cup {"none"} => s \in D
NoneIn(D) == \A s \in Aps : aps[s] = "none" => s \in D

LEMMA SaidCalls ==
  ASSUME NEW R, NEW D
  PROVE  /\ \A s \in Aps, st \in Status :
              (st = "ready" => s \in R) /\ (st = "destroyed" => s \in D)
                => SetServerStatus(s, st) \in SaidCall(R, D)
         /\ \A st \in Status : (st = "ready" => Aps \subseteq R) => Commit(st) \in SaidCall(R, D)
         /\ \A todo \in SUBSET Aps, n \in Nat, b \in BOOLEAN :
              OrderDeletion(todo, n, b) \in SaidCall(R, D)
         /\ \A todo \in SUBSET Aps : GetStatus(todo) \in SaidCall(R, D) /\ Create(todo) \in SaidCall(R, D)
         /\ \A todo \in SUBSET Aps, ok \in BOOLEAN : Disconnect(todo, ok) \in SaidCall(R, D)
         /\ \A k \in Nat : Cron(k) \in SaidCall(R, D)
         /\ OrderAll \in SaidCall(R, D)
         /\ \A s \in Aps : Remove(s) \in SaidCall(R, D)
         /\ \A name \in {"purge", "delete", "save", "kill", "notReady", "purgeIfDead", "resumed"} :
              Plain(name) \in SaidCall(R, D)
<1>1. \A s \in Aps, st \in Status :
        (st = "ready" => s \in R) /\ (st = "destroyed" => s \in D)
          => SetServerStatus(s, st) \in SaidCall(R, D)
  BY DEF SetServerStatus, SaidCall, Call
<1>2. \A st \in Status : (st = "ready" => Aps \subseteq R) => Commit(st) \in SaidCall(R, D)
  BY DEF Commit, SaidCall, Call
<1>3. \A todo \in SUBSET Aps, n \in Nat, b \in BOOLEAN : OrderDeletion(todo, n, b) \in SaidCall(R, D)
  BY DEF OrderDeletion, SaidCall, Call
<1>4. \A todo \in SUBSET Aps : GetStatus(todo) \in SaidCall(R, D) /\ Create(todo) \in SaidCall(R, D)
  BY DEF GetStatus, Create, SaidCall, Call
<1>5. \A todo \in SUBSET Aps, ok \in BOOLEAN : Disconnect(todo, ok) \in SaidCall(R, D)
  BY DEF Disconnect, SaidCall, Call
<1>6. \A k \in Nat : Cron(k) \in SaidCall(R, D)
  BY DEF Cron, SaidCall, Call
<1>7. \A name \in {"purge", "delete", "save", "kill", "notReady", "purgeIfDead", "resumed"} :
        Plain(name) \in SaidCall(R, D)
  BY DEF Plain, SaidCall, Call
<1>8. \A s \in Aps : Remove(s) \in SaidCall(R, D)
  BY DEF Remove, SaidCall, Call
<1>9. OrderAll \in SaidCall(R, D)
  BY <1>3 DEF OrderAll
<1>10. QED
  BY <1>1, <1>2, <1>3, <1>4, <1>5, <1>6, <1>7, <1>8, <1>9

LEMMA SaidDown == ASSUME NEW R, NEW D PROVE OnDown \in Seq(SaidCall(R, D))
<1>1. /\ Plain("kill") \in SaidCall(R, D) /\ Plain("delete") \in SaidCall(R, D)
      /\ Plain("notReady") \in SaidCall(R, D)
  BY SaidCalls
<1>2. QED
  BY <1>1 DEF OnDown

\* What setStatus does: it orders the end of the session, deletes the row, saves
\* the status, or nothing.
LEMMA SetStatusAsks ==
  ASSUME NEW o, NEW st
  PROVE  \/ /\ SetStatus(o, st).obj = [o EXCEPT !.stop = TRUE]
            /\ SetStatus(o, st).next = <<OrderDeletion(Aps, 0, TRUE)>>
            /\ st # "destroyed"
         \/ /\ SetStatus(o, st).obj = o
            /\ \/ SetStatus(o, st).next = <<>>
               \/ SetStatus(o, st).next = <<Plain("purge")>> /\ st = "destroyed"
               \/ /\ SetStatus(o, st).next = <<Commit(st)>>
                  /\ st \notin {"wait_destroy", "destroyed"} /\ ~Refused(o, st)
<1>1. CASE Refused(o, st)
  BY <1>1 DEF SetStatus, Then
<1>2. CASE ~Refused(o, st) /\ (st = "wait_destroy" \/ (st = "disconnected" /\ ~Persistent))
  <2>1. SetStatus(o, st) = WaitDestroy(o)
    BY <1>2 DEF SetStatus
  <2>2. QED
    BY <1>2, <2>1, WaitDestroyFields, Zenon
<1>3. CASE ~Refused(o, st) /\ st = "destroyed"
  BY <1>3 DEF SetStatus, PurgeRow, Then
<1>4. CASE /\ ~Refused(o, st) /\ st \notin {"wait_destroy", "destroyed"}
           /\ ~(st = "disconnected" /\ ~Persistent)
  <2>1. SetStatus(o, st) = Then(o, <<>>) \/ SetStatus(o, st) = Then(o, <<Commit(st)>>)
    BY <1>4, SMSessionAssumption DEF SetStatus
  <2>2. QED
    <3>1. /\ SetStatus(o, st).obj = o
          /\ SetStatus(o, st).next = <<>> \/ SetStatus(o, st).next = <<Commit(st)>>
      BY <2>1, ThenFields
    <3>2. QED
      BY <1>4, <3>1, Zenon
<1>5. QED
  BY <1>1, <1>2, <1>3, <1>4

\* Session::setStatus, told a status that is true of every server.
LEMMA SaidSetStatus ==
  ASSUME NEW R, NEW D, NEW o \in SaidObj(R, D), NEW st \in Status,
         st = "ready" => Aps \subseteq R
  PROVE  /\ SetStatus(o, st).obj \in SaidObj(R, D)
         /\ SetStatus(o, st).next \in Seq(SaidCall(R, D))
<1>1. [o EXCEPT !.stop = TRUE] \in SaidObj(R, D)
  BY DEF SaidObj, Session
<1>2. /\ OrderDeletion(Aps, 0, TRUE) \in SaidCall(R, D) /\ Plain("purge") \in SaidCall(R, D)
      /\ Commit(st) \in SaidCall(R, D) /\ <<>> \in Seq(SaidCall(R, D))
  BY SaidCalls, EmptySeq
<1>3. SetStatus(o, st).obj \in {o, [o EXCEPT !.stop = TRUE]}
  BY SetStatusAsks
<1>4. \/ SetStatus(o, st).next = <<>> \/ SetStatus(o, st).next = <<OrderDeletion(Aps, 0, TRUE)>>
      \/ SetStatus(o, st).next = <<Plain("purge")>> \/ SetStatus(o, st).next = <<Commit(st)>>
  BY SetStatusAsks
<1>5. \A c \in SaidCall(R, D) : <<c>> \in Seq(SaidCall(R, D))
  OBVIOUS
<1>6. SetStatus(o, st).next \in Seq(SaidCall(R, D))
  <2> HIDE DEF SaidCall
  <2>1. QED
    BY <1>2, <1>4, <1>5
<1>7. QED
  BY <1>1, <1>3, <1>6

LEMMA SaidReact ==
  ASSUME NEW R, NEW D, NEW o \in SaidObj(R, D), NEW s \in Aps, NEW st \in Status,
         o.srv[s] = st
  PROVE  /\ React(o, s, st).obj \in SaidObj(R, D)
         /\ React(o, s, st).next \in Seq(SaidCall(R, D))
<1>1. Then(o, <<>>).obj \in SaidObj(R, D) /\ Then(o, <<>>).next \in Seq(SaidCall(R, D))
  BY EmptySeq DEF Then
<1>2. /\ SetStatus(o, "wait_destroy").obj \in SaidObj(R, D)
      /\ SetStatus(o, "wait_destroy").next \in Seq(SaidCall(R, D))
  BY SaidSetStatus DEF Status
<1>3. CASE st = "ready" /\ ~AllOthers(o, s, st)
  <2>1. React(o, s, st) = Then(o, <<>>)
    BY <1>3 DEF React
  <2>2. QED
    BY <1>1, <2>1
<1>4. CASE ~(st = "ready" /\ ~AllOthers(o, s, st))
  <2>1. st = "ready" => Aps \subseteq R
    BY <1>4 DEF SaidObj, AllOthers
  <2>2. SetStatus(o, st).obj \in SaidObj(R, D) /\ SetStatus(o, st).next \in Seq(SaidCall(R, D))
    BY <2>1, SaidSetStatus
  <2>3. React(o, s, st) \in {SetStatus(o, st), SetStatus(o, "wait_destroy"), Then(o, <<>>)}
    BY DEF React
  <2>4. QED
    BY <1>1, <1>2, <2>2, <2>3
<1>5. QED
  BY <1>3, <1>4

\* A request that goes on, with calls and objects of the same kinds.
LEMMA ListsGoOn ==
  ASSUME CallsOK, NEW O, NEW K, \A q \in Requests : calls[q] \in Seq(K) /\ objs[q] \in Seq(O),
         NEW r \in Requests, NEW os \in Seq(O), NEW cs \in Seq(K), Continue(r, os, cs)
  PROVE  \A q \in Requests : calls'[q] \in Seq(K) /\ objs'[q] \in Seq(O)
<1>1. /\ calls'[r] = cs /\ objs'[r] \in {<<>>, os}
      /\ \A q \in Requests \ {r} : calls'[q] = calls[q] /\ objs'[q] = objs[q]
  BY DEF Continue, CallsOK
<1>2. <<>> \in Seq(O)
  BY EmptySeq
<1>3. QED
  BY <1>1, <1>2

\* The first call of a request, and the object it is about.
LEMMA ListsHold ==
  ASSUME SInv, NEW O, NEW K, NEW r \in Requests, calls[r] \in Seq(K), objs[r] \in Seq(O),
         calls[r] # <<>>
  PROVE  /\ Head(calls[r]) \in K /\ Head(calls[r]) \in Call /\ Tail(calls[r]) \in Seq(K)
         /\ Head(calls[r]).op \notin {"monitored", "reload", "remove"} =>
              /\ objs[r] # <<>> /\ Obj(r) \in O /\ Tail(objs[r]) \in Seq(O)
              /\ \A o \in O : With(r, o) \in Seq(O)
<1>1. Head(calls[r]) \in K /\ Tail(calls[r]) \in Seq(K)
  BY HeadTailProperties
<1>2. Head(calls[r]) \in Call
  <2>1. calls[r] \in Seq(Call)
    BY SessionTypes DEF TypeOK
  <2>2. QED
    BY <2>1, HeadTailProperties
<1>3. ASSUME Head(calls[r]).op \notin {"monitored", "reload", "remove"}
      PROVE  /\ objs[r] # <<>> /\ Obj(r) \in O /\ Tail(objs[r]) \in Seq(O)
             /\ \A o \in O : With(r, o) \in Seq(O)
  <2>1. Len(objs[r]) >= 1
    BY <1>3, Running DEF SInv
  <2>2. objs[r] # <<>>
    BY <2>1, EmptySeq
  <2>3. Obj(r) \in O /\ Tail(objs[r]) \in Seq(O)
    BY <2>2, HeadTailProperties DEF Obj
  <2>4. ASSUME NEW o \in O PROVE With(r, o) \in Seq(O)
    <3>1. <<o>> \in Seq(O)
      OBVIOUS
    <3>2. QED
      BY <2>3, <3>1, ConcatProperties DEF With
  <2>5. QED
    BY <2>2, <2>3, <2>4
<1>4. QED
  BY <1>1, <1>2, <1>3

LEMMA SaidRequest ==
  ASSUME SInv, NEW R, NEW D, Said(R, D), NEW r \in Requests, calls[r] # <<>>
  PROVE  /\ Head(calls[r]) \in SaidCall(R, D) /\ Head(calls[r]) \in Call
         /\ Tail(calls[r]) \in Seq(SaidCall(R, D)) /\ objs[r] \in Seq(SaidObj(R, D))
         /\ Head(calls[r]).op \notin {"monitored", "reload", "remove"} =>
              /\ Obj(r) \in SaidObj(R, D) /\ Tail(objs[r]) \in Seq(SaidObj(R, D))
              /\ \A o \in SaidObj(R, D) : With(r, o) \in Seq(SaidObj(R, D))
<1>1. calls[r] \in Seq(SaidCall(R, D)) /\ objs[r] \in Seq(SaidObj(R, D))
  BY DEF Said
<1>2. QED
  BY <1>1, ListsHold

LEMMA SaidGoesOn ==
  ASSUME SInv, NEW R, NEW D, Said(R, D), NEW r \in Requests,
         NEW os \in Seq(SaidObj(R, D)), NEW cs \in Seq(SaidCall(R, D)), Continue(r, os, cs),
         row' \in SaidObj(R, D) \cup {NoRow}, report' = report
  PROVE  Said(R, D)'
<1>1. \A q \in Requests : calls'[q] \in Seq(SaidCall(R, D)) /\ objs'[q] \in Seq(SaidObj(R, D))
  BY ListsGoOn DEF Said, SInv
<1>2. QED
  BY <1>1 DEF Said

LEMMA SaidEnds == ASSUME NEW R, NEW D PROVE <<>> \in Seq(SaidObj(R, D)) /\ <<>> \in Seq(SaidCall(R, D))
BY EmptySeq

LEMMA SaidServerStatus ==
  ASSUME SInv, NEW R, NEW D, Said(R, D), NEW r \in Requests, DoSetServerStatus(r)
  PROVE  Said(R, D)'
<1> DEFINE c == Head(calls[r])
           o == Obj(r)
           n == [o EXCEPT !.srv[c.srv] = c.st]
           p == React(n, c.srv, c.st)
           rest == Tail(calls[r])
<1>1. calls[r] # <<>> /\ c.op = "setServerStatus" /\ report' = report
  BY DEF DoSetServerStatus, Doing, DbOnly
<1>2. /\ c \in SaidCall(R, D) /\ c \in Call /\ rest \in Seq(SaidCall(R, D))
      /\ objs[r] \in Seq(SaidObj(R, D)) /\ o \in SaidObj(R, D)
      /\ \A x \in SaidObj(R, D) : With(r, x) \in Seq(SaidObj(R, D))
  BY <1>1, SaidRequest
<1>3. c.srv \in Aps /\ c.st \in Status
  BY <1>1, <1>2, CallFields
<1>4. n \in SaidObj(R, D) /\ n.srv[c.srv] = c.st
  BY <1>1, <1>2, <1>3 DEF SaidObj, SaidCall, Session
<1>5. \/ row' = o /\ Continue(r, objs[r], rest)
      \/ row' = row /\ Continue(r, objs[r], rest)
      \/ row' = n /\ Continue(r, With(r, p.obj), p.next \o rest)
  BY DEF DoSetServerStatus, Go
<1> HIDE DEF c, o, n, rest
<1>6. p.obj \in SaidObj(R, D) /\ p.next \in Seq(SaidCall(R, D))
  BY <1>3, <1>4, SaidReact
<1> HIDE DEF p
<1>7. p.next \o rest \in Seq(SaidCall(R, D))
  BY <1>2, <1>6, ConcatProperties
<1>8. row \in SaidObj(R, D) \cup {NoRow}
  BY DEF Said
<1>9. QED
  BY <1>1, <1>2, <1>4, <1>5, <1>6, <1>7, <1>8, SaidGoesOn

LEMMA SaidWrites ==
  ASSUME SInv, NEW R, NEW D, Said(R, D), NEW r \in Requests,
         DoCommit(r) \/ DoSave(r) \/ DoDelete(r) \/ DoResumed(r) \/ DoNotReady(r)
  PROVE  Said(R, D)'
<1> DEFINE c == Head(calls[r])
           o == Obj(r)
           n == [o EXCEPT !.status = c.st]
           rest == Tail(calls[r])
<1>1. /\ calls[r] # <<>> /\ c.op \in {"commit", "save", "delete", "purge", "resumed", "notReady"}
      /\ report' = report
  BY DEF DoCommit, DoSave, DoDelete, DoResumed, DoNotReady, Doing, DbOnly
<1>2. /\ c \in SaidCall(R, D) /\ c \in Call /\ rest \in Seq(SaidCall(R, D))
      /\ objs[r] \in Seq(SaidObj(R, D)) /\ o \in SaidObj(R, D) /\ Tail(objs[r]) \in Seq(SaidObj(R, D))
      /\ \A x \in SaidObj(R, D) : With(r, x) \in Seq(SaidObj(R, D))
  BY <1>1, SaidRequest
<1>3. [o EXCEPT !.stop = FALSE] \in SaidObj(R, D)
  BY <1>2 DEF SaidObj, Session
<1>4. c.op = "commit" => n \in SaidObj(R, D)
  <2>1. c.op = "commit" => c.st \in Status
    BY <1>2, CallFields
  <2>2. QED
    BY <1>2, <2>1 DEF SaidObj, SaidCall, Session
<1>5. \/ /\ c.op = "commit" /\ row' = n /\ Continue(r, With(r, n), rest)
      \/ /\ row' \in {o, NoRow, [o EXCEPT !.stop = FALSE]}
         /\ Continue(r, objs[r], rest) \/ Continue(r, Tail(objs[r]), rest)
  BY DEF DoCommit, DoSave, DoDelete, DoResumed, DoNotReady, Doing
<1> HIDE DEF c, o, n, rest
<1>6. QED
  BY <1>1, <1>2, <1>3, <1>4, <1>5, SaidGoesOn

LEMMA SaidKill ==
  ASSUME SInv, NEW R, NEW D, Said(R, D), NEW r \in Requests, DoKill(r)
  PROVE  Said(R, D)'
<1> DEFINE o == IF row = NoRow THEN Obj(r) ELSE row
           p == IF row = NoRow THEN Then(o, <<>>) ELSE SetStatus(o, "wait_destroy")
           rest == IF row = NoRow THEN Tail(Tail(calls[r])) ELSE Tail(calls[r])
           os == <<p.obj>> \o objs[r]
<1>1. /\ calls[r] # <<>> /\ Head(calls[r]).op = "kill" /\ row' = row /\ report' = report
      /\ Continue(r, os, p.next \o rest)
  BY DEF DoKill, Doing, DbOnly
<1>2. /\ objs[r] \in Seq(SaidObj(R, D)) /\ Obj(r) \in SaidObj(R, D)
      /\ Tail(calls[r]) \in Seq(SaidCall(R, D))
  BY <1>1, SaidRequest
<1>3. Tail(Tail(calls[r])) \in Seq(SaidCall(R, D))
  <2>1. Tail(calls[r]) # <<>>
    BY <1>1, Running DEF SInv
  <2>2. QED
    BY <1>2, <2>1, HeadTailProperties
<1>4. o \in SaidObj(R, D) /\ row' \in SaidObj(R, D) \cup {NoRow}
  BY <1>1, <1>2 DEF Said
<1>5. rest \in Seq(SaidCall(R, D))
  BY <1>2, <1>3
<1> HIDE DEF o, rest
<1>6. p.obj \in SaidObj(R, D) /\ p.next \in Seq(SaidCall(R, D))
  <2>1. /\ SetStatus(o, "wait_destroy").obj \in SaidObj(R, D)
        /\ SetStatus(o, "wait_destroy").next \in Seq(SaidCall(R, D))
    BY <1>4, SaidSetStatus DEF Status
  <2>2. Then(o, <<>>).obj \in SaidObj(R, D) /\ Then(o, <<>>).next \in Seq(SaidCall(R, D))
    BY <1>4, EmptySeq DEF Then
  <2>3. QED
    BY <2>1, <2>2
<1> HIDE DEF p
<1>7. os \in Seq(SaidObj(R, D))
  <2>1. <<p.obj>> \in Seq(SaidObj(R, D))
    BY <1>6
  <2>2. QED
    BY <1>2, <2>1, ConcatProperties
<1> HIDE DEF os
<1>8. p.next \o rest \in Seq(SaidCall(R, D))
  BY <1>5, <1>6, ConcatProperties
<1>9. QED
  BY <1>1, <1>4, <1>7, <1>8, SaidGoesOn

LEMMA SaidOrderDeletion ==
  ASSUME SInv, NEW R, NEW D, Said(R, D), Truth(R, D), NoneIn(D), NEW r \in Requests, DoOrderDeletion(r)
  PROVE  Said(R, D)'
<1> DEFINE c == Head(calls[r])
           rest == Tail(calls[r])
           ended(s) == <<SetServerStatus(s, "destroyed"),
                         OrderDeletion(c.todo \ {s}, c.n + 1, c.saves)>>
           ordered(s) == <<SetServerStatus(s, "destroying"),
                           OrderDeletion(c.todo \ {s}, c.n, c.saves)>>
           failed == IF c.saves THEN <<Commit("wait_destroy")>> ELSE <<>>
           st == IF c.n = Cardinality(Aps) THEN "destroyed" ELSE "destroying"
           p == SetStatus(Obj(r), st)
<1>1. calls[r] # <<>> /\ c.op = "orderDeletion" /\ row' = row /\ report' = report
  BY DEF DoOrderDeletion, Doing
<1>2. \/ Continue(r, With(r, p.obj), p.next \o rest)
      \/ \E s \in c.todo :
           \/ Continue(r, objs[r], failed \o rest)
           \/ /\ srvdb[s] = "broken" /\ srvdb' = srvdb
              /\ Continue(r, objs[r], ended(s) \o rest)
           \/ /\ ~Accepts(aps[s]) /\ aps' = [aps EXCEPT ![s] = AfterOrder(@)]
              /\ Continue(r, objs[r], ended(s) \o rest)
           \/ Continue(r, objs[r], ordered(s) \o rest)
           \/ /\ srvdb' = [srvdb EXCEPT ![s] = "broken"]
              /\ Continue(r, objs[r], OnDown \o (ended(s) \o rest))
  BY DEF DoOrderDeletion, Go
<1>3. /\ c \in Call /\ rest \in Seq(SaidCall(R, D)) /\ objs[r] \in Seq(SaidObj(R, D))
      /\ Obj(r) \in SaidObj(R, D) /\ \A x \in SaidObj(R, D) : With(r, x) \in Seq(SaidObj(R, D))
  BY <1>1, SaidRequest
<1>4. c.todo \subseteq Aps /\ c.n \in Nat /\ c.saves \in BOOLEAN
  BY <1>1, <1>3, CallFields
<1>5. p.obj \in SaidObj(R, D) /\ p.next \in Seq(SaidCall(R, D))
  BY <1>3, SaidSetStatus DEF Status
<1>6. ASSUME NEW s \in c.todo
      PROVE  /\ ordered(s) \in Seq(SaidCall(R, D))
             /\ s \in D => ended(s) \in Seq(SaidCall(R, D))
  <2>1. c.todo \ {s} \in SUBSET Aps /\ c.n + 1 \in Nat /\ s \in Aps
        /\ {"destroyed", "destroying"} \subseteq Status
    BY <1>4 DEF Status
  <2>2. /\ s \in D => SetServerStatus(s, "destroyed") \in SaidCall(R, D)
        /\ SetServerStatus(s, "destroying") \in SaidCall(R, D)
        /\ OrderDeletion(c.todo \ {s}, c.n + 1, c.saves) \in SaidCall(R, D)
        /\ OrderDeletion(c.todo \ {s}, c.n, c.saves) \in SaidCall(R, D)
    BY <1>4, <2>1, SaidCalls
  <2> HIDE DEF SaidCall
  <2>3. QED
    BY <2>2
<1>7. ServersOK
  BY DEF SInv
<1>8. ASSUME NEW s \in c.todo, ~Accepts(aps[s]), aps' = [aps EXCEPT ![s] = AfterOrder(@)]
      PROVE  s \in D
  <2>1. s \in Aps /\ aps[s] \in ApsStatus
    BY <1>4, <1>7 DEF ServersOK
  <2>2. aps'[s] = AfterOrder(aps[s])
    BY <1>7, <1>8, <2>1 DEF ServersOK
  <2>3. aps[s] = "none" \/ AfterOrder(aps[s]) \notin Live \cup {"none"}
    BY <2>1 DEF AfterOrder, ApsStatus, Live
  <2>4. QED
    BY <2>1, <2>2, <2>3 DEF Truth, NoneIn
<1>9. ASSUME NEW s \in c.todo,
             srvdb' = [srvdb EXCEPT ![s] = "broken"] \/ (srvdb[s] = "broken" /\ srvdb' = srvdb)
      PROVE  s \in D
  BY <1>4, <1>7, <1>9 DEF ServersOK, Truth
<1>10. row' \in SaidObj(R, D) \cup {NoRow}
  BY <1>1 DEF Said
<1>11. failed \in Seq(SaidCall(R, D))
  <2>1. Commit("wait_destroy") \in SaidCall(R, D)
    BY SaidCalls DEF Status
  <2> HIDE DEF SaidCall
  <2>2. <<Commit("wait_destroy")>> \in Seq(SaidCall(R, D)) /\ <<>> \in Seq(SaidCall(R, D))
    BY <2>1, EmptySeq
  <2>3. QED
    BY <2>2
<1> HIDE DEF c, rest, ended, ordered, failed, p
<1>12. CASE Continue(r, objs[r], failed \o rest)
  <2>1. failed \o rest \in Seq(SaidCall(R, D))
    BY <1>3, <1>11, ConcatProperties
  <2>2. QED
    BY <1>1, <1>3, <1>10, <1>12, <2>1, SaidGoesOn
<1>13. CASE Continue(r, With(r, p.obj), p.next \o rest)
  <2>1. p.next \o rest \in Seq(SaidCall(R, D))
    BY <1>3, <1>5, ConcatProperties
  <2>2. QED
    BY <1>1, <1>3, <1>5, <1>10, <1>13, <2>1, SaidGoesOn
<1>14. ASSUME NEW s \in c.todo, Continue(r, objs[r], ordered(s) \o rest) PROVE Said(R, D)'
  <2>1. ordered(s) \o rest \in Seq(SaidCall(R, D))
    BY <1>3, <1>6, ConcatProperties
  <2>2. QED
    BY <1>1, <1>3, <1>10, <1>14, <2>1, SaidGoesOn
<1>15. ASSUME NEW s \in c.todo, s \in D,
              \/ Continue(r, objs[r], ended(s) \o rest)
              \/ Continue(r, objs[r], OnDown \o (ended(s) \o rest))
       PROVE  Said(R, D)'
  <2>1. ended(s) \o rest \in Seq(SaidCall(R, D))
    BY <1>3, <1>6, <1>15, ConcatProperties
  <2>2. OnDown \o (ended(s) \o rest) \in Seq(SaidCall(R, D))
    BY <2>1, SaidDown, ConcatProperties
  <2>3. QED
    BY <1>1, <1>3, <1>10, <1>15, <2>1, <2>2, SaidGoesOn
<1>16. QED
  BY <1>2, <1>8, <1>9, <1>13, <1>14, <1>15, <1>12

LEMMA SaidGetStatus ==
  ASSUME SInv, NEW R, NEW D, Said(R, D), Truth(R, D), NEW r \in Requests, DoGetStatus(r)
  PROVE  Said(R, D)'
<1> DEFINE c == Head(calls[r])
           rest == Tail(calls[r])
           heard(s, st) == <<SetServerStatus(s, st), GetStatus(c.todo \ {s})>>
<1>1. calls[r] # <<>> /\ c.op = "getStatus" /\ row' = row /\ report' = report /\ aps' = aps
  BY DEF DoGetStatus, Doing
<1>2. \/ Continue(r, objs[r], rest)
      \/ \E s \in c.todo :
           \/ Continue(r, objs[r], heard(s, "error") \o rest)
           \/ Continue(r, objs[r], heard(s, Answer(aps[s])) \o rest)
           \/ Continue(r, objs[r], OnDown \o (heard(s, "error") \o rest))
  BY DEF DoGetStatus, Heard
<1>3. c \in Call /\ rest \in Seq(SaidCall(R, D)) /\ objs[r] \in Seq(SaidObj(R, D))
  BY <1>1, SaidRequest
<1>4. c.todo \subseteq Aps
  BY <1>1, <1>3, CallFields
<1>5. ASSUME NEW s \in c.todo
      PROVE  /\ heard(s, "error") \in Seq(SaidCall(R, D))
             /\ heard(s, Answer(aps[s])) \in Seq(SaidCall(R, D))
  <2>1. s \in Aps /\ aps[s] \in ApsStatus
    BY <1>4 DEF SInv, ServersOK
  <2>2. /\ Answer(aps[s]) \in Status /\ Answer(aps[s]) # "destroyed"
        /\ Answer(aps[s]) = "ready" => s \in R
    BY <1>1, <2>1 DEF Answer, ApsStatus, Status, Truth
  <2>3. c.todo \ {s} \in SUBSET Aps /\ "error" \in Status
    BY <1>4 DEF Status
  <2>4. /\ SetServerStatus(s, "error") \in SaidCall(R, D)
        /\ SetServerStatus(s, Answer(aps[s])) \in SaidCall(R, D)
        /\ GetStatus(c.todo \ {s}) \in SaidCall(R, D)
    BY <2>1, <2>2, <2>3, SaidCalls
  <2> HIDE DEF SaidCall
  <2>5. QED
    BY <2>4
<1>6. row' \in SaidObj(R, D) \cup {NoRow}
  BY <1>1 DEF Said
<1> HIDE DEF c, rest, heard
<1>7. CASE Continue(r, objs[r], rest)
  BY <1>1, <1>3, <1>6, <1>7, SaidGoesOn
<1>8. ASSUME NEW s \in c.todo,
             \/ Continue(r, objs[r], heard(s, "error") \o rest)
             \/ Continue(r, objs[r], heard(s, Answer(aps[s])) \o rest)
             \/ Continue(r, objs[r], OnDown \o (heard(s, "error") \o rest))
      PROVE  Said(R, D)'
  <2>1. /\ heard(s, "error") \o rest \in Seq(SaidCall(R, D))
        /\ heard(s, Answer(aps[s])) \o rest \in Seq(SaidCall(R, D))
    BY <1>3, <1>5, ConcatProperties
  <2>2. OnDown \o (heard(s, "error") \o rest) \in Seq(SaidCall(R, D))
    BY <2>1, SaidDown, ConcatProperties
  <2>3. QED
    BY <1>1, <1>3, <1>6, <1>8, <2>1, <2>2, SaidGoesOn
<1>9. QED
  BY <1>2, <1>7, <1>8

LEMMA SaidCreate ==
  ASSUME SInv, NEW R, NEW D, Said(R, D), NEW r \in Requests, DoCreate(r)
  PROVE  Said(R, D)'
<1> DEFINE c == Head(calls[r])
           rest == Tail(calls[r])
<1>1. calls[r] # <<>> /\ c.op = "create" /\ row' = row /\ report' = report
  BY DEF DoCreate, Doing
<1>2. \/ Continue(r, objs[r], rest) \/ Continue(r, objs[r], <<>>)
      \/ \E s \in c.todo : Continue(r, objs[r], <<Create(c.todo \ {s})>> \o rest)
  <2>1. NextOf(c.todo) \subseteq c.todo
    BY DEF NextOf
  <2>2. QED
    BY <2>1 DEF DoCreate
<1>3. c \in Call /\ rest \in Seq(SaidCall(R, D)) /\ objs[r] \in Seq(SaidObj(R, D))
  BY <1>1, SaidRequest
<1>4. c.todo \subseteq Aps
  BY <1>1, <1>3, CallFields
<1>5. ASSUME NEW s \in c.todo PROVE <<Create(c.todo \ {s})>> \in Seq(SaidCall(R, D))
  <2>1. Create(c.todo \ {s}) \in SaidCall(R, D)
    BY <1>4, SaidCalls
  <2>2. QED
    BY <2>1
<1>6. row' \in SaidObj(R, D) \cup {NoRow}
  BY <1>1 DEF Said
<1> HIDE DEF c, rest
<1>7. CASE Continue(r, objs[r], rest) \/ Continue(r, objs[r], <<>>)
  BY <1>1, <1>3, <1>6, <1>7, SaidEnds, SaidGoesOn
<1>8. ASSUME NEW s \in c.todo, Continue(r, objs[r], <<Create(c.todo \ {s})>> \o rest)
      PROVE  Said(R, D)'
  <2>1. <<Create(c.todo \ {s})>> \o rest \in Seq(SaidCall(R, D))
    BY <1>3, <1>5, ConcatProperties
  <2>2. QED
    BY <1>1, <1>3, <1>6, <1>8, <2>1, SaidGoesOn
<1>9. QED
  BY <1>2, <1>7, <1>8

LEMMA SaidDisconnect ==
  ASSUME SInv, NEW R, NEW D, Said(R, D), NEW r \in Requests, DoDisconnect(r)
  PROVE  Said(R, D)'
<1> DEFINE c == Head(calls[r])
           rest == Tail(calls[r])
           asked(s, ok) == <<Disconnect(c.todo \ {s}, c.ok /\ ok)>>
           p == SetStatus(Obj(r), "disconnected")
<1>1. calls[r] # <<>> /\ c.op = "disconnect" /\ row' = row /\ report' = report
  BY DEF DoDisconnect, Doing
<1>2. \/ Continue(r, With(r, p.obj), p.next \o rest)
      \/ Continue(r, <<>>, <<>>)
      \/ \E s \in c.todo : \E ok \in BOOLEAN :
           \/ Continue(r, objs[r], asked(s, ok))
           \/ Continue(r, objs[r], OnDown \o asked(s, ok))
  <2>1. \A s : (srvdb[s] = "ready" /\ aps[s] = "logged") \in BOOLEAN
    OBVIOUS
  <2>2. QED
    BY <2>1 DEF DoDisconnect, Go
<1>3. /\ c \in Call /\ rest \in Seq(SaidCall(R, D)) /\ objs[r] \in Seq(SaidObj(R, D))
      /\ Obj(r) \in SaidObj(R, D) /\ \A x \in SaidObj(R, D) : With(r, x) \in Seq(SaidObj(R, D))
  BY <1>1, SaidRequest
<1>4. c.todo \subseteq Aps /\ c.ok \in BOOLEAN
  BY <1>1, <1>3, CallFields
<1>5. ASSUME NEW s \in c.todo, NEW ok \in BOOLEAN PROVE asked(s, ok) \in Seq(SaidCall(R, D))
  <2>1. (c.ok /\ ok) \in BOOLEAN
    BY <1>4
  <2>2. Disconnect(c.todo \ {s}, c.ok /\ ok) \in SaidCall(R, D)
    BY <1>4, <2>1, SaidCalls
  <2>3. QED
    BY <2>2
<1>6. p.obj \in SaidObj(R, D) /\ p.next \in Seq(SaidCall(R, D))
  BY <1>3, SaidSetStatus DEF Status
<1>7. row' \in SaidObj(R, D) \cup {NoRow}
  BY <1>1 DEF Said
<1> HIDE DEF c, rest, asked, p
<1>8. CASE Continue(r, With(r, p.obj), p.next \o rest)
  <2>1. p.next \o rest \in Seq(SaidCall(R, D))
    BY <1>3, <1>6, ConcatProperties
  <2>2. QED
    BY <1>1, <1>3, <1>6, <1>7, <1>8, <2>1, SaidGoesOn
<1>9. CASE Continue(r, <<>>, <<>>)
  BY <1>1, <1>7, <1>9, SaidEnds, SaidGoesOn
<1>10. ASSUME NEW s \in c.todo, NEW ok \in BOOLEAN,
              Continue(r, objs[r], asked(s, ok)) \/ Continue(r, objs[r], OnDown \o asked(s, ok))
       PROVE  Said(R, D)'
  <2>1. OnDown \o asked(s, ok) \in Seq(SaidCall(R, D))
    BY <1>5, SaidDown, ConcatProperties
  <2>2. QED
    BY <1>1, <1>3, <1>5, <1>7, <1>10, <2>1, SaidGoesOn
<1>11. QED
  BY <1>2, <1>8, <1>9, <1>10

\* A request that works on the row as it finds it.
LEMMA SaidOne ==
  ASSUME SInv, NEW R, NEW D, Said(R, D), NEW r \in Requests, NEW o \in SaidObj(R, D),
         NEW cs \in Seq(SaidCall(R, D)), Continue(r, <<o>>, cs), row' = row, report' = report
  PROVE  Said(R, D)'
<1>1. <<o>> \in Seq(SaidObj(R, D))
  OBVIOUS
<1>2. row' \in SaidObj(R, D) \cup {NoRow}
  BY DEF Said
<1>3. QED
  BY <1>1, <1>2, SaidGoesOn

LEMMA SaidEntry ==
  ASSUME SInv, NEW R, NEW D, Said(R, D), NEW r \in Requests, DoReload(r) \/ DoMonitored(r)
  PROVE  Said(R, D)'
<1>1. row # NoRow => row \in SaidObj(R, D)
  BY DEF Said
<1>2. row' = row /\ report' = report /\ row' \in SaidObj(R, D) \cup {NoRow}
  BY DEF DoReload, DoMonitored, DbOnly, Said
<1>3. CASE DoReload(r)
  <2> DEFINE p == SetStatus(row, "ready")
  <2>1. \/ Continue(r, <<>>, <<>>)
        \/ row # NoRow /\ Continue(r, <<p.obj>>, p.next \o <<Plain("resumed")>>)
    BY <1>3 DEF DoReload
  <2>2. Aps \subseteq R
    <3>1. calls[r] # <<>> /\ Head(calls[r]).op = "reload"
      BY <1>3 DEF DoReload, Doing
    <3>2. Head(calls[r]) \in SaidCall(R, D)
      BY <3>1, SaidRequest
    <3>3. QED
      BY <3>1, <3>2 DEF SaidCall
  <2>3. row # NoRow => p.obj \in SaidObj(R, D) /\ p.next \in Seq(SaidCall(R, D))
    BY <1>1, <2>2, SaidSetStatus DEF Status
  <2> HIDE DEF p
  <2>4. row # NoRow => p.next \o <<Plain("resumed")>> \in Seq(SaidCall(R, D))
    <3>1. Plain("resumed") \in SaidCall(R, D)
      BY SaidCalls
    <3>2. <<Plain("resumed")>> \in Seq(SaidCall(R, D))
      BY <3>1
    <3>3. QED
      BY <2>3, <3>2, ConcatProperties
  <2>5. QED
    BY <1>2, <2>1, <2>3, <2>4, SaidEnds, SaidGoesOn, SaidOne
<1>4. CASE DoMonitored(r)
  <2> DEFINE c == Head(calls[r])
             over == <<SetServerStatus(c.srv, "destroyed")>>
  <2>1. calls[r] # <<>> /\ c.op = "monitored"
    BY <1>4 DEF DoMonitored, Doing
  <2>2. c \in SaidCall(R, D) /\ c \in Call
    BY <2>1, SaidRequest
  <2>3. c.srv \in Aps /\ c.st \in Status
    BY <2>1, <2>2, CallFields
  <2>4. \/ Continue(r, <<>>, <<>>)
        \/ row # NoRow /\ c.st = "unknown" /\ Continue(r, <<row>>, over)
    BY <1>4 DEF DoMonitored
  <2>5. c.st = "unknown" => SetServerStatus(c.srv, "destroyed") \in SaidCall(R, D)
    <3>1. c.st = "unknown" => c.srv \in D
      BY <2>1, <2>2 DEF SaidCall
    <3>2. "destroyed" \in Status /\ "destroyed" # "ready"
      BY DEF Status
    <3> HIDE DEF c
    <3>3. QED
      BY <2>3, <3>1, <3>2, SaidCalls
  <2>6. c.st = "unknown" => over \in Seq(SaidCall(R, D))
    <3> HIDE DEF SaidCall
    <3>1. QED
      BY <2>5
  <2> HIDE DEF over
  <2>7. QED
    BY <1>1, <1>2, <2>4, <2>6, SaidEnds, SaidGoesOn, SaidOne
<1>5. QED
  BY <1>3, <1>4

LEMMA SaidCronCalls ==
  ASSUME NEW R, NEW D
  PROVE  /\ Purge \in Seq(SaidCall(R, D))
         /\ \A k \in 1 .. 5 : CronWork(k) \o <<Cron(k + 1)>> \in Seq(SaidCall(R, D))
<1>1. Cardinality(Aps) \in Nat
  BY SMSessionAssumption, FS_CardinalityType
<1>2. /\ OrderDeletion({}, Cardinality(Aps), FALSE) \in SaidCall(R, D)
      /\ OrderAll \in SaidCall(R, D) /\ GetStatus(Aps) \in SaidCall(R, D)
      /\ Plain("purgeIfDead") \in SaidCall(R, D) /\ Plain("delete") \in SaidCall(R, D)
  BY <1>1, SaidCalls
<1> HIDE DEF SaidCall
<1>3. Purge \in Seq(SaidCall(R, D))
  BY <1>2, OneCall DEF Purge
<1>4. ASSUME NEW k \in 1 .. 5 PROVE CronWork(k) \o <<Cron(k + 1)>> \in Seq(SaidCall(R, D))
  <2>1. <<Plain("delete")>> \in Seq(SaidCall(R, D))
        /\ <<OrderAll>> \in Seq(SaidCall(R, D))
    BY <1>2, OneCall
  <2>2. <<GetStatus(Aps), Plain("purgeIfDead")>> \in Seq(SaidCall(R, D))
    BY <1>2
  <2>3. Purge \o <<Plain("delete")>> \in Seq(SaidCall(R, D))
    BY <1>3, <2>1, ConcatProperties
  <2>4. CronWork(k) \in Seq(SaidCall(R, D))
    <3>1. CASE k \in {1, 2}
      BY <2>1, <3>1 DEF CronWork
    <3>2. CASE k = 3
      BY <2>2, <3>2 DEF CronWork
    <3>3. CASE k \in {4, 5}
      BY <2>3, <3>3 DEF CronWork
    <3>4. QED
      BY <3>1, <3>2, <3>3
  <2>5. Cron(k + 1) \in SaidCall(R, D)
    BY SaidCalls
  <2>6. <<Cron(k + 1)>> \in Seq(SaidCall(R, D))
    BY <2>5
  <2>7. QED
    BY <2>4, <2>6, ConcatProperties
<1>5. QED
  BY <1>3, <1>4

LEMMA SaidCron ==
  ASSUME SInv, NEW R, NEW D, Said(R, D), NEW r \in Requests, DoCron(r) \/ DoPurgeIfDead(r)
  PROVE  Said(R, D)'
<1> DEFINE rest == Tail(calls[r])
           dead == IF Obj(r).status \in Unused \cup {"logged"} THEN <<>> ELSE Purge
<1>1. calls[r] # <<>> /\ row' = row /\ report' = report
  BY DEF DoCron, DoCronEnd, DoCronDue, DoPurgeIfDead, Doing, DbOnly
<1>2. rest \in Seq(SaidCall(R, D)) /\ objs[r] \in Seq(SaidObj(R, D))
  BY <1>1, SaidRequest
<1>3. \/ Continue(r, <<>>, <<>>)
      \/ \E k \in 1 .. 5 : Continue(r, objs[r], CronWork(k) \o <<Cron(k + 1)>>)
      \/ Continue(r, objs[r], dead \o rest)
  BY DEF DoCron, DoCronEnd, DoCronDue, DoPurgeIfDead
<1>4. dead \in Seq(SaidCall(R, D))
  BY SaidCronCalls, EmptySeq
<1> HIDE DEF rest, dead
<1>5. dead \o rest \in Seq(SaidCall(R, D))
  BY <1>2, <1>4, ConcatProperties
<1>6. row' \in SaidObj(R, D) \cup {NoRow}
  BY <1>1 DEF Said
<1>7. QED
  BY <1>1, <1>2, <1>3, <1>5, <1>6, SaidCronCalls, SaidEnds, SaidGoesOn

LEMMA SaidRemove ==
  ASSUME SInv, NEW R, NEW D, Said(R, D), NEW r \in Requests, DoRemove(r)
  PROVE  Said(R, D)'
<1> DEFINE ps == <<OrderAll>> \o calls[r]
<1>1. calls[r] # <<>> /\ row' = row /\ report' = report
  BY DEF DoRemove, Doing
<1>2. /\ Tail(calls[r]) \in Seq(SaidCall(R, D)) /\ objs[r] \in Seq(SaidObj(R, D))
      /\ calls[r] \in Seq(SaidCall(R, D))
  BY <1>1, SaidRequest DEF Said
<1>3. \/ Continue(r, objs[r], Tail(calls[r]))
      \/ row # NoRow /\ Continue(r, <<row>>, ps)
  BY DEF DoRemove
<1>4. ps \in Seq(SaidCall(R, D))
  <2>1. OrderAll \in SaidCall(R, D)
    BY SaidCalls
  <2>2. <<OrderAll>> \in Seq(SaidCall(R, D))
    BY <2>1, OneCall
  <2>3. QED
    BY <1>2, <2>2, ConcatProperties
<1> HIDE DEF ps
<1>5. row' \in SaidObj(R, D) \cup {NoRow} /\ (row # NoRow => row \in SaidObj(R, D))
  BY <1>1 DEF Said
<1>6. QED
  BY <1>1, <1>2, <1>3, <1>4, <1>5, SaidGoesOn, SaidOne

LEMMA SaidDo ==
  ASSUME SInv, NEW R, NEW D, Said(R, D), Truth(R, D), NEW r \in Requests, Do(r),
         Doing(r, "orderDeletion") => NoneIn(D)
  PROVE  Said(R, D)'
<1>1. DoOrderDeletion(r) => Doing(r, "orderDeletion")
  BY DEF DoOrderDeletion
<1>2. QED
  BY <1>1, SaidServerStatus, SaidWrites, SaidKill, SaidOrderDeletion, SaidGetStatus, SaidCreate,
     SaidEntry, SaidCron, SaidDisconnect, SaidRemove DEF Do

LEMMA SaidStart ==
  ASSUME SInv, NEW R, NEW D, Said(R, D), Truth(R, D), NEW r \in Requests, StartRequest(r),
         ~StartNew(r) => NoneIn(D), "resume" \in Kinds => Aps \subseteq R
  PROVE  Said(R, D)'
<1>1. row # NoRow => row \in SaidObj(R, D)
  BY DEF Said
<1>2. CASE StartNew(r)
  <2> DEFINE ps == <<Commit("created"), Plain("save"), Create(Prepared)>>
  <2>1. row' = Fresh /\ Continue(r, <<Fresh>>, ps) /\ report' = report
    BY <1>2 DEF StartNew, Begin
  <2>2. Fresh \in SaidObj(R, D)
    BY DEF Fresh, SaidObj, Session, Status
  <2>3. <<Fresh>> \in Seq(SaidObj(R, D))
    BY <2>2
  <2>4. /\ Commit("created") \in SaidCall(R, D) /\ Plain("save") \in SaidCall(R, D)
        /\ Create(Prepared) \in SaidCall(R, D)
    BY SaidCalls, PreparedType DEF Status
  <2>5. ps \in Seq(SaidCall(R, D))
    BY <2>4
  <2> HIDE DEF ps
  <2>6. QED
    BY <2>1, <2>2, <2>3, <2>5, SaidGoesOn
<1>3. ASSUME NEW s \in Aps, Report(r, s) PROVE Said(R, D)'
  <2> DEFINE ps == <<SetServerStatus(s, report[s])>>
  <2>1. /\ report[s] # NoReport /\ report' = [report EXCEPT ![s] = NoReport] /\ row' = row
        /\ \/ UNCHANGED <<calls, objs, reporter>>
           \/ /\ row # NoRow
              /\ calls' = [calls EXCEPT ![r] = ps] /\ objs' = [objs EXCEPT ![r] = <<row>>]
    BY <1>3 DEF Report
  <2>2. ps \in Seq(SaidCall(R, D))
    <3>1. report[s] \in Status
      BY <2>1 DEF SInv, ServersOK
    <3>2. SetServerStatus(s, report[s]) \in SaidCall(R, D)
      BY <3>1, SaidCalls DEF Said
    <3>3. QED
      BY <3>2
  <2> HIDE DEF ps
  <2>3. row # NoRow => <<row>> \in Seq(SaidObj(R, D))
    BY <1>1
  <2>4. \A q \in Requests : calls'[q] \in Seq(SaidCall(R, D)) /\ objs'[q] \in Seq(SaidObj(R, D))
    BY <2>1, <2>2, <2>3 DEF Said, SInv, CallsOK
  <2>5. \A t \in Aps : report'[t] \in {report[t], NoReport}
    BY <2>1 DEF SInv, ServersOK
  <2>6. NoReport \notin Status /\ {"ready", "destroyed", "destroying"} \subseteq Status
    BY SMSessionAssumption DEF Status
  <2>7. QED
    BY <2>1, <2>4, <2>5, <2>6 DEF Said
<1>4. CASE "resume" \in Kinds /\ StartResume(r)
  <2>1. Plain("reload") \in SaidCall(R, D)
    BY <1>4 DEF Plain, SaidCall, Call
  <2>2. <<Plain("reload")>> \in Seq(SaidCall(R, D))
    BY <2>1
  <2>3. QED
    BY <1>1, <1>4, <2>2, SaidOne DEF StartResume, Begin, DbOnly
<1>5. CASE StartPurge(r)
  BY <1>1, <1>5, SaidCronCalls, SaidOne DEF StartPurge, Begin, DbOnly
<1>6. CASE Logout(r)
  <2>1. PICK st \in {"disconnected", "wait_destroy"} :
          Continue(r, <<SetStatus(row, st).obj>>, SetStatus(row, st).next)
    BY <1>6 DEF Logout, Begin
  <2>2. row # NoRow /\ row' = row /\ report' = report
    BY <1>6 DEF Logout, DbOnly
  <2>3. SetStatus(row, st).obj \in SaidObj(R, D) /\ SetStatus(row, st).next \in Seq(SaidCall(R, D))
    BY <1>1, <2>2, SaidSetStatus DEF Status
  <2>4. QED
    BY <2>1, <2>2, <2>3, SaidOne
<1>7. ASSUME NEW c \in SaidCall(R, D), row # NoRow, row' = row, report' = report,
             Begin(r, <<row>>, <<c>>)
      PROVE  Said(R, D)'
  <2>1. <<c>> \in Seq(SaidCall(R, D))
    OBVIOUS
  <2>2. QED
    BY <1>1, <1>7, <2>1, SaidOne DEF Begin
<1>8. CASE Kill(r)
  BY <1>7, <1>8, SaidCalls DEF Kill, DbOnly
<1>9. CASE AdminDisconnect(r)
  <2>1. Disconnect(IF Desktop THEN {Main} ELSE Aps, TRUE) \in SaidCall(R, D)
    BY SaidCalls, SMSessionAssumption
  <2>2. QED
    BY <1>7, <1>9, <2>1 DEF AdminDisconnect, DbOnly
<1>10. CASE ClientPoll(r)
  BY <1>7, <1>10, SaidCalls DEF ClientPoll, DbOnly
<1>11. CASE CronStart(r)
  BY <1>7, <1>11, SaidCalls DEF CronStart, DbOnly
<1>12. ASSUME NEW s \in Aps, Monitoring(r, s) PROVE Said(R, D)'
  <2> SUFFICES ASSUME ~StartNew(r) PROVE Said(R, D)'
    BY <1>2
  <2>1. /\ Continue(r, <<>>, <<Monitored(s, Answer(aps[s]))>>) /\ row' = row
        /\ report' = report /\ aps' = aps
    BY <1>12 DEF Monitoring, Begin, DbOnly
  <2>2. aps[s] \in ApsStatus
    BY DEF SInv, ServersOK
  <2>3. /\ Answer(aps[s]) \in Status /\ Answer(aps[s]) \notin {"destroyed", "destroying"}
        /\ Answer(aps[s]) = "ready" => aps[s] \notin {"none", "init"}
        /\ Answer(aps[s]) = "unknown" => aps[s] \in {"none", "gone"}
    BY <2>2 DEF Answer, ApsStatus, Status
  <2>4. /\ Answer(aps[s]) = "ready" => s \in R
        /\ Answer(aps[s]) = "unknown" => s \in D
    BY <2>1, <2>3 DEF Truth, NoneIn, Live
  <2>5. Monitored(s, Answer(aps[s])) \in SaidCall(R, D)
    BY <2>3, <2>4 DEF Monitored, SaidCall, Call
  <2>6. <<Monitored(s, Answer(aps[s]))>> \in Seq(SaidCall(R, D))
    BY <2>5
  <2>7. row' \in SaidObj(R, D) \cup {NoRow}
    BY <2>1 DEF Said
  <2>8. QED
    BY <2>1, <2>6, <2>7, SaidEnds, SaidGoesOn
<1>13. ASSUME NEW s \in Aps, AdminRemove(r, s) PROVE Said(R, D)'
  <2>1. Continue(r, <<>>, <<Remove(s)>>) /\ row' = row /\ report' = report
    BY <1>13 DEF AdminRemove, Begin, DbOnly
  <2>2. Remove(s) \in SaidCall(R, D)
    BY SaidCalls
  <2>3. <<Remove(s)>> \in Seq(SaidCall(R, D))
    BY <2>2
  <2>4. row' \in SaidObj(R, D) \cup {NoRow}
    BY <2>1 DEF Said
  <2>5. QED
    BY <2>1, <2>3, <2>4, SaidEnds, SaidGoesOn
<1>14. QED
  BY <1>2, <1>3, <1>4, <1>5, <1>6, <1>8, <1>9, <1>10, <1>11, <1>12, <1>13
     DEF StartRequest, ClientWait

LEMMA SaidServer ==
  ASSUME SInv, NEW R, NEW D, Said(R, D), Truth(R, D), NEW s \in Aps, Server(s)
  PROVE  Said(R, D)'
<1>1. /\ UNCHANGED <<row, calls, objs>>
      /\ \/ report' = [report EXCEPT ![s] = NoReport]
         \/ \E to \in ApsStatus, said \in Status :
              /\ aps' = [aps EXCEPT ![s] = to] /\ report' = [report EXCEPT ![s] = said]
              /\ said = "ready" => to \notin {"none", "init"}
              /\ said = "destroyed" => to \notin Live \cup {"none"}
              /\ said # "destroying"
  BY DEF Server, Created, CreateFailed, CreateEnded, LogsIn, Disconnects, LogsOff, Destroyed,
         Change, LoseReport, ApsStatus, Status, Live
<1>2. NoReport \notin Status /\ {"ready", "destroyed", "destroying"} \subseteq Status
  BY SMSessionAssumption DEF Status
<1>3. \A t \in Aps : /\ report'[t] = "ready" => t \in R
                     /\ report'[t] = "destroyed" => t \in D
                     /\ report'[t] # "destroying"
  BY <1>1, <1>2 DEF Said, Truth, SInv, ServersOK
<1>4. QED
  BY <1>1, <1>3 DEF Said

LEMMA SaidGrows ==
  ASSUME NEW R, NEW D, NEW U, NEW E, R \subseteq U, D \subseteq E, Said(R, D)
  PROVE  Said(U, E)
<1>1. SaidObj(R, D) \subseteq SaidObj(U, E)
  BY DEF SaidObj
<1>2. SaidCall(R, D) \subseteq SaidCall(U, E)
  BY DEF SaidCall
<1>3. \A r \in Requests : calls[r] \in Seq(SaidCall(U, E)) /\ objs[r] \in Seq(SaidObj(U, E))
  BY <1>1, <1>2, SeqMonotonic DEF Said
<1>4. QED
  BY <1>1, <1>3 DEF Said
-----------------------------------------------------------------------------
(* No server is said to be ready before it is.                             *)

\* The servers where the creation of the session is over.
Begun == {s \in Aps : aps[s] \notin {"none", "init"}}
ReadyInv == Said(Begun, Aps)

\* How a step changes what the servers have.
LEMMA ApsSteps ==
  ASSUME SInv, [Next]_vars
  PROVE  \/ aps' = aps
         \/ \E s \in Aps : aps[s] = "none" /\ aps' = [aps EXCEPT ![s] = "init"]
         \/ \E s \in Aps : aps' = [aps EXCEPT ![s] = AfterOrder(@)]
         \/ \E s \in Aps, to \in ApsStatus \ {"none", "init"} :
              /\ aps' = [aps EXCEPT ![s] = to]
              /\ aps[s] # "none" /\ (aps[s] \notin Live => to \notin Live)
<1>1. ASSUME NEW r \in Requests, Do(r)
      PROVE  \/ aps' = aps \/ DoOrderDeletion(r) \/ DoCreate(r)
  BY <1>1 DEF Do, DoSetServerStatus, DoCommit, DoSave, DoDelete, DoKill, DoNotReady, DoGetStatus,
              DoReload, DoResumed, DoMonitored, DoCron, DoCronEnd, DoCronDue, DoPurgeIfDead,
              DoDisconnect, DoRemove, DbOnly
<1>2. ASSUME NEW r \in Requests, Doing(r, "orderDeletion") \/ Doing(r, "create")
      PROVE  Head(calls[r]).todo \subseteq Aps
  <2>1. calls[r] # <<>> /\ Head(calls[r]).op \in {"orderDeletion", "create"}
    BY <1>2 DEF Doing
  <2>2. Head(calls[r]) \in Call
    BY <2>1, Running DEF SInv
  <2>3. QED
    BY <2>1, <2>2, CallFields
<1>3. ASSUME NEW r \in Requests, DoOrderDeletion(r)
      PROVE  aps' = aps \/ \E s \in Aps : aps' = [aps EXCEPT ![s] = AfterOrder(@)]
  <2>1. aps' = aps \/ \E s \in Head(calls[r]).todo : aps' = [aps EXCEPT ![s] = AfterOrder(@)]
    BY <1>3 DEF DoOrderDeletion
  <2>2. QED
    BY <1>2, <1>3, <2>1 DEF DoOrderDeletion
<1>4. ASSUME NEW r \in Requests, DoCreate(r)
      PROVE  aps' = aps \/ \E s \in Aps : aps[s] = "none" /\ aps' = [aps EXCEPT ![s] = "init"]
  <2>1. \/ aps' = aps
        \/ \E s \in Head(calls[r]).todo : aps[s] = "none" /\ aps' = [aps EXCEPT ![s] = "init"]
    BY <1>4 DEF DoCreate, NextOf
  <2>2. QED
    BY <1>2, <1>4, <2>1 DEF DoCreate
<1>5. ASSUME NEW r \in Requests, StartRequest(r) PROVE aps' = aps
  BY <1>5 DEF StartRequest, StartNew, Report, StartResume, StartPurge, Logout, Kill,
              AdminDisconnect, ClientPoll, ClientWait, CronStart, Monitoring, AdminRemove, DbOnly
<1>6. ASSUME NEW s \in Aps, Server(s)
      PROVE  \/ aps' = aps
             \/ \E to \in ApsStatus \ {"none", "init"} :
                  /\ aps' = [aps EXCEPT ![s] = to]
                  /\ aps[s] # "none" /\ (aps[s] \notin Live => to \notin Live)
  BY <1>6 DEF Server, Created, CreateFailed, CreateEnded, LogsIn, Disconnects, LogsOff, Destroyed,
              Change, LoseReport, ApsStatus, Live
<1>7. QED
  BY <1>1, <1>3, <1>4, <1>5, <1>6 DEF Next, vars

LEMMA BegunGrows == ASSUME SInv, [Next]_vars PROVE Begun \subseteq Begun'
<1> SUFFICES ASSUME NEW s \in Aps, aps[s] \notin {"none", "init"}
             PROVE  aps'[s] \notin {"none", "init"}
  BY DEF Begun
<1>1. aps \in [Aps -> ApsStatus]
  BY DEF SInv, ServersOK
<1>2. AfterOrder(aps[s]) \notin {"none", "init"}
  BY DEF AfterOrder
<1>3. QED
  BY <1>1, <1>2, ApsSteps

LEMMA ReadyNext ==
  ASSUME "resume" \notin Kinds, SInv, ReadyInv, [Next]_vars PROVE ReadyInv'
<1>1. PICK R : R = Begun'
  OBVIOUS
<1>2. Said(R, Aps)
  BY <1>1, BegunGrows, SaidGrows DEF ReadyInv
<1>3. Truth(R, Aps) /\ NoneIn(Aps)
  BY <1>1 DEF Begun, Truth, NoneIn
<1>4. Said(R, Aps)'
  <2>1. ASSUME NEW r \in Requests, Do(r) PROVE Said(R, Aps)'
    BY <1>2, <1>3, <2>1, SaidDo
  <2>2. ASSUME NEW r \in Requests, StartRequest(r) PROVE Said(R, Aps)'
    BY <1>2, <1>3, <2>2, SaidStart
  <2>3. ASSUME NEW s \in Aps, Server(s) PROVE Said(R, Aps)'
    BY <1>2, <1>3, <2>3, SaidServer
  <2>4. CASE UNCHANGED vars
    BY <1>2, <2>4 DEF Said, vars
  <2>5. QED
    BY <2>1, <2>2, <2>3, <2>4 DEF Next
<1>5. QED
  BY <1>1, <1>4 DEF ReadyInv, Said

\* A step writes the row or changes what a server has, not both.
LEMMA RowOrAps ==
  ASSUME [Next]_vars PROVE row' = row \/ aps' = aps
<1>1. ASSUME NEW r \in Requests, Do(r) PROVE row' = row \/ aps' = aps
  BY <1>1 DEF Do, DoSetServerStatus, DoCommit, DoSave, DoDelete, DoKill, DoNotReady, DoOrderDeletion,
              DoGetStatus, DoCreate, DoReload, DoResumed, DoMonitored, DoCron, DoCronEnd, DoCronDue,
              DoPurgeIfDead, DoDisconnect, DoRemove, DbOnly
<1>2. ASSUME NEW r \in Requests, StartRequest(r) PROVE aps' = aps
  BY <1>2 DEF StartRequest, StartNew, Report, StartResume, StartPurge, Logout, Kill,
              AdminDisconnect, ClientPoll, ClientWait, CronStart, Monitoring, AdminRemove, DbOnly
<1>3. ASSUME NEW s \in Aps, Server(s) PROVE row' = row
  BY <1>3 DEF Server, Created, CreateFailed, CreateEnded, LogsIn, Disconnects, LogsOff, Destroyed,
              Change, LoseReport
<1>4. QED
  BY <1>1, <1>2, <1>3 DEF Next, vars

\* The row becomes "ready" only once every server has created its part, whatever
\* the number of parallel requests, as long as nobody takes the session over
\* before (client/start.php makes it "ready" without asking the servers).
THEOREM ReadyIsStarted == "resume" \notin Kinds => (Spec => ReadyOnlyWhenStarted)
<1> SUFFICES ASSUME "resume" \notin Kinds PROVE Spec => ReadyOnlyWhenStarted
  OBVIOUS
<1>1. Init => ReadyInv
  BY SaidEnds, SMSessionAssumption DEF Init, ReadyInv, Said, Status
<1>2. SInv /\ ReadyInv /\ [Next]_vars => ReadyInv'
  BY ReadyNext
<1>3. ReadyInv' /\ SInv /\ [Next]_vars =>
        [row' # NoRow /\ row'.status = "ready" /\ (row # NoRow => row.status # "ready")
           => \A s \in Aps : aps[s] \notin {"none", "init"}]_vars
  <2> SUFFICES ASSUME ReadyInv', SInv, [Next]_vars, row' # NoRow, row'.status = "ready",
                      row # NoRow => row.status # "ready", NEW s \in Aps
               PROVE  aps[s] \notin {"none", "init"}
    OBVIOUS
  <2>1. row' # row /\ aps' = aps
    BY RowOrAps
  <2>2. Aps \subseteq Begun'
    BY DEF ReadyInv, Said, SaidObj
  <2>3. QED
    BY <2>1, <2>2 DEF Begun
<1>4. QED
  BY SessionInv, <1>1, <1>2, <1>3, PTL DEF Spec, ReadyOnlyWhenStarted
=============================================================================
