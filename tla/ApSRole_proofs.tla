--------------------------- MODULE ApSRole_proofs ---------------------------
(***************************************************************************)
(* What holds of the role ApplicationServer for every set of sessions, HTTP*)
(* threads and workers: its types, that a locked session is being worked   *)
(* on, and that an order to destroy is not lost.                           *)
(***************************************************************************)
EXTENDS ApSRole, FiniteSetTheorems, SequenceTheorems, TLAPS
-----------------------------------------------------------------------------
(* What the operations on queues do to the elements of a queue.            *)

LEMMA AppendRange ==
  ASSUME NEW S, NEW s \in Seq(S), NEW e \in S
  PROVE  Append(s, e) \in Seq(S) /\ Range(Append(s, e)) = Range(s) \cup {e}
<1>1. /\ Append(s, e) \in Seq(S) /\ Len(Append(s, e)) = Len(s) + 1
      /\ \A i \in 1 .. Len(s) : Append(s, e)[i] = s[i]
      /\ Append(s, e)[Len(s) + 1] = e
  BY AppendProperties
<1>2. DOMAIN s = 1 .. Len(s) /\ Len(s) \in Nat
  BY LenProperties
<1>3. DOMAIN Append(s, e) = 1 .. Len(s) + 1
  BY <1>1, LenProperties
<1>4. QED
  BY <1>1, <1>2, <1>3 DEF Range

LEMMA TailRange ==
  ASSUME NEW S, NEW s \in Seq(S), s # <<>>
  PROVE  /\ Head(s) \in S /\ Tail(s) \in Seq(S)
         /\ Range(s) = Range(Tail(s)) \cup {Head(s)}
<1>1. /\ Head(s) \in S /\ Tail(s) \in Seq(S) /\ Len(Tail(s)) = Len(s) - 1
      /\ \A i \in 1 .. Len(Tail(s)) : Tail(s)[i] = s[i + 1]
  BY HeadTailProperties
<1>2. DOMAIN s = 1 .. Len(s) /\ Len(s) \in Nat \ {0}
  BY LenProperties, EmptySeq
<1>3. DOMAIN Tail(s) = 1 .. Len(s) - 1
  BY <1>1, LenProperties
<1>4. Head(s) = s[1]
  OBVIOUS
<1>5. Range(s) \subseteq Range(Tail(s)) \cup {Head(s)}
  <2> SUFFICES ASSUME NEW i \in 1 .. Len(s), i # 1
               PROVE  s[i] \in Range(Tail(s))
    BY <1>2, <1>4 DEF Range
  <2>1. i - 1 \in 1 .. Len(s) - 1 /\ s[i] = Tail(s)[i - 1]
    BY <1>1, <1>2
  <2>2. QED
    BY <1>3, <2>1 DEF Range
<1>6. Range(Tail(s)) \cup {Head(s)} \subseteq Range(s)
  BY <1>1, <1>2, <1>3, <1>4 DEF Range
<1>7. QED
  BY <1>1, <1>5, <1>6

LEMMA RemoveRange ==
  ASSUME NEW S, NEW s \in Seq(S), NEW k \in 1 .. Len(s)
  PROVE  /\ s[k] \in S /\ RemoveAt(s, k) \in Seq(S)
         /\ Range(s) = Range(RemoveAt(s, k)) \cup {s[k]}
<1> DEFINE a == SubSeq(s, 1, k - 1)
           b == SubSeq(s, k + 1, Len(s))
<1>1. Len(s) \in Nat /\ DOMAIN s = 1 .. Len(s) /\ \A i \in 1 .. Len(s) : s[i] \in S
  BY LenProperties, ElementOfSeq
<1>2. /\ a \in Seq(S) /\ Len(a) = k - 1
      /\ \A i \in 1 .. k - 1 : a[i] = s[i]
  BY <1>1, SubSeqProperties, k - 1 \in Int, \A i \in 1 .. k - 1 : s[i] \in S, Z3
<1>3. /\ b \in Seq(S) /\ Len(b) = Len(s) - k
      /\ \A i \in 1 .. Len(s) - k : b[i] = s[k + i]
  <2>1. /\ b \in Seq(S)
        /\ Len(b) = IF k + 1 <= Len(s) THEN Len(s) - (k + 1) + 1 ELSE 0
        /\ \A i \in 1 .. Len(s) - (k + 1) + 1 : b[i] = s[k + 1 + i - 1]
    BY <1>1, SubSeqProperties, k + 1 \in Int, \A i \in k + 1 .. Len(s) : s[i] \in S, Z3
  <2> HIDE DEF a, b
  <2>2. Len(b) = Len(s) - k
    <3>1. k \in Int /\ Len(s) \in Int /\ k <= Len(s)
      BY <1>1
    <3>2. CASE k + 1 <= Len(s)
      BY <2>1, <3>1, <3>2
    <3>3. CASE ~(k + 1 <= Len(s))
      BY <2>1, <3>1, <3>3
    <3>4. QED
      BY <3>2, <3>3
  <2>3. ASSUME NEW i \in 1 .. Len(s) - k PROVE b[i] = s[k + i]
    <3>1. k + 1 + i - 1 = k + i /\ i \in 1 .. Len(s) - (k + 1) + 1
      BY <1>1
    <3>2. QED
      BY <2>1, <3>1
  <2>4. QED
    BY <2>1, <2>2, <2>3
<1> HIDE DEF a, b
<1>4. /\ a \o b \in Seq(S) /\ Len(a \o b) = Len(s) - 1
      /\ \A i \in 1 .. Len(s) - 1 :
           (a \o b)[i] = IF i <= k - 1 THEN a[i] ELSE b[i - (k - 1)]
  <2>1. /\ a \o b \in Seq(S) /\ Len(a \o b) = Len(a) + Len(b)
        /\ \A i \in 1 .. Len(a) + Len(b) :
             (a \o b)[i] = IF i <= Len(a) THEN a[i] ELSE b[i - Len(a)]
    BY <1>2, <1>3, ConcatProperties
  <2>2. Len(a) + Len(b) = Len(s) - 1 /\ Len(a) = k - 1
    BY <1>1, <1>2, <1>3
  <2>3. QED
    BY <2>1, <2>2
<1> DEFINE r == RemoveAt(s, k)
<1>5. r \in Seq(S) /\ DOMAIN r = 1 .. Len(s) - 1 /\ r = a \o b
  <2>1. r = a \o b
    BY DEF RemoveAt, a, b
  <2>2. QED
    BY <1>4, <2>1, LenProperties
<1> HIDE DEF r
<1>6. /\ \A i \in 1 .. k - 1 : r[i] = s[i]
      /\ \A i \in k .. Len(s) - 1 : r[i] = s[i + 1]
  <2>1. ASSUME NEW i \in 1 .. k - 1 PROVE r[i] = s[i]
    <3>1. i \in 1 .. Len(s) - 1 /\ i <= k - 1
      BY <1>1
    <3>2. QED
      BY <1>2, <1>4, <1>5, <3>1
  <2>2. ASSUME NEW i \in k .. Len(s) - 1 PROVE r[i] = s[i + 1]
    <3>1. i \in 1 .. Len(s) - 1 /\ ~(i <= k - 1) /\ i - (k - 1) \in 1 .. Len(s) - k
          /\ k + (i - (k - 1)) = i + 1
      BY <1>1
    <3>2. r[i] = b[i - (k - 1)]
      BY <1>4, <1>5, <3>1
    <3>3. QED
      BY <1>3, <3>1, <3>2
  <2>3. QED
    BY <2>1, <2>2
<1>7. Range(s) \subseteq Range(r) \cup {s[k]}
  <2> SUFFICES ASSUME NEW i \in 1 .. Len(s), i # k
               PROVE  s[i] \in Range(r)
    BY <1>1 DEF Range
  <2>1. CASE i < k
    <3>1. i \in 1 .. k - 1 /\ i \in 1 .. Len(s) - 1
      BY <1>1, <2>1
    <3>2. QED
      BY <1>5, <1>6, <3>1 DEF Range
  <2>2. CASE i > k
    <3>1. i - 1 \in k .. Len(s) - 1 /\ i - 1 \in 1 .. Len(s) - 1 /\ (i - 1) + 1 = i
      BY <1>1, <2>2
    <3>2. QED
      BY <1>5, <1>6, <3>1 DEF Range
  <2>3. QED
    BY <1>1, <2>1, <2>2
<1>8. Range(r) \cup {s[k]} \subseteq Range(s)
  <2> SUFFICES ASSUME NEW i \in 1 .. Len(s) - 1 PROVE r[i] \in Range(s)
    BY <1>1, <1>5 DEF Range
  <2>1. CASE i < k
    BY <1>1, <1>6, <2>1 DEF Range
  <2>2. CASE i >= k
    <3>1. i \in k .. Len(s) - 1 /\ i + 1 \in 1 .. Len(s)
      BY <1>1, <2>2
    <3>2. QED
      BY <1>1, <1>6, <3>1 DEF Range
  <2>3. QED
    BY <1>1, <2>1, <2>2
<1>9. QED
  BY <1>1, <1>5, <1>7, <1>8 DEF r

\* Role.force_stop sends nothing but exits.
LEMMA ExitsRange ==
  ASSUME NEW S, NEW s \in Seq(S \cup {Exit})
  PROVE  /\ WithExits(s) \in Seq(S \cup {Exit})
         /\ Range(s) \subseteq Range(WithExits(s))
<1> DEFINE n == Cardinality(Workers)
           x == [m \in 1 .. n |-> Exit]
<1>1. n \in Nat
  BY FS_CardinalityType, ApSRoleAssumption
<1>2. x \in Seq(S \cup {Exit})
  BY <1>1, SeqDef, x \in [1 .. n -> S \cup {Exit}]
<1>3. Range(s \o x) = Range(s) \cup Range(x) /\ s \o x \in Seq(S \cup {Exit})
  BY <1>2, RangeConcatenation, ConcatProperties
<1>4. QED
  BY <1>3 DEF WithExits
-----------------------------------------------------------------------------
(* Types.  That they are kept needs to be known of the objects the threads *)
(* hold: one that a thread will write to is still in the table.            *)

Named == \A t \in Threads : threads[t].pc # "idle" => threads[t].id \in Sessions
HeldHere ==
  \A t \in Threads : threads[t].pc \in {"mark", "take", "watch"} /\ threads[t].fresh
                       => Here(threads[t].id)
SweptHere == \A i \in Sessions : sweep[i] = "fresh" => Here(i)
TypeInv == TypeOK /\ Named /\ HeldHere /\ SweptHere

LEMMA TypeInit == Init => TypeInv
BY ApSRoleAssumption, EmptySeq
   DEF Init, TypeInv, TypeOK, Named, HeldHere, SweptHere, IdleFrame, IdleWorker,
       Frame, Worker, Act, St, Threads

\* Writing an object to the table loses none.
LEMMA WriteObject ==
  ASSUME TypeOK, NEW i \in Sessions, NEW o \in Object, sess' = [sess EXCEPT ![i] = o]
  PROVE  /\ sess' \in [Sessions -> Object \cup {Absent}]
         /\ \A j \in Sessions : sess'[j] = IF j = i THEN o ELSE sess[j]
         /\ \A j \in Sessions : Here(j) => Here(j)'
         /\ Here(i)'
BY ApSRoleAssumption DEF TypeOK, Here

LEMMA WriteStatus ==
  ASSUME TypeOK, NEW i \in Sessions, Here(i), NEW x \in St,
         sess' = [sess EXCEPT ![i].st = x]
  PROVE  /\ sess' \in [Sessions -> Object \cup {Absent}]
         /\ \A j \in Sessions : j # i => sess'[j] = sess[j]
         /\ \A j \in Sessions : Here(j) => Here(j)'
         /\ sess'[i].st = x /\ sess'[i].locked = sess[i].locked
<1>1. sess[i] \in Object
  BY DEF TypeOK, Here
<1> DEFINE o == [sess[i] EXCEPT !.st = x]
<1>2. o \in Object /\ o.st = x /\ o.locked = sess[i].locked
  BY <1>1 DEF Object
<1>3. sess' = [sess EXCEPT ![i] = o]
  OBVIOUS
<1> HIDE DEF o
<1>4. QED
  BY <1>2, <1>3, WriteObject

\* The same, of the object a thread holds: it may have left the table.
LEMMA WriteHeld ==
  ASSUME TypeInv, NEW t \in Threads, threads[t].pc \in {"mark", "watch"},
         NEW x \in St, Write(threads[t], x)
  PROVE  /\ sess' \in [Sessions -> Object \cup {Absent}]
         /\ \A j \in Sessions : Here(j) => Here(j)'
         /\ \A j \in Sessions : Here(j)' /\ sess'[j].locked => Here(j) /\ sess[j].locked
         /\ \A j \in Sessions : Here(j)' /\ sess'[j].st # x => Here(j) /\ sess'[j] = sess[j]
         /\ \A j \in Sessions : j # threads[t].id => sess'[j] = sess[j]
<1> DEFINE f == threads[t]
<1>1. f.id \in Sessions /\ (f.fresh => Here(f.id)) /\ TypeOK
  BY DEF TypeInv, Named, HeldHere
<1>2. sess' = IF f.fresh THEN [sess EXCEPT ![f.id].st = x] ELSE sess
  BY DEF Write
<1> HIDE DEF f
<1>3. CASE f.fresh
  <2>1. sess' = [sess EXCEPT ![f.id].st = x] /\ Here(f.id)
    BY <1>1, <1>2, <1>3
  <2>2. /\ sess' \in [Sessions -> Object \cup {Absent}]
        /\ \A j \in Sessions : j # f.id => sess'[j] = sess[j]
        /\ \A j \in Sessions : Here(j) => Here(j)'
        /\ sess'[f.id].st = x /\ sess'[f.id].locked = sess[f.id].locked
    BY <1>1, <2>1, WriteStatus
  <2>3. QED
    BY <2>1, <2>2 DEF Here, f
<1>4. CASE ~f.fresh
  BY <1>1, <1>2, <1>4 DEF Here, TypeOK
<1>5. QED
  BY <1>3, <1>4

LEMMA WriteLock ==
  ASSUME TypeOK, NEW i \in Sessions, Here(i), sess' = [sess EXCEPT ![i].locked = TRUE]
  PROVE  /\ sess' \in [Sessions -> Object \cup {Absent}]
         /\ \A j \in Sessions : j # i => sess'[j] = sess[j]
         /\ \A j \in Sessions : Here(j) => Here(j)'
         /\ sess'[i].st = sess[i].st /\ sess'[i].locked = TRUE
<1>1. sess[i] \in Object
  BY DEF TypeOK, Here
<1> DEFINE o == [sess[i] EXCEPT !.locked = TRUE]
<1>2. o \in Object /\ o.st = sess[i].st /\ o.locked = TRUE
  BY <1>1 DEF Object
<1>3. sess' = [sess EXCEPT ![i] = o]
  OBVIOUS
<1> HIDE DEF o
<1>4. QED
  BY <1>2, <1>3, WriteObject

\* A thread moves on, and nothing leaves the table.
LEMMA Moves ==
  ASSUME TypeInv, NEW t \in Threads, NEW f \in Frame, Goto(t, f),
         \A j \in Sessions : Here(j) => Here(j)',
         f.pc # "idle" => f.id \in Sessions,
         f.pc \in {"mark", "take", "watch"} /\ f.fresh => Here(f.id)'
  PROVE  /\ threads' \in [Threads -> Frame] /\ Named' /\ HeldHere'
         /\ \A u \in Threads : threads'[u] = IF u = t THEN f ELSE threads[u]
<1>1. threads \in [Threads -> Frame]
  BY DEF TypeInv, TypeOK
<1>2. /\ threads' \in [Threads -> Frame]
      /\ \A u \in Threads : threads'[u] = IF u = t THEN f ELSE threads[u]
  BY <1>1 DEF Goto
<1>3. Named'
  BY <1>2 DEF TypeInv, Named
<1>4. HeldHere'
  BY <1>2 DEF TypeInv, Named, HeldHere
<1>5. QED
  BY <1>2, <1>3, <1>4

Pcs == {"insert", "mark", "spool", "take", "defer", "apply", "watch"}

LEMMA FrameTypes ==
  /\ IdleFrame \in Frame /\ IdleFrame.pc = "idle"
  /\ \A pc \in Pcs, act \in Act, i \in Sessions, st \in St :
       /\ At(pc, act, i, st) \in Frame
       /\ At(pc, act, i, st).pc = pc /\ At(pc, act, i, st).act = act
       /\ At(pc, act, i, st).id = i /\ At(pc, act, i, st).st = st
       /\ At(pc, act, i, st).fresh
BY DEF IdleFrame, At, Frame, Act, St, Pcs

LEMMA MovesTo ==
  ASSUME TypeInv, NEW t \in Threads,
         NEW pc \in Pcs, NEW act \in Act, NEW i \in Sessions, NEW st \in St,
         Goto(t, At(pc, act, i, st)),
         \A j \in Sessions : Here(j) => Here(j)',
         pc \in {"mark", "take", "watch"} => Here(i)'
  PROVE  threads' \in [Threads -> Frame] /\ Named' /\ HeldHere'
<1> DEFINE f == At(pc, act, i, st)
<1>1. f \in Frame /\ f.pc = pc /\ f.id = i
  BY FrameTypes
<1> HIDE DEF f
<1>2. Goto(t, f)
  BY DEF f
<1>3. QED
  BY <1>1, <1>2, Moves

LEMMA MovesIdle ==
  ASSUME TypeInv, NEW t \in Threads, Goto(t, IdleFrame),
         \A j \in Sessions : Here(j) => Here(j)'
  PROVE  threads' \in [Threads -> Frame] /\ Named' /\ HeldHere'
BY FrameTypes, Moves

LEMMA TypeNext == TypeInv /\ [Next]_vars => TypeInv'
<1> SUFFICES ASSUME TypeInv, [Next]_vars PROVE TypeInv'
  OBVIOUS
<1> USE DEF TypeInv, TypeOK, SweptHere, role, table, machine, queues, counts
<1>a. Main \in Threads /\ Stop \in Threads /\ Handlers \subseteq Threads
  BY DEF Threads
<1>c. /\ Pcs = {"insert", "mark", "spool", "take", "defer", "apply", "watch"}
      /\ {"create", "destroy", "disconnect"} \subseteq Act
      /\ {"init", "logged", "wait_destroy"} \subseteq St
  BY DEF Pcs, Act, St
<1>1. ASSUME NEW h \in Handlers, NEW i \in Sessions, ReqSessionCreate(h, i) PROVE TypeInv'
  <2>1. threads' \in [Threads -> Frame] /\ Named' /\ HeldHere'
    <3>1. Goto(h, At("insert", "create", i, "init"))
          /\ \A j \in Sessions : Here(j) => Here(j)'
      BY <1>1 DEF ReqSessionCreate, Here
    <3>2. QED
      BY <1>a, <1>c, <3>1, MovesTo
  <2>2. QED
    BY <1>1, <2>1 DEF ReqSessionCreate, Here
<1>2. ASSUME NEW t \in Threads, Insert(t) PROVE TypeInv'
  <2> DEFINE i == threads[t].id
  <2>1. i \in Sessions /\ sess' = [sess EXCEPT ![i] = [st |-> "init", locked |-> FALSE]]
        /\ [st |-> "init", locked |-> FALSE] \in Object
    BY <1>2 DEF Insert, Named, Object, St
  <2>2. Goto(t, At("spool", "create", i, "init"))
    BY <1>2 DEF Insert
  <2> HIDE DEF i
  <2>3. /\ sess' \in [Sessions -> Object \cup {Absent}]
        /\ \A j \in Sessions : Here(j) => Here(j)'
    BY <2>1, WriteObject
  <2>4. threads' \in [Threads -> Frame] /\ Named' /\ HeldHere'
    BY <1>c, <2>1, <2>2, <2>3, MovesTo
  <2>5. QED
    BY <1>2, <2>3, <2>4 DEF Insert
<1>3. ASSUME NEW h \in Handlers, NEW i \in Sessions, ReqSessionDestroy(h, i) PROVE TypeInv'
  <2>1. sess[i] \in Object /\ sess[i].st \in St /\ UNCHANGED sess /\ Here(i)
    BY <1>3 DEF ReqSessionDestroy, Here, Object
  <2>2. threads' \in [Threads -> Frame] /\ Named' /\ HeldHere'
    <3>1. Goto(h, At("mark", "destroy", i, sess[i].st)) /\ \A j \in Sessions : Here(j) => Here(j)'
      BY <1>3 DEF ReqSessionDestroy, Here
    <3>2. Here(i)'
      BY <2>1, <3>1
    <3>3. QED
      BY <1>a, <1>c, <2>1, <3>1, <3>2, MovesTo
  <2>3. orders' \in 0 .. MaxOrders
    BY <1>3, ApSRoleAssumption DEF ReqSessionDestroy, Ordered
  <2>4. QED
    BY <1>3, <2>2, <2>3 DEF ReqSessionDestroy, Here
<1>4. ASSUME NEW h \in Handlers, NEW i \in Sessions, ReqSessionDisconnect(h, i) PROVE TypeInv'
  <2>1. threads' \in [Threads -> Frame] /\ Named' /\ HeldHere'
    <3>1. Goto(h, At("spool", "disconnect", i, "logged"))
          /\ \A j \in Sessions : Here(j) => Here(j)'
      BY <1>4 DEF ReqSessionDisconnect, Here
    <3>2. QED
      BY <1>a, <1>c, <3>1, MovesTo
  <2>2. orders' \in 0 .. MaxOrders
    BY <1>4, ApSRoleAssumption DEF ReqSessionDisconnect, Ordered
  <2>3. QED
    BY <1>4, <2>1, <2>2 DEF ReqSessionDisconnect, Here
<1>5. ASSUME NEW t \in Threads, Mark(t) PROVE TypeInv'
  <2> DEFINE f == threads[t]
             g == [f EXCEPT !.pc = "spool", !.st = "wait_destroy"]
  <2>1. f \in Frame /\ f.pc = "mark" /\ f.id \in Sessions /\ (f.fresh => Here(f.id))
    BY <1>5 DEF Mark, Named, HeldHere
  <2>2. g \in Frame /\ g.pc = "spool" /\ g.id = f.id /\ Goto(t, g)
    BY <1>5, <2>1 DEF Mark, Frame, St
  <2>3. Write(f, "wait_destroy")
    BY <1>5 DEF Mark
  <2>4. /\ sess' \in [Sessions -> Object \cup {Absent}]
        /\ \A j \in Sessions : Here(j) => Here(j)'
    BY <1>c, <2>1, <2>3, WriteHeld
  <2> HIDE DEF f, g
  <2>5. threads' \in [Threads -> Frame] /\ Named' /\ HeldHere'
    BY <2>1, <2>2, <2>4, Moves
  <2>6. QED
    BY <1>5, <2>4, <2>5 DEF Mark
<1>6. ASSUME NEW t \in Threads, SpoolAction(t) PROVE TypeInv'
  <2> DEFINE f == threads[t]
  <2>1. f \in Frame /\ f.act \in Act /\ f.id \in Sessions /\ UNCHANGED sess
    BY <1>6 DEF SpoolAction, Named, Frame
  <2>2. \/ Goto(t, IdleFrame)
        \/ \E pc \in {"take", "defer"} : Here(f.id) /\ Goto(t, At(pc, f.act, f.id, sess[f.id].st))
    BY <1>6 DEF SpoolAction
  <2> HIDE DEF f
  <2>3. Here(f.id) => sess[f.id].st \in St
    BY <2>1 DEF Here, Object
  <2>4. threads' \in [Threads -> Frame] /\ Named' /\ HeldHere'
    <3>1. \A j \in Sessions : Here(j) => Here(j)'
      BY <2>1 DEF Here
    <3>2. CASE Goto(t, IdleFrame)
      BY <3>1, <3>2, MovesIdle
    <3>3. ASSUME NEW pc \in {"take", "defer"}, Here(f.id),
                 Goto(t, At(pc, f.act, f.id, sess[f.id].st))
          PROVE  threads' \in [Threads -> Frame] /\ Named' /\ HeldHere'
      <4>1. pc \in Pcs /\ sess'[f.id] # Absent /\ sess[f.id].st \in St
        BY <2>1, <2>3, <3>3 DEF Pcs, Here
      <4>2. QED
        BY <2>1, <3>1, <3>3, <4>1, MovesTo DEF Here
    <3>4. QED
      BY <2>2, <3>2, <3>3
  <2>5. QED
    BY <1>6, <2>4 DEF SpoolAction, Here
<1>7. ASSUME NEW t \in Threads, Take(t) PROVE TypeInv'
  <2> DEFINE f == threads[t]
             j == [act |-> f.act, id |-> f.id, st |-> f.st]
  <2>1. f \in Frame /\ f.id \in Sessions /\ (f.fresh => Here(f.id))
    BY <1>7 DEF Take, Named, HeldHere
  <2>2. j \in Job /\ spooler' = Append(spooler, j)
    BY <1>7, <2>1 DEF Take, Frame, Job
  <2>3. sess' = IF f.fresh THEN [sess EXCEPT ![f.id].locked = TRUE] ELSE sess
    BY <1>7 DEF Take
  <2> HIDE DEF f, j
  <2>4. /\ sess' \in [Sessions -> Object \cup {Absent}]
        /\ \A k \in Sessions : Here(k) => Here(k)'
    <3>1. CASE f.fresh
      BY <2>1, <2>3, <3>1, WriteLock
    <3>2. CASE ~f.fresh
      BY <2>3, <3>2 DEF Here
    <3>3. QED
      BY <3>1, <3>2
  <2>5. threads' \in [Threads -> Frame] /\ Named' /\ HeldHere'
    BY <1>7, <2>4, FrameTypes, Moves DEF Take
  <2>6. spooler' \in Seq(Job \cup {Exit})
    BY <2>2, AppendRange
  <2>7. QED
    BY <1>7, <2>4, <2>5, <2>6 DEF Take
<1>8. ASSUME NEW t \in Threads, Defer(t) PROVE TypeInv'
  <2>1. threads[t].act \in Act /\ threads[t].id \in Sessions
    BY <1>8 DEF Defer, Named, Frame
  <2>2. deferred' \in Seq([act : Act, id : Sessions])
    BY <1>8, <2>1, AppendRange DEF Defer
  <2>3. threads' \in [Threads -> Frame] /\ Named' /\ HeldHere'
    BY <1>8, FrameTypes, Moves DEF Defer, Here
  <2>4. QED
    BY <1>8, <2>2, <2>3 DEF Defer, Here
<1>9. ASSUME SyncTake PROVE TypeInv'
  <2> DEFINE c == Head(sync)
  <2>1. c \in Copy /\ sync' \in Seq(Copy)
    BY <1>9, TailRange DEF SyncTake
  <2>2. c.id \in Sessions /\ c.st \in St
    BY <2>1 DEF Copy
  <2>3. UNCHANGED sess /\ (Goto(Main, At("apply", "create", c.id, c.st)) \/ UNCHANGED threads)
    BY <1>9 DEF SyncTake
  <2> HIDE DEF c
  <2>4. threads' \in [Threads -> Frame] /\ Named' /\ HeldHere'
    <3>1. CASE Goto(Main, At("apply", "create", c.id, c.st))
      BY <1>a, <1>c, <2>2, <2>3, <3>1, MovesTo DEF Here
    <3>2. CASE UNCHANGED threads
      BY <2>3, <3>2 DEF Named, HeldHere, Here
    <3>3. QED
      BY <2>3, <3>1, <3>2
  <2>5. QED
    BY <1>9, <2>1, <2>4 DEF SyncTake, Here
<1>10. ASSUME SyncApply PROVE TypeInv'
  <2> DEFINE i == threads[Main].id
             st == threads[Main].st
             new == IF st = "destroyed" THEN Absent ELSE Returned(st)
  <2>1. i \in Sessions /\ st \in St
    BY <1>a, <1>10 DEF SyncApply, Named, Frame
  <2>2. new \in Object \cup {Absent} /\ sess' = [sess EXCEPT ![i] = new]
    BY <1>10, <2>1 DEF SyncApply, Returned, Object
  <2>3. sweep' = [sweep EXCEPT ![i] = IF @ = "fresh" THEN "stale" ELSE @]
    BY <1>10 DEF SyncApply
  <2>4. threads' = [t \in Threads |->
                      IF t = Main THEN IdleFrame
                      ELSE IF threads[t].id = i THEN [threads[t] EXCEPT !.fresh = FALSE]
                      ELSE threads[t]]
    BY <1>10 DEF SyncApply
  <2> HIDE DEF i, st, new
  <2>5. sess' \in [Sessions -> Object \cup {Absent}]
        /\ \A j \in Sessions : j # i => sess'[j] = sess[j]
    BY <2>1, <2>2
  <2>6. sweep' \in [Sessions -> {"none", "fresh", "stale"}] /\ SweptHere'
    BY <2>1, <2>3, <2>5 DEF Here
  <2>7. ASSUME NEW t \in Threads
        PROVE  /\ threads'[t] \in Frame
               /\ threads'[t].pc # "idle" => threads'[t].id \in Sessions
               /\ threads'[t].pc \in {"mark", "take", "watch"} /\ threads'[t].fresh
                    => sess'[threads'[t].id] # Absent
    <3>1. CASE t = Main
      BY <2>4, <3>1, FrameTypes
    <3>2. CASE t # Main /\ threads[t].id = i
      <4>1. threads[t] \in Frame /\ threads'[t] = [threads[t] EXCEPT !.fresh = FALSE]
        BY <2>4, <3>2
      <4>2. threads'[t] \in Frame /\ threads'[t].id = i /\ ~threads'[t].fresh
        BY <3>2, <4>1 DEF Frame
      <4>3. QED
        BY <2>1, <4>2
    <3>3. CASE t # Main /\ threads[t].id # i
      <4>1. threads'[t] = threads[t] /\ threads[t] \in Frame
        BY <2>4, <3>3
      <4>2. threads[t].pc # "idle" => threads[t].id \in Sessions /\ threads[t].id # i
        BY <3>3 DEF Named
      <4>3. threads[t].pc \in {"mark", "take", "watch"} /\ threads[t].fresh => Here(threads[t].id)
        BY DEF HeldHere
      <4>4. QED
        BY <2>5, <4>1, <4>2, <4>3 DEF Here
    <3>4. QED
      BY <3>1, <3>2, <3>3
  <2>8. threads' \in [Threads -> Frame] /\ Named' /\ HeldHere'
    <3>1. threads' \in [Threads -> Frame]
      BY <2>4, <2>7
    <3>2. QED
      BY <2>7, <3>1 DEF Named, HeldHere, Here
  <2>9. QED
    BY <1>10, <2>5, <2>6, <2>8 DEF SyncApply
<1>11. ASSUME UpdateLockedSessions PROVE TypeInv'
  <2> PICK k \in 1 .. Len(deferred) :
         /\ deferred' = RemoveAt(deferred, k)
         /\ \/ UNCHANGED <<sess, spooler2>>
            \/ /\ Here(deferred[k].id)
               /\ sess' = [sess EXCEPT ![deferred[k].id].locked = TRUE]
               /\ spooler2' = Append(spooler2, [act |-> deferred[k].act, id |-> deferred[k].id,
                                                st |-> sess[deferred[k].id].st])
    BY <1>11 DEF UpdateLockedSessions
  <2> DEFINE d == deferred[k]
             j == [act |-> d.act, id |-> d.id, st |-> sess[d.id].st]
  <2>1. d \in [act : Act, id : Sessions] /\ deferred' \in Seq([act : Act, id : Sessions])
    BY RemoveRange
  <2>2. /\ sess' \in [Sessions -> Object \cup {Absent}]
        /\ \A i \in Sessions : Here(i) => Here(i)'
        /\ spooler2' \in Seq(Job)
    <3>1. CASE UNCHANGED <<sess, spooler2>>
      BY <3>1 DEF Here
    <3>2. CASE /\ Here(d.id) /\ sess' = [sess EXCEPT ![d.id].locked = TRUE]
               /\ spooler2' = Append(spooler2, j)
      <4>1. j \in Job
        BY <2>1, <3>2 DEF Job, Here, Object
      <4> HIDE DEF j
      <4>2. spooler2' \in Seq(Job)
        BY <3>2, <4>1, AppendRange
      <4>3. QED
        BY <2>1, <3>2, <4>2, WriteLock
    <3>3. QED
      BY <3>1, <3>2
  <2>3. UNCHANGED <<threads, role, born, machine, spooler, sync, workers, counts>>
    BY <1>11 DEF UpdateLockedSessions
  <2>4. Named' /\ HeldHere'
    BY <2>2, <2>3 DEF Named, HeldHere
  <2>5. QED
    BY <2>1, <2>2, <2>3, <2>4
<1>12. ASSUME NEW i \in Sessions, WatchGone(i) PROVE TypeInv'
  <2>1. Goto(Main, At("mark", "destroy", i, sess[i].st)) /\ UNCHANGED sess /\ Here(i)
    BY <1>12 DEF WatchGone, Watched
  <2>2. sess[i].st \in St
    BY <2>1 DEF Here, Object
  <2>3. threads' \in [Threads -> Frame] /\ Named' /\ HeldHere'
    BY <1>a, <1>c, <2>1, <2>2, MovesTo DEF Here
  <2>4. QED
    BY <1>12, <2>3 DEF WatchGone, Here
<1>13. ASSUME NEW i \in Sessions, WatchChange(i) PROVE TypeInv'
  <2>1. Goto(Main, At("watch", "create", i, ts[i])) /\ UNCHANGED sess /\ Here(i)
    BY <1>13 DEF WatchChange, Watched
  <2>2. ts[i] \in St
    BY <1>13 DEF WatchChange, Follows, St
  <2>3. threads' \in [Threads -> Frame] /\ Named' /\ HeldHere'
    BY <1>a, <1>c, <2>1, <2>2, MovesTo DEF Here
  <2>4. QED
    BY <1>13, <2>3 DEF WatchChange, Here
<1>14. ASSUME NEW t \in Threads, Switch(t) PROVE TypeInv'
  <2>1. Write(threads[t], threads[t].st) /\ threads[t].pc = "watch" /\ threads[t].st \in St
    BY <1>14 DEF Switch, Frame
  <2>2. /\ sess' \in [Sessions -> Object \cup {Absent}]
        /\ \A j \in Sessions : Here(j) => Here(j)'
    BY <2>1, WriteHeld
  <2>3. threads' \in [Threads -> Frame] /\ Named' /\ HeldHere'
    BY <1>14, <2>2, MovesIdle DEF Switch
  <2>4. QED
    BY <1>14, <2>2, <2>3 DEF Switch
<1>15. ASSUME NEW w \in Workers, WorkerTakes(w) PROVE TypeInv'
  <2>1. \A j \in Job \cup {Exit} : Received(j) \in Worker
    BY DEF Received, Worker
  <2>2. spooler' \in Seq(Job \cup {Exit}) /\ spooler2' \in Seq(Job)
        /\ workers' \in [Workers -> Worker]
    <3>1. CASE /\ spooler2 # <<>> /\ spooler2' = Tail(spooler2)
               /\ workers' = [workers EXCEPT ![w] = Received(Head(spooler2))]
               /\ UNCHANGED spooler
      <4>1. Head(spooler2) \in Job /\ spooler2' \in Seq(Job)
        BY <3>1, TailRange
      <4>2. QED
        BY <2>1, <3>1, <4>1
    <3>2. CASE /\ spooler # <<>> /\ spooler' = Tail(spooler)
               /\ workers' = [workers EXCEPT ![w] = Received(Head(spooler))]
               /\ UNCHANGED spooler2
      <4>1. Head(spooler) \in Job \cup {Exit} /\ spooler' \in Seq(Job \cup {Exit})
        BY <3>2, TailRange
      <4>2. QED
        BY <2>1, <3>2, <4>1
    <3>3. QED
      BY <1>15, <3>1, <3>2 DEF WorkerTakes
  <2>3. Named' /\ HeldHere'
    BY <1>15 DEF WorkerTakes, Named, HeldHere, Here
  <2>4. QED
    BY <1>15, <2>2, <2>3 DEF WorkerTakes, Here
<1>b. ASSUME NEW w \in Workers, workers[w].mode = "busy", NEW st \in St, Done(w, st)
      PROVE  /\ workers' \in [Workers -> Worker] /\ sync' \in Seq(Copy)
             /\ Named' /\ HeldHere' /\ SweptHere'
             /\ UNCHANGED <<role, table, threads, orders, deferred, spooler, spooler2>>
             /\ workers[w].job \in Job
  <2>1. workers[w].job \in Job
    BY <1>b DEF Worker
  <2>2. [id |-> workers[w].job.id, st |-> st] \in Copy
    BY <2>1 DEF Job, Copy
  <2>3. sync' \in Seq(Copy)
    BY <1>b, <2>2, AppendRange DEF Done
  <2>4. workers' \in [Workers -> Worker]
    BY <1>b DEF Done, Worker, IdleWorker
  <2>5. QED
    BY <1>b, <2>1, <2>3, <2>4 DEF Done, Named, HeldHere, Here
<1>16. ASSUME NEW w \in Workers, CreateSession(w) PROVE TypeInv'
  <2>1. workers[w].mode = "busy" /\ \E st \in St : Done(w, st)
    BY <1>16 DEF CreateSession, Doing, St
  <2>2. workers[w].job.id \in Sessions
    BY <1>b, <2>1 DEF Job
  <2>3. failed' \subseteq Sessions /\ user' \in [Sessions -> BOOLEAN]
        /\ ts' \in [Sessions -> {"none", "logged", "disconnected"}]
    BY <1>16, <2>2 DEF CreateSession, GivesUp, GivenUpOn, Account, Removed
  <2>4. QED
    BY <1>b, <2>1, <2>3
<1>17. ASSUME NEW w \in Workers, DestroySession(w) PROVE TypeInv'
  <2>1. workers[w].mode = "busy" /\ workers[w].job \in Job /\ workers[w].job.st \in St
        /\ workers[w].job.id \in Sessions
    BY <1>17 DEF DestroySession, Doing, Worker, Job
  <2>2. \E st \in St : Done(w, st)
    BY <1>17, <2>1 DEF DestroySession, St
  <2>3. failed' \subseteq Sessions /\ user' \in [Sessions -> BOOLEAN]
        /\ ts' \in [Sessions -> {"none", "logged", "disconnected"}]
    BY <1>17, <2>1 DEF DestroySession, GivesUp, GivenUpOn, Removed
  <2>4. QED
    BY <1>b, <2>1, <2>2, <2>3
<1>18. ASSUME NEW w \in Workers, DisconnectSession(w) PROVE TypeInv'
  <2>1. workers[w].mode = "busy" /\ workers[w].job \in Job /\ workers[w].job.st \in St
        /\ workers[w].job.id \in Sessions
    BY <1>18 DEF DisconnectSession, Doing, Worker, Job
  <2>2. \E st \in St : Done(w, st)
    BY <1>18, <2>1 DEF DisconnectSession, St
  <2>3. failed' \subseteq Sessions /\ user' \in [Sessions -> BOOLEAN]
        /\ ts' \in [Sessions -> {"none", "logged", "disconnected"}]
    BY <1>18, <2>1 DEF DisconnectSession, GivenUpOn
  <2>4. QED
    BY <1>b, <2>1, <2>2, <2>3
<1>19. ASSUME NEW w \in Workers, WorkerDies(w) PROVE TypeInv'
  <2>1. workers' \in [Workers -> Worker]
    BY <1>19 DEF WorkerDies, Worker
  <2>2. QED
    BY <1>19, <2>1 DEF WorkerDies, Named, HeldHere, Here
<1>20. ASSUME OrderStop PROVE TypeInv'
  BY <1>20 DEF OrderStop, Named, HeldHere, Here
<1>21. ASSUME NEW i \in Sessions, StopSession(i) PROVE TypeInv'
  <2>1. sess' = IF sweep[i] = "fresh" THEN [sess EXCEPT ![i].st = "wait_destroy"] ELSE sess
    BY <1>21 DEF StopSession
  <2>2. /\ sess' \in [Sessions -> Object \cup {Absent}]
        /\ \A j \in Sessions : Here(j) => Here(j)'
    <3>1. CASE sweep[i] = "fresh"
      BY <2>1, <3>1, WriteStatus, "wait_destroy" \in St DEF St
    <3>2. CASE sweep[i] # "fresh"
      BY <2>1, <3>2 DEF Here
    <3>3. QED
      BY <3>1, <3>2
  <2>3. threads' \in [Threads -> Frame] /\ Named' /\ HeldHere'
    <3>1. Goto(Stop, At("spool", "destroy", i, "wait_destroy"))
      BY <1>21 DEF StopSession
    <3>2. QED
      BY <1>a, <1>c, <2>2, <3>1, MovesTo
  <2>4. sweep' \in [Sessions -> {"none", "fresh", "stale"}] /\ SweptHere'
    BY <1>21, <2>2 DEF StopSession
  <2>5. QED
    BY <1>21, <2>2, <2>3, <2>4 DEF StopSession
<1>22. ASSUME StopTimeout PROVE TypeInv'
  <2>1. spooler' \in Seq(Job \cup {Exit})
    BY <1>22, ExitsRange DEF StopTimeout
  <2>2. QED
    BY <1>22, <2>1 DEF StopTimeout, Named, HeldHere, Here
<1>23. ASSUME LeaveLoop PROVE TypeInv'
  <2>1. spooler' \in Seq(Job \cup {Exit})
    BY <1>23, ExitsRange DEF LeaveLoop
  <2>2. QED
    BY <1>23, <2>1 DEF LeaveLoop, Named, HeldHere, Here
<1>24. ASSUME Joined PROVE TypeInv'
  BY <1>24 DEF Joined, Named, HeldHere, Here
<1>25. ASSUME Finalize PROVE TypeInv'
  <2> DEFINE ended(i, lost) ==
               [sess[i] EXCEPT !.st = IF i \in lost THEN "wait_destroy" ELSE "destroyed"]
  <2> PICK lost \in SUBSET Sessions :
         /\ failed' = failed \cup lost
         /\ sess' = [i \in Sessions |-> IF ~Here(i) THEN Absent ELSE ended(i, lost)]
    BY <1>25 DEF Finalize
  <2>1. ASSUME NEW i \in Sessions, Here(i) PROVE ended(i, lost) \in Object
    <3>1. sess[i] \in Object
      BY <2>1 DEF Here
    <3>2. QED
      BY <3>1 DEF Object, St
  <2> HIDE DEF ended
  <2>2. /\ sess' \in [Sessions -> Object \cup {Absent}]
        /\ \A j \in Sessions : Here(j) => Here(j)'
    BY <2>1, ApSRoleAssumption DEF Here
  <2>3. UNCHANGED <<loop, sweep, born, threads, queues, workers, orders>>
        /\ status' = "final" /\ user' \in [Sessions -> BOOLEAN]
        /\ ts' \in [Sessions -> {"none", "logged", "disconnected"}]
    BY <1>25 DEF Finalize
  <2>4. Named' /\ HeldHere' /\ SweptHere'
    BY <2>2, <2>3 DEF Named, HeldHere
  <2>5. QED
    BY <2>2, <2>3, <2>4
<1>26. ASSUME NEW i \in Sessions, User(i) PROVE TypeInv'
  BY <1>26 DEF User, LogsIn, Disconnects, LogsOff, UserActs, Named, HeldHere, Here
<1>27. CASE UNCHANGED vars
  BY <1>27 DEF vars, Named, HeldHere, Here
<1>28. QED
  BY <1>1, <1>2, <1>3, <1>4, <1>5, <1>6, <1>7, <1>8, <1>9, <1>10, <1>11, <1>12, <1>13,
     <1>14, <1>15, <1>16, <1>17, <1>18, <1>19, <1>20, <1>21, <1>22, <1>23, <1>24, <1>25, <1>26, <1>27
     DEF Next, Request, Thread, RunLoop, Work, StopServer

\* The state of the role is what its variables are declared to hold.
THEOREM TypeCorrect == Spec => []TypeOK
<1>1. TypeInv => TypeOK
  BY DEF TypeInv
<1>2. QED
  BY TypeInit, TypeNext, <1>1, PTL DEF Spec
-----------------------------------------------------------------------------
(* A locked session is in the spool.  Most steps only add to the spool and *)
(* lock nothing; the others hand over the piece of work that locked it.    *)

LockedOk(i) == Here(i) /\ sess[i].locked => InSpool(i)

LEMMA SpoolGrows ==
  ASSUME NEW i \in Sessions, LockedOk(i),
         Range(spooler) \subseteq Range(spooler'),
         Range(spooler2) \subseteq Range(spooler2'),
         Range(sync) \subseteq Range(sync'),
         UNCHANGED workers,
         threads[Main].pc = "apply" => UNCHANGED <<threads[Main].pc, threads[Main].id>>,
         Here(i)' /\ sess'[i].locked => Here(i) /\ sess[i].locked
  PROVE  LockedOk(i)'
BY DEF LockedOk, InSpool

\* The same, of a step that only moves a thread which is not applying a copy.
LEMMA ThreadMoves ==
  ASSUME TypeInv, NEW i \in Sessions, LockedOk(i), NEW t \in Threads, NEW f \in Frame,
         Goto(t, f), threads[t].pc # "apply", UNCHANGED <<spooler, spooler2, sync, workers>>,
         Here(i)' /\ sess'[i].locked => Here(i) /\ sess[i].locked
  PROVE  LockedOk(i)'
<1>1. Main \in Threads /\ threads \in [Threads -> Frame]
  BY DEF Threads, TypeInv, TypeOK
<1>2. threads[Main].pc = "apply" => threads'[Main] = threads[Main]
  BY <1>1 DEF Goto
<1>3. QED
  BY <1>2, SpoolGrows

\* A worker that takes something takes it from one of the two queues.
LEMMA TakesOne ==
  ASSUME TypeOK, NEW w \in Workers, WorkerTakes(w)
  PROVE  \E j \in Job \cup {Exit} :
           /\ Range(spooler) \cup Range(spooler2)
                = Range(spooler') \cup Range(spooler2') \cup {j}
           /\ workers' = [workers EXCEPT ![w] = Received(j)]
<1>1. spooler \in Seq(Job \cup {Exit}) /\ spooler2 \in Seq(Job \cup {Exit})
  BY SeqMonotonic DEF TypeOK
<1>2. ASSUME NEW q \in Seq(Job \cup {Exit}), q # <<>>
      PROVE  Head(q) \in Job \cup {Exit} /\ Range(q) = Range(Tail(q)) \cup {Head(q)}
  BY <1>2, TailRange
<1>3. CASE /\ spooler2 # <<>> /\ spooler2' = Tail(spooler2) /\ UNCHANGED spooler
           /\ workers' = [workers EXCEPT ![w] = Received(Head(spooler2))]
  BY <1>1, <1>2, <1>3
<1>4. CASE /\ spooler # <<>> /\ spooler' = Tail(spooler) /\ UNCHANGED spooler2
           /\ workers' = [workers EXCEPT ![w] = Received(Head(spooler))]
  BY <1>1, <1>2, <1>4
<1>5. QED
  BY <1>3, <1>4 DEF WorkerTakes

LEMMA LockedNext == TypeInv /\ LockedIsInSpool /\ [Next]_vars => LockedIsInSpool'
<1> SUFFICES ASSUME TypeInv, LockedIsInSpool, [Next]_vars, NEW i \in Sessions
             PROVE  LockedOk(i)'
  BY DEF LockedIsInSpool, LockedOk
<1> USE DEF role, table, machine, queues, counts
<1>a. LockedOk(i) /\ TypeOK
  BY DEF LockedIsInSpool, LockedOk, TypeInv
<1>b. Main \in Threads /\ Stop \in Threads /\ Handlers \subseteq Threads
  BY DEF Threads
<1>c. /\ Pcs = {"insert", "mark", "spool", "take", "defer", "apply", "watch"}
      /\ Act = {"create", "destroy", "disconnect"}
      /\ {"init", "logged", "wait_destroy"} \subseteq St
  BY DEF Pcs, Act, St
<1>1. ASSUME NEW h \in Handlers, NEW j \in Sessions, ReqSessionCreate(h, j) PROVE LockedOk(i)'
  <2>1. Goto(h, At("insert", "create", j, "init")) /\ threads[h].pc # "apply"
        /\ At("insert", "create", j, "init") \in Frame
    BY <1>1, <1>c, FrameTypes DEF ReqSessionCreate, Free
  <2>2. QED
    BY <1>1, <1>a, <1>b, <2>1, ThreadMoves DEF ReqSessionCreate, Here
<1>2. ASSUME NEW t \in Threads, Insert(t) PROVE LockedOk(i)'
  <2> DEFINE j == threads[t].id
  <2>1. j \in Sessions /\ sess' = [sess EXCEPT ![j] = [st |-> "init", locked |-> FALSE]]
        /\ [st |-> "init", locked |-> FALSE] \in Object
    BY <1>2, <1>a DEF Insert, Named, Object, St, TypeInv
  <2>2. Goto(t, At("spool", "create", j, "init")) /\ threads[t].pc # "apply"
    BY <1>2 DEF Insert
  <2> HIDE DEF j
  <2>3. Here(i)' /\ sess'[i].locked => Here(i) /\ sess[i].locked
    BY <1>a, <2>1, WriteObject DEF Here
  <2>4. At("spool", "create", j, "init") \in Frame
    BY <1>c, <2>1, FrameTypes
  <2>5. QED
    BY <1>2, <1>a, <2>2, <2>3, <2>4, ThreadMoves DEF Insert
<1>3. ASSUME NEW h \in Handlers, NEW j \in Sessions, ReqSessionDestroy(h, j) PROVE LockedOk(i)'
  <2>1. Goto(h, At("mark", "destroy", j, sess[j].st)) /\ threads[h].pc # "apply"
    BY <1>3 DEF ReqSessionDestroy, Free
  <2>2. sess[j].st \in St
    BY <1>3, <1>a DEF ReqSessionDestroy, Here, TypeOK, Object
  <2>3. At("mark", "destroy", j, sess[j].st) \in Frame
    BY <1>c, <2>2, FrameTypes
  <2>4. QED
    BY <1>3, <1>a, <1>b, <2>1, <2>3, ThreadMoves DEF ReqSessionDestroy, Here
<1>4. ASSUME NEW h \in Handlers, NEW j \in Sessions, ReqSessionDisconnect(h, j) PROVE LockedOk(i)'
  <2>1. Goto(h, At("spool", "disconnect", j, "logged")) /\ threads[h].pc # "apply"
        /\ At("spool", "disconnect", j, "logged") \in Frame
    BY <1>4, <1>c, FrameTypes DEF ReqSessionDisconnect, Free
  <2>2. QED
    BY <1>4, <1>a, <1>b, <2>1, ThreadMoves DEF ReqSessionDisconnect, Here
<1>5. ASSUME NEW t \in Threads, Mark(t) PROVE LockedOk(i)'
  <2> DEFINE f == threads[t]
             g == [f EXCEPT !.pc = "spool", !.st = "wait_destroy"]
  <2>1. f \in Frame /\ f.pc = "mark" /\ f.id \in Sessions /\ (f.fresh => Here(f.id))
    BY <1>5, <1>a DEF Mark, TypeInv, TypeOK, Named, HeldHere
  <2>2. g \in Frame /\ Goto(t, g)
    BY <1>5, <2>1 DEF Mark, Frame, St
  <2>3. Write(f, "wait_destroy")
    BY <1>5 DEF Mark
  <2>4. Here(i)' /\ sess'[i].locked => Here(i) /\ sess[i].locked
    BY <1>c, <2>1, <2>3, WriteHeld
  <2> HIDE DEF g
  <2>5. QED
    BY <1>5, <1>a, <2>1, <2>2, <2>4, ThreadMoves DEF Mark
<1>6. ASSUME NEW t \in Threads, SpoolAction(t) PROVE LockedOk(i)'
  <2>1. threads[t].pc # "apply" /\ UNCHANGED <<sess, spooler, spooler2, sync, workers>>
    BY <1>6 DEF SpoolAction
  <2>2. \E f \in Frame : Goto(t, f)
    <3> DEFINE f == threads[t]
    <3>1. f.act \in Act /\ f.id \in Sessions /\ (Here(f.id) => sess[f.id].st \in St)
      BY <1>6, <1>a DEF SpoolAction, TypeInv, TypeOK, Named, Frame, Here, Object
    <3>2. \/ Goto(t, IdleFrame)
          \/ \E pc \in {"take", "defer"} : Here(f.id) /\ Goto(t, At(pc, f.act, f.id, sess[f.id].st))
      BY <1>6 DEF SpoolAction
    <3> HIDE DEF f
    <3>3. QED
      BY <1>c, <3>1, <3>2, FrameTypes
  <2>3. QED
    BY <1>a, <2>1, <2>2, ThreadMoves DEF Here
<1>7. ASSUME NEW t \in Threads, Take(t) PROVE LockedOk(i)'
  <2> DEFINE f == threads[t]
             j == [act |-> f.act, id |-> f.id, st |-> f.st]
  <2>1. f \in Frame /\ f.id \in Sessions /\ (f.fresh => Here(f.id)) /\ f.pc = "take"
    BY <1>7, <1>a DEF Take, TypeInv, TypeOK, Named, HeldHere
  <2>2. j \in Job /\ j.id = f.id /\ spooler' = Append(spooler, j)
    BY <1>7, <2>1 DEF Take, Frame, Job
  <2>3. sess' = IF f.fresh THEN [sess EXCEPT ![f.id].locked = TRUE] ELSE sess
    BY <1>7 DEF Take
  <2>4. threads[Main].pc = "apply" => threads'[Main] = threads[Main]
    BY <1>7, <1>a, <1>b DEF Take, Goto, TypeOK
  <2>5. UNCHANGED <<spooler2, sync, workers>>
    BY <1>7 DEF Take
  <2> HIDE DEF f, j
  <2>6. Range(spooler') = Range(spooler) \cup {j}
    BY <1>a, <2>2, AppendRange DEF TypeOK
  <2>7. CASE i = f.id
    BY <2>2, <2>6, <2>7 DEF LockedOk, InSpool
  <2>8. CASE i # f.id
    <3>1. sess'[i] = sess[i]
      BY <1>a, <2>1, <2>3, <2>8, WriteLock
    <3>2. QED
      BY <1>a, <2>4, <2>5, <2>6, <3>1, SpoolGrows DEF Here
  <2>9. QED
    BY <2>7, <2>8
<1>8. ASSUME NEW t \in Threads, Defer(t) PROVE LockedOk(i)'
  BY <1>8, <1>a, FrameTypes, ThreadMoves DEF Defer, Here
<1>9. ASSUME SyncTake PROVE LockedOk(i)'
  <2> DEFINE c == Head(sync)
  <2>1. c \in Copy /\ Range(sync) = Range(sync') \cup {c}
    BY <1>9, <1>a, TailRange DEF SyncTake, TypeOK
  <2>2. UNCHANGED <<sess, spooler, spooler2, workers>> /\ threads[Main].pc = "idle"
        /\ IF Here(c.id) THEN Goto(Main, At("apply", "create", c.id, c.st))
                         ELSE UNCHANGED threads
    BY <1>9 DEF SyncTake, Free
  <2> HIDE DEF c
  <2>3. CASE Here(c.id)
    <3>1. threads'[Main] = At("apply", "create", c.id, c.st)
      BY <1>a, <1>b, <2>2, <2>3 DEF Goto, TypeOK
    <3>2. threads'[Main].pc = "apply" /\ threads'[Main].id = c.id
      BY <3>1 DEF At
    <3>3. QED
      BY <1>a, <2>1, <2>2, <3>2 DEF LockedOk, InSpool, Here
  <2>4. CASE ~Here(c.id)
    BY <1>a, <2>1, <2>2, <2>4 DEF LockedOk, InSpool, Here
  <2>5. QED
    BY <2>3, <2>4
<1>10. ASSUME SyncApply PROVE LockedOk(i)'
  <2> DEFINE k == threads[Main].id
             st == threads[Main].st
             new == IF st = "destroyed" THEN Absent ELSE Returned(st)
  <2>1. k \in Sessions /\ threads[Main].pc = "apply" /\ sess' = [sess EXCEPT ![k] = new]
    BY <1>10, <1>a, <1>b DEF SyncApply, TypeInv, Named
  <2>2. UNCHANGED <<spooler, spooler2, sync, workers>>
    BY <1>10 DEF SyncApply
  <2>3. new = Absent \/ ~new.locked
    BY DEF Returned
  <2> HIDE DEF st, new
  <2>4. CASE i = k
    BY <1>a, <2>1, <2>3, <2>4 DEF LockedOk, Here, TypeOK
  <2>5. CASE i # k
    BY <1>a, <2>1, <2>2, <2>5 DEF LockedOk, Here, InSpool, TypeOK
  <2>6. QED
    BY <2>4, <2>5
<1>11. ASSUME UpdateLockedSessions PROVE LockedOk(i)'
  <2> PICK k \in 1 .. Len(deferred) :
         \/ UNCHANGED <<sess, spooler2>>
         \/ /\ Here(deferred[k].id)
            /\ sess' = [sess EXCEPT ![deferred[k].id].locked = TRUE]
            /\ spooler2' = Append(spooler2, [act |-> deferred[k].act, id |-> deferred[k].id,
                                             st |-> sess[deferred[k].id].st])
    BY <1>11 DEF UpdateLockedSessions
  <2> DEFINE d == deferred[k]
             j == [act |-> d.act, id |-> d.id, st |-> sess[d.id].st]
  <2>1. d \in [act : Act, id : Sessions]
    BY <1>a, ElementOfSeq DEF TypeOK
  <2>2. UNCHANGED <<threads, spooler, sync, workers>>
    BY <1>11 DEF UpdateLockedSessions
  <2>3. CASE UNCHANGED <<sess, spooler2>>
    BY <1>a, <2>2, <2>3, SpoolGrows DEF Here
  <2>4. CASE /\ Here(d.id) /\ sess' = [sess EXCEPT ![d.id].locked = TRUE]
             /\ spooler2' = Append(spooler2, j)
    <3>1. j \in Job /\ j.id = d.id
      BY <1>a, <2>1, <2>4 DEF Job, Here, Object, TypeOK
    <3> HIDE DEF d, j
    <3>2. Range(spooler2') = Range(spooler2) \cup {j}
      BY <1>a, <2>4, <3>1, AppendRange DEF TypeOK
    <3>3. CASE i = d.id
      BY <3>1, <3>2, <3>3 DEF LockedOk, InSpool
    <3>4. CASE i # d.id
      <4>1. sess'[i] = sess[i]
        BY <1>a, <2>1, <2>4, <3>4, WriteLock
      <4>2. QED
        BY <1>a, <2>2, <3>2, <4>1, SpoolGrows DEF Here
    <3>5. QED
      BY <3>3, <3>4
  <2>5. QED
    BY <2>3, <2>4
<1>12. ASSUME NEW j \in Sessions, WatchGone(j) PROVE LockedOk(i)'
  <2>1. Goto(Main, At("mark", "destroy", j, sess[j].st)) /\ threads[Main].pc # "apply"
        /\ sess[j].st \in St
    BY <1>12, <1>a DEF WatchGone, Watched, Free, Here, TypeOK, Object
  <2>2. At("mark", "destroy", j, sess[j].st) \in Frame
    BY <1>c, <2>1, FrameTypes
  <2>3. QED
    BY <1>12, <1>a, <1>b, <2>1, <2>2, ThreadMoves DEF WatchGone, Here
<1>13. ASSUME NEW j \in Sessions, WatchChange(j) PROVE LockedOk(i)'
  <2>1. Goto(Main, At("watch", "create", j, ts[j])) /\ threads[Main].pc # "apply"
        /\ ts[j] \in St
    BY <1>13 DEF WatchChange, Watched, Free, Follows, St
  <2>2. At("watch", "create", j, ts[j]) \in Frame
    BY <1>c, <2>1, FrameTypes
  <2>3. QED
    BY <1>13, <1>a, <1>b, <2>1, <2>2, ThreadMoves DEF WatchChange, Here
<1>14. ASSUME NEW t \in Threads, Switch(t) PROVE LockedOk(i)'
  <2>1. Write(threads[t], threads[t].st) /\ threads[t].pc = "watch" /\ threads[t].st \in St
    BY <1>14, <1>a DEF Switch, Frame, TypeOK
  <2>2. Here(i)' /\ sess'[i].locked => Here(i) /\ sess[i].locked
    BY <2>1, WriteHeld
  <2>3. QED
    BY <1>14, <1>a, <2>1, <2>2, FrameTypes, ThreadMoves DEF Switch
<1>15. ASSUME NEW w \in Workers, WorkerTakes(w) PROVE LockedOk(i)'
  <2>1. UNCHANGED <<sess, threads, sync>> /\ workers[w].mode = "idle"
    BY <1>15 DEF WorkerTakes
  <2>2. PICK j \in Job \cup {Exit} :
           /\ Range(spooler) \cup Range(spooler2)
                = Range(spooler') \cup Range(spooler2') \cup {j}
           /\ workers' = [workers EXCEPT ![w] = Received(j)]
    BY <1>15, <1>a, TakesOne
  <2>3. j.id = i => workers'[w].mode = "busy" /\ workers'[w].job.id = i
    BY <1>a, <2>2, ApSRoleAssumption DEF Received, Exit, TypeOK
  <2>4. \A v \in Workers : v # w => workers'[v] = workers[v]
    BY <1>a, <2>2 DEF TypeOK
  <2>5. QED
    BY <1>a, <2>1, <2>2, <2>3, <2>4 DEF LockedOk, InSpool, Here
<1>d. ASSUME NEW w \in Workers, workers[w].mode = "busy", NEW st \in St, Done(w, st)
      PROVE  LockedOk(i)'
  <2> DEFINE c == [id |-> workers[w].job.id, st |-> st]
  <2>1. c \in Copy /\ c.id = workers[w].job.id
    BY <1>d, <1>a DEF TypeOK, Worker, Job, Copy
  <2>2. sync' = Append(sync, c) /\ UNCHANGED <<sess, threads, spooler, spooler2>>
        /\ workers' = [workers EXCEPT ![w] = IdleWorker]
    BY <1>d DEF Done
  <2> HIDE DEF c
  <2>3. Range(sync') = Range(sync) \cup {c}
    BY <1>a, <2>1, <2>2, AppendRange DEF TypeOK
  <2>4. QED
    BY <1>a, <2>1, <2>2, <2>3 DEF LockedOk, InSpool, Here, TypeOK
<1>16. ASSUME NEW w \in Workers, CreateSession(w) PROVE LockedOk(i)'
  BY <1>16, <1>d DEF CreateSession, Doing, St
<1>17. ASSUME NEW w \in Workers, DestroySession(w) PROVE LockedOk(i)'
  <2>1. workers[w].mode = "busy" /\ workers[w].job.st \in St
    BY <1>17, <1>a DEF DestroySession, Doing, TypeOK, Worker, Job
  <2>2. QED
    BY <1>17, <1>d, <2>1 DEF DestroySession, St
<1>18. ASSUME NEW w \in Workers, DisconnectSession(w) PROVE LockedOk(i)'
  <2>1. workers[w].mode = "busy" /\ workers[w].job.st \in St
    BY <1>18, <1>a DEF DisconnectSession, Doing, TypeOK, Worker, Job
  <2>2. QED
    BY <1>18, <1>d, <2>1 DEF DisconnectSession, St
<1>19. ASSUME NEW w \in Workers, WorkerDies(w) PROVE LockedOk(i)'
  <2>1. \A v \in Workers : workers'[v] = IF v = w THEN [workers[w] EXCEPT !.mode = "dead"]
                                                  ELSE workers[v]
    BY <1>19, <1>a DEF WorkerDies, TypeOK
  <2>2. workers'[w].mode = "dead" /\ workers'[w].job = workers[w].job
    BY <1>19, <1>a, <2>1 DEF WorkerDies, TypeOK, Worker
  <2>3. UNCHANGED <<sess, threads, spooler, spooler2, sync>>
    BY <1>19 DEF WorkerDies
  <2>4. QED
    BY <1>a, <2>1, <2>2, <2>3 DEF LockedOk, InSpool, Here
<1>20. ASSUME OrderStop PROVE LockedOk(i)'
  BY <1>20, <1>a, SpoolGrows DEF OrderStop, Here
<1>21. ASSUME NEW j \in Sessions, StopSession(j) PROVE LockedOk(i)'
  <2>1. sess' = IF sweep[j] = "fresh" THEN [sess EXCEPT ![j].st = "wait_destroy"] ELSE sess
    BY <1>21 DEF StopSession
  <2>2. Here(i)' /\ sess'[i].locked => Here(i) /\ sess[i].locked
    <3>1. CASE sweep[j] = "fresh"
      BY <1>a, <1>c, <2>1, <3>1, WriteStatus DEF Here, TypeInv, SweptHere
    <3>2. CASE sweep[j] # "fresh"
      BY <2>1, <3>2 DEF Here
    <3>3. QED
      BY <3>1, <3>2
  <2>3. Goto(Stop, At("spool", "destroy", j, "wait_destroy")) /\ threads[Stop].pc # "apply"
        /\ At("spool", "destroy", j, "wait_destroy") \in Frame
    BY <1>21, <1>c, FrameTypes DEF StopSession, Free
  <2>4. QED
    BY <1>21, <1>a, <1>b, <2>2, <2>3, ThreadMoves DEF StopSession
<1>22. ASSUME StopTimeout PROVE LockedOk(i)'
  <2>1. Range(spooler) \subseteq Range(spooler')
    BY <1>22, <1>a, ExitsRange DEF StopTimeout, TypeOK
  <2>2. QED
    BY <1>22, <1>a, <2>1, SpoolGrows DEF StopTimeout, Here
<1>23. ASSUME LeaveLoop PROVE LockedOk(i)'
  <2>1. Range(spooler) \subseteq Range(spooler')
    BY <1>23, <1>a, ExitsRange DEF LeaveLoop, TypeOK
  <2>2. QED
    BY <1>23, <1>a, <2>1, SpoolGrows DEF LeaveLoop, Here
<1>24. ASSUME Joined PROVE LockedOk(i)'
  BY <1>24, <1>a, SpoolGrows DEF Joined, Here
<1>25. ASSUME Finalize PROVE LockedOk(i)'
  <2>1. Here(i)' /\ sess'[i].locked => Here(i) /\ sess[i].locked
    BY <1>25, <1>a DEF Finalize, Here, TypeOK, Object
  <2>2. QED
    BY <1>25, <1>a, <2>1, SpoolGrows DEF Finalize
<1>26. ASSUME NEW j \in Sessions, User(j) PROVE LockedOk(i)'
  BY <1>26, <1>a, SpoolGrows DEF User, LogsIn, Disconnects, LogsOff, UserActs, Here
<1>27. CASE UNCHANGED vars
  BY <1>27, <1>a, SpoolGrows DEF vars, Here
<1>28. QED
  BY <1>1, <1>2, <1>3, <1>4, <1>5, <1>6, <1>7, <1>8, <1>9, <1>10, <1>11, <1>12, <1>13,
     <1>14, <1>15, <1>16, <1>17, <1>18, <1>19, <1>20, <1>21, <1>22, <1>23, <1>24, <1>25, <1>26, <1>27
     DEF Next, Request, Thread, RunLoop, Work, StopServer

\* A session is never left locked with nobody to unlock it: for any number of
\* HTTP threads and workers, whatever the races around Role.spool_action.
THEOREM LockedSafe == Spec => []LockedIsInSpool
<1>1. Init => LockedIsInSpool
  BY DEF Init, LockedIsInSpool, Here
<1>2. QED
  BY TypeInit, TypeNext, LockedNext, <1>1, PTL DEF Spec
-----------------------------------------------------------------------------
(* No order to destroy a session is lost.  The order is handed over from   *)
(* thread to queue to worker to queue to the role's loop; the proof says   *)
(* at each step who holds it after the step.                               *)

\* Only an order to destroy marks a session, and the walk never does; a worker that sends back a
\* session which still waits for its destruction has given up on it.
MarkDestroys ==
  \A t \in Threads : /\ threads[t].pc = "mark" => threads[t].act = "destroy"
                     /\ threads[t].pc = "watch" => threads[t].st # "wait_destroy"
GivenUp ==
  /\ \A c \in Range(sync) : c.st = "wait_destroy" => c.id \in failed
  /\ threads[Main].pc = "apply" /\ threads[Main].st = "wait_destroy"
       => threads[Main].id \in failed
DestroyInv == MarkDestroys /\ GivenUp /\ DestroyIsPending

\* The places an order to destroy session i can be in.
Carries(f, i) == f.pc \in {"spool", "take", "defer"} /\ Destroys(f, i)
Works(w, i) == w.mode \in {"busy", "dead"} /\ Destroys(w.job, i)
Applies(f, i) == f.pc = "apply" /\ f.st = "destroyed" /\ f.id = i
Waits(i) == Here(i) /\ sess[i].st = "wait_destroy"
PendingOk(i) == Waits(i) /\ i \notin failed => DestroyInSpool(i)

LEMMA Places ==
  ASSUME NEW i
  PROVE  DestroyInSpool(i) <=>
           \/ \E t \in Threads : Carries(threads[t], i)
           \/ \E d \in Range(deferred) \cup Range(spooler) \cup Range(spooler2) : Destroys(d, i)
           \/ \E w \in Workers : Works(workers[w], i)
           \/ \E c \in Range(sync) : c.st = "destroyed" /\ c.id = i
           \/ Applies(threads[Main], i)
BY DEF DestroyInSpool, Carries, Works, Applies

QueuesGrow ==
  /\ Range(deferred) \subseteq Range(deferred')
  /\ Range(spooler) \subseteq Range(spooler')
  /\ Range(spooler2) \subseteq Range(spooler2')
  /\ Range(sync) \subseteq Range(sync')

\* Steps that move no order and mark no session.
LEMMA Quiet ==
  ASSUME NEW i, PendingOk(i), QueuesGrow, UNCHANGED <<threads, workers>>,
         failed \subseteq failed', Waits(i)' => Waits(i) \/ i \in failed'
  PROVE  PendingOk(i)'
<1>1. DestroyInSpool(i) => DestroyInSpool(i)'
  BY Places DEF QueuesGrow, DestroyInSpool
<1>2. QED
  BY <1>1 DEF PendingOk

\* Steps in which a thread that applies no copy moves on: it keeps the order it
\* carries, and carries one for a session it has marked.
LEMMA Carried ==
  ASSUME TypeInv, NEW i \in Sessions, PendingOk(i),
         NEW t \in Threads, NEW f \in Frame, Goto(t, f), threads[t].pc # "apply",
         UNCHANGED <<deferred, spooler, spooler2, sync, workers, failed>>,
         Waits(i)' /\ Carries(threads[t], i) => Carries(f, i),
         Waits(i)' => Waits(i) \/ Carries(f, i)
  PROVE  PendingOk(i)'
<1>1. Main \in Threads /\ \A u \in Threads : threads'[u] = IF u = t THEN f ELSE threads[u]
  BY DEF Threads, TypeInv, TypeOK, Goto
<1> SUFFICES ASSUME Waits(i)', i \notin failed PROVE DestroyInSpool(i)'
  BY DEF PendingOk
<1>2. CASE Carries(f, i)
  BY <1>1, <1>2 DEF DestroyInSpool, Carries
<1>3. CASE ~Carries(f, i)
  <2>1. DestroyInSpool(i) /\ ~Carries(threads[t], i)
    BY <1>3 DEF PendingOk
  <2>2. \A u \in Threads : Carries(threads[u], i) => threads'[u] = threads[u]
    BY <1>1, <2>1
  <2>3. Applies(threads[Main], i) => threads'[Main] = threads[Main]
    BY <1>1 DEF Applies
  <2>4. QED
    BY <2>1, <2>2, <2>3 DEF DestroyInSpool, Carries, Applies
<1>4. QED
  BY <1>2, <1>3
-----------------------------------------------------------------------------
\* A thread that goes to f, of which "mark" is only reached to destroy.
LEMMA MarkMoves ==
  ASSUME TypeInv, MarkDestroys, NEW t \in Threads, NEW f, Goto(t, f),
         f.pc = "mark" => f.act = "destroy", f.pc = "watch" => f.st # "wait_destroy"
  PROVE  MarkDestroys'
BY DEF Goto, MarkDestroys, TypeInv, TypeOK

LEMMA MarkNext == TypeInv /\ MarkDestroys /\ [Next]_vars => MarkDestroys'
<1> SUFFICES ASSUME TypeInv, MarkDestroys, [Next]_vars PROVE MarkDestroys'
  OBVIOUS
<1>a. /\ Main \in Threads /\ Stop \in Threads /\ Handlers \subseteq Threads
      /\ IdleFrame.pc = "idle"
      /\ \A pc, act, i, st : At(pc, act, i, st).pc = pc /\ At(pc, act, i, st).act = act
                             /\ At(pc, act, i, st).st = st
  BY DEF Threads, IdleFrame, At
<1>1. ASSUME NEW h \in Handlers, NEW i \in Sessions, Request(h, i) PROVE MarkDestroys'
  BY <1>1, <1>a, MarkMoves
     DEF Request, ReqSessionCreate, ReqSessionDestroy, ReqSessionDisconnect
<1>2. ASSUME NEW t \in Threads, Thread(t) PROVE MarkDestroys'
  <2>1. CASE Mark(t)
    <3> DEFINE f == [threads[t] EXCEPT !.pc = "spool", !.st = "wait_destroy"]
    <3>1. f.pc = "spool" /\ Goto(t, f)
      BY <2>1 DEF Mark, TypeInv, TypeOK, Frame
    <3> HIDE DEF f
    <3>2. QED
      BY <3>1, MarkMoves
  <2>2. CASE SpoolAction(t)
    BY <2>2, <1>a, MarkMoves DEF SpoolAction
  <2>3. CASE Take(t)
    BY <2>3, <1>a, MarkMoves DEF Take
  <2>4. CASE Defer(t)
    BY <2>4, <1>a, MarkMoves DEF Defer
  <2>5. CASE Insert(t)
    BY <2>5, <1>a, MarkMoves DEF Insert
  <2>6. CASE Switch(t)
    BY <2>6, <1>a, MarkMoves DEF Switch
  <2>7. QED
    BY <1>2, <2>1, <2>2, <2>3, <2>4, <2>5, <2>6 DEF Thread
<1>3. CASE SyncTake
  BY <1>3, <1>a, MarkMoves DEF SyncTake, MarkDestroys
<1>4. CASE SyncApply
  <2>1. \A t \in Threads :
          threads'[t].pc \in {"mark", "watch"} =>
            /\ threads[t].pc = threads'[t].pc
            /\ threads'[t].act = threads[t].act /\ threads'[t].st = threads[t].st
    BY <1>4, <1>a DEF SyncApply, TypeInv, TypeOK, Frame
  <2>2. QED
    BY <2>1 DEF MarkDestroys
<1>5. ASSUME NEW i \in Sessions, WatchGone(i) PROVE MarkDestroys'
  BY <1>5, <1>a, MarkMoves DEF WatchGone
<1>6. ASSUME NEW i \in Sessions, StopSession(i) PROVE MarkDestroys'
  BY <1>6, <1>a, MarkMoves DEF StopSession
<1>7. CASE UNCHANGED threads
  BY <1>7 DEF MarkDestroys
<1>8. ASSUME NEW w \in Workers, Work(w) \/ WorkerDies(w) PROVE MarkDestroys'
  BY <1>7, <1>8 DEF Work, WorkerTakes, CreateSession, DestroySession, DisconnectSession,
                    Done, WorkerDies
<1>9. ASSUME NEW i \in Sessions, User(i) PROVE MarkDestroys'
  BY <1>7, <1>9 DEF User, LogsIn, Disconnects, LogsOff, UserActs
<1>10. ASSUME NEW i \in Sessions, WatchChange(i) PROVE MarkDestroys'
  BY <1>10, <1>a, MarkMoves DEF WatchChange, Follows
<1>11. CASE UpdateLockedSessions \/ LeaveLoop \/ Joined
  BY <1>7, <1>11 DEF UpdateLockedSessions, LeaveLoop, Joined
<1>12. CASE OrderStop \/ StopTimeout \/ Finalize
  BY <1>7, <1>12 DEF OrderStop, StopTimeout, Finalize
<1>13. CASE UNCHANGED vars
  BY <1>7, <1>13 DEF vars
<1>14. QED
  BY <1>1, <1>2, <1>3, <1>4, <1>5, <1>6, <1>8, <1>9, <1>10, <1>11, <1>12, <1>13
     DEF Next, RunLoop, StopServer
-----------------------------------------------------------------------------
\* Steps after which nothing more is on its way back.
LEMMA NothingBack ==
  ASSUME GivenUp, Range(sync') \subseteq Range(sync), failed \subseteq failed',
         threads'[Main].pc = "apply" => threads'[Main] = threads[Main]
  PROVE  GivenUp'
BY DEF GivenUp

\* What a worker sends back.
LEMMA SentBack ==
  ASSUME TypeInv, GivenUp, NEW w \in Workers, NEW st \in St, workers[w].mode = "busy",
         Done(w, st), failed \subseteq failed',
         st = "wait_destroy" => workers[w].job.id \in failed'
  PROVE  GivenUp'
<1> DEFINE c == [id |-> workers[w].job.id, st |-> st]
<1>1. c \in Copy /\ c.id = workers[w].job.id /\ c.st = st
  BY DEF TypeInv, TypeOK, Worker, Job, Copy
<1>2. sync' = Append(sync, c) /\ UNCHANGED threads
  BY DEF Done
<1> HIDE DEF c
<1>3. Range(sync') = Range(sync) \cup {c}
  BY <1>1, <1>2, AppendRange DEF TypeInv, TypeOK
<1>4. QED
  BY <1>1, <1>2, <1>3 DEF GivenUp

LEMMA GivenNext == TypeInv /\ GivenUp /\ [Next]_vars => GivenUp'
<1> SUFFICES ASSUME TypeInv, GivenUp, [Next]_vars PROVE GivenUp'
  OBVIOUS
<1> USE DEF role, table, machine, queues, counts
<1>a. Main \in Threads /\ Stop \in Threads /\ Handlers \subseteq Threads /\ Main \notin Handlers
      /\ Main # Stop /\ threads \in [Threads -> Frame]
  BY ApSRoleAssumption DEF Threads, TypeInv, TypeOK
<1>b. ASSUME NEW t \in Threads, NEW f, Goto(t, f), f.pc # "apply"
      PROVE  threads'[Main].pc = "apply" => threads'[Main] = threads[Main]
  BY <1>a, <1>b DEF Goto
<1>c. /\ IdleFrame.pc # "apply"
      /\ \A pc, act, i, st : At(pc, act, i, st).pc = pc /\ At(pc, act, i, st).id = i
                             /\ At(pc, act, i, st).st = st
  BY DEF IdleFrame, At
<1>1. ASSUME NEW h \in Handlers, NEW i \in Sessions, Request(h, i) PROVE GivenUp'
  BY <1>1, <1>a, <1>b, <1>c, NothingBack
     DEF Request, ReqSessionCreate, ReqSessionDestroy, ReqSessionDisconnect, Ordered
<1>2. ASSUME NEW t \in Threads, Thread(t) PROVE GivenUp'
  <2>1. CASE Mark(t)
    <3> DEFINE f == [threads[t] EXCEPT !.pc = "spool", !.st = "wait_destroy"]
    <3>1. f.pc = "spool" /\ Goto(t, f)
      BY <1>a, <2>1 DEF Mark, Frame
    <3> HIDE DEF f
    <3>2. QED
      BY <1>b, <2>1, <3>1, NothingBack DEF Mark
  <2>2. CASE SpoolAction(t)
    BY <2>2, <1>b, <1>c, NothingBack DEF SpoolAction
  <2>3. CASE Take(t)
    BY <2>3, <1>b, <1>c, NothingBack DEF Take
  <2>4. CASE Defer(t)
    BY <2>4, <1>b, <1>c, NothingBack DEF Defer
  <2>5. CASE Insert(t)
    BY <2>5, <1>b, <1>c, NothingBack DEF Insert
  <2>6. CASE Switch(t)
    BY <2>6, <1>b, <1>c, NothingBack DEF Switch
  <2>7. QED
    BY <1>2, <2>1, <2>2, <2>3, <2>4, <2>5, <2>6 DEF Thread
<1>3. CASE SyncTake
  <2> DEFINE c == Head(sync)
  <2>1. Range(sync) = Range(sync') \cup {c} /\ UNCHANGED failed
    BY <1>3, TailRange DEF SyncTake, TypeInv, TypeOK
  <2>2. UNCHANGED threads \/ Goto(Main, At("apply", "create", c.id, c.st))
    BY <1>3 DEF SyncTake
  <2> HIDE DEF c
  <2>3. CASE Goto(Main, At("apply", "create", c.id, c.st))
    BY <1>a, <1>c, <2>1, <2>3 DEF GivenUp, Goto
  <2>4. QED
    BY <2>1, <2>2, <2>3 DEF GivenUp
<1>4. CASE SyncApply
  BY <1>4, <1>a, <1>c, NothingBack DEF SyncApply
<1>5. ASSUME NEW i \in Sessions, WatchGone(i) PROVE GivenUp'
  BY <1>5, <1>a, <1>b, <1>c, NothingBack DEF WatchGone
<1>6. ASSUME NEW i \in Sessions, StopSession(i) PROVE GivenUp'
  BY <1>6, <1>a, <1>b, <1>c, NothingBack DEF StopSession
<1>7. ASSUME NEW w \in Workers, Work(w) PROVE GivenUp'
  <2>1. CASE WorkerTakes(w)
    BY <2>1, NothingBack DEF WorkerTakes
  <2>2. workers[w].mode = "busy" => workers[w].job.st \in St
    BY DEF TypeInv, TypeOK, Worker, Job
  <2>3. {"ready", "destroyed", "error", "disconnected"} \subseteq St
    BY DEF St
  <2>4. CASE CreateSession(w)
    BY <2>3, <2>4, SentBack DEF CreateSession, Doing, GivesUp, GivenUpOn
  <2>5. CASE DestroySession(w)
    BY <2>2, <2>3, <2>5, SentBack DEF DestroySession, Doing, GivesUp, GivenUpOn
  <2>6. CASE DisconnectSession(w)
    BY <2>2, <2>3, <2>6, SentBack DEF DisconnectSession, Doing, GivenUpOn
  <2>7. QED
    BY <1>7, <2>1, <2>4, <2>5, <2>6 DEF Work
<1>8. ASSUME NEW w \in Workers, WorkerDies(w) PROVE GivenUp'
  BY <1>8, NothingBack DEF WorkerDies
<1>9. ASSUME NEW i \in Sessions, User(i) PROVE GivenUp'
  BY <1>9, NothingBack DEF User, LogsIn, Disconnects, LogsOff, UserActs
<1>10. ASSUME NEW i \in Sessions, WatchChange(i) PROVE GivenUp'
  BY <1>10, <1>a, <1>b, <1>c, NothingBack DEF WatchChange
<1>11. CASE UpdateLockedSessions \/ LeaveLoop \/ Joined
  BY <1>11, NothingBack DEF UpdateLockedSessions, LeaveLoop, Joined
<1>12. CASE OrderStop \/ StopTimeout \/ Finalize
  BY <1>12, NothingBack DEF OrderStop, StopTimeout, Finalize
<1>13. CASE UNCHANGED vars
  BY <1>13, NothingBack DEF vars
<1>14. QED
  BY <1>1, <1>2, <1>3, <1>4, <1>5, <1>6, <1>7, <1>8, <1>9, <1>10, <1>11, <1>12, <1>13
     DEF Next, RunLoop, StopServer
-----------------------------------------------------------------------------
LEMMA PendingNext == TypeInv /\ DestroyInv /\ [Next]_vars => DestroyIsPending'
<1> SUFFICES ASSUME TypeInv, DestroyInv, [Next]_vars, NEW i \in Sessions
             PROVE  PendingOk(i)'
  BY DEF DestroyIsPending, PendingOk, Waits
<1> USE DEF role, table, machine, queues, counts
<1>a. PendingOk(i) /\ TypeOK
  BY DEF DestroyInv, DestroyIsPending, PendingOk, Waits, TypeInv
<1>b. /\ Main \in Threads /\ Stop \in Threads /\ Handlers \subseteq Threads
      /\ Pcs = {"insert", "mark", "spool", "take", "defer", "apply", "watch"}
      /\ Act = {"create", "destroy", "disconnect"}
      /\ {"init", "logged", "wait_destroy"} \subseteq St
  BY DEF Threads, Pcs, Act, St
\* The requests.
<1>1. ASSUME NEW h \in Handlers, NEW j \in Sessions, ReqSessionCreate(h, j) PROVE PendingOk(i)'
  <2>1. At("insert", "create", j, "init") \in Frame /\ threads[h].pc = "idle"
        /\ Goto(h, At("insert", "create", j, "init"))
    BY <1>1, <1>b, FrameTypes DEF ReqSessionCreate, Free
  <2>2. QED
    BY <1>1, <1>a, <1>b, <2>1, Carried DEF ReqSessionCreate, Carries, Waits, Here
<1>2. ASSUME NEW t \in Threads, Insert(t) PROVE PendingOk(i)'
  <2> DEFINE j == threads[t].id
  <2>1. j \in Sessions /\ sess' = [sess EXCEPT ![j] = [st |-> "init", locked |-> FALSE]]
        /\ [st |-> "init", locked |-> FALSE] \in Object
    BY <1>2 DEF Insert, Named, Object, St, TypeInv
  <2>2. Goto(t, At("spool", "create", j, "init")) /\ threads[t].pc = "insert"
        /\ UNCHANGED <<deferred, spooler, spooler2, sync, workers, failed>>
    BY <1>2 DEF Insert
  <2> HIDE DEF j
  <2>3. Waits(i)' => Waits(i)
    BY <1>a, <2>1, WriteObject DEF Waits, Here
  <2>4. At("spool", "create", j, "init") \in Frame
    BY <1>b, <2>1, FrameTypes
  <2>5. QED
    BY <1>a, <2>2, <2>3, <2>4, Carried DEF Carries
<1>3. ASSUME NEW h \in Handlers, NEW j \in Sessions, ReqSessionDestroy(h, j) PROVE PendingOk(i)'
  <2>1. sess[j].st \in St
    BY <1>3, <1>a DEF ReqSessionDestroy, Here, TypeOK, Object
  <2>2. At("mark", "destroy", j, sess[j].st) \in Frame /\ threads[h].pc = "idle"
        /\ Goto(h, At("mark", "destroy", j, sess[j].st))
    BY <1>3, <1>b, <2>1, FrameTypes DEF ReqSessionDestroy, Free
  <2>3. QED
    BY <1>3, <1>a, <1>b, <2>2, Carried DEF ReqSessionDestroy, Ordered, Carries, Waits, Here
<1>4. ASSUME NEW h \in Handlers, NEW j \in Sessions, ReqSessionDisconnect(h, j) PROVE PendingOk(i)'
  <2>1. At("spool", "disconnect", j, "logged") \in Frame /\ threads[h].pc = "idle"
        /\ Goto(h, At("spool", "disconnect", j, "logged"))
    BY <1>4, <1>b, FrameTypes DEF ReqSessionDisconnect, Free
  <2>2. QED
    BY <1>4, <1>a, <1>b, <2>1, Carried DEF ReqSessionDisconnect, Ordered, Carries, Waits, Here
\* A marked session has its order at the thread that marked it.
<1>5. ASSUME NEW t \in Threads, Mark(t) PROVE PendingOk(i)'
  <2> DEFINE f == threads[t]
             g == [f EXCEPT !.pc = "spool", !.st = "wait_destroy"]
  <2>1. /\ f \in Frame /\ f.pc = "mark" /\ f.id \in Sessions /\ (f.fresh => Here(f.id))
        /\ f.act = "destroy"
    BY <1>5, <1>a DEF Mark, TypeInv, TypeOK, Named, HeldHere, DestroyInv, MarkDestroys
  <2>2. g \in Frame /\ Goto(t, g) /\ g.pc = "spool" /\ g.act = "destroy" /\ g.id = f.id
    BY <1>5, <2>1 DEF Mark, Frame, St
  <2>3. Write(f, "wait_destroy")
    BY <1>5 DEF Mark
  <2>4. i # f.id => (Waits(i)' => Waits(i))
    BY <1>b, <2>1, <2>3, WriteHeld DEF Waits, Here
  <2>5. UNCHANGED <<deferred, spooler, spooler2, sync, workers, failed>>
    BY <1>5 DEF Mark
  <2> HIDE DEF g
  <2>6. QED
    BY <1>a, <2>1, <2>2, <2>4, <2>5, Carried DEF Carries, Destroys
\* An order to destroy a session of the table is taken or put off.
<1>6. ASSUME NEW t \in Threads, SpoolAction(t) PROVE PendingOk(i)'
  <2> DEFINE f == threads[t]
  <2>1. f \in Frame /\ f.pc = "spool" /\ f.id \in Sessions
    BY <1>6, <1>a DEF SpoolAction, TypeInv, TypeOK, Named
  <2>2. UNCHANGED <<sess, deferred, spooler, spooler2, sync, workers, failed>>
    BY <1>6 DEF SpoolAction
  <2>3. CASE ~Here(f.id) /\ Goto(t, IdleFrame)
    BY <1>a, <2>1, <2>2, <2>3, FrameTypes, Carried DEF Carries, Destroys, Waits, Here
  <2>4. ASSUME NEW pc \in {"take", "defer"},
               Here(f.id), Goto(t, At(pc, f.act, f.id, sess[f.id].st))
        PROVE  PendingOk(i)'
    <3> DEFINE g == At(pc, f.act, f.id, sess[f.id].st)
    <3>1. f.act \in Act /\ sess[f.id].st \in St /\ pc \in Pcs
      BY <1>a, <1>b, <2>1, <2>4 DEF Frame, Here, TypeOK, Object
    <3>2. g \in Frame /\ g.pc = pc /\ g.act = f.act /\ g.id = f.id
      BY <2>1, <3>1, FrameTypes
    <3>3. Goto(t, g)
      BY <2>4
    <3> HIDE DEF g
    <3>4. QED
      BY <1>a, <2>1, <2>2, <3>2, <3>3, Carried DEF Carries, Destroys, Waits, Here
  <2>5. QED
    BY <1>6, <2>3, <2>4 DEF SpoolAction
\* Taken: the order goes from the thread to the spooler.
<1>7. ASSUME NEW t \in Threads, Take(t) PROVE PendingOk(i)'
  <2> DEFINE f == threads[t]
             j == [act |-> f.act, id |-> f.id, st |-> f.st]
  <2>1. f \in Frame /\ f.id \in Sessions /\ (f.fresh => Here(f.id)) /\ f.pc = "take"
    BY <1>7, <1>a DEF Take, TypeInv, TypeOK, Named, HeldHere
  <2>2. j \in Job /\ j.id = f.id /\ j.act = f.act /\ spooler' = Append(spooler, j)
    BY <1>7, <2>1 DEF Take, Frame, Job
  <2>3. sess' = IF f.fresh THEN [sess EXCEPT ![f.id].locked = TRUE] ELSE sess
    BY <1>7 DEF Take
  <2>4. \A u \in Threads : u # t => threads'[u] = threads[u]
    BY <1>7, <1>a DEF Take, Goto, TypeOK
  <2>5. UNCHANGED <<deferred, spooler2, sync, workers, failed>>
    BY <1>7 DEF Take
  <2> HIDE DEF f, j
  <2>6. Range(spooler') = Range(spooler) \cup {j}
    BY <1>a, <2>2, AppendRange DEF TypeOK
  <2>7. Waits(i)' => Waits(i)
    BY <1>a, <2>1, <2>3, WriteLock DEF Waits, Here
  <2>8. Carries(f, i) => Destroys(j, i)
    BY <2>2 DEF Carries, Destroys
  <2>9. Applies(threads[Main], i) => threads'[Main] = threads[Main]
    BY <1>b, <2>1, <2>4 DEF Applies, f
  <2>10. DestroyInSpool(i) => DestroyInSpool(i)'
    <3> SUFFICES ASSUME DestroyInSpool(i) PROVE DestroyInSpool(i)'
      OBVIOUS
    <3>1. CASE Carries(f, i)
      BY <2>6, <2>8, <3>1 DEF DestroyInSpool
    <3>2. CASE ~Carries(f, i)
      <4>1. \A u \in Threads : Carries(threads[u], i) => threads'[u] = threads[u]
        BY <2>4, <3>2 DEF f
      <4>2. QED
        BY <2>5, <2>6, <2>9, <4>1 DEF DestroyInSpool, Carries, Applies
    <3>3. QED
      BY <3>1, <3>2
  <2>11. QED
    BY <1>a, <2>5, <2>7, <2>10 DEF PendingOk
\* Put off: from the thread to locked_sessions.
<1>8. ASSUME NEW t \in Threads, Defer(t) PROVE PendingOk(i)'
  <2> DEFINE f == threads[t]
             d == [act |-> f.act, id |-> f.id]
             Put == [act : Act, id : Sessions]
  <2>1. f \in Frame /\ f.id \in Sessions /\ f.pc = "defer"
    BY <1>8, <1>a DEF Defer, TypeInv, TypeOK, Named
  <2>2. d \in Put /\ d.id = f.id /\ d.act = f.act
        /\ deferred' = Append(deferred, d) /\ deferred \in Seq(Put)
    BY <1>8, <1>a, <2>1 DEF Defer, Frame, TypeOK
  <2>3. \A u \in Threads : u # t => threads'[u] = threads[u]
    BY <1>8, <1>a DEF Defer, Goto, TypeOK
  <2>4. UNCHANGED <<sess, spooler, spooler2, sync, workers, failed>>
    BY <1>8 DEF Defer
  <2> HIDE DEF f, d, Put
  <2>5. Range(deferred') = Range(deferred) \cup {d}
    BY <2>2, AppendRange
  <2>6. Carries(f, i) => Destroys(d, i)
    BY <2>2 DEF Carries, Destroys
  <2>7. Applies(threads[Main], i) => threads'[Main] = threads[Main]
    BY <1>b, <2>1, <2>3 DEF Applies, f
  <2>8. DestroyInSpool(i) => DestroyInSpool(i)'
    <3> SUFFICES ASSUME DestroyInSpool(i) PROVE DestroyInSpool(i)'
      OBVIOUS
    <3>1. CASE Carries(f, i)
      BY <2>5, <2>6, <3>1 DEF DestroyInSpool
    <3>2. CASE ~Carries(f, i)
      <4>1. \A u \in Threads : Carries(threads[u], i) => threads'[u] = threads[u]
        BY <2>3, <3>2 DEF f
      <4>2. QED
        BY <2>4, <2>5, <2>7, <4>1 DEF DestroyInSpool, Carries, Applies
    <3>3. QED
      BY <3>1, <3>2
  <2>9. QED
    BY <1>a, <2>4, <2>8 DEF PendingOk, Waits, Here
\* Done and on its way back: from the queue to the role's loop.
<1>9. ASSUME SyncTake PROVE PendingOk(i)'
  <2> DEFINE c == Head(sync)
             f == At("apply", "create", c.id, c.st)
  <2>1. c \in Copy /\ Range(sync) = Range(sync') \cup {c}
    BY <1>9, <1>a, TailRange DEF SyncTake, TypeOK
  <2>2. UNCHANGED <<sess, deferred, spooler, spooler2, workers, failed>>
        /\ threads[Main].pc = "idle" /\ IF Here(c.id) THEN Goto(Main, f) ELSE UNCHANGED threads
    BY <1>9 DEF SyncTake, Free
  <2>3. f.pc = "apply" /\ f.id = c.id /\ f.st = c.st
    BY DEF At
  <2> HIDE DEF c, f
  <2>4. CASE Here(c.id)
    <3>1. threads'[Main] = f /\ \A u \in Threads : u # Main => threads'[u] = threads[u]
      BY <1>a, <1>b, <2>2, <2>4 DEF Goto, TypeOK
    <3>2. DestroyInSpool(i) => DestroyInSpool(i)'
      BY <1>b, <2>1, <2>2, <2>3, <3>1 DEF DestroyInSpool
    <3>3. QED
      BY <1>a, <2>2, <3>2 DEF PendingOk, Waits, Here
  <2>5. CASE ~Here(c.id)
    <3>1. Here(i) /\ DestroyInSpool(i) => DestroyInSpool(i)'
      BY <2>1, <2>2, <2>5 DEF DestroyInSpool
    <3>2. QED
      BY <1>a, <2>2, <3>1 DEF PendingOk, Waits, Here
  <2>6. QED
    BY <2>4, <2>5
\* The session leaves the table, or the worker has given up on it.
<1>10. ASSUME SyncApply PROVE PendingOk(i)'
  <2> DEFINE k == threads[Main].id
             st == threads[Main].st
             new == IF st = "destroyed" THEN Absent ELSE Returned(st)
  <2>1. k \in Sessions /\ threads[Main].pc = "apply" /\ sess' = [sess EXCEPT ![k] = new]
        /\ UNCHANGED <<deferred, spooler, spooler2, sync, workers, failed>>
    BY <1>10, <1>a, <1>b DEF SyncApply, TypeInv, Named
  <2>2. new = Absent \/ new.st = st
    BY DEF Returned
  <2>3. CASE i = k
    <3>1. st = "wait_destroy" => k \in failed
      BY <2>1 DEF DestroyInv, GivenUp
    <3> HIDE DEF st, new, k
    <3>2. QED
      BY <1>a, <2>1, <2>2, <2>3, <3>1 DEF PendingOk, Waits, Here, TypeOK
  <2>4. CASE i # k
    <3>1. \A t \in Threads : Carries(threads[t], i) => Carries(threads'[t], i)
      BY <1>10, <1>a, <1>b, <2>1 DEF SyncApply, Carries, Destroys, TypeOK, Frame
    <3>2. ~Applies(threads[Main], i)
      BY <2>4 DEF Applies
    <3> HIDE DEF new, k
    <3>3. sess'[i] = sess[i]
      BY <1>a, <2>1, <2>4 DEF TypeOK
    <3>4. DestroyInSpool(i) => DestroyInSpool(i)'
      BY <2>1, <3>1, <3>2 DEF DestroyInSpool, Carries, Applies
    <3>5. QED
      BY <1>a, <2>1, <3>3, <3>4 DEF PendingOk, Waits, Here
  <2>5. QED
    BY <2>3, <2>4
\* From locked_sessions to the second spooler, if the session is still there.
<1>11. ASSUME UpdateLockedSessions PROVE PendingOk(i)'
  <2> PICK k \in 1 .. Len(deferred) :
         /\ deferred' = RemoveAt(deferred, k)
         /\ \/ ~Here(deferred[k].id) /\ UNCHANGED <<sess, spooler2>>
            \/ /\ Here(deferred[k].id)
               /\ sess' = [sess EXCEPT ![deferred[k].id].locked = TRUE]
               /\ spooler2' = Append(spooler2, [act |-> deferred[k].act, id |-> deferred[k].id,
                                                st |-> sess[deferred[k].id].st])
    BY <1>11 DEF UpdateLockedSessions
  <2> DEFINE d == deferred[k]
             j == [act |-> d.act, id |-> d.id, st |-> sess[d.id].st]
             Put == [act : Act, id : Sessions]
  <2>1. UNCHANGED <<threads, spooler, sync, workers, failed>>
    BY <1>11 DEF UpdateLockedSessions
  <2>2. deferred \in Seq(Put)
    BY <1>a DEF TypeOK
  <2>3. d \in Put /\ Range(deferred) = Range(deferred') \cup {d}
    <3> HIDE DEF Put
    <3>1. QED
      BY <2>2, RemoveRange
  <2>4. d.id \in Sessions /\ d.act \in Act
    BY <2>3
  <2> HIDE DEF d, Put
  <2>5. CASE ~Here(d.id) /\ UNCHANGED <<sess, spooler2>>
    <3>1. Here(i) /\ DestroyInSpool(i) => DestroyInSpool(i)'
      BY <2>1, <2>3, <2>5 DEF DestroyInSpool, Destroys
    <3>2. QED
      BY <1>a, <2>1, <2>5, <3>1 DEF PendingOk, Waits, Here
  <2>6. CASE /\ Here(d.id) /\ sess' = [sess EXCEPT ![d.id].locked = TRUE]
             /\ spooler2' = Append(spooler2, j)
    <3>1. j \in Job /\ j.id = d.id /\ j.act = d.act
      BY <1>a, <2>4, <2>6 DEF Job, Here, Object, TypeOK
    <3> HIDE DEF j
    <3>2. Range(spooler2') = Range(spooler2) \cup {j}
      BY <1>a, <2>6, <3>1, AppendRange DEF TypeOK
    <3>3. Waits(i)' => Waits(i)
      BY <1>a, <2>4, <2>6, WriteLock DEF Waits, Here
    <3>4. Destroys(d, i) => Destroys(j, i)
      BY <3>1 DEF Destroys
    <3>5. DestroyInSpool(i) => DestroyInSpool(i)'
      BY <2>1, <2>3, <3>2, <3>4 DEF DestroyInSpool
    <3>6. QED
      BY <1>a, <2>1, <3>3, <3>5 DEF PendingOk
  <2>7. QED
    BY <2>5, <2>6 DEF d
\* The walk over the sessions.
<1>12. ASSUME NEW j \in Sessions, WatchGone(j) PROVE PendingOk(i)'
  <2>1. sess[j].st \in St
    BY <1>12, <1>a DEF WatchGone, Watched, Here, TypeOK, Object
  <2>2. At("mark", "destroy", j, sess[j].st) \in Frame /\ threads[Main].pc = "idle"
        /\ Goto(Main, At("mark", "destroy", j, sess[j].st))
    BY <1>12, <1>b, <2>1, FrameTypes DEF WatchGone, Watched, Free
  <2>3. QED
    BY <1>12, <1>a, <1>b, <2>2, Carried DEF WatchGone, Carries, Waits, Here
<1>13. ASSUME NEW j \in Sessions, WatchChange(j) PROVE PendingOk(i)'
  <2>1. ts[j] \in St
    BY <1>13 DEF WatchChange, Follows, St
  <2>2. At("watch", "create", j, ts[j]) \in Frame /\ threads[Main].pc = "idle"
        /\ Goto(Main, At("watch", "create", j, ts[j]))
    BY <1>13, <1>b, <2>1, FrameTypes DEF WatchChange, Watched, Free
  <2>3. QED
    BY <1>13, <1>a, <1>b, <2>2, Carried DEF WatchChange, Carries, Waits, Here
<1>14. ASSUME NEW t \in Threads, Switch(t) PROVE PendingOk(i)'
  <2>1. Write(threads[t], threads[t].st) /\ threads[t].pc = "watch"
        /\ threads[t].st \in St /\ threads[t].st # "wait_destroy"
    BY <1>14, <1>a DEF Switch, Frame, TypeOK, DestroyInv, MarkDestroys
  <2>2. Waits(i)' => Waits(i)
    BY <2>1, WriteHeld DEF Waits, Here
  <2>3. QED
    BY <1>14, <1>a, <2>1, <2>2, FrameTypes, Carried DEF Switch, Carries
\* A worker takes the order: it is not an "exit".
<1>15. ASSUME NEW w \in Workers, WorkerTakes(w) PROVE PendingOk(i)'
  <2>1. UNCHANGED <<sess, threads, deferred, sync, failed>> /\ workers[w].mode = "idle"
    BY <1>15 DEF WorkerTakes
  <2>2. PICK j \in Job \cup {Exit} :
           /\ Range(spooler) \cup Range(spooler2)
                = Range(spooler') \cup Range(spooler2') \cup {j}
           /\ workers' = [workers EXCEPT ![w] = Received(j)]
    BY <1>15, <1>a, TakesOne
  <2>3. Destroys(j, i) => Works(workers'[w], i)
    BY <1>a, <2>2 DEF Received, Exit, TypeOK, Destroys, Works
  <2>4. \A v \in Workers : Works(workers[v], i) => workers'[v] = workers[v]
    BY <1>a, <2>1, <2>2 DEF TypeOK, Works
  <2>5. DestroyInSpool(i) => DestroyInSpool(i)'
    BY <2>1, <2>2, <2>3, <2>4 DEF DestroyInSpool, Works
  <2>6. QED
    BY <1>a, <2>1, <2>5 DEF PendingOk, Waits, Here
\* A worker that destroyed the session sends back that it is destroyed, one
\* that could not has given up, and the others held no such order.
<1>d. ASSUME NEW w \in Workers, workers[w].mode = "busy", NEW st \in St, Done(w, st),
             failed \subseteq failed',
             \/ st = "destroyed" \/ workers[w].job.act # "destroy"
             \/ workers[w].job.id \in failed'
      PROVE  PendingOk(i)'
  <2> DEFINE c == [id |-> workers[w].job.id, st |-> st]
  <2>1. c \in Copy /\ c.id = workers[w].job.id /\ c.st = st
    BY <1>d, <1>a DEF TypeOK, Worker, Job, Copy
  <2>2. sync' = Append(sync, c) /\ UNCHANGED <<sess, threads, deferred, spooler, spooler2>>
        /\ workers' = [workers EXCEPT ![w] = IdleWorker]
    BY <1>d DEF Done
  <2> HIDE DEF c
  <2>3. Range(sync') = Range(sync) \cup {c}
    BY <1>a, <2>1, <2>2, AppendRange DEF TypeOK
  <2>4. \A v \in Workers : v # w => workers'[v] = workers[v]
    BY <1>a, <2>2 DEF TypeOK
  <2>5. i \notin failed' /\ Works(workers[w], i) => c.st = "destroyed" /\ c.id = i
    BY <1>d, <2>1 DEF Works, Destroys
  <2>6. i \notin failed' /\ DestroyInSpool(i) => DestroyInSpool(i)'
    <3> SUFFICES ASSUME i \notin failed', DestroyInSpool(i) PROVE DestroyInSpool(i)'
      OBVIOUS
    <3>1. CASE Works(workers[w], i)
      BY <2>3, <2>5, <3>1 DEF DestroyInSpool
    <3>2. CASE ~Works(workers[w], i)
      <4>1. \A v \in Workers : Works(workers[v], i) => workers'[v] = workers[v]
        BY <2>4, <3>2
      <4>2. QED
        BY <2>2, <2>3, <4>1 DEF DestroyInSpool, Works
    <3>3. QED
      BY <3>1, <3>2
  <2>7. QED
    BY <1>a, <1>d, <2>2, <2>6 DEF PendingOk, Waits, Here
<1>16. ASSUME NEW w \in Workers, CreateSession(w) PROVE PendingOk(i)'
  BY <1>16, <1>d DEF CreateSession, Doing, GivesUp, GivenUpOn, St
<1>17. ASSUME NEW w \in Workers, DestroySession(w) PROVE PendingOk(i)'
  <2>1. workers[w].mode = "busy" /\ workers[w].job.st \in St
    BY <1>17, <1>a DEF DestroySession, Doing, TypeOK, Worker, Job
  <2>2. QED
    BY <1>17, <1>d, <2>1 DEF DestroySession, GivesUp, GivenUpOn, St
<1>18. ASSUME NEW w \in Workers, DisconnectSession(w) PROVE PendingOk(i)'
  <2>1. workers[w].mode = "busy" /\ workers[w].job.st \in St
    BY <1>18, <1>a DEF DisconnectSession, Doing, TypeOK, Worker, Job
  <2>2. QED
    BY <1>18, <1>d, <2>1 DEF DisconnectSession, Doing, GivenUpOn, St
\* A dead worker keeps its piece of work: the session stays locked and waits.
<1>19. ASSUME NEW w \in Workers, WorkerDies(w) PROVE PendingOk(i)'
  <2>1. \A v \in Workers : workers'[v] = IF v = w THEN [workers[w] EXCEPT !.mode = "dead"]
                                                  ELSE workers[v]
    BY <1>19, <1>a DEF WorkerDies, TypeOK
  <2>2. workers'[w].mode = "dead" /\ workers'[w].job = workers[w].job
    BY <1>19, <1>a, <2>1 DEF WorkerDies, TypeOK, Worker
  <2>3. UNCHANGED <<sess, threads, deferred, spooler, spooler2, sync, failed>>
    BY <1>19 DEF WorkerDies
  <2>4. \A v \in Workers : Works(workers[v], i) => Works(workers'[v], i)
    BY <2>1, <2>2 DEF Works, Destroys
  <2>5. DestroyInSpool(i) => DestroyInSpool(i)'
    BY <2>3, <2>4 DEF DestroyInSpool, Works
  <2>6. QED
    BY <1>a, <2>3, <2>5 DEF PendingOk, Waits, Here
\* The end of the role.
<1>20. ASSUME OrderStop PROVE PendingOk(i)'
  BY <1>20, <1>a, Quiet DEF OrderStop, QueuesGrow, Waits, Here
<1>21. ASSUME NEW j \in Sessions, StopSession(j) PROVE PendingOk(i)'
  <2> DEFINE f == At("spool", "destroy", j, "wait_destroy")
  <2>1. f \in Frame /\ f.pc = "spool" /\ f.act = "destroy" /\ f.id = j
    BY <1>b, FrameTypes
  <2>2. i # j => (Waits(i)' => Waits(i))
    <3>1. sweep[j] = "fresh" => Here(j)
      BY DEF TypeInv, SweptHere
    <3>2. sess' = IF sweep[j] = "fresh" THEN [sess EXCEPT ![j].st = "wait_destroy"] ELSE sess
      BY <1>21 DEF StopSession
    <3>3. QED
      BY <1>a, <1>b, <3>1, <3>2, WriteStatus DEF Waits, Here
  <2>3. Goto(Stop, f) /\ threads[Stop].pc = "idle"
        /\ UNCHANGED <<deferred, spooler, spooler2, sync, workers, failed>>
    BY <1>21 DEF StopSession, Free
  <2> HIDE DEF f
  <2>4. QED
    BY <1>a, <1>b, <2>1, <2>2, <2>3, Carried DEF Carries, Destroys
<1>22. ASSUME StopTimeout PROVE PendingOk(i)'
  <2>1. Range(spooler) \subseteq Range(spooler')
    BY <1>22, <1>a, ExitsRange DEF StopTimeout, TypeOK
  <2>2. QED
    BY <1>22, <1>a, <2>1, Quiet DEF StopTimeout, QueuesGrow, Waits, Here
<1>23. ASSUME LeaveLoop PROVE PendingOk(i)'
  <2>1. Range(spooler) \subseteq Range(spooler')
    BY <1>23, <1>a, ExitsRange DEF LeaveLoop, TypeOK
  <2>2. QED
    BY <1>23, <1>a, <2>1, Quiet DEF LeaveLoop, QueuesGrow, Waits, Here
<1>24. ASSUME Joined PROVE PendingOk(i)'
  BY <1>24, <1>a, Quiet DEF Joined, QueuesGrow, Waits, Here
\* finalize leaves only sessions it could not destroy waiting.
<1>25. ASSUME Finalize PROVE PendingOk(i)'
  <2>1. Waits(i)' => i \in failed'
    BY <1>25, <1>a DEF Finalize, Waits, Here, TypeOK, Object
  <2>2. QED
    BY <2>1 DEF PendingOk
<1>26. ASSUME NEW j \in Sessions, User(j) PROVE PendingOk(i)'
  BY <1>26, <1>a, Quiet
     DEF User, LogsIn, Disconnects, LogsOff, UserActs, QueuesGrow, Waits, Here
<1>27. CASE UNCHANGED vars
  BY <1>27, <1>a, Quiet DEF vars, QueuesGrow, Waits, Here
<1>28. QED
  BY <1>1, <1>2, <1>3, <1>4, <1>5, <1>6, <1>7, <1>8, <1>9, <1>10, <1>11, <1>12, <1>13,
     <1>14, <1>15, <1>16, <1>17, <1>18, <1>19, <1>20, <1>21, <1>22, <1>23, <1>24, <1>25, <1>26, <1>27
     DEF Next, Request, Thread, RunLoop, Work, StopServer

\* An order to destroy a session is never lost between the threads, the queues
\* and the workers of the role, whatever their number: DestroyIsPending.
THEOREM DestroySafe == Spec => []DestroyIsPending
<1>1. Init => DestroyInv
  <2>1. Init => MarkDestroys /\ DestroyIsPending
    BY DEF Init, MarkDestroys, DestroyIsPending, Here, IdleFrame
  <2>2. Init => GivenUp
    <3>1. Main \in Threads
      BY DEF Threads
    <3>2. QED
      BY <3>1 DEF Init, GivenUp, IdleFrame, Range
  <2>3. QED
    BY <2>1, <2>2 DEF DestroyInv
<1>2. TypeInv /\ DestroyInv /\ [Next]_vars => DestroyInv'
  BY MarkNext, GivenNext, PendingNext DEF DestroyInv
<1>3. DestroyInv => DestroyIsPending
  BY DEF DestroyInv
<1>4. QED
  BY TypeInit, TypeNext, <1>1, <1>2, <1>3, PTL DEF Spec
=============================================================================
