----------------------- MODULE SMSessionOrphan_proofs -----------------------
(***************************************************************************)
(* What holds of a session while the requests come one at a time, for every*)
(* set of servers and whatever of them fail: its row never goes back to an *)
(* earlier status, and no server is left with a session that the Session   *)
(* Manager has forgotten.  With two requests neither holds: each saves the *)
(* copy it loaded, and TLC shows how.                                      *)
(***************************************************************************)
EXTENDS SMSession_proofs

OneAtATime == \A r, q \in Requests : r = q

\* The Session Manager holds nothing of the session.
Nothing == row = NoRow /\ \A r \in Requests : objs[r] = <<>>

\* Before client/start.php creates the session, nothing knows of it.
NotYet == ~born => Nothing /\ \A s \in Aps : aps[s] = "none" /\ report[s] = NoReport

\* Then a request has nothing to work on.
LEMMA NothingDone ==
  ASSUME SInv, Nothing, NEW r \in Requests, Do(r)
  PROVE  /\ row' = NoRow /\ objs' = [objs EXCEPT ![r] = <<>>]
         /\ DoRemove(r) \/ srvdb' = srvdb
         /\ UNCHANGED <<born, aps, report>>
<1>1. calls[r] # <<>>
  BY DEF Do, DoSetServerStatus, DoCommit, DoSave, DoDelete, DoKill, DoNotReady,
         DoOrderDeletion, DoGetStatus, DoCreate, DoReload, DoResumed, DoMonitored, DoCron,
         DoCronEnd, DoCronDue, DoPurgeIfDead, DoDisconnect, DoRemove, Doing
<1>2. Head(calls[r]).op \in {"monitored", "reload", "remove"}
  <2>1. ~(Len(objs[r]) >= 1)
    BY DEF Nothing
  <2>2. QED
    BY <1>1, <2>1, Running DEF SInv
<1>3. DoReload(r) \/ DoMonitored(r) \/ DoRemove(r)
  BY <1>2 DEF Do, DoSetServerStatus, DoCommit, DoSave, DoDelete, DoKill, DoNotReady,
              DoOrderDeletion, DoGetStatus, DoCreate, DoResumed, DoCron, DoCronEnd,
              DoCronDue, DoPurgeIfDead, DoDisconnect, Doing
<1>4. row = NoRow /\ objs[r] = <<>>
  BY DEF Nothing
<1>5. CASE DoReload(r) \/ DoMonitored(r)
  BY <1>4, <1>5 DEF DoReload, DoMonitored, Continue, DbOnly
<1>6. CASE DoRemove(r)
  BY <1>4, <1>6 DEF DoRemove, Continue
<1>7. QED
  BY <1>3, <1>5, <1>6

\* And no request but the creation finds any.
LEMMA NothingStarts ==
  ASSUME SInv, Nothing, NEW r \in Requests, StartRequest(r), ~StartNew(r)
  PROVE  /\ row' = NoRow /\ objs' = objs /\ UNCHANGED <<born, srvdb, aps>>
         /\ report' = report \/ \E s \in Aps : Report(r, s)
<1>1. objs = [objs EXCEPT ![r] = <<>>]
  <2>1. objs = [q \in Requests |-> objs[q]] /\ objs[r] = <<>>
    BY DEF Nothing, SInv, CallsOK
  <2>2. QED
    BY <2>1
<1>2. row = NoRow
  BY DEF Nothing
<1>3. ASSUME NEW s \in Aps, Monitoring(r, s) \/ AdminRemove(r, s)
      PROVE  row' = NoRow /\ objs' = objs /\ UNCHANGED <<born, srvdb, aps, report>>
  BY <1>1, <1>2, <1>3 DEF Monitoring, AdminRemove, Begin, Continue, DbOnly
<1>4. ASSUME NEW s \in Aps, Report(r, s)
      PROVE  row' = NoRow /\ objs' = objs /\ UNCHANGED <<born, srvdb, aps>>
  BY <1>2, <1>4 DEF Report
<1>5. \E s \in Aps : Monitoring(r, s) \/ AdminRemove(r, s) \/ Report(r, s)
  BY <1>2 DEF StartRequest, StartResume, StartPurge, Logout, Kill, AdminDisconnect, ClientWait,
              ClientPoll, CronStart
<1>6. QED
  BY <1>3, <1>4, <1>5

LEMMA NotYetNext == SInv /\ NotYet /\ [Next]_vars => NotYet'
<1> SUFFICES ASSUME SInv, NotYet, [Next]_vars, ~born' PROVE NotYet'
  BY DEF NotYet
<1>1. ASSUME NEW r \in Requests, Do(r) PROVE born' = born
  BY <1>1 DEF Do, DoSetServerStatus, DoCommit, DoSave, DoDelete, DoKill, DoNotReady, DoOrderDeletion,
              DoGetStatus, DoCreate, DoReload, DoResumed, DoMonitored, DoCron, DoCronEnd, DoCronDue,
              DoPurgeIfDead, DoDisconnect, DoRemove, DbOnly
<1>2. ASSUME NEW r \in Requests, StartRequest(r) PROVE ~StartNew(r) /\ born' = born
  BY <1>2 DEF StartRequest, StartNew, Report, StartResume, StartPurge, Logout, Kill,
              AdminDisconnect, AdminRemove, ClientWait, ClientPoll, CronStart, Monitoring, DbOnly
<1>3. ASSUME NEW s \in Aps, Server(s) PROVE born' = born
  BY <1>3 DEF Server, Created, CreateFailed, CreateEnded, LogsIn, Disconnects, LogsOff, Destroyed,
              Change, LoseReport
<1>4. ~born /\ Nothing /\ \A s \in Aps : aps[s] = "none" /\ report[s] = NoReport
  BY <1>1, <1>2, <1>3 DEF Next, vars, NotYet
<1>5. objs = [q \in Requests |-> objs[q]] /\ DOMAIN objs = Requests
  BY DEF SInv, CallsOK
<1>6. ASSUME NEW r \in Requests, Do(r) PROVE NotYet'
  <2>1. row' = NoRow /\ objs' = [objs EXCEPT ![r] = <<>>] /\ UNCHANGED <<aps, report>>
    BY <1>4, <1>6, NothingDone
  <2>2. QED
    BY <1>4, <1>5, <2>1 DEF Nothing, NotYet
<1>7. ASSUME NEW r \in Requests, StartRequest(r) PROVE NotYet'
  <2>1. /\ row' = NoRow /\ objs' = objs /\ UNCHANGED aps
        /\ report' = report \/ \E s \in Aps : Report(r, s)
    BY <1>2, <1>4, <1>7, NothingStarts
  <2>2. ~\E s \in Aps : Report(r, s)
    BY <1>4 DEF Report
  <2>3. QED
    BY <1>4, <2>1, <2>2 DEF Nothing, NotYet
<1>8. ASSUME NEW s \in Aps, Server(s) PROVE FALSE
  BY <1>4, <1>8 DEF Server, Created, CreateFailed, CreateEnded, LogsIn, Disconnects, LogsOff,
              Destroyed, Change, LoseReport
<1>9. CASE UNCHANGED vars
  BY <1>4, <1>9 DEF vars, Nothing, NotYet
<1>10. QED
  BY <1>6, <1>7, <1>8, <1>9 DEF Next
-----------------------------------------------------------------------------
(* The object a request works on has the status of the row, and a status   *)
(* is saved right after setStatus has accepted it; a removal has no object *)
(* to work on, and no session has a server that was removed.               *)

Follows(a, b) ==
  \/ Rank[b] >= Rank[a]
  \/ Persistent /\ b = "ready" /\ a \in {"logged", "disconnected"}
NoCommit == {c \in Call : c.op \notin {"commit", "remove"}}
Saves(o, cs) ==
  \/ cs \in Seq(NoCommit)
  \/ /\ cs # <<>> /\ Tail(cs) \in Seq(NoCommit)
     /\ Head(cs).op = "commit" /\ Follows(o.status, Head(cs).st)
Same(os, w) == os # <<>> /\ w # NoRow => Head(os).status = w.status
Removes(os, cs, w) == os = <<>> /\ w = NoRow /\ \E s \in Aps : cs = <<Remove(s)>>
UpToDate(os, cs, w) == Same(os, w) /\ (Saves(Head(os), cs) \/ Removes(os, cs, w))
Away == \E s \in Aps : srvdb[s] = "deleted"
RegressInv == \A r \in Requests : UpToDate(objs[r], calls[r], row)
AwayInv == Away => Nothing

LEMMA NoCommitCalls ==
  /\ \A s \in Aps, st \in Status : SetServerStatus(s, st) \in NoCommit /\ Monitored(s, st) \in NoCommit
  /\ \A todo \in SUBSET Aps, n \in Nat, b \in BOOLEAN : OrderDeletion(todo, n, b) \in NoCommit
  /\ OrderAll \in NoCommit
  /\ \A todo \in SUBSET Aps : GetStatus(todo) \in NoCommit /\ Create(todo) \in NoCommit
  /\ \A todo \in SUBSET Aps, ok \in BOOLEAN : Disconnect(todo, ok) \in NoCommit
  /\ \A k \in Nat : Cron(k) \in NoCommit
  /\ \A name \in {"purge", "delete", "save", "kill", "notReady", "purgeIfDead", "reload", "resumed"} :
       Plain(name) \in NoCommit
<1>1. \A s \in Aps, st \in Status : SetServerStatus(s, st) \in NoCommit /\ Monitored(s, st) \in NoCommit
  BY DEF SetServerStatus, Monitored, NoCommit, Call
<1>2. \A todo \in SUBSET Aps, n \in Nat, b \in BOOLEAN : OrderDeletion(todo, n, b) \in NoCommit
  BY DEF OrderDeletion, NoCommit, Call
<1>3. \A todo \in SUBSET Aps : GetStatus(todo) \in NoCommit /\ Create(todo) \in NoCommit
  BY DEF GetStatus, Create, NoCommit, Call
<1>4. \A todo \in SUBSET Aps, ok \in BOOLEAN : Disconnect(todo, ok) \in NoCommit
  BY DEF Disconnect, NoCommit, Call
<1>5. \A k \in Nat : Cron(k) \in NoCommit
  BY DEF Cron, NoCommit, Call
<1>6. \A name \in {"purge", "delete", "save", "kill", "notReady", "purgeIfDead", "reload", "resumed"} :
        Plain(name) \in NoCommit
  BY DEF Plain, NoCommit, Call
<1>7. OrderAll \in NoCommit
  BY <1>2 DEF OrderAll
<1>8. QED
  BY <1>1, <1>2, <1>3, <1>4, <1>5, <1>6, <1>7

LEMMA NoCommitDown == OnDown \in Seq(NoCommit) /\ <<>> \in Seq(NoCommit)
<1>1. Plain("kill") \in NoCommit /\ Plain("delete") \in NoCommit /\ Plain("notReady") \in NoCommit
  BY NoCommitCalls
<1>2. QED
  BY <1>1, EmptySeq DEF OnDown

LEMMA RankType == Rank \in [Status -> Int]
BY DEF Rank, Status

LEMMA Cons ==
  ASSUME NEW S, NEW T, NEW x \in S, NEW xs \in Seq(T)
  PROVE  <<x>> \o xs # <<>> /\ Head(<<x>> \o xs) = x /\ Tail(<<x>> \o xs) = xs
<1> DEFINE U == S \cup T
           q == <<x>> \o xs
<1>1. xs \in Seq(U) /\ x \in U /\ Len(xs) \in Nat
  BY SeqMonotonic, LenProperties
<1>2. <<x>> \in Seq(U) /\ Len(<<x>>) = 1 /\ <<x>>[1] = x
  BY <1>1
<1>3. /\ q \in Seq(U) /\ Len(q) = 1 + Len(xs)
      /\ \A i \in 1 .. 1 + Len(xs) : q[i] = IF i <= 1 THEN <<x>>[i] ELSE xs[i - 1]
  BY <1>1, <1>2, ConcatProperties
<1> HIDE DEF q, U
<1>4. q # <<>>
  BY <1>1, <1>3, EmptySeq
<1>5. Head(q) = x
  BY <1>1, <1>2, <1>3, <1>4, HeadTailProperties
<1>6. Tail(q) = xs
  <2>1. /\ Tail(q) \in Seq(U) /\ Len(Tail(q)) = Len(xs)
        /\ \A i \in 1 .. Len(xs) : Tail(q)[i] = q[i + 1]
    BY <1>1, <1>3, <1>4, HeadTailProperties
  <2>2. \A i \in 1 .. Len(xs) : q[i + 1] = xs[i]
    BY <1>1, <1>3
  <2>3. QED
    BY <1>1, <2>1, <2>2, SeqEqual
<1>7. QED
  BY <1>4, <1>5, <1>6 DEF q

\* setStatus only saves a status that follows the one of its object.
LEMMA AsksUp ==
  ASSUME NEW o \in Session, NEW st \in Status, NEW rest \in Seq(NoCommit)
  PROVE  /\ SetStatus(o, st).obj.status = o.status
         /\ Saves(SetStatus(o, st).obj, SetStatus(o, st).next \o rest)
<1> DEFINE p == SetStatus(o, st)
<1>1. p.obj.status = o.status
  <2>1. p.obj \in {o, [o EXCEPT !.stop = TRUE]}
    BY SetStatusAsks
  <2>2. QED
    BY <2>1 DEF Session
<1>2. CASE p.next = <<>>
  BY <1>1, <1>2, ConcatEmptySeq DEF Saves
<1>3. ASSUME NEW c \in NoCommit, p.next = <<c>> PROVE Saves(p.obj, p.next \o rest)
  <2>1. <<c>> \in Seq(NoCommit)
    OBVIOUS
  <2>2. QED
    BY <1>3, <2>1, ConcatProperties DEF Saves
<1>4. CASE p.next = <<Commit(st)>> /\ ~Refused(o, st)
  <2>1. /\ <<Commit(st)>> \o rest # <<>> /\ Head(<<Commit(st)>> \o rest) = Commit(st)
        /\ Tail(<<Commit(st)>> \o rest) = rest
    BY Cons
  <2>2. Follows(o.status, st)
    <3>1. o.status \in Status /\ Rank[st] \in Int /\ Rank[o.status] \in Int
      BY RankType DEF Session
    <3>2. QED
      BY <1>4, <3>1 DEF Refused, CanSwitchToPreviousStatus, Follows
  <2>3. Commit(st).op = "commit" /\ Commit(st).st = st
    BY DEF Commit
  <2> HIDE DEF p
  <2>4. Saves(p.obj, p.next \o rest)
    BY <1>1, <1>4, <2>1, <2>2, <2>3 DEF Saves
  <2>5. QED
    BY <1>1, <2>4 DEF p
<1>5. OrderDeletion(Aps, 0, TRUE) \in NoCommit /\ Plain("purge") \in NoCommit
  BY NoCommitCalls
<1> HIDE DEF p
<1>6. \/ p.next = <<>> \/ p.next = <<OrderDeletion(Aps, 0, TRUE)>> \/ p.next = <<Plain("purge")>>
      \/ p.next = <<Commit(st)>> /\ ~Refused(o, st)
  BY SetStatusAsks, Zenon DEF p
<1>7. Saves(p.obj, p.next \o rest)
  <2>1. CASE p.next = <<OrderDeletion(Aps, 0, TRUE)>>
    BY <1>3, <1>5, <2>1, Zenon
  <2>2. CASE p.next = <<Plain("purge")>>
    BY <1>3, <1>5, <2>2, Zenon
  <2>3. CASE p.next = <<>>
    BY <1>2, <2>3 DEF p
  <2>4. CASE p.next = <<Commit(st)>> /\ ~Refused(o, st)
    BY <1>4, <2>4 DEF p
  <2>5. QED
    BY <1>6, <2>1, <2>2, <2>3, <2>4, Zenon
<1>8. QED
  BY <1>1, <1>7 DEF p

\* A server that has its status may ask for the same of the session.
LEMMA ReactUp ==
  ASSUME NEW o \in Session, NEW s \in Aps, NEW st \in Status, NEW rest \in Seq(NoCommit)
  PROVE  /\ React(o, s, st).obj.status = o.status
         /\ Saves(React(o, s, st).obj, React(o, s, st).next \o rest)
<1>1. /\ SetStatus(o, st).obj.status = o.status
      /\ Saves(SetStatus(o, st).obj, SetStatus(o, st).next \o rest)
  BY AsksUp
<1>2. /\ SetStatus(o, "wait_destroy").obj.status = o.status
      /\ Saves(SetStatus(o, "wait_destroy").obj, SetStatus(o, "wait_destroy").next \o rest)
  BY AsksUp DEF Status
<1>3. Then(o, <<>>).obj.status = o.status /\ Saves(Then(o, <<>>).obj, Then(o, <<>>).next \o rest)
  BY ConcatEmptySeq DEF Then, Saves
<1>4. React(o, s, st) \in {SetStatus(o, st), SetStatus(o, "wait_destroy"), Then(o, <<>>)}
  BY DEF React
<1>5. QED
  BY <1>1, <1>2, <1>3, <1>4

\* While a request has an object, or the row is there, no server is removed.
LEMMA NotAway ==
  ASSUME AwayInv, NEW r \in Requests, row # NoRow \/ objs[r] # <<>>, NEW s \in Aps
  PROVE  srvdb[s] # "deleted"
BY DEF AwayInv, Away, Nothing

\* The only request goes on.
LEMMA UpGoesOn ==
  ASSUME OneAtATime, SInv, NEW r \in Requests, NEW os, NEW cs, Continue(r, os, cs),
         UpToDate(os, cs, row')
  PROVE  RegressInv'
<1>1. calls'[r] = cs /\ objs'[r] = IF cs = <<>> THEN <<>> ELSE os
  BY DEF Continue, SInv, CallsOK
<1>2. UpToDate(objs'[r], calls'[r], row')
  <2>1. CASE cs = <<>>
    BY <1>1, <2>1, NoCommitDown DEF UpToDate, Saves, Same
  <2>2. CASE cs # <<>>
    BY <1>1, <2>2
  <2>3. QED
    BY <2>1, <2>2
<1>3. QED
  BY <1>2 DEF OneAtATime, RegressInv

\* What it may rely on before the step.
LEMMA UpRequest ==
  ASSUME SInv, RegressInv, NEW r \in Requests, calls[r] # <<>>, Head(calls[r]).op # "remove"
  PROVE  /\ Tail(calls[r]) \in Seq(NoCommit) /\ Head(calls[r]) \in Call /\ Same(objs[r], row)
         /\ Head(calls[r]).op = "commit" => Follows(Obj(r).status, Head(calls[r]).st)
         /\ Head(calls[r]).op \notin {"monitored", "reload"} =>
              /\ objs[r] # <<>> /\ Obj(r) \in Session
              /\ row # NoRow => Obj(r).status = row.status
              /\ \A o \in Session : With(r, o) # <<>> /\ Head(With(r, o)) = o
<1>1. calls[r] \in Seq(Call) /\ objs[r] \in Seq(Session)
  BY SessionTypes DEF TypeOK
<1>2. Saves(Head(objs[r]), calls[r]) /\ Same(objs[r], row)
  <2>1. \A s \in Aps : calls[r] # <<Remove(s)>>
    BY DEF Remove
  <2>2. QED
    BY <2>1 DEF RegressInv, UpToDate, Removes
<1>3. /\ Head(calls[r]) \in Call
      /\ Head(calls[r]).op \notin {"monitored", "reload"} =>
           objs[r] # <<>> /\ Obj(r) \in Session /\ Tail(objs[r]) \in Seq(Session)
  BY <1>1, ListsHold
<1>4. /\ Tail(calls[r]) \in Seq(NoCommit)
      /\ Head(calls[r]).op = "commit" => Follows(Obj(r).status, Head(calls[r]).st)
  <2>1. CASE calls[r] \in Seq(NoCommit)
    <3>1. Head(calls[r]) \in NoCommit /\ Tail(calls[r]) \in Seq(NoCommit)
      BY <2>1, HeadTailProperties
    <3>2. QED
      BY <3>1 DEF NoCommit
  <2>2. CASE calls[r] \notin Seq(NoCommit)
    BY <1>2, <2>2 DEF Saves, Obj
  <2>3. QED
    BY <2>1, <2>2
<1>5. ASSUME NEW o \in Session, Head(calls[r]).op \notin {"monitored", "reload"}
      PROVE  With(r, o) # <<>> /\ Head(With(r, o)) = o
  BY <1>3, <1>5, Cons DEF With
<1>6. QED
  BY <1>2, <1>3, <1>4, <1>5 DEF Same, Obj

\* The request works on, with other calls or without.
LEMMA UpAsks ==
  ASSUME OneAtATime, SInv, RegressInv, NEW r \in Requests, NEW cs \in Seq(NoCommit),
         \/ Continue(r, objs[r], cs) \/ Continue(r, <<>>, cs) \/ Continue(r, <<row>>, cs), row' = row
  PROVE  RegressInv'
<1>1. PICK os \in {objs[r], <<>>, <<row>>} : Continue(r, os, cs)
  OBVIOUS
<1>2. Same(os, row')
  <2>1. Same(objs[r], row)
    BY DEF RegressInv, UpToDate
  <2>2. Same(<<row>>, row)
    BY DEF Same
  <2>3. Same(<<>>, row)
    BY DEF Same
  <2>4. QED
    BY <2>1, <2>2, <2>3
<1>3. QED
  BY <1>1, <1>2, UpGoesOn DEF UpToDate, Saves

LEMMA UpServerStatus ==
  ASSUME OneAtATime, SInv, RegressInv, NEW r \in Requests, DoSetServerStatus(r)
  PROVE  RegressInv' /\ (row # NoRow /\ row' # NoRow => row'.status = row.status)
<1> DEFINE c == Head(calls[r])
           o == Obj(r)
           n == [o EXCEPT !.srv[c.srv] = c.st]
           p == React(n, c.srv, c.st)
           rest == Tail(calls[r])
<1>1. calls[r] # <<>> /\ c.op = "setServerStatus"
  BY DEF DoSetServerStatus, Doing
<1>2. /\ c \in Call /\ rest \in Seq(NoCommit) /\ o \in Session /\ objs[r] # <<>>
      /\ row # NoRow => o.status = row.status
      /\ \A x \in Session : With(r, x) # <<>> /\ Head(With(r, x)) = x
  BY <1>1, UpRequest
<1>3. c.srv \in Aps /\ c.st \in Status
  BY <1>1, <1>2, CallFields
<1>4. n \in Session /\ n.status = o.status
  BY <1>2, <1>3 DEF Session
<1>5. \/ row' \in {o, row} /\ Continue(r, objs[r], rest)
      \/ row' = n /\ Continue(r, With(r, p.obj), p.next \o rest)
  BY DEF DoSetServerStatus, Go
<1>6. o = Head(objs[r])
  BY DEF Obj
<1> HIDE DEF c, o, n, rest
<1>7. CASE row' \in {o, row} /\ Continue(r, objs[r], rest)
  BY <1>2, <1>6, <1>7, UpGoesOn DEF UpToDate, Saves, Same
<1>8. CASE row' = n /\ Continue(r, With(r, p.obj), p.next \o rest)
  <2>1. p.obj.status = n.status /\ Saves(p.obj, p.next \o rest)
    BY <1>2, <1>3, <1>4, ReactUp
  <2>2. p.obj \in Session
    <3>1. p.obj \in {n, [n EXCEPT !.stop = TRUE]}
      BY SetStatusAsks DEF React, Then
    <3>2. QED
      BY <1>4, <3>1 DEF Session
  <2> HIDE DEF p
  <2>3. UpToDate(With(r, p.obj), p.next \o rest, row')
    BY <1>2, <1>8, <2>1, <2>2 DEF UpToDate, Same
  <2>4. QED
    BY <1>2, <1>4, <1>8, <2>3, UpGoesOn
<1>9. QED
  BY <1>5, <1>7, <1>8

LEMMA UpWrites ==
  ASSUME OneAtATime, SInv, RegressInv, NEW r \in Requests,
         DoCommit(r) \/ DoSave(r) \/ DoDelete(r) \/ DoResumed(r) \/ DoNotReady(r)
  PROVE  RegressInv' /\ (row # NoRow /\ row' # NoRow => Follows(row.status, row'.status))
<1> DEFINE c == Head(calls[r])
           o == Obj(r)
           n == [o EXCEPT !.status = c.st]
           rest == Tail(calls[r])
<1>1. calls[r] # <<>> /\ c.op \in {"commit", "save", "delete", "purge", "resumed", "notReady"}
  BY DEF DoCommit, DoSave, DoDelete, DoResumed, DoNotReady, Doing
<1>2. /\ c \in Call /\ rest \in Seq(NoCommit) /\ o \in Session /\ objs[r] # <<>>
      /\ row # NoRow => o.status = row.status
      /\ c.op = "commit" => Follows(o.status, c.st)
      /\ \A x \in Session : With(r, x) # <<>> /\ Head(With(r, x)) = x
  BY <1>1, UpRequest
<1>3. o = Head(objs[r]) /\ [o EXCEPT !.stop = FALSE].status = o.status
  BY <1>2 DEF Obj, Session
<1>4. c.op = "commit" => n \in Session /\ n.status = c.st
  <2>1. c.op = "commit" => c.st \in Status
    BY <1>2, CallFields
  <2>2. QED
    BY <1>2, <2>1 DEF Session
<1>5. Follows(o.status, o.status)
  BY <1>2, RankType DEF Follows, Session
<1>6. \/ c.op = "commit" /\ row' = n /\ Continue(r, With(r, n), rest)
      \/ row' \in {o, [o EXCEPT !.stop = FALSE]} /\ Continue(r, objs[r], rest)
      \/ row' = NoRow /\ \E os : Continue(r, os, rest)
  BY DEF DoCommit, DoSave, DoDelete, DoResumed, DoNotReady, Doing
<1> HIDE DEF c, o, n, rest
<1>7. CASE c.op = "commit" /\ row' = n /\ Continue(r, With(r, n), rest)
  BY <1>2, <1>4, <1>7, UpGoesOn DEF UpToDate, Saves, Same
<1>8. CASE row' \in {o, [o EXCEPT !.stop = FALSE]} /\ Continue(r, objs[r], rest)
  <2>1. row'.status = o.status
    BY <1>3, <1>8
  <2>2. UpToDate(objs[r], rest, row')
    BY <1>2, <1>3, <2>1 DEF UpToDate, Saves, Same
  <2>3. QED
    BY <1>2, <1>5, <1>8, <2>1, <2>2, UpGoesOn
<1>9. CASE row' = NoRow /\ \E os : Continue(r, os, rest)
  BY <1>2, <1>9, UpGoesOn DEF UpToDate, Saves, Same
<1>10. QED
  BY <1>6, <1>7, <1>8, <1>9

LEMMA UpKill ==
  ASSUME OneAtATime, SInv, RegressInv, NEW r \in Requests, DoKill(r) PROVE RegressInv'
<1> DEFINE p == SetStatus(row, "wait_destroy")
<1>1. /\ calls[r] # <<>> /\ Head(calls[r]).op = "kill" /\ row' = row
      /\ IF row = NoRow
         THEN Continue(r, <<Obj(r)>> \o objs[r], <<>> \o Tail(Tail(calls[r])))
         ELSE Continue(r, <<p.obj>> \o objs[r], p.next \o Tail(calls[r]))
  BY DEF DoKill, Doing, Then
<1>2. Tail(calls[r]) \in Seq(NoCommit) /\ objs[r] \in Seq(Session)
  BY <1>1, UpRequest, SessionTypes DEF TypeOK
<1>3. CASE row = NoRow
  <2>1. Tail(calls[r]) # <<>>
    BY <1>1, Running DEF SInv
  <2>2. Tail(Tail(calls[r])) \in Seq(NoCommit)
    BY <1>2, <2>1, HeadTailProperties
  <2>3. <<>> \o Tail(Tail(calls[r])) \in Seq(NoCommit)
    BY <2>2, ConcatEmptySeq
  <2>4. QED
    BY <1>1, <1>3, <2>3, UpGoesOn DEF UpToDate, Saves, Same
<1>4. CASE row # NoRow
  <2>1. row \in Session
    BY <1>4 DEF SInv, RowInv, Stored
  <2>2. p.obj.status = row.status /\ Saves(p.obj, p.next \o Tail(calls[r]))
    BY <1>2, <2>1, AsksUp DEF Status
  <2>3. p.obj \in {row, [row EXCEPT !.stop = TRUE]}
    BY SetStatusAsks
  <2>4. <<p.obj>> \o objs[r] # <<>> /\ Head(<<p.obj>> \o objs[r]) = p.obj
    <3>1. p.obj \in Session
      BY <2>1, <2>3 DEF Session
    <3>2. QED
      BY <1>2, <3>1, Cons
  <2> HIDE DEF p
  <2>5. UpToDate(<<p.obj>> \o objs[r], p.next \o Tail(calls[r]), row')
    BY <1>1, <2>2, <2>4 DEF UpToDate, Same
  <2>6. QED
    BY <1>1, <1>4, <2>5, UpGoesOn
<1>5. QED
  BY <1>3, <1>4

\* setStatus, asked for a request that has its object.
LEMMA UpSetStatus ==
  ASSUME OneAtATime, SInv, RegressInv, NEW r \in Requests, calls[r] # <<>>,
         Head(calls[r]).op \notin {"monitored", "reload", "remove"}, row' = row,
         NEW st \in Status, Go(r, SetStatus(Obj(r), st), Tail(calls[r]))
  PROVE  RegressInv'
<1> DEFINE o == Obj(r)
           p == SetStatus(o, st)
           rest == Tail(calls[r])
<1>1. /\ rest \in Seq(NoCommit) /\ o \in Session
      /\ row # NoRow => o.status = row.status
      /\ \A x \in Session : With(r, x) # <<>> /\ Head(With(r, x)) = x
  BY UpRequest
<1>2. p.obj.status = o.status /\ Saves(p.obj, p.next \o rest)
  BY <1>1, AsksUp
<1>3. p.obj \in Session
  <2>1. p.obj \in {o, [o EXCEPT !.stop = TRUE]}
    BY SetStatusAsks
  <2>2. QED
    BY <1>1, <2>1 DEF Session
<1>4. Continue(r, With(r, p.obj), p.next \o rest)
  BY DEF Go
<1> HIDE DEF p, o, rest
<1>5. UpToDate(With(r, p.obj), p.next \o rest, row')
  BY <1>1, <1>2, <1>3 DEF UpToDate, Same
<1>6. QED
  BY <1>4, <1>5, UpGoesOn

LEMMA UpAsksServers ==
  ASSUME OneAtATime, SInv, RegressInv, AwayInv, NEW r \in Requests,
         DoOrderDeletion(r) \/ DoGetStatus(r)
  PROVE  RegressInv'
<1> DEFINE c == Head(calls[r])
           rest == Tail(calls[r])
           asks(s, st, next) == <<SetServerStatus(s, st), next>>
<1>1. calls[r] # <<>> /\ c.op \in {"orderDeletion", "getStatus"} /\ row' = row
  BY DEF DoOrderDeletion, DoGetStatus, Doing, DbOnly
<1>2. c \in Call /\ rest \in Seq(NoCommit) /\ objs[r] # <<>>
  BY <1>1, UpRequest
<1>3. c.todo \subseteq Aps /\ (c.op = "orderDeletion" => c.n \in Nat /\ c.saves \in BOOLEAN)
  BY <1>1, <1>2, CallFields
<1>4. \/ \E st \in Status : Go(r, SetStatus(Obj(r), st), rest)
      \/ Continue(r, objs[r], rest)
      \/ \E s \in c.todo, st \in Status, next \in NoCommit :
           \/ Continue(r, objs[r], asks(s, st, next) \o rest)
           \/ Continue(r, objs[r], OnDown \o (asks(s, st, next) \o rest))
  <2>1. CASE DoOrderDeletion(r)
    <3>1. ASSUME NEW s \in c.todo
          PROVE  /\ OrderDeletion(c.todo \ {s}, c.n + 1, c.saves) \in NoCommit
                 /\ OrderDeletion(c.todo \ {s}, c.n, c.saves) \in NoCommit
                 /\ srvdb[s] # "deleted"
      <4>1. c.op = "orderDeletion" /\ c.todo \ {s} \in SUBSET Aps
        BY <1>3, <2>1 DEF DoOrderDeletion, Doing
      <4>2. c.n \in Nat /\ c.n + 1 \in Nat /\ c.saves \in BOOLEAN
        BY <1>3, <4>1
      <4>3. srvdb[s] # "deleted"
        BY <1>2, <1>3, NotAway
      <4>4. QED
        BY <4>1, <4>2, <4>3, NoCommitCalls
    <3>2. {"destroyed", "destroying"} \subseteq Status
      BY DEF Status
    <3>3. QED
      BY <2>1, <3>1, <3>2 DEF DoOrderDeletion
  <2>2. CASE DoGetStatus(r)
    <3>1. ASSUME NEW s \in c.todo
          PROVE  GetStatus(c.todo \ {s}) \in NoCommit /\ Answer(aps[s]) \in Status
      <4>1. s \in Aps /\ c.todo \ {s} \in SUBSET Aps
        BY <1>3
      <4>2. aps[s] \in ApsStatus
        BY <4>1 DEF SInv, ServersOK
      <4>3. QED
        BY <4>1, <4>2, NoCommitCalls DEF Answer, ApsStatus, Status
    <3>2. "error" \in Status
      BY DEF Status
    <3>3. QED
      BY <2>2, <3>1, <3>2 DEF DoGetStatus, Heard
  <2>3. QED
    BY <2>1, <2>2
<1>5. ASSUME NEW s \in c.todo, NEW st \in Status, NEW next \in NoCommit
      PROVE  asks(s, st, next) \in Seq(NoCommit)
  <2>1. SetServerStatus(s, st) \in NoCommit
    BY <1>3, NoCommitCalls
  <2> HIDE DEF NoCommit
  <2>2. QED
    BY <2>1
<1> HIDE DEF c, rest, asks
<1>6. ASSUME NEW st \in Status, Go(r, SetStatus(Obj(r), st), rest) PROVE RegressInv'
  BY <1>1, <1>6, UpSetStatus DEF c, rest
<1>7. ASSUME NEW s \in c.todo, NEW st \in Status, NEW next \in NoCommit,
             \/ Continue(r, objs[r], asks(s, st, next) \o rest)
             \/ Continue(r, objs[r], OnDown \o (asks(s, st, next) \o rest))
      PROVE  RegressInv'
  <2>1. asks(s, st, next) \o rest \in Seq(NoCommit)
    BY <1>2, <1>5, ConcatProperties
  <2>2. OnDown \o (asks(s, st, next) \o rest) \in Seq(NoCommit)
    BY <2>1, NoCommitDown, ConcatProperties
  <2>3. QED
    BY <1>1, <1>7, <2>1, <2>2, UpAsks
<1>8. QED
  BY <1>1, <1>2, <1>4, <1>6, <1>7, UpAsks

LEMMA UpCreate ==
  ASSUME OneAtATime, SInv, RegressInv, NEW r \in Requests, DoCreate(r) PROVE RegressInv'
<1> DEFINE c == Head(calls[r])
           rest == Tail(calls[r])
<1>1. calls[r] # <<>> /\ c.op = "create" /\ row' = row
  BY DEF DoCreate, Doing
<1>2. c \in Call /\ rest \in Seq(NoCommit)
  BY <1>1, UpRequest
<1>3. \/ Continue(r, objs[r], rest) \/ Continue(r, objs[r], <<>>)
      \/ \E s \in c.todo : Continue(r, objs[r], <<Create(c.todo \ {s})>> \o rest)
  BY DEF DoCreate, NextOf
<1>4. ASSUME NEW s \in c.todo PROVE <<Create(c.todo \ {s})>> \o rest \in Seq(NoCommit)
  <2>1. Create(c.todo \ {s}) \in NoCommit
    BY <1>1, <1>2, CallFields, NoCommitCalls
  <2>2. <<Create(c.todo \ {s})>> \in Seq(NoCommit)
    BY <2>1
  <2>3. QED
    BY <1>2, <2>2, ConcatProperties
<1> HIDE DEF c, rest
<1>5. QED
  BY <1>1, <1>2, <1>3, <1>4, NoCommitDown, UpAsks

LEMMA UpDisconnect ==
  ASSUME OneAtATime, SInv, RegressInv, NEW r \in Requests, DoDisconnect(r) PROVE RegressInv'
<1> DEFINE c == Head(calls[r])
           asked(s, ok) == <<Disconnect(c.todo \ {s}, c.ok /\ ok)>>
<1>1. calls[r] # <<>> /\ c.op = "disconnect" /\ row' = row
  BY DEF DoDisconnect, Doing
<1>2. c \in Call
  BY <1>1, UpRequest
<1>3. \/ Go(r, SetStatus(Obj(r), "disconnected"), Tail(calls[r]))
      \/ Continue(r, <<>>, <<>>)
      \/ \E s \in c.todo : \E ok \in BOOLEAN :
           \/ Continue(r, objs[r], asked(s, ok))
           \/ Continue(r, objs[r], OnDown \o asked(s, ok))
  <2>1. \A s : (srvdb[s] = "ready" /\ aps[s] = "logged") \in BOOLEAN
    OBVIOUS
  <2>2. QED
    BY <2>1 DEF DoDisconnect
<1>4. ASSUME NEW s \in c.todo, NEW ok \in BOOLEAN
      PROVE  asked(s, ok) \in Seq(NoCommit) /\ OnDown \o asked(s, ok) \in Seq(NoCommit)
  <2>1. c.todo \ {s} \in SUBSET Aps /\ (c.ok /\ ok) \in BOOLEAN
    BY <1>1, <1>2, CallFields
  <2>2. Disconnect(c.todo \ {s}, c.ok /\ ok) \in NoCommit
    BY <2>1, NoCommitCalls
  <2>3. asked(s, ok) \in Seq(NoCommit)
    BY <2>2
  <2>4. QED
    BY <2>3, NoCommitDown, ConcatProperties
<1> HIDE DEF asked
<1>5. CASE Go(r, SetStatus(Obj(r), "disconnected"), Tail(calls[r]))
  BY <1>1, <1>5, UpSetStatus DEF Status
<1> HIDE DEF c
<1>6. QED
  BY <1>1, <1>3, <1>4, <1>5, NoCommitDown, UpAsks

LEMMA UpEntry ==
  ASSUME OneAtATime, SInv, RegressInv, NEW r \in Requests, DoReload(r) \/ DoMonitored(r)
  PROVE  RegressInv'
<1>1. row' = row
  BY DEF DoReload, DoMonitored
<1>2. CASE DoReload(r)
  <2> DEFINE p == SetStatus(row, "ready")
  <2>1. \/ Continue(r, <<>>, <<>>)
        \/ row # NoRow /\ Continue(r, <<p.obj>>, p.next \o <<Plain("resumed")>>)
    BY <1>2 DEF DoReload
  <2>2. ASSUME row # NoRow PROVE UpToDate(<<p.obj>>, p.next \o <<Plain("resumed")>>, row')
    <3>1. row \in Session
      BY <2>2 DEF SInv, RowInv, Stored
    <3>2. Plain("resumed") \in NoCommit
      BY NoCommitCalls
    <3>3. <<Plain("resumed")>> \in Seq(NoCommit)
      BY <3>2
    <3>4. p.obj.status = row.status /\ Saves(p.obj, p.next \o <<Plain("resumed")>>)
      BY <3>1, <3>3, AsksUp DEF Status
    <3>5. QED
      BY <1>1, <3>4 DEF UpToDate, Same
  <2>3. QED
    BY <1>1, <2>1, <2>2, NoCommitDown, UpAsks, UpGoesOn
<1>3. CASE DoMonitored(r)
  <2> DEFINE c == Head(calls[r])
             over == SetServerStatus(c.srv, "destroyed")
  <2>1. calls[r] # <<>> /\ c.op = "monitored"
    BY <1>3 DEF DoMonitored, Doing
  <2>2. c.srv \in Aps
    <3>1. c \in Call
      BY <2>1, UpRequest
    <3>2. QED
      BY <2>1, <3>1, CallFields
  <2>3. Continue(r, <<>>, <<>>) \/ Continue(r, <<row>>, <<over>>)
    BY <1>3 DEF DoMonitored
  <2>4. over \in NoCommit
    BY <2>2, NoCommitCalls DEF Status
  <2> HIDE DEF over
  <2>5. QED
    BY <1>1, <2>3, <2>4, OneCall, NoCommitDown, UpAsks
<1>4. QED
  BY <1>2, <1>3

\* A removal finds no session: its server's row goes.
LEMMA UpRemove ==
  ASSUME OneAtATime, SInv, RegressInv, NEW r \in Requests, DoRemove(r)
  PROVE  RegressInv' /\ Nothing' /\ row' = row
<1>1. calls[r] # <<>> /\ Head(calls[r]).op = "remove"
  BY DEF DoRemove, Doing
<1>2. objs[r] = <<>> /\ row = NoRow /\ \E s \in Aps : calls[r] = <<Remove(s)>>
  <2>1. ~Saves(Head(objs[r]), calls[r])
    <3>1. calls[r] \in Seq(NoCommit) => Head(calls[r]) \in NoCommit
      BY <1>1, HeadTailProperties
    <3>2. QED
      BY <1>1, <3>1 DEF Saves, NoCommit
  <2>2. QED
    BY <2>1 DEF RegressInv, UpToDate, Removes
<1>3. Tail(calls[r]) = <<>>
  BY <1>2
<1>4. Continue(r, <<>>, <<>>) /\ row' = row
  BY <1>2, <1>3 DEF DoRemove
<1>5. RegressInv'
  BY <1>4, NoCommitDown, UpAsks
<1>6. objs'[r] = <<>>
  BY <1>4 DEF Continue, SInv, CallsOK
<1>7. QED
  BY <1>2, <1>4, <1>5, <1>6 DEF OneAtATime, Nothing

LEMMA UpCron ==
  ASSUME OneAtATime, SInv, RegressInv, NEW r \in Requests, DoCron(r) \/ DoPurgeIfDead(r)
  PROVE  RegressInv'
<1> DEFINE dead == IF Obj(r).status \in Unused \cup {"logged"} THEN <<>> ELSE Purge
<1>1. calls[r] # <<>> /\ row' = row /\ Head(calls[r]).op # "remove"
  BY DEF DoCron, DoCronEnd, DoCronDue, DoPurgeIfDead, Doing
<1>2. \/ Continue(r, <<>>, <<>>)
      \/ \E k \in 1 .. 5 : Continue(r, objs[r], CronWork(k) \o <<Cron(k + 1)>>)
      \/ Continue(r, objs[r], dead \o Tail(calls[r]))
  BY DEF DoCron, DoCronEnd, DoCronDue, DoPurgeIfDead
<1>3. Cardinality(Aps) \in Nat
  BY SMSessionAssumption, FS_CardinalityType
<1>4. /\ OrderDeletion({}, Cardinality(Aps), FALSE) \in NoCommit /\ OrderAll \in NoCommit
      /\ GetStatus(Aps) \in NoCommit
      /\ Plain("purgeIfDead") \in NoCommit /\ Plain("delete") \in NoCommit
  BY <1>3, NoCommitCalls
<1> HIDE DEF NoCommit
<1>5. Purge \in Seq(NoCommit)
  BY <1>4, OneCall DEF Purge
<1>6. ASSUME NEW k \in 1 .. 5 PROVE CronWork(k) \o <<Cron(k + 1)>> \in Seq(NoCommit)
  <2>1. <<Plain("delete")>> \in Seq(NoCommit) /\ <<OrderAll>> \in Seq(NoCommit)
        /\ <<GetStatus(Aps), Plain("purgeIfDead")>> \in Seq(NoCommit)
    BY <1>4, OneCall
  <2>2. Purge \o <<Plain("delete")>> \in Seq(NoCommit)
    BY <1>5, <2>1, ConcatProperties
  <2>3. CronWork(k) \in Seq(NoCommit)
    <3>1. CASE k \in {1, 2}
      BY <2>1, <3>1 DEF CronWork
    <3>2. CASE k = 3
      BY <2>1, <3>2 DEF CronWork
    <3>3. CASE k \in {4, 5}
      BY <2>2, <3>3 DEF CronWork
    <3>4. QED
      BY <3>1, <3>2, <3>3
  <2>4. Cron(k + 1) \in NoCommit
    BY NoCommitCalls
  <2>5. <<Cron(k + 1)>> \in Seq(NoCommit)
    BY <2>4
  <2>6. QED
    BY <2>3, <2>5, ConcatProperties
<1>7. dead \in Seq(NoCommit) /\ Tail(calls[r]) \in Seq(NoCommit)
  BY <1>1, <1>5, NoCommitDown, UpRequest
<1> HIDE DEF dead
<1>8. dead \o Tail(calls[r]) \in Seq(NoCommit)
  BY <1>7, ConcatProperties
<1>9. QED
  BY <1>1, <1>2, <1>6, <1>8, NoCommitDown, UpAsks

LEMMA UpStart ==
  ASSUME OneAtATime, SInv, NotYet, RegressInv, NEW r \in Requests, StartRequest(r)
  PROVE  RegressInv' /\ (row # NoRow => row' = row)
<1>1. row # NoRow => row \in Session
  BY DEF SInv, RowInv, Stored
<1>2. CASE StartNew(r)
  <2> DEFINE rest == <<Plain("save"), Create(Prepared)>>
  <2>1. row = NoRow
    BY <1>2 DEF StartNew, NotYet, Nothing
  <2>2. row' = Fresh /\ Continue(r, <<Fresh>>, <<Commit("created"), Plain("save"), Create(Prepared)>>)
    BY <1>2 DEF StartNew, Begin
  <2>3. Plain("save") \in NoCommit /\ Create(Prepared) \in NoCommit
    BY NoCommitCalls, PreparedType
  <2>4. rest \in Seq(NoCommit)
    <3> HIDE DEF NoCommit
    <3>1. QED
      BY <2>3
  <2>5. <<Commit("created"), Plain("save"), Create(Prepared)>> = <<Commit("created")>> \o rest
    BY DEF Commit, Plain, Create
  <2> HIDE DEF rest
  <2>6. Follows(Fresh.status, "created")
    BY DEF Fresh, Follows, Rank, Status
  <2>7. Saves(Fresh, <<Commit("created")>> \o rest)
    <3>1. /\ <<Commit("created")>> \o rest # <<>> /\ Head(<<Commit("created")>> \o rest) = Commit("created")
          /\ Tail(<<Commit("created")>> \o rest) = rest
      BY <2>4, Cons
    <3>2. Commit("created").op = "commit" /\ Commit("created").st = "created"
      BY DEF Commit
    <3>3. QED
      BY <2>4, <2>6, <3>1, <3>2 DEF Saves
  <2>8. UpToDate(<<Fresh>>, <<Commit("created")>> \o rest, row')
    BY <2>2, <2>7 DEF UpToDate, Same
  <2>9. QED
    BY <2>1, <2>2, <2>5, <2>8, UpGoesOn
<1>3. ASSUME NEW s \in Aps, Report(r, s) PROVE RegressInv' /\ row' = row
  <2> DEFINE cs == <<SetServerStatus(s, report[s])>>
  <2>1. row' = row /\ (report[s] \in Status)
    BY <1>3 DEF Report, SInv, ServersOK
  <2>2. cs \in Seq(NoCommit)
    <3>1. SetServerStatus(s, report[s]) \in NoCommit
      BY <2>1, NoCommitCalls
    <3>2. QED
      BY <3>1
  <2> HIDE DEF cs
  <2>3. \/ UNCHANGED <<calls, objs>>
        \/ calls' = [calls EXCEPT ![r] = cs] /\ objs' = [objs EXCEPT ![r] = <<row>>]
    BY <1>3 DEF Report, cs
  <2>4. CASE UNCHANGED <<calls, objs>>
    BY <2>1, <2>4 DEF RegressInv
  <2>5. CASE calls' = [calls EXCEPT ![r] = cs] /\ objs' = [objs EXCEPT ![r] = <<row>>]
    <3>1. calls'[r] = cs /\ objs'[r] = <<row>>
      BY <2>5 DEF SInv, CallsOK
    <3>2. UpToDate(objs'[r], calls'[r], row')
      BY <2>1, <2>2, <3>1 DEF UpToDate, Saves, Same
    <3>3. QED
      BY <2>1, <3>2 DEF OneAtATime, RegressInv
  <2>6. QED
    BY <2>1, <2>3, <2>4, <2>5
<1>4. CASE Logout(r)
  <2>1. PICK st \in {"disconnected", "wait_destroy"} :
          Continue(r, <<SetStatus(row, st).obj>>, SetStatus(row, st).next)
    BY <1>4 DEF Logout, Begin
  <2> DEFINE p == SetStatus(row, st)
  <2>2. row \in Session /\ row' = row /\ st \in Status
    BY <1>1, <1>4 DEF Logout, Status
  <2>3. p.obj.status = row.status /\ Saves(p.obj, p.next \o <<>>)
    BY <2>2, AsksUp, NoCommitDown
  <2>4. p.next \o <<>> = p.next
    BY SetStatusAsks, ConcatEmptySeq
  <2> HIDE DEF p
  <2>5. UpToDate(<<p.obj>>, p.next, row')
    BY <2>2, <2>3, <2>4 DEF UpToDate, Same
  <2>6. QED
    BY <2>1, <2>2, <2>5, UpGoesOn DEF p
<1>5. ASSUME row' = row, NEW c \in NoCommit, Begin(r, <<row>>, <<c>>) \/ Begin(r, <<>>, <<c>>)
      PROVE  RegressInv'
  <2>1. <<c>> \in Seq(NoCommit)
    OBVIOUS
  <2>2. QED
    BY <1>5, <2>1, UpAsks DEF Begin
<1>6. Cardinality(Aps) \in Nat
  BY SMSessionAssumption, FS_CardinalityType
<1>7. CASE StartResume(r)
  BY <1>5, <1>7, NoCommitCalls DEF StartResume
<1>8. CASE StartPurge(r)
  <2>1. OrderDeletion({}, Cardinality(Aps), FALSE) \in NoCommit
    BY <1>6, NoCommitCalls
  <2>2. QED
    BY <1>5, <1>8, <2>1, Zenon DEF StartPurge, Purge
<1>9. CASE Kill(r)
  BY <1>5, <1>9, NoCommitCalls DEF Kill
<1>10. CASE AdminDisconnect(r)
  <2>1. Disconnect(IF Desktop THEN {Main} ELSE Aps, TRUE) \in NoCommit
    BY SMSessionAssumption, NoCommitCalls
  <2>2. QED
    BY <1>5, <1>10, <2>1 DEF AdminDisconnect
<1>11. CASE ClientPoll(r)
  BY <1>5, <1>11, NoCommitCalls DEF ClientPoll
<1>12. CASE CronStart(r)
  BY <1>5, <1>12, NoCommitCalls DEF CronStart
<1>13. ASSUME NEW s \in Aps, Monitoring(r, s) PROVE RegressInv' /\ row' = row
  <2>1. Answer(aps[s]) \in Status
    <3>1. aps[s] \in ApsStatus
      BY DEF SInv, ServersOK
    <3>2. QED
      BY <3>1 DEF Answer, ApsStatus, Status
  <2>2. QED
    BY <1>5, <1>13, <2>1, NoCommitCalls DEF Monitoring
<1>14. ASSUME NEW s \in Aps, AdminRemove(r, s) PROVE RegressInv'
  <2>1. row = NoRow /\ row' = row /\ Continue(r, <<>>, <<Remove(s)>>)
    BY <1>14 DEF AdminRemove, Begin
  <2>2. UpToDate(<<>>, <<Remove(s)>>, row')
    BY <2>1 DEF UpToDate, Same, Removes
  <2>3. QED
    BY <2>1, <2>2, UpGoesOn
<1>15. StartNew(r) \/ row' = row
  BY DEF StartRequest, Report, StartResume, StartPurge, Logout, Kill, AdminDisconnect, AdminRemove,
         ClientWait, ClientPoll, CronStart, Monitoring
<1>16. StartNew(r) => row = NoRow
  BY DEF StartNew, NotYet, Nothing
<1>17. QED
  BY <1>2, <1>3, <1>4, <1>7, <1>8, <1>9, <1>10, <1>11, <1>12, <1>13, <1>14, <1>15, <1>16
     DEF StartRequest, ClientWait

LEMMA RegressNext ==
  ASSUME OneAtATime, SInv, NotYet, RegressInv, AwayInv, [Next]_vars
  PROVE  RegressInv' /\ (row # NoRow /\ row' # NoRow => Follows(row.status, row'.status))
<1>1. row # NoRow => Follows(row.status, row.status)
  <2>1. row # NoRow => row.status \in Status
    BY DEF SInv, RowInv, Stored, Session
  <2>2. QED
    BY <2>1, RankType DEF Follows
<1>2. ASSUME NEW r \in Requests, Do(r)
      PROVE  RegressInv' /\ (row # NoRow /\ row' # NoRow => Follows(row.status, row'.status))
  <2>1. CASE DoSetServerStatus(r)
    BY <1>1, <2>1, UpServerStatus
  <2>2. CASE DoCommit(r) \/ DoSave(r) \/ DoDelete(r) \/ DoResumed(r) \/ DoNotReady(r)
    BY <2>2, UpWrites
  <2>3. CASE \/ DoKill(r) \/ DoOrderDeletion(r) \/ DoGetStatus(r) \/ DoCreate(r) \/ DoReload(r)
             \/ DoMonitored(r) \/ DoCron(r) \/ DoPurgeIfDead(r) \/ DoDisconnect(r) \/ DoRemove(r)
    <3>1. row' = row
      BY <2>3 DEF DoKill, DoOrderDeletion, DoGetStatus, DoCreate, DoReload, DoMonitored, DoCron,
                  DoCronEnd, DoCronDue, DoPurgeIfDead, DoDisconnect, DoRemove
    <3>2. RegressInv'
      BY <2>3, UpKill, UpAsksServers, UpCreate, UpEntry, UpCron, UpDisconnect, UpRemove
    <3>3. QED
      BY <1>1, <3>1, <3>2
  <2>4. QED
    BY <1>2, <2>1, <2>2, <2>3 DEF Do
<1>3. ASSUME NEW r \in Requests, StartRequest(r)
      PROVE  RegressInv' /\ (row # NoRow /\ row' # NoRow => Follows(row.status, row'.status))
  BY <1>1, <1>3, UpStart
<1>4. CASE UNCHANGED <<row, calls, objs>>
  BY <1>1, <1>4 DEF RegressInv
<1>5. ASSUME NEW s \in Aps, Server(s) PROVE UNCHANGED <<row, calls, objs>>
  BY <1>5 DEF Server, Created, CreateFailed, CreateEnded, LogsIn, Disconnects, LogsOff, Destroyed,
              Change, LoseReport
<1>6. QED
  BY <1>2, <1>3, <1>4, <1>5 DEF Next, vars

\* A server is only removed where there is nothing, and nothing comes after it.
LEMMA AwayNext ==
  ASSUME OneAtATime, SInv, NotYet, RegressInv, AwayInv, [Next]_vars PROVE AwayInv'
<1>1. ASSUME NEW r \in Requests, Do(r) PROVE AwayInv'
  <2>1. CASE DoRemove(r)
    BY <2>1, UpRemove DEF AwayInv
  <2>2. CASE ~DoRemove(r) /\ Away
    <3>1. row' = NoRow /\ objs' = [objs EXCEPT ![r] = <<>>]
      BY <1>1, <2>2, NothingDone DEF AwayInv
    <3>2. Nothing /\ objs = [q \in Requests |-> objs[q]]
      BY <2>2 DEF AwayInv, SInv, CallsOK
    <3>3. QED
      BY <3>1, <3>2 DEF AwayInv, Nothing
  <2>3. CASE ~DoRemove(r) /\ ~Away
    <3>1. srvdb' = srvdb \/ \E s : srvdb' = [srvdb EXCEPT ![s] = "broken"]
      BY <1>1, <2>3 DEF Do, DoSetServerStatus, DoCommit, DoSave, DoDelete, DoKill, DoNotReady,
         DoOrderDeletion, DoGetStatus, DoCreate, DoReload, DoResumed, DoMonitored, DoCron,
         DoCronEnd, DoCronDue, DoPurgeIfDead, DoDisconnect, DbOnly
    <3>2. srvdb \in [Aps -> {"ready", "broken", "deleted"}]
      BY DEF SInv, ServersOK
    <3>3. QED
      BY <2>3, <3>1, <3>2 DEF AwayInv, Away
  <2>4. QED
    BY <2>1, <2>2, <2>3
<1>2. ASSUME NEW r \in Requests, StartRequest(r) PROVE AwayInv'
  <2>1. srvdb' = srvdb
    BY <1>2 DEF StartRequest, StartNew, Report, StartResume, StartPurge, Logout, Kill,
       AdminDisconnect, AdminRemove, ClientWait, ClientPoll, CronStart, Monitoring, DbOnly
  <2>2. Away => ~StartNew(r)
    BY DEF Away, StartNew
  <2>3. ASSUME Away PROVE Nothing'
    <3>1. Nothing /\ row' = NoRow /\ objs' = objs
      BY <1>2, <2>2, <2>3, NothingStarts DEF AwayInv
    <3>2. QED
      BY <3>1 DEF Nothing
  <2>4. QED
    BY <2>1, <2>3 DEF AwayInv, Away
<1>3. CASE UNCHANGED <<row, objs, srvdb>>
  BY <1>3 DEF AwayInv, Away, Nothing
<1>4. ASSUME NEW s \in Aps, Server(s) PROVE UNCHANGED <<row, objs, srvdb>>
  BY <1>4 DEF Server, Created, CreateFailed, CreateEnded, LogsIn, Disconnects, LogsOff, Destroyed,
              Change, LoseReport
<1>5. QED
  BY <1>1, <1>2, <1>3, <1>4 DEF Next, vars

LEMMA RegressInit == Init => NotYet /\ RegressInv /\ AwayInv
BY NoCommitDown DEF Init, NotYet, Nothing, RegressInv, UpToDate, Saves, Same, AwayInv

\* While requests come one at a time the row never goes back to an earlier status,
\* but for a resumption: setServerStatus and setStatus check the object they were
\* given, and then the object is what the row is.
THEOREM NoRegressAlone == OneAtATime => (Spec => NoRegress)
<1> SUFFICES ASSUME OneAtATime PROVE Spec => NoRegress
  OBVIOUS
<1>1. Init => NotYet /\ RegressInv /\ AwayInv
  BY RegressInit
<1>2. SInv /\ NotYet /\ RegressInv /\ AwayInv /\ [Next]_vars => NotYet' /\ RegressInv' /\ AwayInv'
  BY NotYetNext, RegressNext, AwayNext
<1>3. SInv /\ NotYet /\ RegressInv /\ AwayInv /\ [Next]_vars =>
        [row # NoRow /\ row' # NoRow =>
           \/ Rank[row'.status] >= Rank[row.status]
           \/ Persistent /\ row'.status = "ready"
                         /\ row.status \in {"logged", "disconnected"}]_vars
  BY RegressNext DEF Follows
<1>4. QED
  BY SessionInv, <1>1, <1>2, <1>3, PTL DEF Spec, NoRegress
-----------------------------------------------------------------------------
(* No server keeps a session that the Session Manager has forgotten: when  *)
(* the row goes, every server that may have the session is one that a      *)
(* request is still about to order.                                        *)

\* The servers that the calls of one kind in a list are still about.
Todo(op, cs) == {s \in Aps : \E i \in 1 .. Len(cs) : cs[i].op = op /\ s \in cs[i].todo}

\* The servers that do not run the session and never will.
Dead ==
  {s \in Aps : \/ srvdb[s] # "ready" \/ aps[s] \notin Live \cup {"none"}
               \/ aps[s] = "none" /\ \A r \in Requests : s \notin Todo("create", calls[r])}
Covered == \A s \in Aps : s \in Dead \/ \E r \in Requests : s \in Todo("orderDeletion", calls[r])

\* A request that creates the session does nothing else, and a request that asks
\* the servers to disconnect it does that last.
Calm == {c \in Call : /\ c.op \notin {"delete", "purge", "notReady", "orderDeletion"}
                      /\ c.op = "setServerStatus" => c.st # "destroying"
                      /\ c.op = "commit" => c.st \notin Ending}
Making == {c \in Calm : c.op \in {"commit", "save", "create"}}
Usual == {c \in Call : c.op \notin {"create", "cron", "purgeIfDead"}}
Common == {c \in Usual : c.op # "disconnect"}
LastOnly(cs) == \A i \in 1 .. Len(cs) : cs[i].op = "disconnect" => i = Len(cs)
Serves(cs) == cs \in Seq(Usual) /\ LastOnly(cs)

\* A session that is gone, or about to go, has all its servers covered.
EndCovered == born /\ (row = NoRow \/ row.status \in Ending) => Covered

\* Nothing that ends the row comes before every server is covered.
Settled(cs) == cs \in Seq(Calm) \/ Head(cs).op = "kill" \/ Covered
OrphanInv ==
  /\ Said(Aps, Dead)
  /\ EndCovered
  /\ \A r \in Requests : /\ Settled(calls[r])
                         /\ calls[r] \in Seq(Making) \/ Serves(calls[r])

LEMMA TodoConcat ==
  ASSUME NEW op, NEW a \in Seq(Call), NEW b \in Seq(Call)
  PROVE  Todo(op, a \o b) = Todo(op, a) \cup Todo(op, b)
<1>1. /\ Len(a) \in Nat /\ Len(b) \in Nat /\ Len(a \o b) = Len(a) + Len(b)
      /\ \A i \in 1 .. Len(a) + Len(b) : (a \o b)[i] = IF i <= Len(a) THEN a[i] ELSE b[i - Len(a)]
  BY LenProperties, ConcatProperties
<1>2. ASSUME NEW s \in Aps, NEW i \in 1 .. Len(a \o b), (a \o b)[i].op = op, s \in (a \o b)[i].todo
      PROVE  s \in Todo(op, a) \cup Todo(op, b)
  <2>1. CASE i <= Len(a)
    BY <1>1, <1>2, <2>1 DEF Todo
  <2>2. CASE ~(i <= Len(a))
    <3>1. i - Len(a) \in 1 .. Len(b) /\ (a \o b)[i] = b[i - Len(a)]
      BY <1>1, <2>2
    <3>2. QED
      BY <1>2, <3>1 DEF Todo
  <2>3. QED
    BY <2>1, <2>2
<1>3. ASSUME NEW s \in Aps, NEW i \in 1 .. Len(a), a[i].op = op, s \in a[i].todo
      PROVE  s \in Todo(op, a \o b)
  <2>1. i \in 1 .. Len(a \o b) /\ (a \o b)[i] = a[i]
    BY <1>1
  <2>2. QED
    BY <1>3, <2>1 DEF Todo
<1>4. ASSUME NEW s \in Aps, NEW i \in 1 .. Len(b), b[i].op = op, s \in b[i].todo
      PROVE  s \in Todo(op, a \o b)
  <2>1. i + Len(a) \in 1 .. Len(a \o b) /\ (a \o b)[i + Len(a)] = b[i + Len(a) - Len(a)]
    BY <1>1
  <2>2. i + Len(a) - Len(a) = i
    BY <1>1
  <2>3. QED
    BY <1>4, <2>1, <2>2 DEF Todo
<1>5. QED
  BY <1>2, <1>3, <1>4 DEF Todo

LEMMA TodoOne ==
  ASSUME NEW op, NEW c
  PROVE  Todo(op, <<c>>) = IF c.op = op THEN c.todo \cap Aps ELSE {}
<1>1. Len(<<c>>) = 1 /\ <<c>>[1] = c /\ 1 .. 1 = {1}
  OBVIOUS
<1>2. QED
  BY <1>1 DEF Todo

LEMMA TodoTail ==
  ASSUME NEW op, NEW cs \in Seq(Call), cs # <<>>
  PROVE  Todo(op, cs) = (IF Head(cs).op = op THEN Head(cs).todo \cap Aps ELSE {}) \cup Todo(op, Tail(cs))
<1>1. /\ Head(cs) \in Call /\ Tail(cs) \in Seq(Call) /\ Head(cs) = cs[1] /\ Len(cs) \in Nat \ {0}
      /\ Len(Tail(cs)) = Len(cs) - 1 /\ \A i \in 1 .. Len(cs) - 1 : Tail(cs)[i] = cs[i + 1]
  BY HeadTailProperties, EmptySeq
<1>2. ASSUME NEW s \in Aps, NEW i \in 1 .. Len(cs), cs[i].op = op, s \in cs[i].todo, i # 1
      PROVE  s \in Todo(op, Tail(cs))
  <2>1. i - 1 \in 1 .. Len(Tail(cs)) /\ Tail(cs)[i - 1] = cs[i - 1 + 1] /\ i - 1 + 1 = i
    BY <1>1, <1>2
  <2>2. QED
    BY <1>2, <2>1 DEF Todo
<1>3. ASSUME NEW s \in Aps, NEW i \in 1 .. Len(Tail(cs)), Tail(cs)[i].op = op, s \in Tail(cs)[i].todo
      PROVE  s \in Todo(op, cs)
  <2>1. i + 1 \in 1 .. Len(cs) /\ Tail(cs)[i] = cs[i + 1]
    BY <1>1
  <2>2. QED
    BY <1>3, <2>1 DEF Todo
<1>4. 1 \in 1 .. Len(cs)
  BY <1>1
<1>5. QED
  BY <1>1, <1>2, <1>3, <1>4 DEF Todo

LEMMA TodoNone ==
  ASSUME NEW op, NEW K, NEW cs \in Seq(K), \A c \in K : c.op # op PROVE Todo(op, cs) = {}
<1>1. \A i \in 1 .. Len(cs) : cs[i] \in K
  BY ElementOfSeq
<1>2. QED
  BY <1>1 DEF Todo

LEMMA ServesTail ==
  ASSUME NEW cs, Serves(cs), cs # <<>>
  PROVE  Serves(Tail(cs)) /\ (Head(cs).op = "disconnect" => Tail(cs) = <<>>)
<1>1. /\ Head(cs) \in Usual /\ Tail(cs) \in Seq(Usual) /\ Head(cs) = cs[1] /\ Len(cs) \in Nat \ {0}
      /\ Len(Tail(cs)) = Len(cs) - 1 /\ \A i \in 1 .. Len(cs) - 1 : Tail(cs)[i] = cs[i + 1]
  BY HeadTailProperties, EmptySeq DEF Serves
<1>2. ASSUME NEW i \in 1 .. Len(Tail(cs)), Tail(cs)[i].op = "disconnect" PROVE i = Len(Tail(cs))
  <2>1. i + 1 \in 1 .. Len(cs) /\ cs[i + 1].op = "disconnect"
    BY <1>1, <1>2
  <2>2. i + 1 = Len(cs)
    BY <2>1 DEF Serves, LastOnly
  <2>3. i \in Nat /\ Len(Tail(cs)) = Len(cs) - 1
    BY <1>1
  <2>4. QED
    BY <2>2, <2>3
<1>3. ASSUME Head(cs).op = "disconnect" PROVE Tail(cs) = <<>>
  <2>1. 1 \in 1 .. Len(cs) /\ cs[1].op = "disconnect"
    BY <1>1, <1>3
  <2>2. 1 = Len(cs)
    BY <2>1 DEF Serves, LastOnly
  <2>3. Len(Tail(cs)) = Len(cs) - 1
    BY <1>1
  <2>4. Len(Tail(cs)) = 0
    BY <2>2, <2>3
  <2>5. QED
    BY <1>1, <2>4, EmptySeq
<1>4. QED
  BY <1>1, <1>2, <1>3 DEF Serves, LastOnly

LEMMA ServesConcat ==
  ASSUME NEW pre \in Seq(Common), NEW cs, Serves(cs) PROVE Serves(pre \o cs)
<1>1. pre \in Seq(Usual) /\ cs \in Seq(Usual)
  BY SeqMonotonic DEF Common, Serves
<1>2. /\ pre \o cs \in Seq(Usual) /\ Len(pre) \in Nat /\ Len(cs) \in Nat
      /\ Len(pre \o cs) = Len(pre) + Len(cs)
      /\ \A i \in 1 .. Len(pre) + Len(cs) :
           (pre \o cs)[i] = IF i <= Len(pre) THEN pre[i] ELSE cs[i - Len(pre)]
  BY <1>1, LenProperties, ConcatProperties
<1>3. ASSUME NEW i \in 1 .. Len(pre \o cs), (pre \o cs)[i].op = "disconnect"
      PROVE  i = Len(pre \o cs)
  <2>1. CASE i <= Len(pre)
    <3>1. i \in 1 .. Len(pre) /\ (pre \o cs)[i] = pre[i]
      BY <1>2, <2>1
    <3>2. pre[i] \in Common
      BY <3>1, ElementOfSeq
    <3>3. QED
      BY <1>3, <3>1, <3>2 DEF Common
  <2>2. CASE ~(i <= Len(pre))
    <3>1. i - Len(pre) \in 1 .. Len(cs) /\ (pre \o cs)[i] = cs[i - Len(pre)]
      BY <1>2, <2>2
    <3>2. i - Len(pre) = Len(cs)
      BY <1>3, <3>1 DEF Serves, LastOnly
    <3>3. QED
      BY <1>2, <3>2
  <2>3. QED
    BY <2>1, <2>2
<1>4. QED
  BY <1>2, <1>3 DEF Serves, LastOnly

LEMMA CommonCalls ==
  /\ \A s \in Aps, st \in Status :
       /\ SetServerStatus(s, st) \in Common /\ (st # "destroying" => SetServerStatus(s, st) \in Calm)
       /\ Monitored(s, st) \in Common /\ Monitored(s, st) \in Calm
  /\ \A st \in Status : Commit(st) \in Common /\ (st \notin Ending => Commit(st) \in Calm)
  /\ \A todo \in SUBSET Aps, n \in Nat, b \in BOOLEAN : OrderDeletion(todo, n, b) \in Common
  /\ OrderAll \in Common /\ \A s \in Aps : Remove(s) \in Common /\ Remove(s) \in Calm
  /\ \A todo \in SUBSET Aps : GetStatus(todo) \in Common /\ GetStatus(todo) \in Calm
  /\ \A todo \in SUBSET Aps, ok \in BOOLEAN :
       Disconnect(todo, ok) \in Usual /\ Disconnect(todo, ok) \in Calm
  /\ \A name \in {"purge", "delete", "save", "kill", "notReady", "reload", "resumed"} :
       Plain(name) \in Common
  /\ \A name \in {"save", "kill", "reload", "resumed"} : Plain(name) \in Calm
<1>1. \A s \in Aps, st \in Status :
        /\ SetServerStatus(s, st) \in Common /\ (st # "destroying" => SetServerStatus(s, st) \in Calm)
        /\ Monitored(s, st) \in Common /\ Monitored(s, st) \in Calm
  BY DEF SetServerStatus, Monitored, Common, Usual, Calm, Call
<1>2. \A st \in Status : Commit(st) \in Common /\ (st \notin Ending => Commit(st) \in Calm)
  BY DEF Commit, Common, Usual, Calm, Call
<1>3. \A todo \in SUBSET Aps, n \in Nat, b \in BOOLEAN : OrderDeletion(todo, n, b) \in Common
  BY DEF OrderDeletion, Common, Usual, Call
<1>4. \A todo \in SUBSET Aps : GetStatus(todo) \in Common /\ GetStatus(todo) \in Calm
  BY DEF GetStatus, Common, Usual, Calm, Call
<1>5. \A todo \in SUBSET Aps, ok \in BOOLEAN :
        Disconnect(todo, ok) \in Usual /\ Disconnect(todo, ok) \in Calm
  BY DEF Disconnect, Usual, Calm, Call
<1>6. \A name \in {"purge", "delete", "save", "kill", "notReady", "reload", "resumed"} :
        Plain(name) \in Common
  BY DEF Plain, Common, Usual, Call
<1>7. \A name \in {"save", "kill", "reload", "resumed"} : Plain(name) \in Calm
  BY DEF Plain, Calm, Call
<1>8. OrderAll \in Common
  BY <1>3 DEF OrderAll
<1>9. \A s \in Aps : Remove(s) \in Common /\ Remove(s) \in Calm
  BY DEF Remove, Common, Usual, Calm, Call
<1>10. QED
  BY <1>1, <1>2, <1>3, <1>4, <1>5, <1>6, <1>7, <1>8, <1>9

LEMMA CommonDown ==
  /\ OnDown \in Seq(Common) /\ OnDown # <<>> /\ Head(OnDown).op = "kill"
  /\ <<>> \in Seq(Common) /\ <<>> \in Seq(Calm) /\ Serves(<<>>) /\ \A op : Todo(op, <<>>) = {}
<1>1. Plain("kill") \in Common /\ Plain("delete") \in Common /\ Plain("notReady") \in Common
  BY CommonCalls
<1>2. OnDown \in Seq(Common) /\ OnDown # <<>> /\ Head(OnDown).op = "kill"
  <2>1. OnDown # <<>> /\ Head(OnDown) = Plain("kill")
    BY DEF OnDown
  <2>2. QED
    BY <1>1, <2>1 DEF OnDown, Plain
<1>3. <<>> \in Seq(Common) /\ <<>> \in Seq(Calm) /\ <<>> \in Seq(Usual)
  BY EmptySeq
<1>4. Len(<<>>) = 0 /\ 1 .. 0 = {}
  BY EmptySeq
<1>5. QED
  BY <1>2, <1>3, <1>4 DEF Serves, LastOnly, Todo

LEMMA DownFirst ==
  ASSUME NEW cs \in Seq(Call) PROVE OnDown \o cs # <<>> /\ Head(OnDown \o cs).op = "kill"
<1> DEFINE q == OnDown \o cs
<1>1. OnDown \in Seq(Call) /\ Len(OnDown) = 3 /\ OnDown[1].op = "kill"
  BY OnDownCalls, SeqMonotonic DEF Work
<1>2. /\ q \in Seq(Call) /\ Len(q) = 3 + Len(cs) /\ Len(cs) \in Nat
      /\ \A i \in 1 .. 3 + Len(cs) : q[i] = IF i <= 3 THEN OnDown[i] ELSE cs[i - 3]
  <2>1. /\ q \in Seq(Call) /\ Len(q) = Len(OnDown) + Len(cs) /\ Len(cs) \in Nat
        /\ \A i \in 1 .. Len(OnDown) + Len(cs) :
             q[i] = IF i <= Len(OnDown) THEN OnDown[i] ELSE cs[i - Len(OnDown)]
    BY <1>1, ConcatProperties, LenProperties
  <2>2. QED
    BY <1>1, <2>1
<1> HIDE DEF q
<1>3. 1 \in 1 .. 3 + Len(cs) /\ Len(q) > 0
  BY <1>2
<1>4. q[1].op = "kill" /\ q # <<>>
  BY <1>1, <1>2, <1>3, EmptySeq
<1>5. Head(q).op = "kill"
  BY <1>2, <1>4, HeadTailProperties
<1>6. QED
  BY <1>4, <1>5 DEF q

\* The servers that do not run the session, now at least.
Ended == {s \in Aps : srvdb[s] # "ready" \/ aps[s] \notin Live}

\* How a request goes on that does not create the session: no server that it was
\* about to order is forgotten, and what may end the row comes when all are over,
\* or are about to be ordered.
Moves(r) ==
  /\ Serves(calls'[r])
  /\ Todo("orderDeletion", calls[r]) \subseteq Todo("orderDeletion", calls'[r]) \cup Ended'
  /\ \/ Covered \/ calls'[r] \in Seq(Calm) \/ Head(calls'[r]).op = "kill"
     \/ Aps \subseteq Todo("orderDeletion", calls'[r])
     \/ row' # NoRow /\ \A s \in Aps : row'.srv[s] = "destroyed"

LEMMA MovesOn ==
  ASSUME SInv, NEW r \in Requests, calls[r] # <<>>, Settled(calls[r]),
         NEW pre \in Seq(Common), NEW rest, Serves(rest), NEW os, Continue(r, os, pre \o rest),
         Todo("orderDeletion", calls[r])
           \subseteq Todo("orderDeletion", pre) \cup Todo("orderDeletion", rest) \cup Ended',
         calls[r] \in Seq(Calm) => rest \in Seq(Calm),
         \/ Covered
         \/ pre \in Seq(Calm) /\ Head(calls[r]).op # "kill"
         \/ pre # <<>> /\ Head(pre).op = "kill"
         \/ Aps \subseteq Todo("orderDeletion", pre)
         \/ row' # NoRow /\ \A s \in Aps : row'.srv[s] = "destroyed"
  PROVE  Moves(r)
<1>1. calls'[r] = pre \o rest
  BY DEF Continue, SInv, CallsOK
<1>2. Serves(calls'[r])
  BY <1>1, ServesConcat
<1>3. /\ pre \in Seq(Call) /\ rest \in Seq(Call)
  BY SeqMonotonic DEF Common, Usual, Serves
<1>4. Todo("orderDeletion", calls'[r]) = Todo("orderDeletion", pre) \cup Todo("orderDeletion", rest)
  BY <1>1, <1>3, TodoConcat
<1>5. CASE pre \in Seq(Calm) /\ Head(calls[r]).op # "kill" /\ ~Covered
  <2>1. rest \in Seq(Calm)
    BY <1>5 DEF Settled
  <2>2. calls'[r] \in Seq(Calm)
    BY <1>1, <1>5, <2>1, ConcatProperties
  <2>3. QED
    BY <1>2, <1>4, <2>2 DEF Moves
<1>6. CASE pre # <<>> /\ Head(pre).op = "kill"
  <2>1. /\ Len(pre) \in Nat \ {0} /\ Len(rest) \in Nat /\ Len(pre \o rest) = Len(pre) + Len(rest)
        /\ pre \o rest \in Seq(Call)
        /\ \A i \in 1 .. Len(pre) + Len(rest) :
             (pre \o rest)[i] = IF i <= Len(pre) THEN pre[i] ELSE rest[i - Len(pre)]
    BY <1>3, <1>6, EmptySeq, LenProperties, ConcatProperties
  <2>2. pre \o rest # <<>> /\ (pre \o rest)[1] = pre[1]
    BY <2>1, EmptySeq
  <2>3. Head(pre \o rest) = Head(pre)
    BY <1>3, <1>6, <2>1, <2>2, HeadTailProperties
  <2>4. QED
    BY <1>1, <1>2, <1>4, <1>6, <2>3 DEF Moves
<1>7. QED
  BY <1>2, <1>4, <1>5, <1>6 DEF Moves

\* The request drops its first call, which orders nothing, and may put others.
LEMMA MovesRest ==
  ASSUME SInv, NEW r \in Requests, calls[r] # <<>>, Serves(calls[r]), Settled(calls[r]),
         Head(calls[r]).op # "orderDeletion", NEW pre \in Seq(Common),
         NEW os, Continue(r, os, pre \o Tail(calls[r])),
         \/ Covered
         \/ pre \in Seq(Calm) /\ Head(calls[r]).op # "kill"
         \/ pre # <<>> /\ Head(pre).op = "kill"
         \/ Aps \subseteq Todo("orderDeletion", pre)
         \/ row' # NoRow /\ \A s \in Aps : row'.srv[s] = "destroyed"
  PROVE  Moves(r)
<1>1. Serves(Tail(calls[r]))
  BY ServesTail
<1>2. calls[r] \in Seq(Call)
  BY SessionTypes DEF TypeOK
<1>3. Todo("orderDeletion", calls[r]) \subseteq Todo("orderDeletion", Tail(calls[r]))
  BY <1>2, TodoTail
<1>4. calls[r] \in Seq(Calm) => Tail(calls[r]) \in Seq(Calm)
  BY HeadTailProperties
<1>5. QED
  BY <1>1, <1>3, <1>4, MovesOn

LEMMA OrdersAll ==
  /\ \A b \in BOOLEAN : Todo("orderDeletion", <<OrderDeletion(Aps, 0, b)>>) = Aps
  /\ Todo("orderDeletion", <<OrderAll>>) = Aps
<1>1. ASSUME NEW b \in BOOLEAN PROVE Todo("orderDeletion", <<OrderDeletion(Aps, 0, b)>>) = Aps
  <2>1. OrderDeletion(Aps, 0, b).op = "orderDeletion" /\ OrderDeletion(Aps, 0, b).todo = Aps
    BY DEF OrderDeletion
  <2>2. QED
    BY <2>1, TodoOne
<1>2. QED
  BY <1>1 DEF OrderAll

\* What setStatus may add to the calls of a request.
LEMMA SetStatusOrders ==
  ASSUME NEW o, NEW st \in Status
  PROVE  /\ SetStatus(o, st).next \in Seq(Common)
         /\ \/ SetStatus(o, st).next \in Seq(Calm) \/ st = "destroying"
            \/ Aps \subseteq Todo("orderDeletion", SetStatus(o, st).next)
            \/ st = "destroyed"
<1> DEFINE p == SetStatus(o, st)
           w == OrderDeletion(Aps, 0, TRUE)
<1>1. /\ w \in Common /\ Plain("purge") \in Common /\ Commit(st) \in Common
      /\ st \notin Ending => Commit(st) \in Calm
  BY CommonCalls
<1>2. /\ \A c \in Common : <<c>> \in Seq(Common)
      /\ \A c \in Calm : <<c>> \in Seq(Calm)
  OBVIOUS
<1>3. Todo("orderDeletion", <<w>>) = Aps
  BY OrdersAll
<1>4. \/ p.next = <<>> \/ p.next = <<w>>
      \/ p.next = <<Commit(st)>> /\ st # "wait_destroy"
      \/ p.next = <<Plain("purge")>> /\ st = "destroyed"
  BY SetStatusAsks, Zenon
<1> HIDE DEF p, w, Common, Calm
<1>5. p.next \in Seq(Common)
  BY <1>1, <1>2, <1>4, CommonDown
<1>6. \/ p.next \in Seq(Calm) \/ st = "destroying"
      \/ Aps \subseteq Todo("orderDeletion", p.next) \/ st = "destroyed"
  BY <1>1, <1>2, <1>3, <1>4, CommonDown DEF Ending
<1>7. QED
  BY <1>5, <1>6 DEF p

LEMMA MovesServerStatus ==
  ASSUME SInv, NEW r \in Requests, Serves(calls[r]), Settled(calls[r]), DoSetServerStatus(r)
  PROVE  Moves(r)
<1> DEFINE c == Head(calls[r])
           o == Obj(r)
           n == [o EXCEPT !.srv[c.srv] = c.st]
           p == React(n, c.srv, c.st)
           rest == Tail(calls[r])
<1>1. calls[r] # <<>> /\ c.op = "setServerStatus"
  BY DEF DoSetServerStatus, Doing
<1>2. c \in Call /\ o \in Session
  <2>1. calls[r] \in Seq(Call) /\ objs[r] \in Seq(Session)
    BY SessionTypes DEF TypeOK
  <2>2. QED
    BY <1>1, <2>1, ListsHold
<1>3. c.srv \in Aps /\ c.st \in Status /\ n \in Session /\ n.srv[c.srv] = c.st
  <2>1. c.srv \in Aps /\ c.st \in Status
    BY <1>1, <1>2, CallFields
  <2>2. QED
    BY <1>2, <2>1 DEF Session
<1>4. c.st = "destroying" => Covered
  <2>1. calls[r] \in Seq(Calm) => c \in Calm
    BY <1>1, HeadTailProperties
  <2>2. QED
    BY <1>1, <2>1 DEF Settled, Calm
<1>5. \/ Continue(r, objs[r], <<>> \o rest)
      \/ row' = n /\ Continue(r, With(r, p.obj), p.next \o rest)
  <2>1. rest \in Seq(Call)
    BY <1>1, HeadTailProperties, SessionTypes DEF TypeOK
  <2>2. <<>> \o rest = rest
    BY <2>1, ConcatEmptySeq
  <2>3. QED
    BY <2>2 DEF DoSetServerStatus, Go
<1>6. CASE Continue(r, objs[r], <<>> \o rest)
  BY <1>1, <1>6, CommonDown, MovesRest
<1>7. ASSUME row' = n
      PROVE  /\ p.next \in Seq(Common)
             /\ \/ p.next \in Seq(Calm) \/ Covered \/ Aps \subseteq Todo("orderDeletion", p.next)
                \/ row' # NoRow /\ \A s \in Aps : row'.srv[s] = "destroyed"
  <2>1. row' # NoRow
    BY <1>3, <1>7, SMSessionAssumption
  <2> HIDE DEF c, n
  <2>2. CASE c.st = "destroyed" /\ ~AllOthers(n, c.srv, c.st)
    <3>1. p = Then(n, <<>>)
      BY <2>2 DEF React
    <3>2. QED
      BY <3>1, CommonDown DEF Then
  <2>3. CASE c.st = "destroyed" /\ AllOthers(n, c.srv, c.st)
    <3>1. \A s \in Aps : row'.srv[s] = "destroyed"
      BY <1>3, <1>7, <2>3 DEF AllOthers
    <3>2. p = SetStatus(n, c.st)
      BY <2>3 DEF React
    <3>3. QED
      BY <1>3, <2>1, <3>1, <3>2, SetStatusOrders
  <2>4. CASE c.st # "destroyed"
    <3>1. p \in {SetStatus(n, c.st), SetStatus(n, "wait_destroy"), Then(n, <<>>)}
      BY DEF React
    <3>2. CASE p = SetStatus(n, c.st)
      BY <1>3, <1>4, <2>4, <3>2, SetStatusOrders
    <3>3. CASE p = SetStatus(n, "wait_destroy")
      BY <3>3, SetStatusOrders DEF Status
    <3>4. CASE p = Then(n, <<>>)
      BY <3>4, CommonDown DEF Then
    <3>5. QED
      BY <3>1, <3>2, <3>3, <3>4
  <2>5. QED
    BY <2>2, <2>3, <2>4
<1> HIDE DEF p, n
<1>8. CASE row' = n /\ Continue(r, With(r, p.obj), p.next \o rest)
  BY <1>1, <1>7, <1>8, MovesRest
<1>9. QED
  BY <1>5, <1>6, <1>8

\* The calls that only read or write the row.
LEMMA MovesPlain ==
  ASSUME SInv, NEW r \in Requests, Serves(calls[r]), Settled(calls[r]),
         DoCommit(r) \/ DoSave(r) \/ DoDelete(r) \/ DoResumed(r) \/ DoNotReady(r)
  PROVE  Moves(r)
<1> DEFINE rest == Tail(calls[r])
<1>1. /\ calls[r] # <<>>
      /\ Head(calls[r]).op \in {"commit", "save", "delete", "purge", "resumed", "notReady"}
      /\ \E os : Continue(r, os, rest)
  BY DEF DoCommit, DoSave, DoDelete, DoResumed, DoNotReady, Doing
<1>2. <<>> \o rest = rest
  <2>1. rest \in Seq(Call)
    BY <1>1, HeadTailProperties, SessionTypes DEF TypeOK
  <2>2. QED
    BY <2>1, ConcatEmptySeq
<1> HIDE DEF rest
<1>3. QED
  BY <1>1, <1>2, CommonDown, MovesRest DEF rest

LEMMA MovesKill ==
  ASSUME SInv, NotYet, NEW r \in Requests, Serves(calls[r]), Settled(calls[r]), DoKill(r),
         EndCovered
  PROVE  Moves(r)
<1> DEFINE p == SetStatus(row, "wait_destroy")
           rest == Tail(calls[r])
<1>1. /\ calls[r] # <<>> /\ Head(calls[r]).op = "kill"
      /\ IF row = NoRow
         THEN Continue(r, <<Obj(r)>> \o objs[r], <<>> \o Tail(rest))
         ELSE Continue(r, <<p.obj>> \o objs[r], p.next \o rest)
  BY DEF DoKill, Doing, Then
<1>2. calls[r] \in Seq(Call) /\ Serves(rest) /\ rest \in Seq(Call)
  BY <1>1, ServesTail, HeadTailProperties, SessionTypes DEF TypeOK
<1>3. rest # <<>> /\ Head(rest).op = "delete" /\ Len(objs[r]) >= 1
  BY <1>1, Running DEF SInv
<1>4. CASE row = NoRow
  <2>1. Covered
    <3>1. objs[r] # <<>>
      BY <1>3, EmptySeq
    <3>2. QED
      BY <1>4, <3>1 DEF NotYet, Nothing, EndCovered
  <2>2. Serves(Tail(rest))
    BY <1>2, <1>3, ServesTail
  <2>3. Todo("orderDeletion", calls[r]) \subseteq Todo("orderDeletion", Tail(rest))
    <3>1. Todo("orderDeletion", calls[r]) \subseteq Todo("orderDeletion", rest)
      BY <1>1, <1>2, TodoTail
    <3> HIDE DEF rest
    <3>2. Todo("orderDeletion", rest) \subseteq Todo("orderDeletion", Tail(rest))
      BY <1>2, <1>3, TodoTail
    <3>3. QED
      BY <3>1, <3>2
  <2>4. calls[r] \in Seq(Calm) => Tail(rest) \in Seq(Calm)
    <3>1. calls[r] \in Seq(Calm) => rest \in Seq(Calm)
      BY <1>1, HeadTailProperties
    <3>2. QED
      BY <1>3, <3>1, HeadTailProperties
  <2>5. QED
    BY <1>1, <1>4, <2>1, <2>2, <2>3, <2>4, CommonDown, MovesOn
<1>5. CASE row # NoRow
  <2>1. p.next \in Seq(Common)
    BY SetStatusOrders DEF Status
  <2>2. Covered \/ Aps \subseteq Todo("orderDeletion", p.next)
    <3>1. CASE row.status \in Ending
      BY <1>5, <3>1 DEF NotYet, Nothing, EndCovered
    <3>2. CASE row.status \notin Ending
      <4>1. row.status \in Storable
        BY <1>5 DEF SInv, RowInv, Stored
      <4>2. ~Refused(row, "wait_destroy")
        BY <3>2, <4>1 DEF Refused, Rank, Status, Storable, Ending
      <4>3. p = WaitDestroy(row)
        BY <4>2 DEF SetStatus
      <4>4. p.next = <<OrderDeletion(Aps, 0, TRUE)>>
        BY <4>3, WaitDestroyFields, Zenon
      <4>5. QED
        BY <4>4, OrdersAll
    <3>3. QED
      BY <3>1, <3>2
  <2> HIDE DEF p
  <2>3. QED
    BY <1>1, <1>5, <2>1, <2>2, MovesRest
<1>6. QED
  BY <1>4, <1>5

LEMMA MovesOrder ==
  ASSUME SInv, AwayInv, NEW r \in Requests, Serves(calls[r]), Settled(calls[r]), DoOrderDeletion(r)
  PROVE  Moves(r)
<1> DEFINE c == Head(calls[r])
           rest == Tail(calls[r])
           asks(s, st, n) == <<SetServerStatus(s, st), OrderDeletion(c.todo \ {s}, n, c.saves)>>
           st0 == IF c.n = Cardinality(Aps) THEN "destroyed" ELSE "destroying"
           p == SetStatus(Obj(r), st0)
<1>1. calls[r] # <<>> /\ c.op = "orderDeletion"
  BY DEF DoOrderDeletion, Doing
<1>2. /\ calls[r] \in Seq(Call) /\ c \in Call /\ Serves(rest) /\ rest \in Seq(Call)
      /\ c.todo \subseteq Aps /\ c.n \in Nat /\ c.saves \in BOOLEAN
      /\ \A s \in c.todo : srvdb[s] # "deleted"
  <2>1. calls[r] \in Seq(Call)
    BY SessionTypes DEF TypeOK
  <2>2. c \in Call /\ rest \in Seq(Call) /\ Serves(rest)
    BY <1>1, <2>1, HeadTailProperties, ServesTail
  <2>3. c.todo \subseteq Aps /\ c.n \in Nat /\ c.saves \in BOOLEAN
    BY <1>1, <2>2, CallFields
  <2>4. objs[r] # <<>>
    BY <1>1, Running, EmptySeq DEF SInv
  <2>5. QED
    BY <2>1, <2>2, <2>3, <2>4, NotAway
<1>3. Covered
  <2>1. calls[r] \in Seq(Calm) => c \in Calm
    BY <1>1, HeadTailProperties
  <2>2. QED
    BY <1>1, <2>1 DEF Settled, Calm
<1>4. calls[r] \in Seq(Calm) => rest \in Seq(Calm)
  BY <1>1, HeadTailProperties
<1>5. Todo("orderDeletion", calls[r]) = c.todo \cup Todo("orderDeletion", rest)
  BY <1>1, <1>2, TodoTail
<1>6. \/ c.todo = {} /\ Continue(r, With(r, p.obj), p.next \o rest)
      \/ \E s \in c.todo, st \in {"destroyed", "destroying"}, n \in {c.n, c.n + 1} :
           /\ \/ srvdb' = srvdb /\ srvdb[s] = "broken"
              \/ srvdb' = [srvdb EXCEPT ![s] = "broken"]
              \/ aps' = [aps EXCEPT ![s] = AfterOrder(@)]
           /\ \/ Continue(r, objs[r], asks(s, st, n) \o rest)
              \/ Continue(r, objs[r], OnDown \o (asks(s, st, n) \o rest))
  BY <1>2 DEF DoOrderDeletion, Go
<1>7. ASSUME NEW s \in c.todo,
             \/ srvdb' = srvdb /\ srvdb[s] = "broken"
             \/ srvdb' = [srvdb EXCEPT ![s] = "broken"]
             \/ aps' = [aps EXCEPT ![s] = AfterOrder(@)]
      PROVE  s \in Ended'
  <2>1. s \in Aps /\ aps[s] \in ApsStatus /\ AfterOrder(aps[s]) \notin Live
    BY <1>2 DEF SInv, ServersOK, AfterOrder, Live, ApsStatus
  <2>2. QED
    BY <1>7, <2>1 DEF Ended, SInv, ServersOK
<1>8. ASSUME NEW s \in c.todo, NEW st \in {"destroyed", "destroying"}, NEW n \in {c.n, c.n + 1}
      PROVE  /\ asks(s, st, n) \in Seq(Common)
             /\ c.todo \ {s} \subseteq Todo("orderDeletion", asks(s, st, n))
  <2>1. s \in Aps /\ st \in Status /\ c.todo \ {s} \in SUBSET Aps /\ n \in Nat /\ c.saves \in BOOLEAN
    BY <1>2 DEF Status
  <2>2. SetServerStatus(s, st) \in Common /\ OrderDeletion(c.todo \ {s}, n, c.saves) \in Common
    BY <2>1, CommonCalls
  <2>3. asks(s, st, n) \in Seq(Common)
    <3> HIDE DEF Common
    <3>1. QED
      BY <2>2
  <2>4. 2 \in 1 .. Len(asks(s, st, n)) /\ asks(s, st, n)[2] = OrderDeletion(c.todo \ {s}, n, c.saves)
    OBVIOUS
  <2>5. /\ OrderDeletion(c.todo \ {s}, n, c.saves).op = "orderDeletion"
        /\ OrderDeletion(c.todo \ {s}, n, c.saves).todo = c.todo \ {s}
    BY DEF OrderDeletion
  <2> HIDE DEF asks
  <2>6. c.todo \ {s} \subseteq Todo("orderDeletion", asks(s, st, n))
    BY <2>1, <2>4, <2>5 DEF Todo
  <2>7. QED
    BY <2>3, <2>6
<1>9. p.next \in Seq(Common)
  BY SetStatusOrders DEF Status
<1> HIDE DEF c, rest, asks, p
<1>10. CASE c.todo = {} /\ Continue(r, With(r, p.obj), p.next \o rest)
  BY <1>1, <1>2, <1>3, <1>4, <1>5, <1>9, <1>10, MovesOn
<1>11. ASSUME NEW s \in c.todo, s \in Ended', NEW st \in {"destroyed", "destroying"},
              NEW n \in {c.n, c.n + 1},
              \/ Continue(r, objs[r], asks(s, st, n) \o rest)
              \/ Continue(r, objs[r], OnDown \o (asks(s, st, n) \o rest))
       PROVE  Moves(r)
  <2> DEFINE a == asks(s, st, n)
  <2>1. /\ a \in Seq(Common) /\ c.todo \ {s} \subseteq Todo("orderDeletion", a)
        /\ Continue(r, objs[r], a \o rest) \/ Continue(r, objs[r], OnDown \o (a \o rest))
    BY <1>8, <1>11
  <2> HIDE DEF a
  <2>2. a \in Seq(Call) /\ OnDown \in Seq(Call) /\ OnDown \o a \in Seq(Common) /\ rest \in Seq(Call)
    BY <1>2, <2>1, CommonDown, ConcatProperties, SeqMonotonic DEF Common, Usual
  <2>3. OnDown \o (a \o rest) = (OnDown \o a) \o rest
    <3>1. \A x, y, z \in Seq(Call) : x \o (y \o z) = (x \o y) \o z
      BY ConcatAssociative
    <3>2. QED
      BY <2>2, <3>1
  <2>4. Todo("orderDeletion", OnDown \o a) = Todo("orderDeletion", OnDown) \cup Todo("orderDeletion", a)
    BY <2>2, TodoConcat
  <2>5. /\ Todo("orderDeletion", calls[r])
             \subseteq Todo("orderDeletion", a) \cup Todo("orderDeletion", rest) \cup Ended'
        /\ Todo("orderDeletion", calls[r])
             \subseteq Todo("orderDeletion", OnDown \o a) \cup Todo("orderDeletion", rest) \cup Ended'
    BY <1>5, <1>11, <2>1, <2>4
  <2>6. QED
    BY <1>1, <1>2, <1>3, <1>4, <2>1, <2>2, <2>3, <2>5, MovesOn
<1>12. QED
  BY <1>6, <1>7, <1>10, <1>11

LEMMA MovesGetStatus ==
  ASSUME SInv, NEW r \in Requests, Serves(calls[r]), Settled(calls[r]), DoGetStatus(r)
  PROVE  Moves(r)
<1> DEFINE c == Head(calls[r])
           rest == Tail(calls[r])
           heard(s, st) == <<SetServerStatus(s, st), GetStatus(c.todo \ {s})>>
<1>1. calls[r] # <<>> /\ c.op = "getStatus"
  BY DEF DoGetStatus, Doing
<1>2. c \in Call /\ rest \in Seq(Call)
  BY <1>1, HeadTailProperties, SessionTypes DEF TypeOK
<1>3. c.todo \subseteq Aps
  BY <1>1, <1>2, CallFields
<1>4. \/ Continue(r, objs[r], rest)
      \/ \E s \in c.todo :
           \/ Continue(r, objs[r], heard(s, "error") \o rest)
           \/ Continue(r, objs[r], heard(s, Answer(aps[s])) \o rest)
           \/ Continue(r, objs[r], OnDown \o (heard(s, "error") \o rest))
  BY DEF DoGetStatus, Heard
<1>5. ASSUME NEW s \in c.todo, NEW st \in {"error", Answer(aps[s])}
      PROVE  heard(s, st) \in Seq(Common) /\ heard(s, st) \in Seq(Calm)
  <2>1. s \in Aps /\ aps[s] \in ApsStatus
    BY <1>3 DEF SInv, ServersOK
  <2>2. st \in Status /\ st # "destroying"
    BY <2>1 DEF Answer, ApsStatus, Status
  <2>3. c.todo \ {s} \in SUBSET Aps
    BY <1>3
  <2>4. /\ SetServerStatus(s, st) \in Common /\ SetServerStatus(s, st) \in Calm
        /\ GetStatus(c.todo \ {s}) \in Common /\ GetStatus(c.todo \ {s}) \in Calm
    BY <2>1, <2>2, <2>3, CommonCalls
  <2> HIDE DEF Common, Calm
  <2>5. QED
    BY <2>4
<1>6. <<>> \o rest = rest
  BY <1>2, ConcatEmptySeq
<1> HIDE DEF rest, heard
<1>7. CASE Continue(r, objs[r], rest)
  BY <1>1, <1>6, <1>7, CommonDown, MovesRest DEF rest
<1>8. ASSUME NEW s \in c.todo, NEW st \in {"error", Answer(aps[s])},
             Continue(r, objs[r], heard(s, st) \o rest)
      PROVE  Moves(r)
  BY <1>1, <1>5, <1>8, MovesRest DEF rest
<1>9. ASSUME NEW s \in c.todo, Continue(r, objs[r], OnDown \o (heard(s, "error") \o rest))
      PROVE  Moves(r)
  <2> DEFINE pre == OnDown \o heard(s, "error")
  <2>1. /\ heard(s, "error") \in Seq(Common) /\ heard(s, "error") \in Seq(Call) /\ OnDown \in Seq(Call)
        /\ pre \in Seq(Common)
    BY <1>5, CommonDown, ConcatProperties, SeqMonotonic DEF Common, Usual
  <2>2. OnDown \o (heard(s, "error") \o rest) = pre \o rest
    BY <1>2, <2>1, ConcatAssociative
  <2>3. pre # <<>> /\ Head(pre).op = "kill"
    BY <2>1, DownFirst
  <2> HIDE DEF pre
  <2>4. QED
    BY <1>1, <1>9, <2>1, <2>2, <2>3, MovesRest DEF rest
<1>10. QED
  BY <1>4, <1>7, <1>8, <1>9

LEMMA ServesOne ==
  /\ \A c \in Usual : Serves(<<c>>)
  /\ \A c \in Calm : <<c>> \in Seq(Calm)
  /\ \A c \in Common : <<c>> \in Seq(Common)
<1>1. ASSUME NEW c \in Usual PROVE Serves(<<c>>)
  <2>1. <<c>> \in Seq(Usual) /\ Len(<<c>>) = 1
    OBVIOUS
  <2>2. QED
    BY <2>1 DEF Serves, LastOnly
<1> HIDE DEF Calm, Common
<1>2. QED
  BY <1>1

LEMMA MovesDisconnect ==
  ASSUME SInv, NEW r \in Requests, Serves(calls[r]), Settled(calls[r]), DoDisconnect(r)
  PROVE  Moves(r)
<1> DEFINE c == Head(calls[r])
           d(s, ok) == Disconnect(c.todo \ {s}, c.ok /\ ok)
           p == SetStatus(Obj(r), "disconnected")
<1>1. calls[r] # <<>> /\ c.op = "disconnect"
  BY DEF DoDisconnect, Doing
<1>2. c \in Call /\ Tail(calls[r]) = <<>> /\ calls[r] \in Seq(Call)
  BY <1>1, HeadTailProperties, ServesTail, SessionTypes DEF TypeOK
<1>3. c.todo \subseteq Aps /\ c.ok \in BOOLEAN
  BY <1>1, <1>2, CallFields
<1>4. \/ Continue(r, With(r, p.obj), p.next \o Tail(calls[r]))
      \/ Continue(r, <<>>, <<>>)
      \/ \E s \in c.todo : \E ok \in BOOLEAN :
           \/ Continue(r, objs[r], <<d(s, ok)>>)
           \/ Continue(r, objs[r], OnDown \o <<d(s, ok)>>)
  <2>1. \A s : (srvdb[s] = "ready" /\ aps[s] = "logged") \in BOOLEAN
    OBVIOUS
  <2>2. QED
    BY <2>1 DEF DoDisconnect, Go
<1>5. ASSUME NEW s \in c.todo, NEW ok \in BOOLEAN PROVE d(s, ok) \in Usual /\ d(s, ok) \in Calm
  <2>1. c.todo \ {s} \in SUBSET Aps /\ (c.ok /\ ok) \in BOOLEAN
    BY <1>3
  <2>2. QED
    BY <2>1, CommonCalls
<1>6. Todo("orderDeletion", calls[r]) = {}
  <2>1. Todo("orderDeletion", calls[r]) = {} \cup Todo("orderDeletion", Tail(calls[r]))
    BY <1>1, <1>2, TodoTail
  <2>2. QED
    BY <1>2, <2>1, CommonDown
<1> HIDE DEF d
<1>7. CASE Continue(r, With(r, p.obj), p.next \o Tail(calls[r]))
  <2>1. /\ p.next \in Seq(Common)
        /\ p.next \in Seq(Calm) \/ Aps \subseteq Todo("orderDeletion", p.next)
    BY SetStatusOrders DEF Status
  <2> HIDE DEF p
  <2>2. QED
    BY <1>1, <1>7, <2>1, MovesRest
<1>8. CASE Continue(r, <<>>, <<>>)
  <2>1. <<>> \o Tail(calls[r]) = <<>>
    BY <1>2, CommonDown, ConcatEmptySeq
  <2>2. QED
    BY <1>1, <1>8, <2>1, CommonDown, MovesRest
<1>9. ASSUME NEW s \in c.todo, NEW ok \in BOOLEAN,
             \/ Continue(r, objs[r], <<d(s, ok)>>)
             \/ Continue(r, objs[r], OnDown \o <<d(s, ok)>>)
      PROVE  Moves(r)
  <2> DEFINE rest == <<d(s, ok)>>
  <2>1. Serves(rest) /\ rest \in Seq(Calm)
    BY <1>5, ServesOne
  <2> HIDE DEF rest
  <2>2. <<>> \o rest = rest
    BY <2>1, ConcatEmptySeq
  <2>3. CASE Continue(r, objs[r], OnDown \o rest)
    BY <1>1, <1>6, <2>1, <2>3, CommonDown, MovesOn
  <2>4. CASE Continue(r, objs[r], rest)
    BY <1>1, <1>6, <2>1, <2>2, <2>4, CommonDown, MovesOn
  <2>5. QED
    BY <1>9, <2>3, <2>4 DEF rest
<1>10. QED
  BY <1>4, <1>7, <1>8, <1>9

LEMMA MovesEntry ==
  ASSUME SInv, NEW D, Said(Aps, D), NEW r \in Requests, Serves(calls[r]), Settled(calls[r]),
         DoReload(r) \/ DoMonitored(r)
  PROVE  Moves(r)
<1> DEFINE c == Head(calls[r])
<1>1. calls[r] # <<>> /\ c.op \in {"reload", "monitored"}
  BY DEF DoReload, DoMonitored, Doing
<1>2. Tail(calls[r]) = <<>>
  <2>1. ~Fits(objs[r], calls[r])
    <3>1. SUFFICES ASSUME Fits(objs[r], calls[r]) PROVE FALSE
      OBVIOUS
    <3>2. Len(objs[r]) \in Nat /\ Runs(calls[r], Len(objs[r]))
      BY <3>1, LenProperties DEF Fits
    <3>3. c \in Work
      BY <1>1, <3>2, RunsTail
    <3>4. QED
      BY <1>1, <3>3 DEF Work
  <2>2. calls[r] \in Seq(Call) /\ Len(calls[r]) = 1
    BY <2>1, SessionTypes DEF SInv, RequestInv, Enters, TypeOK
  <2>3. Tail(calls[r]) \in Seq(Call) /\ Len(Tail(calls[r])) = 0
    BY <1>1, <2>2, HeadTailProperties
  <2>4. QED
    BY <2>3, EmptySeq
<1>3. \A cs \in Seq(Call) : cs \o Tail(calls[r]) = cs
  BY <1>2, ConcatEmptySeq
<1>4. /\ Plain("save") \in Common /\ Plain("save") \in Calm
      /\ Plain("resumed") \in Common /\ Plain("resumed") \in Calm
  BY CommonCalls
<1>5. ASSUME NEW pre \in Seq(Common), NEW os, Continue(r, os, pre),
             pre \in Seq(Calm) \/ Aps \subseteq Todo("orderDeletion", pre)
      PROVE  Moves(r)
  <2>1. pre \in Seq(Call)
    BY <1>5, SeqMonotonic DEF Common, Usual
  <2>2. Continue(r, os, pre \o Tail(calls[r]))
    BY <1>3, <1>5, <2>1
  <2>3. QED
    BY <1>1, <1>5, <2>2, MovesRest
<1>6. CASE DoReload(r)
  <2> DEFINE next == SetStatus(row, "ready").next
             last == <<Plain("resumed")>>
  <2>1. \/ Continue(r, <<>>, <<>>) \/ Continue(r, <<SetStatus(row, "ready").obj>>, next \o last)
    BY <1>6 DEF DoReload
  <2>2. /\ next \in Seq(Common)
        /\ next \in Seq(Calm) \/ Aps \subseteq Todo("orderDeletion", next)
    BY SetStatusOrders DEF Status
  <2>3. last \in Seq(Common) /\ last \in Seq(Calm)
    BY <1>4, ServesOne
  <2> HIDE DEF next, last
  <2>4. next \in Seq(Call) /\ last \in Seq(Call)
    BY <2>2, <2>3, SeqMonotonic DEF Common, Usual
  <2>5. Todo("orderDeletion", next \o last) = Todo("orderDeletion", next) \cup Todo("orderDeletion", last)
    BY <2>4, TodoConcat
  <2>6. /\ next \o last \in Seq(Common)
        /\ next \o last \in Seq(Calm) \/ Aps \subseteq Todo("orderDeletion", next \o last)
    BY <2>2, <2>3, <2>5, ConcatProperties
  <2>7. QED
    BY <1>5, <2>1, <2>6, CommonDown
<1>7. CASE DoMonitored(r)
  <2> DEFINE over == SetServerStatus(c.srv, "destroyed")
  <2>1. c.op = "monitored"
    BY <1>7 DEF DoMonitored, Doing
  <2>2. c.srv \in Aps
    <3>1. c \in Call
      BY <1>1, SaidRequest
    <3>2. QED
      BY <2>1, <3>1, CallFields
  <2>3. Continue(r, <<>>, <<>>) \/ Continue(r, <<row>>, <<over>>)
    BY <1>7 DEF DoMonitored
  <2>4. over \in Common /\ over \in Calm
    BY <2>2, CommonCalls DEF Status
  <2> HIDE DEF over
  <2>5. <<over>> \in Seq(Common) /\ <<over>> \in Seq(Calm)
    BY <2>4, ServesOne
  <2>6. QED
    BY <1>5, <2>3, <2>5, CommonDown
<1>8. QED
  BY <1>6, <1>7

\* A removal drops its call, or first orders the servers.
LEMMA MovesRemove ==
  ASSUME SInv, NEW r \in Requests, Serves(calls[r]), Settled(calls[r]), DoRemove(r)
  PROVE  Moves(r)
<1>1. calls[r] # <<>> /\ Head(calls[r]).op = "remove"
  BY DEF DoRemove, Doing
<1>2. \/ Continue(r, objs[r], Tail(calls[r])) \/ Continue(r, <<row>>, <<OrderAll>> \o calls[r])
  BY DEF DoRemove
<1>3. <<OrderAll>> \in Seq(Common) /\ Todo("orderDeletion", <<OrderAll>>) = Aps
  BY CommonCalls, ServesOne, OrdersAll
<1>4. <<>> \o Tail(calls[r]) = Tail(calls[r])
  <2>1. Tail(calls[r]) \in Seq(Call)
    BY <1>1, HeadTailProperties, SessionTypes DEF TypeOK
  <2>2. QED
    BY <2>1, ConcatEmptySeq
<1>5. CASE Continue(r, objs[r], Tail(calls[r]))
  BY <1>1, <1>4, <1>5, CommonDown, MovesRest
<1>6. CASE Continue(r, <<row>>, <<OrderAll>> \o calls[r])
  <2>1. Todo("orderDeletion", calls[r]) \subseteq Aps
    BY DEF Todo
  <2>2. QED
    BY <1>1, <1>3, <1>6, <2>1, MovesOn
<1>7. QED
  BY <1>2, <1>5, <1>6

\* A request that creates the session.
LEMMA MakingMoves ==
  ASSUME SInv, NEW r \in Requests, calls[r] \in Seq(Making), Do(r)
  PROVE  /\ calls'[r] \in Seq(Making)
         /\ Todo("create", calls'[r]) \subseteq Todo("create", calls[r])
         /\ \/ aps' = aps
            \/ \E s \in Todo("create", calls[r]) : aps' = [aps EXCEPT ![s] = "init"]
<1> DEFINE c == Head(calls[r])
           rest == Tail(calls[r])
<1>1. calls[r] # <<>>
  BY DEF Do, DoSetServerStatus, DoCommit, DoSave, DoDelete, DoKill, DoNotReady, DoOrderDeletion,
         DoGetStatus, DoCreate, DoReload, DoResumed, DoMonitored, DoCron, DoCronEnd, DoCronDue,
         DoPurgeIfDead, DoDisconnect, DoRemove, Doing
<1>2. /\ c \in Making /\ rest \in Seq(Making) /\ c.op \in {"commit", "save", "create"}
      /\ c \in Call /\ calls[r] \in Seq(Call)
  BY <1>1, HeadTailProperties, SessionTypes DEF Making, TypeOK
<1>3. DoCommit(r) \/ DoSave(r) \/ DoCreate(r)
  BY <1>2 DEF Do, DoSetServerStatus, DoDelete, DoKill, DoNotReady, DoOrderDeletion,
         DoGetStatus, DoReload, DoResumed, DoMonitored, DoCron, DoCronEnd, DoCronDue,
         DoPurgeIfDead, DoDisconnect, DoRemove, Doing
<1>4. \A os, cs : Continue(r, os, cs) => calls'[r] = cs
  BY DEF Continue, SInv, CallsOK
<1>5. Todo("create", calls[r]) = (IF c.op = "create" THEN c.todo \cap Aps ELSE {}) \cup Todo("create", rest)
  BY <1>1, <1>2, TodoTail
<1>6. <<>> \in Seq(Making) /\ Todo("create", <<>>) = {}
  BY EmptySeq, CommonDown
<1>7. CASE DoCommit(r) \/ DoSave(r)
  BY <1>2, <1>4, <1>5, <1>7 DEF DoCommit, DoSave, DbOnly
<1>8. CASE DoCreate(r)
  <2>1. c.op = "create"
    BY <1>8 DEF DoCreate, Doing
  <2>2. c.todo \subseteq Aps
    BY <1>2, <2>1, CallFields
  <2>3. \/ aps' = aps /\ (calls'[r] = rest \/ calls'[r] = <<>>)
        \/ \E s \in c.todo : /\ aps' = aps \/ aps' = [aps EXCEPT ![s] = "init"]
                             /\ calls'[r] = <<Create(c.todo \ {s})>> \o rest
    <3>1. c.todo = {} \/ c.todo # {}
      OBVIOUS
    <3>2. CASE c.todo = {}
      BY <1>4, <1>8, <3>2 DEF DoCreate, NextOf
    <3>3. NextOf(c.todo) \subseteq c.todo
      BY DEF NextOf
    <3>4. CASE c.todo # {}
      BY <1>4, <1>8, <3>3, <3>4 DEF DoCreate
    <3>5. QED
      BY <3>1, <3>2, <3>4
  <2>4. ASSUME NEW s \in c.todo
        PROVE  /\ <<Create(c.todo \ {s})>> \o rest \in Seq(Making)
               /\ Todo("create", <<Create(c.todo \ {s})>> \o rest) \subseteq Todo("create", calls[r])
    <3> DEFINE d == Create(c.todo \ {s})
    <3>1. d \in Making /\ d.op = "create" /\ d.todo = c.todo \ {s}
      BY <2>2 DEF Create, Making, Calm, Call
    <3> HIDE DEF d
    <3>2. <<d>> \in Seq(Making) /\ <<d>> \in Seq(Call) /\ rest \in Seq(Call)
      BY <1>2, <3>1, SeqMonotonic DEF Making, Calm
    <3>3. Todo("create", <<d>> \o rest) = Todo("create", <<d>>) \cup Todo("create", rest)
      BY <3>2, TodoConcat
    <3>4. Todo("create", <<d>>) \subseteq c.todo
      BY <3>1, TodoOne
    <3>5. <<d>> \o rest \in Seq(Making)
      BY <1>2, <3>2, ConcatProperties
    <3>6. QED
      BY <1>5, <2>1, <2>2, <3>3, <3>4, <3>5 DEF d
  <2>5. QED
    BY <1>2, <1>5, <1>6, <2>1, <2>2, <2>3, <2>4
<1>9. QED
  BY <1>3, <1>7, <1>8

LEMMA DoMoves ==
  ASSUME SInv, NotYet, AwayInv, NEW D, Said(Aps, D), EndCovered, NEW r \in Requests, Serves(calls[r]),
         Settled(calls[r]), Do(r)
  PROVE  Moves(r) /\ ~DoCreate(r)
<1>1. ~(DoCreate(r) \/ DoCron(r) \/ DoPurgeIfDead(r))
  <2>1. calls[r] # <<>> => Head(calls[r]) \in Usual
    BY HeadTailProperties DEF Serves
  <2>2. QED
    BY <2>1 DEF DoCreate, DoCron, DoCronEnd, DoCronDue, DoPurgeIfDead, Doing, Usual
<1>2. QED
  BY <1>1, MovesServerStatus, MovesPlain, MovesKill, MovesOrder, MovesGetStatus, MovesDisconnect,
     MovesEntry, MovesRemove DEF Do, EndCovered

\* A request that starts with the calls cs.
LEMMA MovesFirst ==
  ASSUME SInv, NEW r \in Requests, calls[r] = <<>>, NEW cs, Serves(cs), NEW os, Continue(r, os, cs),
         Covered \/ cs \in Seq(Calm) \/ Aps \subseteq Todo("orderDeletion", cs)
  PROVE  Moves(r)
<1>1. calls'[r] = cs
  BY DEF Continue, SInv, CallsOK
<1>2. Todo("orderDeletion", calls[r]) = {}
  BY CommonDown
<1>3. QED
  BY <1>1, <1>2 DEF Moves

LEMMA StartMoves ==
  ASSUME SInv, NotYet, NEW D, Said(Aps, D), EndCovered, "cron" \notin Kinds,
         NEW r \in Requests, StartRequest(r), ~StartNew(r)
  PROVE  Moves(r)
<1>1. ASSUME NEW c \in Usual, NEW os, Begin(r, os, <<c>>),
             Covered \/ c \in Calm \/ Aps \subseteq Todo("orderDeletion", <<c>>)
      PROVE  Moves(r)
  <2>1. calls[r] = <<>> /\ Continue(r, os, <<c>>)
    BY <1>1 DEF Begin
  <2>2. Serves(<<c>>) /\ (c \in Calm => <<c>> \in Seq(Calm))
    BY ServesOne
  <2>3. QED
    BY <1>1, <2>1, <2>2, MovesFirst
<1>2. ASSUME NEW s \in Aps, Report(r, s) PROVE Moves(r)
  <2>1. report[s] \in Status /\ report[s] # "destroying" /\ calls[r] = <<>>
    BY <1>2 DEF Report, SInv, ServersOK, Said
  <2>2. SetServerStatus(s, report[s]) \in Usual /\ SetServerStatus(s, report[s]) \in Calm
    BY <2>1, CommonCalls DEF Common
  <2> DEFINE cs == <<SetServerStatus(s, report[s])>>
  <2>3. Serves(cs) /\ cs \in Seq(Calm)
    BY <2>2, ServesOne
  <2>4. calls'[r] = <<>> \/ calls'[r] = cs
    BY <1>2, <2>1 DEF Report, SInv, CallsOK
  <2> HIDE DEF cs
  <2>5. QED
    BY <2>1, <2>3, <2>4, CommonDown DEF Moves
<1>3. CASE StartResume(r)
  <2>1. Plain("reload") \in Usual /\ Plain("reload") \in Calm
    BY CommonCalls DEF Common
  <2>2. QED
    BY <1>1, <1>3, <2>1 DEF StartResume
<1>4. CASE StartPurge(r)
  <2>1. row # NoRow /\ row.status \in Ending
    BY <1>4 DEF StartPurge
  <2>2. Covered
    BY <2>1 DEF NotYet, Nothing, EndCovered
  <2>3. OrderDeletion({}, Cardinality(Aps), FALSE) \in Usual
    <3>1. Cardinality(Aps) \in Nat
      BY SMSessionAssumption, FS_CardinalityType
    <3>2. QED
      BY <3>1, CommonCalls DEF Common
  <2>4. QED
    BY <1>1, <1>4, <2>2, <2>3, Zenon DEF StartPurge, Purge
<1>5. CASE Logout(r)
  <2>1. PICK st \in {"disconnected", "wait_destroy"} :
          calls[r] = <<>> /\ Continue(r, <<SetStatus(row, st).obj>>, SetStatus(row, st).next)
    BY <1>5 DEF Logout, Begin
  <2> DEFINE next == SetStatus(row, st).next
  <2>2. next \in Seq(Common) /\ (next \in Seq(Calm) \/ Aps \subseteq Todo("orderDeletion", next))
    BY SetStatusOrders DEF Status
  <2> HIDE DEF next
  <2>3. next \o <<>> = next
    BY <2>2, ConcatEmptySeq
  <2>4. Serves(next)
    BY <2>2, <2>3, CommonDown, ServesConcat
  <2>5. QED
    BY <2>1, <2>2, <2>4, MovesFirst DEF next
<1>6. CASE Kill(r)
  <2>1. OrderAll \in Usual
    BY CommonCalls DEF Common
  <2>2. QED
    BY <1>1, <1>6, <2>1, OrdersAll DEF Kill
<1>7. CASE AdminDisconnect(r)
  <2>1. /\ Disconnect(IF Desktop THEN {Main} ELSE Aps, TRUE) \in Usual
        /\ Disconnect(IF Desktop THEN {Main} ELSE Aps, TRUE) \in Calm
    BY SMSessionAssumption, CommonCalls
  <2>2. QED
    BY <1>1, <1>7, <2>1 DEF AdminDisconnect
<1>8. CASE ClientPoll(r)
  <2>1. GetStatus(Aps) \in Usual /\ GetStatus(Aps) \in Calm
    BY CommonCalls DEF Common
  <2>2. QED
    BY <1>1, <1>8, <2>1 DEF ClientPoll
<1>9. ASSUME NEW s \in Aps, Monitoring(r, s) PROVE Moves(r)
  <2>1. Answer(aps[s]) \in Status
    <3>1. aps[s] \in ApsStatus
      BY DEF SInv, ServersOK
    <3>2. QED
      BY <3>1 DEF Answer, ApsStatus, Status
  <2>2. Monitored(s, Answer(aps[s])) \in Usual /\ Monitored(s, Answer(aps[s])) \in Calm
    BY <2>1, CommonCalls DEF Common
  <2>3. QED
    BY <1>1, <1>9, <2>2 DEF Monitoring
<1>10. ASSUME NEW s \in Aps, AdminRemove(r, s) PROVE Moves(r)
  <2>1. Remove(s) \in Usual /\ Remove(s) \in Calm
    BY CommonCalls DEF Common
  <2>2. QED
    BY <1>1, <1>10, <2>1 DEF AdminRemove
<1>11. QED
  BY <1>2, <1>3, <1>4, <1>5, <1>6, <1>7, <1>8, <1>9, <1>10 DEF StartRequest, ClientWait

\* No step ends the row before every server is covered.
LEMMA RowStays ==
  ASSUME SInv, NotYet, RegressInv, EndCovered, NEW r \in Requests, Settled(calls[r]), Do(r),
         born', row' = NoRow \/ row'.status \in Ending
  PROVE  Covered
<1> SUFFICES ASSUME ~Covered PROVE FALSE
  OBVIOUS
<1>1. born
  BY DEF Do, DoSetServerStatus, DoCommit, DoSave, DoDelete, DoKill, DoNotReady, DoOrderDeletion,
         DoGetStatus, DoCreate, DoReload, DoResumed, DoMonitored, DoCron, DoCronEnd, DoCronDue,
         DoPurgeIfDead, DoDisconnect, DoRemove, DbOnly
<1>2. row # NoRow /\ row.status \notin Ending
  BY <1>1 DEF EndCovered
<1>3. calls[r] # <<>>
  BY DEF Do, DoSetServerStatus, DoCommit, DoSave, DoDelete, DoKill, DoNotReady, DoOrderDeletion,
         DoGetStatus, DoCreate, DoReload, DoResumed, DoMonitored, DoCron, DoCronEnd, DoCronDue,
         DoPurgeIfDead, DoDisconnect, DoRemove, Doing
<1>4. Head(calls[r]) \in Calm \/ Head(calls[r]).op = "kill"
  BY <1>3, HeadTailProperties DEF Settled
<1>5. ~DoDelete(r) /\ ~DoNotReady(r)
  BY <1>4 DEF DoDelete, DoNotReady, Doing, Calm
<1>6. ASSUME DoSetServerStatus(r) PROVE FALSE
  <2>1. Head(calls[r]).op = "setServerStatus"
    BY <1>6 DEF DoSetServerStatus, Doing
  <2>2. Obj(r) \in Session /\ Obj(r).status = row.status /\ Head(calls[r]) \in Call
    BY <1>2, <1>3, <2>1, UpRequest
  <2>3. row' \in {row, Obj(r), [Obj(r) EXCEPT !.srv[Head(calls[r]).srv] = Head(calls[r]).st]}
    BY <1>6 DEF DoSetServerStatus
  <2>4. Head(calls[r]).srv \in Aps /\ Head(calls[r]).st \in Status
    BY <2>1, <2>2, CallFields
  <2>5. row' \in Session \cup {row} /\ row'.status = row.status
    BY <2>2, <2>3, <2>4 DEF Session
  <2>6. QED
    BY <1>2, <2>5, SMSessionAssumption
<1>7. ASSUME DoCommit(r) PROVE FALSE
  <2>1. Head(calls[r]).op = "commit"
    BY <1>7 DEF DoCommit, Doing
  <2>2. Obj(r) \in Session /\ Head(calls[r]) \in Call
    BY <1>3, <2>1, UpRequest
  <2>3. Head(calls[r]).st \in Status /\ Head(calls[r]).st \notin Ending
    BY <1>4, <2>1, <2>2, CallFields DEF Calm
  <2>4. row' \in Session /\ row'.status = Head(calls[r]).st
    BY <1>7, <2>2, <2>3 DEF DoCommit, Session
  <2>5. QED
    BY <2>3, <2>4, SMSessionAssumption
<1>8. ASSUME DoSave(r) \/ DoResumed(r) PROVE FALSE
  <2>1. Head(calls[r]).op \in {"save", "resumed"}
    BY <1>8 DEF DoSave, DoResumed, Doing
  <2>2. Obj(r) \in Session /\ Obj(r).status = row.status
    BY <1>2, <1>3, <2>1, UpRequest
  <2>3. row' \in {Obj(r), [Obj(r) EXCEPT !.stop = FALSE]}
    BY <1>8 DEF DoSave, DoResumed
  <2>4. row' \in Session /\ row'.status = row.status
    BY <2>2, <2>3 DEF Session
  <2>5. QED
    BY <1>2, <2>4, SMSessionAssumption
<1>9. row' = row \/ DoSetServerStatus(r) \/ DoCommit(r) \/ DoSave(r) \/ DoResumed(r)
  BY <1>5 DEF Do, DoKill, DoOrderDeletion, DoGetStatus, DoCreate, DoReload, DoMonitored, DoCron,
              DoCronEnd, DoCronDue, DoPurgeIfDead, DoDisconnect, DoRemove
<1>10. QED
  BY <1>2, <1>6, <1>7, <1>8, <1>9

LEMMA StartsIdle ==
  ASSUME NEW r \in Requests, StartRequest(r) PROVE calls[r] = <<>>
BY DEF StartRequest, StartNew, Report, StartResume, StartPurge, Logout, Kill, AdminDisconnect,
       AdminRemove, ClientWait, ClientPoll, CronStart, Monitoring, Begin

\* What a step other than the birth of the session does to its only request.
LEMMA OneStep ==
  ASSUME OneAtATime, "cron" \notin Kinds, SInv, NotYet, AwayInv, OrphanInv, [Next]_vars,
         \A r \in Requests : ~StartNew(r), NEW q \in Requests
  PROVE  \/ Moves(q)
         \/ /\ calls[q] \in Seq(Making) /\ calls'[q] \in Seq(Making)
            /\ Todo("create", calls'[q]) \subseteq Todo("create", calls[q])
         \/ calls'[q] = calls[q] /\ row' = row
<1>1. ASSUME NEW r \in Requests, Do(r)
      PROVE  \/ Moves(r)
             \/ /\ calls'[r] \in Seq(Making) /\ calls[r] \in Seq(Making)
                /\ Todo("create", calls'[r]) \subseteq Todo("create", calls[r])
  BY <1>1, DoMoves, MakingMoves DEF OrphanInv
<1>2. ASSUME NEW r \in Requests, StartRequest(r) PROVE Moves(r)
  BY <1>2, StartMoves DEF OrphanInv
<1>3. ASSUME NEW s \in Aps, Server(s) PROVE calls' = calls /\ row' = row
  BY <1>3 DEF Server, Created, CreateFailed, CreateEnded, LogsIn, Disconnects, LogsOff, Destroyed,
              Change, LoseReport
<1>4. QED
  BY <1>1, <1>2, <1>3 DEF OneAtATime, Next, vars

LEMMA ServesNoCreate == ASSUME NEW cs, Serves(cs) PROVE Todo("create", cs) = {}
BY TodoNone DEF Serves, Usual

LEMMA MakingNoOrder == ASSUME NEW cs \in Seq(Making) PROVE Todo("orderDeletion", cs) = {}
BY TodoNone DEF Making

\* A server where the session is not yet created only starts it when asked to.
LEMMA NoneStays ==
  ASSUME OneAtATime, "cron" \notin Kinds, SInv, NotYet, AwayInv, OrphanInv, [Next]_vars,
         \A r \in Requests : ~StartNew(r), NEW s \in Aps, aps[s] = "none",
         \A q \in Requests : s \notin Todo("create", calls[q])
  PROVE  aps'[s] = "none"
<1>1. aps = [t \in Aps |-> aps[t]]
  BY DEF SInv, ServersOK
<1>2. ASSUME NEW r \in Requests, Do(r) PROVE aps'[s] = "none"
  <2>1. CASE calls[r] \in Seq(Making)
    BY <1>1, <1>2, <2>1, MakingMoves
  <2>2. CASE Serves(calls[r])
    <3>1. ~DoCreate(r)
      BY <1>2, <2>2, DoMoves DEF OrphanInv
    <3>2. \/ aps' = aps \/ \E t : aps' = [aps EXCEPT ![t] = AfterOrder(@)]
      BY <1>2, <3>1 DEF Do, DoSetServerStatus, DoCommit, DoSave, DoDelete, DoKill, DoNotReady,
         DoOrderDeletion, DoGetStatus, DoReload, DoResumed, DoMonitored, DoCron, DoCronEnd,
         DoCronDue, DoPurgeIfDead, DoDisconnect, DoRemove, DbOnly
    <3>3. AfterOrder("none") = "none"
      BY DEF AfterOrder, Live
    <3>4. QED
      BY <1>1, <3>2, <3>3
  <2>3. QED
    BY <2>1, <2>2 DEF OrphanInv
<1>3. ASSUME NEW r \in Requests, StartRequest(r) PROVE aps' = aps
  BY <1>3 DEF StartRequest, StartNew, Report, StartResume, StartPurge, Logout, Kill,
              AdminDisconnect, AdminRemove, ClientWait, ClientPoll, CronStart, Monitoring, DbOnly
<1>4. ASSUME NEW t \in Aps, Server(t) PROVE aps'[s] = "none"
  BY <1>1, <1>4 DEF Server, Created, CreateFailed, CreateEnded, LogsIn, Disconnects, LogsOff,
                    Destroyed, Change, LoseReport
<1>5. QED
  BY <1>2, <1>3, <1>4 DEF Next, vars

LEMMA LostStays ==
  ASSUME SInv, [Next]_vars, NEW s \in Aps, srvdb[s] # "ready" PROVE srvdb'[s] # "ready"
<1>1. srvdb = [t \in Aps |-> srvdb[t]]
  BY DEF SInv, ServersOK
<1>2. ASSUME NEW r \in Requests, Do(r)
      PROVE  \/ srvdb' = srvdb
             \/ \E t, st : st # "ready" /\ srvdb' = [srvdb EXCEPT ![t] = st]
  BY <1>2 DEF Do, DoSetServerStatus, DoCommit, DoSave, DoDelete, DoKill, DoNotReady,
     DoOrderDeletion, DoGetStatus, DoCreate, DoReload, DoResumed, DoMonitored, DoCron, DoCronEnd,
     DoCronDue, DoPurgeIfDead, DoDisconnect, DoRemove, DbOnly
<1>3. ASSUME NEW r \in Requests, StartRequest(r) PROVE srvdb' = srvdb
  BY <1>3 DEF StartRequest, StartNew, Report, StartResume, StartPurge, Logout, Kill,
              AdminDisconnect, AdminRemove, ClientWait, ClientPoll, CronStart, Monitoring, DbOnly
<1>4. ASSUME NEW t \in Aps, Server(t) PROVE srvdb' = srvdb
  BY <1>4 DEF Server, Created, CreateFailed, CreateEnded, LogsIn, Disconnects, LogsOff,
              Destroyed, Change, LoseReport
<1>5. QED
  BY <1>1, <1>2, <1>3, <1>4 DEF Next, vars

\* A server that is over stays so, from the birth of the session on.
LEMMA DeadGrows ==
  ASSUME OneAtATime, "cron" \notin Kinds, SInv, NotYet, AwayInv, OrphanInv, [Next]_vars,
         \A r \in Requests : ~StartNew(r)
  PROVE  Dead \subseteq Dead'
<1> SUFFICES ASSUME NEW s \in Dead PROVE s \in Dead'
  OBVIOUS
<1>1. s \in Aps
  BY DEF Dead
<1>2. CASE srvdb[s] # "ready"
  BY <1>1, <1>2, LostStays DEF Dead
<1>3. CASE aps[s] \notin Live \cup {"none"}
  <2>1. AfterOrder(aps[s]) \notin Live \cup {"none"}
    BY <1>3 DEF AfterOrder, Live
  <2>2. aps \in [Aps -> ApsStatus]
    BY DEF SInv, ServersOK
  <2>3. aps'[s] \notin Live \cup {"none"}
    BY <1>1, <1>3, <2>1, <2>2, ApsSteps
  <2>4. QED
    BY <1>1, <2>3 DEF Dead
<1>4. CASE aps[s] = "none" /\ \A q \in Requests : s \notin Todo("create", calls[q])
  <2>1. aps'[s] = "none"
    BY <1>1, <1>4, NoneStays
  <2>2. ASSUME NEW q \in Requests PROVE s \notin Todo("create", calls'[q])
    BY <1>4, OneStep, ServesNoCreate DEF Moves
  <2>3. QED
    BY <1>1, <2>1, <2>2 DEF Dead
<1>5. QED
  BY <1>2, <1>3, <1>4 DEF Dead

\* What the servers and the Session Manager say of them stays true.
LEMMA StillSaid ==
  ASSUME OneAtATime, "cron" \notin Kinds, SInv, NotYet, AwayInv, OrphanInv, [Next]_vars,
         \A r \in Requests : ~StartNew(r)
  PROVE  Said(Aps, Dead)'
<1>1. PICK D : D = Dead'
  OBVIOUS
<1>2. Said(Aps, D) /\ Dead \subseteq D
  BY <1>1, DeadGrows, SaidGrows DEF OrphanInv
<1>3. Truth(Aps, D)
  BY <1>1 DEF Truth, Dead
<1>4. ASSUME NEW r \in Requests, Serves(calls[r]) PROVE NoneIn(D)
  <2>1. Todo("create", calls[r]) = {}
    BY <1>4, ServesNoCreate
  <2>2. \A q \in Requests : Todo("create", calls[q]) = {}
    BY <2>1 DEF OneAtATime
  <2>3. QED
    BY <1>2, <2>2 DEF NoneIn, Dead
<1>5. ASSUME NEW r \in Requests, Do(r) PROVE Said(Aps, D)'
  <2>1. ASSUME Doing(r, "orderDeletion") PROVE Serves(calls[r])
    <3>1. calls[r] \notin Seq(Making)
      BY <2>1, HeadTailProperties DEF Doing, Making
    <3>2. QED
      BY <3>1 DEF OrphanInv
  <2>2. QED
    BY <1>2, <1>3, <1>4, <1>5, <2>1, SaidDo
<1>6. ASSUME NEW r \in Requests, StartRequest(r) PROVE Said(Aps, D)'
  <2>1. NoneIn(D)
    BY <1>4, <1>6, StartsIdle, CommonDown
  <2>2. QED
    BY <1>2, <1>3, <1>6, <2>1, SaidStart
<1>7. ASSUME NEW s \in Aps, Server(s) PROVE Said(Aps, D)'
  BY <1>2, <1>3, <1>7, SaidServer
<1>8. ASSUME UNCHANGED vars PROVE Said(Aps, D)'
  BY <1>2, <1>8 DEF Said, vars
<1>9. Said(Aps, D)'
  BY <1>5, <1>6, <1>7, <1>8 DEF Next
<1>10. QED
  BY <1>1, <1>9 DEF Said

\* A covered server is over or still about to be ordered; a request that is to
\* delete the row has covered them all.
LEMMA StillCovered ==
  ASSUME OneAtATime, "cron" \notin Kinds, SInv, NotYet, AwayInv, OrphanInv, [Next]_vars,
         \A r \in Requests : ~StartNew(r)
  PROVE  /\ Covered => Covered'
         /\ \A q \in Requests : /\ Settled(calls[q])'
                                /\ calls'[q] \in Seq(Making) \/ Serves(calls'[q])
<1>1. Dead \subseteq Dead'
  BY DeadGrows
<1>2. ASSUME NEW q \in Requests, Moves(q) PROVE Ended' \subseteq Dead'
  <2>1. Todo("create", calls'[q]) = {}
    BY <1>2, ServesNoCreate DEF Moves
  <2>2. QED
    BY <2>1 DEF OneAtATime, Ended, Dead
<1>3. ASSUME Covered PROVE Covered'
  <2> SUFFICES ASSUME NEW s \in Aps, s \notin Dead'
               PROVE  \E q \in Requests : s \in Todo("orderDeletion", calls'[q])
    BY DEF Covered
  <2>1. PICK q \in Requests : s \in Todo("orderDeletion", calls[q])
    BY <1>1, <1>3 DEF Covered
  <2>2. Moves(q) \/ calls'[q] = calls[q]
    BY <2>1, OneStep, MakingNoOrder
  <2>3. s \in Todo("orderDeletion", calls'[q])
    BY <1>2, <2>1, <2>2 DEF Moves
  <2>4. QED
    BY <2>3
<1>4. ASSUME NEW q \in Requests
      PROVE  /\ Settled(calls[q])'
             /\ calls'[q] \in Seq(Making) \/ Serves(calls'[q])
  <2>1. CASE Moves(q)
    <3>1. ASSUME Aps \subseteq Todo("orderDeletion", calls'[q]) PROVE Covered'
      BY <3>1 DEF Covered
    <3>2. ASSUME row' # NoRow, \A s \in Aps : row'.srv[s] = "destroyed" PROVE Covered'
      <4>1. Said(Aps, Dead)'
        BY StillSaid
      <4>2. Aps \subseteq Dead'
        BY <3>2, <4>1 DEF Said, SaidObj
      <4>3. QED
        BY <4>2 DEF Covered
    <3>3. QED
      BY <1>3, <2>1, <3>1, <3>2 DEF Moves, Settled
  <2>2. CASE calls'[q] \in Seq(Making)
    <3>1. calls'[q] \in Seq(Calm)
      BY <2>2, SeqMonotonic DEF Making
    <3>2. QED
      BY <2>2, <3>1 DEF Settled
  <2>3. CASE calls'[q] = calls[q]
    BY <1>3, <2>3 DEF Settled, OrphanInv
  <2>4. QED
    BY <2>1, <2>2, <2>3, OneStep
<1>5. QED
  BY <1>3, <1>4

\* The birth of the session: the servers are all still to be asked.
LEMMA BirthKeeps ==
  ASSUME OneAtATime, SInv, NotYet, NEW r \in Requests, StartNew(r) PROVE OrphanInv'
<1> DEFINE cs == <<Commit("created"), Plain("save"), Create(Prepared)>>
<1>1. /\ ~born /\ row' = Fresh /\ calls[r] = <<>> /\ calls'[r] = cs
  BY DEF StartNew, Begin, Continue, SInv, CallsOK
<1>2. Commit("created") \in Making /\ Plain("save") \in Making /\ Create(Prepared) \in Making
  BY PreparedType DEF Commit, Plain, Create, Making, Calm, Call, Status, Ending
<1>3. cs \in Seq(Making)
  <2> HIDE DEF Making
  <2>1. QED
    BY <1>2
<1> HIDE DEF cs
<1>4. cs \in Seq(Calm)
  BY <1>3, SeqMonotonic DEF Making
<1>5. \A q \in Requests : q = r
  BY DEF OneAtATime
<1>6. Said(Aps, Dead)'
  <2>1. PICK D : D = Dead'
    OBVIOUS
  <2>2. Said(Aps, D)
    <3>1. row = NoRow /\ \A s \in Aps : report[s] = NoReport
      BY <1>1, <1>5 DEF NotYet, Nothing
    <3>2. \A q \in Requests : calls[q] \in Seq(SaidCall(Aps, D)) /\ objs[q] \in Seq(SaidObj(Aps, D))
      BY <1>1, <1>5, SaidEnds DEF NotYet, Nothing
    <3>3. NoReport \notin {"ready", "destroyed", "destroying"}
      BY SMSessionAssumption DEF Status
    <3>4. QED
      BY <3>1, <3>2, <3>3 DEF Said
  <2>3. Truth(Aps, D)
    BY <2>1 DEF Truth, Dead
  <2>4. Said(Aps, D)'
    BY <2>2, <2>3, SaidStart DEF StartRequest
  <2>5. QED
    BY <2>1, <2>4 DEF Said
<1>7. row' # NoRow /\ row'.status \notin Ending
  <2>1. Fresh \in Session /\ Fresh.status \notin Ending
    BY DEF Fresh, Session, Status, Ending
  <2>2. QED
    BY <1>1, <2>1, SMSessionAssumption
<1>8. QED
  BY <1>1, <1>3, <1>4, <1>5, <1>6, <1>7 DEF OrphanInv, EndCovered, Settled

LEMMA OrphanNext ==
  ASSUME OneAtATime, "cron" \notin Kinds, SInv, NotYet, RegressInv, AwayInv, OrphanInv, [Next]_vars
  PROVE  OrphanInv'
<1>1. CASE \E r \in Requests : StartNew(r)
  BY <1>1, BirthKeeps
<1>2. CASE \A r \in Requests : ~StartNew(r)
  <2>1. EndCovered'
    <3> SUFFICES ASSUME born', row' = NoRow \/ row'.status \in Ending PROVE Covered
      BY <1>2, StillCovered DEF EndCovered
    <3>1. CASE \E r \in Requests : Do(r)
      BY <3>1, RowStays DEF OrphanInv
    <3>2. CASE row' = row /\ born' = born
      BY <3>2 DEF OrphanInv, EndCovered
    <3>3. ASSUME NEW r \in Requests, StartRequest(r) PROVE row' = row /\ born' = born
      BY <1>2, <3>3 DEF StartRequest, Report, StartResume, StartPurge, Logout, Kill,
                        AdminDisconnect, AdminRemove, ClientWait, ClientPoll, CronStart,
                        Monitoring, DbOnly
    <3>4. ASSUME NEW s \in Aps, Server(s) PROVE row' = row /\ born' = born
      BY <3>4 DEF Server, Created, CreateFailed, CreateEnded, LogsIn, Disconnects, LogsOff,
                  Destroyed, Change, LoseReport
    <3>5. QED
      BY <3>1, <3>2, <3>3, <3>4 DEF Next, vars
  <2>2. QED
    BY <1>2, <2>1, StillSaid, StillCovered DEF OrphanInv
<1>3. QED
  BY <1>1, <1>2

LEMMA OrphanInit == Init => OrphanInv
<1> SUFFICES ASSUME Init PROVE OrphanInv
  OBVIOUS
<1>1. Said(Aps, Dead)
  BY SaidEnds, SMSessionAssumption DEF Init, Said, Status
<1>2. QED
  BY <1>1, CommonDown DEF Init, OrphanInv, EndCovered, Settled

\* While requests come one at a time and the cron does not run, a session that the
\* Session Manager has forgotten runs on no server it still considers ready.
THEOREM NoOrphanAlone == OneAtATime /\ "cron" \notin Kinds => (Spec => []NoOrphan)
<1> SUFFICES ASSUME OneAtATime, "cron" \notin Kinds PROVE Spec => []NoOrphan
  OBVIOUS
<1>1. Init => NotYet /\ RegressInv /\ AwayInv /\ OrphanInv
  BY RegressInit, OrphanInit
<1>2. SInv /\ NotYet /\ RegressInv /\ AwayInv /\ OrphanInv /\ [Next]_vars =>
        NotYet' /\ RegressInv' /\ AwayInv' /\ OrphanInv'
  BY NotYetNext, RegressNext, AwayNext, OrphanNext
<1>3. OrphanInv => NoOrphan
  <2> SUFFICES ASSUME OrphanInv, Idle, born, row = NoRow, NEW s \in Aps, srvdb[s] = "ready"
               PROVE  aps[s] \notin Live
    BY DEF NoOrphan
  <2>1. \A q \in Requests : Todo("orderDeletion", calls[q]) = {}
    BY CommonDown DEF Idle
  <2>2. s \in Dead
    BY <2>1 DEF OrphanInv, EndCovered, Covered
  <2>3. QED
    BY <2>2 DEF Dead, Live
<1>4. QED
  BY SessionInv, <1>1, <1>2, <1>3, PTL DEF Spec
=============================================================================
