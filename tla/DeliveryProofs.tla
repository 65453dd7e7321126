--------------------------- MODULE DeliveryProofs ---------------------------
(***************************************************************************)
(* Proofs about Delivery, for every value of its constants.                *)
(***************************************************************************)
EXTENDS Delivery, TLAPS

USE DeliveryConstants DEF DeliveryConstants

-----------------------------------------------------------------------------
(* Types.                                                                   *)

\* A worker's memory, or a row, written in one piece.
LEMMA WorkerType ==
    ASSUME TypeOK, NEW w \in Workers, NEW f \in Memories,
           worker' = [worker EXCEPT ![w] = f]
    PROVE  worker' \in [Workers -> Memories]
BY DEF TypeOK

LEMMA RowType ==
    ASSUME TypeOK, NEW m \in Messages, NEW r \in Rows,
           outbox' = [outbox EXCEPT ![m] = r]
    PROVE  outbox' \in [Messages -> Rows]
BY DEF TypeOK

\* A worker that lets its row go is at rest but for its other candidates.
LEMMA LetGoType ==
    ASSUME TypeOK, NEW w \in Workers, LetGo(w)
    PROVE  /\ lock' \in [Messages -> Workers \cup {NoOne}]
           /\ worker' \in [Workers -> Memories]
<1> DEFINE f == [worker[w] EXCEPT !.pc = "pick", !.msg = 0,
                                  !.todo = worker[w].todo \ {worker[w].msg}]
<1>1. worker[w] \in Memories
  BY DEF TypeOK
<1>2. f \in Memories
  <2>1. worker[w].todo \ {worker[w].msg} \in SUBSET Messages /\ 0 \in 0..MaxMessages
    BY <1>1 DEF Memories
  <2> QED
    BY <1>1, <2>1 DEF Memories
<1>3. worker' = [worker EXCEPT ![w] = f]
  BY <1>1 DEF LetGo, TypeOK, Memories
<1> HIDE DEF f
<1> QED
  BY <1>2, <1>3, WorkerType DEF TypeOK, LetGo

LEMMA InitType == Init => TypeOK
<1> SUFFICES ASSUME Init PROVE TypeOK
  OBVIOUS
<1>1. NoRow \in Rows
  BY DEF NoRow, Rows
<1>2. Resting \in Memories
  BY DEF Resting, Memories
<1> QED
  BY <1>1, <1>2 DEF Init, TypeOK, Messages

\* Producers insert rows of the right shape.
LEMMA InsertType ==
    ASSUME TypeOK, NEW row \in Rows, NEW others \in [Messages -> Rows],
           Insert(row, others)
    PROVE  TypeOK'
<1>1. queued' \in 0..MaxMessages
  BY DEF TypeOK, Insert
<1>2. outbox' \in [Messages -> Rows]
  BY DEF Insert
<1> QED
  BY <1>1, <1>2 DEF TypeOK, Insert

LEMMA TypeStep ==
    ASSUME TypeOK, Shapes, Candidates, Holders, Next
    PROVE  TypeOK'
<1> USE DEF Messages, Inserted
<1>1. ASSUME NEW s \in PlanStreams, NEW size \in 1..MaxChunks, Notify(s, size)
      PROVE  TypeOK'
  <2> DEFINE r == [kind |-> "progress", stream |-> s, size |-> size, state |-> "pending",
                   obsolete |-> FALSE, sender |-> NoAccount, next |-> 0]
  <2>1. r \in Rows
    BY DEF Rows, Streams
  <2> QED
    BY <1>1, <2>1, InsertType DEF Notify, TypeOK
<1>2. ASSUME NEW s \in TurnStreams, NEW size \in 1..MaxChunks, QueueApproval(s, size)
      PROVE  TypeOK'
  <2> DEFINE r == [kind |-> "approval", stream |-> s, size |-> size, state |-> "pending",
                   obsolete |-> FALSE, sender |-> Origin[s], next |-> 0]
  <2>1. r \in Rows
    BY DEF Rows, Streams
  <2> QED
    BY <1>2, <2>1, InsertType DEF QueueApproval, TypeOK
<1>3. ASSUME NEW s \in TurnStreams, NEW size \in 1..MaxChunks, NEW review \in BOOLEAN,
             QueueResult(s, size, review)
      PROVE  TypeOK'
  <2> DEFINE r == [kind |-> "result", stream |-> s, size |-> size,
                   state |-> IF review THEN "needs_review" ELSE "pending",
                   obsolete |-> FALSE, sender |-> Origin[s], next |-> 0]
             o == [m \in Messages |-> IF m \in Inserted /\ outbox[m].stream = s
                                      THEN [outbox[m] EXCEPT !.obsolete = TRUE]
                                      ELSE outbox[m]]
  <2>1. r \in Rows
    BY DEF Rows, Streams
  <2>2. o \in [Messages -> Rows]
    <3>1. ASSUME NEW m \in Messages PROVE [outbox[m] EXCEPT !.obsolete = TRUE] \in Rows
      <4>1. outbox[m] \in Rows
        BY DEF TypeOK
      <4> QED
        BY <4>1 DEF Rows
    <3> QED
      BY <3>1 DEF TypeOK
  <2>3. Insert(r, o)
    BY <1>3 DEF QueueResult
  <2> HIDE DEF r, o
  <2> QED
    BY <2>1, <2>2, <2>3, InsertType
<1>4. ASSUME NEW m \in Messages,
             \/ SuppressApproval(m) \/ Abandon(m)
             \/ \E rebind \in BOOLEAN : Retry(m, rebind)
      PROVE  TypeOK'
  <2>0. outbox[m] \in Rows
    BY DEF TypeOK
  <2>1. outbox' \in [Messages -> Rows]
    <3>1. CASE SuppressApproval(m) \/ Abandon(m)
      <4>1. [outbox[m] EXCEPT !.obsolete = TRUE] \in Rows
        BY <2>0 DEF Rows
      <4>2. outbox' = [outbox EXCEPT ![m] = [outbox[m] EXCEPT !.obsolete = TRUE]]
        BY <2>0, <3>1 DEF SuppressApproval, Abandon, TypeOK, Rows
      <4> QED
        BY <4>1, <4>2, RowType
    <3>2. ASSUME NEW rebind \in BOOLEAN, Retry(m, rebind)
          PROVE  outbox' \in [Messages -> Rows]
      <4> DEFINE f == [outbox[m] EXCEPT !.state = "pending",
                             !.sender = IF rebind THEN NoAccount ELSE outbox[m].sender]
      <4>1. f \in Rows
        BY <2>0 DEF Rows
      <4>2. outbox' = [outbox EXCEPT ![m] = f]
        BY <2>0, <3>2 DEF Retry, TypeOK, Rows
      <4> HIDE DEF f
      <4> QED
        BY <4>1, <4>2, RowType
    <3> QED
      BY <1>4, <3>1, <3>2
  <2>2. rebound' \subseteq Messages
    BY <1>4 DEF SuppressApproval, Abandon, Retry, TypeOK
  <2> QED
    BY <1>4, <2>1, <2>2 DEF SuppressApproval, Abandon, Retry, TypeOK
<1>5. ASSUME NEW w \in Workers, Drain(w)
      PROVE  TypeOK'
  <2> DEFINE heads == {m \in Inserted : Pending(m) /\ Unblocked(m)}
             f == [worker[w] EXCEPT !.todo = heads, !.sender = account]
  <2>1. heads \subseteq Messages
    BY DEF TypeOK
  <2> HIDE DEF heads
  <2>2. f \in Memories
    BY <2>1, ZenonT(30) DEF TypeOK, Memories
  <2>3. worker' = [worker EXCEPT ![w] = f]
    BY <1>5 DEF Drain, heads
  <2> HIDE DEF f
  <2> QED
    BY <1>5, <2>2, <2>3 DEF Drain, TypeOK
<1>6. ASSUME NEW w \in Workers, NEW m \in Messages, Take(w, m)
      PROVE  TypeOK'
  <2> DEFINE f == [worker[w] EXCEPT !.pc = "check", !.msg = m, !.left = ChunksPerJob]
             g == [outbox[m] EXCEPT !.sender = worker[w].sender]
  <2>0. worker[w] \in Memories /\ outbox[m] \in Rows
    BY DEF TypeOK
  <2>1. f \in Memories
    <3>1. m \in 0..MaxMessages /\ ChunksPerJob \in 0..ChunksPerJob
      OBVIOUS
    <3> QED
      BY <2>0, <3>1 DEF Memories
  <2>2. worker' = [worker EXCEPT ![w] = f]
    BY <1>6, <2>0 DEF Take, TypeOK, Memories
  <2>3. worker[w].sender \in Accounts \cup {NoAccount}
    BY <2>0 DEF Memories
  <2>4. g \in Rows
    BY <2>0, <2>3 DEF Rows
  <2>5. outbox' = [outbox EXCEPT ![m] = g]
    BY <1>6, <2>0 DEF Take, TypeOK, Rows
  <2> HIDE DEF f, g
  <2>6. worker' \in [Workers -> Memories] /\ outbox' \in [Messages -> Rows]
    BY <2>1, <2>2, <2>4, <2>5, WorkerType, RowType
  <2> QED
    BY <1>6, <2>6 DEF Take, TypeOK
<1>7. ASSUME NEW w \in Workers, NEW m \in Messages, SenderChanged(w, m) \/ Pass(w, m)
      PROVE  TypeOK'
  <2> DEFINE f == [worker[w] EXCEPT !.todo = worker[w].todo \ {m}]
             g == [outbox[m] EXCEPT !.state = "needs_review"]
  <2>0. worker[w] \in Memories /\ outbox[m] \in Rows
    BY DEF TypeOK
  <2>1. worker' \in [Workers -> Memories]
    <3>1. f \in Memories
      BY <2>0 DEF Memories
    <3>2. worker' = [worker EXCEPT ![w] = f]
      BY <1>7, <2>0 DEF SenderChanged, Pass, TypeOK, Memories
    <3> QED
      BY <3>1, <3>2, WorkerType
  <2>2. outbox' \in [Messages -> Rows]
    <3>1. g \in Rows
      BY <2>0 DEF Rows
    <3>2. outbox' = outbox \/ outbox' = [outbox EXCEPT ![m] = g]
      BY <1>7, <2>0 DEF SenderChanged, Pass, TypeOK, Rows
    <3> HIDE DEF g
    <3> QED
      BY <3>1, <3>2, RowType DEF TypeOK
  <2> HIDE DEF f, g
  <2> QED
    BY <1>7, <2>1, <2>2 DEF SenderChanged, Pass, TypeOK
<1>8. ASSUME NEW w \in Workers, Check(w)
      PROVE  TypeOK'
  <2>1. CASE LetGo(w)
    BY <1>8, <2>1, LetGoType DEF Check, TypeOK
  <2>2. CASE worker' = [worker EXCEPT ![w].pc = "send"] /\ UNCHANGED lock
    <3>1. worker' \in [Workers -> Memories]
      BY <2>2, ZenonT(30) DEF TypeOK, Memories
    <3> QED
      BY <1>8, <2>2, <3>1 DEF Check, TypeOK
  <2> QED
    BY <1>8, <2>1, <2>2 DEF Check
<1>9. ASSUME NEW w \in Workers, ~At(w, "pick")
      PROVE  /\ worker[w].msg \in Inserted /\ worker[w].sender \in Accounts
             /\ Row(w).next + 1 \in 1..MaxChunks
             /\ Row(w).next < Row(w).size
  <2>1. worker[w].msg \in Inserted /\ worker[w].sender \in Accounts
    BY <1>9 DEF Holders, Candidates
  <2>2. outbox[worker[w].msg] \in Rows
    BY <2>1 DEF TypeOK
  <2>3. Row(w).state = "pending"
    BY <1>9 DEF Holders
  <2> QED
    BY <2>1, <2>2, <2>3 DEF Shapes, Row, Rows
<1>10. ASSUME NEW w \in Workers, Dispatch(w)
       PROVE  TypeOK'
  <2>1. Request(w) \in Requests
    BY <1>9, <1>10 DEF Dispatch, At, Request, Requests, TypeOK
  <2> DEFINE f == [worker[w] EXCEPT !.pc = "await",
                                    !.again = Request(w) \in net \cup accepted]
  <2>0. worker[w] \in Memories
    BY DEF TypeOK
  <2>2. f \in Memories
    <3>1. (Request(w) \in net \cup accepted) \in BOOLEAN
      OBVIOUS
    <3> QED
      BY <2>0, <3>1, Zenon DEF Memories
  <2>3. worker' = [worker EXCEPT ![w] = f]
    BY <1>10, <2>0 DEF Dispatch, TypeOK, Memories
  <2> HIDE DEF f
  <2>4. worker' \in [Workers -> Memories]
    BY <2>2, <2>3, WorkerType
  <2> QED
    BY <1>10, <2>1, <2>4 DEF Dispatch, TypeOK
<1>11. ASSUME NEW w \in Workers, Record(w)
       PROVE  TypeOK'
  <2> DEFINE m == worker[w].msg
             last == Row(w).next + 1 = Row(w).size
             f == [outbox[m] EXCEPT !.next = outbox[m].next + 1,
                                    !.state = IF last THEN "delivered" ELSE "pending"]
  <2>1. m \in Messages /\ Row(w).next + 1 \in 0..MaxChunks
    BY <1>9, <1>11 DEF Record, At, TypeOK
  <2>0. outbox[m] \in Rows
    BY <2>1 DEF TypeOK
  <2>2. f \in Rows
    BY <2>0, <2>1 DEF Rows, Row
  <2>3. outbox' = [outbox EXCEPT ![m] = f]
    BY <1>11, <2>0, <2>1 DEF Record, TypeOK, Rows
  <2>5. outbox' \in [Messages -> Rows]
    BY <2>1, <2>2, <2>3, RowType
  <2>4. /\ lock' \in [Messages -> Workers \cup {NoOne}]
        /\ worker' \in [Workers -> Memories]
    <3>1. CASE LetGo(w)
      BY <3>1, LetGoType
    <3>2. CASE /\ worker' = [worker EXCEPT ![w].pc = "check", ![w].left = @ - 1]
               /\ UNCHANGED lock
      <4> DEFINE g == [worker[w] EXCEPT !.pc = "check", !.left = worker[w].left - 1]
      <4>0. worker[w] \in Memories
        BY DEF TypeOK
      <4>1. worker[w].left > 0
        BY <1>11 DEF Record, At, Holders
      <4>2. g \in Memories
        <5>1. worker[w].left - 1 \in 0..ChunksPerJob
          BY <4>0, <4>1 DEF Memories
        <5> QED
          BY <4>0, <5>1 DEF Memories
      <4>3. worker' = [worker EXCEPT ![w] = g]
        BY <3>2, <4>0 DEF TypeOK, Memories
      <4> HIDE DEF g
      <4> QED
        BY <3>2, <4>2, <4>3, WorkerType DEF TypeOK
    <3> QED
      BY <1>11, <3>1, <3>2 DEF Record
  <2> HIDE DEF f, last, m
  <2> QED
    BY <1>11, <2>4, <2>5 DEF Record, TypeOK
<1>12. ASSUME NEW w \in Workers, Duplicate(w) \/ Fail(w)
       PROVE  TypeOK'
  <2>1. LetGo(w)
    BY <1>12 DEF Duplicate, Fail
  <2>2. outbox' \in [Messages -> Rows]
    <3>1. CASE Duplicate(w)
      <4> DEFINE m == worker[w].msg
                 f == [outbox[m] EXCEPT !.state = "needs_review"]
      <4>1. m \in Messages
        BY <1>9, <3>1 DEF Duplicate, At, TypeOK
      <4>2. outbox[m] \in Rows
        BY <4>1 DEF TypeOK
      <4>3. f \in Rows
        BY <4>2 DEF Rows
      <4>4. outbox' = [outbox EXCEPT ![m] = f]
        BY <3>1, <4>1, <4>2 DEF Duplicate, TypeOK, Rows
      <4> HIDE DEF m, f
      <4> QED
        BY <4>1, <4>3, <4>4, RowType
    <3>2. CASE Fail(w)
      BY <3>2 DEF Fail, TypeOK
    <3> QED
      BY <1>12, <3>1, <3>2
  <2> QED
    BY <1>12, <2>1, <2>2, LetGoType DEF Duplicate, Fail, TypeOK
<1>13. ASSUME NEW w \in Workers, Crash(w)
       PROVE  TypeOK'
  <2>1. Resting \in Memories
    BY DEF Resting, Memories
  <2> QED
    BY <1>13, <2>1 DEF Crash, TypeOK
<1>14. ASSUME NEW a \in Accounts \cup {NoAccount}, Connect(a)
       PROVE  TypeOK'
  BY <1>14 DEF Connect, TypeOK
<1>15. ASSUME NEW r \in net, Accept(r) \/ Lose(r)
       PROVE  TypeOK'
  BY <1>15 DEF Accept, Lose, TypeOK
<1> QED
  BY <1>1, <1>2, <1>3, <1>4, <1>5, <1>6, <1>7, <1>8, <1>10, <1>11, <1>12, <1>13,
     <1>14, <1>15 DEF Next, Work
-----------------------------------------------------------------------------
(* What one step may change.                                                *)

\* A worker disturbs nothing that another worker holds.
LEMMA WorkerFrame ==
    ASSUME TypeOK, Candidates, Holders, NEW v \in Workers,
           Work(v) \/ Fail(v) \/ Crash(v)
    PROVE  /\ \A u \in Workers \ {v} : worker'[u] = worker[u]
           /\ \A m \in Messages : lock[m] \notin {v, NoOne} =>
                 lock'[m] = lock[m] /\ outbox'[m] = outbox[m]
<1>1. CASE Drain(v)
  BY <1>1 DEF Drain, TypeOK
<1>2. ASSUME NEW m \in Messages, Take(v, m) \/ SenderChanged(v, m) \/ Pass(v, m)
      PROVE  /\ \A u \in Workers \ {v} : worker'[u] = worker[u]
             /\ \A n \in Messages : lock[n] \notin {v, NoOne} =>
                   lock'[n] = lock[n] /\ outbox'[n] = outbox[n]
  BY <1>2 DEF Take, SenderChanged, Pass, Free, TypeOK
<1>3. ASSUME ~At(v, "pick") PROVE lock[worker[v].msg] = v
  BY <1>3 DEF Holders
<1>4. ASSUME LetGo(v), ~At(v, "pick")
      PROVE  /\ \A u \in Workers \ {v} : worker'[u] = worker[u]
             /\ \A m \in Messages : lock[m] \notin {v, NoOne} => lock'[m] = lock[m]
  BY <1>3, <1>4 DEF LetGo, TypeOK
<1>5. CASE Check(v)
  BY <1>4, <1>5 DEF Check, At, TypeOK
<1>6. CASE Dispatch(v)
  BY <1>6 DEF Dispatch, TypeOK
<1>7. CASE Record(v)
  <2>1. ~At(v, "pick")
    BY <1>7 DEF Record, At
  <2>2. /\ \A u \in Workers \ {v} : worker'[u] = worker[u]
        /\ \A m \in Messages : lock[m] \notin {v, NoOne} => lock'[m] = lock[m]
    BY <1>4, <1>7, <2>1 DEF Record, TypeOK
  <2>3. \A m \in Messages : lock[m] \notin {v, NoOne} => outbox'[m] = outbox[m]
    BY <1>3, <1>7, <2>1 DEF Record, TypeOK
  <2> QED
    BY <2>2, <2>3
<1>8. CASE Duplicate(v)
  <2>1. ~At(v, "pick")
    BY <1>8 DEF Duplicate, At
  <2> QED
    BY <1>3, <1>4, <1>8, <2>1 DEF Duplicate, TypeOK
<1>9. CASE Fail(v)
  BY <1>4, <1>9 DEF Fail, At
<1>10. CASE Crash(v)
  BY <1>10 DEF Crash, TypeOK
<1> QED
  BY <1>1, <1>2, <1>5, <1>6, <1>7, <1>8, <1>9, <1>10 DEF Work

\* Every step that is not a worker's.
Outside ==
    \/ \E size \in 1..MaxChunks :
          \/ \E s \in PlanStreams : Notify(s, size)
          \/ \E s \in TurnStreams :
                \/ QueueApproval(s, size)
                \/ \E review \in BOOLEAN : QueueResult(s, size, review)
    \/ \E m \in Messages :
          \/ SuppressApproval(m) \/ Abandon(m)
          \/ \E rebind \in BOOLEAN : Retry(m, rebind)
    \/ \E a \in Accounts \cup {NoAccount} : Connect(a)
    \/ \E r \in net : Accept(r) \/ Lose(r)

LEMMA NextSplit ==
    Next <=> Outside \/ \E w \in Workers : Work(w) \/ Fail(w) \/ Crash(w)
BY DEF Next, Outside

\* An insertion touches the rows before it at most by making them obsolete.
LEMMA InsertFrame ==
    ASSUME TypeOK,
           \/ \E size \in 1..MaxChunks, s \in PlanStreams : Notify(s, size)
           \/ \E size \in 1..MaxChunks, s \in TurnStreams :
                \/ QueueApproval(s, size)
                \/ \E review \in BOOLEAN : QueueResult(s, size, review)
    PROVE  /\ queued' = queued + 1 /\ queued' \in Messages
           /\ UNCHANGED <<lock, worker, account, net, accepted, rebound>>
           /\ outbox'[queued'].size > 0 /\ outbox'[queued'].next = 0
           /\ outbox'[queued'].state # "delivered"
           /\ \A m \in Inserted :
                 \/ outbox'[m] = outbox[m]
                 \/ outbox'[m] = [outbox[m] EXCEPT !.obsolete = TRUE]
<1> USE DEF Messages, Inserted
<1>0. queued \in Nat
  BY DEF TypeOK
<1>1. ASSUME NEW row, NEW others, Insert(row, others)
      PROVE  /\ queued' = queued + 1 /\ queued' \in Messages
             /\ UNCHANGED <<lock, worker, account, net, accepted, rebound>>
             /\ outbox'[queued'] = row
             /\ \A m \in Inserted : outbox'[m] = others[m]
  BY <1>0, <1>1 DEF Insert
<1>2. ASSUME NEW size \in 1..MaxChunks, NEW s \in PlanStreams, Notify(s, size)
      PROVE  /\ outbox'[queued'].size = size /\ outbox'[queued'].next = 0
             /\ outbox'[queued'].state = "pending"
             /\ \A m \in Inserted : outbox'[m] = outbox[m]
             /\ queued' = queued + 1 /\ queued' \in Messages
             /\ UNCHANGED <<lock, worker, account, net, accepted, rebound>>
  BY <1>1, <1>2 DEF Notify
<1>3. ASSUME NEW size \in 1..MaxChunks, NEW s \in TurnStreams, QueueApproval(s, size)
      PROVE  /\ outbox'[queued'].size = size /\ outbox'[queued'].next = 0
             /\ outbox'[queued'].state = "pending"
             /\ \A m \in Inserted : outbox'[m] = outbox[m]
             /\ queued' = queued + 1 /\ queued' \in Messages
             /\ UNCHANGED <<lock, worker, account, net, accepted, rebound>>
  BY <1>1, <1>3 DEF QueueApproval
<1>4. ASSUME NEW size \in 1..MaxChunks, NEW s \in TurnStreams, NEW review \in BOOLEAN,
             QueueResult(s, size, review)
      PROVE  /\ outbox'[queued'].size = size /\ outbox'[queued'].next = 0
             /\ outbox'[queued'].state # "delivered"
             /\ \A m \in Inserted :
                   \/ outbox'[m] = outbox[m]
                   \/ outbox'[m] = [outbox[m] EXCEPT !.obsolete = TRUE]
             /\ queued' = queued + 1 /\ queued' \in Messages
             /\ UNCHANGED <<lock, worker, account, net, accepted, rebound>>
  <2> DEFINE r == [kind |-> "result", stream |-> s, size |-> size,
                   state |-> IF review THEN "needs_review" ELSE "pending",
                   obsolete |-> FALSE, sender |-> Origin[s], next |-> 0]
             o == [m \in Messages |-> IF m \in Inserted /\ outbox[m].stream = s
                                      THEN [outbox[m] EXCEPT !.obsolete = TRUE]
                                      ELSE outbox[m]]
  <2>1. Insert(r, o)
    BY <1>4 DEF QueueResult
  <2>2. /\ r.size = size /\ r.next = 0 /\ r.state # "delivered"
    OBVIOUS
  <2>3. \A m \in Inserted : \/ o[m] = outbox[m]
                            \/ o[m] = [outbox[m] EXCEPT !.obsolete = TRUE]
    <3> SUFFICES ASSUME NEW m \in Inserted
                 PROVE  \/ o[m] = outbox[m]
                        \/ o[m] = [outbox[m] EXCEPT !.obsolete = TRUE]
      OBVIOUS
    <3>1. m \in Messages
      BY DEF TypeOK
    <3> QED
      BY <3>1
  <2> HIDE DEF r, o
  <2> QED
    BY <1>1, <2>1, <2>2, <2>3
<1> QED
  BY <1>2, <1>3, <1>4

\* Nobody outside touches a row that a worker holds, but to make it obsolete.
LEMMA OutsideFrame ==
    ASSUME TypeOK, Outside
    PROVE  /\ UNCHANGED <<lock, worker>>
           /\ \A m \in Inserted : lock[m] # NoOne =>
                 /\ outbox'[m].state = outbox[m].state
                 /\ outbox'[m].sender = outbox[m].sender
<1>0. \A m \in Inserted : m \in Messages /\ outbox[m] \in Rows
  BY DEF TypeOK, Inserted, Messages
<1>1. CASE \/ \E size \in 1..MaxChunks, s \in PlanStreams : Notify(s, size)
           \/ \E size \in 1..MaxChunks, s \in TurnStreams :
                \/ QueueApproval(s, size)
                \/ \E review \in BOOLEAN : QueueResult(s, size, review)
  <2>1. UNCHANGED <<lock, worker>>
    BY <1>1, InsertFrame
  <2>2. ASSUME NEW m \in Inserted
        PROVE  outbox'[m].state = outbox[m].state /\ outbox'[m].sender = outbox[m].sender
    <3>1. \/ outbox'[m] = outbox[m]
          \/ outbox'[m] = [outbox[m] EXCEPT !.obsolete = TRUE]
      BY <1>1, InsertFrame
    <3> QED
      BY <1>0, <3>1 DEF Rows
  <2> QED
    BY <2>1, <2>2
<1>2. ASSUME NEW m \in Messages,
             \/ SuppressApproval(m) \/ Abandon(m)
             \/ \E rebind \in BOOLEAN : Retry(m, rebind)
      PROVE  /\ UNCHANGED <<lock, worker>>
             /\ \A n \in Inserted : lock[n] # NoOne =>
                   /\ outbox'[n].state = outbox[n].state
                   /\ outbox'[n].sender = outbox[n].sender
  BY <1>0, <1>2 DEF SuppressApproval, Abandon, Retry, Reviewable, Free, TypeOK, Rows
<1>3. CASE \/ \E a \in Accounts \cup {NoAccount} : Connect(a)
           \/ \E r \in net : Accept(r) \/ Lose(r)
  BY <1>3 DEF Connect, Accept, Lose
<1> QED
  BY <1>1, <1>2, <1>3 DEF Outside

\* What happens to a row: it is never withdrawn, its receipts only grow, and they
\* grow by the one that its holder has seen.
Acknowledged(m) ==
    \E w \in Workers : /\ At(w, "await") /\ m = worker[w].msg
                       /\ Request(w) \in accepted
                       /\ outbox'[m].next = outbox[m].next + 1
                       /\ outbox'[m].state = IF outbox[m].next + 1 = outbox[m].size
                                             THEN "delivered" ELSE "pending"

Kept(m) ==
    /\ outbox'[m].stream = outbox[m].stream /\ outbox'[m].size = outbox[m].size
    /\ outbox[m].obsolete => outbox'[m].obsolete
    /\ \/ outbox'[m].sender = outbox[m].sender
       \/ outbox[m].sender = NoAccount
       \/ m \in rebound'
    /\ \/ outbox'[m].next = outbox[m].next /\ outbox'[m].state = outbox[m].state
       \/ /\ outbox'[m].next = outbox[m].next
          /\ outbox[m].state # "delivered" /\ outbox'[m].state # "delivered"
       \/ Acknowledged(m)

LEMMA RowStep ==
    ASSUME TypeOK, Shapes, Candidates, Holders, Next, NEW m \in Inserted
    PROVE  Kept(m)
<1>0. m \in Messages /\ outbox[m] \in Rows
  BY DEF TypeOK, Inserted, Messages
<1>1. CASE outbox'[m] = outbox[m]
  BY <1>1 DEF Kept
<1>2. CASE outbox'[m] = [outbox[m] EXCEPT !.obsolete = TRUE]
  BY <1>0, <1>2 DEF Kept, Rows
<1>3. CASE \/ \E size \in 1..MaxChunks, s \in PlanStreams : Notify(s, size)
           \/ \E size \in 1..MaxChunks, s \in TurnStreams :
                \/ QueueApproval(s, size)
                \/ \E review \in BOOLEAN : QueueResult(s, size, review)
  BY <1>1, <1>2, <1>3, InsertFrame
<1>4. ASSUME NEW n \in Messages, SuppressApproval(n) \/ Abandon(n)
      PROVE  Kept(m)
  <2>1. \/ outbox'[m] = outbox[m]
        \/ outbox'[m] = [outbox[m] EXCEPT !.obsolete = TRUE]
    BY <1>0, <1>4 DEF SuppressApproval, Abandon, TypeOK
  <2> QED
    BY <1>1, <1>2, <2>1
<1>5. ASSUME NEW n \in Messages, NEW rebind \in BOOLEAN, Retry(n, rebind)
      PROVE  Kept(m)
  <2>1. CASE n = m
    BY <1>0, <1>5, <2>1 DEF Retry, Reviewable, TypeOK, Kept, Rows
  <2>2. CASE n # m
    BY <1>0, <1>1, <1>5, <2>2 DEF Retry, TypeOK
  <2> QED
    BY <2>1, <2>2
<1>6. CASE \/ \E a \in Accounts \cup {NoAccount} : Connect(a)
           \/ \E r \in net : Accept(r) \/ Lose(r)
  BY <1>1, <1>6 DEF Connect, Accept, Lose
<1>7. CASE Outside
  BY <1>3, <1>4, <1>5, <1>6, <1>7 DEF Outside
<1>8. ASSUME NEW w \in Workers, Drain(w) \/ Check(w) \/ Dispatch(w) \/ Fail(w) \/ Crash(w)
      PROVE  Kept(m)
  BY <1>1, <1>8 DEF Drain, Check, Dispatch, Fail, Crash
<1>9. ASSUME NEW w \in Workers, NEW n \in Messages,
             Take(w, n) \/ SenderChanged(w, n) \/ Pass(w, n)
      PROVE  Kept(m)
  <2>1. CASE Take(w, n) /\ n = m
    BY <1>0, <2>1 DEF Take, MaySend, TypeOK, Kept, Rows
  <2>2. CASE SenderChanged(w, n) /\ n = m
    BY <1>0, <2>2 DEF SenderChanged, Pending, TypeOK, Kept, Rows
  <2>3. CASE n # m \/ Pass(w, n)
    BY <1>0, <1>1, <1>9, <2>3 DEF Take, SenderChanged, Pass, TypeOK
  <2> QED
    BY <1>9, <2>1, <2>2, <2>3
<1>10. ASSUME NEW w \in Workers, Record(w)
       PROVE  Kept(m)
  <2>1. CASE worker[w].msg = m
    BY <1>0, <1>10, <2>1 DEF Record, Row, TypeOK, Kept, Acknowledged, Rows
  <2>2. CASE worker[w].msg # m
    BY <1>0, <1>1, <1>10, <2>2 DEF Record, TypeOK
  <2> QED
    BY <2>1, <2>2
<1>11. ASSUME NEW w \in Workers, Duplicate(w)
       PROVE  Kept(m)
  <2>1. CASE worker[w].msg = m
    <3>1. outbox[m].state = "pending"
      BY <1>11, <2>1 DEF Duplicate, At, Holders, Row
    <3> QED
      BY <1>0, <1>11, <2>1, <3>1 DEF Duplicate, TypeOK, Kept, Rows
  <2>2. CASE worker[w].msg # m
    BY <1>0, <1>1, <1>11, <2>2 DEF Duplicate, TypeOK
  <2> QED
    BY <2>1, <2>2
<1> QED
  BY <1>7, <1>8, <1>9, <1>10, <1>11, NextSplit DEF Work

\* Rows are not removed, and a row at the head of its stream stays there.
LEMMA HeadStep ==
    ASSUME TypeOK, Shapes, Candidates, Holders, Next
    PROVE  /\ Inserted \subseteq Inserted'
           /\ \A m \in Inserted : Unblocked(m) => Unblocked(m)'
<1>0. queued \in Nat
  BY DEF TypeOK
<1>1. queued' \in Nat /\ queued' >= queued
  <2>1. CASE \/ \E size \in 1..MaxChunks, s \in PlanStreams : Notify(s, size)
             \/ \E size \in 1..MaxChunks, s \in TurnStreams :
                  \/ QueueApproval(s, size)
                  \/ \E review \in BOOLEAN : QueueResult(s, size, review)
    BY <1>0, <2>1, InsertFrame
  <2>2. CASE UNCHANGED queued
    BY <1>0, <2>2
  <2> QED
    BY <2>1, <2>2, ZenonT(30) DEF Next, Work, SuppressApproval, Abandon, Retry, Connect, Accept, Lose,
       Drain, Take, SenderChanged, Pass, Check, Dispatch, Record, Duplicate, Fail, Crash
<1>2. Inserted \subseteq Inserted'
  BY <1>0, <1>1 DEF Inserted
<1>3. ASSUME NEW m \in Inserted, Unblocked(m), NEW n \in Inserted', n < m,
             outbox'[n].stream = outbox'[m].stream
      PROVE  outbox'[n].state = "delivered" \/ outbox'[n].obsolete
  <2>1. n \in Inserted
    BY <1>0, <1>1, <1>3 DEF Inserted
  <2>2. Kept(n) /\ Kept(m)
    BY <2>1, RowStep
  <2>3. outbox[n].state = "delivered" \/ outbox[n].obsolete
    BY <1>3, <2>1, <2>2 DEF Kept, Unblocked
  <2>4. ASSUME Acknowledged(n) PROVE outbox[n].state = "pending"
    BY <2>4 DEF Acknowledged, Holders, At, Row
  <2> QED
    BY <2>2, <2>3, <2>4 DEF Kept
<1>4. \A m \in Inserted : Unblocked(m) => Unblocked(m)'
  BY <1>3 DEF Unblocked
<1> QED
  BY <1>2, <1>4

\* Only a producer adds a row.
LEMMA NewRow ==
    ASSUME TypeOK, Next, NEW m \in Inserted', m \notin Inserted
    PROVE  /\ m = queued'
           /\ UNCHANGED <<lock, worker, account, net, accepted, rebound>>
           /\ outbox'[m].size > 0 /\ outbox'[m].next = 0
           /\ outbox'[m].state # "delivered"
<1>0. queued \in Nat
  BY DEF TypeOK
<1>1. CASE \/ \E size \in 1..MaxChunks, s \in PlanStreams : Notify(s, size)
           \/ \E size \in 1..MaxChunks, s \in TurnStreams :
                \/ QueueApproval(s, size)
                \/ \E review \in BOOLEAN : QueueResult(s, size, review)
  <2>1. m = queued'
    BY <1>0, <1>1, InsertFrame DEF Inserted
  <2> QED
    BY <1>1, <2>1, InsertFrame
<1>2. CASE UNCHANGED queued
  BY <1>2 DEF Inserted
<1> QED
  BY <1>1, <1>2, ZenonT(30) DEF Next, Work, SuppressApproval, Abandon, Retry, Connect, Accept, Lose,
     Drain, Take, SenderChanged, Pass, Check, Dispatch, Record, Duplicate, Fail, Crash

-----------------------------------------------------------------------------
(* The conjuncts of the invariant, one by one.                              *)

LEMMA ShapesStep ==
    ASSUME TypeOK, Shapes, Candidates, Holders, TypeOK', Next
    PROVE  Shapes'
<1> SUFFICES ASSUME NEW m \in Inserted'
             PROVE  /\ outbox'[m].size > 0 /\ outbox'[m].next <= outbox'[m].size
                    /\ outbox'[m].state = "delivered" <=> outbox'[m].next = outbox'[m].size
  BY DEF Shapes
<1>0. outbox'[m] \in Rows
  BY DEF TypeOK, Inserted, Messages
<1>1. CASE m \notin Inserted
  BY <1>0, <1>1, NewRow DEF Rows
<1>2. CASE m \in Inserted
  <2>1. outbox[m] \in Rows
    BY <1>2 DEF TypeOK, Inserted, Messages
  <2>2. Kept(m)
    BY <1>2, RowStep
  <2>3. /\ outbox[m].size > 0 /\ outbox[m].next <= outbox[m].size
        /\ outbox[m].state = "delivered" <=> outbox[m].next = outbox[m].size
    BY <1>2 DEF Shapes
  <2>4. ASSUME Acknowledged(m) PROVE outbox[m].state = "pending"
    BY <2>4 DEF Acknowledged, Holders, At, Row
  <2> QED
    BY <1>0, <2>1, <2>2, <2>3, <2>4 DEF Kept, Acknowledged, Rows
<1> QED
  BY <1>1, <1>2

\* A candidate was one before, or has just been picked.
LEMMA TodoStep ==
    ASSUME TypeOK, Next, NEW w \in Workers, NEW m \in worker'[w].todo
    PROVE  \/ m \in worker[w].todo /\ worker'[w].sender = worker[w].sender
           \/ m \in Inserted /\ Unblocked(m) /\ worker'[w].sender \in Accounts
<1>0. worker[w] \in Memories
  BY DEF TypeOK
<1>1. CASE worker'[w] = worker[w]
  BY <1>1
<1>2. CASE Outside
  BY <1>1, <1>2, OutsideFrame
<1>3. ASSUME NEW v \in Workers, v # w, Work(v) \/ Fail(v) \/ Crash(v)
      PROVE  worker'[w] = worker[w]
  <2>1. ASSUME LetGo(v) PROVE worker'[w] = worker[w]
    BY <1>3, <2>1 DEF LetGo, TypeOK
  <2> QED
    BY <1>3, <2>1 DEF Work, Fail, Crash, Drain, Take, SenderChanged, Pass, Check,
       Dispatch, Record, Duplicate, TypeOK
<1>4. CASE Drain(w)
  <2> DEFINE heads == {n \in Inserted : Pending(n) /\ Unblocked(n)}
  <2>1. worker'[w].todo = heads /\ worker'[w].sender = account
    BY <1>0, <1>4 DEF Drain, TypeOK, Memories
  <2>2. account \in Accounts
    BY <1>4 DEF Drain, TypeOK
  <2> QED
    BY <2>1, <2>2
<1>5. CASE LetGo(w)
  BY <1>0, <1>5 DEF LetGo, TypeOK, Memories
<1>6. CASE Crash(w)
  BY <1>6 DEF Crash, Resting, TypeOK
<1>7. ASSUME NEW n \in Messages, Take(w, n) \/ SenderChanged(w, n) \/ Pass(w, n)
      PROVE  m \in worker[w].todo /\ worker'[w].sender = worker[w].sender
  BY <1>0, <1>7 DEF Take, SenderChanged, Pass, TypeOK, Memories
<1>8. CASE Check(w) \/ Dispatch(w) \/ Record(w)
  BY <1>0, <1>5, <1>8 DEF Check, Dispatch, Record, TypeOK, Memories
<1> QED
  BY <1>1, <1>2, <1>3, <1>4, <1>5, <1>6, <1>7, <1>8, NextSplit
  DEF Work, Duplicate, Fail

LEMMA CandidatesStep ==
    ASSUME TypeOK, Shapes, Candidates, Holders, Next
    PROVE  Candidates'
<1> SUFFICES ASSUME NEW w \in Workers, NEW m \in worker'[w].todo
             PROVE  m \in Inserted' /\ Unblocked(m)' /\ worker'[w].sender \in Accounts
  BY DEF Candidates
<1>1. m \in Inserted /\ Unblocked(m) /\ worker'[w].sender \in Accounts
  BY TodoStep DEF Candidates
<1> QED
  BY <1>1, HeadStep

LEMMA HoldersStep ==
    ASSUME TypeOK, Shapes, Candidates, Holders, TypeOK', Next
    PROVE  Holders'
<1> SUFFICES ASSUME NEW w \in Workers, ~At(w, "pick")'
             PROVE  /\ worker'[w].msg \in worker'[w].todo
                    /\ lock'[worker'[w].msg] = w
                    /\ outbox'[worker'[w].msg].state = "pending"
                    /\ outbox'[worker'[w].msg].sender = worker'[w].sender
                    /\ worker'[w].left > 0
  BY DEF Holders, Row
<1>0. worker[w] \in Memories /\ worker'[w].pc # "pick"
  BY DEF TypeOK, At
<1>1. ASSUME ~At(w, "pick")
      PROVE  /\ worker[w].msg \in worker[w].todo
             /\ worker[w].msg \in Inserted /\ worker[w].msg \in Messages
             /\ lock[worker[w].msg] = w
             /\ outbox[worker[w].msg].state = "pending"
             /\ outbox[worker[w].msg].sender = worker[w].sender
             /\ worker[w].left > 0 /\ w # NoOne
  BY <1>1 DEF Holders, Candidates, Row, TypeOK, Inserted, Messages
<1>2. CASE Outside
  <2>1. worker' = worker /\ lock' = lock
    BY <1>2, OutsideFrame
  <2>2. ~At(w, "pick")
    BY <1>0, <2>1 DEF At
  <2>3. /\ outbox'[worker[w].msg].state = outbox[worker[w].msg].state
        /\ outbox'[worker[w].msg].sender = outbox[worker[w].msg].sender
    BY <1>1, <1>2, <2>2, OutsideFrame
  <2> QED
    BY <1>1, <2>1, <2>2, <2>3
<1>3. ASSUME NEW v \in Workers, v # w, Work(v) \/ Fail(v) \/ Crash(v)
      PROVE  /\ worker'[w] = worker[w] /\ ~At(w, "pick")
             /\ lock'[worker[w].msg] = w
             /\ outbox'[worker[w].msg] = outbox[worker[w].msg]
  <2>1. worker'[w] = worker[w]
    BY <1>3, WorkerFrame
  <2>2. ~At(w, "pick")
    BY <1>0, <2>1 DEF At
  <2> QED
    BY <1>1, <1>3, <2>1, <2>2, WorkerFrame
<1>4. CASE LetGo(w) \/ Crash(w)
  BY <1>0, <1>4 DEF LetGo, Crash, Resting, TypeOK, Memories
<1>5. CASE Drain(w)
  BY <1>0, <1>5 DEF Drain, At, TypeOK, Memories
<1>6. ASSUME NEW n \in Messages, SenderChanged(w, n) \/ Pass(w, n)
      PROVE  FALSE
  BY <1>0, <1>6 DEF SenderChanged, Pass, At, TypeOK, Memories
<1>7. ASSUME NEW n \in Messages, Take(w, n)
      PROVE  /\ worker'[w].msg = n /\ n \in worker'[w].todo
             /\ worker'[w].sender = worker[w].sender
             /\ worker'[w].left = ChunksPerJob
             /\ lock'[n] = w
             /\ outbox'[n].state = "pending"
             /\ outbox'[n].sender = worker[w].sender
  <2>1. outbox[n] \in Rows
    BY DEF TypeOK
  <2> QED
    BY <1>0, <1>7, <2>1 DEF Take, Pending, TypeOK, Memories, Rows
<1>8. ASSUME Check(w) \/ Dispatch(w), ~LetGo(w)
      PROVE  /\ ~At(w, "pick")
             /\ worker'[w].msg = worker[w].msg /\ worker'[w].todo = worker[w].todo
             /\ worker'[w].sender = worker[w].sender
             /\ worker'[w].left = worker[w].left
             /\ lock' = lock /\ outbox' = outbox
  BY <1>0, <1>8 DEF Check, Dispatch, At, TypeOK, Memories
<1>9. ASSUME Record(w), ~LetGo(w)
      PROVE  /\ worker'[w].msg \in worker'[w].todo
             /\ lock'[worker'[w].msg] = w
             /\ outbox'[worker'[w].msg].state = "pending"
             /\ outbox'[worker'[w].msg].sender = worker'[w].sender
             /\ worker'[w].left > 0
  <2>0. ~At(w, "pick")
    BY <1>9 DEF Record, At
  <2>1. outbox[worker[w].msg] \in Rows
    BY <1>1, <2>0 DEF TypeOK
  <2>2. /\ Row(w).next + 1 # Row(w).size /\ worker[w].left # 1
        /\ worker' = [worker EXCEPT ![w].pc = "check", ![w].left = @ - 1]
        /\ UNCHANGED lock
    BY <1>9 DEF Record
  <2>3. /\ worker'[w].msg = worker[w].msg /\ worker'[w].todo = worker[w].todo
        /\ worker'[w].sender = worker[w].sender /\ worker'[w].left = worker[w].left - 1
    BY <1>0, <2>2 DEF TypeOK, Memories
  <2>4. worker[w].left - 1 > 0
    BY <1>0, <1>1, <2>0, <2>2 DEF Memories
  <2>5. /\ outbox'[worker[w].msg].state = "pending"
        /\ outbox'[worker[w].msg].sender = outbox[worker[w].msg].sender
    <3>1. outbox' = [outbox EXCEPT ![worker[w].msg].next = @ + 1,
                                   ![worker[w].msg].state = "pending"]
      BY <1>9, <2>2 DEF Record
    <3>2. worker[w].msg \in DOMAIN outbox
      BY <1>1, <2>0 DEF TypeOK
    <3> QED
      BY <2>1, <3>1, <3>2 DEF Rows
  <2> QED
    BY <1>1, <2>0, <2>2, <2>3, <2>4, <2>5
<1>10. CASE \E v \in Workers \ {w} : Work(v) \/ Fail(v) \/ Crash(v)
  <2>1. /\ worker'[w] = worker[w] /\ ~At(w, "pick")
        /\ lock'[worker[w].msg] = w
        /\ outbox'[worker[w].msg] = outbox[worker[w].msg]
    BY <1>3, <1>10
  <2> QED
    BY <1>1, <2>1
<1>11. CASE Check(w) \/ Dispatch(w)
  BY <1>1, <1>4, <1>8, <1>11
<1>12. CASE \E n \in Messages : Take(w, n)
  <2>1. PICK n \in Messages : Take(w, n)
    BY <1>12
  <2> QED
    BY <1>7, <2>1
<1> QED
  BY <1>2, <1>4, <1>5, <1>6, <1>9, <1>10, <1>11, <1>12, NextSplit
  DEF Work, Duplicate, Fail

\* A request is new only when a worker sends it.
LEMMA NetStep ==
    ASSUME Next
    PROVE  /\ accepted \subseteq accepted' /\ rebound \subseteq rebound'
           /\ accepted' \subseteq net \cup accepted
           /\ \/ net' \subseteq net
              \/ \E w \in Workers : Dispatch(w)
<1>1. CASE \E w \in Workers : Work(w) \/ Fail(w) \/ Crash(w)
  BY <1>1, ZenonT(30) DEF Work, Drain, Take, SenderChanged, Pass, Check, Dispatch, Record, Duplicate,
     Fail, Crash
<1>2. CASE Outside
  BY <1>2 DEF Outside, Notify, QueueApproval, QueueResult, Insert, SuppressApproval,
     Abandon, Retry, Connect, Accept, Lose
<1> QED
  BY <1>1, <1>2, NextSplit

\* What is sent is due.
LEMMA DispatchIsDue ==
    ASSUME TypeOK, Shapes, Candidates, Holders,
           NEW w \in Workers, Dispatch(w), NEW r \in net', r \notin net
    PROVE  /\ r[2] \in Inserted /\ Unblocked(r[2])
           /\ r[3] = outbox[r[2]].next + 1
           /\ outbox[r[2]].state = "pending"
           /\ outbox[r[2]].sender = r[1] /\ r[1] \in Accounts
           /\ outbox' = outbox
<1>1. r = Request(w) /\ ~At(w, "pick") /\ outbox' = outbox
  BY DEF Dispatch, At
<1>2. /\ worker[w].msg \in worker[w].todo
      /\ Row(w).state = "pending"
      /\ Row(w).sender = worker[w].sender
  BY <1>1 DEF Holders
<1>3. r[1] = worker[w].sender /\ r[2] = worker[w].msg /\ r[3] = Row(w).next + 1
  BY <1>1 DEF Request
<1> QED
  BY <1>1, <1>2, <1>3 DEF Row, Candidates

LEMMA SentStep ==
    ASSUME TypeOK, Shapes, Candidates, Holders, Sent, TypeOK', Next
    PROVE  Sent'
<1> SUFFICES ASSUME NEW r \in net' \cup accepted'
             PROVE  /\ r[2] \in Inserted' /\ Unblocked(r[2])'
                    /\ r[3] <= outbox'[r[2]].next + 1 /\ r[3] <= outbox'[r[2]].size
                    /\ r[2] \notin rebound' => outbox'[r[2]].sender = r[1]
  BY DEF Sent
<1>1. CASE r \in net \cup accepted
  <2>1. /\ r[2] \in Inserted /\ Unblocked(r[2])
        /\ r[3] <= outbox[r[2]].next + 1 /\ r[3] <= outbox[r[2]].size
        /\ r[2] \notin rebound => outbox[r[2]].sender = r[1]
    BY <1>1 DEF Sent
  <2>2. r[1] \in Accounts /\ r[2] \in Messages /\ r[3] \in 1..MaxChunks
    BY <1>1 DEF TypeOK, Requests
  <2>3. outbox[r[2]] \in Rows /\ outbox'[r[2]] \in Rows
    BY <2>2 DEF TypeOK
  <2>4. Kept(r[2])
    BY <2>1, RowStep
  <2>5. outbox'[r[2]].next >= outbox[r[2]].next
    BY <2>3, <2>4 DEF Kept, Acknowledged, Rows
  <2>6. r[3] <= outbox'[r[2]].next + 1 /\ r[3] <= outbox'[r[2]].size
    BY <2>1, <2>2, <2>3, <2>4, <2>5 DEF Kept, Rows
  <2>7. ASSUME r[2] \notin rebound' PROVE outbox'[r[2]].sender = r[1]
    BY <2>1, <2>2, <2>4, <2>7, NetStep DEF Kept
  <2> QED
    BY <2>1, <2>6, <2>7, HeadStep
<1>2. CASE r \notin net \cup accepted
  <2>1. PICK w \in Workers : Dispatch(w)
    BY <1>2, NetStep
  <2>2. r \in net' /\ r \notin net
    BY <1>2, <2>1 DEF Dispatch
  <2>3. outbox[r[2]] \in Rows
    BY <2>1, <2>2, DispatchIsDue DEF TypeOK, Inserted, Messages
  <2>4. outbox[r[2]].next + 1 <= outbox[r[2]].size
    BY <2>1, <2>2, <2>3, DispatchIsDue DEF Shapes, Rows
  <2> QED
    BY <2>1, <2>2, <2>3, <2>4, DispatchIsDue, HeadStep DEF Rows
<1> QED
  BY <1>1, <1>2

LEMMA ReceiptsStep ==
    ASSUME TypeOK, Shapes, Candidates, Holders, Receipts, TypeOK', Next
    PROVE  Receipts'
<1> SUFFICES ASSUME NEW m \in Inserted', NEW c \in 1..outbox'[m].next
             PROVE  \E a \in Accounts : <<a, m, c>> \in accepted'
  BY DEF Receipts
<1>1. CASE m \notin Inserted
  BY <1>1, NewRow
<1>2. CASE m \in Inserted
  <2>1. Kept(m) /\ accepted \subseteq accepted'
    BY <1>2, RowStep, NetStep
  <2>2. outbox[m] \in Rows
    BY <1>2 DEF TypeOK, Inserted, Messages
  <2>3. CASE c \in 1..outbox[m].next
    BY <1>2, <2>1, <2>3 DEF Receipts
  <2>4. CASE c \notin 1..outbox[m].next
    <3>1. Acknowledged(m) /\ c = outbox[m].next + 1
      BY <2>1, <2>2, <2>4 DEF Kept, Acknowledged, Rows
    <3>2. PICK w \in Workers : /\ ~At(w, "pick") /\ m = worker[w].msg
                               /\ Request(w) \in accepted
      BY <3>1 DEF Acknowledged, At
    <3>3. Request(w) = <<worker[w].sender, m, c>>
      BY <3>1, <3>2 DEF Request, Row
    <3>4. worker[w].sender \in Accounts
      BY <3>2 DEF Holders, Candidates
    <3> QED
      BY <2>1, <3>2, <3>3, <3>4
  <2> QED
    BY <2>3, <2>4
<1> QED
  BY <1>1, <1>2

-----------------------------------------------------------------------------
(* The theorems.                                                            *)

LEMMA InitInductive == Init => Inductive
<1> SUFFICES ASSUME Init PROVE Inductive
  OBVIOUS
<1>1. Inserted = {}
  BY DEF Init, Inserted
<1>2. TypeOK
  BY InitType
<1>3. Candidates /\ Holders
  BY DEF Init, Resting, At, Candidates, Holders
<1>4. Shapes /\ Sent /\ Receipts
  BY <1>1 DEF Init, Shapes, Sent, Receipts
<1> QED
  BY <1>2, <1>3, <1>4 DEF Inductive

LEMMA NextInductive == Inductive /\ [Next]_vars => Inductive'
<1> SUFFICES ASSUME Inductive, [Next]_vars PROVE Inductive'
  OBVIOUS
<1>1. CASE Next
  <2>1. TypeOK'
    BY <1>1, TypeStep DEF Inductive
  <2> QED
    BY <1>1, <2>1, ShapesStep, CandidatesStep, HoldersStep, SentStep, ReceiptsStep
    DEF Inductive
<1>2. CASE UNCHANGED vars
  BY <1>2 DEF vars, Inductive, TypeOK, Shapes, Candidates, Holders, Sent, Receipts,
     Inserted, Unblocked, At, Row
<1> QED
  BY <1>1, <1>2

\* The inductive invariant holds in every reachable state: rows, candidates,
\* holders, requests and receipts of the outbox agree.
THEOREM SpecInductive == Spec => []Inductive
BY InitInductive, NextInductive, PTL DEF Spec

\* Rows, locks, workers and requests keep their shape.
THEOREM SpecTypeOK == Spec => []TypeOK
<1>1. Inductive => TypeOK
  BY DEF Inductive
<1> QED
  BY <1>1, SpecInductive, PTL

\* No chunk appears twice in the chat, unless an operator let another account
\* take its row over (delivery.py: the stored random_id and the bound sender).
THEOREM SpecShownOnce == Spec => []ShownOnce
<1>1. Inductive => ShownOnce
  BY DEF Inductive, Sent, ShownOnce
<1> QED
  BY <1>1, SpecInductive, PTL

\* What a row counts as sent is in the chat (delivery.py: next_chunk is advanced
\* by a receipt only).
THEOREM SpecNoFalseReceipt == Spec => []NoFalseReceipt
<1>1. Inductive => NoFalseReceipt
  BY DEF Inductive, Shapes, Receipts, NoFalseReceipt
<1> QED
  BY <1>1, SpecInductive, PTL

\* Streams, and the chunks of a message, are shown in order (delivery.py: the
\* NOT EXISTS of the candidate query and next_chunk).
THEOREM SpecStreamInOrder == Spec => []StreamInOrder
<1>1. ASSUME Inductive, NEW r \in accepted
      PROVE  /\ r[3] > 1 => \E a \in Accounts : <<a, r[2], r[3] - 1>> \in accepted
             /\ Unblocked(r[2])
  <2>1. /\ r[2] \in Inserted /\ Unblocked(r[2])
        /\ r[3] <= outbox[r[2]].next + 1
    BY <1>1 DEF Inductive, Sent
  <2>2. r[2] \in Messages /\ r[3] \in 1..MaxChunks
    BY <1>1 DEF Inductive, TypeOK, Requests
  <2>3. outbox[r[2]] \in Rows
    BY <1>1, <2>2 DEF Inductive, TypeOK
  <2>4. r[3] > 1 => r[3] - 1 \in 1..outbox[r[2]].next
    BY <2>1, <2>2, <2>3 DEF Rows
  <2> QED
    BY <1>1, <2>1, <2>4 DEF Inductive, Receipts
<1>2. Inductive => StreamInOrder
  BY <1>1 DEF StreamInOrder, Unblocked
<1> QED
  BY <1>2, SpecInductive, PTL

\* A request leaves only for the next chunk of a pending row at the head of its
\* stream (delivery.py: what was checked under the row's lock still holds when
\* the message is sent).
THEOREM SpecSendsAreCurrent == Spec => SendsAreCurrent
<1> DEFINE A == \A r \in net' \ net :
                   LET row == outbox[r[2]]
                   IN  /\ row.state = "pending" /\ row.sender = r[1] /\ row.next + 1 = r[3]
                       /\ Unblocked(r[2])
<1>1. Inductive /\ [Next]_vars => [A]_vars
  <2> SUFFICES ASSUME Inductive, Next, NEW r \in net' \ net
               PROVE  LET row == outbox[r[2]]
                      IN  /\ row.state = "pending" /\ row.sender = r[1]
                          /\ row.next + 1 = r[3]
                          /\ Unblocked(r[2])
    OBVIOUS
  <2>1. PICK w \in Workers : Dispatch(w)
    BY NetStep
  <2> QED
    BY <2>1, DispatchIsDue DEF Inductive
<1> QED
  BY <1>1, SpecInductive, PTL DEF Spec, SendsAreCurrent

\* Receipts are never taken back, a delivered or obsolete row stays so, and a
\* bound account changes only by rebinding (delivery.py: retry and abandon).
THEOREM SpecSettledStays == Spec => SettledStays
<1> DEFINE A == \A m \in Inserted :
                   /\ outbox'[m].next >= outbox[m].next
                   /\ outbox[m].state = "delivered" => outbox'[m].state = "delivered"
                   /\ outbox[m].obsolete => outbox'[m].obsolete
                   /\ outbox[m].sender \in {NoAccount, outbox'[m].sender} \/ m \in rebound'
<1>1. Inductive /\ [Next]_vars => [A]_vars
  <2> SUFFICES ASSUME Inductive, Next, NEW m \in Inserted
               PROVE  /\ outbox'[m].next >= outbox[m].next
                      /\ outbox[m].state = "delivered" => outbox'[m].state = "delivered"
                      /\ outbox[m].obsolete => outbox'[m].obsolete
                      /\ \/ outbox[m].sender \in {NoAccount, outbox'[m].sender}
                         \/ m \in rebound'
    OBVIOUS
  <2>1. Kept(m) /\ outbox[m] \in Rows
    BY RowStep DEF Inductive, TypeOK, Inserted, Messages
  <2>2. ASSUME Acknowledged(m) PROVE outbox[m].state = "pending"
    BY <2>2 DEF Acknowledged, Inductive, Holders, At, Row
  <2> QED
    BY <2>1, <2>2 DEF Kept, Acknowledged, Rows
<1> QED
  BY <1>1, SpecInductive, PTL DEF Spec, SettledStays
-----------------------------------------------------------------------------
(* The outbox keeps the promise of OutboxContract.                          *)

Messaging == [m \in Messages |-> Promised(m)]

\* The reader's words for what the outbox holds.
LEMMA Words ==
    ASSUME TypeOK
    PROVE  /\ Inserted \subseteq Messages
           /\ \A m \in Inserted : /\ Messaging[m].status = Status(m)
                                  /\ Messaging[m].size = outbox[m].size
                                  /\ Messaging[m].stream = outbox[m].stream
           /\ Reader!Written = Inserted
           /\ \A s : Reader!Unsettled(s) =
                        {m \in Inserted : /\ outbox[m].stream = s
                                          /\ ~(outbox[m].state = "delivered" \/ outbox[m].obsolete)}
<1>1. Inserted \subseteq Messages
  BY DEF TypeOK, Inserted, Messages
<1>2. \A m \in Inserted : /\ Messaging[m].status = Status(m)
                          /\ Messaging[m].size = outbox[m].size
                          /\ Messaging[m].stream = outbox[m].stream
  BY <1>1 DEF Messaging, Promised
<1>3. \A m \in Messages \ Inserted : Messaging[m].status = "unwritten"
  BY DEF Messaging, Promised
<1>4. Reader!Written = Inserted
  BY <1>1, <1>2, <1>3 DEF Reader!Written, Reader!Messages, Messages, Messaging, Status
<1>5. ASSUME NEW s
      PROVE  Reader!Unsettled(s) =
                {m \in Inserted : /\ outbox[m].stream = s
                                  /\ ~(outbox[m].state = "delivered" \/ outbox[m].obsolete)}
  BY <1>1, <1>2, <1>4 DEF Reader!Unsettled, Reader!Settled, Messaging, Status
<1> QED
  BY <1>1, <1>2, <1>4, <1>5

\* A worker comes to send a chunk only by a look at a row that is not obsolete.
LEMMA Sends ==
    ASSUME TypeOK, Candidates, Holders, Next, NEW v \in Workers,
           worker'[v].pc \in {"send", "await"}
    PROVE  /\ worker'[v].msg = worker[v].msg
           /\ \/ worker[v].pc \in {"send", "await"}
              \/ At(v, "check") /\ ~Row(v).obsolete /\ outbox' = outbox
<1>0. worker[v] \in Memories
  BY DEF TypeOK
<1>1. CASE worker'[v] = worker[v]
  BY <1>1
<1>2. CASE Outside
  BY <1>1, <1>2, OutsideFrame
<1>3. ASSUME NEW u \in Workers \ {v}, Work(u) \/ Fail(u) \/ Crash(u)
      PROVE  worker'[v] = worker[v]
  BY <1>3, WorkerFrame
<1>4. ASSUME LetGo(v) PROVE FALSE
  BY <1>0, <1>4 DEF LetGo, TypeOK, Memories
<1>5. CASE Drain(v)
  BY <1>0, <1>5 DEF Drain, At, TypeOK, Memories
<1>6. ASSUME NEW m \in Messages, Take(v, m) \/ SenderChanged(v, m) \/ Pass(v, m)
      PROVE  FALSE
  BY <1>0, <1>6 DEF Take, SenderChanged, Pass, At, TypeOK, Memories
<1>7. CASE Check(v)
  BY <1>0, <1>4, <1>7 DEF Check, TypeOK, Memories
<1>8. CASE Dispatch(v)
  BY <1>0, <1>8 DEF Dispatch, At, TypeOK, Memories
<1>9. CASE Record(v)
  <2>1. worker' = [worker EXCEPT ![v].pc = "check", ![v].left = @ - 1]
    BY <1>4, <1>9 DEF Record
  <2>2. worker'[v].pc = "check"
    BY <1>0, <2>1 DEF TypeOK, Memories
  <2> QED
    BY <2>2
<1>10. ~Duplicate(v) /\ ~Fail(v)
  BY <1>4 DEF Duplicate, Fail
<1>11. ~Crash(v)
  BY DEF Crash, Resting, TypeOK
<1> QED
  BY <1>1, <1>2, <1>3, <1>5, <1>6, <1>7, <1>8, <1>9, <1>10, <1>11, NextSplit DEF Work

\* What a worker has acknowledged it lets go of, or it looks at the row again.
LEMMA AcknowledgedOnce ==
    ASSUME TypeOK, Candidates, Holders, Next, NEW m \in Inserted, Acknowledged(m),
           NEW v \in Workers, worker'[v].pc \in {"send", "await"}, worker'[v].msg = m
    PROVE  FALSE
<1>0. m \in Messages /\ outbox[m] \in Rows
  BY DEF TypeOK, Inserted, Messages
<1>1. PICK w \in Workers : At(w, "await") /\ m = worker[w].msg
  BY DEF Acknowledged
<1>2. outbox'[m].next = outbox[m].next + 1 /\ outbox'[m].next # outbox[m].next
  BY <1>0 DEF Acknowledged, Rows
<1>3. worker[v].msg = m /\ worker[v].pc \in {"send", "await"}
  BY <1>2, Sends
<1>4. v = w
  BY <1>1, <1>3 DEF Holders, At
<1>5. lock[m] = w /\ outbox[m].state = "pending"
  BY <1>1 DEF Holders, At, Row
<1>6. ~Outside
  <2>1. ASSUME Outside PROVE outbox'[m].next = outbox[m].next
    <3>1. CASE \/ \E size \in 1..MaxChunks, s \in PlanStreams : Notify(s, size)
               \/ \E size \in 1..MaxChunks, s \in TurnStreams :
                    \/ QueueApproval(s, size)
                    \/ \E review \in BOOLEAN : QueueResult(s, size, review)
      <4>1. \/ outbox'[m] = outbox[m]
            \/ outbox'[m] = [outbox[m] EXCEPT !.obsolete = TRUE]
        BY <3>1, InsertFrame
      <4> QED
        BY <1>0, <4>1 DEF Rows
    <3>2. ASSUME NEW n \in Messages,
                 \/ SuppressApproval(n) \/ Abandon(n)
                 \/ \E rebind \in BOOLEAN : Retry(n, rebind)
          PROVE  outbox'[m].next = outbox[m].next
      BY <1>0, <3>2 DEF SuppressApproval, Abandon, Retry, TypeOK, Rows
    <3>3. CASE \/ \E a \in Accounts \cup {NoAccount} : Connect(a)
               \/ \E r \in net : Accept(r) \/ Lose(r)
      BY <3>3 DEF Connect, Accept, Lose
    <3> QED
      BY <2>1, <3>1, <3>2, <3>3 DEF Outside
  <2> QED
    BY <1>2, <2>1
<1>7. ASSUME NEW u \in Workers \ {w}, Work(u) \/ Fail(u) \/ Crash(u) PROVE FALSE
  <2>1. lock[m] \notin {u, NoOne}
    BY <1>5
  <2> QED
    BY <1>0, <1>2, <1>7, <2>1, WorkerFrame
<1>8. Work(w) \/ Fail(w) \/ Crash(w)
  BY <1>6, <1>7, NextSplit
<1>9. worker[w] \in Memories
  BY DEF TypeOK
<1>10. ~LetGo(w)
  BY <1>4, <1>9 DEF LetGo, TypeOK, Memories
<1>11. Record(w)
  BY <1>1, <1>2, <1>8, <1>10 DEF Work, Drain, Take, SenderChanged, Pass, Check, Dispatch,
     Duplicate, Fail, Crash, At
<1>12. worker' = [worker EXCEPT ![w].pc = "check", ![w].left = @ - 1]
  BY <1>10, <1>11 DEF Record
<1>13. worker'[w].pc = "check"
  BY <1>9, <1>12 DEF TypeOK, Memories
<1> QED
  BY <1>4, <1>13

\* No further chunk gets under way once a row is held or dropped.
LEMMA NothingNewUnderway ==
    ASSUME Inductive, Next, NEW m \in Underway'
    PROVE  \/ m \in Underway
           \/ m \in Inserted /\ Status(m) = "open" /\ Status(m)' # "open"
<1>0. /\ TypeOK /\ Shapes /\ Candidates /\ Holders /\ Sent
      /\ TypeOK' /\ Candidates' /\ Holders'
  BY NextInductive DEF Inductive
<1>1. /\ m \in Inserted' /\ Status(m)' \in {"held", "dropped"}
      /\ \A a \in Accounts : <<a, m, outbox'[m].next + 1>> \notin accepted'
      /\ \/ \E a \in Accounts : <<a, m, outbox'[m].next + 1>> \in net'
         \/ \E w \in Workers : worker'[w].pc \in {"send", "await"} /\ worker'[w].msg = m
  BY DEF Underway, InChat
<1>2. ASSUME NEW a, NEW c, <<a, m, c>> \in net PROVE m \in Inserted
  <2>1. <<a, m, c>>[2] \in Inserted
    BY <1>0, <1>2 DEF Sent
  <2> QED
    BY <2>1
<1>3. \A w \in Workers : worker[w].pc \in {"send", "await"} => worker[w].msg \in Inserted
  BY <1>0 DEF Holders, Candidates, At
<1>4. m \in Inserted
  <2>1. ASSUME m \notin Inserted PROVE UNCHANGED <<worker, net>>
    BY <1>0, <1>1, <2>1, NewRow
  <2> QED
    BY <1>1, <1>2, <1>3, <2>1
<1>5. Kept(m) /\ outbox[m] \in Rows /\ outbox'[m] \in Rows
  BY <1>0, <1>4, RowStep DEF TypeOK, Inserted, Messages
<1>6. ASSUME Acknowledged(m) PROVE FALSE
  <2>1. outbox'[m].next = outbox[m].next + 1
    BY <1>6 DEF Acknowledged
  <2>2. ASSUME NEW a \in Accounts, <<a, m, outbox'[m].next + 1>> \in net' PROVE FALSE
    <3> DEFINE r == <<a, m, outbox'[m].next + 1>>
    <3>1. r[2] = m /\ r[3] = outbox[m].next + 2
      BY <1>5, <2>1 DEF Rows
    <3>2. r \notin net
      BY <1>0, <1>5, <3>1 DEF Sent, Rows
    <3>3. PICK w \in Workers : Dispatch(w)
      BY <2>2, <3>2, NetStep
    <3>4. outbox' = outbox
      BY <3>3 DEF Dispatch
    <3> QED
      BY <1>5, <2>1, <3>4 DEF Rows
  <2> QED
    BY <1>0, <1>1, <1>4, <1>6, <2>2, AcknowledgedOnce
<1>7. /\ outbox'[m].next = outbox[m].next
      /\ outbox[m].obsolete => outbox'[m].obsolete
      /\ outbox[m].state = "delivered" => outbox'[m].state = "delivered"
  BY <1>5, <1>6 DEF Kept
<1>8. SUFFICES ASSUME Status(m) # "open" PROVE m \in Underway
  BY <1>1, <1>4
<1>9. Status(m) \in {"held", "dropped"}
  BY <1>1, <1>7, <1>8 DEF Status
<1>10. ~InChat(m, outbox[m].next + 1)
  BY <1>1, <1>7, NetStep DEF InChat
<1>11. ASSUME NEW a \in Accounts, <<a, m, outbox[m].next + 1>> \in net',
              <<a, m, outbox[m].next + 1>> \notin net
       PROVE  \E w \in Workers : worker[w].pc \in {"send", "await"} /\ worker[w].msg = m
  <2>1. PICK w \in Workers : Dispatch(w)
    BY <1>11, NetStep
  <2>2. <<a, m, outbox[m].next + 1>> = Request(w)
    BY <1>11, <2>1 DEF Dispatch
  <2> QED
    BY <2>1, <2>2 DEF Dispatch, Request, At
<1>12. ASSUME NEW w \in Workers, worker'[w].pc \in {"send", "await"}, worker'[w].msg = m
       PROVE  worker[w].pc \in {"send", "await"} /\ worker[w].msg = m
  <2>1. ASSUME At(w, "check"), ~Row(w).obsolete, worker[w].msg = m PROVE FALSE
    BY <1>0, <1>8, <2>1 DEF Holders, At, Row, Status
  <2> QED
    BY <1>0, <1>12, <2>1, Sends
<1> QED
  BY <1>1, <1>4, <1>7, <1>9, <1>10, <1>11, <1>12 DEF Underway

LEMMA AlwaysStops ==
    ASSUME Inductive, Next PROVE Reader!Stops
<1>0. TypeOK /\ TypeOK'
  BY NextInductive DEF Inductive
<1>1. ASSUME NEW m \in Underway', m \notin Underway
      PROVE  m \in Messages /\ Messaging[m].status = "open" /\ (Messaging[m].status # "open")'
  <2>1. m \in Inserted /\ Status(m) = "open" /\ Status(m)' # "open"
    BY <1>1, NothingNewUnderway
  <2>2. m \in Inserted'
    BY <1>1 DEF Underway
  <2> QED
    BY <1>0, <2>1, <2>2, Words DEF Messaging, Promised
<1>2. Underway' \subseteq Underway \cup
        {m \in Messages : Messaging[m].status = "open" /\ (Messaging[m].status # "open")'}
  BY <1>1
<1> QED
  BY <1>2 DEF Reader!Stops, Reader!Messages, Messages, Messaging

\* A step after which the reader has the same messages and the same chat.
LEMMA Fades ==
    ASSUME Inductive, Next, Messaging' = Messaging, UNCHANGED <<accepted, rebound>>
    PROVE  Reader!Next
<1>1. Underway' \subseteq Underway
  <2>1. Reader!Stops
    BY AlwaysStops
  <2> QED
    BY <2>1 DEF Reader!Stops, Messaging
<1>2. Reader!Fade
  BY <1>1 DEF Reader!Fade, Messaging
<1> QED
  BY <1>2 DEF Reader!Next

\* A step that changes one row, as the reader sees it.
LEMMA Changes ==
    ASSUME Inductive, Next, NEW m \in Inserted, NEW from, NEW to,
           queued' = queued, Status(m) \in from, Status(m)' = to,
           \A n \in Inserted : /\ outbox'[n].stream = outbox[n].stream
                               /\ outbox'[n].size = outbox[n].size
                               /\ n # m => Status(n)' = Status(n),
           accepted' = accepted
    PROVE  Reader!Change(m, from, to)
<1>0. TypeOK
  BY DEF Inductive
<1>1. m \in Messages /\ Messaging[m].status = Status(m)
  BY <1>0, Words
<1>2. Inserted' = Inserted
  BY DEF Inserted
<1>3. ASSUME NEW n \in Messages
      PROVE  Promised(n)' = IF n = m THEN [Promised(n) EXCEPT !.status = to]
                            ELSE Promised(n)
  BY <1>2, <1>3 DEF Promised
<1>4. Messaging' = [Messaging EXCEPT ![m].status = to]
  BY <1>1, <1>3 DEF Messaging
<1> QED
  BY <1>1, <1>4, AlwaysStops DEF Reader!Change, Messaging

\* A step that leaves every row's status alone.
LEMMA Unseen ==
    ASSUME TypeOK, queued' = queued,
           \A n \in Inserted : /\ outbox'[n].stream = outbox[n].stream
                               /\ outbox'[n].size = outbox[n].size
                               /\ Status(n)' = Status(n)
    PROVE  Messaging' = Messaging
<1>1. \A n \in Messages : Promised(n)' = Promised(n)
  BY DEF Promised, Inserted
<1> QED
  BY <1>1 DEF Messaging
\* The owner of an approval or the operator drops a row.
LEMMA DropStep ==
    ASSUME Inductive, Next, NEW m \in Messages, SuppressApproval(m) \/ Abandon(m)
    PROVE  Reader!Next
<1>0. TypeOK /\ m \in Inserted /\ outbox[m] \in Rows
  BY DEF Inductive, TypeOK, SuppressApproval, Abandon, Reviewable
<1>1. /\ outbox' = [outbox EXCEPT ![m].obsolete = TRUE]
      /\ UNCHANGED <<queued, accepted, rebound>>
  BY DEF SuppressApproval, Abandon
<1>2. \A n \in Inserted : /\ outbox'[n].stream = outbox[n].stream
                          /\ outbox'[n].size = outbox[n].size
                          /\ n # m => outbox'[n] = outbox[n]
  BY <1>0, <1>1 DEF TypeOK, Rows, Messages, Inserted
<1>3. outbox'[m].obsolete /\ outbox'[m].state = outbox[m].state
  BY <1>0, <1>1 DEF TypeOK, Rows
<1>4. \A n \in Inserted : n # m => Status(n)' = Status(n)
  BY <1>2 DEF Status
<1>5. CASE Status(m) \in {"open", "held"}
  <2>1. Status(m)' = "dropped"
    BY <1>3, <1>5 DEF Status
  <2>2. Reader!Change(m, {"open", "held"}, "dropped")
    BY <1>0, <1>1, <1>2, <1>4, <1>5, <2>1, Changes
  <2> QED
    BY <1>0, <1>1, <2>2, Words DEF Reader!Next, Reader!Drop, Messaging
<1>6. CASE Status(m) \notin {"open", "held"}
  <2>1. Status(m)' = Status(m)
    BY <1>3, <1>6 DEF Status
  <2> QED
    BY <1>0, <1>1, <1>2, <1>4, <2>1, Unseen, Fades
<1> QED
  BY <1>5, <1>6

\* The operator lets a held row go on.
LEMMA ResumeStep ==
    ASSUME Inductive, Next, NEW m \in Messages, NEW rebind \in BOOLEAN, Retry(m, rebind)
    PROVE  Reader!Next
<1>0. /\ TypeOK /\ m \in Inserted /\ outbox[m] \in Rows
      /\ outbox[m].state = "needs_review" /\ ~outbox[m].obsolete
  BY DEF Inductive, TypeOK, Retry, Reviewable
<1>1. /\ outbox' = [outbox EXCEPT ![m].state = "pending",
                                  ![m].sender = IF rebind THEN NoAccount ELSE @]
      /\ UNCHANGED <<queued, accepted>>
      /\ rebound' \in {rebound, rebound \cup {m}}
  BY DEF Retry
<1>2. \A n \in Inserted : /\ outbox'[n].stream = outbox[n].stream
                          /\ outbox'[n].size = outbox[n].size
                          /\ n # m => outbox'[n] = outbox[n]
  BY <1>0, <1>1 DEF TypeOK, Rows, Messages, Inserted
<1>3. outbox'[m].state = "pending" /\ ~outbox'[m].obsolete
  BY <1>0, <1>1 DEF TypeOK, Rows
<1>4. \A n \in Inserted : n # m => Status(n)' = Status(n)
  BY <1>2 DEF Status
<1>5. Status(m) = "held" /\ Status(m)' = "open"
  BY <1>0, <1>3 DEF Status
<1>6. Reader!Change(m, {"held"}, "open")
  BY <1>0, <1>1, <1>2, <1>4, <1>5, Changes
<1> QED
  BY <1>0, <1>1, <1>6, Words DEF Reader!Next, Reader!Resume, Messaging

\* A row that another account must decide on, or whose chunk has no receipt, is
\* held, unless it was dropped before.
LEMMA HoldStep ==
    ASSUME Inductive, Next, NEW m \in Inserted, outbox[m].state = "pending",
           outbox' = [outbox EXCEPT ![m].state = "needs_review"],
           UNCHANGED <<queued, accepted, rebound>>
    PROVE  Reader!Next
<1>0. TypeOK /\ m \in Messages /\ outbox[m] \in Rows
  BY DEF Inductive, TypeOK, Inserted, Messages
<1>2. \A n \in Inserted : /\ outbox'[n].stream = outbox[n].stream
                          /\ outbox'[n].size = outbox[n].size
                          /\ n # m => outbox'[n] = outbox[n]
  BY <1>0 DEF TypeOK, Rows, Messages, Inserted
<1>3. outbox'[m].state = "needs_review" /\ outbox'[m].obsolete = outbox[m].obsolete
  BY <1>0 DEF TypeOK, Rows
<1>4. \A n \in Inserted : n # m => Status(n)' = Status(n)
  BY <1>2 DEF Status
<1>5. CASE ~outbox[m].obsolete
  <2>1. Status(m) = "open" /\ Status(m)' = "held"
    BY <1>3, <1>5 DEF Status
  <2>2. Reader!Change(m, {"open"}, "held")
    BY <1>2, <1>4, <2>1, Changes
  <2> QED
    BY <1>0, <2>2, Words DEF Reader!Next, Reader!Hold, Messaging
<1>6. CASE outbox[m].obsolete
  <2>1. Status(m)' = Status(m)
    BY <1>3, <1>6 DEF Status
  <2> QED
    BY <1>0, <1>2, <1>4, <2>1, Unseen, Fades
<1> QED
  BY <1>5, <1>6

\* The receipt of the last chunk makes the row delivered; an earlier one changes
\* nothing that the reader sees.
LEMMA DeliverStep ==
    ASSUME Inductive, Next, NEW w \in Workers, Record(w)
    PROVE  Reader!Next
<1>a. PICK m : m = worker[w].msg
  OBVIOUS
<1>0. /\ TypeOK /\ m \in Inserted /\ m \in Messages /\ outbox[m] \in Rows
      /\ outbox[m].state = "pending" /\ worker[w].sender \in Accounts
  BY <1>a DEF Inductive, Candidates, Holders, Record, At, Row, TypeOK, Inserted, Messages
<1>1. /\ outbox' = [outbox EXCEPT ![m].next = @ + 1,
                        ![m].state = IF outbox[m].next + 1 = outbox[m].size
                                     THEN "delivered" ELSE "pending"]
      /\ UNCHANGED <<queued, accepted, rebound>>
      /\ <<worker[w].sender, m, outbox[m].next + 1>> \in accepted
  BY <1>a DEF Record, Row, Request
<1>2. \A n \in Inserted : /\ outbox'[n].stream = outbox[n].stream
                          /\ outbox'[n].size = outbox[n].size
                          /\ n # m => outbox'[n] = outbox[n]
  BY <1>0, <1>1 DEF TypeOK, Rows, Messages, Inserted
<1>3. /\ outbox'[m].obsolete = outbox[m].obsolete
      /\ outbox'[m].state = IF outbox[m].next + 1 = outbox[m].size
                            THEN "delivered" ELSE "pending"
  BY <1>0, <1>1 DEF TypeOK, Rows
<1>4. \A n \in Inserted : n # m => Status(n)' = Status(n)
  BY <1>2 DEF Status
<1>5. CASE outbox[m].next + 1 = outbox[m].size
  <2>1. Status(m) \in {"open", "dropped"} /\ Status(m)' = "delivered"
    BY <1>0, <1>3, <1>5 DEF Status
  <2>2. Reader!Change(m, {"open", "dropped"}, "delivered")
    BY <1>0, <1>1, <1>2, <1>4, <2>1, Changes
  <2>3. ASSUME NEW c \in 1..outbox[m].size PROVE \E a \in Accounts : <<a, m, c>> \in accepted
    <3>1. c \in 1..outbox[m].next \/ c = outbox[m].next + 1
      BY <1>0, <1>5 DEF Rows
    <3> QED
      BY <1>0, <1>1, <3>1 DEF Inductive, Receipts
  <2>4. \A c \in 1..Messaging[m].size : Reader!Shown(m, c)
    BY <1>0, <2>3, Words DEF Reader!Shown
  <2>5. Reader!Deliver(m)
    BY <1>1, <2>2, <2>4 DEF Reader!Deliver, Messaging
  <2> QED
    BY <1>0, <2>5, Words DEF Reader!Next
<1>6. CASE outbox[m].next + 1 # outbox[m].size
  <2>1. Status(m)' = Status(m)
    BY <1>0, <1>3, <1>6 DEF Status
  <2> QED
    BY <1>0, <1>1, <1>2, <1>4, <2>1, Unseen, Fades
<1> QED
  BY <1>5, <1>6

\* A request that arrives shows the next chunk, or repeats one that is there; from
\* another account only where the row was handed over.
LEMMA ShowStep ==
    ASSUME Inductive, Next, NEW r \in net, Accept(r)
    PROVE  Reader!Next
<1> DEFINE a == r[1]
           m == r[2]
           c == r[3]
<1>0. /\ TypeOK /\ m \in Inserted /\ outbox[m] \in Rows /\ Unblocked(m)
      /\ a \in Accounts /\ c \in 1..MaxChunks /\ r = <<a, m, c>>
      /\ c <= outbox[m].next + 1 /\ c <= outbox[m].size
  BY DEF Inductive, TypeOK, Sent, Requests
<1>1. /\ accepted' = accepted \cup {<<a, m, c>>}
      /\ UNCHANGED <<queued, outbox, worker, rebound>>
  BY <1>0 DEF Accept
<1> HIDE DEF a, m, c
<1>2. Messaging' = Messaging
  BY <1>0, <1>1, Unseen DEF Status
<1>3. CASE <<a, m, c>> \in accepted
  BY <1>1, <1>2, <1>3, Fades
<1>4. CASE <<a, m, c>> \notin accepted
  <2>1. c <= Messaging[m].size
    BY <1>0, Words
  <2>2. \A d \in 1..(c - 1) : Reader!Shown(m, d)
    <3>1. \A d \in 1..(c - 1) : d \in 1..outbox[m].next
      BY <1>0 DEF Rows
    <3> QED
      BY <1>0, <3>1 DEF Inductive, Receipts, Reader!Shown
  <2>3. \A n \in Reader!Unsettled(Messaging[m].stream) : n >= m
    <3>1. ASSUME NEW n \in Inserted, outbox[n].stream = outbox[m].stream,
                 ~(outbox[n].state = "delivered" \/ outbox[n].obsolete)
          PROVE  n >= m
      <4>1. n \in Nat /\ m \in Nat
        BY <1>0 DEF TypeOK, Inserted
      <4>2. ~(n < m)
        BY <1>0, <3>1 DEF Unblocked
      <4> QED
        BY <4>1, <4>2
    <3> QED
      BY <1>0, <3>1, Words
  <2>4. ASSUME NEW b \in Accounts, NEW d \in 1..MaxChunks, <<b, m, d>> \in accepted,
               m \notin rebound
        PROVE  b = a
    <3>1. <<b, m, d>>[1] = b /\ <<b, m, d>>[2] = m
      OBVIOUS
    <3>2. outbox[m].sender = b
      BY <2>4, <3>1 DEF Inductive, Sent
    <3>3. outbox[m].sender = r[1]
      BY <2>4 DEF Inductive, Sent, m
    <3> QED
      BY <3>2, <3>3 DEF a
  <2>5. Underway' \subseteq Underway
    <3>1. Reader!Stops
      BY AlwaysStops
    <3> QED
      BY <1>2, <3>1 DEF Reader!Stops, Messaging
  <2>6. CASE InChat(m, c)
    <3>1. m \in rebound
      BY <1>0, <1>4, <2>4, <2>6 DEF InChat
    <3> QED
      BY <1>0, <1>1, <1>2, <1>4, <2>1, <2>2, <2>3, <2>5, <2>6, <3>1, Words
      DEF Reader!Next, Reader!Show, Reader!Shown, InChat, Messaging
  <2>7. CASE ~InChat(m, c)
    <3>1. c = outbox[m].next + 1
      <4>1. c \notin 1..outbox[m].next
        BY <1>0, <2>7 DEF Inductive, Receipts, InChat
      <4> QED
        BY <1>0, <4>1 DEF Rows
    <3>2. Status(m) # "delivered"
      BY <1>0, <3>1 DEF Inductive, Shapes, Status, Rows
    <3>3. Messaging[m].status = "open" \/ m \in Underway
      <4>1. <<a, m, outbox[m].next + 1>> \in net
        BY <1>0, <3>1
      <4> QED
        BY <1>0, <2>7, <3>1, <3>2, <4>1, Words DEF Underway, Status
    <3>4. InChat(m, outbox[m].next + 1)'
      BY <1>0, <1>1, <3>1 DEF InChat
    <3>5. m \notin Underway'
      BY <3>4 DEF Underway
    <3>6. ~Reader!Shown(m, c)
      BY <2>7 DEF Reader!Shown, InChat
    <3>7. m \notin rebound =>
             \A b \in Accounts \ {a}, d \in 1..MaxChunks : <<b, m, d>> \notin accepted
      BY <2>4
    <3>8. Reader!Show(a, m, c)
      BY <1>1, <1>2, <1>4, <2>1, <2>2, <2>3, <2>5, <3>3, <3>5, <3>6, <3>7
      DEF Reader!Show, Messaging
    <3> QED
      BY <1>0, <3>8, Words DEF Reader!Next
  <2> QED
    BY <2>6, <2>7
<1> QED
  BY <1>3, <1>4
\* A row is inserted; a final answer replaces what its stream still had to say.
LEMMA WriteStep ==
    ASSUME Inductive, Next, NEW s \in Streams, NEW size \in 1..MaxChunks,
           NEW status \in {"open", "held"}, NEW replaces \in BOOLEAN,
           NEW p, p = queued + 1,
           queued < MaxMessages, queued' = queued + 1, UNCHANGED <<accepted, rebound>>,
           outbox'[p].stream = s, outbox'[p].size = size, Status(p)' = status,
           \A n \in Inserted :
              outbox'[n] = IF replaces /\ outbox[n].stream = s
                           THEN [outbox[n] EXCEPT !.obsolete = TRUE] ELSE outbox[n]
    PROVE  Reader!Next
<1>0. /\ TypeOK /\ queued \in Nat /\ Inserted \subseteq Messages
      /\ \A n \in Inserted : outbox[n] \in Rows
  BY Words DEF Inductive, TypeOK
<1>1. /\ p \in Messages /\ p \notin Inserted
      /\ Inserted' = Inserted \cup {p} /\ Inserted = 1..queued
  BY <1>0 DEF Inserted, Messages
<1>3. ASSUME NEW n \in Messages
      PROVE  Promised(n)' =
               IF n = p THEN [stream |-> s, size |-> size, status |-> status]
               ELSE IF replaces /\ n \in Reader!Unsettled(s)
                    THEN [Messaging[n] EXCEPT !.status = "dropped"]
                    ELSE Messaging[n]
  <2>1. CASE n = p
    BY <1>1, <2>1 DEF Promised
  <2>2. CASE n # p /\ n \in Inserted
    <3>1. /\ Promised(n)' = [stream |-> outbox'[n].stream, size |-> outbox'[n].size,
                             status |-> Status(n)']
          /\ Messaging[n] = [stream |-> outbox[n].stream, size |-> outbox[n].size,
                             status |-> Status(n)]
      BY <1>1, <2>2 DEF Promised, Messaging
    <3>2. CASE replaces /\ outbox[n].stream = s
      <4>1. /\ outbox'[n].stream = outbox[n].stream /\ outbox'[n].size = outbox[n].size
            /\ outbox'[n].state = outbox[n].state /\ outbox'[n].obsolete
        BY <1>0, <2>2, <3>2 DEF Rows
      <4>2. Status(n)' = IF outbox[n].state = "delivered" THEN "delivered" ELSE "dropped"
        BY <4>1 DEF Status
      <4>3. n \in Reader!Unsettled(s) <=>
              ~(outbox[n].state = "delivered" \/ outbox[n].obsolete)
        BY <1>0, <2>2, <3>2, Words
      <4> QED
        BY <2>2, <3>1, <3>2, <4>1, <4>2, <4>3 DEF Status
    <3>3. CASE ~(replaces /\ outbox[n].stream = s)
      <4>1. outbox'[n] = outbox[n] /\ Status(n)' = Status(n)
        BY <2>2, <3>3 DEF Status
      <4>2. ~(replaces /\ n \in Reader!Unsettled(s))
        BY <1>0, <2>2, <3>3, Words
      <4> QED
        BY <2>2, <3>1, <4>1, <4>2
    <3> QED
      BY <3>2, <3>3
  <2>3. CASE n # p /\ n \notin Inserted
    <3>1. n \notin Inserted' /\ n \notin Reader!Unsettled(s)
      BY <1>0, <1>1, <2>3, Words
    <3> QED
      BY <2>3, <3>1 DEF Promised, Messaging
  <2> QED
    BY <2>1, <2>2, <2>3
<1>4. Messaging' = [n \in Messages |->
                      IF n = p THEN [stream |-> s, size |-> size, status |-> status]
                      ELSE IF replaces /\ n \in Reader!Unsettled(s)
                           THEN [Messaging[n] EXCEPT !.status = "dropped"]
                           ELSE Messaging[n]]
  BY <1>3 DEF Messaging
<1>5. Reader!Written = 1..(p - 1)
  BY <1>0, <1>1, Words
<1>6. Reader!Write(p, s, size, status, replaces)
  BY <1>4, <1>5, AlwaysStops DEF Reader!Write, Reader!Messages, Messages, Messaging
<1>7. p \in Reader!Messages \ Reader!Written
  BY <1>0, <1>1, Words DEF Reader!Messages, Messages
<1> QED
  BY <1>6, <1>7 DEF Reader!Next

\* The producers write to a stream.
LEMMA ProducerStep ==
    ASSUME Inductive, Next, NEW size \in 1..MaxChunks,
           \/ \E s \in PlanStreams : Notify(s, size)
           \/ \E s \in TurnStreams : \/ QueueApproval(s, size)
                                     \/ \E review \in BOOLEAN : QueueResult(s, size, review)
    PROVE  Reader!Next
<1>0. TypeOK /\ queued \in Nat /\ Inserted \subseteq Messages
  BY Words DEF Inductive, TypeOK
<1>1. ASSUME NEW row, NEW others, Insert(row, others)
      PROVE  /\ queued < MaxMessages /\ queued' = queued + 1
             /\ UNCHANGED <<accepted, rebound>>
             /\ outbox'[queued + 1] = row
             /\ \A n \in Inserted : outbox'[n] = others[n]
  BY <1>0, <1>1 DEF Insert, Messages, Inserted
<1>p. PICK p : p = queued + 1
  OBVIOUS
<1>2. ASSUME NEW s \in Streams, NEW kind, NEW sender,
             Insert([kind |-> kind, stream |-> s, size |-> size, state |-> "pending",
                     obsolete |-> FALSE, sender |-> sender, next |-> 0], outbox)
      PROVE  Reader!Next
  <2>1. /\ outbox'[p].stream = s /\ outbox'[p].size = size
        /\ outbox'[p].state = "pending" /\ ~outbox'[p].obsolete
    BY <1>1, <1>2, <1>p
  <2>2. Status(p)' = "open"
    BY <2>1 DEF Status
  <2>3. PICK replaces \in BOOLEAN : ~replaces
    OBVIOUS
  <2>4. \A n \in Inserted : outbox'[n] = IF replaces /\ outbox[n].stream = s
                                         THEN [outbox[n] EXCEPT !.obsolete = TRUE]
                                         ELSE outbox[n]
    BY <1>1, <1>2, <2>3
  <2>5. PICK status \in {"open", "held"} : Status(p)' = status
    BY <2>2
  <2>6. queued < MaxMessages /\ queued' = queued + 1 /\ UNCHANGED <<accepted, rebound>>
    BY <1>1, <1>2
  <2> QED
    BY <1>p, <2>1, <2>4, <2>5, <2>6, WriteStep
<1>3. ASSUME NEW s \in TurnStreams, NEW review \in BOOLEAN, QueueResult(s, size, review)
      PROVE  Reader!Next
  <2> DEFINE row == [kind |-> "result", stream |-> s, size |-> size,
                     state |-> IF review THEN "needs_review" ELSE "pending",
                     obsolete |-> FALSE, sender |-> Origin[s], next |-> 0]
             others == [m \in Messages |-> IF m \in Inserted /\ outbox[m].stream = s
                                           THEN [outbox[m] EXCEPT !.obsolete = TRUE]
                                           ELSE outbox[m]]
  <2>1. Insert(row, others)
    BY <1>3 DEF QueueResult
  <2>2. row.stream = s /\ row.size = size /\ ~row.obsolete
        /\ row.state = IF review THEN "needs_review" ELSE "pending"
    OBVIOUS
  <2>a. PICK replaces \in BOOLEAN : replaces
    OBVIOUS
  <2>3. \A n \in Inserted : others[n] = IF replaces /\ outbox[n].stream = s
                                        THEN [outbox[n] EXCEPT !.obsolete = TRUE]
                                        ELSE outbox[n]
    BY <1>0, <2>a
  <2> HIDE DEF row, others
  <2>4. PICK status \in {"open", "held"} : Status(p)' = status
    BY <1>1, <1>p, <2>1, <2>2 DEF Status
  <2>5. /\ queued < MaxMessages /\ queued' = queued + 1 /\ UNCHANGED <<accepted, rebound>>
        /\ outbox'[p].stream = s /\ outbox'[p].size = size /\ s \in Streams
    BY <1>1, <1>p, <2>1, <2>2 DEF Streams
  <2>6. \A n \in Inserted : outbox'[n] = IF replaces /\ outbox[n].stream = s
                                         THEN [outbox[n] EXCEPT !.obsolete = TRUE]
                                         ELSE outbox[n]
    BY <1>1, <2>1, <2>3
  <2> QED
    BY <1>p, <2>4, <2>5, <2>6, WriteStep
<1> QED
  BY <1>2, <1>3 DEF Notify, QueueApproval, Streams
\* A row that nobody writes, and a row that is bound to the account it is sent
\* from, look the same to the reader.
LEMMA QuietStep ==
    ASSUME Inductive, Next, UNCHANGED <<queued, accepted, rebound>>,
           \A n \in Inserted : /\ outbox'[n].stream = outbox[n].stream
                               /\ outbox'[n].size = outbox[n].size
                               /\ outbox'[n].state = outbox[n].state
                               /\ outbox'[n].obsolete = outbox[n].obsolete
    PROVE  Reader!Next
<1>1. \A n \in Inserted : Status(n)' = Status(n)
  BY DEF Status
<1> QED
  BY <1>1, Unseen, Fades DEF Inductive

LEMMA InitPromise == Init => Reader!Init
<1> SUFFICES ASSUME Init PROVE Reader!Init
  OBVIOUS
<1>1. Inserted = {} /\ accepted = {} /\ rebound = {}
  BY DEF Init, Inserted
<1>2. \A m \in Messages : Promised(m) = Reader!Unwritten
  BY <1>1 DEF Promised, Reader!Unwritten
<1>3. Underway = {}
  BY <1>1 DEF Underway
<1> QED
  BY <1>1, <1>2, <1>3 DEF Reader!Init, Reader!Messages, Messages

LEMMA NextPromise ==
    ASSUME Inductive, Next PROVE Reader!Next
<1>0. TypeOK /\ Inserted \subseteq Messages /\ \A n \in Inserted : outbox[n] \in Rows
  BY Words DEF Inductive, TypeOK
<1>1. ASSUME UNCHANGED <<queued, outbox, accepted, rebound>> PROVE Reader!Next
  BY <1>1, QuietStep
<1>2. CASE Outside
  <2>1. CASE \/ \E a \in Accounts \cup {NoAccount} : Connect(a)
             \/ \E r \in net : Lose(r)
    BY <1>1, <2>1 DEF Connect, Lose
  <2> QED
    BY <1>2, <2>1, ProducerStep, DropStep, ResumeStep, ShowStep DEF Outside
<1>3. ASSUME NEW w \in Workers, Drain(w) \/ Check(w) \/ Dispatch(w) \/ Fail(w) \/ Crash(w)
      PROVE  Reader!Next
  BY <1>1, <1>3 DEF Drain, Check, Dispatch, Fail, Crash
<1>4. ASSUME NEW w \in Workers, NEW m \in Messages, Take(w, m)
      PROVE  Reader!Next
  <2>1. /\ outbox' = [outbox EXCEPT ![m].sender = worker[w].sender]
        /\ UNCHANGED <<queued, accepted, rebound>>
    BY <1>4 DEF Take
  <2>2. \A n \in Inserted : /\ outbox'[n].stream = outbox[n].stream
                            /\ outbox'[n].size = outbox[n].size
                            /\ outbox'[n].state = outbox[n].state
                            /\ outbox'[n].obsolete = outbox[n].obsolete
    BY <1>0, <2>1 DEF TypeOK, Rows
  <2> QED
    BY <2>1, <2>2, QuietStep
<1>5. ASSUME NEW w \in Workers, NEW m \in Messages, SenderChanged(w, m)
      PROVE  Reader!Next
  <2>1. m \in Inserted
    BY <1>5 DEF SenderChanged, Inductive, Candidates
  <2>2. /\ outbox[m].state = "pending"
        /\ outbox' = [outbox EXCEPT ![m].state = "needs_review"]
        /\ UNCHANGED <<queued, accepted, rebound>>
    BY <1>5 DEF SenderChanged, Pending
  <2> QED
    BY <2>1, <2>2, HoldStep
<1>6. ASSUME NEW w \in Workers, NEW m \in Messages, Pass(w, m) PROVE Reader!Next
  BY <1>1, <1>6 DEF Pass
<1>7. ASSUME NEW w \in Workers, Duplicate(w) PROVE Reader!Next
  <2>1. PICK m : m = worker[w].msg
    OBVIOUS
  <2>2. m \in Inserted /\ outbox[m].state = "pending"
    BY <1>7, <2>1 DEF Duplicate, At, Inductive, Candidates, Holders, Row
  <2>3. /\ outbox' = [outbox EXCEPT ![m].state = "needs_review"]
        /\ UNCHANGED <<queued, accepted, rebound>>
    BY <1>7, <2>1 DEF Duplicate
  <2> QED
    BY <2>2, <2>3, HoldStep
<1> QED
  BY <1>2, <1>3, <1>4, <1>5, <1>6, <1>7, DeliverStep, NextSplit DEF Work

\* The outbox keeps its promise to the reader: whatever workers, crashes, late
\* requests, account changes and operators do (cron/delivery.py, delivery.py), the
\* chat moves by the steps of OutboxContract only.
THEOREM SpecKeepsPromise == Spec => KeepsPromise
<1>1. Init => Reader!Init
  BY InitPromise
<1>2. ASSUME Inductive, [Next]_vars
      PROVE  [Reader!Next]_(Reader!outboxVars)
  <2>1. CASE Next
    BY <1>2, <2>1, NextPromise
  <2>2. CASE UNCHANGED vars
    <3>1. Inserted' = Inserted /\ UNCHANGED <<outbox, net, accepted, worker, rebound>>
      BY <2>2 DEF vars, Inserted
    <3>2. \A m \in Messages : Promised(m)' = Promised(m)
      BY <3>1 DEF Promised, Status
    <3>3. Underway' = Underway
      BY <3>1 DEF Underway, Status, InChat
    <3> QED
      BY <3>1, <3>2, <3>3 DEF Reader!outboxVars
  <2> QED
    BY <1>2, <2>1, <2>2
<1>3. Inductive /\ [Next]_vars => [Reader!Next]_(Reader!outboxVars)
  BY <1>2
<1> QED
  BY <1>1, <1>3, SpecInductive, PTL DEF Spec, KeepsPromise, Reader!Spec, Reader!outboxVars
=============================================================================
