------------------------------ MODULE Delivery ------------------------------
(***************************************************************************)
(* The transactional outbox (kronos/delivery.py) with its producers        *)
(* (kronos/turn_delivery.py, kronos/plans.py), the workers that drain it   *)
(* (kronos/cron/delivery.py), the operator who repairs it, and the         *)
(* messaging server behind kronos/telegram_delivery.py.                    *)
(*                                                                         *)
(* A message is its row number; its text is its number of chunks.  The     *)
(* random_id of a chunk is drawn when the row is inserted and kept with    *)
(* it, so a request is the sending account, the row and the chunk, and the *)
(* server takes a request it has seen before for the same message.         *)
(* Back-off delays are left out: a due time may always have come.          *)
(***************************************************************************)
EXTENDS Naturals

CONSTANTS
    Workers,       \* drainers: tasks and processes that share the database
    Accounts,      \* authenticated messaging accounts
    TurnStreams,   \* one stream for each recovered turn
    PlanStreams,   \* one stream for each plan
    Origin,        \* the account each turn was received by
    MaxMessages,   \* bound: rows ever inserted
    MaxChunks,     \* bound: chunks of one message
    ChunksPerJob,  \* chunks sent before a worker lets a row go
    NoOne, NoAccount

ASSUME DeliveryConstants ==
    /\ MaxMessages \in Nat /\ MaxChunks \in Nat /\ ChunksPerJob \in Nat \ {0}
    /\ TurnStreams \cap PlanStreams = {}
    /\ Origin \in [TurnStreams -> Accounts]
    /\ NoOne \notin Workers /\ NoAccount \notin Accounts

VARIABLES
    queued,     \* rows inserted so far
    outbox,     \* delivery_outbox, by row number
    lock,       \* the kernel lock of each row
    worker,     \* the memory of each worker
    account,    \* the account the transport is connected as
    net,        \* requests on their way to the server
    accepted,   \* requests the server has accepted: the chunk is in the chat
    rebound     \* history: rows an operator let another account take over

vars == <<queued, outbox, lock, worker, account, net, accepted, rebound>>

-----------------------------------------------------------------------------
Messages == 1..MaxMessages
Streams  == TurnStreams \cup PlanStreams
Requests == Accounts \X Messages \X (1..MaxChunks)

NoRow == [kind |-> "none", stream |-> NoOne, size |-> 0, state |-> "pending",
          obsolete |-> FALSE, sender |-> NoAccount, next |-> 0]
Resting == [pc |-> "pick", todo |-> {}, sender |-> NoAccount, msg |-> 0,
            left |-> 0, again |-> FALSE]

Inserted == 1..queued
Pending(m) == outbox[m].state = "pending" /\ ~outbox[m].obsolete
\* Mutation: a row that waits for an operator does not hold up its stream.
UnblockedByReview(m) == \A n \in Inserted :
                           n < m /\ outbox[n].stream = outbox[m].stream
                              => outbox[n].state # "pending" \/ outbox[n].obsolete

\* Every earlier row of the stream is delivered or obsolete.
Unblocked(m) == \A n \in Inserted :
                   n < m /\ outbox[n].stream = outbox[m].stream
                      => outbox[n].state = "delivered" \/ outbox[n].obsolete
Free(m) == lock[m] = NoOne

At(w, pc)  == worker[w].pc = pc
Row(w)     == outbox[worker[w].msg]
Request(w) == <<worker[w].sender, worker[w].msg, Row(w).next + 1>>

Init ==
    /\ queued = 0
    /\ outbox = [m \in Messages |-> NoRow]
    /\ lock = [m \in Messages |-> NoOne]
    /\ worker = [w \in Workers |-> Resting]
    /\ account = NoAccount
    /\ net = {} /\ accepted = {} /\ rebound = {}

-----------------------------------------------------------------------------
(* Producers insert rows in the transaction that creates the duty.          *)

Insert(row, others) ==
    /\ queued < MaxMessages
    /\ queued' = queued + 1
    /\ outbox' = [m \in Messages |-> IF m = queued + 1 THEN row ELSE others[m]]
    /\ UNCHANGED <<lock, worker, account, net, accepted, rebound>>

\* A step result or a summary of a plan; no account is bound yet.
Notify(s, size) ==
    Insert([kind |-> "progress", stream |-> s, size |-> size, state |-> "pending",
            obsolete |-> FALSE, sender |-> NoAccount, next |-> 0], outbox)

Ended(s) == \E m \in Inserted : outbox[m].stream = s /\ outbox[m].kind = "result"

\* A recovered turn waits for an approval.
QueueApproval(s, size) ==
    /\ ~Ended(s)
    /\ Insert([kind |-> "approval", stream |-> s, size |-> size, state |-> "pending",
               obsolete |-> FALSE, sender |-> Origin[s], next |-> 0], outbox)

\* Its final answer makes the notices before it obsolete; policy may hold it.
QueueResult(s, size, review) ==
    /\ ~Ended(s)
    /\ Insert([kind |-> "result", stream |-> s, size |-> size,
               state |-> IF review THEN "needs_review" ELSE "pending",
               obsolete |-> FALSE, sender |-> Origin[s], next |-> 0],
              [m \in Messages |-> IF m \in Inserted /\ outbox[m].stream = s
                                  THEN [outbox[m] EXCEPT !.obsolete = TRUE]
                                  ELSE outbox[m]])

\* The approval was decided or expired.
SuppressApproval(m) ==
    /\ m \in Inserted /\ outbox[m].kind = "approval"
    /\ outbox' = [outbox EXCEPT ![m].obsolete = TRUE]
    /\ UNCHANGED <<queued, lock, worker, account, net, accepted, rebound>>

-----------------------------------------------------------------------------
(* A worker reads the heads of the streams, then takes them one by one.     *)

Drain(w) ==
    LET heads == {m \in Inserted : Pending(m) /\ Unblocked(m)} IN
    /\ At(w, "pick") /\ worker[w].todo = {}
    /\ account # NoAccount /\ heads # {}
    /\ worker' = [worker EXCEPT ![w].todo = heads, ![w].sender = account]
    /\ UNCHANGED <<queued, outbox, lock, account, net, accepted, rebound>>

\* The row is let go: the lock is released and the next candidate is due.
LetGo(w) ==
    /\ lock' = [lock EXCEPT ![worker[w].msg] = NoOne]
    /\ worker' = [worker EXCEPT ![w].pc = "pick", ![w].msg = 0,
                                ![w].todo = @ \ {worker[w].msg}]

\* Mutation: a row is sent by whichever account is connected.
AnySender(w, m) == TRUE

\* The account that may send a row: the one it is bound to, or the first.
MaySend(w, m) == outbox[m].sender \in {NoAccount, worker[w].sender}

\* Under the row's lock it is read again, and bound to the sending account.
Take(w, m) ==
    /\ At(w, "pick") /\ m \in worker[w].todo
    /\ Free(m) /\ Pending(m) /\ MaySend(w, m)
    /\ lock' = [lock EXCEPT ![m] = w]
    /\ outbox' = [outbox EXCEPT ![m].sender = worker[w].sender]
    /\ worker' = [worker EXCEPT ![w].pc = "check", ![w].msg = m,
                                ![w].left = ChunksPerJob]
    /\ UNCHANGED <<queued, account, net, accepted, rebound>>

\* Another account is bound: only an operator may decide.
SenderChanged(w, m) ==
    /\ At(w, "pick") /\ m \in worker[w].todo
    /\ Free(m) /\ Pending(m) /\ ~MaySend(w, m)
    /\ outbox' = [outbox EXCEPT ![m].state = "needs_review"]
    /\ worker' = [worker EXCEPT ![w].todo = @ \ {m}]
    /\ UNCHANGED <<queued, lock, account, net, accepted, rebound>>

\* A busy row, or one that is no longer pending, is passed over.
Pass(w, m) ==
    /\ At(w, "pick") /\ m \in worker[w].todo
    /\ ~Free(m) \/ ~Pending(m)
    /\ worker' = [worker EXCEPT ![w].todo = @ \ {m}]
    /\ UNCHANGED <<queued, outbox, lock, account, net, accepted, rebound>>

\* Mutation: the row is not read again once it was taken.
CheckOnce(w) ==
    /\ At(w, "check")
    /\ worker' = [worker EXCEPT ![w].pc = "send"]
    /\ UNCHANGED <<queued, outbox, lock, account, net, accepted, rebound>>

\* Before each chunk the row is read once more.
Check(w) ==
    /\ At(w, "check")
    /\ IF Row(w).obsolete
       THEN LetGo(w)
       ELSE worker' = [worker EXCEPT ![w].pc = "send"] /\ UNCHANGED lock
    /\ UNCHANGED <<queued, outbox, account, net, accepted, rebound>>

Dispatch(w) ==
    /\ At(w, "send")
    /\ account = worker[w].sender
    /\ net' = net \cup {Request(w)}
    /\ worker' = [worker EXCEPT ![w].pc = "await",
                                ![w].again = Request(w) \in net \cup accepted]
    /\ UNCHANGED <<queued, outbox, lock, account, accepted, rebound>>

\* Mutation: a send that timed out counts as one that was answered.
RecordUnseen(w) ==
    LET m    == worker[w].msg
        last == Row(w).next + 1 = Row(w).size
    IN
    /\ At(w, "await")
    /\ outbox' = [outbox EXCEPT ![m].next = @ + 1,
                                ![m].state = IF last THEN "delivered" ELSE "pending"]
    /\ LetGo(w)
    /\ UNCHANGED <<queued, account, net, accepted, rebound>>

\* Mutation: the row stays pending after its last chunk.
RecordStaysPending(w) ==
    /\ At(w, "await")
    /\ Request(w) \in accepted
    /\ outbox' = [outbox EXCEPT ![worker[w].msg].next = @ + 1]
    /\ LetGo(w)
    /\ UNCHANGED <<queued, account, net, accepted, rebound>>

\* The server's receipt is stored; the worker goes on to the next chunk.
Record(w) ==
    LET m    == worker[w].msg
        last == Row(w).next + 1 = Row(w).size
    IN
    /\ At(w, "await")
    /\ Request(w) \in accepted
    /\ outbox' = [outbox EXCEPT ![m].next = @ + 1,
                                ![m].state = IF last THEN "delivered" ELSE "pending"]
    /\ IF last \/ worker[w].left = 1
       THEN LetGo(w)
       ELSE /\ worker' = [worker EXCEPT ![w].pc = "check", ![w].left = @ - 1]
            /\ UNCHANGED lock
    /\ UNCHANGED <<queued, account, net, accepted, rebound>>

\* The server knows the random_id but answers without a receipt.
Duplicate(w) ==
    /\ At(w, "await")
    /\ worker[w].again /\ Request(w) \in accepted
    /\ outbox' = [outbox EXCEPT ![worker[w].msg].state = "needs_review"]
    /\ LetGo(w)
    /\ UNCHANGED <<queued, account, net, accepted, rebound>>

\* A timeout, a flood wait, a lost connection, a failed write: the row stays
\* pending and its chunk keeps its identity.
Fail(w) ==
    /\ worker[w].pc \in {"check", "send", "await"}
    /\ LetGo(w)
    /\ UNCHANGED <<queued, outbox, account, net, accepted, rebound>>

\* Mutation: the lock is a row of the database, which outlives its holder.
CrashKeepsLock(w) ==
    /\ worker[w] # Resting
    /\ worker' = [worker EXCEPT ![w] = Resting]
    /\ UNCHANGED <<queued, outbox, lock, account, net, accepted, rebound>>

\* The worker is cancelled or killed.
Crash(w) ==
    /\ worker[w] # Resting
    /\ worker' = [worker EXCEPT ![w] = Resting]
    /\ lock' = [m \in Messages |-> IF lock[m] = w THEN NoOne ELSE lock[m]]
    /\ UNCHANGED <<queued, outbox, account, net, accepted, rebound>>

-----------------------------------------------------------------------------
(* The operator, the connection and the server.                             *)

\* Mutation: the operator decides underneath a worker that is mid-flight.
ReviewableAnytime(m) == /\ m \in Inserted /\ ~outbox[m].obsolete
                        /\ outbox[m].state \in {"pending", "needs_review"}

Reviewable(m) == /\ m \in Inserted /\ ~outbox[m].obsolete /\ Free(m)
                 /\ outbox[m].state = "needs_review"

\* retry, with the bound account or with whichever is connected next.
Retry(m, rebind) ==
    /\ Reviewable(m)
    /\ outbox' = [outbox EXCEPT ![m].state = "pending",
                                ![m].sender = IF rebind THEN NoAccount ELSE @]
    /\ rebound' = IF rebind THEN rebound \cup {m} ELSE rebound
    /\ UNCHANGED <<queued, lock, worker, account, net, accepted>>

Abandon(m) ==
    /\ Reviewable(m)
    /\ outbox' = [outbox EXCEPT ![m].obsolete = TRUE]
    /\ UNCHANGED <<queued, lock, worker, account, net, accepted, rebound>>

\* The transport connects, drops, or is authenticated as another account.
Connect(a) ==
    /\ account # a /\ account' = a
    /\ UNCHANGED <<queued, outbox, lock, worker, net, accepted, rebound>>

\* A request arrives, however late; one seen before changes nothing.
Accept(r) ==
    /\ r \in net
    /\ net' = net \ {r} /\ accepted' = accepted \cup {r}
    /\ UNCHANGED <<queued, outbox, lock, worker, account, rebound>>

Lose(r) ==
    /\ r \in net
    /\ net' = net \ {r}
    /\ UNCHANGED <<queued, outbox, lock, worker, account, accepted, rebound>>

-----------------------------------------------------------------------------
Work(w) ==
    \/ Drain(w)
    \/ \E m \in Messages : Take(w, m) \/ SenderChanged(w, m) \/ Pass(w, m)
    \/ Check(w) \/ Dispatch(w) \/ Record(w) \/ Duplicate(w)

Next ==
    \/ \E w \in Workers : Work(w) \/ Fail(w) \/ Crash(w)
    \/ \E size \in 1..MaxChunks :
          \/ \E s \in PlanStreams : Notify(s, size)
          \/ \E s \in TurnStreams :
                \/ QueueApproval(s, size)
                \/ \E review \in BOOLEAN : QueueResult(s, size, review)
    \/ \E m \in Messages :
          \/ SuppressApproval(m) \/ Abandon(m)
          \/ \E rebind \in BOOLEAN : Retry(m, rebind)
    \/ \E a \in Accounts \cup {NoAccount} : Connect(a)
    \/ \E r \in net : Accept(r) \/ Lose(r)

Spec == Init /\ [][Next]_vars

\* Workers keep running, every send ends by its timeout (Fail), and no step is
\* cut short by a crash, a failure or a busy row every single time.  Of the
\* transport it is assumed that it stays connected from some time on, and that
\* a request which is repeated for ever arrives in the end.
FairSpec == /\ Spec
            /\ \A w \in Workers :
                  /\ WF_vars(Work(w) \/ Fail(w))
                  /\ SF_vars(Drain(w)) /\ SF_vars(Check(w))
                  /\ SF_vars(Dispatch(w)) /\ SF_vars(Record(w))
                  /\ \A m \in Messages : SF_vars(Take(w, m))
            /\ \A r \in Requests : SF_vars(Accept(r))
            /\ <>[](account # NoAccount)

-----------------------------------------------------------------------------
(* Properties.                                                              *)

Rows == [kind : {"none", "progress", "approval", "result"},
         stream : Streams \cup {NoOne}, size : 0..MaxChunks,
         state : {"pending", "delivered", "needs_review"}, obsolete : BOOLEAN,
         sender : Accounts \cup {NoAccount}, next : 0..MaxChunks]
Memories == [pc : {"pick", "check", "send", "await"}, todo : SUBSET Messages,
             sender : Accounts \cup {NoAccount}, msg : 0..MaxMessages,
             left : 0..ChunksPerJob, again : BOOLEAN]

TypeOK ==
    /\ queued \in 0..MaxMessages
    /\ outbox \in [Messages -> Rows]
    /\ lock \in [Messages -> Workers \cup {NoOne}]
    /\ worker \in [Workers -> Memories]
    /\ account \in Accounts \cup {NoAccount}
    /\ net \subseteq Requests /\ accepted \subseteq Requests
    /\ rebound \subseteq Messages

\* No chunk appears twice in the chat: lost answers, late arrivals, crashes,
\* several workers and a change of account repeat the request, never the message,
\* until an operator lets another account take the row over.
ShownOnce ==
    \A r, q \in accepted :
        r[2] = q[2] /\ r[3] = q[3] /\ r[2] \notin rebound => r[1] = q[1]

\* A stream is read in the order it was written, and a message from its first
\* chunk on: nothing is shown before what precedes it is delivered or obsolete.
StreamInOrder ==
    \A r \in accepted :
        /\ r[3] > 1 => \E a \in Accounts : <<a, r[2], r[3] - 1>> \in accepted
        /\ \A n \in Inserted :
              n < r[2] /\ outbox[n].stream = outbox[r[2]].stream
                 => outbox[n].state = "delivered" \/ outbox[n].obsolete

\* No acknowledgement is invented: what a row counts as sent is in the chat, and
\* a row is delivered exactly when all its chunks are.
NoFalseReceipt ==
    \A m \in Inserted :
        /\ \A c \in 1..outbox[m].next : \E a \in Accounts : <<a, m, c>> \in accepted
        /\ outbox[m].state = "delivered" <=> outbox[m].next = outbox[m].size

\* A request leaves only for the next unacknowledged chunk of a row that is
\* pending at the head of its stream, from the account the row is bound to: no
\* operator, producer or second worker changes this under a send.
SendsAreCurrent ==
    [][\A r \in net' \ net :
          LET row == outbox[r[2]]
          IN  /\ row.state = "pending" /\ row.sender = r[1] /\ row.next + 1 = r[3]
              /\ Unblocked(r[2])]_vars

\* What is settled stays settled: receipts are never taken back, a delivered or
\* obsolete row stays so, and a bound account changes only by rebinding.
SettledStays ==
    [][\A m \in Inserted :
          /\ outbox'[m].next >= outbox[m].next
          /\ outbox[m].state = "delivered" => outbox'[m].state = "delivered"
          /\ outbox[m].obsolete => outbox'[m].obsolete
          /\ outbox[m].sender \in {NoAccount, outbox'[m].sender} \/ m \in rebound']_vars

\* The outbox keeps the promise of OutboxContract, which speaks of the chat alone:
\* what is accepted is what is read; a row is open, held for an operator, dropped
\* (obsolete) or delivered; and one more chunk of a row that is held or dropped may
\* appear if its request was sent, or its worker past the last look at the row.
Status(m) == IF outbox[m].state = "delivered" THEN "delivered"
             ELSE IF outbox[m].obsolete THEN "dropped"
             ELSE IF outbox[m].state = "needs_review" THEN "held" ELSE "open"

InChat(m, c) == \E a \in Accounts : <<a, m, c>> \in accepted

Underway == {m \in Inserted :
                /\ Status(m) \in {"held", "dropped"} /\ ~InChat(m, outbox[m].next + 1)
                /\ \/ \E a \in Accounts : <<a, m, outbox[m].next + 1>> \in net
                   \/ \E w \in Workers : worker[w].pc \in {"send", "await"}
                                        /\ worker[w].msg = m}

Promised(m) == IF m \in Inserted
               THEN [stream |-> outbox[m].stream, size |-> outbox[m].size,
                     status |-> Status(m)]
               ELSE [stream |-> "none", size |-> 0, status |-> "unwritten"]

Reader == INSTANCE OutboxContract WITH
             message <- [m \in Messages |-> Promised(m)], chat <- accepted,
             underway <- Underway, reassigned <- rebound
KeepsPromise == Reader!Spec

\* The head of a stream does not wait for ever: it is delivered, held for an
\* operator, or made obsolete.
HeadIsSettled ==
    \A m \in Messages :
        m \in Inserted /\ Pending(m) /\ Unblocked(m) ~> ~Pending(m)
-----------------------------------------------------------------------------
(* The inductive invariant: what the safety properties above rest on.       *)

\* A row is delivered exactly when its last chunk is acknowledged.
Shapes ==
    \A m \in Inserted :
        /\ outbox[m].size > 0 /\ outbox[m].next <= outbox[m].size
        /\ outbox[m].state = "delivered" <=> outbox[m].next = outbox[m].size

\* What a worker picked as the head of a stream still is one.
Candidates ==
    \A w \in Workers : \A m \in worker[w].todo :
        m \in Inserted /\ Unblocked(m) /\ worker[w].sender \in Accounts

\* Between taking a row and letting it go a worker holds its lock, and the row
\* stays pending and bound to the account the worker sends from.
Holders ==
    \A w \in Workers : ~At(w, "pick") =>
        /\ worker[w].msg \in worker[w].todo
        /\ lock[worker[w].msg] = w
        /\ Row(w).state = "pending"
        /\ Row(w).sender = worker[w].sender
        /\ worker[w].left > 0

\* A request is for an acknowledged chunk or the next one, of a row that was at
\* the head of its stream, and comes from the account the row is bound to.
Sent ==
    \A r \in net \cup accepted :
        /\ r[2] \in Inserted /\ Unblocked(r[2])
        /\ r[3] <= outbox[r[2]].next + 1 /\ r[3] <= outbox[r[2]].size
        /\ r[2] \notin rebound => outbox[r[2]].sender = r[1]

\* Acknowledged chunks are in the chat.
Receipts ==
    \A m \in Inserted : \A c \in 1..outbox[m].next :
        \E a \in Accounts : <<a, m, c>> \in accepted

Inductive == TypeOK /\ Shapes /\ Candidates /\ Holders /\ Sent /\ Receipts
=============================================================================
