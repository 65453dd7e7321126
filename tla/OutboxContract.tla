--------------------------- MODULE OutboxContract ---------------------------
(***************************************************************************)
(* What the outbox promises to the reader of a chat, with no worker, lock, *)
(* request or receipt in sight.  Messages are written to streams and come  *)
(* in chunks; a chunk appears once, after the chunks before it and after   *)
(* every earlier message of its stream is settled.  A message that is held *)
(* back or dropped shows at most the one chunk that was under way by then. *)
(* Only a message that was handed to another account may repeat itself.    *)
(***************************************************************************)
EXTENDS Naturals

CONSTANTS Accounts, Streams, MaxMessages, MaxChunks

VARIABLES
    message,    \* stream, size and status of each message, in writing order
    chat,       \* <<account, message, chunk>>: what can be read
    underway,   \* messages held or dropped of which one more chunk may appear
    reassigned  \* messages an operator handed to another account

outboxVars == <<message, chat, underway, reassigned>>

Messages  == 1..MaxMessages
Unwritten == [stream |-> "none", size |-> 0, status |-> "unwritten"]
Written   == {m \in Messages : message[m].status # "unwritten"}
Settled(m)  == message[m].status \in {"delivered", "dropped"}
Shown(m, c) == \E a \in Accounts : <<a, m, c>> \in chat
Unsettled(s) == {m \in Written : message[m].stream = s /\ ~Settled(m)}

Init == /\ message = [m \in Messages |-> Unwritten]
        /\ chat = {} /\ underway = {} /\ reassigned = {}

\* A chunk may be under way when a message stops being open, at no other time.
Stops == underway' \subseteq underway \cup
            {m \in Messages : message[m].status = "open" /\ message'[m].status # "open"}

\* The next message of a stream joins those before it, or replaces them all.
Write(m, s, size, status, replaces) ==
    /\ Written = 1..(m - 1)
    /\ message' = [n \in Messages |->
                     IF n = m THEN [stream |-> s, size |-> size, status |-> status]
                     ELSE IF replaces /\ n \in Unsettled(s)
                          THEN [message[n] EXCEPT !.status = "dropped"]
                     ELSE message[n]]
    /\ Stops /\ UNCHANGED <<chat, reassigned>>

Change(m, from, to) ==
    /\ message[m].status \in from
    /\ message' = [message EXCEPT ![m].status = to]
    /\ UNCHANGED chat /\ Stops

Hold(m) == Change(m, {"open"}, "held") /\ UNCHANGED reassigned
Drop(m) == Change(m, {"open", "held"}, "dropped") /\ UNCHANGED reassigned

\* The operator lets a message go on, from the same account or from another.
Resume(m) == /\ Change(m, {"held"}, "open")
             /\ reassigned' \in {reassigned, reassigned \cup {m}}

\* Delivered says that all of it is in the chat.
Deliver(m) == /\ \A c \in 1..message[m].size : Shown(m, c)
              /\ Change(m, {"open", "dropped"}, "delivered") /\ UNCHANGED reassigned

\* The next chunk appears, once and from one account.
Show(a, m, c) ==
    /\ <<a, m, c>> \notin chat /\ c <= message[m].size
    /\ \A d \in 1..(c - 1) : Shown(m, d)
    /\ \A n \in Unsettled(message[m].stream) : n >= m
    /\ \/ ~Shown(m, c) /\ (message[m].status = "open" \/ m \in underway)
       \/ Shown(m, c) /\ m \in reassigned
    /\ m \notin reassigned => \A b \in Accounts \ {a}, d \in 1..MaxChunks :
                                 <<b, m, d>> \notin chat
    /\ chat' = chat \cup {<<a, m, c>>}
    /\ underway' \subseteq IF Shown(m, c) THEN underway ELSE underway \ {m}
    /\ UNCHANGED <<message, reassigned>>

\* What was under way is lost.
Fade == underway' \subseteq underway /\ UNCHANGED <<message, chat, reassigned>>

Next ==
    \/ \E m \in Messages \ Written, s \in Streams, size \in 1..MaxChunks,
          status \in {"open", "held"}, replaces \in BOOLEAN :
          Write(m, s, size, status, replaces)
    \/ \E m \in Written :
          \/ Hold(m) \/ Drop(m) \/ Resume(m) \/ Deliver(m)
          \/ \E a \in Accounts, c \in 1..MaxChunks : Show(a, m, c)
    \/ Fade

Spec == Init /\ [][Next]_outboxVars
=============================================================================
