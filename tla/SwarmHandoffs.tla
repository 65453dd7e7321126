--------------------------- MODULE SwarmHandoffs ---------------------------
(***************************************************************************)
(* Requests that one agent leaves for another in swarm.db: hand-offs,      *)
(* memory queries, and the watch over an owned topic that becomes a        *)
(* hand-off when its owner does not answer in time.                        *)
(*                                                                         *)
(* The watch is over the message of SwarmClaims, whose rows decide whether *)
(* it counts as answered.  Every agent polls the due watches; one agent,   *)
(* the one that covers the owner, takes the requests.  Its intakes are two *)
(* polls that overlap (the scheduler of a restarted process, say).         *)
(***************************************************************************)
EXTENDS SwarmClaims, Sequences

CONSTANTS Pollers,     \* the processes that poll the due watches
          Intakes,     \* the polls that take requests for the covering agent
          Covered,     \* TRUE when the owner's profile names an escalation target
          MaxRequests, \* bound on the requests
          MaxDeaths    \* bound on the crashes of pollers and intakes

ASSUME HandoffsAssumption ==
    /\ IsFiniteSet(Pollers) /\ Covered \in BOOLEAN
    /\ MaxRequests \in Nat /\ MaxDeaths \in Nat

VARIABLES
    watch,    \* sla_watch: the row of the message, and whether it is due
    poller,   \* the step of each poll over the due watches
    requests, \* handoffs and memory_requests, in order of creation
    intake,   \* the request each intake holds, and its step
    deaths    \* crashes so far

handoffVars == <<watch, poller, requests, intake, deaths>>

WatchStates == {"none", "waiting", "escalated", "answered", "dropped"}
Verdicts == {"escalated", "answered", "dropped"}
PollSteps == {"idle", "read", "handing"} \cup Verdicts
Idle == [step |-> "idle", id |-> 0]

\* runs and shown are history: how often the request was given to the agent,
\* and how often its answer reached the chat.
Request == [kind: {"handoff", "memory"}, sla: BOOLEAN,
            state: {"pending", "accepted", "done", "failed"},
            runs: Nat, shown: Nat]

HandoffsTypeOK ==
    /\ watch \in [state: WatchStates, due: BOOLEAN]
    /\ poller \in [Pollers -> PollSteps]
    /\ requests \in Seq(Request)
    /\ intake \in [Intakes -> [step: {"idle", "running", "delivered", "undelivered"},
                               id: 0..MaxRequests]]
    /\ deaths \in 0..MaxDeaths

InitHandoffs ==
    /\ watch = [state |-> "none", due |-> FALSE]
    /\ poller = [p \in Pollers |-> "idle"]
    /\ requests = <<>>
    /\ intake = [i \in Intakes |-> Idle]
    /\ deaths = 0

-----------------------------------------------------------------------------
\* The watch over the message.

\* watch_sla: whichever agent recognises the topic first inserts the row, and
\* the others' INSERT OR IGNORE changes nothing.
WatchSla ==
    /\ watch.state = "none"
    /\ watch' = [watch EXCEPT !.state = "waiting"]
    /\ UNCHANGED <<poller, requests, intake, deaths>>

DeadlinePasses ==
    /\ watch.state = "waiting" /\ ~watch.due
    /\ watch' = [watch EXCEPT !.due = TRUE]
    /\ UNCHANGED <<poller, requests, intake, deaths>>

\* due_sla_watches: the poll works from this read.
Poll(p) ==
    /\ poller[p] = "idle"
    /\ watch.state = "waiting" /\ watch.due
    /\ poller' = [poller EXCEPT ![p] = "read"]
    /\ UNCHANGED <<watch, requests, intake, deaths>>

\* count_sent_replies: a reply is a row in state sent, of whatever tier.
Replied == \E h \in Handlers : claim[h].state = "sent"

Judge(p) ==
    /\ poller[p] = "read"
    /\ poller' = [poller EXCEPT ![p] = IF Replied THEN "answered"
                                       ELSE IF Covered THEN "escalated" ELSE "dropped"]
    /\ UNCHANGED <<watch, requests, intake, deaths>>

\* Mutation: the verdict is written whatever the row says by now.
WaitingAlways == TRUE

\* resolve_sla_watch: only the poll whose UPDATE finds the row waiting goes on
\* to create the hand-off.
StillWaiting == watch.state = "waiting"

Resolve(p) ==
    /\ poller[p] \in Verdicts
    /\ watch' = IF StillWaiting THEN [watch EXCEPT !.state = poller[p]] ELSE watch
    /\ poller' = [poller EXCEPT ![p] = IF StillWaiting /\ poller[p] = "escalated"
                                       THEN "handing" ELSE "idle"]
    /\ UNCHANGED <<requests, intake, deaths>>

\* create_handoff, in a transaction of its own.
NewRequest(kind, sla) ==
    [kind |-> kind, sla |-> sla, state |-> "pending", runs |-> 0, shown |-> 0]

HandOver(p) ==
    /\ poller[p] = "handing"
    /\ Len(requests) < MaxRequests
    /\ requests' = Append(requests, NewRequest("handoff", TRUE))
    /\ poller' = [poller EXCEPT ![p] = "idle"]
    /\ UNCHANGED <<watch, intake, deaths>>

PollerDies(p) ==
    /\ poller[p] # "idle" /\ deaths < MaxDeaths
    /\ deaths' = deaths + 1
    /\ poller' = [poller EXCEPT ![p] = "idle"]
    /\ UNCHANGED <<watch, requests, intake>>

-----------------------------------------------------------------------------
\* Requests and their intake.

\* The hand_off and ask_memory tools.
Ask(kind) ==
    /\ Len(requests) < MaxRequests
    /\ requests' = Append(requests, NewRequest(kind, FALSE))
    /\ UNCHANGED <<watch, poller, intake, deaths>>

\* Mutation: a request that somebody works on is offered again.
PendingOrAccepted(r) == requests[r].state \in {"pending", "accepted"}

\* accept_next_handoff marks the oldest pending row accepted; a memory query is
\* marked done at once.
Pending(r) == requests[r].state = "pending"

Accept(i) ==
    /\ intake[i] = Idle
    /\ \E r \in DOMAIN requests :
         /\ Pending(r)
         /\ \A q \in 1..(r - 1) : requests[q].kind = requests[r].kind => ~Pending(q)
         /\ requests' = [requests EXCEPT
              ![r].state = IF requests[r].kind = "memory" THEN "done" ELSE "accepted",
              ![r].runs = requests[r].runs + 1]
         /\ intake' = [intake EXCEPT ![i] = [step |-> "running", id |-> r]]
    /\ UNCHANGED <<watch, poller, deaths>>

\* The agent answers and the webhook takes the answer; or the agent raises, has
\* nothing to say, the webhook refuses, or it answers too late and may have posted.
Deliver(i) ==
    /\ intake[i].step = "running"
    /\ requests' = [requests EXCEPT ![intake[i].id].shown = requests[intake[i].id].shown + 1]
    /\ intake' = [intake EXCEPT ![i].step = "delivered"]
    /\ UNCHANGED <<watch, poller, deaths>>

RunFails(i) ==
    /\ intake[i].step = "running"
    /\ \E posted \in {0, 1} :
          requests' = [requests EXCEPT ![intake[i].id].shown = requests[intake[i].id].shown + posted]
    /\ intake' = [intake EXCEPT ![i].step = "undelivered"]
    /\ UNCHANGED <<watch, poller, deaths>>

\* complete_handoff writes the outcome; complete_memory_request is called only
\* for a failure.
Outcome(i) == IF intake[i].step = "delivered" THEN "done" ELSE "failed"

Complete(i) ==
    /\ intake[i].step \in {"delivered", "undelivered"}
    /\ requests' = [requests EXCEPT ![intake[i].id].state = Outcome(i)]
    /\ intake' = [intake EXCEPT ![i] = Idle]
    /\ UNCHANGED <<watch, poller, deaths>>

\* A crash leaves the row as accepted, or as done.
IntakeDies(i) ==
    /\ intake[i] # Idle /\ deaths < MaxDeaths
    /\ deaths' = deaths + 1
    /\ intake' = [intake EXCEPT ![i] = Idle]
    /\ UNCHANGED <<watch, poller, requests>>

HandoffStep ==
    \/ WatchSla \/ DeadlinePasses
    \/ \E p \in Pollers : Poll(p) \/ Judge(p) \/ Resolve(p) \/ HandOver(p) \/ PollerDies(p)
    \/ \E kind \in {"handoff", "memory"} : Ask(kind)
    \/ \E i \in Intakes : Accept(i) \/ Deliver(i) \/ RunFails(i) \/ Complete(i) \/ IntakeDies(i)

NextHandoffs ==
    \/ HandoffStep /\ UNCHANGED claimVars
    \/ NextClaims /\ UNCHANGED handoffVars

SpecHandoffs ==
    InitClaims /\ InitHandoffs /\ [][NextHandoffs]_<<claimVars, handoffVars>>

-----------------------------------------------------------------------------

\* However many polls overlap or die, a request is given to the agent once, and
\* a hand-off that reads done was shown in the chat.
TakenOnce ==
    \A r \in DOMAIN requests :
        /\ requests[r].runs <= 1 /\ requests[r].shown <= 1
        /\ requests[r].kind = "handoff" /\ requests[r].state = "done"
           => requests[r].shown = 1

\* All agents poll the same overdue watch, and one hand-off comes of it; none
\* is created for a watch that was resolved as answered or dropped.
EscalatedOnce ==
    LET made == {r \in DOMAIN requests : requests[r].sla}
        making == {p \in Pollers : poller[p] = "handing"}
    IN /\ Cardinality(made) + Cardinality(making) <= 1
       /\ made \cup making # {} => watch.state = "escalated"

\* The module escalation.py says a message with no answer by the deadline is
\* handed over: a watch is closed as answered only if an answer is in the chat.
AnsweredIsInTheChat == watch.state = "answered" => chat # {}
============================================================================
