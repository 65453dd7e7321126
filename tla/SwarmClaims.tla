---------------------------- MODULE SwarmClaims ----------------------------
(***************************************************************************)
(* Who answers a message in a group chat.  Every agent is a process of its *)
(* own; they share swarm.db.  An agent that wants to answer inserts a row  *)
(* in reply_claims with a tier and a time to speak (eta), sleeps until     *)
(* then, looks once more at the chat, and asks can_send_claim whether it   *)
(* may speak; only then does it run its model and send.                    *)
(*                                                                         *)
(* One user message (the root) is modelled, with the handlers it causes:   *)
(* <<a, "user">> is agent a handling the user's message, <<a, "peer">> is  *)
(* agent a handling another agent's answer to it.  Tier 1 was addressed,   *)
(* tier 2 finds the subject its own, tier 3 disagrees with a peer.  Two    *)
(* handlers of one agent run concurrently (Telethon starts a task each).   *)
(*                                                                         *)
(* Agents are numbers in the order in which SQLite compares their names.   *)
(* The age of a row is abstracted to the set aged of rows that are past    *)
(* their lease: 120 s as claimed, 600 s as executing.                      *)
(***************************************************************************)
EXTENDS Naturals, FiniteSets

CONSTANTS Agents,       \* the agents of the swarm, numbered by name
          PeerHandlers, \* the agents that look at their peers' answers
          Delays,       \* the seconds a router waits before it answers
          Cap,          \* max_implicit_replies of each agent
          MaxClock,     \* bound on the clock that etas are compared with
          MaxAged,      \* bound on the rows that outlive their lease
          MaxDrops      \* bound on the handlers that fail

ASSUME ClaimsAssumption ==
    /\ Agents \subseteq Nat /\ IsFiniteSet(Agents) /\ PeerHandlers \subseteq Agents
    /\ Delays \subseteq Nat \ {0}
    /\ Cap \in [Agents -> Nat] /\ MaxClock \in Nat /\ MaxAged \in Nat
    /\ MaxDrops \in Nat

Handlers == (Agents \X {"user"}) \cup (PeerHandlers \X {"peer"})

VARIABLES
    claim,   \* reply_claims: the row of each handler
    pc,      \* where each handler is in the bridge's on_message
    aged,    \* rows past their lease that no transaction has expired yet
    chat,    \* handlers whose answer Telegram accepted
    clock    \* time.time()

claimVars == <<claim, pc, aged, chat, clock>>

NoClaim == [state |-> "none", tier |-> 0, eta |-> 0]
ClaimStates == {"none", "claimed", "executing", "sent", "cancelled", "expired"}
Places == {"idle", "waiting", "checked", "lost", "won", "working", "marking",
           "answered", "silent", "failed"}

ClaimsTypeOK ==
    /\ claim \in [Handlers -> [state: ClaimStates, tier: 0..3,
                               eta: Nat]]
    /\ pc \in [Handlers -> Places]
    /\ aged \subseteq Handlers /\ chat \subseteq Handlers
    /\ clock \in 0..MaxClock

InitClaims ==
    /\ claim = [h \in Handlers |-> NoClaim]
    /\ pc = [h \in Handlers |-> "idle"]
    /\ aged = {} /\ chat = {} /\ clock = 0

-----------------------------------------------------------------------------

InFlight(h) == claim[h].state \in {"claimed", "executing"}
Uninvited(h) == claim[h].tier > 1
Goto(h, place) == pc' = [pc EXCEPT ![h] = place]
SetClaim(h, state) == [claim EXCEPT ![h].state = state]

\* An agent that was addressed gets tier 1; else its own subject is tier 2 on
\* the user's message and its disagreement tier 3 on a peer's.
Tiers(h) == IF h[2] = "user" THEN {1, 2} ELSE {1, 3}

\* The router decided to answer: the claim is inserted with its eta, and the
\* handler sleeps.  A peer's message exists only once a peer has answered.
Receive(h, tier, delay) ==
    /\ pc[h] = "idle"
    /\ h[2] = "peer" => \E g \in chat : g[1] # h[1]
    /\ tier \in Tiers(h)
    /\ claim' = [claim EXCEPT ![h] =
                   [state |-> "claimed", tier |-> tier, eta |-> clock + delay]]
    /\ Goto(h, "waiting")
    /\ UNCHANGED <<aged, chat, clock>>

\* should_still_respond: after the sleep, the replies of peers to the message
\* are read from the chat and compared with the agent's own tolerance.  The read
\* sees the newest messages only, and counts none when it fails.
PeerReplies(h) == {g \in chat : g[1] # h[1] /\ g[2] = h[2]}
Crowded(h, seen) == Uninvited(h) /\ seen >= Cap[h[1]]

Recheck(h) ==
    /\ pc[h] = "waiting"
    /\ claim[h].eta <= clock
    /\ \E seen \in 0..Cardinality(PeerReplies(h)) :
          Goto(h, IF Crowded(h, seen) THEN "lost" ELSE "checked")
    /\ UNCHANGED <<claim, aged, chat, clock>>

\* can_send_claim first expires every row past its lease.
Swept == [h \in Handlers |-> IF h \in aged /\ InFlight(h)
                             THEN [claim[h] EXCEPT !.state = "expired"]
                             ELSE claim[h]]

\* Mutation: a reply that was sent frees its slot.
OccupyingOnlyRuns(c) == {h \in Handlers : c[h].state = "executing" /\ c[h].tier > 1}

\* Mutation: every claim takes a slot, whatever became of it.
OccupyingClaimed(c) == {h \in Handlers : /\ c[h].state \notin {"none", "expired"}
                                         /\ c[h].tier > 1}

\* Replies that occupy a slot of the cap: sent, or being written.
Occupying(c) == {h \in Handlers : /\ c[h].state \in {"executing", "sent"}
                                  /\ c[h].tier > 1}

\* ORDER BY (state = 'executing') DESC, tier, eta_ts, agent_name
Before(c, g, h) ==
    IF (c[g].state = "executing") # (c[h].state = "executing")
    THEN c[g].state = "executing"
    ELSE \/ c[g].tier < c[h].tier
         \/ /\ c[g].tier = c[h].tier
            /\ \/ c[g].eta < c[h].eta
               \/ c[g].eta = c[h].eta /\ g[1] < h[1]

Contenders(c) == {h \in Handlers : c[h].state \in {"claimed", "executing"}}

\* Mutation: the cap alone decides, not who is first.
WinsByCap(c, h) == c[h].tier = 1 \/ Cardinality(Occupying(c)) < Cap[h[1]]

\* The winner is looked up by agent: another row of the same agent wins for it.
Wins(c, h) ==
    \/ c[h].tier = 1
    \/ /\ Cardinality(Occupying(c)) < Cap[h[1]]
       /\ \E w \in Contenders(c) :
            /\ w[1] = h[1]
            /\ \A g \in Contenders(c) : ~Before(c, g, w)

Arbitrate(h) ==
    /\ pc[h] = "checked"
    /\ claim' = Swept
    /\ aged' = {}
    /\ Goto(h, IF Wins(Swept, h) THEN "won" ELSE "lost")
    /\ UNCHANGED <<chat, clock>>

\* cancel_claim, in a transaction of its own.
StandDown(h) ==
    /\ pc[h] = "lost"
    /\ claim' = IF InFlight(h) THEN SetClaim(h, "cancelled") ELSE claim
    /\ Goto(h, "silent")
    /\ UNCHANGED <<aged, chat, clock>>

\* begin_executing renews the row's lease.  The bridge ignores its answer: a
\* handler whose row has expired meanwhile goes on to run its model.
BeginExecuting(h) ==
    /\ pc[h] = "won"
    /\ IF claim[h].state = "claimed"
       THEN claim' = SetClaim(h, "executing") /\ aged' = aged \ {h}
       ELSE UNCHANGED <<claim, aged>>
    /\ Goto(h, "working")
    /\ UNCHANGED <<chat, clock>>

\* A reaction to a peer may turn out to be a PASS.
Pass(h) ==
    /\ pc[h] = "working" /\ h[2] = "peer"
    /\ claim' = IF InFlight(h) THEN SetClaim(h, "cancelled") ELSE claim
    /\ Goto(h, "silent")
    /\ UNCHANGED <<aged, chat, clock>>

\* The model has answered: Telegram takes the answer, or the Bot API reports a
\* failed send as None.
Send(h) ==
    /\ pc[h] = "working"
    /\ \/ chat' = chat \cup {h}
       \/ chat' = chat
    /\ Goto(h, "marking")
    /\ UNCHANGED <<claim, aged, clock>>

\* mark_sent follows in either case; it leaves a row that is no longer in
\* flight as it is.
MarkSent(h) ==
    /\ pc[h] = "marking"
    /\ claim' = IF InFlight(h) THEN SetClaim(h, "sent") ELSE claim
    /\ Goto(h, "answered")
    /\ UNCHANGED <<aged, chat, clock>>

\* Media that cannot be read, a model that raises, a client that raises, or
\* the end of the process: the handler is gone and its row stays behind.
Drop(h) ==
    /\ pc[h] \notin {"idle", "answered", "silent", "failed"}
    /\ Cardinality({g \in Handlers : pc[g] = "failed"}) < MaxDrops
    /\ Goto(h, "failed")
    /\ UNCHANGED <<claim, aged, chat, clock>>

\* A row outlives its lease; the handler may be dead or merely slow.
Outlive(h) ==
    /\ InFlight(h) /\ h \notin aged
    /\ Cardinality(aged \cup {g \in Handlers : claim[g].state = "expired"}) < MaxAged
    /\ aged' = aged \cup {h}
    /\ UNCHANGED <<claim, pc, chat, clock>>

ClockTicks ==
    /\ clock < MaxClock
    /\ clock' = clock + 1
    /\ UNCHANGED <<claim, pc, aged, chat>>

HandlerStep(h) ==
    \/ \E tier \in 1..3, delay \in Delays : Receive(h, tier, delay)
    \/ Recheck(h) \/ Arbitrate(h) \/ StandDown(h)
    \/ BeginExecuting(h) \/ Pass(h)
    \/ Send(h) \/ MarkSent(h) \/ Drop(h) \/ Outlive(h)

NextClaims == ClockTicks \/ \E h \in Handlers : HandlerStep(h)

SpecClaims == InitClaims /\ [][NextClaims]_claimVars

-----------------------------------------------------------------------------

Committed(h) == pc[h] \in {"won", "working", "marking", "answered"}
Lapsed(h) == claim[h].state = "expired"
Reacting(a) == <<a, "peer">> \in Handlers /\ claim[<<a, "peer">>] # NoClaim

\* Two agents never both set out to answer the user's message uninvited at the
\* same time, unless a lease ran out or one of them also has a claim on a
\* peer's answer, which counts as its own.  can_send_claim and begin_executing
\* are two transactions: between them no claim of an earlier eta may appear.
OneVolunteer ==
    \A g, h \in Agents \X {"user"} :
        /\ g # h /\ Uninvited(g) /\ Uninvited(h)
        /\ pc[g] \in {"won", "working"} /\ pc[h] \in {"won", "working"}
        => \/ Lapsed(g) \/ Lapsed(h)
           \/ Reacting(g[1]) \/ Reacting(h[1])

\* The uninvited answers to one message stay within what some agent tolerates
\* (so within the largest cap), but for rows whose lease ran out and for agents
\* that also claimed a peer's answer.
CapHolds ==
    LET answering == {h \in Handlers : Committed(h) /\ Uninvited(h) /\ ~Lapsed(h)}
    IN answering # {} =>
         \E a \in Agents :
            Cardinality(answering) <= Cap[a] + Cardinality({b \in Agents : Reacting(b)})

\* The order of rows in the same state.
Ahead(g, h) ==
    \/ claim[g].tier < claim[h].tier
    \/ /\ claim[g].tier = claim[h].tier
       /\ \/ claim[g].eta < claim[h].eta
          \/ claim[g].eta = claim[h].eta /\ g[1] < h[1]

\* An agent with a cap of zero claims what it will not answer.
Reticent(h) == Cap[h[1]] = 0

\* Arbitration never silences everyone, with one exception: when every handler
\* that claimed the message stood down although no lease ran out, a reticent agent
\* had claimed it ahead of all that would have answered.
NoSilence ==
    (\A h \in Handlers : pc[h] \in {"idle", "silent"} /\ ~Lapsed(h))
        => \/ \A h \in Handlers : pc[h] = "idle"
           \/ \E g \in Handlers :
                 /\ pc[g] = "silent" /\ Reticent(g)
                 /\ \A h \in Handlers : pc[h] = "silent" /\ ~Reticent(h) => Ahead(g, h)
============================================================================
