------------------------- MODULE SwarmClaimsProofs -------------------------
(***************************************************************************)
(* Proofs about SwarmClaims, for any agents, delays, caps (each agent its  *)
(* own, zero included), lapses and failures: who is let through first, how *)
(* many are let through, and that arbitration lets somebody through.       *)
(***************************************************************************)
EXTENDS SwarmClaims, Functions, FiniteSetTheorems, TLAPS

\* Where a handler stands says what its row may be.
PlaceAgrees ==
    \A h \in Handlers :
        /\ pc[h] = "idle" => claim[h] = NoClaim
        /\ pc[h] # "idle" => claim[h].tier \in Tiers(h) /\ claim[h].state # "none"
        /\ pc[h] \in {"waiting", "checked", "lost", "won"}
             => claim[h].state \in {"claimed", "expired"}
        /\ pc[h] \in {"working", "marking"} => claim[h].state \in {"executing", "expired"}
        /\ pc[h] = "answered" => claim[h].state \in {"sent", "expired"}
        /\ pc[h] = "silent" => claim[h].state \in {"cancelled", "expired"}
        /\ pc[h] \in {"checked", "lost", "won"} => claim[h].eta <= clock
        /\ pc[h] = "lost" => claim[h].tier > 1

\* A peer's answer is looked at after it is in the chat, and who answered
\* stays so.
ChatAgrees ==
    /\ \A h \in Handlers : h[2] = "peer" /\ pc[h] # "idle" => chat # {}
    /\ \A h \in chat : pc[h] \in {"marking", "answered", "failed"}

\* The agent has no row on a peer's answer that could have let its volunteer
\* through: none, or one that is behind every volunteer and was never executing.
Plain(a) ==
    <<a, "peer">> \in Handlers =>
        \/ claim[<<a, "peer">>] = NoClaim
        \/ claim[<<a, "peer">>].state = "claimed" /\ claim[<<a, "peer">>].tier = 3

\* A winner that has not begun to execute is ahead of every other volunteer,
\* also of those that claimed after it won.
WinnerIsAhead ==
    \A g, h \in Agents \X {"user"} :
        /\ g # h /\ Uninvited(g) /\ Uninvited(h)
        /\ pc[g] = "won" /\ ~Lapsed(g) /\ Plain(g[1])
        /\ pc[h] \in {"waiting", "checked"} /\ ~Lapsed(h)
        => Ahead(g, h)

\* OneVolunteer, for all agents but those whose reaction is in the way.
OnePlainVolunteer ==
    \A g, h \in Agents \X {"user"} :
        /\ g # h /\ Uninvited(g) /\ Uninvited(h)
        /\ pc[g] \in {"won", "working"} /\ pc[h] \in {"won", "working"}
        /\ ~Lapsed(g) /\ ~Lapsed(h)
        => ~Plain(g[1]) \/ ~Plain(h[1])

\* While nobody answers or is about to, somebody who still waits, or has a cap
\* of zero, is ahead of all the others who have lost.
Quiet ==
    /\ chat = {}
    /\ \A h \in Handlers : /\ pc[h] \in {"idle", "waiting", "checked", "lost", "silent"}
                           /\ ~Lapsed(h)
Standing(h) ==
    \/ pc[h] \in {"waiting", "checked"}
    \/ pc[h] # "idle" /\ Reticent(h)
Beaten(h) == pc[h] \in {"lost", "silent"} /\ ~Reticent(h)
SomeoneIsAhead ==
    Quiet /\ (\E h \in Handlers : pc[h] # "idle")
        => \E m \in Handlers : Standing(m) /\ \A g \in Handlers : Beaten(g) => Ahead(m, g)

\* The slots of the cap, with those of the winners that have not taken theirs
\* yet: every reaction may have cost one more than the cap of who came last.
Winners == {h \in Handlers : pc[h] = "won" /\ Uninvited(h) /\ ~Lapsed(h)}
Slots == Occupying(claim) \cup Winners
Reactors == {a \in Agents : Reacting(a)}
SlotsHold ==
    Slots # {} => \E a \in Agents : Cardinality(Slots) <= Cap[a] + Cardinality(Reactors)

ClaimsInductive ==
    /\ ClaimsTypeOK
    /\ PlaceAgrees
    /\ ChatAgrees
    /\ WinnerIsAhead
    /\ OnePlainVolunteer
    /\ SomeoneIsAhead
    /\ SlotsHold

LEMMA HandlerPairs ==
    /\ \A h \in Handlers : h[1] \in Nat /\ h[2] \in {"user", "peer"}
    /\ \A g, h \in Handlers : g[1] = h[1] /\ g[2] = h[2] => g = h
    /\ \A h \in Handlers : h[2] = "user" => h \in Agents \X {"user"}
    /\ \A h \in Agents \X {"user"} : h \in Handlers /\ h[2] = "user" /\ h[1] \in Agents
    /\ \A h \in Handlers : h[2] = "peer" => h = <<h[1], "peer">> /\ <<h[1], "peer">> \in Handlers
<1>1. \A h \in Handlers : \/ h \in Agents \X {"user"}
                           \/ h \in PeerHandlers \X {"peer"}
  BY DEF Handlers
<1>2. \A h \in Agents \X {"user"} :
        h = <<h[1], h[2]>> /\ h[1] \in Agents /\ h[2] = "user"
  OBVIOUS
<1>3. \A h \in PeerHandlers \X {"peer"} :
        h = <<h[1], h[2]>> /\ h[1] \in PeerHandlers /\ h[2] = "peer"
  OBVIOUS
<1>4. \A h \in Handlers : h = <<h[1], h[2]>> /\ h[1] \in Agents /\ h[2] \in {"user", "peer"}
  BY <1>1, <1>2, <1>3, ClaimsAssumption
<1>5. \A h \in Handlers : h[1] \in Nat
  BY <1>4, ClaimsAssumption
<1>6. \A g, h \in Handlers : g[1] = h[1] /\ g[2] = h[2] => g = h
  BY <1>4
<1>7. \A h \in Handlers : h[2] = "user" => h \in Agents \X {"user"}
  BY <1>1, <1>3
<1>8. \A h \in Agents \X {"user"} : h \in Handlers /\ h[2] = "user" /\ h[1] \in Agents
  BY <1>2 DEF Handlers
<1>9. \A h \in Handlers : h[2] = "peer" => h = <<h[1], "peer">> /\ <<h[1], "peer">> \in Handlers
  BY <1>4
<1> QED
  BY <1>4, <1>5, <1>6, <1>7, <1>8, <1>9

LEMMA RowTypes ==
    ASSUME ClaimsTypeOK
    PROVE  /\ \A h \in Handlers : /\ claim[h] \in [state: ClaimStates, tier: 0..3, eta: Nat]
                                  /\ claim[h].state \in ClaimStates
                                  /\ claim[h].tier \in Nat /\ claim[h].eta \in Nat
                                  /\ pc[h] \in Places
           /\ clock \in Nat
BY ClaimsAssumption DEF ClaimsTypeOK

LEMMA CapType == \A h \in Handlers : h[1] \in Agents /\ Cap[h[1]] \in Nat
<1>1. ASSUME NEW h \in Handlers PROVE h[1] \in Agents
  BY ClaimsAssumption DEF Handlers
<1> QED
  BY <1>1, ClaimsAssumption

LEMMA ClaimsInit == InitClaims => ClaimsInductive
<1> SUFFICES ASSUME InitClaims PROVE ClaimsInductive
  OBVIOUS
<1>1. ClaimsTypeOK
  BY ClaimsAssumption DEF InitClaims, ClaimsTypeOK, NoClaim, ClaimStates, Places
<1>2. \A h \in Handlers : pc[h] = "idle" /\ claim[h] = NoClaim
  BY DEF InitClaims
<1>3. PlaceAgrees /\ ChatAgrees
  BY <1>2 DEF PlaceAgrees, ChatAgrees, InitClaims
<1>4. WinnerIsAhead /\ OnePlainVolunteer /\ SomeoneIsAhead
  BY <1>2, HandlerPairs DEF WinnerIsAhead, OnePlainVolunteer, SomeoneIsAhead
<1>5. Slots = {} /\ Reactors = {}
  BY <1>2 DEF Slots, Occupying, Winners, Reactors, Reacting, NoClaim
<1>6. SlotsHold
  BY <1>5 DEF SlotsHold
<1> QED
  BY <1>1, <1>3, <1>4, <1>6 DEF ClaimsInductive

-----------------------------------------------------------------------------
\* Types.

LEMMA ClaimsTypes == ClaimsTypeOK /\ [NextClaims]_claimVars => ClaimsTypeOK'
<1> SUFFICES ASSUME ClaimsTypeOK, [NextClaims]_claimVars PROVE ClaimsTypeOK'
  OBVIOUS
<1> USE ClaimsAssumption DEF ClaimsTypeOK
<1>1. ASSUME NEW h \in Handlers, HandlerStep(h) PROVE ClaimsTypeOK'
  <2> USE DEF Goto, SetClaim, ClaimStates, Places
  <2>1. ASSUME NEW tier \in 1..3, NEW delay \in Delays, Receive(h, tier, delay)
        PROVE  ClaimsTypeOK'
    BY <2>1 DEF Receive
  <2>2. CASE Recheck(h)
    BY <2>2 DEF Recheck
  <2>3. CASE Arbitrate(h)
    <3>1. Swept \in [Handlers -> [state: ClaimStates, tier: 0..3, eta: Nat]]
      BY DEF Swept
    <3> QED
      BY <2>3, <3>1 DEF Arbitrate
  <2>4. CASE StandDown(h)
    BY <2>4 DEF StandDown
  <2>5. CASE BeginExecuting(h)
    BY <2>5 DEF BeginExecuting
  <2>6. CASE Pass(h)
    BY <2>6 DEF Pass
  <2>7. CASE Send(h)
    BY <2>7 DEF Send
  <2>8. CASE MarkSent(h)
    BY <2>8 DEF MarkSent
  <2>9. CASE Drop(h)
    BY <2>9 DEF Drop
  <2>10. CASE Outlive(h)
    BY <2>10 DEF Outlive
  <2> QED
    BY <1>1, <2>1, <2>2, <2>3, <2>4, <2>5, <2>6, <2>7, <2>8, <2>9, <2>10 DEF HandlerStep
<1>2. CASE ClockTicks
  BY <1>2 DEF ClockTicks
<1>3. CASE UNCHANGED claimVars
  BY <1>3 DEF claimVars
<1> QED
  BY <1>1, <1>2, <1>3 DEF NextClaims

-----------------------------------------------------------------------------
\* Places and rows.

LEMMA PlacesStep ==
    ASSUME ClaimsInductive, NEW h \in Handlers, HandlerStep(h)
    PROVE  PlaceAgrees' /\ ChatAgrees'
<1> USE DEF ClaimsInductive, ClaimsTypeOK, PlaceAgrees, ChatAgrees, Goto, SetClaim, InFlight
<1>0. pc[h] \in Places /\ claim[h].state \in ClaimStates
  BY RowTypes
<1>1. ASSUME NEW tier \in 1..3, NEW delay \in Delays, Receive(h, tier, delay)
      PROVE  PlaceAgrees' /\ ChatAgrees'
  <2>1. /\ pc' = [pc EXCEPT ![h] = "waiting"]
        /\ claim' = [claim EXCEPT ![h] =
             [state |-> "claimed", tier |-> tier, eta |-> clock + delay]]
        /\ tier \in Tiers(h) /\ chat' = chat /\ clock' = clock /\ pc[h] = "idle"
        /\ h[2] = "peer" => chat # {}
    BY <1>1 DEF Receive
  <2>2. PlaceAgrees'
    BY <2>1 DEF Tiers
  <2>3. ChatAgrees'
    BY <2>1
  <2> QED
    BY <2>2, <2>3
<1>2. CASE Recheck(h)
  BY <1>2 DEF Recheck, Crowded, Uninvited, Tiers
<1>3. CASE Arbitrate(h)
  <2>1. \A g \in Handlers :
          /\ Swept[g].tier = claim[g].tier /\ Swept[g].eta = claim[g].eta
          /\ Swept[g] = claim[g] \/ (InFlight(g) /\ Swept[g].state = "expired")
    BY DEF Swept
  <2>2. /\ pc[h] = "checked" /\ claim' = Swept /\ chat' = chat /\ clock' = clock
        /\ pc' = [pc EXCEPT ![h] = IF Wins(Swept, h) THEN "won" ELSE "lost"]
    BY <1>3 DEF Arbitrate
  <2>3. Swept[h].tier = 1 => Wins(Swept, h)
    BY DEF Wins
  <2> HIDE DEF PlaceAgrees, ChatAgrees
  <2>4. ChatAgrees'
    BY <2>2 DEF ChatAgrees
  <2>5. \A g \in Handlers : g # h => pc'[g] = pc[g]
    BY <2>2
  <2>6. pc'[h] \in {"won", "lost"} /\ (pc'[h] = "lost" => Swept[h].tier # 1)
    BY <2>2, <2>3
  <2>7. ASSUME NEW g \in Handlers, g # h
        PROVE  /\ pc'[g] = "idle" => claim'[g] = NoClaim
               /\ pc'[g] # "idle" => claim'[g].tier \in Tiers(g) /\ claim'[g].state # "none"
               /\ pc'[g] \in {"waiting", "checked", "lost", "won"}
                    => claim'[g].state \in {"claimed", "expired"}
               /\ pc'[g] \in {"working", "marking"} => claim'[g].state \in {"executing", "expired"}
               /\ pc'[g] = "answered" => claim'[g].state \in {"sent", "expired"}
               /\ pc'[g] = "silent" => claim'[g].state \in {"cancelled", "expired"}
               /\ pc'[g] \in {"checked", "lost", "won"} => claim'[g].eta <= clock'
               /\ pc'[g] = "lost" => claim'[g].tier > 1
    BY <2>1, <2>2, <2>5, <2>7 DEF PlaceAgrees, NoClaim
  <2>8. /\ claim'[h].tier \in Tiers(h) /\ claim'[h].state \in {"claimed", "expired"}
        /\ claim'[h].eta <= clock'
        /\ pc'[h] = "lost" => claim'[h].tier > 1
    BY <2>1, <2>2, <2>6 DEF PlaceAgrees, Tiers
  <2>9. PlaceAgrees'
    BY <2>6, <2>7, <2>8 DEF PlaceAgrees
  <2> QED
    BY <2>4, <2>9
<1>4. CASE StandDown(h)
  BY <1>0, <1>4 DEF StandDown
<1>5. CASE BeginExecuting(h)
  BY <1>0, <1>5 DEF BeginExecuting
<1>6. CASE Pass(h)
  BY <1>0, <1>6 DEF Pass
<1>7. CASE Send(h)
  BY <1>0, <1>7 DEF Send
<1>8. CASE MarkSent(h)
  BY <1>0, <1>8 DEF MarkSent
<1>9. CASE Drop(h)
  BY <1>0, <1>9 DEF Drop
<1>10. CASE Outlive(h)
  BY <1>10 DEF Outlive
<1> QED
  BY <1>1, <1>2, <1>3, <1>4, <1>5, <1>6, <1>7, <1>8, <1>9, <1>10 DEF HandlerStep

LEMMA ClockStep ==
    ASSUME ClaimsInductive, ClockTicks
    PROVE  PlaceAgrees' /\ ChatAgrees'
<1>1. clock \in Nat /\ clock' \in Nat /\ clock <= clock' /\ UNCHANGED <<claim, pc, chat>>
  BY RowTypes DEF ClaimsInductive, ClockTicks
<1>2. \A h \in Handlers : claim[h].eta \in Nat
  BY RowTypes DEF ClaimsInductive
<1>3. \A h \in Handlers : claim[h].eta <= clock => claim[h].eta <= clock'
  BY <1>1, <1>2
<1> QED
  BY <1>1, <1>3 DEF ClaimsInductive, PlaceAgrees, ChatAgrees

-----------------------------------------------------------------------------
\* Steps that bring nobody closer to answering than it was.

\* Rows keep their tier and eta, and handlers only leave the places where they
\* contend.
Settles ==
    \A g \in Handlers :
        /\ claim'[g].tier = claim[g].tier /\ claim'[g].eta = claim[g].eta
        /\ Lapsed(g) => Lapsed(g)'
        /\ pc[g] # "idle" => pc'[g] # "idle"
        /\ pc[g] # "idle" /\ claim'[g].state = "claimed" => claim[g].state = "claimed"
        /\ pc'[g] \in {"waiting", "checked"} => pc[g] \in {"waiting", "checked"}
        /\ pc'[g] = "won" => pc[g] = "won"
        /\ pc'[g] = "working" => pc[g] \in {"won", "working"}

\* Only an agent that was plain is plain.
PlainWas(a) == Plain(a)' => Plain(a)

LEMMA PlainStays ==
    ASSUME ClaimsInductive, PlaceAgrees', NEW a,
           \A g \in Handlers :
              /\ pc[g] # "idle" => pc'[g] # "idle"
              /\ pc[g] # "idle" => claim'[g].tier = claim[g].tier
              /\ pc[g] # "idle" /\ claim'[g].state = "claimed" => claim[g].state = "claimed"
    PROVE  PlainWas(a)
<1> DEFINE p == <<a, "peer">>
<1> SUFFICES ASSUME Plain(a)', p \in Handlers, claim[p] # NoClaim
             PROVE  claim[p].state = "claimed" /\ claim[p].tier = 3
  BY DEF PlainWas, Plain
<1> HIDE DEF p
<1>1. pc[p] # "idle" /\ pc'[p] # "idle"
  BY DEF ClaimsInductive, PlaceAgrees
<1>2. claim'[p] # NoClaim
  BY <1>1 DEF PlaceAgrees, NoClaim
<1>3. claim'[p].state = "claimed" /\ claim'[p].tier = 3
  BY <1>2 DEF Plain, p
<1> QED
  BY <1>1, <1>3

LEMMA VolunteersFrame ==
    ASSUME ClaimsInductive, PlaceAgrees', Settles
    PROVE  WinnerIsAhead' /\ OnePlainVolunteer'
<1>1. ASSUME NEW g \in Agents \X {"user"}, NEW h \in Agents \X {"user"},
             g # h, Uninvited(g)', Uninvited(h)',
             pc'[g] = "won", ~Lapsed(g)', Plain(g[1])',
             pc'[h] \in {"waiting", "checked"}, ~Lapsed(h)'
      PROVE  Ahead(g, h)'
  <2>1. g \in Handlers /\ h \in Handlers
    BY HandlerPairs
  <2>2. /\ Uninvited(g) /\ Uninvited(h) /\ pc[g] = "won" /\ ~Lapsed(g)
        /\ pc[h] \in {"waiting", "checked"} /\ ~Lapsed(h)
    BY <1>1, <2>1 DEF Settles, Uninvited
  <2>3. Plain(g[1])
    BY <1>1, PlainStays DEF PlainWas, Settles
  <2>4. Ahead(g, h)
    BY <1>1, <2>2, <2>3 DEF ClaimsInductive, WinnerIsAhead
  <2> QED
    BY <2>1, <2>4 DEF Ahead, Settles
<1>2. ASSUME NEW g \in Agents \X {"user"}, NEW h \in Agents \X {"user"},
             g # h, Uninvited(g)', Uninvited(h)',
             pc'[g] \in {"won", "working"}, pc'[h] \in {"won", "working"}
      PROVE  \/ Lapsed(g)' \/ Lapsed(h)'
             \/ ~Plain(g[1])' \/ ~Plain(h[1])'
  <2>1. g \in Handlers /\ h \in Handlers
    BY HandlerPairs
  <2>2. /\ Uninvited(g) /\ Uninvited(h)
        /\ pc[g] \in {"won", "working"} /\ pc[h] \in {"won", "working"}
    BY <1>2, <2>1 DEF Settles, Uninvited
  <2>3. Lapsed(g) \/ Lapsed(h) \/ ~Plain(g[1]) \/ ~Plain(h[1])
    BY <1>2, <2>2 DEF ClaimsInductive, OnePlainVolunteer
  <2>4. /\ Lapsed(g) => Lapsed(g)'
        /\ Lapsed(h) => Lapsed(h)'
    BY <2>1 DEF Settles
  <2>5. /\ ~Plain(g[1]) => ~Plain(g[1])'
        /\ ~Plain(h[1]) => ~Plain(h[1])'
    BY PlainStays DEF PlainWas, Settles
  <2> QED
    BY <2>3, <2>4, <2>5
<1>3. WinnerIsAhead'
  BY <1>1 DEF WinnerIsAhead
<1>4. OnePlainVolunteer'
  BY <1>2 DEF OnePlainVolunteer
<1> QED
  BY <1>3, <1>4

LEMMA QuietFrame ==
    ASSUME ClaimsInductive, Settles,
           Quiet' => /\ Quiet
                     /\ \A g \in Handlers :
                          /\ Beaten(g)' => Beaten(g)
                          /\ Standing(g) => Standing(g)'
                          /\ pc[g] = "idle" => pc'[g] = "idle"
    PROVE  SomeoneIsAhead'
<1> SUFFICES ASSUME Quiet', \E h \in Handlers : pc'[h] # "idle"
             PROVE  \E m \in Handlers : /\ Standing(m)'
                                        /\ \A g \in Handlers : Beaten(g)' => Ahead(m, g)'
  BY DEF SomeoneIsAhead
<1>1. Quiet /\ \E h \in Handlers : pc[h] # "idle"
  OBVIOUS
<1>2. PICK m \in Handlers : Standing(m) /\ \A g \in Handlers : Beaten(g) => Ahead(m, g)
  BY <1>1 DEF ClaimsInductive, SomeoneIsAhead
<1>3. Standing(m)'
  BY <1>2
<1>4. ASSUME NEW g \in Handlers, Beaten(g)' PROVE Ahead(m, g)'
  <2>1. Ahead(m, g)
    BY <1>2, <1>4
  <2> QED
    BY <2>1 DEF Ahead, Settles
<1> QED
  BY <1>3, <1>4

LEMMA SettlingSteps ==
    ASSUME ClaimsInductive, NEW h \in Handlers,
           \/ Recheck(h) \/ StandDown(h) \/ BeginExecuting(h) \/ Pass(h)
           \/ Send(h) \/ MarkSent(h) \/ Drop(h) \/ Outlive(h)
    PROVE  Settles
<1> USE DEF ClaimsInductive, ClaimsTypeOK, Goto, SetClaim, InFlight, Lapsed, Settles
<1>1. CASE Recheck(h)
  BY <1>1 DEF Recheck
<1>2. CASE StandDown(h)
  BY <1>2 DEF StandDown
<1>3. CASE BeginExecuting(h)
  BY <1>3 DEF BeginExecuting
<1>4. CASE Pass(h)
  BY <1>4 DEF Pass
<1>5. CASE Send(h)
  BY <1>5 DEF Send
<1>6. CASE MarkSent(h)
  BY <1>6 DEF MarkSent
<1>7. CASE Drop(h)
  BY <1>7 DEF Drop
<1>8. CASE Outlive(h)
  BY <1>8 DEF Outlive
<1> QED
  BY <1>1, <1>2, <1>3, <1>4, <1>5, <1>6, <1>7, <1>8

LEMMA QuietSteps ==
    ASSUME ClaimsInductive, NEW h \in Handlers,
           \/ Recheck(h) \/ StandDown(h) \/ BeginExecuting(h) \/ Pass(h)
           \/ Send(h) \/ MarkSent(h) \/ Drop(h) \/ Outlive(h)
    PROVE  SomeoneIsAhead'
<1>0. Settles
  BY SettlingSteps
<1> SUFFICES ASSUME Quiet'
             PROVE  /\ Quiet
                    /\ \A g \in Handlers :
                         /\ Beaten(g)' => Beaten(g)
                         /\ Standing(g) => Standing(g)'
                         /\ pc[g] = "idle" => pc'[g] = "idle"
  BY <1>0, QuietFrame
<1> USE DEF ClaimsInductive, ClaimsTypeOK, Goto, Quiet, Standing, Beaten, Reticent
<1>1. \A g \in Handlers : ~Lapsed(g)
  BY <1>0 DEF Settles
<1>2. pc'[h] \in {"idle", "waiting", "checked", "lost", "silent"} /\ chat' = {}
  OBVIOUS
<1>3. CASE Recheck(h)
  <2>1. PeerReplies(h) = {} /\ chat = {} /\ pc[h] = "waiting"
    BY <1>2, <1>3 DEF Recheck, PeerReplies
  <2>2. PICK seen \in 0..Cardinality(PeerReplies(h)) :
           pc' = [pc EXCEPT ![h] = IF Crowded(h, seen) THEN "lost" ELSE "checked"]
    BY <1>3 DEF Recheck
  \* An empty chat crowds out nobody but an agent with a cap of zero.
  <2>3. Crowded(h, seen) => Reticent(h)
    <3>1. seen = 0
      BY <2>1, <2>2, FS_EmptySet
    <3>2. Cap[h[1]] \in Nat
      BY CapType
    <3> QED
      BY <3>1, <3>2 DEF Crowded
  <2> HIDE DEF Reticent
  <2> QED
    BY <1>1, <2>1, <2>2, <2>3
<1>4. CASE StandDown(h)
  <2>1. pc' = [pc EXCEPT ![h] = "silent"] /\ pc[h] = "lost" /\ chat = {}
    BY <1>2, <1>4 DEF StandDown
  <2> QED
    BY <1>1, <2>1
<1>5. CASE BeginExecuting(h)
  BY <1>2, <1>5 DEF BeginExecuting
<1>6. CASE Pass(h)
  BY <1>2, <1>6 DEF Pass, ChatAgrees
<1>7. CASE Send(h)
  BY <1>2, <1>7 DEF Send
<1>8. CASE MarkSent(h)
  BY <1>2, <1>8 DEF MarkSent
<1>9. CASE Drop(h)
  BY <1>2, <1>9 DEF Drop
<1>10. CASE Outlive(h)
  BY <1>1, <1>2, <1>10 DEF Outlive
<1> QED
  BY <1>3, <1>4, <1>5, <1>6, <1>7, <1>8, <1>9, <1>10

-----------------------------------------------------------------------------
\* A new claim comes later than every winner's: its eta is still to come.

LEMMA ReceiveKeeps ==
    ASSUME ClaimsInductive, PlaceAgrees',
           NEW h \in Handlers, NEW tier \in 1..3, NEW delay \in Delays,
           Receive(h, tier, delay)
    PROVE  WinnerIsAhead' /\ OnePlainVolunteer' /\ SomeoneIsAhead'
<1>1. /\ pc[h] = "idle" /\ tier \in Tiers(h) /\ chat' = chat
      /\ claim' = [claim EXCEPT ![h] = [state |-> "claimed", tier |-> tier, eta |-> clock + delay]]
      /\ pc' = [pc EXCEPT ![h] = "waiting"]
  BY DEF Receive, Goto
<1>2. /\ claim'[h].tier = tier /\ claim'[h].eta = clock + delay /\ pc'[h] = "waiting"
      /\ \A g \in Handlers : g # h => claim'[g] = claim[g] /\ pc'[g] = pc[g]
  BY <1>1 DEF ClaimsInductive, ClaimsTypeOK
<1>3. \A a : Plain(a)' => Plain(a)
  BY <1>1, <1>2, PlainStays DEF PlainWas
<1>4. ASSUME NEW g \in Agents \X {"user"}, NEW k \in Agents \X {"user"},
             g # k, Uninvited(g)', Uninvited(k)',
             pc'[g] = "won", ~Lapsed(g)', Plain(g[1])',
             pc'[k] \in {"waiting", "checked"}, ~Lapsed(k)'
      PROVE  Ahead(g, k)'
  <2>1. g \in Handlers /\ k \in Handlers /\ g[2] = "user" /\ k[2] = "user"
    BY HandlerPairs
  <2>2. g # h /\ claim'[g] = claim[g] /\ pc[g] = "won"
    BY <1>2, <1>4, <2>1
  <2>3. ~Lapsed(g) /\ Plain(g[1]) /\ Uninvited(g)
    BY <1>3, <1>4, <2>2 DEF Lapsed, Uninvited
  <2>4. CASE k # h
    <3>1. claim'[k] = claim[k] /\ pc'[k] = pc[k]
      BY <1>2, <2>1, <2>4
    <3>2. Ahead(g, k)
      BY <1>4, <2>2, <2>3, <3>1 DEF ClaimsInductive, WinnerIsAhead, Lapsed, Uninvited
    <3> QED
      BY <2>2, <3>1, <3>2 DEF Ahead
  <2>5. CASE k = h
    <3>1. claim[g].tier = 2 /\ claim[g].eta <= clock
      BY <2>1, <2>2, <2>3 DEF ClaimsInductive, PlaceAgrees, Tiers, Uninvited
    <3>2. claim'[k].tier = 2 /\ claim'[k].eta = clock + delay
      BY <1>1, <1>2, <1>4, <2>1, <2>5 DEF Tiers, Uninvited
    <3>3. clock \in Nat /\ delay \in Nat /\ delay # 0 /\ claim[g].eta \in Nat
      BY <2>1, RowTypes, ClaimsAssumption DEF ClaimsInductive
    <3>4. claim[g].eta < clock + delay
      BY <3>1, <3>3
    <3> QED
      BY <2>2, <3>1, <3>2, <3>4 DEF Ahead
  <2> QED
    BY <2>4, <2>5
<1>5. ASSUME NEW g \in Agents \X {"user"}, NEW k \in Agents \X {"user"},
             g # k, Uninvited(g)', Uninvited(k)',
             pc'[g] \in {"won", "working"}, pc'[k] \in {"won", "working"}
      PROVE  \/ Lapsed(g)' \/ Lapsed(k)'
             \/ ~Plain(g[1])' \/ ~Plain(k[1])'
  <2>1. g \in Handlers /\ k \in Handlers
    BY HandlerPairs
  <2>2. claim'[g] = claim[g] /\ pc'[g] = pc[g] /\ claim'[k] = claim[k] /\ pc'[k] = pc[k]
    BY <1>2, <1>5, <2>1
  <2>3. Lapsed(g) \/ Lapsed(k) \/ ~Plain(g[1]) \/ ~Plain(k[1])
    BY <1>5, <2>2 DEF ClaimsInductive, OnePlainVolunteer, Uninvited
  <2> QED
    BY <1>3, <2>2, <2>3 DEF Lapsed
<1>6. SomeoneIsAhead'
  <2> SUFFICES ASSUME Quiet'
               PROVE  \E m \in Handlers : /\ Standing(m)'
                                          /\ \A g \in Handlers : Beaten(g)' => Ahead(m, g)'
    BY DEF SomeoneIsAhead
  <2>1. \A g \in Handlers : g # h => pc[g] \in {"idle", "waiting", "checked", "lost", "silent"}
                                     /\ ~Lapsed(g)
    BY <1>2 DEF Quiet, Lapsed
  <2>2. ~Lapsed(h)
    BY <1>1 DEF ClaimsInductive, PlaceAgrees, NoClaim, Lapsed
  <2>3. Quiet
    BY <1>1, <2>1, <2>2 DEF Quiet
  <2>4. CASE \A g \in Handlers : pc[g] = "idle"
    BY <1>2, <2>4 DEF Standing, Beaten
  <2>5. CASE \E g \in Handlers : pc[g] # "idle"
    <3>1. PICK m \in Handlers : Standing(m) /\ \A g \in Handlers : Beaten(g) => Ahead(m, g)
      BY <2>3, <2>5 DEF ClaimsInductive, SomeoneIsAhead
    <3>2. m # h /\ Standing(m)'
      BY <1>1, <1>2, <3>1 DEF Standing, Reticent
    <3>3. ASSUME NEW g \in Handlers, Beaten(g)' PROVE Ahead(m, g)'
      <4>1. g # h /\ Beaten(g)
        BY <1>2, <3>3 DEF Beaten, Reticent
      <4>2. Ahead(m, g)
        BY <3>1, <4>1
      <4> QED
        BY <1>2, <3>2, <4>1, <4>2 DEF Ahead
    <3> QED
      BY <3>2, <3>3
  <2> QED
    BY <2>4, <2>5
<1>7. WinnerIsAhead'
  BY <1>4 DEF WinnerIsAhead
<1>8. OnePlainVolunteer'
  BY <1>5 DEF OnePlainVolunteer
<1> QED
  BY <1>6, <1>7, <1>8

-----------------------------------------------------------------------------
\* Arbitration.

LEMMA SweptRows ==
    ASSUME ClaimsTypeOK
    PROVE  \A g \in Handlers :
             /\ Swept[g].tier = claim[g].tier /\ Swept[g].eta = claim[g].eta
             /\ Swept[g].state # "expired" => Swept[g] = claim[g]
             /\ claim[g].state = "expired" => Swept[g].state = "expired"
             /\ claim[g].state = "none" => Swept[g] = claim[g]
<1>1. \A g \in Handlers : /\ Swept[g].tier = claim[g].tier /\ Swept[g].eta = claim[g].eta
                          /\ Swept[g] = claim[g] \/ (InFlight(g) /\ Swept[g].state = "expired")
  BY DEF Swept, ClaimsTypeOK
<1> QED
  BY <1>1 DEF InFlight

\* Among two rows in the same state one is ahead.
LEMMA AheadIsTotal ==
    ASSUME ClaimsTypeOK, NEW g \in Handlers, NEW h \in Handlers, g[1] # h[1]
    PROVE  Ahead(g, h) \/ Ahead(h, g)
<1>1. /\ claim[g].tier \in Nat /\ claim[g].eta \in Nat /\ g[1] \in Nat
      /\ claim[h].tier \in Nat /\ claim[h].eta \in Nat /\ h[1] \in Nat
  BY RowTypes, HandlerPairs
<1> QED
  BY <1>1 DEF Ahead

LEMMA AheadIsTransitive ==
    ASSUME ClaimsTypeOK, NEW f \in Handlers, NEW g \in Handlers, NEW h \in Handlers,
           Ahead(f, g), Ahead(g, h)
    PROVE  Ahead(f, h) /\ ~Ahead(h, g)
<1>1. /\ claim[f].tier \in Nat /\ claim[f].eta \in Nat /\ f[1] \in Nat
      /\ claim[g].tier \in Nat /\ claim[g].eta \in Nat /\ g[1] \in Nat
      /\ claim[h].tier \in Nat /\ claim[h].eta \in Nat /\ h[1] \in Nat
  BY RowTypes, HandlerPairs
<1> QED
  BY <1>1 DEF Ahead

\* A volunteer of a plain agent wins only as the first of all rows in flight.
LEMMA WinnerIsFirst ==
    ASSUME ClaimsInductive, NEW h \in Agents \X {"user"}, Wins(Swept, h), Uninvited(h),
           Swept[h].state = "claimed", Plain(h[1])
    PROVE  \A g \in Contenders(Swept) : ~Before(Swept, g, h)
<1>1. h \in Handlers /\ h[2] = "user"
  BY HandlerPairs
<1>2. Swept[h].tier = 2 /\ claim[h] = Swept[h]
  <2>1. Swept[h] = claim[h] /\ pc[h] # "idle"
    BY <1>1, SweptRows DEF ClaimsInductive, PlaceAgrees, NoClaim
  <2> QED
    BY <1>1, <2>1 DEF ClaimsInductive, PlaceAgrees, Tiers, Uninvited
<1>3. PICK w \in Contenders(Swept) : /\ w[1] = h[1]
                                     /\ \A g \in Contenders(Swept) : ~Before(Swept, g, w)
  BY <1>2 DEF Wins
<1>4. w \in Handlers /\ Swept[w].state \in {"claimed", "executing"} /\ Swept[w] = claim[w]
  BY SweptRows DEF Contenders, ClaimsInductive
<1>5. w[2] # "peer"
  <2> SUFFICES ASSUME w[2] = "peer" PROVE FALSE
    OBVIOUS
  <2>1. w = <<h[1], "peer">> /\ <<h[1], "peer">> \in Handlers
    BY <1>3, <1>4, HandlerPairs
  <2>2. Swept[w].state = "claimed" /\ Swept[w].tier = 3
    BY <1>4, <2>1 DEF Plain, NoClaim
  <2>3. Before(Swept, h, w) /\ h \in Contenders(Swept)
    BY <1>1, <1>2, <2>2 DEF Before, Contenders
  <2> QED
    BY <1>3, <2>3
<1>6. w = h
  BY <1>1, <1>3, <1>4, <1>5, HandlerPairs
<1> QED
  BY <1>3, <1>6

LEMMA ArbitrateVolunteers ==
    ASSUME ClaimsInductive, PlaceAgrees', NEW h \in Handlers, Arbitrate(h)
    PROVE  WinnerIsAhead' /\ OnePlainVolunteer'
<1>1. /\ pc[h] = "checked" /\ claim' = Swept /\ pc \in [Handlers -> Places]
      /\ pc' = [pc EXCEPT ![h] = IF Wins(Swept, h) THEN "won" ELSE "lost"]
  BY DEF Arbitrate, Goto, ClaimsInductive, ClaimsTypeOK
<1>2. \A g \in Handlers : /\ claim'[g].tier = claim[g].tier /\ claim'[g].eta = claim[g].eta
                          /\ claim'[g].state # "expired" => claim'[g] = claim[g]
                          /\ Lapsed(g) => Lapsed(g)'
  BY <1>1, SweptRows DEF ClaimsInductive, Lapsed
<1>3. \A g \in Handlers : g # h => pc'[g] = pc[g]
  BY <1>1
<1>4. CASE ~Wins(Swept, h)
  <2>1. pc'[h] = "lost"
    BY <1>1, <1>4
  <2>2. Settles
    BY <1>1, <1>2, <1>3, <2>1 DEF Settles
  <2> QED
    BY <2>2, VolunteersFrame
<1>5. CASE Wins(Swept, h)
  <2>1. pc'[h] = "won"
    BY <1>1, <1>5
  <2>2. \A a : Plain(a)' => Plain(a)
    BY <1>1, <1>2, <1>3, <2>1, PlainStays DEF PlainWas
  \* What is in flight is not before the winner.
  <2>3. ASSUME NEW g \in Handlers, h \in Agents \X {"user"}, Uninvited(h), Plain(h[1]),
               claim'[g].state \in {"claimed", "executing"}, claim'[h].state = "claimed"
        PROVE  ~Before(claim', g, h)
    BY <1>1, <1>5, <2>3, WinnerIsFirst DEF Contenders
  <2>4. ASSUME NEW g \in Agents \X {"user"}, NEW k \in Agents \X {"user"},
               g # k, Uninvited(g)', Uninvited(k)',
               pc'[g] = "won", ~Lapsed(g)', Plain(g[1])',
               pc'[k] \in {"waiting", "checked"}, ~Lapsed(k)'
        PROVE  Ahead(g, k)'
    <3>1. g \in Handlers /\ k \in Handlers /\ g[1] # k[1]
      BY <2>4, HandlerPairs
    <3>2. /\ Uninvited(g) /\ Uninvited(k) /\ ~Lapsed(g) /\ ~Lapsed(k) /\ Plain(g[1])
          /\ k # h /\ pc[k] \in {"waiting", "checked"}
      BY <1>2, <1>3, <2>1, <2>2, <2>4, <3>1 DEF Uninvited
    <3>3. Ahead(g, k) => Ahead(g, k)'
      BY <1>2, <3>1 DEF Ahead
    <3>4. CASE g # h
      BY <1>3, <2>4, <3>1, <3>2, <3>3, <3>4 DEF ClaimsInductive, WinnerIsAhead
    <3>5. CASE g = h
      <4>1. claim'[k].state = "claimed" /\ claim'[h].state = "claimed"
        BY <2>1, <2>4, <3>1, <3>5 DEF PlaceAgrees, Lapsed
      <4>2. ~Before(claim', k, h)
        BY <2>3, <3>1, <3>2, <3>5, <2>4, <4>1
      <4>3. ~Ahead(k, h)
        BY <1>2, <3>1, <4>1, <4>2 DEF Before, Ahead
      <4>4. Ahead(h, k)
        BY <3>1, <3>5, <4>3, AheadIsTotal DEF ClaimsInductive
      <4> QED
        BY <3>3, <3>5, <4>4
    <3> QED
      BY <3>4, <3>5
  \* Against the winner nobody else is answering.
  <2>5. ASSUME NEW g \in Agents \X {"user"}, h \in Agents \X {"user"},
               g # h, Uninvited(g)', Uninvited(h)', pc[g] \in {"won", "working"}
        PROVE  Lapsed(g)' \/ Lapsed(h)' \/ ~Plain(g[1])' \/ ~Plain(h[1])'
    <3> SUFFICES ASSUME ~Lapsed(g)', ~Lapsed(h)', Plain(g[1])', Plain(h[1])'
                 PROVE  FALSE
      OBVIOUS
    <3>1. g \in Handlers /\ Uninvited(g) /\ Uninvited(h)
      BY <1>2, <2>5, HandlerPairs DEF Uninvited
    <3>2. Plain(g[1]) /\ Plain(h[1]) /\ ~Lapsed(g) /\ ~Lapsed(h)
      BY <1>2, <2>2, <3>1
    <3>3. claim'[h].state = "claimed" /\ pc'[g] = pc[g]
      BY <1>3, <2>1, <2>5, <3>1 DEF PlaceAgrees, Lapsed
    <3>4. CASE pc[g] = "working"
      <4>1. claim'[g].state = "executing"
        BY <3>1, <3>3, <3>4 DEF PlaceAgrees, Lapsed
      <4>2. Before(claim', g, h)
        BY <3>3, <4>1 DEF Before
      <4> QED
        BY <2>3, <2>5, <3>1, <3>2, <3>3, <4>1, <4>2
    <3>5. CASE pc[g] = "won"
      <4>1. claim'[g].state = "claimed"
        BY <3>1, <3>3, <3>5 DEF PlaceAgrees, Lapsed
      <4>2. Ahead(g, h)
        BY <1>1, <2>5, <3>1, <3>2, <3>5 DEF ClaimsInductive, WinnerIsAhead
      <4>3. Before(claim', g, h)
        BY <1>2, <3>1, <3>3, <4>1, <4>2 DEF Before, Ahead
      <4> QED
        BY <2>3, <2>5, <3>1, <3>2, <3>3, <4>1, <4>3
    <3> QED
      BY <2>5, <3>4, <3>5
  <2>6. ASSUME NEW g \in Agents \X {"user"}, NEW k \in Agents \X {"user"},
               g # k, Uninvited(g)', Uninvited(k)',
               pc'[g] \in {"won", "working"}, pc'[k] \in {"won", "working"}
        PROVE  \/ Lapsed(g)' \/ Lapsed(k)'
               \/ ~Plain(g[1])' \/ ~Plain(k[1])'
    <3>1. g \in Handlers /\ k \in Handlers
      BY HandlerPairs
    <3>2. CASE g # h /\ k # h
      <4>1. Lapsed(g) \/ Lapsed(k) \/ ~Plain(g[1]) \/ ~Plain(k[1])
        BY <1>2, <1>3, <2>6, <3>1, <3>2 DEF ClaimsInductive, OnePlainVolunteer, Uninvited
      <4> QED
        BY <1>2, <2>2, <3>1, <4>1
    <3>3. CASE g = h
      BY <1>3, <2>5, <2>6, <3>1, <3>3
    <3>4. CASE k = h
      BY <1>3, <2>5, <2>6, <3>1, <3>4
    <3> QED
      BY <3>2, <3>3, <3>4
  <2>7. WinnerIsAhead'
    BY <2>4 DEF WinnerIsAhead
  <2>8. OnePlainVolunteer'
    BY <2>6 DEF OnePlainVolunteer
  <2> QED
    BY <2>7, <2>8
<1> QED
  BY <1>4, <1>5

\* Who loses while nobody answers has somebody ahead, unless its cap is zero;
\* that somebody waits, or has a cap of zero, or has itself lost to a row that
\* is ahead of both.
LEMMA ArbitrateQuiet ==
    ASSUME ClaimsInductive, PlaceAgrees', NEW h \in Handlers, Arbitrate(h)
    PROVE  SomeoneIsAhead'
<1> SUFFICES ASSUME Quiet'
             PROVE  \E m \in Handlers : /\ Standing(m)'
                                        /\ \A g \in Handlers : Beaten(g)' => Ahead(m, g)'
  BY DEF SomeoneIsAhead
<1>1. /\ pc[h] = "checked" /\ claim' = Swept /\ chat' = chat /\ pc \in [Handlers -> Places]
      /\ pc' = [pc EXCEPT ![h] = IF Wins(Swept, h) THEN "won" ELSE "lost"]
  BY DEF Arbitrate, Goto, ClaimsInductive, ClaimsTypeOK
<1>2. ~Wins(Swept, h) /\ pc'[h] = "lost"
  BY <1>1 DEF Quiet
<1>3. \A g \in Handlers : g # h => pc'[g] = pc[g]
  BY <1>1
<1>4. \A g \in Handlers : claim'[g] = claim[g] /\ Swept[g] = claim[g] /\ ~Lapsed(g)
  BY <1>1, SweptRows DEF ClaimsInductive, Quiet, Lapsed
<1>5. Quiet
  BY <1>1, <1>3, <1>4 DEF Quiet
<1>6. \A g \in Handlers : pc[g] # "idle" => g[2] = "user"
  BY <1>5, HandlerPairs DEF ClaimsInductive, ChatAgrees, Quiet
<1>7. \A g \in Handlers : /\ claim[g].state \in {"none", "claimed", "cancelled"}
                          /\ claim[g].state = "claimed" => pc[g] \in {"waiting", "checked", "lost"}
  BY <1>4, <1>5 DEF ClaimsInductive, PlaceAgrees, NoClaim, Quiet, Lapsed
<1>8. \A x, y \in Handlers : Ahead(x, y)' <=> Ahead(x, y)
  BY <1>4 DEF Ahead
<1>9. PICK m \in Handlers : Standing(m) /\ \A x \in Handlers : Beaten(x) => Ahead(m, x)
  BY <1>1, <1>5 DEF ClaimsInductive, SomeoneIsAhead
<1>10. \A x \in Handlers : x # h => (Standing(x) => Standing(x)') /\ (Beaten(x)' => Beaten(x))
  BY <1>3 DEF Standing, Beaten, Reticent
<1>11. CASE Reticent(h)
  <2>1. Standing(m)' /\ ~Beaten(h)'
    BY <1>2, <1>9, <1>10, <1>11 DEF Standing, Beaten, Reticent
  <2>2. \A x \in Handlers : Beaten(x)' => Ahead(m, x)'
    BY <1>8, <1>9, <1>10, <2>1
  <2> QED
    BY <2>1, <2>2
<1>12. CASE m # h /\ Ahead(m, h)
  <2>1. Standing(m)'
    BY <1>9, <1>10, <1>12
  <2>2. \A x \in Handlers : Beaten(x)' => Ahead(m, x)'
    BY <1>8, <1>9, <1>10, <1>12
  <2> QED
    BY <2>1, <2>2
<1>13. CASE ~Reticent(h) /\ (m = h \/ ~Ahead(m, h))
  \* The loser was ahead of all who lost, but a row in flight is ahead of it.
  <2>1. m = h \/ Ahead(h, m)
    <3>1. m # h => m[1] # h[1]
      BY <1>1, <1>6, <1>9, HandlerPairs DEF Standing
    <3> QED
      BY <1>13, <3>1, AheadIsTotal DEF ClaimsInductive
  <2>2. ASSUME NEW x \in Handlers, Beaten(x) PROVE Ahead(h, x)
    <3>1. Ahead(m, x)
      BY <1>9, <2>2
    <3> QED
      BY <2>1, <3>1, AheadIsTransitive DEF ClaimsInductive
  <2>3. Occupying(Swept) = {}
    BY <1>4, <1>7 DEF Occupying
  <2>4. Cardinality(Occupying(Swept)) < Cap[h[1]]
    BY <1>13, <2>3, FS_EmptySet, CapType DEF Reticent
  <2>5. h \in Contenders(Swept)
    <3>1. claim[h].state = "claimed"
      BY <1>1, <1>4 DEF ClaimsInductive, PlaceAgrees, Lapsed
    <3> QED
      BY <1>4, <3>1 DEF Contenders
  <2>6. PICK g \in Contenders(Swept) : Before(Swept, g, h)
    BY <1>2, <2>4, <2>5 DEF Wins
  <2>7. /\ g \in Handlers /\ pc[g] \in {"waiting", "checked", "lost"}
        /\ claim[g].state = "claimed" /\ claim[h].state = "claimed" /\ Ahead(g, h)
    BY <1>4, <1>7, <2>5, <2>6 DEF Contenders, Before, Ahead
  <2>8. ~Beaten(g) /\ g # h
    <3>1. ~Ahead(h, g)
      BY <2>7, AheadIsTransitive DEF ClaimsInductive
    <3> QED
      BY <2>2, <2>7, <3>1
  <2>9. Standing(g)'
    BY <1>10, <2>7, <2>8 DEF Standing, Beaten
  <2>10. ASSUME NEW x \in Handlers, Beaten(x)' PROVE Ahead(g, x)'
    <3>1. CASE x = h
      BY <1>8, <2>7, <3>1
    <3>2. CASE x # h
      <4>1. Ahead(h, x)
        BY <1>10, <2>2, <2>10, <3>2
      <4> QED
        BY <1>8, <2>7, <4>1, AheadIsTransitive DEF ClaimsInductive
    <3> QED
      BY <3>1, <3>2
  <2> QED
    BY <2>7, <2>9, <2>10
<1> QED
  BY <1>11, <1>12, <1>13

-----------------------------------------------------------------------------
\* The cap.

LEMMA FiniteHandlers ==
    /\ IsFiniteSet(Agents) /\ IsFiniteSet(Handlers)
    /\ \A S : S \subseteq Handlers => IsFiniteSet(S) /\ Cardinality(S) \in Nat
    /\ \A S : S \subseteq Agents => IsFiniteSet(S) /\ Cardinality(S) \in Nat
<1>1. IsFiniteSet(Agents) /\ PeerHandlers \in SUBSET Agents
  BY ClaimsAssumption
<1>2. IsFiniteSet(PeerHandlers)
  BY <1>1, FS_Subset
<1>3. IsFiniteSet({"user"}) /\ IsFiniteSet({"peer"})
  BY FS_Singleton
<1>4. IsFiniteSet(Agents \X {"user"}) /\ IsFiniteSet(PeerHandlers \X {"peer"})
  BY <1>1, <1>2, <1>3, FS_Product
<1>5. IsFiniteSet(Handlers)
  BY <1>4, FS_Union DEF Handlers
<1> QED
  BY <1>1, <1>5, FS_Subset, FS_CardinalityType

\* A set without two members has at most one.
LEMMA AtMostOne ==
    ASSUME NEW S, \A x, y \in S : x = y
    PROVE  Cardinality(S) \in Nat /\ Cardinality(S) <= 1
<1>1. CASE S = {}
  BY <1>1, FS_EmptySet
<1>2. CASE S # {}
  <2>1. PICK x : S = {x}
    BY <1>2
  <2> QED
    BY <2>1, FS_Singleton
<1> QED
  BY <1>1, <1>2

\* Every winner but one can be charged to an agent that reacts, one each: its
\* reaction, or else its volunteer.
LEMMA OneEach ==
    ASSUME NEW W, NEW R, W \subseteq Handlers, R \subseteq Agents,
           \A h \in W : h[2] = "peer" => h[1] \in R,
           \A g, h \in W : /\ g[2] = "user" /\ (g[1] \in R => <<g[1], "peer">> \in W)
                           /\ h[2] = "user" /\ (h[1] \in R => <<h[1], "peer">> \in W)
                           => g = h
    PROVE  Cardinality(W) <= 1 + Cardinality(R)
<1> DEFINE Extra == {h \in W : h[2] = "user" /\ (h[1] \in R => <<h[1], "peer">> \in W)}
           Rest == W \ Extra
           f == [h \in Rest |-> h[1]]
<1>1. Cardinality(Extra) \in Nat /\ Cardinality(Extra) <= 1
  BY AtMostOne
<1>2. f \in [Rest -> R]
  <2>1. ASSUME NEW h \in Rest PROVE h[1] \in R
    BY HandlerPairs
  <2> QED
    BY <2>1
<1>3. ASSUME NEW g \in Rest, NEW h \in Rest, f[g] = f[h] PROVE g = h
  <2>1. g \in Handlers /\ h \in Handlers /\ g[1] = h[1]
    BY <1>3
  <2>2. g[2] = h[2]
    <3>1. ASSUME NEW x \in Rest, NEW y \in Rest, x[1] = y[1], x[2] = "user", y[2] = "peer"
          PROVE  FALSE
      <4>1. y = <<x[1], "peer">>
        BY <3>1, HandlerPairs
      <4> QED
        BY <3>1, <4>1
    <3> QED
      BY <2>1, <3>1, HandlerPairs
  <2> QED
    BY <2>1, <2>2, HandlerPairs
<1>4. f \in Injection(Rest, R)
  BY <1>2, <1>3 DEF Injection, IsInjective
<1> HIDE DEF f
<1>5. Cardinality(Rest) <= Cardinality(R)
  BY <1>4, FiniteHandlers, FS_Injection
<1>6. W = Extra \cup Rest /\ Extra \cap Rest = {}
  OBVIOUS
<1>7. IsFiniteSet(Extra) /\ IsFiniteSet(Rest)
  BY FiniteHandlers
<1> HIDE DEF Extra, Rest
<1>8. Cardinality(W) = Cardinality(Extra) + Cardinality(Rest) - Cardinality({})
  BY <1>6, <1>7, FS_Union
<1>9. Cardinality(Rest) \in Nat /\ Cardinality(R) \in Nat
  BY <1>7, FiniteHandlers, FS_CardinalityType
<1> QED
  BY <1>1, <1>5, <1>8, <1>9, FS_EmptySet

LEMMA ReactingStays ==
    ASSUME ClaimsInductive, PlaceAgrees', NEW a,
           \A g \in Handlers : pc[g] # "idle" => pc'[g] # "idle",
           Reacting(a)
    PROVE  Reacting(a)'
<1>1. <<a, "peer">> \in Handlers /\ claim[<<a, "peer">>] # NoClaim
  BY DEF Reacting
<1>2. pc'[<<a, "peer">>] # "idle"
  BY <1>1 DEF ClaimsInductive, PlaceAgrees
<1>3. claim'[<<a, "peer">>] # NoClaim
  BY <1>1, <1>2 DEF PlaceAgrees, NoClaim
<1> QED
  BY <1>1, <1>3 DEF Reacting

\* A step that takes no slot keeps the bound.
LEMMA SlotsFrame ==
    ASSUME ClaimsInductive, PlaceAgrees', Slots' \subseteq Slots,
           \A g \in Handlers : pc[g] # "idle" => pc'[g] # "idle"
    PROVE  SlotsHold'
<1>1. Slots \subseteq Handlers /\ Slots' \subseteq Handlers
  BY DEF Slots, Occupying, Winners
<1>2. Reactors \subseteq Reactors' /\ Reactors' \subseteq Agents
  BY ReactingStays DEF Reactors
<1>3. Cardinality(Slots') <= Cardinality(Slots)
  BY <1>1, FiniteHandlers, FS_Subset
<1>4. Cardinality(Reactors) <= Cardinality(Reactors')
  BY <1>2, FiniteHandlers, FS_Subset
<1>5. /\ Cardinality(Slots) \in Nat /\ Cardinality(Slots') \in Nat
      /\ Cardinality(Reactors) \in Nat /\ Cardinality(Reactors') \in Nat
  BY <1>1, <1>2, FiniteHandlers
<1>6. CASE Slots' # {}
  <2>1. PICK a \in Agents : Cardinality(Slots) <= Cap[a] + Cardinality(Reactors)
    BY <1>6 DEF ClaimsInductive, SlotsHold
  <2>2. Cap[a] \in Nat
    BY ClaimsAssumption
  <2>3. Cardinality(Slots') <= Cap[a] + Cardinality(Reactors')
    BY <1>3, <1>4, <1>5, <2>1, <2>2
  <2> QED
    BY <2>3 DEF SlotsHold
<1> QED
  BY <1>6 DEF SlotsHold

LEMMA WinnersCharged ==
    ASSUME PlaceAgrees', OnePlainVolunteer'
    PROVE  Cardinality(Winners') <= 1 + Cardinality(Reactors')
<1>1. Winners' \subseteq Handlers /\ Reactors' \subseteq Agents
  BY DEF Winners, Reactors
<1>2. ASSUME NEW h \in Winners', h[2] = "peer"
      PROVE  /\ h[1] \in Reactors' /\ Plain(h[1])'
  <2>1. h \in Handlers /\ h = <<h[1], "peer">> /\ h[1] \in Agents
    BY <1>1, <1>2, HandlerPairs, ClaimsAssumption DEF Handlers
  <2>2. claim'[h].state = "claimed" /\ claim'[h].tier \in {1, 3} /\ claim'[h].tier > 1
    BY <1>2, <2>1 DEF Winners, Uninvited, Lapsed, PlaceAgrees, Tiers
  <2>3. claim'[h] # NoClaim
    BY <2>2 DEF NoClaim
  <2> QED
    BY <2>1, <2>2, <2>3 DEF Reactors, Reacting, Plain
<1>3. ASSUME NEW h \in Winners', h[2] = "user",
             h[1] \in Reactors' => <<h[1], "peer">> \in Winners'
      PROVE  h \in Agents \X {"user"} /\ Plain(h[1])'
  <2>1. h \in Agents \X {"user"} /\ h[1] \in Agents
    BY <1>1, <1>3, HandlerPairs
  <2>2. CASE h[1] \in Reactors'
    <3> DEFINE p == <<h[1], "peer">>
    <3>1. p \in Winners' /\ p[2] = "peer" /\ p[1] = h[1]
      BY <1>3, <2>2
    <3> QED
      BY <1>2, <2>1, <3>1
  <2>3. CASE h[1] \notin Reactors'
    BY <2>1, <2>3 DEF Reactors, Reacting, Plain
  <2> QED
    BY <2>1, <2>2, <2>3
<1>4. ASSUME NEW g \in Winners', NEW h \in Winners',
             g[2] = "user", g[1] \in Reactors' => <<g[1], "peer">> \in Winners',
             h[2] = "user", h[1] \in Reactors' => <<h[1], "peer">> \in Winners'
      PROVE  g = h
  <2>1. /\ g \in Agents \X {"user"} /\ Plain(g[1])'
        /\ h \in Agents \X {"user"} /\ Plain(h[1])'
    BY <1>3, <1>4
  <2> QED
    BY <2>1 DEF OnePlainVolunteer, Winners
<1>5. \A h \in Winners' : h[2] = "peer" => h[1] \in Reactors'
  BY <1>2
<1> QED
  BY <1>1, <1>4, <1>5, OneEach

LEMMA ArbitrateSlots ==
    ASSUME ClaimsInductive, PlaceAgrees', OnePlainVolunteer', NEW h \in Handlers, Arbitrate(h)
    PROVE  SlotsHold'
<1>1. /\ pc[h] = "checked" /\ claim' = Swept /\ pc \in [Handlers -> Places]
      /\ pc' = [pc EXCEPT ![h] = IF Wins(Swept, h) THEN "won" ELSE "lost"]
  BY DEF Arbitrate, Goto, ClaimsInductive, ClaimsTypeOK
<1>2. \A g \in Handlers : /\ claim'[g].tier = claim[g].tier
                          /\ claim'[g].state # "expired" => claim'[g] = claim[g]
                          /\ Lapsed(g) => Lapsed(g)'
  BY <1>1, SweptRows DEF ClaimsInductive, Lapsed
<1>3. \A g \in Handlers : g # h => pc'[g] = pc[g]
  BY <1>1
<1>4. CASE Wins(Swept, h) /\ Uninvited(h)
  <2>1. Cardinality(Occupying(Swept)) < Cap[h[1]]
    BY <1>1, <1>2, <1>4, RowTypes DEF Wins, Uninvited, ClaimsInductive
  <2> DEFINE O == Occupying(claim')
             W == Winners'
  <2>2. Cardinality(O) < Cap[h[1]] /\ Cardinality(W) <= 1 + Cardinality(Reactors')
    BY <1>1, <2>1, WinnersCharged
  <2>3. /\ IsFiniteSet(O) /\ IsFiniteSet(W) /\ Slots' = O \cup W
        /\ Cardinality(O) \in Nat /\ Cardinality(W) \in Nat
        /\ Cardinality(O \cap W) \in Nat /\ Cardinality(Reactors') \in Nat
    <3>1. O \subseteq Handlers /\ W \subseteq Handlers /\ Reactors' \subseteq Agents
          /\ O \cap W \subseteq Handlers
      BY DEF Occupying, Winners, Reactors
    <3>2. Slots' = O \cup W
      BY DEF Slots
    <3> QED
      BY <3>1, <3>2, FiniteHandlers
  <2> HIDE DEF O, W
  <2>4. Cardinality(O \cup W) = Cardinality(O) + Cardinality(W) - Cardinality(O \cap W)
    BY <2>3, FS_Union
  <2>5. Cardinality(O \cup W) <= Cap[h[1]] + Cardinality(Reactors')
    BY <2>2, <2>3, <2>4, CapType
  <2> QED
    BY <2>3, <2>5, CapType DEF SlotsHold
<1>5. CASE ~Wins(Swept, h) \/ ~Uninvited(h)
  <2>1. ASSUME NEW g \in Slots' PROVE g \in Slots
    <3>1. g \in Handlers
      BY DEF Slots, Occupying, Winners
    <3>2. CASE g \in Occupying(claim')
      BY <1>2, <3>1, <3>2 DEF Slots, Occupying
    <3>3. CASE g \in Winners'
      BY <1>1, <1>2, <1>3, <1>5, <3>1, <3>3 DEF Slots, Winners, Uninvited
    <3> QED
      BY <3>2, <3>3 DEF Slots
  <2>2. \A g \in Handlers : pc[g] # "idle" => pc'[g] # "idle"
    BY <1>1
  <2> QED
    BY <2>1, <2>2, SlotsFrame
<1> QED
  BY <1>4, <1>5

LEMMA OtherSlots ==
    ASSUME ClaimsInductive, PlaceAgrees', NEW h \in Handlers, HandlerStep(h), ~Arbitrate(h)
    PROVE  SlotsHold'
<1>1. \A g \in Handlers : pc[g] # "idle" => pc'[g] # "idle"
  <2> USE DEF ClaimsInductive, ClaimsTypeOK, Goto
  <2> QED
    BY DEF HandlerStep, Receive, Recheck, StandDown, BeginExecuting, Pass, Send, MarkSent,
           Drop, Outlive
<1>2. /\ pc \in [Handlers -> Places]
      /\ claim \in [Handlers -> [state: ClaimStates, tier: 0..3, eta: Nat]]
  BY DEF ClaimsInductive, ClaimsTypeOK
<1>3. \A g \in Handlers : g # h => claim'[g] = claim[g] /\ pc'[g] = pc[g]
  BY <1>2 DEF HandlerStep, Receive, Recheck, StandDown, BeginExecuting, Pass, Send, MarkSent,
              Drop, Outlive, Goto, SetClaim
<1>4. ASSUME h \in Slots' PROVE h \in Slots
  <2> USE <1>2, <1>4 DEF Goto, SetClaim, InFlight, Slots, Occupying, Winners, Uninvited, Lapsed
  <2>1. ASSUME NEW tier \in 1..3, NEW delay \in Delays, Receive(h, tier, delay)
        PROVE  FALSE
    BY <2>1 DEF Receive
  <2>2. CASE Recheck(h) \/ Drop(h)
    BY <2>2 DEF Recheck, Drop
  <2>3. CASE StandDown(h) \/ Pass(h)
    BY <2>3 DEF StandDown, Pass
  <2>4. CASE BeginExecuting(h)
    BY <2>4 DEF BeginExecuting
  <2>5. CASE Send(h) \/ Outlive(h)
    BY <2>5 DEF Send, Outlive
  <2>6. CASE MarkSent(h)
    <3>1. claim[h].state \in {"executing", "expired"}
      BY <2>6 DEF MarkSent, ClaimsInductive, PlaceAgrees
    <3> QED
      BY <2>6, <3>1 DEF MarkSent
  <2> QED
    BY <2>1, <2>2, <2>3, <2>4, <2>5, <2>6 DEF HandlerStep
<1>5. ASSUME NEW g \in Slots' PROVE g \in Slots
  <2>1. g \in Handlers
    BY DEF Slots, Occupying, Winners
  <2>2. CASE g # h
    BY <1>3, <2>1, <2>2 DEF Slots, Occupying, Winners, Uninvited, Lapsed
  <2> QED
    BY <1>4, <2>2
<1> QED
  BY <1>1, <1>5, SlotsFrame

-----------------------------------------------------------------------------

LEMMA HandlerKeeps ==
    ASSUME ClaimsInductive, NEW h \in Handlers, HandlerStep(h)
    PROVE  ClaimsInductive'
<1>1. ClaimsTypeOK'
  BY ClaimsTypes DEF ClaimsInductive, NextClaims
<1>2. PlaceAgrees' /\ ChatAgrees'
  BY PlacesStep
<1>3. WinnerIsAhead' /\ OnePlainVolunteer' /\ SomeoneIsAhead'
  <2>1. CASE \E tier \in 1..3, delay \in Delays : Receive(h, tier, delay)
    BY <1>2, <2>1, ReceiveKeeps
  <2>2. CASE Arbitrate(h)
    BY <1>2, <2>2, ArbitrateVolunteers, ArbitrateQuiet
  <2>3. CASE \/ Recheck(h) \/ StandDown(h) \/ BeginExecuting(h) \/ Pass(h)
             \/ Send(h) \/ MarkSent(h) \/ Drop(h) \/ Outlive(h)
    BY <1>2, <2>3, SettlingSteps, QuietSteps, VolunteersFrame
  <2> QED
    BY <2>1, <2>2, <2>3 DEF HandlerStep
<1>4. SlotsHold'
  BY <1>2, <1>3, ArbitrateSlots, OtherSlots
<1> QED
  BY <1>1, <1>2, <1>3, <1>4 DEF ClaimsInductive

LEMMA ClaimsStep == ClaimsInductive /\ NextClaims => ClaimsInductive'
<1> SUFFICES ASSUME ClaimsInductive, NextClaims PROVE ClaimsInductive'
  OBVIOUS
<1>1. CASE ClockTicks
  <2>1. ClaimsTypeOK' /\ PlaceAgrees' /\ ChatAgrees'
    BY <1>1, ClaimsTypes, ClockStep DEF ClaimsInductive
  <2>2. UNCHANGED <<claim, pc, chat>>
    BY <1>1 DEF ClockTicks
  <2>3. WinnerIsAhead' /\ OnePlainVolunteer' /\ SomeoneIsAhead'
    BY <2>2 DEF ClaimsInductive, WinnerIsAhead, OnePlainVolunteer, SomeoneIsAhead, Quiet, Standing,
                Beaten, Reticent, Ahead, Uninvited, Lapsed, Plain
  <2>4. SlotsHold'
    BY <2>2 DEF ClaimsInductive, SlotsHold, Slots, Occupying, Winners, Reactors, Uninvited,
                Lapsed, Reacting
  <2> QED
    BY <2>1, <2>3, <2>4 DEF ClaimsInductive
<1>2. CASE \E h \in Handlers : HandlerStep(h)
  BY <1>2, HandlerKeeps
<1> QED
  BY <1>1, <1>2 DEF NextClaims

LEMMA ClaimsFrame == ClaimsInductive /\ UNCHANGED claimVars => ClaimsInductive'
<1> SUFFICES ASSUME ClaimsInductive, UNCHANGED claimVars PROVE ClaimsInductive'
  OBVIOUS
<1>1. UNCHANGED <<claim, pc, aged, chat, clock>>
  BY DEF claimVars
<1>2. ClaimsTypeOK' /\ PlaceAgrees' /\ ChatAgrees'
  BY <1>1 DEF ClaimsInductive, ClaimsTypeOK, PlaceAgrees, ChatAgrees
<1>3. WinnerIsAhead' /\ OnePlainVolunteer'
  BY <1>1 DEF ClaimsInductive, WinnerIsAhead, OnePlainVolunteer, Ahead, Uninvited, Lapsed,
              Plain
<1>4. SomeoneIsAhead'
  BY <1>1 DEF ClaimsInductive, SomeoneIsAhead, Quiet, Standing, Beaten, Reticent, Ahead,
              Lapsed
<1>5. SlotsHold'
  BY <1>1 DEF ClaimsInductive, SlotsHold, Slots, Occupying, Winners, Reactors, Uninvited,
              Lapsed, Reacting
<1> QED
  BY <1>2, <1>3, <1>4, <1>5 DEF ClaimsInductive

LEMMA VolunteersAnswer == ClaimsInductive => OneVolunteer
<1>1. \A a : ~Reacting(a) => Plain(a)
  BY DEF Reacting, Plain
<1> QED
  BY <1>1 DEF ClaimsInductive, OnePlainVolunteer, OneVolunteer

LEMMA SomeoneAnswers == ClaimsInductive => NoSilence
<1> SUFFICES ASSUME ClaimsInductive,
                    \A h \in Handlers : pc[h] \in {"idle", "silent"} /\ ~Lapsed(h),
                    \E h \in Handlers : pc[h] # "idle"
             PROVE  \E g \in Handlers :
                       /\ pc[g] = "silent" /\ Reticent(g)
                       /\ \A h \in Handlers : pc[h] = "silent" /\ ~Reticent(h) => Ahead(g, h)
  BY DEF NoSilence
<1>1. chat = {}
  BY DEF ClaimsInductive, ClaimsTypeOK, ChatAgrees
<1>2. Quiet
  BY <1>1 DEF Quiet
<1>3. PICK m \in Handlers : Standing(m) /\ \A g \in Handlers : Beaten(g) => Ahead(m, g)
  BY <1>2 DEF ClaimsInductive, SomeoneIsAhead
<1>4. pc[m] = "silent" /\ Reticent(m)
  BY <1>3 DEF Standing
<1> QED
  BY <1>3, <1>4 DEF Beaten

LEMMA VolunteersFit == ClaimsInductive => CapHolds
<1> SUFFICES ASSUME ClaimsInductive PROVE CapHolds
  OBVIOUS
<1> DEFINE C == {h \in Handlers : Committed(h) /\ Uninvited(h) /\ ~Lapsed(h)}
<1>1. ASSUME NEW h \in C PROVE h \in Slots
  <2>1. pc[h] = "won" \/ claim[h].state \in {"executing", "sent"}
    BY DEF Committed, ClaimsInductive, PlaceAgrees, Lapsed
  <2> QED
    BY <2>1 DEF Slots, Occupying, Winners, Uninvited
<1>2. C \subseteq Slots /\ Slots \subseteq Handlers /\ Reactors \subseteq Agents
  BY <1>1 DEF Slots, Occupying, Winners, Reactors
<1>3. Cardinality(C) <= Cardinality(Slots)
  BY <1>2, FiniteHandlers, FS_Subset
<1>4. Cardinality(C) \in Nat /\ Cardinality(Slots) \in Nat /\ Cardinality(Reactors) \in Nat
  BY <1>2, FiniteHandlers
<1>5. CASE C = {}
  BY <1>5 DEF CapHolds
<1>6. CASE C # {}
  <2>1. PICK a \in Agents : Cardinality(Slots) <= Cap[a] + Cardinality(Reactors)
    BY <1>2, <1>6 DEF ClaimsInductive, SlotsHold
  <2>2. Cap[a] \in Nat
    BY ClaimsAssumption
  <2> HIDE DEF C
  <2>3. Cardinality(C) <= Cap[a] + Cardinality(Reactors)
    BY <1>3, <1>4, <2>1, <2>2
  <2> QED
    BY <2>3 DEF CapHolds, C, Reactors
<1> QED
  BY <1>5, <1>6

\* For any agents, delays and caps, each agent's its own and zero included: two
\* volunteers are never let through at once, the uninvited answers stay within
\* the largest cap, and arbitration silences everybody only behind an agent whose
\* cap is zero.
THEOREM SpecArbitration == SpecClaims => [](OneVolunteer /\ CapHolds /\ NoSilence)
<1>1. InitClaims => ClaimsInductive
  BY ClaimsInit
<1>2. ClaimsInductive /\ [NextClaims]_claimVars => ClaimsInductive'
  BY ClaimsStep, ClaimsFrame
<1>3. ClaimsInductive => OneVolunteer /\ CapHolds /\ NoSilence
  BY SomeoneAnswers, VolunteersAnswer, VolunteersFit
<1> QED
  BY <1>1, <1>2, <1>3, PTL DEF SpecClaims
=============================================================================
