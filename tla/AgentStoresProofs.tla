-------------------------- MODULE AgentStoresProofs --------------------------
(***************************************************************************)
(* Proofs about AgentStores as the runs check it: the invariants of its     *)
(* parts hold together, whichever tables a behaviour moves.                *)
(***************************************************************************)
EXTENDS AgentStores, SwarmRequestsProofs, MemoryResetProofs, ExpensesProofs

StoreInductive ==
    /\ ClaimsInductive
    /\ HandoffsInductive
    /\ ReviewsInductive
    /\ BudgetInductive
    /\ MemoryInductive
    /\ ExpensesInductive

\* The owner of the topic, let through by arbitration: a winner without rivals.
LEMMA OwnerInit == OwnerIsLetThrough => ClaimsInductive
<1> SUFFICES ASSUME OwnerIsLetThrough PROVE ClaimsInductive
  OBVIOUS
<1> DEFINE o == <<Owner, "user">>
           row == [state |-> "claimed", tier |-> 2, eta |-> 0]
<1>0. o \in Agents \X {"user"} /\ o \in Handlers /\ o[1] = Owner /\ o[2] = "user"
  BY StoreAssumption DEF Handlers
<1>1. /\ claim = [h \in Handlers |-> IF h = o THEN row ELSE NoClaim]
      /\ pc = [h \in Handlers |-> IF h = o THEN "won" ELSE "idle"]
      /\ aged = {} /\ chat = {} /\ clock = 0
  BY DEF OwnerIsLetThrough
<1> HIDE DEF o
<1>2. ClaimsTypeOK
  BY <1>1, ClaimsAssumption DEF ClaimsTypeOK, NoClaim, ClaimStates, Places
<1>3. /\ claim[o] = row /\ pc[o] = "won"
      /\ \A h \in Handlers : h # o => claim[h] = NoClaim /\ pc[h] = "idle"
  BY <1>0, <1>1
<1>4. PlaceAgrees
  <2>1. ASSUME NEW h \in Handlers, h # o PROVE claim[h] = NoClaim /\ pc[h] = "idle"
    BY <1>3, <2>1
  <2>2. /\ claim[o].tier \in Tiers(o) /\ claim[o].state = "claimed" /\ claim[o].eta <= clock
    BY <1>0, <1>1, <1>3 DEF Tiers
  <2> QED
    BY <1>3, <2>1, <2>2 DEF PlaceAgrees
<1>5. ChatAgrees
  BY <1>0, <1>1, <1>3 DEF ChatAgrees
<1>6. WinnerIsAhead /\ OnePlainVolunteer /\ SomeoneIsAhead
  <2>1. \A h \in Agents \X {"user"} : h # o => pc[h] = "idle"
    BY <1>3, HandlerPairs
  <2>2. ~Quiet
    BY <1>0, <1>3 DEF Quiet
  <2> QED
    BY <2>1, <2>2 DEF WinnerIsAhead, OnePlainVolunteer, SomeoneIsAhead
<1>7. SlotsHold
  <2>1. Slots \subseteq {o}
    BY <1>3 DEF Slots, Occupying, Winners, NoClaim
  <2>2. Cardinality(Slots) <= 1 /\ Cardinality(Slots) \in Nat
    BY <2>1, AtMostOne
  <2>3. Cardinality(Reactors) \in Nat
    BY FiniteHandlers DEF Reactors
  <2>4. Owner \in Agents /\ Cap[Owner] \in Nat /\ Cap[Owner] > 0
    BY StoreAssumption, ClaimsAssumption
  <2>5. Cardinality(Slots) <= Cap[Owner] + Cardinality(Reactors)
    BY <2>2, <2>3, <2>4
  <2> QED
    BY <2>4, <2>5 DEF SlotsHold
<1> QED
  BY <1>2, <1>4, <1>5, <1>6, <1>7 DEF ClaimsInductive

LEMMA StoreInit == Init => StoreInductive
<1> SUFFICES ASSUME Init PROVE StoreInductive
  OBVIOUS
<1>1. ExpensesInductive
  <2>1. CASE table = "expenses"
    <3>1. PICK s \in Scenes : StartWith(s)
      BY <2>1 DEF Init, InitExpenses
    <3>2. s \in [mails: SUBSET Mails, actors: SUBSET Actors]
      BY <3>1, ExpensesAssumption DEF Actors
    <3> QED
      BY <3>1, <3>2, ExpensesInit
  <2>2. CASE table # "expenses"
    <3> DEFINE nothing == [mails |-> {}, actors |-> {}]
    <3>1. StartWith(nothing)
      BY <2>2 DEF Init
    <3>2. nothing \in [mails: SUBSET Mails, actors: SUBSET Actors]
      OBVIOUS
    <3> QED
      BY <3>1, <3>2, ExpensesInit
  <2> QED
    BY <2>1, <2>2
<1> QED
  BY <1>1, OwnerInit, ClaimsInit, HandoffsInit, ReviewsInit, BudgetInit, MemoryInit
     DEF Init, StoreInductive

LEMMA StoreStep == StoreInductive /\ [Next]_storeVars => StoreInductive'
<1> SUFFICES ASSUME StoreInductive, [Next]_storeVars PROVE StoreInductive'
  OBVIOUS
<1> USE DEF StoreInductive
<1>1. CASE Claims
  <2>1. Audience[table] \subseteq Handlers
    BY <1>1, StoreAssumption DEF Claims
  <2>2. NextClaims
    BY <1>1, <2>1 DEF Claims, NextClaims
  <2> QED
    BY <1>1, <2>2, ClaimsStep, HandoffsFrame, ReviewsStep, BudgetStep, MemoryStep, ExpensesStep
       DEF Claims
<1>2. CASE Handoffs
  <2>1. ReviewsInductive' /\ BudgetInductive' /\ MemoryInductive' /\ ExpensesInductive'
    BY <1>2, ReviewsStep, BudgetStep, MemoryStep, ExpensesStep DEF Handoffs
  <2>2. CASE HandoffStep /\ UNCHANGED claimVars
    BY <2>1, <2>2, HandoffsStep, ClaimsFrame
  <2>3. CASE HandlerStep(<<Owner, "user">>) /\ UNCHANGED handoffVars
    <3>1. <<Owner, "user">> \in Handlers
      BY StoreAssumption DEF Handlers
    <3>2. ClaimsInductive'
      BY <2>3, <3>1, HandlerKeeps
    <3> QED
      BY <2>1, <2>3, <3>2, HandoffsFrame
  <2> QED
    BY <1>2, <2>2, <2>3 DEF Handoffs
<1>3. CASE Reviews
  BY <1>3, ClaimsFrame, HandoffsFrame, ReviewsStep, BudgetStep, MemoryStep, ExpensesStep DEF Reviews
<1>4. CASE Budget
  BY <1>4, ClaimsFrame, HandoffsFrame, ReviewsStep, BudgetStep, MemoryStep, ExpensesStep DEF Budget
<1>5. CASE InMemory(NextMemory)
  BY <1>5, ClaimsFrame, HandoffsFrame, ReviewsStep, BudgetStep, MemoryStep, ExpensesStep DEF InMemory
<1>6. CASE InExpenses(NextExpenses)
  BY <1>6, ClaimsFrame, HandoffsFrame, ReviewsStep, BudgetStep, MemoryStep, ExpensesStep DEF InExpenses
<1>7. CASE UNCHANGED storeVars
  BY <1>7, ClaimsFrame, HandoffsFrame, ReviewsStep, BudgetStep, MemoryStep, ExpensesStep DEF storeVars
<1> QED
  BY <1>1, <1>2, <1>3, <1>4, <1>5, <1>6, <1>7 DEF Next

\* The invariants of all parts, for every value of the constants.
THEOREM SpecInductive == Spec => []StoreInductive
<1>1. Init => StoreInductive
  BY StoreInit
<1>2. StoreInductive /\ [Next]_storeVars => StoreInductive'
  BY StoreStep
<1> QED
  BY <1>1, <1>2, PTL DEF Spec

-----------------------------------------------------------------------------
\* The properties that the runs check.

\* Every table holds what it may hold.
THEOREM SpecTypeOK == Spec => []TypeOK
<1>1. StoreInductive => TypeOK
  BY DEF StoreInductive, ClaimsInductive, HandoffsInductive, ReviewsInductive,
         BudgetInductive, MemoryInductive, ExpensesInductive, TypeOK
<1> QED
  BY <1>1, SpecInductive, PTL

\* can_send_claim and begin_executing, two transactions of several processes,
\* let no two volunteers answer one message at the same time.
THEOREM SpecOneVolunteer == Spec => []OneVolunteer
<1>1. StoreInductive => OneVolunteer
  BY VolunteersAnswer DEF StoreInductive
<1> QED
  BY <1>1, SpecInductive, PTL

\* The uninvited answers to a message stay within the largest cap of an agent.
THEOREM SpecCapHolds == Spec => []CapHolds
<1>1. StoreInductive => CapHolds
  BY VolunteersFit DEF StoreInductive
<1> QED
  BY <1>1, SpecInductive, PTL

\* Arbitration lets somebody through, whatever each agent's cap, unless an agent whose
\* cap is zero has claimed ahead of all others.
THEOREM SpecNoSilence == Spec => []NoSilence
<1>1. StoreInductive => NoSilence
  BY SomeoneAnswers DEF StoreInductive
<1> QED
  BY <1>1, SpecInductive, PTL

\* A request runs once however many polls take it, and a hand-off that reads
\* done was shown.
THEOREM SpecTakenOnce == Spec => []TakenOnce
<1>1. StoreInductive => TakenOnce
  BY DEF StoreInductive, HandoffsInductive, RequestAgrees, TakenOnce
<1> QED
  BY <1>1, SpecInductive, PTL

\* One hand-off comes of an overdue watch that all agents poll.
THEOREM SpecEscalatedOnce == Spec => []EscalatedOnce
<1>1. StoreInductive => EscalatedOnce
  BY MakersCount DEF StoreInductive, HandoffsInductive
<1> QED
  BY <1>1, SpecInductive, PTL

\* What the author of a challenge sends agrees with the row.
THEOREM SpecVerdictIsUsed == Spec => []VerdictIsUsed
<1>1. StoreInductive => VerdictIsUsed
  BY DEF StoreInductive, ReviewsInductive
<1> QED
  BY <1>1, SpecInductive, PTL

\* A council answers once, from every position.
THEOREM SpecCouncilAnswersOnce == Spec => []CouncilAnswersOnce
<1>1. StoreInductive => CouncilAnswersOnce
  BY DEF StoreInductive, ReviewsInductive
<1> QED
  BY <1>1, SpecInductive, PTL

\* What the ledger counts stays within every limit.
THEOREM SpecSpendIsBounded == Spec => []SpendIsBounded
<1>1. StoreInductive => SpendIsBounded
  BY DEF StoreInductive, BudgetInductive
<1> QED
  BY <1>1, SpecInductive, PTL

\* While a call goes on its requests that may have been billed are counted, and after
\* its end the last one is: an earlier provider's may be dropped by a later answer.
THEOREM SpecLastBillIsCounted == Spec => []LastBillIsCounted
<1>1. StoreInductive => LastBillIsCounted
  BY DEF StoreInductive, BudgetInductive
<1> QED
  BY <1>1, SpecInductive, PTL

\* Of the two layers that the gate covers, facts and the shared mirror, nothing that a
\* reset deleted comes back; the knowledge graph is not one of them.
THEOREM SpecNothingReturns == Spec => []NothingReturns
<1>1. StoreInductive => NothingReturns
  BY DEF StoreInductive, MemoryInductive
<1> QED
  BY <1>1, SpecInductive, PTL

\* Each mailed charge is created once, shown while in doubt, and archived only
\* when settled.
THEOREM SpecChargesAreKept == Spec => []ChargesAreKept
<1>1. StoreInductive => ChargesAreKept
  BY ChargesKept DEF StoreInductive
<1> QED
  BY <1>1, SpecInductive, PTL
=============================================================================
