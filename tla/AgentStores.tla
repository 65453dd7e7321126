---------------------------- MODULE AgentStores ----------------------------
(***************************************************************************)
(* The stores through which the processes and threads of the agents        *)
(* coordinate: the tables of swarm.db, the memory stores behind their      *)
(* gate, and the ledger of e-mailed expenses.  Claims and the requests     *)
(* between agents depend on each other; the other concerns share databases *)
(* and no row.  A behaviour moves the state of one concern, named by       *)
(* table, and leaves the rest as it was: the product would only multiply   *)
(* states.                                                                 *)
(*                                                                         *)
(* Two concerns are about claims: who may volunteer for a message, and     *)
(* what reactions to the answers of peers add to it.  Concern "handoffs"   *)
(* starts when arbitration has let the owner of the topic answer, and its  *)
(* handler goes on, or fails, while the watch runs; since no other agent   *)
(* asks to speak there, no transaction would expire the owner's row, and   *)
(* its lease is left out.                                                  *)
(***************************************************************************)
EXTENDS SwarmHandoffs, SwarmReviews, SwarmBudget, MemoryReset, Expenses

CONSTANTS Tables,   \* the concerns to explore
          Audience, \* the handlers whose router may answer, in each concern with claims
          Owner     \* the agent that owns the message's topic

ASSUME StoreAssumption ==
    /\ Audience \in [{"volunteers", "reactions"} -> SUBSET Handlers]
    /\ Tables \subseteq {"volunteers", "reactions", "handoffs", "reviews", "budget",
                         "memory", "expenses"}
    /\ Owner \in Agents /\ Cap[Owner] > 0

VARIABLE table

storeVars == <<claimVars, handoffVars, reviewVars, budgetVars, memoryVars,
               expenseVars, table>>

TypeOK ==
    /\ ClaimsTypeOK /\ HandoffsTypeOK /\ ReviewsTypeOK /\ BudgetTypeOK /\ MemoryTypeOK
    /\ ExpensesTypeOK

OwnerIsLetThrough ==
    /\ claim = [h \in Handlers |-> IF h = <<Owner, "user">>
                                   THEN [state |-> "claimed", tier |-> 2, eta |-> 0]
                                   ELSE NoClaim]
    /\ pc = [h \in Handlers |-> IF h = <<Owner, "user">> THEN "won" ELSE "idle"]
    /\ aged = {} /\ chat = {} /\ clock = 0

Init ==
    /\ table \in Tables
    /\ IF table = "handoffs" THEN OwnerIsLetThrough ELSE InitClaims
    /\ InitHandoffs /\ InitReviews /\ InitBudget /\ InitMemory
    /\ IF table = "expenses" THEN InitExpenses ELSE StartWith([mails |-> {}, actors |-> {}])

Claims ==
    /\ table \in DOMAIN Audience
    /\ ClockTicks \/ \E h \in Audience[table] : HandlerStep(h)
    /\ UNCHANGED <<handoffVars, reviewVars, budgetVars, memoryVars, expenseVars, table>>

Handoffs ==
    /\ table = "handoffs"
    /\ \/ HandoffStep /\ UNCHANGED claimVars
       \/ HandlerStep(<<Owner, "user">>) /\ UNCHANGED <<aged, handoffVars>>
    /\ UNCHANGED <<reviewVars, budgetVars, memoryVars, expenseVars, table>>

Reviews ==
    /\ table = "reviews" /\ NextReviews
    /\ UNCHANGED <<claimVars, handoffVars, budgetVars, memoryVars, expenseVars, table>>

Budget ==
    /\ table = "budget" /\ NextBudget
    /\ UNCHANGED <<claimVars, handoffVars, reviewVars, memoryVars, expenseVars, table>>

InMemory(A) ==
    /\ table = "memory" /\ A
    /\ UNCHANGED <<claimVars, handoffVars, reviewVars, budgetVars, expenseVars, table>>

InExpenses(A) ==
    /\ table = "expenses" /\ A
    /\ UNCHANGED <<claimVars, handoffVars, reviewVars, budgetVars, memoryVars, table>>

Next == Claims \/ Handoffs \/ Reviews \/ Budget \/ InMemory(NextMemory) \/ InExpenses(NextExpenses)

Spec == Init /\ [][Next]_storeVars

\* A thread inside the memory gate goes on, and a reset that may take the gate
\* is woken (notify_all); the scheduler starts the expenses job again.
FairSpec ==
    /\ Spec
    /\ \A w \in Writers : WF_storeVars(InMemory(InsideStep(w)))
    /\ \A r \in Resets : WF_storeVars(InMemory(HolderStep(r)))
    /\ WF_storeVars(InExpenses(RunnerStep(Daily)))
============================================================================
