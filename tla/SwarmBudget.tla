---------------------------- MODULE SwarmBudget ----------------------------
(***************************************************************************)
(* Admission of model calls against the limits of the day and of a         *)
(* conversation.  Every process reserves a hold of the policy's estimate   *)
(* in swarm.db before it calls a model; the hold is settled with the       *)
(* call's price, released when the provider refused the request, or kept   *)
(* as unknown.  Under one hold a call may try several providers, one after *)
(* the other.                                                              *)
(*                                                                         *)
(* Amounts are whole units.  An account is what a limit is kept for: the   *)
(* day of the whole swarm, or one conversation on that day.                *)
(***************************************************************************)
EXTENDS Integers, FiniteSets

CONSTANTS Calls,    \* the model calls of all processes
          Accounts, \* the day, and the conversations
          Day,      \* the account of the whole swarm
          Charged,  \* the accounts each call is charged to
          Limit,    \* the limit of each account
          Estimate, \* reservation_usd
          Prices,   \* what a provider may bill
          Attempts, \* the configured providers of each call's chain
          MaxDays   \* bound on the midnights that pass

ASSUME BudgetAssumption ==
    /\ IsFiniteSet(Calls)
    /\ Day \in Accounts
    /\ Charged \in [Calls -> SUBSET Accounts]
    /\ \A c \in Calls : Day \in Charged[c]
    /\ Limit \in [Accounts -> Nat]
    /\ Estimate \in Nat /\ Prices \subseteq Nat
    /\ Attempts \in [Calls -> Nat \ {0}] /\ MaxDays \in Nat

VARIABLES
    spent,  \* swarm_costs and session_costs of today, per account
    hold,   \* budget_holds: the hold of each call, "past" once its day is over
    call,   \* the step of each call
    tried,  \* the providers it has asked
    doubt,  \* history: the requests of each call that may have been billed unseen
            \* today, numbered in the order in which its providers were tried
    excess, \* history: what settled prices added beyond their holds today, with the
            \* whole price of a call whose hold was yesterday's
    days    \* midnights so far

budgetVars == <<spent, hold, call, tried, doubt, excess, days>>

BudgetTypeOK ==
    /\ spent \in [Accounts -> Nat]
    /\ hold \in [Calls -> {"none", "held", "unknown", "past"}]
    /\ call \in [Calls -> {"new", "admitted", "asking", "ended"}]
    /\ tried \in [Calls -> Nat] /\ \A c \in Calls : tried[c] <= Attempts[c]
    /\ doubt \in [Calls -> SUBSET Nat]
    /\ excess \in [Accounts -> Nat]
    /\ days \in 0..MaxDays

InitBudget ==
    /\ spent = [a \in Accounts |-> 0]
    /\ hold = [c \in Calls |-> "none"]
    /\ call = [c \in Calls |-> "new"]
    /\ tried = [c \in Calls |-> 0]
    /\ doubt = [c \in Calls |-> {}]
    /\ excess = [a \in Accounts |-> 0]
    /\ days = 0

-----------------------------------------------------------------------------

\* Holds of today count, settled or not known.
Counts(c) == hold[c] \in {"held", "unknown"}
Holders(a) == {c \in Calls : a \in Charged[c] /\ Counts(c)}
Held(a) == Estimate * Cardinality(Holders(a))

\* Mutation: only what was spent counts, not what is held.
FitsSpent(a) == spent[a] + Estimate <= Limit[a]

\* reserve_budget: today's spend, the holds and the estimate fit every limit.
Fits(a) == spent[a] + Held(a) + Estimate <= Limit[a]

\* check_budget: an account whose spend has reached its limit takes no call.
\* (For a conversation the code adds its holds here too, as Fits does.)
Open(a) == spent[a] < Limit[a]

Admit(c) ==
    /\ call[c] = "new"
    /\ \A a \in Charged[c] : Open(a) /\ Fits(a)
    /\ hold' = [hold EXCEPT ![c] = "held"]
    /\ call' = [call EXCEPT ![c] = "admitted"]
    /\ UNCHANGED <<spent, tried, doubt, excess, days>>

Refuse(c) ==
    /\ call[c] = "new"
    /\ \E a \in Charged[c] : ~Open(a) \/ ~Fits(a)
    /\ call' = [call EXCEPT ![c] = "ended"]
    /\ UNCHANGED <<spent, hold, tried, doubt, excess, days>>

\* mark_budget_hold_unknown, release_budget_hold
Keep(c) == [hold EXCEPT ![c] = IF hold[c] = "held" THEN "unknown" ELSE hold[c]]
Release(c) == [hold EXCEPT ![c] = "none"]

\* The caller is cancelled before anything was sent.
Abort(c) ==
    /\ call[c] = "admitted" /\ tried[c] = 0
    /\ hold' = Release(c)
    /\ call' = [call EXCEPT ![c] = "ended"]
    /\ UNCHANGED <<spent, tried, doubt, excess, days>>

\* A call with several providers goes through a chain; with one it is made directly.
Chain(c) == Attempts[c] > 1

\* Mutation: the end of the chain is not noticed.
AskAgain(c) ==
    /\ call[c] = "admitted"
    /\ Chain(c) => Open(Day)
    /\ tried' = [tried EXCEPT ![c] = tried[c] + 1]
    /\ call' = [call EXCEPT ![c] = "asking"]
    /\ UNCHANGED <<spent, hold, doubt, excess, days>>

\* The next provider is asked; a chain looks first whether the day still takes
\* calls, and takes no second hold.
AskProvider(c) ==
    /\ call[c] = "admitted"
    /\ tried[c] < Attempts[c]
    /\ Chain(c) => Open(Day)
    /\ tried' = [tried EXCEPT ![c] = tried[c] + 1]
    /\ call' = [call EXCEPT ![c] = "asking"]
    /\ UNCHANGED <<spent, hold, doubt, excess, days>>

\* The day is spent, or the chain is at its end, which comes sooner when providers
\* cool down or cannot be built: neither error has a 4xx status.
GiveUpCall(c) ==
    /\ call[c] = "admitted" /\ Chain(c)
    /\ hold' = Keep(c)
    /\ call' = [call EXCEPT ![c] = "ended"]
    /\ UNCHANGED <<spent, tried, doubt, excess, days>>

\* settle_cost, in one transaction: the price is added to today's accounts and
\* the hold is dropped, whatever day it was taken on.
Overrun(c, price) ==
    IF Counts(c) THEN IF price > Estimate THEN price - Estimate ELSE 0 ELSE price

Settle(c) ==
    /\ call[c] = "asking"
    /\ \E price \in Prices :
         /\ spent' = [a \in Accounts |->
                        IF a \in Charged[c] THEN spent[a] + price ELSE spent[a]]
         /\ excess' = [a \in Accounts |->
                        IF a \in Charged[c] THEN excess[a] + Overrun(c, price) ELSE excess[a]]
    /\ hold' = Release(c)
    /\ call' = [call EXCEPT ![c] = "ended"]
    /\ UNCHANGED <<tried, doubt, days>>

\* Mutation: a call of unknown outcome gives its hold back.
EndUnknownReleases(c) ==
    /\ call[c] = "asking"
    /\ hold' = Release(c)
    /\ doubt' = [doubt EXCEPT ![c] = doubt[c] \cup {tried[c]}]
    /\ call' = [call EXCEPT ![c] = "ended"]
    /\ UNCHANGED <<spent, tried, excess, days>>

\* The answer arrived and its price could not be recorded; or the caller was
\* cancelled, or the error says nothing of a refusal.
EndUnknown(c) ==
    /\ call[c] = "asking"
    /\ hold' = Keep(c)
    /\ doubt' = [doubt EXCEPT ![c] = doubt[c] \cup {tried[c]}]
    /\ call' = [call EXCEPT ![c] = "ended"]
    /\ UNCHANGED <<spent, tried, excess, days>>

\* A timeout or a server error, which may have been billed, or a rate limit,
\* which was not: the chain goes on.
FallBack(c) ==
    /\ call[c] = "asking" /\ Chain(c)
    /\ doubt' \in {doubt, [doubt EXCEPT ![c] = doubt[c] \cup {tried[c]}]}
    /\ call' = [call EXCEPT ![c] = "admitted"]
    /\ UNCHANGED <<spent, hold, tried, excess, days>>

\* A refusal with a 4xx status that is not worth another provider, or that has
\* no chain to go on: the hold goes, also if an earlier provider timed out.
Refused(c) ==
    /\ call[c] = "asking"
    /\ hold' = Release(c)
    /\ call' = [call EXCEPT ![c] = "ended"]
    /\ UNCHANGED <<spent, tried, doubt, excess, days>>

\* The process dies: its hold stays as held.
CallDies(c) ==
    /\ call[c] \in {"admitted", "asking"}
    /\ doubt' = IF call[c] = "asking"
                THEN [doubt EXCEPT ![c] = doubt[c] \cup {tried[c]}] ELSE doubt
    /\ call' = [call EXCEPT ![c] = "ended"]
    /\ UNCHANGED <<spent, hold, tried, excess, days>>

\* The sums and the holds are those of the current day.
Midnight ==
    /\ days < MaxDays
    /\ days' = days + 1
    /\ spent' = [a \in Accounts |-> 0]
    /\ excess' = [a \in Accounts |-> 0]
    /\ hold' = [c \in Calls |-> IF Counts(c) THEN "past" ELSE hold[c]]
    /\ doubt' = [c \in Calls |-> {}]
    /\ UNCHANGED <<call, tried>>

CallStep(c) ==
    \/ Admit(c) \/ Refuse(c) \/ Abort(c) \/ AskProvider(c) \/ GiveUpCall(c)
    \/ Settle(c) \/ EndUnknown(c) \/ FallBack(c) \/ Refused(c) \/ CallDies(c)

NextBudget == Midnight \/ \E c \in Calls : CallStep(c)

SpecBudget == InitBudget /\ [][NextBudget]_budgetVars

-----------------------------------------------------------------------------

\* Whatever processes call at once and however their calls end, what today's
\* ledger counts for an account exceeds its limit by no more than what settled
\* prices added to their reservation of today, which is the whole price of a call
\* that was admitted before midnight.
SpendIsBounded ==
    \A a \in Accounts : spent[a] + Held(a) <= Limit[a] + excess[a]

\* A request that may have been billed and whose price was never learned is
\* counted by a hold while its call goes on, and afterwards, until midnight, if it
\* was the call's last request.
LastBillIsCounted ==
    \A c \in Calls :
        /\ doubt[c] # {} /\ hold[c] # "past"
        /\ call[c] # "ended" \/ tried[c] \in doubt[c]
        => Counts(c)

\* model_budget.py says of finish_hold that all but a refusal with a 4xx status, a
\* timeout included, keeps counting against today's limits.
UnknownKeepsCounting ==
    \A c \in Calls : doubt[c] # {} /\ hold[c] # "past" => Counts(c)
============================================================================
