---------------------------- MODULE DurableTurn ----------------------------
(***************************************************************************)
(* The durable turn runtime: the rows of one agent's session database      *)
(* (kronos/session.py), the executors that write them (kronos/graph.py,    *)
(* kronos/engine.py), the per-conversation kernel lock that keeps them     *)
(* apart (kronos/turn_ownership.py), and the outside world their tool      *)
(* calls reach.                                                            *)
(*                                                                         *)
(* One action is one committed transaction, one message to the outside     *)
(* world, or one step at which an executor may be killed and lose its      *)
(* memory.  A tool call is abstracted to its operation: the tool together  *)
(* with its arguments.  Every operation has a side effect.                 *)
(***************************************************************************)
EXTENDS Naturals, Sequences, FiniteSets

CONSTANTS
    Executors,    \* tasks able to run a turn: chat, approval, resume
    Threads,      \* conversations
    Ops,          \* operations: a tool with its arguments
    NaturalOps,   \* operations whose tool declares its own idempotency key
    GatedOps,     \* operations that need a human approval
    MaxAttempts,  \* resume attempts allowed by the policy
    MaxTurns,     \* bound: turns ever begun
    MaxRounds,    \* bound: model responses with tool calls in one turn
    MaxBatch,     \* bound: tool calls in one model response
    MaxCrashes,   \* bound: executors killed or cancelled
    NoOne, NoThread, NoOp

ASSUME ConstantsAssumption ==
    /\ NaturalOps \subseteq Ops /\ GatedOps \subseteq Ops
    /\ MaxAttempts \in Nat \ {0} /\ MaxTurns \in Nat /\ MaxRounds \in Nat
    /\ MaxBatch \in Nat /\ MaxCrashes \in Nat
    /\ NoOne \notin Executors /\ NoThread \notin Threads /\ NoOp \notin Ops

VARIABLES
    \* active_turns, in rowid order
    turns,        \* rows inserted so far
    status, thread, attempts,
    notify,       \* delivery_requested
    \* turn_journal and tool_results
    journal,      \* the last model response: its calls, the answered, those
                  \* whose result is memoized, those memoized as an error
    \* pending_approvals, the last one of each turn
    gate,
    \* effect_intents and external_effects
    ledger,
    \* sessions
    hist,         \* the turns a conversation's saved history holds
    \* kernel locks and the memory of live executors
    lock, exec,
    \* the outside world
    world,        \* where the last request for a key is
    times,        \* how often a key's operation was carried out
    \* history variables
    waived,       \* keys whose unknown outcome an operator accepted
    forgotten,    \* business keys whose record retention dropped
    granted,      \* operations a human approved in a turn and did not refuse since
    cleared,      \* turns a user's /clear removed from a conversation
    crashes

rows  == <<turns, status, thread, attempts, notify>>
outer == <<world, times>>
trust == <<waived, forgotten>>
vars  == <<rows, journal, gate, ledger, hist, lock, exec, outer,
           trust, granted, cleared, crashes>>

-----------------------------------------------------------------------------
Turns    == 1..MaxTurns
Active   == {"running", "resuming"}
Unended  == Active \cup {"waiting_approval"}
Terminal == {"done", "failed", "superseded", "recovered"}
Statuses == {"none", "pruned"} \cup Unended \cup Terminal

\* side_effect_key: the turn is part of the key unless the tool declares one.
Key(t, op) == <<IF op \in NaturalOps THEN 0 ELSE t, op>>
Keys       == (0..MaxTurns) \X Ops
Natural(k) == k[2] \in NaturalOps

CallIds == (0..MaxTurns) \X (0..MaxRounds) \X (0..MaxBatch)
NoEntry == [st |-> "none", turn |-> 0, call |-> <<0, 0, 0>>, owner |-> NoOne]
NoAsk   == [st |-> "none", call |-> 0, op |-> NoOp]
NoBatch == [round |-> 0, batch |-> <<>>, answered |-> {}, cache |-> {},
            denied |-> {}]
Idle    == [pc |-> "idle", turn |-> 0, thread |-> NoThread, call |-> 0,
            path |-> "loop", replay |-> FALSE, exempt |-> NoOp, seen |-> {}]

\* Program points between which an executor can die.
InTurn  == {"model", "call", "dispatch", "await", "finish", "cache", "journal",
            "pauseDone", "pauseDefer", "append", "resumed"}
Points  == {"idle", "begin", "finalize", "failing"} \cup InTurn

At(e, pc)  == exec[e].pc = pc
T(e)       == exec[e].turn
Calls(t)   == DOMAIN journal[t].batch
Op(e)      == journal[T(e)].batch[exec[e].call]
K(e)       == Key(T(e), Op(e))
CallId(e)  == <<T(e), journal[T(e)].round, exec[e].call>>
PendingIn(t) == \E k \in Keys : ledger[k].st = "pending" /\ ledger[k].turn = t
Cached(e)  == exec[e].call \in journal[T(e)].cache \cup journal[T(e)].denied

\* The next call of the batch that still has no journalled result.
CallsAfter(t, i) == {j \in Calls(t) : j > i /\ j \notin journal[t].answered}
Firsts(S)        == {j \in S : \A m \in S : j <= m}

Free(th)   == lock[th] = NoOne
Own(e, th) == exec[e] = Idle /\ Free(th) /\ lock' = [lock EXCEPT ![th] = e]
\* The context manager unwinds: the descriptor is closed, the lock is free.
Unwind(e)  == /\ lock' = [lock EXCEPT ![exec[e].thread] = NoOne]
              /\ exec' = [exec EXCEPT ![e] = Idle]
Goto(e, pc) == exec' = [exec EXCEPT ![e].pc = pc] /\ UNCHANGED lock

\* The sequential pass moves to the next call, or to the end of the batch.
Advance(e) ==
    LET rest == CallsAfter(T(e), exec[e].call)
    IN  \/ exec[e].path = "gate" /\ Goto(e, "append")
        \/ exec[e].path = "loop" /\ rest = {} /\ Goto(e, "journal")
        \/ /\ exec[e].path = "loop"
           /\ \E j \in Firsts(rest) :
                exec' = [exec EXCEPT ![e].pc = "call", ![e].call = j]
           /\ UNCHANGED lock

-----------------------------------------------------------------------------
Init ==
    /\ turns = 0
    /\ status = [t \in Turns |-> "none"]
    /\ thread = [t \in Turns |-> NoThread]
    /\ attempts = [t \in Turns |-> 0]
    /\ notify = [t \in Turns |-> FALSE]
    /\ journal = [t \in Turns |-> NoBatch]
    /\ gate = [t \in Turns |-> NoAsk]
    /\ ledger = [k \in Keys |-> NoEntry]
    /\ hist = [th \in Threads |-> {}]
    /\ lock = [th \in Threads |-> NoOne]
    /\ exec = [e \in Executors |-> Idle]
    /\ world = [k \in Keys |-> "idle"]
    /\ times = [k \in Keys |-> 0]
    /\ waived = {}
    /\ forgotten = {}
    /\ granted = [t \in Turns |-> {}]
    /\ cleared = [th \in Threads |-> {}]
    /\ crashes = 0

-----------------------------------------------------------------------------
(* A new message: own the conversation, load its history, open a turn.      *)

Invoke(e, th) ==
    /\ turns < MaxTurns
    /\ Own(e, th)
    /\ exec' = [exec EXCEPT ![e] = [Idle EXCEPT !.pc = "begin", !.thread = th,
                                                !.seen = hist[th]]]
    /\ UNCHANGED <<rows, journal, gate, ledger, hist, outer, trust, granted,
                   cleared, crashes>>

\* validate_input refused the message: the history is saved, no turn is opened.
RejectInput(e) ==
    /\ At(e, "begin")
    /\ hist' = [hist EXCEPT ![exec[e].thread] = exec[e].seen]
    /\ Unwind(e)
    /\ UNCHANGED <<rows, journal, gate, ledger, outer, trust, granted,
                   cleared, crashes>>

BeginTurn(e) ==
    LET t == turns + 1 IN
    /\ At(e, "begin")
    /\ t \in Turns
    /\ turns' = t
    /\ status' = [status EXCEPT ![t] = "running"]
    /\ thread' = [thread EXCEPT ![t] = exec[e].thread]
    /\ exec' = [exec EXCEPT ![e].pc = "model", ![e].turn = t]
    /\ UNCHANGED <<attempts, notify, journal, gate, ledger, hist, lock, outer,
                   trust, granted, cleared, crashes>>

-----------------------------------------------------------------------------
(* The model loop.                                                          *)

\* The model asks for a batch of calls; the request is journalled first.
ModelCalls(e) ==
    /\ At(e, "model")
    /\ journal[T(e)].round < MaxRounds
    /\ \E n \in 1..MaxBatch : \E b \in [1..n -> Ops] :
          journal' = [journal EXCEPT ![T(e)] =
                        [round |-> @.round + 1, batch |-> b,
                         answered |-> {}, cache |-> {}, denied |-> {}]]
    /\ exec' = [exec EXCEPT ![e].pc = "call", ![e].call = 1]
    /\ UNCHANGED <<rows, gate, ledger, hist, lock, outer, trust, granted,
                   cleared, crashes>>

\* A final answer, or the loop stops itself (budget, model error, loop breaker,
\* iteration limit): either way there is a text to finalize.
ModelEnds(e) ==
    /\ At(e, "model")
    /\ Goto(e, "finalize")
    /\ UNCHANGED <<rows, journal, gate, ledger, hist, outer, trust, granted,
                   cleared, crashes>>

\* A call whose result is memoized is not run again.
ReuseCached(e) ==
    /\ At(e, "call") /\ Cached(e)
    /\ Advance(e)
    /\ UNCHANGED <<rows, journal, gate, ledger, hist, outer, trust, granted,
                   cleared, crashes>>

\* Replaying a journalled batch, a recorded effect answers before any approval.
ReplayRecorded(e) ==
    /\ At(e, "call") /\ ~Cached(e)
    /\ exec[e].replay
    /\ ledger[K(e)].st = "recorded"
    /\ journal' = [journal EXCEPT ![T(e)].cache = @ \cup {exec[e].call}]
    /\ Advance(e)
    /\ UNCHANGED <<rows, gate, ledger, hist, outer, trust, granted, cleared,
                   crashes>>

\* Calls that reach the approval check and the intent ledger.
Fresh(e) == /\ At(e, "call") /\ ~Cached(e)
            /\ exec[e].replay => ledger[K(e)].st = "none"
\* Mutation: a replayed batch skips the approval check.
GatedUnlessReplayed(e) == /\ exec[e].path = "loop" /\ ~exec[e].replay
                          /\ Op(e) \in GatedOps
                          /\ Op(e) # exec[e].exempt

Gated(e) == /\ exec[e].path = "loop"
            /\ Op(e) \in GatedOps
            /\ Op(e) # exec[e].exempt

AskApproval(e) ==
    /\ Fresh(e) /\ Gated(e)
    /\ status[T(e)] \in Unended
    /\ status' = [status EXCEPT ![T(e)] = "waiting_approval"]
    /\ gate' = [gate EXCEPT ![T(e)] = [st |-> "pending", call |-> exec[e].call,
                                       op |-> Op(e)]]
    /\ Goto(e, "pauseDone")
    /\ UNCHANGED <<turns, thread, attempts, notify, journal, ledger, hist,
                   outer, trust, granted, cleared, crashes>>

\* The request for an approval raised: the call is answered by an error, which
\* is memoized, and the loop goes on.
ApprovalUnavailable(e) ==
    /\ Fresh(e) /\ Gated(e)
    /\ journal' = [journal EXCEPT ![T(e)].denied = @ \cup {exec[e].call}]
    /\ Advance(e)
    /\ UNCHANGED <<rows, gate, ledger, hist, outer, trust, granted, cleared,
                   crashes>>

\* The pause journals the results it has, then defers the calls it skipped.
JournalDone(e) ==
    /\ At(e, "pauseDone")
    /\ journal' = [journal EXCEPT ![T(e)].answered =
                      @ \cup {j \in Calls(T(e)) : j < exec[e].call}]
    /\ Goto(e, "pauseDefer")
    /\ UNCHANGED <<rows, gate, ledger, hist, outer, trust, granted, cleared,
                   crashes>>

JournalDeferred(e) ==
    /\ At(e, "pauseDefer")
    /\ journal' = [journal EXCEPT ![T(e)].answered =
                      @ \cup {j \in Calls(T(e)) : j > exec[e].call}]
    /\ Unwind(e)
    /\ UNCHANGED <<rows, gate, ledger, hist, outer, trust, granted, cleared,
                   crashes>>

-----------------------------------------------------------------------------
(* An external effect: reserve, dispatch, publish, memoize.                 *)

\* The ledger is asked for permission to run the call.
Claiming(e)  == Fresh(e) /\ ~Gated(e)
\* A recorded result answers the same call, or any call under a business key.
Reusable(e)  == /\ ledger[K(e)].st = "recorded"
                /\ Natural(K(e)) \/ ledger[K(e)].call = CallId(e)
\* Mutation: only the turn's own intents are looked at.
UnresolvedHere(e) ==
    \E k \in Keys : ledger[k].st = "pending" /\ ledger[k].turn = T(e)

\* An unresolved intent blocks its key, its turn, and the same operation anywhere.
Unresolved(e) ==
    \E k \in Keys : /\ ledger[k].st = "pending"
                    /\ k = K(e) \/ ledger[k].turn = T(e) \/ k[2] = Op(e)

ClaimReuse(e) ==
    /\ Claiming(e) /\ Reusable(e)
    /\ Goto(e, "cache")
    /\ UNCHANGED <<rows, journal, gate, ledger, hist, outer, trust, granted,
                   cleared, crashes>>

\* EffectUncertainError or DurableStateError, which a replay raises on sight of
\* an unfinished intent, before it asks for an approval.
ClaimRefused(e) ==
    /\ \/ /\ Claiming(e)
          /\ IF ledger[K(e)].st = "recorded"
             THEN ~Reusable(e)
             ELSE status[T(e)] \notin Active \/ Unresolved(e)
       \/ /\ At(e, "call") /\ ~Cached(e)
          /\ exec[e].replay /\ ledger[K(e)].st = "pending"
    /\ Goto(e, "failing")
    /\ UNCHANGED <<rows, journal, gate, ledger, hist, outer, trust, granted,
                   cleared, crashes>>

ClaimEffect(e) ==
    /\ Claiming(e)
    /\ ledger[K(e)].st # "recorded"
    /\ status[T(e)] \in Active
    /\ ~Unresolved(e)
    /\ ledger' = [ledger EXCEPT ![K(e)] = [st |-> "pending", turn |-> T(e),
                                           call |-> CallId(e), owner |-> e]]
    /\ world' = [world EXCEPT ![K(e)] = "idle"]
    /\ Goto(e, "dispatch")
    /\ UNCHANGED <<rows, journal, gate, hist, times, trust, granted, cleared,
                   crashes>>

Dispatch(e) ==
    /\ At(e, "dispatch")
    /\ world' = [world EXCEPT ![K(e)] = "inflight"]
    /\ Goto(e, "await")
    /\ UNCHANGED <<rows, journal, gate, ledger, hist, times, trust, granted,
                   cleared, crashes>>

\* Mutation: an answer is taken for a success whatever became of the request.
AnyAnswerIsSuccess(e) ==
    /\ At(e, "await")
    /\ Goto(e, "finish")
    /\ UNCHANGED <<rows, journal, gate, ledger, hist, outer, trust, granted,
                   cleared, crashes>>

\* Mutation: the result is memoized before it is published to the ledger.
CacheBeforeRecord(e) ==
    /\ At(e, "await")
    /\ world[K(e)] = "applied"
    /\ Goto(e, "cache")
    /\ UNCHANGED <<rows, journal, gate, ledger, hist, outer, trust, granted,
                   cleared, crashes>>

\* The tool answers only for what it did; every other end is Raise.
ToolReturns(e) ==
    /\ At(e, "await")
    /\ world[K(e)] = "applied"
    /\ Goto(e, "finish")
    /\ UNCHANGED <<rows, journal, gate, ledger, hist, outer, trust, granted,
                   cleared, crashes>>

\* Only the owner of the pending intent publishes its result.
FinishEffect(e) ==
    /\ At(e, "finish")
    /\ IF ledger[K(e)].st = "pending" /\ ledger[K(e)].owner = e
          /\ ledger[K(e)].turn = T(e)
       THEN /\ ledger' = [ledger EXCEPT ![K(e)].st = "recorded"]
            /\ Goto(e, "cache")
       ELSE /\ Goto(e, "failing")
            /\ UNCHANGED ledger
    /\ UNCHANGED <<rows, journal, gate, hist, outer, trust, granted, cleared,
                   crashes>>

SaveResult(e) ==
    /\ At(e, "cache")
    /\ journal' = [journal EXCEPT ![T(e)].cache = @ \cup {exec[e].call}]
    /\ Advance(e)
    /\ UNCHANGED <<rows, gate, ledger, hist, outer, trust, granted, cleared,
                   crashes>>

\* The results of the whole batch reach the journal in one write.
JournalBatch(e) ==
    /\ At(e, "journal")
    /\ journal' = [journal EXCEPT ![T(e)].answered = Calls(T(e))]
    /\ exec' = [exec EXCEPT ![e].pc = "model", ![e].replay = FALSE]
    /\ UNCHANGED <<rows, gate, ledger, hist, lock, outer, trust, granted,
                   cleared, crashes>>

-----------------------------------------------------------------------------
(* The end of a turn, in its own executor.                                  *)

\* failed |-> TRUE when the loop ended with a failure_reason.  A history is the set
\* of its turns: the code also compacts what is long and keeps the newest
\* MAX_HISTORY messages only, so that old turns leave a history by themselves.
Finalize(e, failed) ==
    /\ At(e, "finalize")
    /\ status[T(e)] \in Active
    /\ ~PendingIn(T(e))
    /\ hist' = [hist EXCEPT ![exec[e].thread] = exec[e].seen \cup {T(e)}]
    /\ status' = [status EXCEPT ![T(e)] = IF failed THEN "failed" ELSE "done"]
    /\ journal' = [journal EXCEPT ![T(e)] = NoBatch]
    /\ Unwind(e)
    /\ UNCHANGED <<turns, thread, attempts, notify, gate, ledger, outer,
                   trust, granted, cleared, crashes>>

\* Mutation: a tool that raises releases its reservation, as if nothing happened.
RaiseReleases(e) ==
    /\ exec[e].pc \in InTurn
    /\ ledger' = IF At(e, "await") THEN [ledger EXCEPT ![K(e)] = NoEntry] ELSE ledger
    /\ Goto(e, "failing")
    /\ UNCHANGED <<rows, journal, gate, hist, outer, trust, granted,
                   cleared, crashes>>

\* A store write, a guard or the tool raises: a timeout, an [ERROR] result, a
\* lost commit.  What was dispatched stays unresolved.
Raise(e) ==
    /\ exec[e].pc \in InTurn
    /\ Goto(e, "failing")
    /\ UNCHANGED <<rows, journal, gate, ledger, hist, outer, trust, granted,
                   cleared, crashes>>

Fail(t) == status' = [status EXCEPT ![t] = IF @ \in Unended THEN "failed" ELSE @]

FailTurn(e) ==
    /\ At(e, "failing")
    /\ Fail(T(e))
    /\ Unwind(e)
    /\ UNCHANGED <<turns, thread, attempts, notify, journal, gate, ledger,
                   hist, outer, trust, granted, cleared, crashes>>

\* Mutation: the lock outlives its process, as a file with a process id would.
CrashKeepsLock(e) ==
    /\ exec[e] # Idle
    /\ crashes < MaxCrashes
    /\ crashes' = crashes + 1
    /\ exec' = [exec EXCEPT ![e] = Idle]
    /\ UNCHANGED <<rows, journal, gate, ledger, hist, lock, outer, trust,
                   granted, cleared>>

\* The task is cancelled, its process dies, or an exception escapes
\* finalize_turn: memory and lock go, rows stay.
Crash(e) ==
    /\ exec[e] # Idle
    /\ crashes < MaxCrashes
    /\ crashes' = crashes + 1
    /\ Unwind(e)
    /\ UNCHANGED <<rows, journal, gate, ledger, hist, outer, trust, granted,
                   cleared>>

-----------------------------------------------------------------------------
(* A human decides, or does not.                                            *)

\* Mutation: a decision is accepted whatever became of the turn.
DecidableLate(t) == gate[t].st = "pending"

Decidable(t) == gate[t].st = "pending" /\ status[t] \in Unended

Decide(e, t, approved) ==
    LET op == gate[t].op IN
    /\ Decidable(t)
    /\ Own(e, thread[t])
    /\ gate' = [gate EXCEPT ![t].st = IF approved THEN "approved" ELSE "rejected"]
    /\ status' = [status EXCEPT ![t] = "running"]
    /\ granted' = [granted EXCEPT ![t] = IF approved THEN @ \cup {op} ELSE @ \ {op}]
    /\ exec' = [exec EXCEPT ![e] =
                  [pc |-> IF approved THEN "call" ELSE "append", turn |-> t,
                   thread |-> thread[t], call |-> gate[t].call, path |-> "gate",
                   replay |-> FALSE, exempt |-> IF approved THEN op ELSE NoOp,
                   seen |-> hist[thread[t]]]]
    /\ UNCHANGED <<turns, thread, attempts, notify, journal, ledger, hist,
                   outer, trust, cleared, crashes>>

\* The answer to the approved or refused call is journalled; the model goes on
\* only if that completes the batch.
AppendDecision(e) ==
    LET answered == journal[T(e)].answered \cup {exec[e].call} IN
    /\ At(e, "append")
    /\ journal' = [journal EXCEPT ![T(e)].answered = answered]
    /\ exec' = [exec EXCEPT ![e].path = "loop",
                            ![e].pc = IF answered = Calls(T(e)) THEN "model"
                                      ELSE "failing"]
    /\ UNCHANGED <<rows, gate, ledger, hist, lock, outer, trust, granted,
                   cleared, crashes>>

\* An approval past its TTL, or one left behind by an ended turn, is closed.
ExpireApproval(t) ==
    /\ gate[t].st = "pending"
    /\ status[t] \notin {"none", "pruned"}
    /\ Free(thread[t])
    /\ gate' = [gate EXCEPT ![t].st = "expired"]
    /\ Fail(t)
    /\ UNCHANGED <<turns, thread, attempts, notify, journal, ledger, hist,
                   lock, exec, outer, trust, granted, cleared, crashes>>

-----------------------------------------------------------------------------
(* Recovery of turns whose executor is gone.                                *)

\* Mutation: recovery does not try the conversation's lock.
AbandonedUnlocked(t) == status[t] \in Active /\ gate[t].st # "pending"

Abandoned(t) == /\ status[t] \in Active
                /\ Free(thread[t])
                /\ gate[t].st # "pending"
Newer(t) == \E u \in Turns : /\ u > t /\ thread[u] = thread[t]
                             /\ status[u] \notin {"none", "pruned"}

\* Mutation: the resume budget is not checked.
MayAlwaysResume(t) == ~Newer(t)

\* A newer turn supersedes it, and the policy allows so many attempts.
MayResume(t) == ~Newer(t) /\ attempts[t] < MaxAttempts

ResumeClaim(e, t) ==
    /\ Abandoned(t) /\ MayResume(t)
    /\ Own(e, thread[t])
    /\ status' = [status EXCEPT ![t] = "resuming"]
    /\ attempts' = [attempts EXCEPT ![t] = @ + 1]
    /\ notify' = [notify EXCEPT ![t] = TRUE]
    /\ exec' = [exec EXCEPT ![e] = [Idle EXCEPT !.pc = "resumed", !.turn = t,
                                                !.thread = thread[t]]]
    /\ UNCHANGED <<turns, thread, journal, gate, ledger, hist, outer, trust,
                   granted, cleared, crashes>>

\* A newer turn in the conversation, or too many attempts, ends it instead.
ResumeGivesUp(t) ==
    /\ Abandoned(t)
    /\ Newer(t) \/ attempts[t] >= MaxAttempts
    /\ status' = [status EXCEPT ![t] = IF Newer(t) THEN "superseded" ELSE "failed"]
    /\ notify' = [notify EXCEPT ![t] = TRUE]
    /\ UNCHANGED <<turns, thread, attempts, journal, gate, ledger, hist, lock,
                   exec, outer, trust, granted, cleared, crashes>>

\* Mutation: the continuation does not load the conversation's history.
ResumeWithoutHistory(e) ==
    LET rest == CallsAfter(T(e), 0) IN
    /\ At(e, "resumed")
    /\ \/ PendingIn(T(e)) /\ Goto(e, "failing")
       \/ ~PendingIn(T(e)) /\ rest = {} /\ Goto(e, "model")
       \/ /\ ~PendingIn(T(e))
          /\ \E j \in Firsts(rest) :
               exec' = [exec EXCEPT ![e].pc = "call", ![e].call = j,
                                    ![e].replay = TRUE]
          /\ UNCHANGED lock
    /\ UNCHANGED <<rows, journal, gate, ledger, hist, outer, trust,
                   granted, cleared, crashes>>

\* Before any model call: unresolved effects stop the continuation, and an
\* unfinished batch is replayed from its first unanswered call.
ResumeCheck(e) ==
    LET rest == CallsAfter(T(e), 0) IN
    /\ At(e, "resumed")
    /\ \/ PendingIn(T(e)) /\ Goto(e, "failing")
       \/ /\ ~PendingIn(T(e)) /\ rest = {}
          /\ exec' = [exec EXCEPT ![e].pc = "model",
                                  ![e].seen = hist[exec[e].thread]]
       \/ /\ ~PendingIn(T(e))
          /\ \E j \in Firsts(rest) :
               exec' = [exec EXCEPT ![e].pc = "call", ![e].call = j,
                                    ![e].replay = TRUE,
                                    ![e].seen = hist[exec[e].thread]]
    /\ UNCHANGED <<rows, journal, gate, ledger, hist, lock, outer, trust,
                   granted, cleared, crashes>>

\* Report-only recovery saves what is known and closes the turn.  It trims the
\* history as finalize_turn does, and starts from an empty one where the saved one
\* cannot be parsed; saved histories can be parsed here.
Report(t) ==
    /\ Abandoned(t)
    /\ status' = [status EXCEPT ![t] = "recovered"]
    /\ hist' = [hist EXCEPT ![thread[t]] = @ \cup {t}]
    /\ UNCHANGED <<turns, thread, attempts, notify, journal, gate, ledger,
                   lock, exec, outer, trust, granted, cleared, crashes>>

-----------------------------------------------------------------------------
(* The operator, the user's /clear, retention, and the outside world.       *)

\* The operator's verdicts are true: a call is reported as having happened or
\* not only once the world has settled it.
Truthful(k, verdict) ==
    \/ verdict = "unknown"
    \/ verdict = "happened" /\ world[k] = "applied"
    \/ verdict = "did_not_happen" /\ world[k] \in {"idle", "lost"}

\* Mutation: the operator does not own the conversation.
VerifiableAnytime(k) == ledger[k].st = "pending"

\* An open intent, while nobody works in its conversation.
Verifiable(k) == ledger[k].st = "pending" /\ Free(thread[ledger[k].turn])

Reconcile(k, verdict) ==
    LET t == ledger[k].turn IN
    /\ Verifiable(k)
    /\ Truthful(k, verdict)
    /\ ledger' = [ledger EXCEPT ![k] = IF verdict = "happened"
                                       THEN [@ EXCEPT !.st = "recorded"]
                                       ELSE NoEntry]
    /\ IF verdict = "unknown"
       THEN Fail(t) /\ waived' = waived \cup {k}
       ELSE UNCHANGED <<status, waived>>
    /\ UNCHANGED forgotten
    /\ UNCHANGED <<turns, thread, attempts, notify, journal, gate, hist, lock,
                   exec, outer, granted, cleared, crashes>>

\* Mutation: retention deletes recorded effects without looking for open intents.
PruneUnresolved(t) ==
    LET owned == {k \in Keys : ledger[k].st = "recorded" /\ ledger[k].turn = t} IN
    /\ status[t] \in Terminal
    /\ ~notify[t]
    /\ status' = [status EXCEPT ![t] = "pruned"]
    /\ journal' = [journal EXCEPT ![t] = NoBatch]
    /\ ledger' = [k \in Keys |-> IF k \in owned THEN NoEntry ELSE ledger[k]]
    /\ forgotten' = forgotten \cup {k \in owned : Natural(k)}
    /\ UNCHANGED waived
    /\ UNCHANGED <<turns, thread, attempts, notify, gate, hist, lock, exec,
                   outer, granted, cleared, crashes>>

Prune(t) ==
    LET owned == {k \in Keys : ledger[k].st # "none" /\ ledger[k].turn = t} IN
    /\ status[t] \in Terminal
    /\ ~notify[t]
    /\ ~PendingIn(t)
    /\ status' = [status EXCEPT ![t] = "pruned"]
    /\ journal' = [journal EXCEPT ![t] = NoBatch]
    /\ ledger' = [k \in Keys |-> IF k \in owned THEN NoEntry ELSE ledger[k]]
    /\ forgotten' = forgotten \cup {k \in owned : Natural(k)}
    /\ UNCHANGED waived
    /\ UNCHANGED <<turns, thread, attempts, notify, gate, hist, lock, exec,
                   outer, granted, cleared, crashes>>

\* Mutation: the history is cleared under a turn that has loaded it.
ClearUnlocked(th) ==
    /\ hist' = [hist EXCEPT ![th] = {}]
    /\ cleared' = [cleared EXCEPT ![th] = @ \cup hist[th]]
    /\ UNCHANGED <<rows, journal, gate, ledger, lock, exec, outer, trust,
                   granted, crashes>>

ClearContext(th) ==
    /\ Free(th)
    /\ hist' = [hist EXCEPT ![th] = {}]
    /\ cleared' = [cleared EXCEPT ![th] = @ \cup hist[th]]
    /\ UNCHANGED <<rows, journal, gate, ledger, lock, exec, outer, trust,
                   granted, crashes>>

\* A request in flight is carried out or lost, whether or not anyone waits.
Arrives(k) ==
    /\ world[k] = "inflight"
    /\ world' = [world EXCEPT ![k] = "applied"]
    /\ times' = [times EXCEPT ![k] = @ + 1]
    /\ UNCHANGED <<rows, journal, gate, ledger, hist, lock, exec, trust,
                   granted, cleared, crashes>>

Vanishes(k) ==
    /\ world[k] = "inflight"
    /\ world' = [world EXCEPT ![k] = "lost"]
    /\ UNCHANGED <<rows, journal, gate, ledger, hist, lock, exec, times,
                   trust, granted, cleared, crashes>>

-----------------------------------------------------------------------------
\* What a live executor does next without a decision from outside.
Proceed(e) ==
    \/ RejectInput(e) \/ BeginTurn(e)
    \/ ModelCalls(e) \/ ModelEnds(e)
    \/ ReuseCached(e) \/ ReplayRecorded(e)
    \/ AskApproval(e) \/ ApprovalUnavailable(e)
    \/ JournalDone(e) \/ JournalDeferred(e)
    \/ ClaimReuse(e) \/ ClaimRefused(e) \/ ClaimEffect(e)
    \/ Dispatch(e) \/ ToolReturns(e) \/ FinishEffect(e) \/ SaveResult(e)
    \/ JournalBatch(e) \/ AppendDecision(e) \/ ResumeCheck(e)
    \/ Raise(e) \/ FailTurn(e)
    \/ \E failed \in BOOLEAN : Finalize(e, failed)

Next ==
    \/ \E e \in Executors :
          \/ Proceed(e) \/ Crash(e)
          \/ \E th \in Threads : Invoke(e, th)
          \/ \E t \in Turns : \/ ResumeClaim(e, t)
                              \/ \E approved \in BOOLEAN : Decide(e, t, approved)
    \/ \E t \in Turns : ExpireApproval(t) \/ ResumeGivesUp(t) \/ Report(t) \/ Prune(t)
    \/ \E k \in Keys :
          \/ Arrives(k) \/ Vanishes(k)
          \/ \E v \in {"happened", "did_not_happen", "unknown"} : Reconcile(k, v)
    \/ \E th \in Threads : ClearContext(th)

Spec == Init /\ [][Next]_vars

\* Executors are scheduled and every tool call ends at the latest by its timeout
\* (Raise).  Recovery skips a busy conversation and tries again only when a
\* process starts, so it is assumed to find the conversation idle eventually.
FairSpec == /\ Spec
            /\ \A e \in Executors : WF_vars(Proceed(e))
            /\ \A t \in Turns : SF_vars(Report(t))

-----------------------------------------------------------------------------
(* Properties.                                                              *)

Batches == [round : 0..MaxRounds, batch : Seq(Ops), answered : SUBSET (1..MaxBatch),
            cache : SUBSET (1..MaxBatch), denied : SUBSET (1..MaxBatch)]
Asks    == [st : {"none", "pending", "approved", "rejected", "expired"},
            call : 0..MaxBatch, op : Ops \cup {NoOp}]
Entries == [st : {"none", "pending", "recorded"}, turn : 0..MaxTurns, call : CallIds,
            owner : Executors \cup {NoOne}]
Frames  == [pc : Points, turn : 0..MaxTurns, thread : Threads \cup {NoThread},
            call : 0..MaxBatch, path : {"loop", "gate"}, replay : BOOLEAN,
            exempt : Ops \cup {NoOp}, seen : SUBSET Turns]

TypeOK ==
    /\ turns \in 0..MaxTurns
    /\ status \in [Turns -> Statuses]
    /\ thread \in [Turns -> Threads \cup {NoThread}]
    /\ attempts \in [Turns -> 0..MaxAttempts]
    /\ notify \in [Turns -> BOOLEAN]
    /\ journal \in [Turns -> Batches]
    /\ gate \in [Turns -> Asks]
    /\ ledger \in [Keys -> Entries]
    /\ hist \in [Threads -> SUBSET Turns]
    /\ lock \in [Threads -> Executors \cup {NoOne}]
    /\ exec \in [Executors -> Frames]
    /\ world \in [Keys -> {"idle", "inflight", "applied", "lost"}]
    /\ times \in [Keys -> Nat]
    /\ waived \in SUBSET Keys /\ forgotten \in SUBSET Keys
    /\ granted \in [Turns -> SUBSET Ops]
    /\ cleared \in [Threads -> SUBSET Turns]
    /\ crashes \in 0..MaxCrashes

\* Two executors never work in one conversation, and whatever resume, report,
\* approval expiry or an operator do meanwhile, the turn a live executor works
\* on is not ended or handed on under it.
LiveTurnIsOwned ==
    \A e \in Executors : exec[e].pc \notin {"idle", "begin"} =>
        /\ status[T(e)] \in Unended
        /\ \A f \in Executors \ {e} : exec[f].thread # exec[e].thread

\* Across crashes, timeouts, resumes, approvals and operator verdicts an
\* operation is carried out at most once per key, until an operator accepts an
\* unknown outcome for it or retention drops its business key.
EffectAtMostOnce == \A k \in Keys \ (waived \cup forgotten) : times[k] <= 1

\* An operation that was carried out is never missing from the ledger: it is
\* recorded, or unresolved and visible to the operator, or its turn was pruned
\* after it had been recorded.
EffectIsAccounted ==
    \A k \in Keys \ (waived \cup forgotten) :
        times[k] > 0 => \/ ledger[k].st # "none"
                        \/ k[1] \in Turns /\ status[k[1]] = "pruned"

\* A memoized tool result always rests on a recorded effect: no call is answered
\* out of a reservation whose outcome nobody knows.
CacheIsBacked ==
    \A t \in Turns : \A i \in journal[t].cache :
        LET k == Key(t, journal[t].batch[i])
        IN  k \notin waived \cup forgotten => ledger[k].st = "recorded"

\* Two calls of a turn with the same tool and arguments but different call ids
\* are never answered by one effect, unless the tool declares a business key.
IdenticalCallsNotMerged ==
    \A t \in Turns : \A i \in journal[t].cache :
        LET k == Key(t, journal[t].batch[i])
        IN  ~Natural(k) /\ ledger[k].st = "recorded"
                => ledger[k].call = <<t, journal[t].round, i>>

\* No later turn repeats an operation whose business key was recorded before.
BusinessKeyIsKept == \A k \in Keys \ waived : times[k] <= 1

\* A turn is not reported done, nor is it pruned, over an effect whose outcome
\* is unknown: what the user reads as finished has no open question left.
DoneIsSettled ==
    \A t \in Turns : status[t] \in {"done", "pruned"} => ~PendingIn(t)

\* Every history that is saved was read, extended and written under one lock: no
\* turn's exchange is lost to another writer's older copy.  (What trimming and
\* compaction drop, and a history that cannot be parsed, are not in the model.)
NoLostExchange ==
    \A t \in Turns : status[t] \in {"done", "recovered"} =>
        t \in hist[thread[t]] \cup cleared[thread[t]]

\* What /clear removed does not come back from an executor that had loaded it.
ClearedStaysCleared == \A th \in Threads : hist[th] \cap cleared[th] = {}

\* An ended turn is never reopened or ended differently: a late approval, a
\* resume, a verdict or a second recovery pass leaves what the user was told.
EndedIsFinal ==
    [][\A t \in Turns : status[t] \in Terminal =>
            status'[t] \in {status[t], "pruned"}]_vars

\* An intent for a gated operation is only ever reserved in a turn where a
\* human approved this operation and did not refuse it since, and which no
\* open prompt is waiting on.
ReservedOnlyIfApproved ==
    [][\A k \in Keys :
          /\ ledger[k].st = "none" /\ ledger'[k].st = "pending"
          /\ k[2] \in GatedOps
          => k[2] \in granted[ledger'[k].turn] /\ gate[ledger'[k].turn].st = "approved"]_vars

\* A turn whose executor died is eventually ended or parked on an approval.
AbandonedIsSettled ==
    \A t \in Turns : status[t] \in Active ~> status[t] \notin Active

\* The effect ledger and the world together keep the contract.
Phase(k) ==
    IF k \in waived \cup forgotten THEN "waived"
    ELSE IF ledger[k].st = "none" THEN IF times[k] = 0 THEN "open" ELSE "recorded"
    ELSE IF ledger[k].st = "recorded" THEN "recorded"
    ELSE IF world[k] = "applied" THEN "applied" ELSE "reserved"

Contract == INSTANCE EffectContract WITH phase <- [k \in Keys |-> Phase(k)]
KeepsContract == Contract!Spec
-----------------------------------------------------------------------------
(* The inductive invariant: what every property above rests on.             *)

\* Rows are inserted in order; an unfinished prompt names a call of its batch.
Rows ==
    \A t \in Turns :
        /\ status[t] = "none" <=> t > turns
        /\ status[t] # "none" => thread[t] \in Threads
        /\ status[t] = "none" => gate[t].st = "none"
        /\ Calls(t) \subseteq 1..MaxBatch
        /\ gate[t].st = "pending" /\ status[t] \in Unended =>
              /\ gate[t].call \in Calls(t)
              /\ gate[t].op = journal[t].batch[gate[t].call]

\* A live executor holds the lock of its conversation, and from the insertion of
\* its turn to the end the turn is its own and unended.
Owners ==
    \A e \in Executors :
        /\ At(e, "idle") => exec[e] = Idle
        /\ ~At(e, "idle") => exec[e].thread \in Threads /\ lock[exec[e].thread] = e
        /\ exec[e].pc \notin {"idle", "begin"} =>
              /\ T(e) \in Turns
              /\ thread[T(e)] = exec[e].thread
              /\ status[T(e)] \in Unended

AtACall == {"call", "dispatch", "await", "finish", "cache", "pauseDone",
            "pauseDefer", "append"}
Paused  == {"idle", "begin", "pauseDone", "pauseDefer", "failing"}

\* An executor works on a call of its batch, and never beside an open prompt:
\* a turn has at most one.
OnePrompt ==
    \A e \in Executors :
        /\ exec[e].pc \in AtACall => exec[e].call \in Calls(T(e))
        /\ exec[e].pc \notin Paused => gate[T(e)].st # "pending"

\* An intent belongs to a turn whose row still exists, under that turn's key.
Intents ==
    \A k \in Keys : ledger[k].st # "none" =>
        /\ ledger[k].turn \in Turns
        /\ status[ledger[k].turn] \notin {"none", "pruned"}
        /\ k = Key(ledger[k].turn, k[2])

\* Between reservation and publication the intent stays pending and its owner's.
Reserved ==
    \A e \in Executors : exec[e].pc \in {"dispatch", "await", "finish"} =>
        /\ ledger[K(e)].st = "pending"
        /\ ledger[K(e)].owner = e
        /\ ledger[K(e)].turn = T(e)
        /\ At(e, "dispatch") => world[K(e)] = "idle"
        /\ At(e, "finish") => world[K(e)] = "applied"

\* What the ledger says of a key it answers for, against what was carried out.
Accounts ==
    \A k \in Keys \ (waived \cup forgotten) :
        /\ ledger[k].st = "none" =>
              /\ world[k] # "inflight"
              /\ \/ times[k] = 0
                 \/ times[k] = 1 /\ k[1] \in Turns /\ status[k[1]] = "pruned"
        /\ ledger[k].st = "pending" => times[k] = IF world[k] = "applied" THEN 1 ELSE 0
        /\ ledger[k].st = "recorded" => times[k] = 1 /\ world[k] = "applied"

\* Inductive: it holds initially and every step preserves it.
Inductive ==
    /\ TypeOK /\ Rows /\ Owners /\ OnePrompt
    /\ Intents /\ Reserved /\ DoneIsSettled /\ Accounts

-----------------------------------------------------------------------------
(* What else is inductive beside it, one formula for each of three stories.  *)

\* What an executor read of its conversation is what the conversation still
\* holds, and only turns that ended are in a history or were cleared from one.
Histories ==
    /\ \A e \in Executors :
          exec[e].pc \notin {"idle", "resumed", "failing"} =>
             exec[e].seen = hist[exec[e].thread]
    /\ \A th \in Threads : \A t \in hist[th] \cup cleared[th] :
          status[t] \in Terminal \cup {"pruned"}
    /\ NoLostExchange
    /\ ClearedStaysCleared

AtTheGate == {"call", "dispatch", "await", "finish", "cache", "append", "failing"}

\* The call a human decided on is run outside the loop, and is the approved one;
\* the loop's exemption lasts while the approval is the turn's last prompt.
Permitted ==
    \A e \in Executors :
        /\ exec[e].path = "gate" => exec[e].pc \in AtTheGate
        /\ exec[e].path = "gate" /\ At(e, "call") => Op(e) = exec[e].exempt
        /\ At(e, "begin") => exec[e].exempt = NoOp
        /\ exec[e].pc \notin Paused /\ exec[e].exempt # NoOp =>
              /\ exec[e].exempt \in granted[T(e)]
              /\ gate[T(e)].st = "approved"

Known(k) == k \in waived \cup forgotten \/ ledger[k].st = "recorded"

\* A result is memoized, or about to be, for a call of the batch whose effect
\* the ledger knows, was told to forget, or an operator gave up on.
Backed ==
    /\ \A t \in Turns : \A i \in journal[t].cache :
          i \in Calls(t) /\ Known(Key(t, journal[t].batch[i]))
    /\ \A e \in Executors : At(e, "cache") => Known(K(e))
=============================================================================
