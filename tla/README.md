# A formal model of the Kronos Agent OS runtime

TLA+ modules, TLC configurations and TLAPS proofs for the parts of Kronos Agent
OS (KAOS) whose correctness depends on interleavings, crashes and lost messages
rather than on any single function. Paths are relative to the repository root
(`src/` is left out): `kronos/session.py:904` is line 904 of that file.
`PROJECT.json` maps every definition to the lines it models.

## 1. The system

An agent process serves conversations (Telegram, CLI, Discord, cron). Each
message becomes a *turn*: a loop in which a model asks for tool calls until it
has an answer. Several agents, each a process of its own, may sit in one group
chat. A process may die at any point. What survives is in SQLite databases; what
must not be done twice is outside (payments, mails, chat messages, pages in
Notion). Processes, threads and tasks share the databases.

| Component | State it keeps | Operations | Correct when | Here |
|---|---|---|---|---|
| **Durable turns** (`session.py`, `engine.py`, `graph.py`, `turn_ownership.py`, `tool_history.py`) | `active_turns`, `turn_journal`, `tool_results`, `pending_approvals`, `sessions`; a kernel lock for each conversation; the memory of the running task | begin, model call, tool call, ask/decide/expire an approval, finalize, fail, resume, report, prune, /clear | a live turn has one owner; an ended turn stays ended; no exchange is lost from a history; gated calls run only when approved; an abandoned turn is settled | `DurableTurn` |
| **Effect ledger** (`session.py:904-1175`, `effect_state.py`, `engine.execute_tool`) | `effect_intents`, `external_effects` | reserve, dispatch, publish, replay, reconcile, prune | an operation happens at most once for each key; what happened is on record or visibly unresolved; a memoized answer rests on a record | `DurableTurn`, `EffectContract` |
| **Delivery outbox** (`delivery.py`, `turn_delivery.py`, `telegram_delivery.py`, `cron/delivery.py`) | `delivery_outbox`; a kernel lock for each row; the connected account | enqueue, obsolete, drain, send a chunk, store a receipt, hold for review, retry, rebind, abandon | nothing is shown twice or out of order; no receipt is invented; a stream's head does not wait for ever | `Delivery` |
| **Owed replies** (`session.py:365-418`) | `reply_state` of a turn | direct send, settle, adopt at start | a finished answer is confirmed or queued, and repeated at most at a restart | no |
| **Plans** (`plans.py`, `cron/plans.py`, `session.stop_plan_turn`) | `plans`, `plan_steps` in one database, the turns of the steps in another | claim, link, complete, retry, cancel, expire, reconcile, summarize | one turn for each step; a stopped plan does no work; doubt is shown; the summary is the last word | `Plans` |
| **Swarm arbitration** (`swarm_store.py`, `group_router.py`, `bridge.py`) | `reply_claims` | claim, re-check, arbitrate, execute, send, cancel, expire | uninvited answers to a message stay at the cap; nobody is silenced for nothing | `SwarmClaims` |
| **Requests between agents** (`cron/handoff.py`, `cron/escalation.py`, `cron/memory_ask.py`, `tools/handoff.py`, `dissent.py`, `cron/council.py`) | `handoffs`, `memory_requests`, `sla_watch`, `challenges`, councils and positions | create, accept, complete, fail; watch, escalate; review before sending; synthesize | each request is taken once; an overdue topic is handed over once; the review that came is the one used | `SwarmHandoffs`, `SwarmReviews` |
| **Budget admission** (`swarm_store.py:1275-1400`, `security/model_budget.py`, `llm.py`) | `swarm_costs`, `session_costs`, `budget_holds` | reserve, settle, release, mark unknown | concurrency and crashes never take spend over a limit | `SwarmBudget` |
| **Memory reset** (`memory/reset.py`, `memory/nodes.py`, `cron/sleep_compute.py`) | a generation for each user, a gate between writers and resets, three layers of memory | write, mirror, consolidate, reset | what a reset removed does not come back; a reset is not starved | `MemoryReset` |
| **Expenses** (`cron/expenses/`, `tools/expense.py`, `tools/expense_pending.py`) | ledgers of mails, items and pending items | extract, freeze, claim, post, finish, resolve, discard, finalize, archive | a charge is created once, or visibly unsettled; no mail is left behind | `Expenses` |
| **Notification retries** (`cron/notify_retry.py`) | `notify_retry` | store, claim by time, retry, give up | only what was verifiably not accepted is sent again | no |
| **The rest**: group routing and bridges, prompts and sub-agents, model providers, memory search, policy and text checks, tools and the MCP gateway, skills, signals and analytics jobs, scheduler, database layer, CLI, dashboard | | | | no; see section 6 |

Interaction. The tool loop calls the ledger before and after each tool. A turn
that was resumed inserts its answer or its prompt into the outbox in the
transaction that ends or parks it. Plans start turns through the same loop and
enqueue their results in their own database. An approval reaches a turn through
a chat command. A handler in a group chat asks `swarm.db` before it runs its
turn and again before it speaks; an answer that is not there by its deadline
becomes a hand-off. Each model call of a turn reserves its cost there first. A
finished turn stores what it learned in the background, behind the memory gate.
The operator's commands (`cli.py`) reconcile effects and repair deliveries under
the same locks.

Hard behaviour: a process dies between any two commits, also of two different
databases; a commit handed to a thread lands after its task was cancelled; a
tool's request is on its way when its caller gives up; a human answers minutes
or days late; two tasks want the same conversation, two agents the same message,
two polls the same row; a lease runs out under a slow model; a message is
accepted but its acknowledgement is lost; an account is replaced between two
chunks; midnight passes over an open reservation. `PROJECT.json` lists these
hazards at the lines where they bite.

## 2. Modules

| Module | Contents |
|---|---|
| `EffectContract` | what the ledger promises about an idempotency key, abstractly |
| `DurableTurn` | the turn runtime with its ledger and the outside world; the inductive invariants |
| `DurableTurnProofs` | proofs of the invariants and of the safety properties; proof that `DurableTurn` implements `EffectContract` |
| `OutboxContract` | what the outbox promises to the reader of a chat, abstractly |
| `Delivery`, `DeliveryProofs` | the outbox with producers, workers, operator, connection and server; its invariants, and that it implements `OutboxContract` |
| `Plans`, `PlansProofs` | plans and their steps in one database, turns in another, the job and the approval desk |
| `SwarmClaims`, `SwarmClaimsProofs` | who answers a message in a group chat |
| `SwarmHandoffs` | the watch over an owned topic, hand-offs and memory questions; extends `SwarmClaims`, whose rows decide whether a topic counts as answered |
| `SwarmReviews` | reviews before sending, councils |
| `SwarmBudget` | admission of model calls |
| `SwarmRequestsProofs` | proofs about `SwarmHandoffs`, `SwarmReviews` and `SwarmBudget` |
| `MemoryReset`, `MemoryResetProofs` | writers and resets of memory |
| `Expenses`, `ExpensesProofs` | the ledger of e-mailed expenses |
| `AgentStores`, `AgentStoresProofs` | composition of `SwarmHandoffs` (with `SwarmClaims`), `SwarmReviews`, `SwarmBudget`, `MemoryReset` and `Expenses` |
| `MCDurableTurn`, `MCDelivery`, `MCPlans`, `MCAgentStores` | definitions the TLC instances need |

Operators introduced by a comment that starts with "Mutation:" are faulty
variants of the definition that follows them. No specification uses them; each
breaks one property, which shows that the property depends on the code it is
about.

### DurableTurn

Granularity: an action is one committed transaction, one message to the outside
world, or one step at which an executor can be killed and lose its memory.

| State | Code |
|---|---|
| `turns`, `status`, `thread`, `attempts`, `notify` | `active_turns`, in rowid order; `notify` is `delivery_requested` |
| `journal[t]` | the last assistant message with tool calls in `turn_journal`, which calls have a tool message (`answered`), which have a row in `tool_results` (`cache`; `denied` for memoized approval errors) |
| `gate[t]` | the turn's last row in `pending_approvals` |
| `ledger[k]` | `effect_intents` and `external_effects` for the key; `owner` is the claim token |
| `hist[th]` | the turns in the saved history of a conversation; `exec[e].seen` is the copy a task loaded |
| `lock[th]` | `flock` on the conversation's lock file; the kernel frees it when the process dies |
| `exec[e]` | program point and locals of one task |
| `world[k]`, `times[k]` | where the last request for a key is, and how often it was carried out |
| `waived`, `forgotten`, `granted`, `cleared` | history variables, read only by properties |

A key is `side_effect_key`: it contains the turn unless the tool declares a
business key (`NaturalOps`, written with turn 0). A tool call is its operation,
the tool with its arguments; call ids are turn, round and position.

Actions by phase: `Invoke`, `RejectInput`, `BeginTurn` (`graph._invoke_scoped`);
`ModelCalls`, `ModelEnds`, `ReuseCached`, `ReplayRecorded`, `AskApproval`,
`ApprovalUnavailable`, `JournalDone`, `JournalDeferred`, `JournalBatch`
(`engine.react_loop`); `ClaimReuse`, `ClaimRefused`, `ClaimEffect`, `Dispatch`,
`ToolReturns`, `FinishEffect`, `SaveResult` (`engine.execute_tool` with the
ledger); `Finalize`, `Raise`, `FailTurn`; `Decide`, `AppendDecision`,
`ExpireApproval`; `ResumeClaim`, `ResumeGivesUp`, `ResumeCheck`, `Report`;
`Reconcile`, `Prune`, `ClearContext`; `Crash`; and `Arrives`, `Vanishes` for the
world, which may carry a request out long after its caller is gone.

Assumptions about what is outside. A tool that returns normally did what it was
asked once; a tool that times out, raises or returns `[ERROR]` may or may not
have. An operator who says "happened" or "did not happen" has looked and is
right; one who says "unknown" accepts either (`waived`). SQLite transactions are
atomic and durable, and `flock` is released when its holder dies.

Abstracted: read-only tools and their parallel pre-execution, sub-agent
delegation, the texts of messages, legacy turns without the intent protocol,
`reply_state`, approval TTLs (an approval may expire at any time), the age limit
of retention (a terminal turn may be pruned at any time). A history only grows until
/clear: trimming to `MAX_HISTORY` when a turn is finalized or reported
(`session.py:1508`, 1760, 1808), compaction (`graph.py:1179-1186`), and the empty
history that stands for one that cannot be parsed (`session.py:1761-1763`) are
left out. So `NoLostExchange` says that no writer overwrites another's exchange
with an older copy; it does not say that an exchange stays for ever.

### Delivery

| State | Code |
|---|---|
| `outbox[m]` | the row with sequence number `m`: stream, chunk count, state, `obsolete`, `sender_id`, `next_chunk` |
| `lock[m]` | `own_conversation(db, "delivery:" + key)` |
| `worker[w]` | one `drain` call: candidates still to visit, the account it was started with, the row and the chunks left in this job |
| `account` | `telegram_delivery.ready_sender()` |
| `net`, `accepted` | requests in flight and accepted by the server |
| `rebound` | history: rows an operator let another account take over |

A request is an account, a row and a chunk: the stored `random_id` belongs to
the chunk, and the server recognises it for one account only. Actions: `Notify`,
`QueueApproval`, `QueueResult`, `SuppressApproval` (producers); `Drain`, `Take`,
`SenderChanged`, `Pass`, `Check`, `Dispatch`, `Record`, `Duplicate`, `Fail`,
`Crash` (workers); `Retry`, `Abandon` (operator); `Connect`, `Accept`, `Lose`.
A request stays on its way after its worker timed out, and may be accepted then.
Left out: back-off delays, the limit of four candidates, corrupt payloads,
re-insertion of an existing row (a no-op), turns whose destination is missing.

### Plans

One plan: rows of two plans never meet. An action is one transaction of one of
the two databases, or one step of an executor.

| State | Code |
|---|---|
| `plan`, `due` | the row of `plans` with its stop reason and summary mark; `expires_at` has passed |
| `steps`, `rows`, `adding` | `plan_steps`; how many were inserted; an `add_step` between its checks and its insert |
| `turns` | `active_turns` by `caller_key` with the turn's approval and whether an effect of it is unresolved (`open`) |
| `late` | `begin_turn` handed to the database thread by a task that is gone |
| `lock` | `own_conversation("plan:" + id)` |
| `poll` | where the job is in its cycle: retire, reconcile stops, reconcile turns, settle, begin steps, summarize |
| `exec` | program point and locals of the job (`Poller`) and of an approval callback or a manual continuation (`Desk`) |
| `queue`, `told` | the plan's delivery stream; the steps the summary speaks of |

The order of the job's stages is `Cycle`, and a cycle that raises starts again
from the first. Actions by part: the owner (`AddCheck`, `AddInsert`,
`CancelPlan`, `ReleaseStep`); approvals (`DeskApprove`, `Decide`,
`ApprovalAges`); the turn on either executor (`RunTurn`, `ResumeClaim`,
`ResumeCheck`); stops (`StopTurn`, `AckStop`); reconciliation (`Recover`,
`RetryUnstarted`, `Resume`, `Apply`); settling (`SettleRead`, `SettleWrite`);
new steps (`CheckCondition`, `ClaimStep`, `BeginTurn`, `LinkTurn`,
`RejectInput`); the end (`Summarize`, `SetSummary`); `Crash`, `LateCommit`,
`TimePasses`.

### SwarmClaims

One user message, handled by several agents, and each other's answers to it. A
handler is an agent with the kind of message it handles.

| State | Code |
|---|---|
| `claim[h]` | the row of `reply_claims`: state, tier, eta |
| `pc[h]` | where the handler is in `bridge.on_message` |
| `aged` | rows past their lease (120 s claimed, 600 s executing) that no transaction has expired yet |
| `chat` | handlers whose answer Telegram accepted |

`Receive`, `Recheck`, `Arbitrate`, `StandDown`, `BeginExecuting`, `Pass`, `Send`,
`MarkSent` are the bridge's calls in their order; `can_send_claim`, `begin_executing`
and `mark_sent` are transactions of their own. `Drop` loses a handler,
`Outlive` a lease. Ties of time go to the agent whose name sorts first, as in
the query, and the winner is looked up by agent (`Wins`), not by row: that is
why the properties speak of agents that also claimed a peer's answer.

The cap is each agent's own (`group_router.py:454-461`) and may be zero
(`swarm_config.py:123-128`). An agent with a cap of zero claims a message like any
other and always stands down in the end. The re-check before arbitration reads
the newest twenty messages of the chat and counts none when the read fails, so
it may see fewer replies than there are (`seen`).

### SwarmHandoffs, SwarmReviews

| State | Code |
|---|---|
| `watch`, `poller` | the row of `sla_watch`; every agent's poll over due watches |
| `requests`, `intake` | rows of `handoffs` and `memory_requests`; polls that take them, two of which may overlap |
| `challenge`, `author`, `reviewer`, `used` | the row of a challenge; the author waiting in `review_before_send`; the reviewer's intake; what was sent |
| `council`, `positions`, `member`, `synthesis`, `answers` | a session, its stored positions, the intakes, the answers shown |

A request that was accepted by an intake that died stays accepted: the code has
no lease there, and `TakenOnce` says what this buys (it never runs twice). A
hand-off, or a council's synthesis, whose webhook timed out is recorded as failed
but may have been posted (`cron/notify.py:181-216`): `failed` therefore says
nothing about the chat.

### SwarmBudget

`spent` are the rows of today for the swarm and for each conversation, `hold`
the row of each call, `call` and `tried` its progress through the configured
providers, of which each call has its own number (`Attempts`). With several a call
goes through `FallbackChatModel`, which looks at the day before each provider and
falls back; with one the model is called directly (`llm.py:456-459`) and neither
happens (`Chain`). `doubt` and `excess` are history: which requests of a call may
have been billed unseen; and what settled prices added beyond their holds, which
is the whole price of a call whose hold was yesterday's.

One hold stands for all providers of a call. `LastBillIsCounted` is what this
guarantees: a request that may have been billed counts while its call goes on, and
until midnight if it was the last one. `UnknownKeepsCounting` is what the docstring
of `finish_hold` promises, for every request; it is finding 5.

### MemoryReset

`epoch` is `memory_generations`; `stored` holds, for each layer (facts, the
mirror in `swarm.db`, the graph), whose memory it is and from which epoch its
source was; `gate` and `reset` are the gate of `memory/reset.py` with the
threads in it; `cleared` is history. Writers are turns of this agent, turns of
other agents (which write only the mirror, from another process and without this
gate) and the nightly consolidation.

### Expenses

| State | Code |
|---|---|
| `item`, `pending`, `mail` | `email_expense_items`, `pending_expenses`, `processed_emails` |
| `window`, `archived` | what Gmail's search finds; what left the inbox |
| `posted` | how often an item was created in Notion |
| `actor` | the memory of a run of the pipeline (scheduled or manual) or of a chat turn that resolves an item |

A post may fail before it is sent (`PostRefused`) or after it may have been
carried out (`PostInDoubt`). The status of a mail is derived, never set
(`StatusOf`).

### AgentStores

These six modules keep their rows in shared databases, but only claims and
hand-offs read each other's. So a behaviour moves one concern, named by `table`,
and leaves the others as they were; the product would only multiply states.
Claims are two concerns: in `volunteers` all handle the user's message, in
`reactions` they also claim answers of their peers; `Audience` names the handlers of
each. In concern `handoffs` arbitration has let the owner of a topic answer
(`OwnerIsLetThrough`) and its handler goes on, or fails, while the watch runs. No
other agent asks to speak there, so nothing would expire the owner's row, and its
lease is left out of that concern.

## 3. Runs

| Run | Instance | Question |
|---|---|---|
| `durable_core` | 2 executors, 2 conversations, one operation that is gated and has a business key, 2 turns, 1 crash | Do chat, approval, resume, report, /clear, retention and a late request keep off a live turn (`LiveTurnIsOwned`), keep what is saved (`NoLostExchange`, `ClearedStaysCleared`), keep what ended (`EndedIsFinal`, `DoneIsSettled`), ask before acting (`ReservedOnlyIfApproved`), act once (`EffectAtMostOnce`), and is every step one of the contract (`KeepsContract`)? |
| `durable_batch` | 2 executors, 1 conversation, batches of 2 calls, 2 resume attempts, 3 crashes, fairness | Does replaying a partial batch account for every effect (`EffectIsAccounted`) and answer only from records (`CacheIsBacked`)? Is an abandoned turn eventually ended or parked (`AbandonedIsSettled`)? |
| `durable_merge` | batch of 2 equal calls, 1 crash | finding 1 |
| `durable_retention` | 2 turns, business key, no crash | finding 2 |
| `delivery_accounts` | 1 message of up to 2 chunks, 2 accounts, 2 workers | Is a chunk shown once whoever is connected (`ShownOnce`), no receipt invented (`NoFalseReceipt`), nothing sent that is not due (`SendsAreCurrent`)? |
| `delivery_live` | 1 worker, 2 messages of 1 chunk in a turn's stream, fairness | Do messages appear in order (`StreamInOrder`), is every step one of the promise to the reader (`KeepsPromise`), and is a stream's head eventually delivered, held for review or made obsolete (`HeadIsSettled`)? |
| `plans_safe` | 2 steps, 2 execution keys, automatic resume, 1 crash | Is a step one turn (`OneTurnPerStep`), a stop final (`StopIsFenced`), doubt never closed over (`DoubtIsShown`), done earned by the turn (`DoneIsEarned`), and the summary the last word (`SummaryIsLast`)? |
| `plans_live` | 1 step, no automatic resume, 2 crashes, fairness | Does every plan end with its summary (`PlanIsReported`)? |
| `swarm_all` | `AgentStores`, all concerns, fairness for two of them | claims: `OneVolunteer`, `CapHolds`, `NoSilence`; requests: `TakenOnce`, `EscalatedOnce`, `VerdictIsUsed`, `CouncilAnswersOnce`; budget: `SpendIsBounded`, `LastBillIsCounted`; memory: `NothingReturns`, `ResetProceeds`; expenses: `ChargesAreKept`, `MailIsSettled` |
| `swarm_escalation` | concern `handoffs` | finding 3 |
| `swarm_graph` | concern `memory` | finding 4 |
| `swarm_billing` | concern `budget` | finding 5 |

Bounds and why they suffice for these questions.

- *Durable.* Two executors are a task and a rival; further rivals meet the same
  lock. Two turns in a conversation give a newer turn that supersedes, and a
  later turn that meets the older one's key; two conversations share a business
  key. A batch of two has a call before and one after each point of failure.
  Three crashes exceed the two resume attempts by one. One round of tool calls
  lets a turn act and then finish; more rounds start from the same states, since
  `JournalBatch` leaves nothing behind but the ledger.
- *Delivery.* Two accounts, two chunks and two workers are the smallest instance
  where each can repeat the other's request. Liveness allows only a smaller instance.
  `StreamInOrder` also held with two workers and two messages of two chunks (2.2
  million states), and is proved for all bounds. `KeepsPromise` also held in the
  instances of `delivery_accounts` (846,000 states), of two workers and two messages of
  one chunk (264,000), and of one worker and two messages of two chunks (212,000).
- *Plans.* Two steps give an order between steps and a step that still runs when
  the plan stops; two keys and two attempts give a retry whose first turn
  appears late; one crash falls between any two commits, the second in
  `plans_live` also hits the recovery from the first.
- *Claims.* Three agents with caps 0, 1 and 1, two delays and a clock of two: a
  claim can come before or after another was let through, with an earlier, equal
  or later eta. Concern `volunteers` has agents 1 and 2, one that will not answer
  beside one that would; `reactions` has agents 2 and 3, and agent 3 may also
  react to 2. Both reacting to each other (300,000 states), and all three agents at
  once with one of them reacting (3.2 million), satisfied the same properties.
- *Requests.* Two polls and two intakes overlap; two requests tell one hand-off
  from two. Two participants tell a complete council from one that is not.
- *Budget.* A limit of 5 for the day and 4 for a conversation, an estimate of 2
  and prices of 1 and 3: two calls fit the conversation, three do not fit the
  day, and a price can be above or below its hold. Two calls have two providers, the
  third has one. One midnight.
- *Memory.* One reset for each user, because generations are only compared for
  equality; one writer of each kind.
- *Expenses.* Three scenes: two mails of one charge, with the job and a chat
  turn; a mail of two items, one of them in a foreign currency, with two runs and
  a chat turn; a mail of two items with the job and a chat turn. Two faults.
  Larger instances (3 items in 2 mails, 2 runs over 2 mails) satisfied the same
  properties.

In the durable and the swarm runs deadlock is not checked: when the bounds on
turns, days, faults and requests are used up and everything is settled, the
system has nothing left to do. The other runs check it.

Fairness.

- `DurableTurn!FairSpec`: a live executor keeps taking steps, because each await
  of the loop is bounded by a timeout (`TOOL_TIMEOUT_SECONDS`, the model client's
  own) after which `Raise` is enabled. `Report` is strongly fair: recovery runs
  at process start and skips a busy conversation, so this assumes that some start
  finds it idle.
- `Delivery!FairSpec`: `cron/delivery.py` polls for ever and
  `SEND_TIMEOUT_SECONDS` ends each send. The strong fairness of the worker's
  steps says that crashes and failures do not hit every single attempt; that the
  connection stays up from some time on, and that a request repeated for ever
  arrives, are assumptions about the network, without which nothing can be
  promised.
- `Plans!FairSpec`: the scheduler starts the job again and again, an executor
  goes on until its tools answer or time out, and the ninety days of a plan
  pass. No fairness for the owner, who need not approve, release or cancel.
- `AgentStores!FairSpec`: a thread inside the memory gate goes on, and
  `notify_all` wakes a reset that waits; the scheduler starts the daily expenses
  job again and its calls return or raise. A manual run and a chat turn may stop
  anywhere.

## 4. Findings

1. `durable_merge`. `session.py:936` refuses a second identical call under a new
   call id: "Never silently count them as one." When a batch is replayed after a
   crash, `engine.react_loop` (985-1006) looks the effect up by key before it
   gets there, and answers the second call with the first one's effect.
2. `durable_retention`. `session.py:781` and `docs/RUNTIME.md` justify dropping
   effects with their turn by the turn id in the key. A declared business key
   does not contain it, so after pruning a later turn repeats the operation.
3. `swarm_escalation`. `cron/escalation.py:5` says that a topic with no answer by
   its owner's deadline is handed over. The Bot API path reports a failed send as
   None (`bridge.py:1684`), but `bridge.py:1693` marks the claim as sent all the
   same, and the poller counts sent claims: nobody covers.
4. `swarm_graph`. `cron/sleep_compute.py:138` says that facts read before a reset
   must not rebuild the graph it removed. The facts of all users are read at line
   74, the generation is captured at line 139 when the user's turn comes: a reset
   between the two is not noticed.
5. `swarm_billing`. `security/model_budget.py:39-43` says that a call that ends in
   anything but a 4xx refusal, a timeout included, "has an unknown billing outcome
   and keeps counting against today's limits". When a first provider times out, the
   call falls back under the same hold, and the second provider's 4xx releases it
   (line 51), or its answer settles it (`swarm_store.py:1329`). What the first
   provider may have billed is then counted nowhere.

Each is stated as what the comment promises, and the run shows the trace. The
properties that hold exclude exactly these cases: `forgotten` holds the business
keys that retention dropped; `CacheIsBacked` asks for a record of the key, not
of the call; `EscalatedOnce` goes by what the claims say; and
`NothingReturns` is about facts and their mirror, not about the graph;
`LastBillIsCounted` is about a call's last request.

One exception inside a property that holds deserves the same attention.
`NoSilence` allows silence when an agent with a cap of zero had claimed the message
ahead of all that would have answered: they lose to its row
(`can_send_claim`), and it then stands down itself ("cap reached (0>=0)").
`bridge.py:1291-1294` introduces the agent's own cap as a way to make it yield
"without touching anyone else's routing". No run of its own shows this; the claims
concern `volunteers` of `swarm_all` contains the behaviour.

## 5. Proofs

`DurableTurnProofs` proves for all values of the constants, from
`ConstantsAssumption` alone, that `Inductive` is an invariant, and derives
`TypeOK`, `LiveTurnIsOwned`, `EffectAtMostOnce`, `EffectIsAccounted`,
`DoneIsSettled` and the action property `EndedIsFinal`.

Why a strengthening is needed. That an effect happens at most once follows from
no single guard. `Accounts` relates the ledger to the world for every key that
it answers for: no entry, then nothing on its way and nothing done (or done and
recorded in a turn pruned since); pending, then done at most once; recorded,
then done exactly once. For this to survive, the intent must still be pending
and its owner's when the result is published (`Reserved`), which rests on the
operator not reaching a conversation in use and on turns not being pruned under
their executor (`Owners`: a live executor holds its conversation's lock, and its
turn is unended). A reservation must not be made beside an open prompt that
someone else may decide (`OnePrompt`), and an intent must belong to a turn whose
row exists (`Intents`, `Rows`). The proof goes conjunct by conjunct
(`TypeStep`, `RowsStep`, `OwnersStep`, `OnePromptStep`, `IntentsStep`,
`ReservedStep`, `DoneIsSettledStep`, `AccountsStep`), each by cases on the
actions that touch its variables; the lemma `Kinds` sorts the actions once.

Three stories rest on what an executor remembers, and are inductive only beside
`Inductive` (`SpecWhole`):

- `Histories` gives `NoLostExchange` and `ClearedStaysCleared`. A history is read
  at the start and written back whole at the end; this is sound because the copy
  is still equal to what is saved (`SeenStaysCurrent`: reports and /clear need the
  conversation free, and other writers hold other conversations), and because a
  turn that is still open is in no history and was cleared from none, so that
  adding it cannot bring back what /clear removed.
- `Permitted` gives `ReservedOnlyIfApproved`. An executor that continues after an
  approval is exempt from the check for one operation and keeps this exemption
  in its memory through later calls and rounds. It stays justified as long as the
  approval is the turn's last prompt (`GrantStays`: a decision needs the
  conversation free, and the executor's own next prompt parks it), and outside
  the loop only the approved call itself is run.
- `Backed` gives `CacheIsBacked`. Between the record in the ledger and the
  memoized result lies a step at which the executor may die or retention may run
  (`KnownStays`: a record goes only with its turn, which takes the memoized
  results along, or leaves its business key in `forgotten`).

`SpecKeepsContract` states `Spec => KeepsContract`: under the mapping `Phase`
the initial states are the contract's, and each step is a contract step or a
stutter. `ClaimEffect` reserves, `Arrives` applies, `FinishEffect` and a verdict
"happened" record, "did not happen" reopens, "unknown" and `Prune` waive.

`DeliveryProofs` proves from `DeliveryConstants` alone that `Delivery!Inductive`
is an invariant, and derives `TypeOK`, `ShownOnce`, `NoFalseReceipt`,
`StreamInOrder`, `SendsAreCurrent` and `SettledStays`. What makes it work is that
a worker acts on old information and is still right. A candidate was picked
before any lock was taken, but a row at the head of its stream stays there
(`Candidates`, by `HeadStep`: nothing earlier can appear or become due again). A
row that was read under the lock may become obsolete, but its state, its account
and its receipts are its holder's alone (`Holders`, by `WorkerFrame` and
`OutsideFrame`: all who would change them need the lock free). So each request
is for the next chunk and comes from the bound account (`Sent`), also when it
arrives long after its worker is gone, and each receipt stands for an accepted
request (`Receipts`). `RowStep` says once what a step may do to a row.

`SpecKeepsPromise` states `Spec => KeepsPromise`, the refinement of
`OutboxContract`. A message is open, held, dropped or delivered (`Status`); a
chunk is under way while a request for it is on the wire or a worker is about to
send it (`Underway`). `Words` translates one vocabulary into the other, and each
step then maps to `Write`, `Hold`, `Drop`, `Resume`, `Deliver`, `Show`, `Fade` or
to a stutter (`ProducerStep`, `HoldStep`, `ShowStep`, `QuietStep` and the others). The
hard part is what a reader can see after an operator has held or dropped a
message: at most the one chunk that was already on its way.
This is `NothingNewUnderway`: a worker comes to the point of sending only by a
look at a row that is pending and not obsolete (`Sends`), and after each receipt
it either lets go or looks again (`AcknowledgedOnce`). A late request can still
show its chunk, and `ShowStep` proves that it is the next one, for the first time
and from the account that showed the earlier ones, unless an operator moved the
row (`reassigned`). `SettledStays` (receipts are never taken back) is proved as a
theorem of its own; no run checks it, since `KeepsPromise` asks for
the part of it that a reader can notice.

`PlansProofs` proves from `PlanConstants` alone, with abandoned turns continued
by the job or not, that `PlansInductive` is an invariant, and derives `TypeOK`,
`OneTurnPerStep`, `StopIsFenced`, `DoubtIsShown`, `DoneIsEarned` and the action
property `SummaryIsLast`. The difficulty is that a step and its turn are rows of
two databases, linked one after the other, while commits of dead tasks may still
arrive. What carries the proof:

- A step draws one claim key for ever, and every turn that was opened or may yet
  be opened by a late commit carries the key of its step (`OwnKeys`); the unique
  index on the key then gives `OneTurnPerStep`.
- Whoever works on a step holds the plan's conversation, and the step is not
  stopped (`Holding`); whoever is inside a turn works on the one that is linked
  (`Working`). An executor that does not hold the conversation can disturb
  nobody who does, so each action is proved once for its own executor and once
  for bystanders.
- Stop cleanup looks at the turn in one transaction and acknowledges the stop in
  another. What it is about to write still agrees with every turn of the step,
  also with one that a late commit opened in between: that turn has reserved
  nothing and asked nobody, and no executor will ever work on it (`Stopping`).
  With `Silenced` this is `StopIsFenced`.
- An operation of unknown outcome is known to its step (`TurnsAgree`), so whatever
  settles the step sees it: `DoubtIsShown` is inductive beside the others.
- Only the outcome of the linked turn is copied to a step (`Earned`).
- The summary is written in a plan that is over and has no step left to move
  (`PlanAgrees`). A plan that is over authorizes neither a reservation nor a
  dispatch; the steps the summary speaks of match no guard of a later write to a
  step (`OverIsStill`); and only `Apply` and `SetSummary` queue anything, the one
  for a step that still moves, the other once (`LastWord`).

`SwarmClaimsProofs` proves `OneVolunteer`, `CapHolds` and `NoSilence` for any
agents, delays and caps, one for each agent, zero included. The difficulty is that the decision and the row that
shows it are two transactions. `WinnerIsAhead` closes the gap: a handler that was
let through is ahead of all volunteers, also of those that claim later, because
a claim's eta lies strictly after the clock at which it is made and a winner's
does not (`ReceiveKeeps`). For the cap, slots are counted with the winners that
have not taken theirs yet (`SlotsHold`); since the query finds the winner by
agent, every agent that reacts to a peer may have cost one more, and that is the
bound. It is met by the cap of the agent that won last, so the statement is about
the largest cap. `NoSilence` rests on `SomeoneIsAhead`: while nobody answers,
somebody who still waits, or an agent with cap zero that stood down, is ahead of
all who have lost and would have answered (`Standing` and `Beaten`).

`SwarmRequestsProofs`: an intake owns the request it works on (`WorkIsOwned`),
and only the poll whose UPDATE found the watch waiting makes a hand-off
(`OneMaker`), which gives `TakenOnce` and `EscalatedOnce`; where the author of a
challenge stands determines what its row may be (`AuthorAgrees`); one poll holds
a council's synthesis and answers are counted by its steps (`OneHolder`,
`AnswersCounted`); the budget bound is inductive as it stands once every call's
hold agrees with its step (`HoldsStand`), with the cardinality of the holds
followed through each step (`HeldGrows`, `HeldDrops`).

`MemoryResetProofs`: a reset holds the gate only when it is empty (`GateIsHeld`),
so a writer that found its generation current stores before the next deletion of
its layer; `NothingReturns` follows for facts and their mirror (`CheckedIsFresh`); a turn's source is as old as the generation it
captured (`TurnsCapture`). The consolidation has no such conjunct: finding 4.

`ExpensesProofs`: an actor that writes an item holds it alone (`OneItemHolder`),
and what it remembers agrees with the ledger and with Notion (`ActorAgrees`,
`ItemAgrees`). From this follows `ChargesAreKept`, for any mails, runs, chat
turns and faults.

`AgentStoresProofs` puts the parts together: `StoreInductive` is an invariant of
`AgentStores!Spec` for any set of concerns, and with it `TypeOK` and all
invariants that `swarm_all` checks. Its one new case is the state in which
concern `handoffs` starts (`OwnerInit`).

Every invariant and every action property that a passing run checks is proved.
Only model-checked: all liveness (`AbandonedIsSettled`, `HeadIsSettled`,
`PlanIsReported`, `ResetProceeds`, `MailIsSettled`), since fairness and ENABLED
are beyond the provers.

## 6. Not modelled, and what is next

Left out of the modelled components:

- *Durable turns.* Read-only tools and their parallel pre-execution, delegation
  to sub-agents, reactions that run without a journal, the owed-reply columns;
  trimming, compaction and the replacement of unreadable histories.
- *Delivery.* Back-off, the limit of four candidates, corrupt payloads.
- *Plans.* `park_step`, which nothing calls; steps without a link from before
  links existed; wake times and back-off (a wake time may always have come); the
  per-cycle budgets; the numbering of steps added concurrently; delivery of the
  approval prompt.
- *Claims.* The ceiling on exchanges and the window of peers' messages, which
  read the chat and change no row; answers to commands, which run without an
  executing lease; the owner's path in a forum topic counts as tier 1; the eta is
  computed and inserted in one step.
- *Requests.* Limits for each poll; the wording of reviews and positions.
- *Budget.* The degradation to a cheaper tier before a limit is reached, and
  models that are called directly.
- *Memory.* The sessions scope, `forget_fact`, imports, and the private stores of
  other agents' processes.
- *Expenses.* Dry runs, queues from before the item table, the limits of search
  and retries, the tranches of the budget page, the removal of duplicate pages.

Components that are not modelled:

- *Owed replies* (`session.py:365-418`). The turn and the outbox on both sides
  of them are modelled. What a model should ask is whether a finished answer is
  confirmed only when it was sent. Reading suggests an answer that no run here
  checks: a second click on an approval button (`bridge.py:1031-1076`), or the
  confirmation of a prompt that arrives after its turn has finished
  (`bridge.py:1687`), settles the debt of an answer which that call did not send,
  while `bridge.py:1073` says "Confirm only what Telegram accepted".
- *Notification retries.* One table and one job; its delicate point is which
  errors count as not accepted, a classification of HTTP answers.
- *Group routing and bridges.* Their decisions that change durable state are in
  the modules above (`Receive` to `MarkSent`, `RejectInput`, `Decide`); the rest
  is transport.
- *Model providers, prompts, sub-agents, tools.* A model may ask for any call and
  a tool may do anything behind it; the modules assume no more.
- *Memory search, skills, evaluation, signals, observer, analytics, research.*
  Ranking, text and periodic pipelines of one job each; no protocol.
- *Policy, audit, PII and output checks.* Configuration and text classification.
- *Scheduler, database layer, migrations.* Assumed: a timer that fires again, and
  SQLite's promise for a committed transaction.
- *CLI, dashboard, portability, deployment.* Presentation; the operator's
  commands that change durable state are actions above.

Most of the repository is of this second kind (adapters, prompts, rendering), so
the mapped share of its lines stays small; the coordination code is mapped nearly
whole.

Next:

1. Model owed replies between turn and outbox; contract: an answer is shown at
   least once, and again only across a restart.
2. Use `OutboxContract` for the stream of a plan, which is `queue` in `Plans`, and
   state what a reader sees of a plan from its first result to its summary.
3. Prove that a step of a plan implements the step a plan promises: waiting, one
   turn, one outcome, never again.
