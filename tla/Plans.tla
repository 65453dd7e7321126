------------------------------- MODULE Plans -------------------------------
(***************************************************************************)
(* Long-lived plans (kronos/plans.py), the job that moves them             *)
(* (kronos/cron/plans.py) and the durable turns their steps run as         *)
(* (kronos/session.py, kronos/graph.py).  Plans and turns live in two      *)
(* databases that share no transaction.                                    *)
(*                                                                         *)
(* One plan is modelled: the rows of two plans never meet.  A turn is      *)
(* named by its caller_key, whose index is unique, so key k and the turn   *)
(* opened with it are the same number.  Back-off and wake times are left   *)
(* out (a wake time may always have come), and so is park_step, which      *)
(* nothing calls.  Every step is one the owner wants to hear about         *)
(* (notify), in a plan that has a chat.                                    *)
(***************************************************************************)
EXTENDS Naturals, Sequences, FiniteSets

CONSTANTS
    Poller,       \* the scheduler's plan job: one at a time in a process
    Desk,         \* approval callbacks and manual continuation
    NoOne,
    AutoResume,   \* policy: the job continues abandoned turns by itself
    MaxSteps,     \* bound: steps of the plan
    MaxTurns,     \* bound: claim keys ever drawn
    MaxAttempts,  \* MAX_STEP_ATTEMPTS
    MaxResumes,   \* max_resume_attempts
    MaxCrashes    \* bound: executors lost

ASSUME PlanConstants ==
    /\ Poller # Desk /\ NoOne \notin {Poller, Desk}
    /\ AutoResume \in BOOLEAN
    /\ {MaxSteps, MaxTurns, MaxResumes, MaxCrashes} \subseteq Nat
    /\ MaxAttempts \in Nat \ {0}

VARIABLES
    plan,     \* the row of plans
    due,      \* expires_at has passed
    steps,    \* plan_steps, by id
    rows,     \* steps inserted so far
    adding,   \* add_step between its checks and its insert
    turns,    \* active_turns with its approvals and intents, by caller key
    late,     \* <<key, step>> whose begin_turn may still commit after its task is gone
    lock,     \* own_conversation of plan:<id>
    exec,     \* the memory of each executor
    poll,     \* the job's place in its cycle
    queue,    \* the plan's delivery stream: step ids, 0 for the summary
    told,     \* history: the steps the summary speaks of
    crashes

vars == <<plan, due, steps, rows, adding, turns, late, lock, exec, poll, queue,
          told, crashes>>

-----------------------------------------------------------------------------
StepIds   == 1..MaxSteps
Keys      == 1..MaxTurns
Executors == {Poller, Desk}

StepStates == {"pending", "waiting", "running", "awaiting_approval",
               "needs_review", "interrupted", "done", "failed"}
Settled     == {"done", "failed"}
Continuable == {"running", "awaiting_approval", "waiting", "interrupted"}
Moving      == {"running", "awaiting_approval", "interrupted"}
Unresolved  == Moving \cup {"needs_review"}

NoStep == [state |-> "pending", after |-> {}, turn |-> 0, key |-> 0, tries |-> 0,
           stopped |-> FALSE]
NoTurn == [status |-> "none", error |-> "", approval |-> "none", refused |-> FALSE,
           open |-> FALSE, resumes |-> 0, step |-> 0, row |-> 0]
Away   == [pc |-> "idle", step |-> 0, why |-> "none", turn |-> 0, verdict |-> ""]
NewCycle == [stage |-> 1, todo |-> {}, waits |-> {}, resumed |-> FALSE,
             touched |-> FALSE]

Existing  == 1..rows
Live      == plan.state = "active" /\ ~due
Begun     == {k \in Keys : turns[k].status # "none"}
Drawn     == {steps[s].key : s \in Existing} \cup Begun \cup {l[1] : l \in late}
NextRow   == Cardinality(Begun) + 1

At(e, pc) == exec[e].pc = pc
Sid(e)    == exec[e].step
Step(e)   == steps[Sid(e)]
Key(e)    == Step(e).key
Turn(e)   == turns[Key(e)]

\* What may still continue this turn: plan_for_turn, and the execution guard.
PlanForTurn(k) == /\ Live
                  /\ \E s \in Existing : steps[s].turn = k /\ steps[s].state \in Continuable
Authorized(e) == PlanForTurn(Key(e))

Init ==
    /\ plan = [state |-> "active", stop |-> "", summary |-> FALSE]
    /\ due = FALSE
    /\ steps = [s \in StepIds |-> NoStep] /\ rows = 0
    /\ adding = {}
    /\ turns = [k \in Keys |-> NoTurn] /\ late = {}
    /\ lock = NoOne
    /\ exec = [e \in Executors |-> Away]
    /\ poll = NewCycle
    /\ queue = <<>> /\ told = {}
    /\ crashes = 0

-----------------------------------------------------------------------------
(* The owner and the agent's chat, in threads of their own.                 *)

\* add_step reads the plan and its steps ...
AddCheck(after) ==
    /\ adding = {} /\ plan.state = "active" /\ rows < MaxSteps
    /\ adding' = {after}
    /\ UNCHANGED <<plan, due, steps, rows, turns, late, lock, exec, poll, queue, told,
                   crashes>>

\* ... and inserts the row in a statement of its own.
AddInsert(waits) ==
    /\ adding # {}
    /\ rows' = rows + 1 /\ adding' = {}
    /\ steps' = [steps EXCEPT ![rows + 1] =
                    [NoStep EXCEPT !.state = IF waits THEN "waiting" ELSE "pending",
                                   !.after = CHOOSE d \in adding : TRUE]]
    /\ UNCHANGED <<plan, due, turns, late, lock, exec, poll, queue, told, crashes>>

CancelPlan ==
    /\ plan.state = "active"
    /\ plan' = [plan EXCEPT !.state = "cancelled", !.stop = "plan_cancelled"]
    /\ UNCHANGED <<due, steps, rows, adding, turns, late, lock, exec, poll, queue, told,
                   crashes>>

MayRelease(s) == steps[s].state = "waiting" /\ steps[s].turn = 0 /\ Live

\* kaos plans resume
ReleaseStep(s) ==
    /\ MayRelease(s)
    /\ steps' = [steps EXCEPT ![s].state = "pending"]
    /\ UNCHANGED <<plan, due, rows, adding, turns, late, lock, exec, poll, queue, told,
                   crashes>>

\* The plan's ninety days are over; an approval request gets too old.
TimePasses ==
    /\ ~due /\ due' = TRUE
    /\ UNCHANGED <<plan, steps, rows, adding, turns, late, lock, exec, poll, queue, told,
                   crashes>>
ApprovalAges(k) ==
    /\ turns[k].approval = "pending"
    /\ turns' = [turns EXCEPT ![k].approval = "stale"]
    /\ UNCHANGED <<plan, due, steps, rows, adding, late, lock, exec, poll, queue, told,
                   crashes>>

-----------------------------------------------------------------------------
(* A turn of a step, run by the executor that holds the conversation.       *)

SetTurn(k, status, error) ==
    turns' = [turns EXCEPT ![k].status = status, ![k].error = error]

\* fail_turn leaves a turn that already ended alone.
FailTurn(k, error) ==
    turns' = IF turns[k].status \in {"running", "waiting"}
             THEN [turns EXCEPT ![k].status = "failed", ![k].error = error]
             ELSE turns

Goto(e, pc) == exec' = [exec EXCEPT ![e].pc = pc]

Leave(e) == lock' = NoOne /\ exec' = [exec EXCEPT ![e] = Away]

\* The execution is over for this executor: the job reads the outcome, other
\* callers let go of the conversation.  An exception of a first run is handled
\* as an interruption; a continuation swallows it.
Return(e, raised) ==
    IF e = Desk THEN Leave(e)
    ELSE /\ exec' = IF raised /\ exec[e].why = "run"
                    THEN [exec EXCEPT ![e].pc = "recover", ![e].why = "failed"]
                    ELSE [exec EXCEPT ![e].pc = "outcome"]
         /\ UNCHANGED lock

OnlyTurn == UNCHANGED <<plan, due, steps, rows, adding, late, poll, queue, told, crashes>>

\* Every boundary reads the plan again; a revoked turn fails, its claim open.
Stopped(e) ==
    /\ exec[e].pc \in {"loop", "reserved"} /\ ~Authorized(e)
    /\ FailTurn(Key(e), "stop") /\ Return(e, TRUE) /\ OnlyTurn

Reserve(e) ==
    /\ At(e, "loop") /\ Authorized(e)
    /\ turns' = [turns EXCEPT ![Key(e)].open = TRUE]
    /\ Goto(e, "reserved") /\ OnlyTurn /\ UNCHANGED lock

Dispatch(e) ==
    /\ At(e, "reserved") /\ Authorized(e)
    /\ Goto(e, "acting") /\ OnlyTurn /\ UNCHANGED <<turns, lock>>

Answered(e) ==
    /\ At(e, "acting")
    /\ turns' = [turns EXCEPT ![Key(e)].open = FALSE]
    /\ Goto(e, "loop") /\ OnlyTurn /\ UNCHANGED lock

\* The outcome is uncertain: the intent stays open.
Uncertain(e) ==
    /\ At(e, "acting")
    /\ FailTurn(Key(e), "other") /\ Return(e, TRUE) /\ OnlyTurn

AskApproval(e) ==
    /\ At(e, "loop") /\ Authorized(e) /\ Turn(e).approval = "none"
    /\ turns' = [turns EXCEPT ![Key(e)].status = "waiting", ![Key(e)].approval = "pending"]
    /\ Return(e, FALSE) /\ OnlyTurn

\* finalize_turn: the answer, or the failure of the model.  It asks no guard.
Finish(e, status) ==
    /\ At(e, "loop")
    /\ SetTurn(Key(e), status, IF status = "failed" THEN "other" ELSE "")
    /\ Return(e, FALSE) /\ OnlyTurn

RunTurn(e) ==
    \/ Stopped(e) \/ Reserve(e) \/ Dispatch(e) \/ Answered(e) \/ Uncertain(e)
    \/ AskApproval(e) \/ \E status \in {"done", "failed"} : Finish(e, status)

-----------------------------------------------------------------------------
(* Continuing a turn that already exists.                                   *)

Newer(k) == \E j \in Begun : turns[j].row > turns[k].row

\* claim_turn_for_resume, under the conversation lock.
ResumeClaim(e) ==
    LET k == Key(e) IN
    /\ At(e, "resume")
    /\ \/ /\ turns[k].status # "running" \/ turns[k].approval = "pending"
          /\ UNCHANGED turns /\ Return(e, FALSE)
       \/ /\ turns[k].status = "running" /\ turns[k].approval # "pending"
          /\ \/ /\ Newer(k)
                /\ SetTurn(k, "superseded", "other") /\ Return(e, FALSE)
             \/ /\ ~Newer(k) /\ turns[k].resumes >= MaxResumes
                /\ SetTurn(k, "failed", "other") /\ Return(e, FALSE)
             \/ /\ ~Newer(k) /\ turns[k].resumes < MaxResumes
                /\ turns' = [turns EXCEPT ![k].resumes = @ + 1]
                /\ Goto(e, "resumed") /\ UNCHANGED lock
    /\ OnlyTurn

\* note_turn_resuming, then the checks of _resume_claimed_turn.
ResumeCheck(e) ==
    LET k == Key(e) IN
    /\ At(e, "resumed")
    /\ steps' = [s \in StepIds |->
                    IF s \in Existing /\ steps[s].turn = k /\ Live
                       /\ steps[s].state = "interrupted"
                    THEN [steps[s] EXCEPT !.state = "running"] ELSE steps[s]]
    /\ IF Authorized(e) /\ ~turns[k].open
       THEN Goto(e, "loop") /\ UNCHANGED <<turns, lock>>
       ELSE FailTurn(k, "other") /\ Return(e, FALSE)
    /\ UNCHANGED <<plan, due, rows, adding, late, poll, queue, told, crashes>>

\* The desk takes the conversation for a step whose plan is still live.
Sit(s, pc) ==
    /\ At(Desk, "idle") /\ lock = NoOne
    /\ PlanForTurn(steps[s].turn)
    /\ lock' = Desk
    /\ exec' = [exec EXCEPT ![Desk] = [Away EXCEPT !.pc = pc, !.step = s]]
    /\ UNCHANGED turns /\ OnlyTurn

InStatus(s, status) == steps[s].turn \in Begun /\ turns[steps[s].turn].status = status
DeskResume(s)  == InStatus(s, "running") /\ Sit(s, "resume")
DeskApprove(s) == InStatus(s, "waiting") /\ Sit(s, "deciding")

\* claim_pending_approval: an answer that is too late ends the turn.
Decide(approved) ==
    LET k == Key(Desk) IN
    /\ At(Desk, "deciding")
    /\ \/ /\ turns[k].approval = "pending"
          /\ turns' = [turns EXCEPT ![k].status = "running", ![k].approval = "decided",
                                    ![k].refused = ~approved]
          /\ Goto(Desk, "loop") /\ UNCHANGED lock
       \/ /\ turns[k].approval = "stale"
          /\ turns' = [turns EXCEPT ![k].status = "failed", ![k].error = "approval_expired",
                                    ![k].approval = "decided"]
          /\ Leave(Desk)
    /\ OnlyTurn

-----------------------------------------------------------------------------
(* The job: one cycle of run_due_plan_steps.                                *)

Cycle == <<"retire", "stops", "turns", "retire", "stops", "summary", "steps",
           "settle", "retire", "stops", "summary">>

Stage(op) == At(Poller, "idle") /\ Cycle[poll.stage] = op

NextStage == IF poll.stage = Len(Cycle) THEN NewCycle
             ELSE [poll EXCEPT !.stage = @ + 1, !.todo = {}]

Unchanged == UNCHANGED <<rows, adding, crashes>>

\* expire_plan: future work is revoked, a step that may have run is not touched.
NeverClaimed(s) == /\ steps[s].state \in {"pending", "waiting"}
                   /\ steps[s].turn = 0 /\ steps[s].key = 0
Retire ==
    /\ Stage("retire")
    /\ IF plan.state = "active" /\ due
       THEN /\ plan' = [plan EXCEPT !.state = "failed", !.stop = "plan_expired"]
            /\ steps' = [s \in StepIds |->
                            IF s \in Existing /\ NeverClaimed(s)
                            THEN [steps[s] EXCEPT !.state = "failed", !.stopped = TRUE]
                            ELSE steps[s]]
       ELSE UNCHANGED <<plan, steps>>
    /\ poll' = NextStage
    /\ Unchanged /\ UNCHANGED <<due, turns, late, lock, exec, queue, told>>

\* A pass reads its candidates once and then takes them one at a time.
Candidates(op) ==
    IF op = "stops"
    THEN {s \in Existing : plan.stop # "" /\ ~steps[s].stopped}
    ELSE {s \in Existing : plan.state = "active" /\ steps[s].state \in Moving}

BeginPass(op) ==
    /\ Stage(op)
    /\ IF Candidates(op) = {} THEN poll' = NextStage /\ UNCHANGED exec
       ELSE poll' = [poll EXCEPT !.todo = Candidates(op)] /\ Goto(Poller, op)
    /\ Unchanged /\ UNCHANGED <<plan, due, steps, turns, late, lock, queue, told>>

EndPass(op) ==
    /\ At(Poller, op) /\ poll.todo = {}
    /\ poll' = NextStage /\ Goto(Poller, "idle")
    /\ Unchanged /\ UNCHANGED <<plan, due, steps, turns, late, lock, queue, told>>

\* The conversation is busy, or the row read again asks for nothing.
Skip(op, s) ==
    /\ At(Poller, op) /\ s \in poll.todo
    /\ lock # NoOne \/ s \notin Candidates(op) \/ (op = "turns" /\ due)
    /\ poll' = [poll EXCEPT !.todo = @ \ {s}]
    /\ Unchanged /\ UNCHANGED <<plan, due, steps, turns, late, lock, exec, queue, told>>

TakeUp(op, s, pc) ==
    /\ At(Poller, op) /\ s \in poll.todo
    /\ lock = NoOne /\ s \in Candidates(op) /\ ~(op = "turns" /\ due)
    /\ lock' = Poller /\ poll' = [poll EXCEPT !.todo = @ \ {s}]
    /\ exec' = [exec EXCEPT ![Poller] = [Away EXCEPT !.pc = pc, !.step = s, !.why = op]]
    /\ Unchanged /\ UNCHANGED <<plan, due, steps, turns, late, queue, told>>

\* The candidate is dealt with; the lock is released and the pass goes on.
NextCandidate ==
    /\ lock' = NoOne
    /\ exec' = [exec EXCEPT ![Poller] =
                    [Away EXCEPT !.pc = IF exec[Poller].why = "stops" THEN "stops" ELSE "turns"]]
    /\ UNCHANGED poll

AfterReconcile == Goto(Poller, "settle") /\ UNCHANGED <<lock, poll>>

\* One step of a plan runs in a cycle; its plan is settled at the end of it.
RunOver ==
    /\ lock' = IF lock = Poller THEN NoOne ELSE lock
    /\ exec' = [exec EXCEPT ![Poller] = [Away EXCEPT !.pc = "steps"]]
    /\ poll' = [poll EXCEPT !.todo = {}, !.touched = TRUE]

\* An exception nobody catches: the cycle is abandoned.
AbortCycle ==
    /\ lock' = NoOne /\ poll' = NewCycle
    /\ exec' = [exec EXCEPT ![Poller] = Away]

Reconciling == exec[Poller].why \in {"turns", "resumed"}
Continue    == IF Reconciling THEN AfterReconcile ELSE RunOver

-----------------------------------------------------------------------------
(* Stop cleanup (_reconcile_stops), under the conversation lock.            *)

\* Mutation: only the status of the turn is read, not its open operations.
ReviewByStatus(k) == LET r == turns[k] IN
    r.status = "superseded" \/ (r.status = "failed" /\ r.error # "stop")

\* What stop_plan_turn finds in a turn, before it closes it.
NeedsReview(k) == LET r == turns[k] IN
    r.open \/ r.status = "superseded" \/ (r.status = "failed" /\ r.error # "stop")

\* Mutation: a refused operation does not matter.
CompletedAnyway(k) == turns[k].status = "done" /\ ~NeedsReview(k)

Completed(k) == turns[k].status = "done" /\ ~turns[k].refused /\ ~NeedsReview(k)

\* Mutation: a pending approval survives the stop.
StillAsked(k) == turns[k].approval
NotAsked(k)   == IF turns[k].approval = "none" THEN "none" ELSE "decided"

\* Approvals are closed and a turn that was not over fails; doubt is kept.
Closed(k) == LET r == turns[k] IN
    [r EXCEPT !.status = IF NeedsReview(k) \/ @ \in {"running", "waiting"}
                         THEN "failed" ELSE @,
              !.error = IF NeedsReview(k) THEN "other"
                        ELSE IF r.status \in {"running", "waiting"} THEN "stop" ELSE @,
              !.refused = @ \/ r.approval \in {"pending", "stale"},
              !.approval = NotAsked(k)]

\* The turn is the linked one, or the one a lost link left behind.
TurnOf(s) == IF steps[s].turn # 0 THEN steps[s].turn
             ELSE IF steps[s].key \in Begun THEN steps[s].key ELSE 0

StopTurn ==
    LET s == Sid(Poller)  k == TurnOf(s)  was == steps[s].state IN
    /\ At(Poller, "stopping")
    /\ turns' = IF k = 0 THEN turns ELSE [turns EXCEPT ![k] = Closed(k)]
    /\ exec' = [exec EXCEPT ![Poller].pc = "stopped", ![Poller].turn = k,
                   ![Poller].verdict =
                      CASE was = "needs_review"           -> "needs_review"
                        [] was # "needs_review" /\ k = 0   -> IF was = "done" THEN "done" ELSE "failed"
                        [] was # "needs_review" /\ k # 0   -> IF NeedsReview(k) THEN "needs_review"
                                                              ELSE IF Completed(k) THEN "done" ELSE "failed"]
    /\ Unchanged /\ UNCHANGED <<plan, due, steps, late, lock, poll, queue, told>>

\* reconcile_stopped_step, in the other database.
AckStop ==
    LET s == Sid(Poller) IN
    /\ At(Poller, "stopped")
    /\ steps' = IF steps[s].stopped THEN steps
                ELSE [steps EXCEPT ![s].state = exec[Poller].verdict,
                                   ![s].turn = exec[Poller].turn, ![s].stopped = TRUE]
    /\ NextCandidate
    /\ Unchanged /\ UNCHANGED <<plan, due, turns, late, queue, told>>

-----------------------------------------------------------------------------
(* Reconciliation of claims and turns (_recover_unlinked, _apply_outcome).  *)

\* The compare-and-set of every write to a step that has a turn.
Holds(s, k) == Live /\ steps[s].turn = k /\ steps[s].state \in Continuable
MayLink(s)  == Live /\ steps[s].turn = 0 /\ steps[s].state = "running"

Recover ==
    LET s == Sid(Poller)  k == Key(Poller) IN
    /\ At(Poller, "recover")
    /\ \/ /\ steps[s].turn # 0
          /\ Goto(Poller, "outcome") /\ UNCHANGED <<steps, lock, poll>>
       \/ /\ steps[s].turn = 0 /\ k \notin Begun
          /\ Goto(Poller, "retry") /\ UNCHANGED <<steps, lock, poll>>
       \/ /\ steps[s].turn = 0 /\ k \in Begun /\ MayLink(s)
          /\ steps' = [steps EXCEPT ![s].turn = k]
          /\ Goto(Poller, "outcome") /\ UNCHANGED <<lock, poll>>
       \/ /\ steps[s].turn = 0 /\ k \in Begun /\ ~MayLink(s)
          /\ IF Reconciling THEN NextCandidate ELSE AbortCycle
          /\ UNCHANGED steps
    /\ Unchanged /\ UNCHANGED <<plan, due, turns, late, queue, told>>

\* Mutation: the retry forgets the key of the claim it gives up.
RetryForgetsKey(s) == [steps EXCEPT ![s].state = "pending", ![s].key = 0]

\* Mutation: a claim without a turn is retried without limit.
RetryForever(s) == [steps EXCEPT ![s].state = "pending"]

\* retry_unstarted_step keeps the key: the turn may still be committed.
Unstarted(s) == [steps EXCEPT ![s].state = IF steps[s].tries >= MaxAttempts
                                           THEN "failed" ELSE "pending"]

RetryUnstarted ==
    /\ At(Poller, "retry")
    /\ steps' = IF MayLink(Sid(Poller)) THEN Unstarted(Sid(Poller)) ELSE steps
    /\ Continue
    /\ Unchanged /\ UNCHANGED <<plan, due, turns, late, queue, told>>

Outcome(k) ==
    CASE turns[k].status = "running"    -> "running"
      [] turns[k].status = "waiting"    -> IF turns[k].approval = "stale" THEN "expired"
                                           ELSE "waiting_approval"
      [] turns[k].status = "done"       -> IF turns[k].refused THEN "rejected" ELSE "completed"
      [] turns[k].status = "failed"     -> IF turns[k].error = "approval_expired"
                                           THEN "expired" ELSE "failed"
      [] turns[k].status \in {"superseded", "none"} -> "interrupted"

StateFor(outcome) ==
    CASE outcome = "waiting_approval"          -> "awaiting_approval"
      [] outcome = "running"                   -> "running"
      [] outcome = "completed"                 -> "done"
      [] outcome \in {"rejected", "expired"}   -> "failed"
      [] outcome \in {"failed", "interrupted"} -> "needs_review"

\* An abandoned turn is continued at most once in a cycle.
Resume ==
    /\ At(Poller, "outcome") /\ exec[Poller].why = "turns"
    /\ Turn(Poller).status = "running"
    /\ \/ /\ ~AutoResume
          /\ steps' = IF Holds(Sid(Poller), Key(Poller))
                      THEN [steps EXCEPT ![Sid(Poller)].state = "interrupted"] ELSE steps
          /\ NextCandidate
       \/ /\ AutoResume /\ poll.resumed
          /\ NextCandidate /\ UNCHANGED steps
       \/ /\ AutoResume /\ ~poll.resumed
          /\ poll' = [poll EXCEPT !.resumed = TRUE]
          /\ exec' = [exec EXCEPT ![Poller].why = "resumed",
                         ![Poller].pc = IF Authorized(Poller) THEN "resume" ELSE "outcome"]
          /\ UNCHANGED <<steps, lock>>
    /\ Unchanged /\ UNCHANGED <<plan, due, turns, late, queue, told>>

\* _apply_outcome; a completed step and its report are one transaction.
Apply ==
    LET s == Sid(Poller)  k == Key(Poller)  o == Outcome(k) IN
    /\ At(Poller, "outcome")
    /\ ~(exec[Poller].why = "turns" /\ o = "running")
    /\ LET new == IF exec[Poller].why = "failed" THEN "interrupted" ELSE StateFor(o) IN
       IF Holds(s, k)
       THEN /\ steps' = [steps EXCEPT ![s].state = new]
            /\ queue' = IF new = "done" THEN Append(queue, s) ELSE queue
       ELSE UNCHANGED <<steps, queue>>
    /\ Continue
    /\ Unchanged /\ UNCHANGED <<plan, due, turns, late, told>>

\* settle_plan reads the steps ...
SettleStage ==
    /\ Stage("settle")
    /\ IF poll.touched
       THEN /\ exec' = [exec EXCEPT ![Poller] = [Away EXCEPT !.pc = "settle", !.why = "settle"]]
            /\ UNCHANGED poll
       ELSE poll' = NextStage /\ UNCHANGED exec
    /\ Unchanged /\ UNCHANGED <<plan, due, steps, turns, late, lock, queue, told>>

Quiet == rows > 0 /\ \A s \in Existing : steps[s].state \in Settled

AfterSettle == IF exec[Poller].why = "settle"
               THEN /\ poll' = NextStage /\ UNCHANGED lock
                    /\ exec' = [exec EXCEPT ![Poller] = Away]
               ELSE NextCandidate

SettleRead ==
    /\ At(Poller, "settle")
    /\ IF Quiet
       THEN /\ exec' = [exec EXCEPT ![Poller].pc = "close",
                          ![Poller].verdict = IF \E s \in Existing : steps[s].state = "done"
                                              THEN "done" ELSE "failed"]
            /\ UNCHANGED <<lock, poll>>
       ELSE AfterSettle
    /\ Unchanged /\ UNCHANGED <<plan, due, steps, turns, late, queue, told>>

\* ... and closes the plan in a statement of its own.
SettleWrite ==
    /\ At(Poller, "close")
    /\ plan' = IF plan.state = "active" THEN [plan EXCEPT !.state = exec[Poller].verdict]
               ELSE plan
    /\ AfterSettle
    /\ Unchanged /\ UNCHANGED <<due, steps, turns, late, queue, told>>

-----------------------------------------------------------------------------
(* Running a step that is ready (_check_condition, _run_step).              *)

Idle(s) == steps[s].state \notin Unresolved /\ ~(steps[s].state = "waiting" /\ steps[s].turn # 0)
Ready == {s \in Existing : /\ plan.state = "active" /\ \A o \in Existing : Idle(o)
                           /\ steps[s].state \in {"pending", "waiting"}
                           /\ \A d \in steps[s].after : steps[d].state \in Settled}

BeginSteps ==
    /\ Stage("steps")
    /\ IF Ready = {} THEN poll' = NewCycle /\ UNCHANGED exec
       ELSE /\ poll' = [poll EXCEPT !.todo = IF poll.resumed THEN {} ELSE Ready,
                                    !.waits = {s \in Ready : steps[s].state = "waiting"}]
            /\ Goto(Poller, "steps")
    /\ Unchanged /\ UNCHANGED <<plan, due, steps, turns, late, lock, queue, told>>

\* The condition of the row as it was read: it fires, or it is asked again
\* later, until the limit of checks fails the step.
CheckCondition(s, verdict) ==
    /\ At(Poller, "steps") /\ s \in poll.todo \cap poll.waits
    /\ IF plan.state = "active" /\ MayRelease(s) /\ verdict # "waiting"
       THEN steps' = [steps EXCEPT ![s].state = verdict] ELSE UNCHANGED steps
    /\ poll' = [poll EXCEPT !.waits = @ \ {s},
                            !.todo = IF plan.state = "active" /\ MayRelease(s) /\ verdict = "pending"
                                     THEN {s} ELSE @ \ {s}]
    /\ Unchanged /\ UNCHANGED <<plan, due, turns, late, lock, exec, queue, told>>

MayClaim(s) == /\ Live /\ steps[s].state = "pending"
               /\ \A o \in Existing : Idle(o)

\* A turn that exists is recovered, never opened again.  A claim key is drawn
\* once for a step, as long as the bound has one left.
Unused == Keys \ Drawn

ClaimStep(s) ==
    LET k == IF steps[s].key # 0 THEN steps[s].key ELSE CHOOSE n \in Unused : TRUE IN
    /\ At(Poller, "steps") /\ s \in poll.todo \ poll.waits
    /\ steps[s].key # 0 \/ Unused # {}
    /\ IF plan.state = "active" /\ lock = NoOne /\ MayClaim(s)
       THEN /\ steps' = [steps EXCEPT ![s].state = "running", ![s].key = k,
                                      ![s].turn = 0, ![s].tries = @ + 1]
            /\ lock' = Poller
            /\ exec' = [exec EXCEPT ![Poller] =
                          [Away EXCEPT !.step = s, !.pc = IF k \in Begun THEN "recover" ELSE "begin",
                                       !.why = IF k \in Begun THEN "rerun" ELSE "run"]]
            /\ poll' = [poll EXCEPT !.todo = {}, !.touched = TRUE]
       ELSE RunOver /\ UNCHANGED steps
    /\ Unchanged /\ UNCHANGED <<plan, due, turns, late, queue, told>>

Interrupted == exec' = [exec EXCEPT ![Poller].pc = "recover", ![Poller].why = "failed"]

\* The plan's authority is checked before the turn is opened.
BeginCheck ==
    /\ At(Poller, "begin")
    /\ IF Live THEN Goto(Poller, "open") ELSE Interrupted
    /\ Unchanged /\ UNCHANGED <<plan, due, steps, turns, late, lock, poll, queue, told>>

\* validate_input refuses the prompt: there is no turn, and the step fails.
RejectInput ==
    /\ At(Poller, "open")
    /\ steps' = IF MayLink(Sid(Poller)) THEN [steps EXCEPT ![Sid(Poller)].state = "failed"]
                ELSE steps
    /\ RunOver
    /\ Unchanged /\ UNCHANGED <<plan, due, turns, late, queue, told>>

Opened(k, s) == [turns EXCEPT ![k] = [NoTurn EXCEPT !.status = "running", !.step = s,
                                                    !.row = NextRow]]
\* begin_turn; its unique index refuses a second turn of the key.
BeginTurn ==
    LET k == Key(Poller) IN
    /\ At(Poller, "open")
    /\ IF k \notin Begun
       THEN turns' = Opened(k, Sid(Poller)) /\ Goto(Poller, "link")
       ELSE Interrupted /\ UNCHANGED turns
    /\ Unchanged /\ UNCHANGED <<plan, due, steps, late, lock, poll, queue, told>>

\* link_turn; a claim that was lost meanwhile ends the turn unused.
LinkTurn ==
    LET s == Sid(Poller)  k == Key(Poller) IN
    /\ At(Poller, "link")
    /\ IF MayLink(s)
       THEN /\ steps' = [steps EXCEPT ![s].turn = k]
            /\ Goto(Poller, "loop") /\ UNCHANGED turns
       ELSE FailTurn(k, "other") /\ Interrupted /\ UNCHANGED steps
    /\ Unchanged /\ UNCHANGED <<plan, due, late, lock, poll, queue, told>>

-----------------------------------------------------------------------------
(* The summary.                                                             *)

\* Mutation: a stop that is not cleaned up yet does not hold the summary back.
UnfinishedMoving == \E s \in Existing : steps[s].state \in Moving

Unfinished == \E s \in Existing : steps[s].state \in Moving
                                 \/ (plan.stop # "" /\ ~steps[s].stopped)
MaySummarize == plan.state # "active" /\ ~plan.summary /\ ~Unfinished

\* The steps are read and a model may be asked to write it ...
Summarize ==
    /\ Stage("summary")
    /\ IF MaySummarize
       THEN told' = Existing /\ Goto(Poller, "summing") /\ UNCHANGED poll
       ELSE poll' = NextStage /\ UNCHANGED <<told, exec>>
    /\ Unchanged /\ UNCHANGED <<plan, due, steps, turns, late, lock, queue>>

\* ... and it is frozen with its delivery, if it is still due.
SetSummary ==
    /\ At(Poller, "summing")
    /\ IF MaySummarize
       THEN plan' = [plan EXCEPT !.summary = TRUE] /\ queue' = Append(queue, 0)
       ELSE UNCHANGED <<plan, queue>>
    /\ poll' = NextStage /\ Goto(Poller, "idle")
    /\ Unchanged /\ UNCHANGED <<due, steps, turns, late, lock, told>>

-----------------------------------------------------------------------------
\* Mutation: the lock outlives its holder.
FreedNever(e) == lock
Freed(e) == IF lock = e THEN NoOne ELSE lock

\* A task is cancelled or its process dies; the kernel drops its lock, but a
\* commit handed to the database thread may still happen.
Crash(e) ==
    /\ crashes < MaxCrashes /\ crashes' = crashes + 1
    /\ exec[e] # Away \/ (e = Poller /\ poll # NewCycle)
    /\ lock' = Freed(e)
    /\ late' = IF At(e, "open") THEN late \cup {<<Key(e), Sid(e)>>} ELSE late
    /\ exec' = [exec EXCEPT ![e] = Away]
    /\ poll' = IF e = Poller THEN NewCycle ELSE poll
    /\ UNCHANGED <<plan, due, steps, rows, adding, turns, queue, told>>

LateCommit(l) ==
    /\ l \in late /\ late' = late \ {l}
    /\ turns' = IF l[1] \in Begun THEN turns ELSE Opened(l[1], l[2])
    /\ UNCHANGED <<plan, due, steps, rows, adding, lock, exec, poll, queue, told, crashes>>

RunPoller ==
    \/ Retire \/ StopTurn \/ AckStop \/ Recover \/ RetryUnstarted \/ Resume \/ Apply
    \/ SettleStage \/ SettleRead \/ SettleWrite
    \/ BeginSteps \/ BeginCheck \/ RejectInput \/ BeginTurn \/ LinkTurn
    \/ Summarize \/ SetSummary
    \/ \E op \in {"stops", "turns"} : BeginPass(op) \/ EndPass(op)
    \/ \E s \in StepIds : \/ Skip("stops", s) \/ TakeUp("stops", s, "stopping")
                          \/ Skip("turns", s) \/ TakeUp("turns", s, "recover")
                          \/ ClaimStep(s)
                          \/ \E v \in {"waiting", "pending", "failed"} : CheckCondition(s, v)
    \/ EndPass("steps")
    \/ RunTurn(Poller) \/ ResumeClaim(Poller) \/ ResumeCheck(Poller)

RunDesk == RunTurn(Desk) \/ ResumeClaim(Desk) \/ ResumeCheck(Desk)
           \/ \E yes \in BOOLEAN : Decide(yes)

Others ==
    \/ \E after \in SUBSET Existing : AddCheck(after)
    \/ \E waits \in BOOLEAN : AddInsert(waits)
    \/ CancelPlan \/ TimePasses
    \/ \E s \in Existing : ReleaseStep(s) \/ DeskResume(s) \/ DeskApprove(s)
    \/ \E k \in Keys : ApprovalAges(k)
    \/ \E e \in Executors : Crash(e)
    \/ \E l \in late : LateCommit(l)

Next == RunPoller \/ RunDesk \/ Others
Spec == Init /\ [][Next]_vars

\* The scheduler starts the job again and again, an executor goes on until its
\* tools answer or time out, and ninety days pass.
Fairness == WF_vars(RunPoller) /\ WF_vars(RunDesk) /\ WF_vars(TimePasses)
FairSpec == Spec /\ Fairness

-----------------------------------------------------------------------------
(* Properties.                                                              *)

\* An executor is idle, at a step of the job or of the desk, or in a turn.
InTurn == {"loop", "reserved", "acting", "resumed"}
Places == {"idle", "stops", "turns", "steps", "settle", "close", "summing", "stopping",
           "stopped", "recover", "retry", "outcome", "begin", "open", "link", "resume",
           "deciding"} \cup InTurn
Reasons == {"none", "stops", "turns", "resumed", "run", "rerun", "failed", "settle"}
Frames == [pc : Places, step : 0..MaxSteps, why : Reasons, turn : 0..MaxTurns,
           verdict : {"", "done", "failed", "needs_review"}]
PlanRows == [state : {"active", "done", "failed", "cancelled"},
             stop : {"", "plan_cancelled", "plan_expired"}, summary : BOOLEAN]
StepRows == [state : StepStates, after : SUBSET StepIds, turn : 0..MaxTurns,
             key : 0..MaxTurns, tries : 0..MaxAttempts, stopped : BOOLEAN]
TurnRows == [status : {"none", "running", "waiting", "done", "failed", "superseded"},
             error : {"", "stop", "other", "approval_expired"},
             approval : {"none", "pending", "stale", "decided"}, refused : BOOLEAN,
             open : BOOLEAN, resumes : 0..MaxResumes, step : 0..MaxSteps, row : 0..MaxTurns]
Cycles == [stage : 1..Len(Cycle), todo : SUBSET StepIds, waits : SUBSET StepIds,
           resumed : BOOLEAN, touched : BOOLEAN]

TypeOK ==
    /\ plan \in PlanRows /\ due \in BOOLEAN
    /\ rows \in 0..MaxSteps /\ adding \in SUBSET SUBSET StepIds
    /\ steps \in [StepIds -> StepRows] /\ turns \in [Keys -> TurnRows]
    /\ late \subseteq Keys \X StepIds
    /\ lock \in Executors \cup {NoOne}
    /\ exec \in [Executors -> Frames] /\ poll \in Cycles
    /\ queue \in Seq(0..MaxSteps) /\ told \subseteq StepIds /\ crashes \in 0..MaxCrashes

Executing(k) == \E e \in Executors : exec[e].pc \in InTurn /\ Key(e) = k

\* A step is one turn for ever: neither a retry, a restart nor a commit that
\* arrives after its task is gone gives it a second turn, whose operations the
\* first turn's ledger could not recognise.
OneTurnPerStep == \A j, k \in Begun : turns[j].step = turns[k].step => j = k

\* Once the stop of a step is acknowledged nothing of it runs any more, and no
\* approval can set it going again, whoever held its conversation before.
StopIsFenced ==
    \A s \in Existing : steps[s].stopped =>
        \A k \in Begun : turns[k].step = s =>
            ~Executing(k) /\ turns[k].approval \notin {"pending", "stale"}

\* An operation whose outcome is unknown is never closed over: unless its
\* executor is still there, its step goes to review, also when the plan stops.
DoubtIsShown ==
    \A s \in Existing : steps[s].state \in Settled =>
        \A k \in Begun : turns[k].step = s => ~turns[k].open

\* A step counts as done on the evidence of its turn alone: it ended with an
\* answer and nobody refused one of its operations.
DoneIsEarned ==
    \A s \in Existing : steps[s].state = "done" =>
        /\ turns[steps[s].turn].status = "done" /\ ~turns[steps[s].turn].refused
        /\ turns[steps[s].turn].step = s

\* The summary is the last word: afterwards no step it speaks of changes, no
\* operation of the plan is sent, and nothing else is queued for the owner.
SummaryIsLast ==
    [][plan.summary => /\ plan'.summary /\ queue' = queue
                       /\ \A s \in told : steps'[s].state = steps[s].state
                       /\ \A e \in Executors : exec'[e].pc = "acting" => exec[e].pc = "acting"]_vars

\* Every plan ends with its summary: by its steps, by a cancellation or by its
\* expiry, with crashes, abandoned turns and approvals nobody answers.
PlanIsReported == (plan.state = "active") ~> plan.summary
============================================================================
