---------------------------- MODULE PlansProofs ----------------------------
(***************************************************************************)
(* Proofs about Plans, for any number of steps, keys, attempts, resumes    *)
(* and crashes, whether or not abandoned turns are continued by the job.   *)
(***************************************************************************)
EXTENDS Plans, FiniteSetTheorems, TLAPS

-----------------------------------------------------------------------------
(* The inductive invariant.                                                 *)

\* What add_step checked still holds when it inserts, and a pass and the
\* summary read steps that exist.
RowsAgree ==
    /\ adding # {} => rows < MaxSteps
    /\ told \subseteq Existing /\ poll.todo \subseteq Existing

\* A step keeps the one key it drew, no other step has it, and every turn that
\* was or may yet be opened with it is a turn of this step.
OwnKeys ==
    /\ \A s, t \in Existing : steps[s].key # 0 /\ steps[s].key = steps[t].key => s = t
    /\ \A k \in Begun : turns[k].step \in Existing /\ steps[turns[k].step].key = k
    /\ \A l \in late : l[2] \in Existing /\ steps[l[2]].key = l[1]

\* What the state of a step says of its claim.
StepsAgree ==
    \A s \in Existing :
        /\ steps[s].turn # 0 => steps[s].turn = steps[s].key /\ steps[s].turn \in Begun
        /\ steps[s].state = "waiting" => steps[s].key = 0 /\ steps[s].tries = 0
        /\ steps[s].state = "pending" => steps[s].turn = 0 /\ steps[s].tries < MaxAttempts
        /\ steps[s].state \in Moving => steps[s].key # 0

\* A turn with an operation of unknown outcome is one that its step knows of,
\* and it is not one that counts as answered, asked or expired.
TurnsAgree ==
    \A k \in Begun :
        /\ turns[k].open =>
             /\ turns[k].status \notin {"waiting", "done"}
             /\ turns[k].error # "approval_expired" \/ turns[k].status # "failed"
             /\ steps[turns[k].step].turn = k
        /\ turns[k].approval \in {"pending", "stale"} => turns[k].status = "waiting"

\* Whoever works on a step holds the conversation ...
Locked == {"stopping", "stopped", "recover", "retry", "outcome", "begin", "open", "link",
           "resume", "deciding"} \cup InTurn
Holding ==
    \A e \in Executors :
        /\ exec[e].pc \in Locked => lock = e /\ Sid(e) \in Existing /\ ~Step(e).stopped
        /\ exec[e].pc \in {"settle", "close"} =>
             /\ exec[e].why \in {"turns", "resumed", "settle"}
             /\ exec[e].why # "settle" => lock = e
        /\ e = Desk => exec[e].pc \in {"idle", "resume", "deciding"} \cup InTurn

\* ... of a key that the step has, or of a turn that is linked to it.
Working ==
    \A e \in Executors :
        /\ exec[e].pc \in {"recover", "retry", "begin", "open", "link"} => Key(e) # 0
        /\ exec[e].pc \in {"outcome", "resume", "deciding"} \cup InTurn =>
             Step(e).turn # 0
        /\ exec[e].pc \in {"link"} \cup InTurn => Key(e) \in Begun /\ Turn(e).status = "running"
        /\ exec[e].pc = "loop" => ~Turn(e).open
        /\ exec[e].pc = "close" => exec[e].verdict \in Settled

\* What stop cleanup is about to write about a step agrees with its turn, also
\* when the turn appeared after it had looked.
Stopping ==
    /\ exec[Poller].pc \in {"stopping", "stopped"} => plan.stop # ""
    /\ exec[Poller].pc = "stopped" =>
         LET s == Sid(Poller)  t == exec[Poller].turn  v == exec[Poller].verdict IN
         /\ t # 0 => t = steps[s].key /\ t \in Begun
         /\ steps[s].turn # 0 => t = steps[s].turn
         /\ v # ""
         /\ v = "done" => t # 0 /\ turns[t].status = "done" /\ ~turns[t].refused
         /\ \A k \in Begun : turns[k].step = s =>
              /\ turns[k].approval \notin {"pending", "stale"}
              /\ v # "needs_review" => ~turns[k].open

\* A stop is recorded only in a plan that was stopped, and the summary only of
\* one that is over, with no step of it left to move.
PlanAgrees ==
    /\ plan.stop # "" \/ plan.summary => plan.state # "active"
    /\ \A s \in Existing : steps[s].stopped => plan.stop # ""
    /\ plan.summary => \A s \in told : /\ steps[s].state \notin Moving
                                       /\ plan.stop # "" => steps[s].stopped

Silenced ==
    \A s \in Existing : steps[s].stopped =>
        \A k \in Begun : turns[k].step = s => turns[k].approval \notin {"pending", "stale"}

Earned ==
    \A s \in Existing : steps[s].state = "done" =>
        /\ steps[s].turn # 0
        /\ turns[steps[s].turn].status = "done" /\ ~turns[steps[s].turn].refused

PlansInductive ==
    /\ TypeOK
    /\ RowsAgree /\ OwnKeys /\ StepsAgree /\ TurnsAgree
    /\ Holding /\ Working /\ Stopping /\ PlanAgrees
    /\ Silenced /\ Earned /\ DoubtIsShown

-----------------------------------------------------------------------------
(* Types.                                                                   *)

LEMMA Bounds ==
    /\ MaxSteps \in Nat /\ MaxTurns \in Nat /\ MaxResumes \in Nat /\ MaxCrashes \in Nat
    /\ MaxAttempts \in Nat /\ MaxAttempts > 0
    /\ Poller # Desk /\ NoOne # Poller /\ NoOne # Desk
    /\ Poller \in Executors /\ Desk \in Executors
    /\ 0 \in 0..MaxSteps /\ 0 \in 0..MaxTurns /\ 0 \in 0..MaxResumes
BY PlanConstants DEF PlanConstants, Executors

USE Bounds

LEMMA CycleLength == Len(Cycle) = 11
BY DEF Cycle

\* An executor's memory, a step or a turn written in one piece.
LEMMA FrameType ==
    ASSUME TypeOK, NEW e \in Executors, NEW f \in Frames,
           exec' = [exec EXCEPT ![e] = f]
    PROVE  exec' \in [Executors -> Frames]
BY DEF TypeOK

LEMMA AwayType == Away \in Frames
BY DEF Away, Frames, Places, Reasons

LEMMA AwayAtType ==
    ASSUME NEW pc \in Places, NEW s \in 0..MaxSteps, NEW why \in Reasons
    PROVE  [Away EXCEPT !.pc = pc, !.step = s, !.why = why] \in Frames
BY DEF Away, Frames, Reasons

LEMMA GotoType ==
    ASSUME TypeOK, NEW e \in Executors, NEW pc \in Places, Goto(e, pc)
    PROVE  exec' \in [Executors -> Frames]
<1>1. exec[e] \in Frames
  BY DEF TypeOK
<1>2. [exec[e] EXCEPT !.pc = pc] \in Frames
  BY <1>1 DEF Frames
<1> QED
  BY <1>2, FrameType DEF Goto

LEMMA LeaveType ==
    ASSUME TypeOK, NEW e \in Executors, Leave(e)
    PROVE  exec' \in [Executors -> Frames] /\ lock' \in Executors \cup {NoOne}
BY AwayType, FrameType DEF Leave

\* The job keeps the conversation to read the outcome, the desk lets go.
LEMMA ReturnShape ==
    ASSUME TypeOK, NEW e \in Executors, NEW raised \in BOOLEAN, Return(e, raised)
    PROVE  \/ e = Desk /\ lock' = NoOne /\ exec' = [exec EXCEPT ![e] = Away]
           \/ /\ e = Poller /\ lock' = lock
              /\ \/ exec' = [exec EXCEPT ![e] = [exec[e] EXCEPT !.pc = "outcome"]]
                 \/ exec' = [exec EXCEPT ![e] = [exec[e] EXCEPT !.pc = "recover",
                                                                !.why = "failed"]]
<1>1. exec[e] \in Frames
  BY DEF TypeOK
<1>2. CASE e = Desk
  BY <1>2 DEF Return, Leave
<1>3. CASE e # Desk
  BY <1>1, <1>3 DEF Return, TypeOK, Frames, Executors
<1> QED
  BY <1>2, <1>3

LEMMA ReturnType ==
    ASSUME TypeOK, NEW e \in Executors, NEW raised \in BOOLEAN, Return(e, raised)
    PROVE  exec' \in [Executors -> Frames] /\ lock' \in Executors \cup {NoOne}
<1>1. exec[e] \in Frames
  BY DEF TypeOK
<1>2. /\ [exec[e] EXCEPT !.pc = "recover", !.why = "failed"] \in Frames
      /\ [exec[e] EXCEPT !.pc = "outcome"] \in Frames
  BY <1>1 DEF Frames, Places, Reasons
<1>3. exec' \in [Executors -> Frames]
  BY <1>2, AwayType, FrameType, ReturnShape
<1> QED
  BY <1>3, ReturnShape DEF TypeOK

LEMMA TurnType ==
    ASSUME TypeOK, NEW k, NEW r \in TurnRows, turns' = [turns EXCEPT ![k] = r]
    PROVE  turns' \in [Keys -> TurnRows]
BY DEF TypeOK

LEMMA SetTurnType ==
    ASSUME TypeOK, NEW k, NEW status \in {"running", "done", "failed", "superseded"},
           NEW error \in {"", "stop", "other", "approval_expired"}, SetTurn(k, status, error)
    PROVE  turns' \in [Keys -> TurnRows]
<1> DEFINE r == [turns[k] EXCEPT !.status = status, !.error = error]
<1>1. CASE k \in Keys
  <2>1. turns[k] \in TurnRows
    BY <1>1 DEF TypeOK
  <2>2. r \in TurnRows
    BY <2>1 DEF TurnRows
  <2>3. turns' = [turns EXCEPT ![k] = r]
    BY <1>1, <2>1 DEF SetTurn, TypeOK, TurnRows
  <2> QED
    BY <2>2, <2>3, TurnType
<1>2. CASE k \notin Keys
  BY <1>2 DEF SetTurn, TypeOK
<1> QED
  BY <1>1, <1>2

LEMMA FailTurnType ==
    ASSUME TypeOK, NEW k, NEW error \in {"stop", "other"}, FailTurn(k, error)
    PROVE  turns' \in [Keys -> TurnRows]
BY SetTurnType DEF FailTurn, SetTurn, TypeOK

LEMMA OpenType ==
    ASSUME TypeOK, NEW k, NEW open \in BOOLEAN, turns' = [turns EXCEPT ![k].open = open]
    PROVE  turns' \in [Keys -> TurnRows]
<1>1. CASE k \in Keys
  <2>1. turns[k] \in TurnRows
    BY <1>1 DEF TypeOK
  <2>2. [turns[k] EXCEPT !.open = open] \in TurnRows
    BY <2>1 DEF TurnRows
  <2> QED
    BY <2>2, TurnType
<1>2. CASE k \notin Keys
  BY <1>2 DEF TypeOK
<1> QED
  BY <1>1, <1>2

LEMMA AskedType ==
    ASSUME TypeOK, NEW k,
           turns' = [turns EXCEPT ![k].status = "waiting", ![k].approval = "pending"]
    PROVE  turns' \in [Keys -> TurnRows]
<1> DEFINE r == [turns[k] EXCEPT !.status = "waiting", !.approval = "pending"]
<1>1. CASE k \in Keys
  <2>1. turns[k] \in TurnRows
    BY <1>1 DEF TypeOK
  <2>2. r \in TurnRows
    BY <2>1 DEF TurnRows
  <2>3. turns' = [turns EXCEPT ![k] = r]
    BY <1>1, <2>1 DEF TypeOK, TurnRows
  <2> QED
    BY <2>2, <2>3, TurnType
<1>2. CASE k \notin Keys
  BY <1>2 DEF TypeOK
<1> QED
  BY <1>1, <1>2

LEMMA StepType ==
    ASSUME TypeOK, NEW s, NEW r \in StepRows, steps' = [steps EXCEPT ![s] = r]
    PROVE  steps' \in [StepIds -> StepRows]
BY DEF TypeOK

LEMMA StateType ==
    ASSUME TypeOK, NEW s, NEW state \in StepStates,
           steps' = [steps EXCEPT ![s].state = state]
    PROVE  steps' \in [StepIds -> StepRows]
<1>1. CASE s \in StepIds
  <2>1. steps[s] \in StepRows
    BY <1>1 DEF TypeOK
  <2>2. [steps[s] EXCEPT !.state = state] \in StepRows
    BY <2>1 DEF StepRows
  <2> QED
    BY <2>2, StepType
<1>2. CASE s \notin StepIds
  BY <1>2 DEF TypeOK
<1> QED
  BY <1>1, <1>2

LEMMA LinkType ==
    ASSUME TypeOK, NEW s, NEW k \in 0..MaxTurns, steps' = [steps EXCEPT ![s].turn = k]
    PROVE  steps' \in [StepIds -> StepRows]
<1>1. CASE s \in StepIds
  <2>1. steps[s] \in StepRows
    BY <1>1 DEF TypeOK
  <2>2. [steps[s] EXCEPT !.turn = k] \in StepRows
    BY <2>1 DEF StepRows
  <2> QED
    BY <2>2, StepType
<1>2. CASE s \notin StepIds
  BY <1>2 DEF TypeOK
<1> QED
  BY <1>1, <1>2

\* Where the job goes from here.
LEMMA StageType == ASSUME TypeOK PROVE NextStage \in Cycles /\ NewCycle \in Cycles
<1>1. NewCycle \in Cycles
  BY CycleLength DEF NewCycle, Cycles
<1>2. poll \in Cycles
  BY DEF TypeOK
<1>3. CASE poll.stage # Len(Cycle)
  <2>1. poll.stage + 1 \in 1..Len(Cycle)
    BY <1>2, <1>3, CycleLength DEF Cycles
  <2>2. [poll EXCEPT !.stage = @ + 1, !.todo = {}] \in Cycles
    BY <1>2, <2>1 DEF Cycles
  <2> QED
    BY <1>1, <1>3, <2>2 DEF NextStage
<1> QED
  BY <1>1, <1>3 DEF NextStage

LEMMA NextCandidateType ==
    ASSUME TypeOK, NextCandidate
    PROVE  /\ exec' \in [Executors -> Frames] /\ poll' \in Cycles
           /\ lock' \in Executors \cup {NoOne}
<1> DEFINE f == [Away EXCEPT !.pc = IF exec[Poller].why = "stops" THEN "stops" ELSE "turns"]
<1>1. f \in Frames
  BY DEF Away, Frames, Places, Reasons
<1>2. exec' = [exec EXCEPT ![Poller] = f] /\ Poller \in Executors
  BY DEF NextCandidate, Executors
<1> HIDE DEF f
<1> QED
  BY <1>1, <1>2, FrameType DEF NextCandidate, TypeOK

LEMMA RunOverType ==
    ASSUME TypeOK, RunOver
    PROVE  /\ exec' \in [Executors -> Frames] /\ poll' \in Cycles
           /\ lock' \in Executors \cup {NoOne}
<1> DEFINE f == [Away EXCEPT !.pc = "steps"]
<1>1. f \in Frames
  BY DEF Away, Frames, Places, Reasons
<1>2. exec' = [exec EXCEPT ![Poller] = f] /\ Poller \in Executors
  BY DEF RunOver, Executors
<1>3. poll' \in Cycles
  BY DEF RunOver, TypeOK, Cycles
<1> HIDE DEF f
<1> QED
  BY <1>1, <1>2, <1>3, FrameType DEF RunOver, TypeOK

LEMMA AbortCycleType ==
    ASSUME TypeOK, AbortCycle
    PROVE  /\ exec' \in [Executors -> Frames] /\ poll' \in Cycles
           /\ lock' \in Executors \cup {NoOne}
<1>1. exec' \in [Executors -> Frames]
  BY AwayType, FrameType DEF AbortCycle, Executors
<1> QED
  BY <1>1, StageType DEF AbortCycle

LEMMA ContinueType ==
    ASSUME TypeOK, Continue
    PROVE  /\ exec' \in [Executors -> Frames] /\ poll' \in Cycles
           /\ lock' \in Executors \cup {NoOne}
<1>1. CASE Reconciling
  <2>1. exec' \in [Executors -> Frames]
    BY <1>1, GotoType DEF Continue, AfterReconcile, Executors, Places
  <2> QED
    BY <1>1, <2>1 DEF Continue, AfterReconcile, TypeOK
<1> QED
  BY <1>1, RunOverType DEF Continue

LEMMA AfterSettleType ==
    ASSUME TypeOK, AfterSettle
    PROVE  /\ exec' \in [Executors -> Frames] /\ poll' \in Cycles
           /\ lock' \in Executors \cup {NoOne}
<1>1. CASE exec[Poller].why = "settle"
  <2>1. exec' \in [Executors -> Frames]
    BY <1>1, AwayType, FrameType DEF AfterSettle, Executors
  <2> QED
    BY <1>1, <2>1, StageType DEF AfterSettle, TypeOK
<1> QED
  BY <1>1, NextCandidateType DEF AfterSettle

\* A key not yet opened leaves a row for its turn.
LEMMA NextRowType == ASSUME TypeOK, NEW k \in Keys, k \notin Begun PROVE NextRow \in 0..MaxTurns
<1>1. IsFiniteSet(Keys) /\ Cardinality(Keys) = MaxTurns
  BY FS_Interval DEF Keys
<1>2. Begun \subseteq Keys
  BY DEF Begun
<1>3. IsFiniteSet(Begun) /\ Begun \cup {k} \subseteq Keys
  BY <1>1, <1>2, FS_Subset
<1>4. Cardinality(Begun \cup {k}) = Cardinality(Begun) + 1 /\ Cardinality(Begun) \in Nat
  BY <1>3, FS_AddElement, FS_CardinalityType
<1>5. Cardinality(Begun \cup {k}) <= MaxTurns
  BY <1>1, <1>3, FS_Subset
<1> QED
  BY <1>4, <1>5 DEF NextRow

LEMMA OpenedType ==
    ASSUME TypeOK, NEW k, k \in Keys => k \notin Begun, NEW s \in 0..MaxSteps
    PROVE  Opened(k, s) \in [Keys -> TurnRows]
<1>1. CASE k \in Keys
  <2> DEFINE r == [NoTurn EXCEPT !.status = "running", !.step = s, !.row = NextRow]
  <2>1. r \in TurnRows
    BY <1>1, NextRowType DEF NoTurn, TurnRows
  <2> HIDE DEF r
  <2> QED
    BY <1>1, <2>1 DEF Opened, TypeOK, r
<1>2. CASE k \notin Keys
  BY <1>2 DEF Opened, TypeOK
<1> QED
  BY <1>1, <1>2

LEMMA InitType == Init => TypeOK
<1> SUFFICES ASSUME Init PROVE TypeOK
  OBVIOUS
<1>1. NoStep \in StepRows
  BY DEF NoStep, StepRows, StepStates, StepIds
<1>2. NoTurn \in TurnRows
  BY DEF NoTurn, TurnRows
<1>3. NewCycle \in Cycles
  BY CycleLength DEF NewCycle, Cycles
<1>4. plan \in PlanRows
  BY DEF Init, PlanRows
<1>5. steps \in [StepIds -> StepRows] /\ turns \in [Keys -> TurnRows]
  BY <1>1, <1>2 DEF Init
<1>6. exec \in [Executors -> Frames] /\ poll \in Cycles
  BY <1>3, AwayType DEF Init
<1>7. crashes = 0 /\ rows = 0 /\ queue = <<>>
  BY DEF Init
<1>8. /\ queue \in Seq(0..MaxSteps)
      /\ crashes \in 0..MaxCrashes /\ rows \in 0..MaxSteps
  BY <1>7
<1> QED
  BY <1>4, <1>5, <1>6, <1>7, <1>8 DEF Init, TypeOK

LEMMA TurnTypeStep ==
    ASSUME TypeOK, NEW e \in Executors, RunTurn(e)
    PROVE  TypeOK'
<1> USE DEF OnlyTurn
<1>1. CASE Stopped(e)
  <2>1. turns' \in [Keys -> TurnRows]
    BY <1>1, FailTurnType DEF Stopped
  <2>2. exec' \in [Executors -> Frames] /\ lock' \in Executors \cup {NoOne}
    BY <1>1, ReturnType DEF Stopped
  <2> QED
    BY <1>1, <2>1, <2>2 DEF Stopped, TypeOK
<1>2. CASE Reserve(e)
  <2>1. turns' \in [Keys -> TurnRows]
    BY <1>2, OpenType DEF Reserve
  <2>2. exec' \in [Executors -> Frames]
    BY <1>2, GotoType DEF Reserve, Places, InTurn
  <2> QED
    BY <1>2, <2>1, <2>2 DEF Reserve, TypeOK
<1>3. CASE Dispatch(e)
  <2>1. exec' \in [Executors -> Frames]
    BY <1>3, GotoType DEF Dispatch, Places, InTurn
  <2> QED
    BY <1>3, <2>1 DEF Dispatch, TypeOK
<1>4. CASE Answered(e)
  <2>1. turns' \in [Keys -> TurnRows]
    BY <1>4, OpenType DEF Answered
  <2>2. exec' \in [Executors -> Frames]
    BY <1>4, GotoType DEF Answered, Places, InTurn
  <2> QED
    BY <1>4, <2>1, <2>2 DEF Answered, TypeOK
<1>5. CASE Uncertain(e)
  <2>1. turns' \in [Keys -> TurnRows]
    BY <1>5, FailTurnType DEF Uncertain
  <2>2. exec' \in [Executors -> Frames] /\ lock' \in Executors \cup {NoOne}
    BY <1>5, ReturnType DEF Uncertain
  <2> QED
    BY <1>5, <2>1, <2>2 DEF Uncertain, TypeOK
<1>6. CASE AskApproval(e)
  <2>1. turns' \in [Keys -> TurnRows]
    BY <1>6, AskedType DEF AskApproval
  <2>2. exec' \in [Executors -> Frames] /\ lock' \in Executors \cup {NoOne}
    BY <1>6, ReturnType DEF AskApproval
  <2> QED
    BY <1>6, <2>1, <2>2 DEF AskApproval, TypeOK
<1>7. ASSUME NEW status \in {"done", "failed"}, Finish(e, status)
      PROVE  TypeOK'
  <2>1. turns' \in [Keys -> TurnRows]
    BY <1>7, SetTurnType DEF Finish
  <2>2. exec' \in [Executors -> Frames] /\ lock' \in Executors \cup {NoOne}
    BY <1>7, ReturnType DEF Finish
  <2> QED
    BY <1>7, <2>1, <2>2 DEF Finish, TypeOK
<1> QED
  BY <1>1, <1>2, <1>3, <1>4, <1>5, <1>6, <1>7 DEF RunTurn

LEMMA ContinueTypeStep ==
    ASSUME TypeOK, NEW e \in Executors, ResumeClaim(e) \/ ResumeCheck(e)
    PROVE  TypeOK'
<1>1. CASE ResumeClaim(e)
  <2> DEFINE k == Key(e)
  <2>1. CASE UNCHANGED turns /\ Return(e, FALSE)
    BY <1>1, <2>1, ReturnType DEF ResumeClaim, OnlyTurn, TypeOK
  <2>2. CASE SetTurn(k, "superseded", "other") /\ Return(e, FALSE)
    BY <1>1, <2>2, ReturnType, SetTurnType DEF ResumeClaim, OnlyTurn, TypeOK
  <2>3. CASE SetTurn(k, "failed", "other") /\ Return(e, FALSE)
    BY <1>1, <2>3, ReturnType, SetTurnType DEF ResumeClaim, OnlyTurn, TypeOK
  <2>4. CASE /\ turns[k].resumes < MaxResumes
             /\ turns' = [turns EXCEPT ![k].resumes = @ + 1]
             /\ Goto(e, "resumed") /\ UNCHANGED lock
    <3>1. turns' \in [Keys -> TurnRows]
      <4>1. CASE k \in Keys
        <5>1. turns[k] \in TurnRows
          BY <4>1 DEF TypeOK
        <5>2. turns[k].resumes \in 0..MaxResumes
          BY <5>1 DEF TurnRows
        <5>3. turns[k].resumes + 1 \in 0..MaxResumes
          BY <2>4, <5>2
        <5>4. [turns[k] EXCEPT !.resumes = @ + 1] \in TurnRows
          BY <5>1, <5>3 DEF TurnRows
        <5> QED
          BY <2>4, <5>4, TurnType
      <4> QED
        BY <2>4, <4>1 DEF TypeOK
    <3>2. exec' \in [Executors -> Frames]
      BY <2>4, GotoType DEF Places, InTurn
    <3> QED
      BY <1>1, <2>4, <3>1, <3>2 DEF ResumeClaim, OnlyTurn, TypeOK
  <2> QED
    BY <1>1, <2>1, <2>2, <2>3, <2>4 DEF ResumeClaim
<1>2. CASE ResumeCheck(e)
  <2>1. ASSUME NEW s \in StepIds
        PROVE  [steps[s] EXCEPT !.state = "running"] \in StepRows /\ steps[s] \in StepRows
    <3>1. steps[s] \in StepRows
      BY DEF TypeOK
    <3> QED
      BY <3>1 DEF StepRows, StepStates
  <2>2. steps' \in [StepIds -> StepRows]
    BY <1>2, <2>1 DEF ResumeCheck
  <2>3. CASE Goto(e, "loop") /\ UNCHANGED <<turns, lock>>
    <3>1. exec' \in [Executors -> Frames]
      BY <2>3, GotoType DEF Places, InTurn
    <3> QED
      BY <1>2, <2>2, <2>3, <3>1 DEF ResumeCheck, TypeOK
  <2>4. CASE FailTurn(Key(e), "other") /\ Return(e, FALSE)
    BY <1>2, <2>2, <2>4, FailTurnType, ReturnType DEF ResumeCheck, TypeOK
  <2> QED
    BY <1>2, <2>3, <2>4 DEF ResumeCheck
<1> QED
  BY <1>1, <1>2

LEMMA DeskTypeStep ==
    ASSUME TypeOK,
           \/ \E s \in Existing : DeskResume(s) \/ DeskApprove(s)
           \/ \E yes \in BOOLEAN : Decide(yes)
    PROVE  TypeOK'
<1>1. ASSUME NEW s \in Existing, NEW pc \in {"resume", "deciding"}, Sit(s, pc)
      PROVE  TypeOK'
  <2> DEFINE f == [Away EXCEPT !.pc = pc, !.step = s]
  <2>1. s \in 0..MaxSteps
    BY DEF Existing, TypeOK
  <2>2. f \in Frames
    BY <2>1 DEF Away, Frames, Places, Reasons
  <2>3. exec' = [exec EXCEPT ![Desk] = f]
    BY <1>1 DEF Sit
  <2> HIDE DEF f
  <2>4. exec' \in [Executors -> Frames]
    BY <2>2, <2>3, FrameType
  <2> QED
    BY <1>1, <2>4 DEF Sit, OnlyTurn, TypeOK
<1>2. ASSUME NEW yes \in BOOLEAN, Decide(yes)
      PROVE  TypeOK'
  <2> DEFINE k == Key(Desk)
  <2>1. CASE /\ turns' = [turns EXCEPT ![k].status = "running", ![k].approval = "decided",
                                       ![k].refused = ~yes]
             /\ Goto(Desk, "loop") /\ UNCHANGED lock
    <3>1. turns' \in [Keys -> TurnRows]
      <4> DEFINE r == [turns[k] EXCEPT !.status = "running", !.approval = "decided",
                                       !.refused = ~yes]
      <4>1. CASE k \in Keys
        <5>1. turns[k] \in TurnRows
          BY <4>1 DEF TypeOK
        <5>2. r \in TurnRows
          BY <5>1 DEF TurnRows
        <5>3. turns' = [turns EXCEPT ![k] = r]
          BY <2>1, <4>1, <5>1 DEF TypeOK, TurnRows
        <5> QED
          BY <5>2, <5>3, TurnType
      <4> QED
        BY <2>1, <4>1 DEF TypeOK
    <3>2. exec' \in [Executors -> Frames]
      BY <2>1, GotoType DEF Places, InTurn
    <3> QED
      BY <1>2, <2>1, <3>1, <3>2 DEF Decide, OnlyTurn, TypeOK
  <2>2. CASE /\ turns' = [turns EXCEPT ![k].status = "failed", ![k].error = "approval_expired",
                                       ![k].approval = "decided"]
             /\ Leave(Desk)
    <3>1. turns' \in [Keys -> TurnRows]
      <4> DEFINE r == [turns[k] EXCEPT !.status = "failed", !.error = "approval_expired",
                                       !.approval = "decided"]
      <4>1. CASE k \in Keys
        <5>1. turns[k] \in TurnRows
          BY <4>1 DEF TypeOK
        <5>2. r \in TurnRows
          BY <5>1 DEF TurnRows
        <5>3. turns' = [turns EXCEPT ![k] = r]
          BY <2>2, <4>1, <5>1 DEF TypeOK, TurnRows
        <5> QED
          BY <5>2, <5>3, TurnType
      <4> QED
        BY <2>2, <4>1 DEF TypeOK
    <3> QED
      BY <1>2, <2>2, <3>1, LeaveType DEF Decide, OnlyTurn, TypeOK
  <2> QED
    BY <1>2, <2>1, <2>2 DEF Decide
<1> QED
  BY <1>1, <1>2 DEF DeskResume, DeskApprove

LEMMA OthersTypeStep ==
    ASSUME TypeOK, RowsAgree, Holding, Working,
           \/ \E after \in SUBSET Existing : AddCheck(after)
           \/ \E waits \in BOOLEAN : AddInsert(waits)
           \/ CancelPlan \/ TimePasses
           \/ \E s \in Existing : ReleaseStep(s)
           \/ \E k \in Keys : ApprovalAges(k)
           \/ \E e \in Executors : Crash(e)
           \/ \E l \in late : LateCommit(l)
    PROVE  TypeOK'
<1>0. rows \in 0..MaxSteps /\ Existing \subseteq StepIds
  BY DEF TypeOK, Existing, StepIds
<1>1. ASSUME NEW after \in SUBSET Existing, AddCheck(after)
      PROVE  TypeOK'
  <2>1. adding' \in SUBSET SUBSET StepIds
    BY <1>0, <1>1 DEF AddCheck
  <2> QED
    BY <1>1, <2>1 DEF AddCheck, TypeOK
<1>2. ASSUME NEW waits \in BOOLEAN, AddInsert(waits)
      PROVE  TypeOK'
  <2> DEFINE d == CHOOSE d \in adding : TRUE
             r == [NoStep EXCEPT !.state = IF waits THEN "waiting" ELSE "pending", !.after = d]
  <2>1. d \in SUBSET StepIds
    BY <1>2 DEF AddInsert, TypeOK
  <2> HIDE DEF d
  <2>2. r \in StepRows
    <3>1. NoStep \in StepRows
      BY DEF NoStep, StepRows, StepStates
    <3>2. (IF waits THEN "waiting" ELSE "pending") \in StepStates
      BY DEF StepStates
    <3> QED
      BY <2>1, <3>1, <3>2 DEF StepRows
  <2>3. steps' = [steps EXCEPT ![rows + 1] = r]
    BY <1>2 DEF AddInsert, d
  <2> HIDE DEF r
  <2>4. steps' \in [StepIds -> StepRows]
    BY <2>2, <2>3, StepType
  <2>5. rows < MaxSteps /\ rows' = rows + 1 /\ adding' = {}
    BY <1>2 DEF AddInsert, RowsAgree
  <2>6. rows' \in 0..MaxSteps /\ adding' \in SUBSET SUBSET StepIds
    BY <1>0, <2>5
  <2> QED
    BY <1>2, <2>4, <2>6 DEF AddInsert, TypeOK
<1>3. CASE CancelPlan
  <2>1. plan' \in PlanRows
    BY <1>3 DEF CancelPlan, TypeOK, PlanRows
  <2> QED
    BY <1>3, <2>1 DEF CancelPlan, TypeOK
<1>4. CASE TimePasses
  BY <1>4 DEF TimePasses, TypeOK
<1>5. ASSUME NEW s \in Existing, ReleaseStep(s)
      PROVE  TypeOK'
  <2>1. steps' \in [StepIds -> StepRows]
    BY <1>5, StateType DEF ReleaseStep, StepStates
  <2> QED
    BY <1>5, <2>1 DEF ReleaseStep, TypeOK
<1>6. ASSUME NEW k \in Keys, ApprovalAges(k)
      PROVE  TypeOK'
  <2>1. turns[k] \in TurnRows
    BY DEF TypeOK
  <2>2. [turns[k] EXCEPT !.approval = "stale"] \in TurnRows
    BY <2>1 DEF TurnRows
  <2>3. turns' \in [Keys -> TurnRows]
    BY <1>6, <2>2, TurnType DEF ApprovalAges
  <2> QED
    BY <1>6, <2>3 DEF ApprovalAges, TypeOK
<1>7. ASSUME NEW e \in Executors, Crash(e)
      PROVE  TypeOK'
  <2>1. exec' \in [Executors -> Frames] /\ poll' \in Cycles
    BY <1>7, AwayType, FrameType, StageType DEF Crash, TypeOK
  <2>2. At(e, "open") => Key(e) \in Keys /\ Sid(e) \in StepIds
    <3> SUFFICES ASSUME At(e, "open") PROVE Key(e) \in Keys /\ Sid(e) \in StepIds
      OBVIOUS
    <3>1. Sid(e) \in StepIds /\ Key(e) # 0
      BY <1>0 DEF Holding, Working, Locked, At
    <3>2. steps[Sid(e)] \in StepRows
      BY <3>1 DEF TypeOK
    <3> QED
      BY <3>1, <3>2 DEF StepRows, Key, Step, Keys
  <2>3. late' \subseteq Keys \X StepIds
    BY <1>7, <2>2 DEF Crash, TypeOK
  <2>4. crashes' \in 0..MaxCrashes
    BY <1>7 DEF Crash, TypeOK
  <2>5. lock' \in Executors \cup {NoOne}
    BY <1>7 DEF Crash, Freed, TypeOK
  <2> QED
    BY <1>7, <2>1, <2>3, <2>4, <2>5 DEF Crash, TypeOK
<1>8. ASSUME NEW l \in late, LateCommit(l)
      PROVE  TypeOK'
  <2>1. l[1] \in Keys /\ l[2] \in 0..MaxSteps
    BY DEF TypeOK, StepIds
  <2>2. turns' \in [Keys -> TurnRows]
    BY <1>8, <2>1, OpenedType DEF LateCommit, TypeOK
  <2> QED
    BY <1>8, <2>2 DEF LateCommit, TypeOK
<1> QED
  BY <1>1, <1>2, <1>3, <1>4, <1>5, <1>6, <1>7, <1>8

\* What the job knows of the step it holds.
LEMMA HeldType ==
    ASSUME TypeOK, Holding, NEW e \in Executors, exec[e].pc \in Locked
    PROVE  Sid(e) \in Existing /\ Sid(e) \in StepIds /\ Step(e) \in StepRows
           /\ Key(e) \in 0..MaxTurns
<1>1. Sid(e) \in Existing
  BY DEF Holding
<1>2. Sid(e) \in StepIds
  BY <1>1 DEF Existing, StepIds, TypeOK
<1>3. Step(e) \in StepRows
  BY <1>2 DEF Step, TypeOK
<1> QED
  BY <1>1, <1>2, <1>3 DEF Key, StepRows

LEMMA PassTypeStep ==
    ASSUME TypeOK,
           \/ Retire \/ SettleStage
           \/ \E op \in {"stops", "turns"} : BeginPass(op) \/ EndPass(op)
           \/ \E s \in StepIds : \/ Skip("stops", s) \/ TakeUp("stops", s, "stopping")
                                 \/ Skip("turns", s) \/ TakeUp("turns", s, "recover")
           \/ EndPass("steps") \/ BeginSteps
           \/ Summarize \/ SetSummary
    PROVE  TypeOK'
<1> USE DEF Unchanged
<1>0. Existing \subseteq StepIds /\ NextStage \in Cycles /\ NewCycle \in Cycles
  BY StageType DEF TypeOK, Existing, StepIds
<1>1. CASE Retire
  <2>1. CASE plan.state = "active" /\ due
    <3>1. [plan EXCEPT !.state = "failed", !.stop = "plan_expired"] \in PlanRows
      BY DEF TypeOK, PlanRows
    <3>2. ASSUME NEW s \in StepIds
          PROVE  /\ steps[s] \in StepRows
                 /\ [steps[s] EXCEPT !.state = "failed", !.stopped = TRUE] \in StepRows
      <4>1. steps[s] \in StepRows
        BY DEF TypeOK
      <4> QED
        BY <4>1 DEF StepRows, StepStates
    <3>3. steps' \in [StepIds -> StepRows]
      BY <1>1, <2>1, <3>2 DEF Retire
    <3> QED
      BY <1>0, <1>1, <2>1, <3>1, <3>3 DEF Retire, TypeOK
  <2> QED
    BY <1>0, <1>1, <2>1 DEF Retire, TypeOK
<1>2. CASE SettleStage
  <2> DEFINE f == [Away EXCEPT !.pc = "settle", !.why = "settle"]
  <2>1. f \in Frames
    BY DEF Away, Frames, Places, Reasons
  <2>2. exec' = [exec EXCEPT ![Poller] = f] \/ exec' = exec
    BY <1>2 DEF SettleStage
  <2> HIDE DEF f
  <2>3. exec' \in [Executors -> Frames]
    BY <2>1, <2>2, FrameType DEF TypeOK
  <2> QED
    BY <1>0, <1>2, <2>3 DEF SettleStage, TypeOK
<1>3. ASSUME NEW op \in {"stops", "turns"}, BeginPass(op)
      PROVE  TypeOK'
  <2>1. poll \in Cycles /\ Candidates(op) \in SUBSET StepIds
    BY <1>0 DEF TypeOK, Candidates
  <2>2. [poll EXCEPT !.todo = Candidates(op)] \in Cycles
    BY <2>1 DEF Cycles
  <2>3. exec' \in [Executors -> Frames]
    BY <1>3, GotoType DEF BeginPass, Places, TypeOK
  <2> QED
    BY <1>0, <1>3, <2>2, <2>3 DEF BeginPass, TypeOK
<1>4. ASSUME NEW op \in {"stops", "turns", "steps"}, EndPass(op)
      PROVE  TypeOK'
  <2>1. exec' \in [Executors -> Frames]
    BY <1>4, GotoType DEF EndPass, Places
  <2> QED
    BY <1>0, <1>4, <2>1 DEF EndPass, TypeOK
<1>5. ASSUME NEW s \in StepIds
      PROVE  [poll EXCEPT !.todo = poll.todo \ {s}] \in Cycles
  <2>1. poll \in Cycles /\ poll.todo \ {s} \in SUBSET StepIds
    BY DEF TypeOK, Cycles
  <2> QED
    BY <2>1 DEF Cycles
<1>6. ASSUME NEW s \in StepIds, NEW op \in {"stops", "turns"}, Skip(op, s)
      PROVE  TypeOK'
  BY <1>5, <1>6 DEF Skip, TypeOK
<1>7. ASSUME NEW s \in StepIds, NEW op \in {"stops", "turns"},
             NEW pc \in {"stopping", "recover"}, TakeUp(op, s, pc)
      PROVE  TypeOK'
  <2> DEFINE f == [Away EXCEPT !.pc = pc, !.step = s, !.why = op]
  <2>1. f \in Frames
    <3>1. s \in 0..MaxSteps /\ pc \in Places /\ op \in Reasons
      BY DEF StepIds, Places, Reasons
    <3> QED
      BY <3>1, AwayAtType
  <2>2. exec' = [exec EXCEPT ![Poller] = f]
    BY <1>7 DEF TakeUp
  <2> HIDE DEF f
  <2>3. exec' \in [Executors -> Frames]
    BY <2>1, <2>2, FrameType
  <2> QED
    BY <1>5, <1>7, <2>3 DEF TakeUp, TypeOK
<1>8. CASE BeginSteps
  <2> DEFINE todo == IF poll.resumed THEN {} ELSE Ready
             waits == {s \in Ready : steps[s].state = "waiting"}
  <2>1. poll \in Cycles /\ todo \in SUBSET StepIds /\ waits \in SUBSET StepIds
    BY <1>0 DEF TypeOK, Ready
  <2> HIDE DEF todo, waits
  <2>2. [poll EXCEPT !.todo = todo, !.waits = waits] \in Cycles
    BY <2>1 DEF Cycles
  <2>3. poll' \in Cycles
    BY <1>0, <1>8, <2>2 DEF BeginSteps, todo, waits
  <2>4. exec' \in [Executors -> Frames]
    BY <1>8, GotoType DEF BeginSteps, Places, TypeOK
  <2> QED
    BY <1>8, <2>3, <2>4 DEF BeginSteps, TypeOK
<1>9. CASE Summarize
  <2>1. exec' \in [Executors -> Frames]
    BY <1>9, GotoType DEF Summarize, Places, TypeOK
  <2> QED
    BY <1>0, <1>9, <2>1 DEF Summarize, TypeOK
<1>10. CASE SetSummary
  <2>1. exec' \in [Executors -> Frames]
    BY <1>10, GotoType DEF SetSummary, Places
  <2>2. plan' \in PlanRows
    BY <1>10 DEF SetSummary, TypeOK, PlanRows
  <2>3. queue' \in Seq(0..MaxSteps)
    <3>1. queue \in Seq(0..MaxSteps) /\ (queue' = Append(queue, 0) \/ queue' = queue)
      BY <1>10 DEF SetSummary, TypeOK
    <3> QED
      BY <3>1
  <2> QED
    BY <1>0, <1>10, <2>1, <2>2, <2>3 DEF SetSummary, TypeOK
<1> QED
  BY <1>1, <1>2, <1>3, <1>4, <1>6, <1>7, <1>8, <1>9, <1>10

LEMMA WorkTypeStep ==
    ASSUME TypeOK, Holding, Stopping, Working,
           \/ StopTurn \/ AckStop \/ Recover \/ RetryUnstarted \/ Resume \/ Apply
           \/ SettleRead \/ SettleWrite
    PROVE  TypeOK'
<1> USE DEF Unchanged
<1>0. exec[Poller] \in Frames /\ poll \in Cycles
  BY DEF TypeOK
<1>1. CASE StopTurn
  <2> DEFINE k == TurnOf(Sid(Poller))
             v == CASE Step(Poller).state = "needs_review"           -> "needs_review"
                    [] Step(Poller).state # "needs_review" /\ k = 0   ->
                         IF Step(Poller).state = "done" THEN "done" ELSE "failed"
                    [] Step(Poller).state # "needs_review" /\ k # 0   ->
                         IF NeedsReview(k) THEN "needs_review"
                         ELSE IF Completed(k) THEN "done" ELSE "failed"
  <2>1. k \in 0..MaxTurns
    <3>1. Step(Poller) \in StepRows
      BY <1>1, HeldType DEF StopTurn, At, Locked
    <3> QED
      BY <3>1 DEF TurnOf, Step, StepRows
  <2>2. v \in {"", "done", "failed", "needs_review"}
    OBVIOUS
  <2>3. exec' = [exec EXCEPT ![Poller].pc = "stopped", ![Poller].turn = k,
                             ![Poller].verdict = v]
    BY <1>1 DEF StopTurn, Step
  <2>4. turns' = turns \/ turns' = [turns EXCEPT ![k] = Closed(k)]
    BY <1>1 DEF StopTurn
  <2> HIDE DEF k, v
  <2>5. exec' \in [Executors -> Frames]
    <3>1. [exec[Poller] EXCEPT !.pc = "stopped", !.turn = k, !.verdict = v] \in Frames
      BY <1>0, <2>1, <2>2 DEF Frames, Places
    <3>2. exec' = [exec EXCEPT ![Poller] =
                      [exec[Poller] EXCEPT !.pc = "stopped", !.turn = k, !.verdict = v]]
      BY <1>0, <2>3 DEF TypeOK, Frames
    <3> QED
      BY <3>1, <3>2, FrameType
  <2>6. turns' \in [Keys -> TurnRows]
    <3>1. CASE k \in Keys
      <4>1. turns[k] \in TurnRows
        BY <3>1 DEF TypeOK
      <4>2. Closed(k) \in TurnRows
        BY <4>1 DEF Closed, TurnRows, NotAsked
      <4> QED
        BY <2>4, <4>2, TurnType DEF TypeOK
    <3> QED
      BY <2>4, <3>1 DEF TypeOK
  <2> QED
    BY <1>1, <2>5, <2>6 DEF StopTurn, TypeOK
<1>2. CASE AckStop
  <2> DEFINE s == Sid(Poller)
             r == [steps[s] EXCEPT !.state = exec[Poller].verdict,
                                   !.turn = exec[Poller].turn, !.stopped = TRUE]
  <2>1. s \in StepIds /\ steps[s] \in StepRows
    BY <1>2, HeldType DEF AckStop, At, Locked, Step
  <2>2. exec[Poller].verdict \in StepStates /\ exec[Poller].turn \in 0..MaxTurns
    BY <1>0, <1>2 DEF Stopping, AckStop, At, Frames, StepStates
  <2>3. r \in StepRows
    BY <2>1, <2>2 DEF StepRows
  <2>4. steps' = steps \/ steps' = [steps EXCEPT ![s] = r]
    BY <1>2, <2>1 DEF AckStop, TypeOK, StepRows
  <2> HIDE DEF r, s
  <2>5. steps' \in [StepIds -> StepRows]
    BY <2>3, <2>4, StepType DEF TypeOK
  <2> QED
    BY <1>2, <2>5, NextCandidateType DEF AckStop, TypeOK
<1>3. CASE Recover
  <2>1. Key(Poller) \in 0..MaxTurns
    BY <1>3, HeldType DEF Recover, At, Locked
  <2>2. steps' \in [StepIds -> StepRows]
    BY <1>3, <2>1, LinkType DEF Recover, TypeOK
  <2>3. \/ \E pc \in {"outcome", "retry"} : Goto(Poller, pc) /\ UNCHANGED <<lock, poll>>
        \/ NextCandidate \/ AbortCycle
    BY <1>3 DEF Recover
  <2>4. /\ exec' \in [Executors -> Frames] /\ poll' \in Cycles
        /\ lock' \in Executors \cup {NoOne}
    <3>1. ASSUME NEW pc \in {"outcome", "retry"}, Goto(Poller, pc), UNCHANGED <<lock, poll>>
          PROVE  /\ exec' \in [Executors -> Frames] /\ poll' \in Cycles
                 /\ lock' \in Executors \cup {NoOne}
      BY <3>1, GotoType DEF TypeOK, Places
    <3> QED
      BY <2>3, <3>1, NextCandidateType, AbortCycleType
  <2> QED
    BY <1>3, <2>2, <2>4 DEF Recover, TypeOK
<1>4. CASE RetryUnstarted
  <2>1. steps' \in [StepIds -> StepRows]
    <3> DEFINE v == IF Step(Poller).tries >= MaxAttempts THEN "failed" ELSE "pending"
    <3>1. v \in StepStates
      BY DEF StepStates
    <3>2. steps' = steps \/ steps' = [steps EXCEPT ![Sid(Poller)].state = v]
      BY <1>4 DEF RetryUnstarted, Unstarted, Step
    <3> HIDE DEF v
    <3> QED
      BY <3>1, <3>2, StateType DEF TypeOK
  <2> QED
    BY <1>4, <2>1, ContinueType DEF RetryUnstarted, TypeOK
<1>5. CASE Resume
  <2>1. steps' \in [StepIds -> StepRows]
    BY <1>5, StateType DEF Resume, TypeOK, StepStates
  <2>2. CASE NextCandidate
    BY <1>5, <2>1, <2>2, NextCandidateType DEF Resume, TypeOK
  <2>3. CASE /\ poll' = [poll EXCEPT !.resumed = TRUE]
             /\ exec' = [exec EXCEPT ![Poller].why = "resumed",
                          ![Poller].pc = IF Authorized(Poller) THEN "resume" ELSE "outcome"]
             /\ UNCHANGED <<steps, lock>>
    <3> DEFINE pc == IF Authorized(Poller) THEN "resume" ELSE "outcome"
    <3>1. pc \in Places
      BY DEF Places
    <3>2. exec' = [exec EXCEPT ![Poller].why = "resumed", ![Poller].pc = pc]
      BY <2>3
    <3> HIDE DEF pc
    <3>3. [exec[Poller] EXCEPT !.why = "resumed", !.pc = pc] \in Frames
      BY <1>0, <3>1 DEF Frames, Reasons
    <3>4. exec' = [exec EXCEPT ![Poller] = [exec[Poller] EXCEPT !.why = "resumed", !.pc = pc]]
      BY <1>0, <3>2 DEF TypeOK, Frames
    <3>5. exec' \in [Executors -> Frames]
      BY <3>3, <3>4, FrameType
    <3>6. poll' \in Cycles
      BY <1>0, <2>3 DEF Cycles
    <3> QED
      BY <1>5, <2>1, <2>3, <3>5, <3>6 DEF Resume, TypeOK
  <2> QED
    BY <1>5, <2>2, <2>3 DEF Resume
<1>6. CASE Apply
  <2> DEFINE k == Key(Poller)
             new == IF exec[Poller].why = "failed" THEN "interrupted" ELSE StateFor(Outcome(k))
  <2>1. k \in 0..MaxTurns /\ Sid(Poller) \in StepIds /\ Step(Poller).turn # 0
    BY <1>6, HeldType DEF Apply, At, Locked, Working
  <2>2. \/ steps' = steps /\ queue' = queue
        \/ /\ Holds(Sid(Poller), k)
           /\ steps' = [steps EXCEPT ![Sid(Poller)].state = new]
           /\ queue' = queue \/ queue' = Append(queue, Sid(Poller))
    BY <1>6 DEF Apply
  <2>3. Holds(Sid(Poller), k) => new \in StepStates
    <3> SUFFICES ASSUME Holds(Sid(Poller), k) PROVE new \in StepStates
      OBVIOUS
    <3>1. k \in Keys
      BY <2>1 DEF Holds, Keys, Step
    <3>2. turns[k].status \in {"none", "running", "waiting", "done", "failed", "superseded"}
      BY <3>1 DEF TypeOK, TurnRows
    <3>3. Outcome(k) \in {"running", "expired", "waiting_approval", "rejected", "completed",
                          "failed", "interrupted"}
      <4>1. CASE turns[k].status \in {"running", "superseded", "none"}
        BY <4>1 DEF Outcome
      <4>2. CASE turns[k].status = "waiting"
        BY <4>2 DEF Outcome
      <4>3. CASE turns[k].status = "done"
        BY <4>3 DEF Outcome
      <4>4. CASE turns[k].status = "failed"
        BY <4>4 DEF Outcome
      <4> QED
        BY <3>2, <4>1, <4>2, <4>3, <4>4
    <3>4. StateFor(Outcome(k)) \in StepStates
      BY <3>3 DEF StateFor, StepStates
    <3> QED
      BY <3>4 DEF StepStates
  <2> HIDE DEF new
  <2>4. steps' \in [StepIds -> StepRows]
    BY <2>2, <2>3, StateType DEF TypeOK
  <2>5. queue' \in Seq(0..MaxSteps)
    <3>1. queue \in Seq(0..MaxSteps) /\ Sid(Poller) \in 0..MaxSteps
      BY <2>1 DEF TypeOK, StepIds
    <3>2. queue' = queue \/ queue' = Append(queue, Sid(Poller))
      BY <2>2
    <3> QED
      BY <3>1, <3>2
  <2> QED
    BY <1>6, <2>4, <2>5, ContinueType DEF Apply, TypeOK
<1>7. CASE SettleRead
  <2>1. CASE AfterSettle
    BY <1>7, <2>1, AfterSettleType DEF SettleRead, TypeOK
  <2>2. CASE /\ exec' = [exec EXCEPT ![Poller].pc = "close",
                          ![Poller].verdict = IF \E s \in Existing : steps[s].state = "done"
                                              THEN "done" ELSE "failed"]
             /\ UNCHANGED <<lock, poll>>
    <3> DEFINE v == IF \E s \in Existing : steps[s].state = "done" THEN "done" ELSE "failed"
    <3>1. v \in {"done", "failed"}
      OBVIOUS
    <3>2. exec' = [exec EXCEPT ![Poller].pc = "close", ![Poller].verdict = v]
      BY <2>2
    <3> HIDE DEF v
    <3>3. [exec[Poller] EXCEPT !.pc = "close", !.verdict = v] \in Frames
      BY <1>0, <3>1 DEF Frames, Places
    <3>4. exec' = [exec EXCEPT ![Poller] = [exec[Poller] EXCEPT !.pc = "close", !.verdict = v]]
      BY <1>0, <3>2 DEF TypeOK, Frames
    <3>5. exec' \in [Executors -> Frames]
      BY <3>3, <3>4, FrameType
    <3> QED
      BY <1>7, <2>2, <3>5 DEF SettleRead, TypeOK
  <2> QED
    BY <1>7, <2>1, <2>2 DEF SettleRead
<1>8. CASE SettleWrite
  <2>1. exec[Poller].verdict \in {"done", "failed"}
    BY <1>8 DEF SettleWrite, At, Working, Settled
  <2>2. plan' \in PlanRows
    BY <1>8, <2>1 DEF SettleWrite, TypeOK, PlanRows
  <2> QED
    BY <1>8, <2>2, AfterSettleType DEF SettleWrite, TypeOK
<1> QED
  BY <1>1, <1>2, <1>3, <1>4, <1>5, <1>6, <1>7, <1>8

LEMMA RunTypeStep ==
    ASSUME TypeOK, RowsAgree, Holding, StepsAgree, Working,
           \/ \E s \in StepIds : \/ ClaimStep(s)
                                 \/ \E v \in {"waiting", "pending", "failed"} : CheckCondition(s, v)
           \/ BeginCheck \/ RejectInput \/ BeginTurn \/ LinkTurn
    PROVE  TypeOK'
<1> USE DEF Unchanged
<1>0. exec[Poller] \in Frames /\ poll \in Cycles /\ poll.todo \subseteq Existing
  BY DEF TypeOK, RowsAgree
<1>1. ASSUME NEW s \in StepIds, ClaimStep(s)
      PROVE  TypeOK'
  <2>1. CASE RunOver /\ UNCHANGED steps
    BY <1>1, <2>1, RunOverType DEF ClaimStep, TypeOK
  <2>2. CASE ~(RunOver /\ UNCHANGED steps)
    <3> DEFINE k == IF steps[s].key # 0 THEN steps[s].key ELSE CHOOSE n \in Unused : TRUE
               r == [steps[s] EXCEPT !.state = "running", !.key = k, !.turn = 0, !.tries = @ + 1]
               f == [Away EXCEPT !.step = s, !.pc = IF k \in Begun THEN "recover" ELSE "begin",
                                 !.why = IF k \in Begun THEN "rerun" ELSE "run"]
    <3>1. steps[s] \in StepRows
      BY DEF TypeOK
    <3>2. k \in 0..MaxTurns
      <4>1. CASE steps[s].key # 0
        BY <3>1, <4>1 DEF StepRows
      <4>2. CASE steps[s].key = 0
        <5>1. Unused # {}
          BY <1>1, <4>2 DEF ClaimStep
        <5>2. (CHOOSE n \in Unused : TRUE) \in Unused
          BY <5>1
        <5> QED
          BY <4>2, <5>2 DEF Unused, Keys
      <4> QED
        BY <4>1, <4>2
    <3>3. /\ steps[s].state = "pending" /\ s \in Existing
          /\ steps' = [steps EXCEPT ![s].state = "running", ![s].key = k,
                                    ![s].turn = 0, ![s].tries = @ + 1]
          /\ lock' = Poller
          /\ exec' = [exec EXCEPT ![Poller] = f]
          /\ poll' = [poll EXCEPT !.todo = {}, !.touched = TRUE]
      BY <1>0, <1>1, <2>2 DEF ClaimStep, MayClaim
    <3>4. steps[s].tries < MaxAttempts /\ steps[s].tries \in 0..MaxAttempts
      BY <3>1, <3>3 DEF StepsAgree, StepRows
    <3>5. steps[s].tries + 1 \in 0..MaxAttempts
      BY <3>4
    <3>6. f \in Frames
      <4>1. /\ s \in 0..MaxSteps
            /\ (IF k \in Begun THEN "recover" ELSE "begin") \in Places
            /\ (IF k \in Begun THEN "rerun" ELSE "run") \in Reasons
        BY DEF StepIds, Places, Reasons
      <4> HIDE DEF k
      <4> QED
        BY <4>1, AwayType DEF Away, Frames
    <3> HIDE DEF k, f
    <3>7. r \in StepRows
      BY <3>1, <3>2, <3>5 DEF StepRows, StepStates
    <3>8. steps' = [steps EXCEPT ![s] = r]
      BY <3>1, <3>3 DEF TypeOK, StepRows
    <3> HIDE DEF r
    <3>9. steps' \in [StepIds -> StepRows] /\ exec' \in [Executors -> Frames]
      BY <3>3, <3>6, <3>7, <3>8, StepType, FrameType
    <3>10. poll' \in Cycles
      BY <1>0, <3>3 DEF Cycles
    <3> QED
      BY <1>1, <3>3, <3>9, <3>10 DEF ClaimStep, TypeOK
  <2> QED
    BY <2>1, <2>2
<1>2. ASSUME NEW s \in StepIds, NEW v \in {"waiting", "pending", "failed"}, CheckCondition(s, v)
      PROVE  TypeOK'
  <2>1. steps' \in [StepIds -> StepRows]
    BY <1>2, StateType DEF CheckCondition, TypeOK, StepStates
  <2> DEFINE todo == IF plan.state = "active" /\ MayRelease(s) /\ v = "pending"
                     THEN {s} ELSE poll.todo \ {s}
             waits == poll.waits \ {s}
  <2>2. todo \in SUBSET StepIds /\ waits \in SUBSET StepIds
    BY <1>0 DEF Cycles
  <2>3. poll' = [poll EXCEPT !.waits = waits, !.todo = todo]
    BY <1>2 DEF CheckCondition
  <2> HIDE DEF todo, waits
  <2>4. poll' \in Cycles
    BY <1>0, <2>2, <2>3 DEF Cycles
  <2> QED
    BY <1>2, <2>1, <2>4 DEF CheckCondition, TypeOK
<1>3. ASSUME Interrupted PROVE exec' \in [Executors -> Frames]
  <2>1. [exec[Poller] EXCEPT !.pc = "recover", !.why = "failed"] \in Frames
    BY <1>0 DEF Frames, Places, Reasons
  <2>2. exec' = [exec EXCEPT ![Poller] = [exec[Poller] EXCEPT !.pc = "recover", !.why = "failed"]]
    BY <1>0, <1>3 DEF Interrupted, TypeOK, Frames
  <2> QED
    BY <2>1, <2>2, FrameType
<1>4. CASE BeginCheck
  <2>1. exec' \in [Executors -> Frames]
    BY <1>3, <1>4, GotoType DEF BeginCheck, Places
  <2> QED
    BY <1>4, <2>1 DEF BeginCheck, TypeOK
<1>5. CASE RejectInput
  <2>1. steps' \in [StepIds -> StepRows]
    BY <1>5, StateType DEF RejectInput, TypeOK, StepStates
  <2> QED
    BY <1>5, <2>1, RunOverType DEF RejectInput, TypeOK
<1>6. CASE BeginTurn
  <2>1. exec' \in [Executors -> Frames]
    BY <1>3, <1>6, GotoType DEF BeginTurn, Places
  <2>2. Sid(Poller) \in 0..MaxSteps
    BY <1>0 DEF Frames, Sid
  <2>3. turns' \in [Keys -> TurnRows]
    BY <1>6, <2>2, OpenedType DEF BeginTurn, TypeOK
  <2> QED
    BY <1>6, <2>1, <2>3 DEF BeginTurn, TypeOK
<1>7. CASE LinkTurn
  <2>1. Key(Poller) \in 0..MaxTurns
    BY <1>7, HeldType DEF LinkTurn, At, Locked
  <2>2. steps' \in [StepIds -> StepRows]
    BY <1>7, <2>1, LinkType DEF LinkTurn, TypeOK
  <2>3. turns' \in [Keys -> TurnRows]
    BY <1>7, FailTurnType DEF LinkTurn, TypeOK
  <2>4. exec' \in [Executors -> Frames]
    BY <1>3, <1>7, GotoType DEF LinkTurn, Places, InTurn
  <2> QED
    BY <1>7, <2>2, <2>3, <2>4 DEF LinkTurn, TypeOK
<1> QED
  BY <1>1, <1>2, <1>4, <1>5, <1>6, <1>7

\* No step leaves the types.
LEMMA TypeStep ==
    ASSUME TypeOK, RowsAgree, StepsAgree, Holding, Working, Stopping, Next
    PROVE  TypeOK'
<1>1. CASE RunPoller
  BY <1>1, PassTypeStep, WorkTypeStep, RunTypeStep, TurnTypeStep, ContinueTypeStep
  DEF RunPoller
<1>2. CASE RunDesk
  BY <1>2, TurnTypeStep, ContinueTypeStep, DeskTypeStep DEF RunDesk
<1>3. CASE Others
  BY <1>3, DeskTypeStep, OthersTypeStep DEF Others
<1> QED
  BY <1>1, <1>2, <1>3 DEF Next

-----------------------------------------------------------------------------
(* Who writes what.                                                         *)

WritesSteps ==
    \/ Retire \/ AckStop \/ Recover \/ RetryUnstarted \/ Resume \/ Apply
    \/ RejectInput \/ LinkTurn
    \/ \E s \in StepIds : \/ ClaimStep(s)
                          \/ \E v \in {"waiting", "pending", "failed"} : CheckCondition(s, v)
    \/ \E s \in Existing : ReleaseStep(s)
    \/ \E e \in Executors : ResumeCheck(e)
    \/ \E waits \in BOOLEAN : AddInsert(waits)

WritesTurns ==
    \/ StopTurn \/ BeginTurn \/ LinkTurn
    \/ \E e \in Executors : RunTurn(e) \/ ResumeClaim(e) \/ ResumeCheck(e)
    \/ \E yes \in BOOLEAN : Decide(yes)
    \/ \E k \in Keys : ApprovalAges(k)
    \/ \E l \in late : LateCommit(l)

LEMMA RunTurnWrites ==
    ASSUME NEW e, RunTurn(e) PROVE OnlyTurn
BY DEF RunTurn, Stopped, Reserve, Dispatch, Answered, Uncertain, AskApproval, Finish

LEMMA StepWriters ==
    ASSUME Next PROVE WritesSteps \/ UNCHANGED <<steps, rows>>
<1>1. CASE RunPoller
  <2>1. CASE RunTurn(Poller)
    BY <2>1, RunTurnWrites DEF OnlyTurn
  <2>2. CASE \/ StopTurn \/ SettleStage \/ SettleRead \/ SettleWrite
             \/ BeginSteps \/ BeginCheck \/ BeginTurn \/ Summarize \/ SetSummary
    BY <2>2 DEF StopTurn, SettleStage, SettleRead, SettleWrite, BeginSteps, BeginCheck,
         BeginTurn, Summarize, SetSummary, Unchanged
  <2>3. CASE \/ \E op \in {"stops", "turns"} : BeginPass(op) \/ EndPass(op)
             \/ EndPass("steps")
             \/ \E s \in StepIds : \/ Skip("stops", s) \/ TakeUp("stops", s, "stopping")
                                   \/ Skip("turns", s) \/ TakeUp("turns", s, "recover")
    BY <2>3 DEF BeginPass, EndPass, Skip, TakeUp, Unchanged
  <2>4. CASE ResumeClaim(Poller)
    BY <2>4 DEF ResumeClaim, OnlyTurn
  <2>5. CASE ResumeCheck(Poller)
    BY <2>5, Bounds DEF WritesSteps
  <2> QED
    BY <1>1, <2>1, <2>2, <2>3, <2>4, <2>5 DEF RunPoller, WritesSteps
<1>2. CASE RunDesk
  <2>1. CASE RunTurn(Desk)
    BY <2>1, RunTurnWrites DEF OnlyTurn
  <2>2. CASE ResumeClaim(Desk) \/ \E yes \in BOOLEAN : Decide(yes)
    BY <2>2 DEF ResumeClaim, Decide, OnlyTurn
  <2>3. CASE ResumeCheck(Desk)
    BY <2>3, Bounds DEF WritesSteps
  <2> QED
    BY <1>2, <2>1, <2>2, <2>3 DEF RunDesk
<1>3. CASE Others
  <2>1. CASE \/ \E after \in SUBSET Existing : AddCheck(after)
             \/ CancelPlan \/ TimePasses
             \/ \E s \in Existing : DeskResume(s) \/ DeskApprove(s)
             \/ \E k \in Keys : ApprovalAges(k)
             \/ \E e \in Executors : Crash(e)
             \/ \E l \in late : LateCommit(l)
    BY <2>1 DEF AddCheck, CancelPlan, TimePasses, DeskResume, DeskApprove, Sit, OnlyTurn,
         ApprovalAges, Crash, LateCommit
  <2> QED
    BY <1>3, <2>1 DEF Others, WritesSteps
<1> QED
  BY <1>1, <1>2, <1>3 DEF Next

LEMMA TurnWriters ==
    ASSUME Next PROVE WritesTurns \/ UNCHANGED turns
<1>1. CASE RunPoller
  <2>1. CASE \/ Retire \/ AckStop \/ Recover \/ RetryUnstarted \/ Resume \/ Apply
             \/ SettleStage \/ SettleRead \/ SettleWrite
    BY <2>1 DEF Retire, AckStop, Recover, RetryUnstarted, Resume, Apply, SettleStage,
         SettleRead, SettleWrite
  <2>2. CASE BeginSteps \/ BeginCheck \/ RejectInput \/ Summarize \/ SetSummary
    BY <2>2 DEF BeginSteps, BeginCheck, RejectInput, Summarize, SetSummary
  <2>3. CASE \/ \E op \in {"stops", "turns"} : BeginPass(op) \/ EndPass(op)
             \/ EndPass("steps")
             \/ \E s \in StepIds : \/ Skip("stops", s) \/ TakeUp("stops", s, "stopping")
                                   \/ Skip("turns", s) \/ TakeUp("turns", s, "recover")
                                   \/ ClaimStep(s)
                                   \/ \E v \in {"waiting", "pending", "failed"} : CheckCondition(s, v)
    BY <2>3 DEF BeginPass, EndPass, Skip, TakeUp, ClaimStep, CheckCondition
  <2>4. CASE \/ StopTurn \/ BeginTurn \/ LinkTurn
             \/ RunTurn(Poller) \/ ResumeClaim(Poller) \/ ResumeCheck(Poller)
    BY <2>4, Bounds DEF WritesTurns
  <2> QED
    BY <1>1, <2>1, <2>2, <2>3, <2>4 DEF RunPoller
<1>2. CASE RunDesk
  BY <1>2, Bounds DEF RunDesk, WritesTurns
<1>3. CASE Others
  <2>1. CASE \/ \E after \in SUBSET Existing : AddCheck(after)
             \/ \E waits \in BOOLEAN : AddInsert(waits)
             \/ CancelPlan \/ TimePasses
             \/ \E s \in Existing : ReleaseStep(s) \/ DeskResume(s) \/ DeskApprove(s)
             \/ \E e \in Executors : Crash(e)
    BY <2>1 DEF AddCheck, AddInsert, CancelPlan, TimePasses, ReleaseStep, DeskResume,
         DeskApprove, Sit, Crash
  <2> QED
    BY <1>3, <2>1 DEF Others, WritesTurns
<1> QED
  BY <1>1, <1>2, <1>3 DEF Next

\* A claim as it was made: with the key of the step, or one that nothing has.
Claimed(s, k) ==
    /\ s \in Existing /\ Live /\ lock = NoOne /\ steps[s].state = "pending"
    /\ k \in Keys /\ (k = steps[s].key \/ (steps[s].key = 0 /\ k \in Unused))
    /\ steps' = [steps EXCEPT ![s] = [steps[s] EXCEPT !.state = "running", !.key = k,
                                                      !.turn = 0, !.tries = @ + 1]]
    /\ lock' = Poller
    /\ exec' = [exec EXCEPT ![Poller] =
                    [Away EXCEPT !.step = s, !.pc = IF k \in Begun THEN "recover" ELSE "begin",
                                 !.why = IF k \in Begun THEN "rerun" ELSE "run"]]
    /\ poll' = [poll EXCEPT !.todo = {}, !.touched = TRUE]

LEMMA ClaimShape ==
    ASSUME TypeOK, RowsAgree, NEW s \in StepIds, ClaimStep(s)
    PROVE  (RunOver /\ UNCHANGED steps) \/ \E k \in Keys : Claimed(s, k)
<1> SUFFICES ASSUME ~(RunOver /\ UNCHANGED steps) PROVE \E k \in Keys : Claimed(s, k)
  OBVIOUS
<1> DEFINE k == IF steps[s].key # 0 THEN steps[s].key ELSE CHOOSE n \in Unused : TRUE
<1>1. steps[s] \in StepRows
  BY DEF TypeOK
<1>2. k \in Keys /\ (k = steps[s].key \/ (steps[s].key = 0 /\ k \in Unused))
  <2>1. CASE steps[s].key # 0
    BY <1>1, <2>1 DEF StepRows, Keys
  <2>2. CASE steps[s].key = 0
    <3>1. Unused # {}
      BY <2>2 DEF ClaimStep
    <3>2. (CHOOSE n \in Unused : TRUE) \in Unused
      BY <3>1
    <3> QED
      BY <2>2, <3>2 DEF Unused
  <2> QED
    BY <2>1, <2>2
<1>3. /\ s \in Existing /\ MayClaim(s) /\ lock = NoOne
      /\ steps' = [steps EXCEPT ![s].state = "running", ![s].key = k,
                                ![s].turn = 0, ![s].tries = @ + 1]
      /\ lock' = Poller
      /\ exec' = [exec EXCEPT ![Poller] =
                    [Away EXCEPT !.step = s, !.pc = IF k \in Begun THEN "recover" ELSE "begin",
                                 !.why = IF k \in Begun THEN "rerun" ELSE "run"]]
      /\ poll' = [poll EXCEPT !.todo = {}, !.touched = TRUE]
  BY DEF ClaimStep, RowsAgree
<1> HIDE DEF k
<1>4. steps' = [steps EXCEPT ![s] = [steps[s] EXCEPT !.state = "running", !.key = k,
                                                     !.turn = 0, !.tries = @ + 1]]
  BY <1>1, <1>3 DEF TypeOK, StepRows
<1> QED
  BY <1>2, <1>3, <1>4 DEF Claimed, MayClaim

-----------------------------------------------------------------------------
(* What a step of the plan never loses.                                     *)

\* Its place, the key it drew and the turn it is linked to.
Kept(s) ==
    /\ s \in Existing'
    /\ steps[s].key # 0 => steps'[s].key = steps[s].key
    /\ steps[s].turn # 0 => steps'[s].turn = steps[s].turn

LEMMA StepsKept ==
    ASSUME TypeOK, RowsAgree, StepsAgree, Holding, Stopping, Next, NEW s \in Existing
    PROVE  Kept(s)
<1>0. /\ s \in StepIds /\ steps[s] \in StepRows /\ steps \in [StepIds -> StepRows]
      /\ rows \in Nat
  BY DEF TypeOK, Existing, StepIds
<1>1. CASE UNCHANGED <<steps, rows>>
  BY <1>1 DEF Kept, Existing
<1>2. ASSUME UNCHANGED rows PROVE s \in Existing'
  BY <1>2 DEF Existing
<1>3. ASSUME NEW t, NEW state, steps' = [steps EXCEPT ![t].state = state], UNCHANGED rows
      PROVE  Kept(s)
  BY <1>0, <1>2, <1>3 DEF Kept, StepRows
<1>4. CASE Retire
  <2>1. \/ steps'[s] = steps[s]
        \/ steps'[s] = [steps[s] EXCEPT !.state = "failed", !.stopped = TRUE]
    BY <1>0, <1>4 DEF Retire
  <2>2. steps'[s].key = steps[s].key /\ steps'[s].turn = steps[s].turn
    BY <1>0, <2>1 DEF StepRows
  <2> QED
    BY <1>2, <1>4, <2>2 DEF Retire, Unchanged, Kept
<1>5. CASE AckStop
  <2>1. Sid(Poller) = s /\ steps[s].turn # 0 => exec[Poller].turn = steps[s].turn
    BY <1>5 DEF AckStop, Stopping, At
  <2>2. steps'[s].key = steps[s].key
    BY <1>0, <1>5 DEF AckStop, StepRows
  <2>3. steps'[s].turn = steps[s].turn \/ (Sid(Poller) = s /\ steps'[s].turn = exec[Poller].turn)
    BY <1>0, <1>5 DEF AckStop, StepRows
  <2> QED
    BY <1>2, <1>5, <2>1, <2>2, <2>3 DEF AckStop, Unchanged, Kept
<1>6. CASE Recover \/ LinkTurn
  <2>1. UNCHANGED <<steps, rows>> \/ /\ steps[Sid(Poller)].turn = 0 /\ UNCHANGED rows
                                     /\ steps' = [steps EXCEPT ![Sid(Poller)].turn = Key(Poller)]
    BY <1>6 DEF Recover, LinkTurn, MayLink, Unchanged
  <2> QED
    BY <1>0, <1>1, <1>2, <2>1 DEF Kept, StepRows
<1>7. CASE RetryUnstarted
  BY <1>1, <1>3, <1>7 DEF RetryUnstarted, Unstarted, Unchanged
<1>8. CASE Resume \/ RejectInput
  BY <1>1, <1>3, <1>8 DEF Resume, RejectInput, Unchanged
<1>9. CASE Apply
  BY <1>1, <1>3, <1>9 DEF Apply, Unchanged
<1>10. ASSUME NEW t \in StepIds, ClaimStep(t) PROVE Kept(s)
  <2>1. ASSUME NEW k \in Keys, Claimed(t, k) PROVE Kept(s)
    <3>1. steps[t].turn = 0
      BY <2>1 DEF Claimed, StepsAgree
    <3>2. UNCHANGED rows
      BY <1>10 DEF ClaimStep, Unchanged
    <3> QED
      BY <1>0, <1>2, <2>1, <3>1, <3>2 DEF Claimed, Kept, StepRows
  <2>2. UNCHANGED rows
    BY <1>10 DEF ClaimStep, Unchanged
  <2> QED
    BY <1>1, <1>10, <2>1, <2>2, ClaimShape
<1>11. ASSUME NEW t \in StepIds, NEW v \in {"waiting", "pending", "failed"}, CheckCondition(t, v)
       PROVE  Kept(s)
  BY <1>1, <1>3, <1>11 DEF CheckCondition, Unchanged
<1>12. ASSUME NEW t \in Existing, ReleaseStep(t) PROVE Kept(s)
  BY <1>3, <1>12 DEF ReleaseStep
<1>13. ASSUME NEW e \in Executors, ResumeCheck(e) PROVE Kept(s)
  BY <1>0, <1>2, <1>13 DEF ResumeCheck, Kept, StepRows
<1>14. ASSUME NEW waits \in BOOLEAN, AddInsert(waits) PROVE Kept(s)
  <2>1. rows' = rows + 1 /\ s \in 1..rows
    BY <1>14 DEF AddInsert, Existing
  <2>2. s \in Existing' /\ rows + 1 # s
    BY <1>0, <2>1 DEF Existing
  <2>3. steps'[s] = steps[s]
    BY <1>0, <1>14, <2>2 DEF AddInsert
  <2> QED
    BY <2>2, <2>3 DEF Kept
<1> QED
  BY <1>1, <1>4, <1>5, <1>6, <1>7, <1>8, <1>9, <1>10, <1>11, <1>12, <1>13, <1>14, StepWriters
  DEF WritesSteps

\* A key is drawn by one step at a time, and it was nowhere before; a new step
\* has none.
LEMMA KeysDrawn ==
    ASSUME TypeOK, RowsAgree, StepsAgree, Holding, Stopping, Next, NEW s \in Existing'
    PROVE  \/ s \in Existing /\ steps'[s].key = steps[s].key
           \/ steps'[s].key = 0
           \/ /\ s \in Existing /\ steps'[s].key \in Unused
              /\ \A t \in Existing' : t # s => t \in Existing /\ steps'[t].key = steps[t].key
<1>0. /\ steps \in [StepIds -> StepRows] /\ rows \in Nat
      /\ \A t \in Existing : t \in StepIds /\ steps[t] \in StepRows
  BY DEF TypeOK, Existing, StepIds
<1>1. ASSUME UNCHANGED rows PROVE Existing' = Existing
  BY <1>1 DEF Existing
<1>2. ASSUME NEW t, NEW state, steps' = [steps EXCEPT ![t].state = state], UNCHANGED rows
      PROVE  s \in Existing /\ steps'[s].key = steps[s].key
  BY <1>0, <1>1, <1>2 DEF StepRows
<1>3. CASE UNCHANGED <<steps, rows>>
  BY <1>1, <1>3
<1>4. CASE Retire
  <2>1. Existing' = Existing
    BY <1>1, <1>4 DEF Retire, Unchanged
  <2>2. \/ steps'[s] = steps[s]
        \/ steps'[s] = [steps[s] EXCEPT !.state = "failed", !.stopped = TRUE]
    BY <1>0, <1>4, <2>1 DEF Retire
  <2> QED
    BY <1>0, <2>1, <2>2 DEF StepRows
<1>5. CASE AckStop
  BY <1>0, <1>1, <1>5 DEF AckStop, Unchanged, StepRows
<1>6. CASE Recover \/ LinkTurn
  <2>1. UNCHANGED <<steps, rows>> \/ /\ UNCHANGED rows
                                     /\ steps' = [steps EXCEPT ![Sid(Poller)].turn = Key(Poller)]
    BY <1>6 DEF Recover, LinkTurn, Unchanged
  <2> QED
    BY <1>0, <1>1, <1>3, <2>1 DEF StepRows
<1>7. CASE RetryUnstarted
  BY <1>2, <1>3, <1>7 DEF RetryUnstarted, Unstarted, Unchanged
<1>8. CASE Resume \/ RejectInput
  BY <1>2, <1>3, <1>8 DEF Resume, RejectInput, Unchanged
<1>9. CASE Apply
  BY <1>2, <1>3, <1>9 DEF Apply, Unchanged
<1>10. ASSUME NEW t \in StepIds, ClaimStep(t)
       PROVE  \/ s \in Existing /\ steps'[s].key = steps[s].key
              \/ /\ s \in Existing /\ steps'[s].key \in Unused
                 /\ \A u \in Existing' : u # s => u \in Existing /\ steps'[u].key = steps[u].key
  <2>1. Existing' = Existing
    BY <1>1, <1>10 DEF ClaimStep, Unchanged
  <2>2. CASE UNCHANGED steps
    BY <2>1, <2>2
  <2>3. ASSUME NEW k \in Keys, Claimed(t, k)
        PROVE  \/ steps'[s].key = steps[s].key
               \/ /\ steps'[s].key \in Unused
                  /\ \A u \in Existing : u # s => steps'[u].key = steps[u].key
    BY <1>0, <2>1, <2>3 DEF Claimed, StepRows
  <2> QED
    BY <1>10, <2>1, <2>2, <2>3, ClaimShape
<1>11. ASSUME NEW t \in StepIds, NEW v \in {"waiting", "pending", "failed"}, CheckCondition(t, v)
       PROVE  s \in Existing /\ steps'[s].key = steps[s].key
  BY <1>1, <1>2, <1>11 DEF CheckCondition, Unchanged
<1>12. ASSUME NEW t \in Existing, ReleaseStep(t)
       PROVE  s \in Existing /\ steps'[s].key = steps[s].key
  BY <1>2, <1>12 DEF ReleaseStep
<1>13. ASSUME NEW e \in Executors, ResumeCheck(e)
       PROVE  s \in Existing /\ steps'[s].key = steps[s].key
  BY <1>0, <1>1, <1>13 DEF ResumeCheck, StepRows
<1>14. ASSUME NEW waits \in BOOLEAN, AddInsert(waits)
       PROVE  \/ s \in Existing /\ steps'[s].key = steps[s].key
              \/ steps'[s].key = 0
  <2>1. rows' = rows + 1 /\ rows < MaxSteps
    BY <1>14 DEF AddInsert, RowsAgree
  <2>2. s = rows + 1 \/ (s \in Existing /\ rows + 1 # s)
    BY <1>0, <2>1 DEF Existing
  <2>3. CASE s = rows + 1
    <3>1. s \in StepIds
      BY <1>0, <2>1, <2>3, Bounds DEF StepIds
    <3> QED
      BY <1>0, <1>14, <2>3, <3>1 DEF AddInsert, NoStep
  <2>4. CASE s \in Existing /\ rows + 1 # s
    BY <1>0, <1>14, <2>4 DEF AddInsert
  <2> QED
    BY <2>2, <2>3, <2>4
<1> QED
  BY <1>3, <1>4, <1>5, <1>6, <1>7, <1>8, <1>9, <1>10, <1>11, <1>12, <1>13, <1>14, StepWriters
  DEF WritesSteps

-----------------------------------------------------------------------------
(* What becomes of a turn.                                                  *)

\* A turn as it is opened, for the step whose key it has.
Fresh(k) ==
    /\ turns'[k].step \in Existing /\ steps[turns'[k].step].key = k
    /\ turns'[k].status = "running" /\ turns'[k].approval = "none"
    /\ ~turns'[k].open /\ ~turns'[k].refused

\* Opening a turn leaves every turn there is alone.
LEMMA OpenedShape ==
    ASSUME TypeOK, NEW k \in Keys \ Begun, NEW s \in Existing, steps[s].key = k,
           turns' = Opened(k, s), NEW j \in Keys
    PROVE  /\ j # k => turns'[j] = turns[j]
           /\ j = k => Fresh(j)
<1>1. turns \in [Keys -> TurnRows]
  BY DEF TypeOK
<1>2. turns' = [turns EXCEPT ![k] = [NoTurn EXCEPT !.status = "running", !.step = s,
                                                   !.row = NextRow]]
  BY DEF Opened
<1>3. turns'[k] = [NoTurn EXCEPT !.status = "running", !.step = s, !.row = NextRow]
  BY <1>1, <1>2
<1>4. /\ turns'[k].status = "running" /\ turns'[k].step = s
      /\ turns'[k].approval = "none" /\ turns'[k].open = FALSE /\ turns'[k].refused = FALSE
  BY <1>3 DEF NoTurn
<1> QED
  BY <1>1, <1>2, <1>4 DEF Fresh

\* Only these two open one, and only for the step that has the key.
LEMMA Openings ==
    ASSUME TypeOK, OwnKeys, Holding, Working, BeginTurn \/ \E l \in late : LateCommit(l)
    PROVE  \/ UNCHANGED turns
           \/ \E k \in Keys \ Begun, s \in Existing : steps[s].key = k /\ turns' = Opened(k, s)
<1>1. CASE BeginTurn
  <2>1. /\ Sid(Poller) \in Existing /\ Key(Poller) \in Keys
        /\ steps[Sid(Poller)].key = Key(Poller)
    BY <1>1, HeldType DEF BeginTurn, At, Locked, Working, Keys, Key, Step
  <2> QED
    BY <1>1, <2>1 DEF BeginTurn
<1>2. ASSUME NEW l \in late, LateCommit(l)
      PROVE  \/ UNCHANGED turns
             \/ \E k \in Keys \ Begun, s \in Existing : steps[s].key = k /\ turns' = Opened(k, s)
  <2>1. l[1] \in Keys /\ l[2] \in Existing /\ steps[l[2]].key = l[1]
    BY DEF TypeOK, OwnKeys
  <2> QED
    BY <1>2, <2>1 DEF LateCommit
<1> QED
  BY <1>1, <1>2

\* The others write the turn of one key, and never which step it is of.
RowOf(k, r) == turns' = [turns EXCEPT ![k] = r] /\ r \in TurnRows /\ r.step = turns[k].step
               /\ (r.status = "none" <=> turns[k].status = "none")

LEMMA FailTurnShape ==
    ASSUME TypeOK, NEW k \in Keys, NEW error \in {"stop", "other"}, FailTurn(k, error)
    PROVE  \/ UNCHANGED turns
           \/ /\ turns[k].status \in {"running", "waiting"}
              /\ RowOf(k, [turns[k] EXCEPT !.status = "failed", !.error = error])
<1>1. turns[k] \in TurnRows /\ turns \in [Keys -> TurnRows]
  BY DEF TypeOK
<1>2. [turns[k] EXCEPT !.status = "failed", !.error = error] \in TurnRows
  BY <1>1 DEF TurnRows
<1>3. CASE turns[k].status \in {"running", "waiting"}
  <2>1. turns' = [turns EXCEPT ![k] = [turns[k] EXCEPT !.status = "failed", !.error = error]]
    BY <1>1, <1>3 DEF FailTurn, TurnRows
  <2> QED
    BY <1>1, <1>2, <1>3, <2>1 DEF RowOf, TurnRows
<1> QED
  BY <1>3 DEF FailTurn

LEMMA SetTurnShape ==
    ASSUME TypeOK, NEW k \in Keys, NEW status \in {"running", "done", "failed", "superseded"},
           NEW error \in {"", "stop", "other", "approval_expired"}, SetTurn(k, status, error),
           turns[k].status # "none"
    PROVE  RowOf(k, [turns[k] EXCEPT !.status = status, !.error = error])
<1>1. turns[k] \in TurnRows /\ turns \in [Keys -> TurnRows]
  BY DEF TypeOK
<1>2. [turns[k] EXCEPT !.status = status, !.error = error] \in TurnRows
  BY <1>1 DEF TurnRows
<1>3. turns' = [turns EXCEPT ![k] = [turns[k] EXCEPT !.status = status, !.error = error]]
  BY <1>1 DEF SetTurn, TurnRows
<1> QED
  BY <1>1, <1>2, <1>3 DEF RowOf, TurnRows

\* One boundary further, or over: what its executor does to a running turn.
Advanced(e, k) ==
    LET r == turns[k]  q == turns'[k] IN
    /\ r.status = "running" /\ q.refused = r.refused
    /\ \/ /\ q.status \in {"running", "failed", "superseded"} /\ q.approval = r.approval
          /\ q.status = "failed" => q.error # "approval_expired"
          /\ q.open => r.open \/ (q.status = "running" /\ Authorized(e))
       \/ /\ ~r.open /\ ~q.open
          /\ \/ q.status = "done" /\ q.approval = r.approval
             \/ q.status = "waiting" /\ q.approval = "pending"

\* What an answer to its approval makes of a turn that waits for it.
Answer(k) ==
    LET r == turns[k]  q == turns'[k] IN
    /\ r.approval \in {"pending", "stale"} /\ q.approval = "decided"
    /\ q.open = r.open /\ q.status \in {"running", "failed"}

Moved(k) ==
    /\ turns'[k].step = turns[k].step /\ turns'[k].status # "none"
    /\ \/ turns'[k] = turns[k]
       \/ turns[k].approval = "pending" /\ turns'[k] = [turns[k] EXCEPT !.approval = "stale"]
       \/ /\ At(Poller, "stopping") /\ exec'[Poller].pc # "stopping"
          /\ k = TurnOf(Sid(Poller)) /\ turns'[k] = Closed(k)
       \/ \E e \in Executors :
            /\ exec[e].pc \in Locked \ {"stopping", "stopped"} /\ exec'[e].pc # exec[e].pc
            /\ Key(e) = k /\ (Advanced(e, k) \/ Answer(k))

\* A turn moves on, or it is opened, or there is none still.
Written(k) == IF k \in Begun THEN Moved(k) ELSE turns'[k].status = "none" \/ Fresh(k)

\* An executor that goes on, or leaves, is somewhere else afterwards.
LEMMA GotoMoves ==
    ASSUME TypeOK, NEW e \in Executors, NEW pc \in Places, Goto(e, pc)
    PROVE  exec'[e].pc = pc
BY DEF TypeOK, Goto, Frames

LEMMA ReturnMoves ==
    ASSUME TypeOK, NEW e \in Executors, NEW raised \in BOOLEAN, Return(e, raised)
    PROVE  exec'[e].pc \in {"idle", "recover", "outcome"}
<1>1. exec[e] \in Frames /\ exec \in [Executors -> Frames]
  BY DEF TypeOK
<1>2. /\ [exec[e] EXCEPT !.pc = "recover", !.why = "failed"].pc = "recover"
      /\ [exec[e] EXCEPT !.pc = "outcome"].pc = "outcome" /\ Away.pc = "idle"
  BY <1>1 DEF Away, Frames
<1> QED
  BY <1>1, <1>2, ReturnShape

LEMMA SameWritten ==
    ASSUME NEW k \in Keys, turns'[k] = turns[k] PROVE Written(k)
BY DEF Written, Moved, Begun

LEMMA RunTurnWritten ==
    ASSUME TypeOK, Holding, Working, NEW e \in Executors, RunTurn(e), NEW k \in Keys
    PROVE  Written(k)
<1> DEFINE j == Key(e)
<1>1. exec[e].pc \in InTurn \ {"resumed"}
  BY DEF RunTurn, Stopped, Reserve, Dispatch, Answered, Uncertain, AskApproval, Finish, At,
       InTurn
<1>2. /\ j \in Begun /\ turns[j].status = "running" /\ exec[e].pc \in Locked \ {"stopping", "stopped"}
      /\ exec[e].pc = "loop" => ~turns[j].open
  BY <1>1 DEF Working, Turn, InTurn, Locked
<1>3. j \in Keys /\ k \in Keys /\ turns[j] \in TurnRows /\ turns \in [Keys -> TurnRows]
  BY <1>2 DEF Begun, TypeOK
<1> HIDE DEF j
<1>4. ASSUME NEW r \in TurnRows, turns' = [turns EXCEPT ![j] = r], r.step = turns[j].step,
             r.status # "none", k = j => Advanced(e, j), exec'[e].pc # exec[e].pc
      PROVE  Written(k)
  <2>1. CASE k = j
    BY <1>2, <1>3, <1>4, <2>1 DEF Written, Moved, j
  <2>2. CASE k # j
    BY <1>3, <1>4, <2>2, SameWritten
  <2> QED
    BY <2>1, <2>2
<1>5. ASSUME NEW error \in {"stop", "other"}, FailTurn(j, error), Return(e, TRUE)
      PROVE  Written(k)
  <2> DEFINE r == [turns[j] EXCEPT !.status = "failed", !.error = error]
  <2>0. turns' = [turns EXCEPT ![j].status = "failed", ![j].error = error]
    BY <1>2, <1>5 DEF FailTurn
  <2>1. turns' = [turns EXCEPT ![j] = r] /\ r \in TurnRows
    BY <1>3, <2>0 DEF TurnRows
  <2>2. Advanced(e, j)
    BY <1>2, <1>3, <2>1 DEF Advanced, TurnRows
  <2>3. exec'[e].pc # exec[e].pc
    BY <1>1, <1>5, ReturnMoves DEF InTurn
  <2> QED
    BY <1>3, <1>4, <2>1, <2>2, <2>3 DEF TurnRows
<1>6. CASE Stopped(e)
  BY <1>5, <1>6 DEF Stopped, j
<1>7. CASE Reserve(e)
  <2> DEFINE r == [turns[j] EXCEPT !.open = TRUE]
  <2>1. turns' = [turns EXCEPT ![j] = r] /\ r \in TurnRows
    BY <1>3, <1>7 DEF Reserve, TurnRows, j
  <2>2. Advanced(e, j)
    BY <1>2, <1>3, <1>7, <2>1 DEF Advanced, Reserve, TurnRows
  <2>3. exec'[e].pc # exec[e].pc
    BY <1>7, GotoMoves DEF Reserve, At, Places, InTurn
  <2> QED
    BY <1>2, <1>3, <1>4, <2>1, <2>2, <2>3 DEF TurnRows
<1>8. CASE Dispatch(e)
  BY <1>8, SameWritten DEF Dispatch
<1>9. CASE Answered(e)
  <2> DEFINE r == [turns[j] EXCEPT !.open = FALSE]
  <2>1. turns' = [turns EXCEPT ![j] = r] /\ r \in TurnRows
    BY <1>3, <1>9 DEF Answered, TurnRows, j
  <2>2. Advanced(e, j)
    BY <1>2, <1>3, <2>1 DEF Advanced, TurnRows
  <2>3. exec'[e].pc # exec[e].pc
    BY <1>9, GotoMoves DEF Answered, At, Places, InTurn
  <2> QED
    BY <1>2, <1>3, <1>4, <2>1, <2>2, <2>3 DEF TurnRows
<1>10. CASE Uncertain(e)
  BY <1>5, <1>10 DEF Uncertain, j
<1>11. CASE AskApproval(e)
  <2> DEFINE r == [turns[j] EXCEPT !.status = "waiting", !.approval = "pending"]
  <2>1. r \in TurnRows
    BY <1>3 DEF TurnRows
  <2>2. turns' = [turns EXCEPT ![j] = r]
    BY <1>3, <1>11 DEF AskApproval, TurnRows, j
  <2>3. Advanced(e, j)
    <3>1. turns'[j] = r /\ ~turns[j].open
      BY <1>2, <1>3, <1>11, <2>2 DEF AskApproval, At
    <3>2. /\ turns'[j].status = "waiting" /\ turns'[j].approval = "pending"
          /\ turns'[j].refused = turns[j].refused /\ turns'[j].open = turns[j].open
      BY <1>3, <3>1 DEF TurnRows
    <3> QED
      BY <1>2, <3>1, <3>2 DEF Advanced
  <2>4. exec'[e].pc # exec[e].pc
    BY <1>11, ReturnMoves DEF AskApproval, At
  <2> QED
    BY <1>3, <1>4, <2>1, <2>2, <2>3, <2>4 DEF TurnRows
<1>12. ASSUME NEW status \in {"done", "failed"}, Finish(e, status) PROVE Written(k)
  <2> DEFINE error == IF status = "failed" THEN "other" ELSE ""
             r == [turns[j] EXCEPT !.status = status, !.error = error]
  <2>1. turns' = [turns EXCEPT ![j] = r] /\ r \in TurnRows
    BY <1>2, <1>3, <1>12, SetTurnShape DEF Finish, RowOf, j
  <2>2. Advanced(e, j)
    BY <1>2, <1>3, <1>12, <2>1 DEF Advanced, Finish, At, TurnRows
  <2>3. exec'[e].pc # exec[e].pc
    BY <1>12, ReturnMoves DEF Finish, At
  <2> QED
    BY <1>3, <1>4, <2>1, <2>2, <2>3 DEF TurnRows
<1> QED
  BY <1>6, <1>7, <1>8, <1>9, <1>10, <1>11, <1>12 DEF RunTurn

\* The turn an executor works on is the one its step is linked to.
LEMMA LinkedKey ==
    ASSUME TypeOK, StepsAgree, Holding, NEW e \in Executors, exec[e].pc \in Locked,
           Step(e).turn # 0
    PROVE  Key(e) = Step(e).turn /\ Key(e) \in Begun
BY HeldType DEF StepsAgree, Key, Step

LEMMA ContinueWritten ==
    ASSUME TypeOK, StepsAgree, Holding, Working, NEW e \in Executors,
           ResumeClaim(e) \/ ResumeCheck(e) \/ (e = Poller /\ LinkTurn), NEW k \in Keys
    PROVE  Written(k)
<1> DEFINE j == Key(e)
<1>1. exec[e].pc \in Locked \ {"stopping", "stopped"}
  BY DEF ResumeClaim, ResumeCheck, LinkTurn, At, Locked, InTurn
<1>2. /\ turns \in [Keys -> TurnRows]
      /\ \A i \in Begun : i \in Keys /\ turns[i] \in TurnRows /\ turns[i].status # "none"
  BY DEF TypeOK, Begun
<1>3. CASE UNCHANGED turns
  BY <1>3, SameWritten
<1>4. ASSUME j \in Begun, NEW r \in TurnRows, turns' = [turns EXCEPT ![j] = r],
             r.step = turns[j].step, r.status # "none",
             k = j => Advanced(e, j), exec'[e].pc # exec[e].pc
      PROVE  Written(k)
  <2>1. CASE k = j
    BY <1>1, <1>2, <1>4, <2>1 DEF Written, Moved
  <2>2. CASE k # j
    BY <1>2, <1>4, <2>2, SameWritten
  <2> QED
    BY <2>1, <2>2
<1>5. ASSUME j \in Begun, turns[j].status = "running", exec'[e].pc # exec[e].pc,
             NEW status \in {"failed", "superseded"}, SetTurn(j, status, "other")
      PROVE  Written(k)
  <2> DEFINE r == [turns[j] EXCEPT !.status = status, !.error = "other"]
  <2>1. turns' = [turns EXCEPT ![j] = r] /\ r \in TurnRows
    BY <1>2, <1>5, SetTurnShape DEF RowOf
  <2>2. Advanced(e, j)
    BY <1>2, <1>5, <2>1 DEF Advanced, TurnRows
  <2> QED
    BY <1>2, <1>4, <1>5, <2>1, <2>2 DEF TurnRows
<1>6. CASE ResumeClaim(e)
  <2>1. At(e, "resume") /\ Step(e).turn # 0
    BY <1>6 DEF ResumeClaim, Working, At
  <2>2. CASE turns[j].status = "running"
    <3>1. j \in Begun
      BY <1>1, <2>1, LinkedKey
    <3>2. CASE /\ Return(e, FALSE)
               /\ \E status \in {"failed", "superseded"} : SetTurn(j, status, "other")
      <4>1. exec'[e].pc # exec[e].pc
        BY <2>1, <3>2, ReturnMoves DEF At
      <4> QED
        BY <1>5, <2>2, <3>1, <3>2, <4>1
    <3>3. CASE /\ turns' = [turns EXCEPT ![j].resumes = @ + 1]
               /\ turns[j].resumes < MaxResumes /\ Goto(e, "resumed")
      <4> DEFINE r == [turns[j] EXCEPT !.resumes = @ + 1]
      <4>1. turns[j].resumes \in 0..MaxResumes
        BY <1>2, <3>1 DEF TurnRows
      <4>2. turns[j].resumes + 1 \in 0..MaxResumes
        BY <3>3, <4>1, Bounds
      <4>3. r \in TurnRows
        BY <1>2, <3>1, <4>2 DEF TurnRows
      <4>4. turns' = [turns EXCEPT ![j] = r]
        BY <3>3
      <4>5. Advanced(e, j)
        BY <1>2, <2>2, <3>1, <4>4 DEF Advanced, TurnRows
      <4>6. exec'[e].pc # exec[e].pc
        BY <2>1, <3>3, GotoMoves DEF At, Places, InTurn
      <4> QED
        BY <1>2, <1>4, <3>1, <4>3, <4>4, <4>5, <4>6 DEF TurnRows
    <3> QED
      BY <1>3, <1>6, <3>2, <3>3 DEF ResumeClaim
  <2> QED
    BY <1>3, <1>6, <2>2 DEF ResumeClaim
<1>7. ASSUME FailTurn(j, "other"), exec'[e].pc # exec[e].pc, j \in Begun,
             turns[j].status = "running"
      PROVE  Written(k)
  BY <1>5, <1>7 DEF FailTurn, SetTurn
<1>8. CASE ResumeCheck(e)
  <2>1. j \in Begun /\ turns[j].status = "running" /\ At(e, "resumed")
    BY <1>8 DEF ResumeCheck, Working, Turn, At, InTurn
  <2>2. CASE FailTurn(j, "other") /\ Return(e, FALSE)
    <3>1. exec'[e].pc # exec[e].pc
      BY <2>1, <2>2, ReturnMoves DEF At
    <3> QED
      BY <1>7, <2>1, <2>2, <3>1
  <2> QED
    BY <1>3, <1>8, <2>2 DEF ResumeCheck
<1>9. CASE e = Poller /\ LinkTurn
  <2>1. j \in Begun /\ turns[j].status = "running" /\ At(e, "link")
    BY <1>9 DEF LinkTurn, Working, Turn, At
  <2>2. CASE FailTurn(j, "other") /\ Interrupted
    <3>1. exec'[e].pc # exec[e].pc
      BY <1>9, <2>1, <2>2 DEF At, Interrupted, TypeOK, Frames
    <3> QED
      BY <1>7, <2>1, <2>2, <3>1
  <2> QED
    BY <1>3, <1>9, <2>2 DEF LinkTurn
<1> QED
  BY <1>6, <1>8, <1>9

LEMMA DecideWritten ==
    ASSUME TypeOK, StepsAgree, Holding, Working, NEW yes \in BOOLEAN, Decide(yes), NEW k \in Keys
    PROVE  Written(k)
<1> DEFINE j == Key(Desk)
<1>1. At(Desk, "deciding") /\ turns \in [Keys -> TurnRows] /\ exec[Desk].pc \in Locked
  BY DEF Decide, TypeOK, At, Locked
<1>2. j \in Begun /\ j \in Keys /\ turns[j] \in TurnRows
  BY <1>1, Bounds, LinkedKey DEF Working, At, TypeOK, Begun
<1>3. ASSUME NEW r \in TurnRows, turns' = [turns EXCEPT ![j] = r], r.step = turns[j].step,
             r.status # "none", Answer(j), exec'[Desk].pc # "deciding"
      PROVE  Written(k)
  <2>1. CASE k = j
    BY <1>1, <1>2, <1>3, <2>1, Bounds DEF Written, Moved, At, Locked
  <2>2. CASE k # j
    BY <1>1, <1>3, <2>2, SameWritten
  <2> QED
    BY <2>1, <2>2
<1>4. CASE /\ turns[j].approval = "pending"
           /\ turns' = [turns EXCEPT ![j].status = "running", ![j].approval = "decided",
                                     ![j].refused = ~yes]
           /\ Goto(Desk, "loop")
  <2> DEFINE r == [turns[j] EXCEPT !.status = "running", !.approval = "decided", !.refused = ~yes]
  <2>1. r \in TurnRows
    BY <1>2 DEF TurnRows
  <2>2. turns' = [turns EXCEPT ![j] = r]
    BY <1>1, <1>2, <1>4 DEF TurnRows
  <2>3. Answer(j)
    <3>1. turns'[j] = r
      BY <1>1, <1>2, <2>2
    <3>2. /\ turns'[j].status = "running" /\ turns'[j].approval = "decided"
          /\ turns'[j].open = turns[j].open
      BY <1>2, <3>1 DEF TurnRows
    <3> QED
      BY <1>4, <3>2 DEF Answer
  <2>4. exec'[Desk].pc # "deciding"
    BY <1>4, GotoMoves, Bounds DEF Places, InTurn
  <2> QED
    BY <1>2, <1>3, <2>1, <2>2, <2>3, <2>4 DEF TurnRows
<1>5. CASE /\ turns[j].approval = "stale"
           /\ turns' = [turns EXCEPT ![j].status = "failed", ![j].error = "approval_expired",
                                     ![j].approval = "decided"]
           /\ Leave(Desk)
  <2> DEFINE r == [turns[j] EXCEPT !.status = "failed", !.error = "approval_expired",
                                   !.approval = "decided"]
  <2>1. r \in TurnRows
    BY <1>2 DEF TurnRows
  <2>2. turns' = [turns EXCEPT ![j] = r]
    BY <1>1, <1>2, <1>5 DEF TurnRows
  <2>3. Answer(j)
    <3>1. turns'[j] = r
      BY <1>1, <1>2, <2>2
    <3>2. /\ turns'[j].status = "failed" /\ turns'[j].approval = "decided"
          /\ turns'[j].open = turns[j].open
      BY <1>2, <3>1 DEF TurnRows
    <3> QED
      BY <1>5, <3>2 DEF Answer
  <2>4. exec'[Desk].pc # "deciding"
    BY <1>5, Bounds DEF Leave, Away, TypeOK
  <2> QED
    BY <1>2, <1>3, <2>1, <2>2, <2>3, <2>4 DEF TurnRows
<1> QED
  BY <1>4, <1>5 DEF Decide

LEMMA StopTurnWritten ==
    ASSUME TypeOK, StepsAgree, Holding, StopTurn, NEW k \in Keys
    PROVE  Written(k)
<1> DEFINE s == Sid(Poller)  j == TurnOf(s)
<1>1. /\ At(Poller, "stopping") /\ s \in Existing
      /\ turns' = turns \/ (j # 0 /\ turns' = [turns EXCEPT ![j] = Closed(j)])
  BY HeldType, Bounds DEF StopTurn, At, Locked
<1>2. turns \in [Keys -> TurnRows]
  BY DEF TypeOK
<1>3. CASE turns' = turns
  BY <1>3, SameWritten
<1>4. CASE j # 0 /\ turns' = [turns EXCEPT ![j] = Closed(j)]
  <2>1. j \in Begun /\ j \in Keys /\ turns[j] \in TurnRows /\ turns[j].status # "none"
    BY <1>1, <1>2, <1>4 DEF TurnOf, StepsAgree, Begun
  <2>2. Closed(j).step = turns[j].step /\ Closed(j).status # "none"
    BY <2>1 DEF Closed, TurnRows
  <2>3. exec'[Poller].pc # "stopping"
    <3>1. exec' = [exec EXCEPT ![Poller] = exec'[Poller]] /\ exec'[Poller].pc = "stopped"
      BY Bounds DEF StopTurn, TypeOK, Frames
    <3> QED
      BY <3>1
  <2>4. CASE k = j
    BY <1>1, <1>2, <1>4, <2>1, <2>2, <2>3, <2>4 DEF Written, Moved
  <2>5. CASE k # j
    BY <1>2, <1>4, <2>5, SameWritten
  <2> QED
    BY <2>4, <2>5
<1> QED
  BY <1>1, <1>3, <1>4

\* In every step of the system, a turn moves on or is opened as it should.
LEMMA TurnsWritten ==
    ASSUME TypeOK, OwnKeys, StepsAgree, Holding, Working, Next, NEW k \in Keys
    PROVE  Written(k)
<1>1. CASE UNCHANGED turns
  BY <1>1, SameWritten
<1>2. CASE BeginTurn \/ \E l \in late : LateCommit(l)
  BY <1>1, <1>2, Openings, OpenedShape, SameWritten DEF Written
<1>3. ASSUME NEW j \in Keys, ApprovalAges(j) PROVE Written(k)
  <2>1. turns \in [Keys -> TurnRows] /\ turns[j] \in TurnRows
    BY DEF TypeOK
  <2>2. turns' = [turns EXCEPT ![j] = [turns[j] EXCEPT !.approval = "stale"]]
    BY <1>3 DEF ApprovalAges
  <2>3. CASE k = j
    <3>1. turns'[k] = [turns[k] EXCEPT !.approval = "stale"] /\ turns[k].approval = "pending"
      BY <1>3, <2>1, <2>2, <2>3 DEF ApprovalAges
    <3>2. turns'[k].step = turns[k].step /\ turns'[k].status = turns[k].status
      BY <2>1, <2>3, <3>1 DEF TurnRows
    <3> QED
      BY <3>1, <3>2 DEF Written, Moved, Begun
  <2>4. CASE k # j
    BY <2>1, <2>2, <2>4, SameWritten
  <2> QED
    BY <2>3, <2>4
<1> QED
  BY <1>1, <1>2, <1>3, Bounds, TurnWriters, StopTurnWritten, ContinueWritten, RunTurnWritten,
     DecideWritten DEF WritesTurns

-----------------------------------------------------------------------------
(* What becomes of an executor.                                             *)

Busy == Locked \cup {"settle", "close"}

\* One executor moves; it alone takes the conversation, or lets go of its own.
Mover(e) ==
    /\ \A d \in Executors : d # e => exec'[d] = exec[d]
    /\ lock' = lock \/ (lock = e /\ lock' = NoOne) \/ (lock = NoOne /\ lock' = e)
    /\ exec[e].pc \in Busy => exec'[e] # exec[e]

\* Still at work on its step, at another place.
Stays(e, pc) ==
    /\ \A d \in Executors : d # e => exec'[d] = exec[d]
    /\ exec'[e].pc = pc /\ exec'[e].step = exec[e].step /\ lock' = lock

\* Done with its step.
Parts(e) ==
    /\ \A d \in Executors : d # e => exec'[d] = exec[d]
    /\ exec'[e].pc \in {"idle", "stops", "turns", "steps"} /\ (e = Desk => exec'[e].pc = "idle")
    /\ lock' = NoOne \/ lock' = lock

LEMMA FrameShape ==
    ASSUME TypeOK, NEW e \in Executors, NEW f, exec' = [exec EXCEPT ![e] = f]
    PROVE  /\ exec'[e] = f
           /\ \A d \in Executors : d # e => exec'[d] = exec[d]
BY DEF TypeOK

LEMMA GotoShape ==
    ASSUME TypeOK, NEW e \in Executors, NEW pc, Goto(e, pc), UNCHANGED lock
    PROVE  Stays(e, pc) /\ exec'[e] = [exec[e] EXCEPT !.pc = pc]
<1>1. exec[e] \in Frames
  BY DEF TypeOK
<1>2. exec'[e] = [exec[e] EXCEPT !.pc = pc] /\ \A d \in Executors : d # e => exec'[d] = exec[d]
  BY FrameShape DEF Goto
<1> QED
  BY <1>1, <1>2 DEF Stays, Frames

LEMMA ReturnGoes ==
    ASSUME TypeOK, NEW e \in Executors, NEW raised \in BOOLEAN, Return(e, raised)
    PROVE  \/ e = Desk /\ Parts(e)
           \/ e = Poller /\ (Stays(e, "outcome") \/ Stays(e, "recover"))
<1>1. exec[e] \in Frames
  BY DEF TypeOK
<1>2. /\ Away.pc = "idle"
      /\ [exec[e] EXCEPT !.pc = "outcome"].pc = "outcome"
      /\ [exec[e] EXCEPT !.pc = "outcome"].step = exec[e].step
      /\ [exec[e] EXCEPT !.pc = "recover", !.why = "failed"].pc = "recover"
      /\ [exec[e] EXCEPT !.pc = "recover", !.why = "failed"].step = exec[e].step
  BY <1>1 DEF Away, Frames
<1>3. CASE e = Desk /\ lock' = NoOne /\ exec' = [exec EXCEPT ![e] = Away]
  BY <1>2, <1>3, FrameShape DEF Parts
<1>4. ASSUME NEW f, f.step = exec[e].step, NEW pc, f.pc = pc,
             exec' = [exec EXCEPT ![e] = f], lock' = lock
      PROVE  Stays(e, pc)
  BY <1>4, FrameShape DEF Stays
<1> QED
  BY <1>2, <1>3, <1>4, ReturnShape

LEMMA InterruptedGoes ==
    ASSUME TypeOK, Interrupted, UNCHANGED lock
    PROVE  Stays(Poller, "recover")
<1>1. exec[Poller] \in Frames
  BY Bounds DEF TypeOK
<1>2. exec' = [exec EXCEPT ![Poller] = [exec[Poller] EXCEPT !.pc = "recover", !.why = "failed"]]
  BY <1>1 DEF Interrupted, TypeOK, Frames
<1>3. exec'[Poller] = [exec[Poller] EXCEPT !.pc = "recover", !.why = "failed"]
  BY <1>2, Bounds, FrameShape
<1>4. exec'[Poller].pc = "recover" /\ exec'[Poller].step = exec[Poller].step
  BY <1>1, <1>3 DEF Frames
<1> QED
  BY <1>2, <1>4, Bounds, FrameShape DEF Stays

LEMMA NextCandidateGoes ==
    ASSUME TypeOK, NextCandidate
    PROVE  Parts(Poller) /\ lock' = NoOne /\ UNCHANGED poll
<1> DEFINE f == [Away EXCEPT !.pc = IF exec[Poller].why = "stops" THEN "stops" ELSE "turns"]
<1>1. f.pc \in {"stops", "turns"}
  BY DEF Away
<1>2. exec' = [exec EXCEPT ![Poller] = f]
  BY DEF NextCandidate
<1> HIDE DEF f
<1> QED
  BY <1>1, <1>2, Bounds, FrameShape DEF NextCandidate, Parts

LEMMA RunOverGoes ==
    ASSUME TypeOK, RunOver
    PROVE  /\ Parts(Poller) /\ exec'[Poller].pc = "steps"
           /\ lock' = IF lock = Poller THEN NoOne ELSE lock
<1>1. [Away EXCEPT !.pc = "steps"].pc = "steps"
  BY DEF Away
<1> QED
  BY <1>1, Bounds, FrameShape DEF RunOver, Parts

LEMMA AbortCycleGoes ==
    ASSUME TypeOK, AbortCycle
    PROVE  Parts(Poller) /\ lock' = NoOne
<1>1. Away.pc = "idle"
  BY DEF Away
<1> QED
  BY <1>1, Bounds, FrameShape DEF AbortCycle, Parts

\* After a write the job settles the plan, with the conversation, or its run is over.
LEMMA ContinueGoes ==
    ASSUME TypeOK, Continue, lock = Poller
    PROVE  \/ /\ Stays(Poller, "settle") /\ exec'[Poller].why = exec[Poller].why
              /\ exec[Poller].why \in {"turns", "resumed"}
           \/ Parts(Poller) /\ lock' = NoOne
<1>1. CASE Reconciling
  <2>1. Stays(Poller, "settle") /\ exec'[Poller] = [exec[Poller] EXCEPT !.pc = "settle"]
    BY <1>1, Bounds, GotoShape DEF Continue, AfterReconcile
  <2>2. exec[Poller] \in Frames
    BY Bounds DEF TypeOK
  <2> QED
    BY <1>1, <2>1, <2>2 DEF Frames, Reconciling
<1> QED
  BY <1>1, RunOverGoes DEF Continue

LEMMA StaysMover ==
    ASSUME NEW e, NEW pc, Stays(e, pc), exec[e].pc \in Busy => pc # exec[e].pc
    PROVE  Mover(e)
BY DEF Stays, Mover

LEMMA PartsMover ==
    ASSUME NEW e \in Executors, Parts(e), lock = e \/ lock' = lock
    PROVE  Mover(e)
BY DEF Parts, Mover, Busy, Locked, InTurn

\* The executor that writes about a step has the conversation.
LEMMA Holder ==
    ASSUME Holding, NEW e \in Executors, exec[e].pc \in Locked
    PROVE  lock = e /\ Sid(e) \in Existing /\ ~Step(e).stopped
BY DEF Holding

\* In a turn: another boundary, or out of it.
LEMMA RunTurnGoes ==
    ASSUME TypeOK, NEW e \in Executors, RunTurn(e)
    PROVE  /\ exec[e].pc \in InTurn
           /\ \/ e = Desk /\ Parts(e)
              \/ e = Poller /\ (Stays(e, "outcome") \/ Stays(e, "recover"))
              \/ At(e, "loop") /\ Stays(e, "reserved") /\ Reserve(e)
              \/ At(e, "reserved") /\ Stays(e, "acting") /\ Dispatch(e)
              \/ At(e, "acting") /\ Stays(e, "loop") /\ Answered(e)
<1>1. CASE Stopped(e)
  BY <1>1, ReturnGoes DEF Stopped, InTurn
<1>2. CASE Reserve(e)
  BY <1>2, GotoShape DEF Reserve, At, InTurn
<1>3. CASE Dispatch(e)
  BY <1>3, GotoShape DEF Dispatch, At, InTurn
<1>4. CASE Answered(e)
  BY <1>4, GotoShape DEF Answered, At, InTurn
<1>5. CASE Uncertain(e)
  BY <1>5, ReturnGoes DEF Uncertain, At, InTurn
<1>6. CASE AskApproval(e)
  BY <1>6, ReturnGoes DEF AskApproval, At, InTurn
<1>7. ASSUME NEW status \in {"done", "failed"}, Finish(e, status)
      PROVE  exec[e].pc \in InTurn /\ (\/ e = Desk /\ Parts(e)
                                       \/ e = Poller /\ (Stays(e, "outcome") \/ Stays(e, "recover")))
  BY <1>7, ReturnGoes DEF Finish, At, InTurn
<1> QED
  BY <1>1, <1>2, <1>3, <1>4, <1>5, <1>6, <1>7 DEF RunTurn

LEMMA ContinuationGoes ==
    ASSUME TypeOK, NEW e \in Executors, ResumeClaim(e) \/ ResumeCheck(e)
    PROVE  \/ /\ At(e, "resume") /\ Stays(e, "resumed") /\ UNCHANGED steps
              /\ turns[Key(e)].status = "running"
              /\ turns' = [turns EXCEPT ![Key(e)].resumes = @ + 1]
           \/ /\ At(e, "resumed") /\ Stays(e, "loop")
              /\ ~turns[Key(e)].open /\ UNCHANGED turns
           \/ /\ exec[e].pc \in {"resume", "resumed"}
              /\ \/ e = Desk /\ Parts(e)
                 \/ e = Poller /\ (Stays(e, "outcome") \/ Stays(e, "recover"))
<1>1. CASE ResumeClaim(e)
  <2>1. CASE Return(e, FALSE)
    BY <1>1, <2>1, ReturnGoes DEF ResumeClaim, At
  <2>2. CASE Goto(e, "resumed") /\ UNCHANGED lock /\ turns[Key(e)].status = "running"
             /\ turns' = [turns EXCEPT ![Key(e)].resumes = @ + 1]
    BY <1>1, <2>2, GotoShape DEF ResumeClaim, OnlyTurn
  <2> QED
    BY <1>1, <2>1, <2>2 DEF ResumeClaim
<1>2. CASE ResumeCheck(e)
  BY <1>2, GotoShape, ReturnGoes DEF ResumeCheck, At
<1> QED
  BY <1>1, <1>2

LEMMA DecideGoes ==
    ASSUME TypeOK, NEW yes \in BOOLEAN, Decide(yes)
    PROVE  /\ At(Desk, "deciding")
           /\ \/ /\ Stays(Desk, "loop") /\ turns[Key(Desk)].approval = "pending"
                 /\ turns' = [turns EXCEPT ![Key(Desk)].status = "running",
                                           ![Key(Desk)].approval = "decided",
                                           ![Key(Desk)].refused = ~yes]
              \/ Parts(Desk)
<1>1. CASE Goto(Desk, "loop") /\ UNCHANGED lock /\ turns[Key(Desk)].approval = "pending"
           /\ turns' = [turns EXCEPT ![Key(Desk)].status = "running",
                                     ![Key(Desk)].approval = "decided",
                                     ![Key(Desk)].refused = ~yes]
  BY <1>1, Bounds, GotoShape DEF Decide
<1>2. CASE Leave(Desk)
  <2>1. Away.pc = "idle"
    BY DEF Away
  <2> QED
    BY <1>2, <2>1, Bounds, FrameShape DEF Decide, Leave, Parts
<1> QED
  BY <1>1, <1>2 DEF Decide

\* The job with a step in its hands.
LEMMA StopTurnGoes ==
    ASSUME TypeOK, StopTurn
    PROVE  /\ Stays(Poller, "stopped") /\ exec'[Poller].turn = TurnOf(Sid(Poller))
           /\ exec'[Poller].verdict =
                IF Step(Poller).state = "needs_review" THEN "needs_review"
                ELSE IF TurnOf(Sid(Poller)) = 0
                     THEN IF Step(Poller).state = "done" THEN "done" ELSE "failed"
                     ELSE IF NeedsReview(TurnOf(Sid(Poller))) THEN "needs_review"
                          ELSE IF Completed(TurnOf(Sid(Poller))) THEN "done" ELSE "failed"
<1> DEFINE k == TurnOf(Sid(Poller))
           v == CASE Step(Poller).state = "needs_review"           -> "needs_review"
                  [] Step(Poller).state # "needs_review" /\ k = 0   ->
                       IF Step(Poller).state = "done" THEN "done" ELSE "failed"
                  [] Step(Poller).state # "needs_review" /\ k # 0   ->
                       IF NeedsReview(k) THEN "needs_review"
                       ELSE IF Completed(k) THEN "done" ELSE "failed"
           w == IF Step(Poller).state = "needs_review" THEN "needs_review"
                ELSE IF k = 0 THEN IF Step(Poller).state = "done" THEN "done" ELSE "failed"
                     ELSE IF NeedsReview(k) THEN "needs_review"
                          ELSE IF Completed(k) THEN "done" ELSE "failed"
<1>1. v = w
  <2>1. CASE Step(Poller).state = "needs_review"
    BY <2>1
  <2>2. CASE Step(Poller).state # "needs_review" /\ k = 0
    BY <2>2
  <2>3. CASE Step(Poller).state # "needs_review" /\ k # 0
    BY <2>3
  <2> QED
    BY <2>1, <2>2, <2>3
<1>2. exec' = [exec EXCEPT ![Poller].pc = "stopped", ![Poller].turn = k, ![Poller].verdict = v]
  BY DEF StopTurn, Step
<1>3. exec[Poller] \in Frames /\ exec \in [Executors -> Frames]
  BY Bounds DEF TypeOK
<1> HIDE DEF k, v, w
<1>4. exec' = [exec EXCEPT ![Poller] =
                  [exec[Poller] EXCEPT !.pc = "stopped", !.turn = k, !.verdict = v]]
  BY <1>2, <1>3 DEF Frames
<1>5. exec'[Poller] = [exec[Poller] EXCEPT !.pc = "stopped", !.turn = k, !.verdict = v]
  BY <1>4, Bounds, FrameShape
<1>6. /\ exec'[Poller].pc = "stopped" /\ exec'[Poller].step = exec[Poller].step
      /\ exec'[Poller].turn = k /\ exec'[Poller].verdict = v
  BY <1>3, <1>5 DEF Frames
<1>7. Stays(Poller, "stopped")
  BY <1>4, <1>6, Bounds, FrameShape DEF Stays, StopTurn
<1> QED
  BY <1>1, <1>6, <1>7 DEF k, w

\* An abandoned turn: left where it is, or continued once more.
LEMMA ResumeGoes ==
    ASSUME TypeOK, Resume
    PROVE  /\ At(Poller, "outcome")
           /\ \/ Parts(Poller) /\ lock' = NoOne
              \/ /\ Stays(Poller, "resume") \/ Stays(Poller, "outcome")
                 /\ exec'[Poller] # exec[Poller] /\ UNCHANGED steps
<1>1. CASE NextCandidate
  BY <1>1, NextCandidateGoes DEF Resume
<1>2. CASE /\ exec' = [exec EXCEPT ![Poller].why = "resumed",
                         ![Poller].pc = IF Authorized(Poller) THEN "resume" ELSE "outcome"]
           /\ UNCHANGED <<steps, lock>>
  <2> DEFINE pc == IF Authorized(Poller) THEN "resume" ELSE "outcome"
  <2>1. exec[Poller] \in Frames /\ pc \in {"resume", "outcome"}
    BY Bounds DEF TypeOK
  <2>2. exec' = [exec EXCEPT ![Poller].why = "resumed", ![Poller].pc = pc]
    BY <1>2
  <2> HIDE DEF pc
  <2>3. exec' = [exec EXCEPT ![Poller] = [exec[Poller] EXCEPT !.why = "resumed", !.pc = pc]]
    BY <2>1, <2>2 DEF TypeOK, Frames
  <2>4. exec'[Poller] = [exec[Poller] EXCEPT !.why = "resumed", !.pc = pc]
    BY <2>3, Bounds, FrameShape
  <2>5. /\ exec'[Poller].pc = pc /\ exec'[Poller].step = exec[Poller].step
        /\ exec'[Poller].why = "resumed"
    BY <2>1, <2>4 DEF Frames
  <2>6. Stays(Poller, pc)
    BY <1>2, <2>3, <2>5, Bounds, FrameShape DEF Stays
  <2> QED
    BY <1>2, <2>1, <2>5, <2>6 DEF Resume
<1> QED
  BY <1>1, <1>2 DEF Resume

LEMMA AfterSettleGoes ==
    ASSUME TypeOK, Holding, exec[Poller].pc \in {"settle", "close"}, AfterSettle
    PROVE  Parts(Poller) /\ (lock' = lock \/ lock = Poller)
<1>1. CASE exec[Poller].why = "settle"
  <2>1. Away.pc = "idle"
    BY DEF Away
  <2> QED
    BY <1>1, <2>1, Bounds, FrameShape DEF AfterSettle, Parts
<1>2. CASE exec[Poller].why # "settle"
  BY <1>2, Bounds, NextCandidateGoes DEF AfterSettle, Holding
<1> QED
  BY <1>1, <1>2

\* The job between two steps, or at work on one.
LEMMA JobMoves ==
    ASSUME TypeOK, RowsAgree, Holding,
           \/ Recover \/ RetryUnstarted \/ Apply \/ SettleRead \/ SettleWrite \/ AckStop
           \/ BeginCheck \/ RejectInput \/ BeginTurn \/ LinkTurn
    PROVE  Mover(Poller)
<1>1. CASE Recover
  <2>1. At(Poller, "recover") /\ lock = Poller
    BY <1>1, Bounds, Holder DEF Recover, At, Locked
  <2>2. \/ \E pc \in {"outcome", "retry"} : Goto(Poller, pc) /\ UNCHANGED lock
        \/ NextCandidate \/ AbortCycle
    BY <1>1 DEF Recover
  <2>3. ASSUME NEW pc \in {"outcome", "retry"}, Goto(Poller, pc), UNCHANGED lock
        PROVE  Mover(Poller)
    BY <2>1, <2>3, Bounds, GotoShape, StaysMover DEF At
  <2> QED
    BY <2>1, <2>2, <2>3, Bounds, NextCandidateGoes, AbortCycleGoes, PartsMover
<1>2. CASE RetryUnstarted \/ Apply
  <2>1. exec[Poller].pc \in {"retry", "outcome"} /\ lock = Poller /\ Continue
    BY <1>2, Bounds, Holder DEF RetryUnstarted, Apply, At, Locked
  <2> QED
    BY <2>1, Bounds, ContinueGoes, StaysMover, PartsMover
<1>3. CASE SettleRead
  <2>1. At(Poller, "settle")
    BY <1>3 DEF SettleRead
  <2>2. CASE AfterSettle
    BY <2>1, <2>2, Bounds, AfterSettleGoes, PartsMover DEF At
  <2>3. CASE ~AfterSettle
    <3> DEFINE v == IF \E s \in Existing : steps[s].state = "done" THEN "done" ELSE "failed"
    <3>1. exec' = [exec EXCEPT ![Poller].pc = "close", ![Poller].verdict = v] /\ UNCHANGED lock
      BY <1>3, <2>3 DEF SettleRead
    <3>2. exec[Poller] \in Frames
      BY Bounds DEF TypeOK
    <3> HIDE DEF v
    <3>3. exec' = [exec EXCEPT ![Poller] = [exec[Poller] EXCEPT !.pc = "close", !.verdict = v]]
      BY <3>1, <3>2 DEF TypeOK, Frames
    <3>4. exec'[Poller] = [exec[Poller] EXCEPT !.pc = "close", !.verdict = v]
      BY <3>3, Bounds, FrameShape
    <3>5. exec'[Poller].pc = "close"
      BY <3>2, <3>4 DEF Frames
    <3> QED
      BY <2>1, <3>1, <3>3, <3>5, Bounds, FrameShape DEF Mover, At
  <2> QED
    BY <2>2, <2>3
<1>4. CASE SettleWrite
  BY <1>4, Bounds, AfterSettleGoes, PartsMover DEF SettleWrite, At
<1>5. CASE AckStop
  BY <1>5, Bounds, Holder, NextCandidateGoes, PartsMover DEF AckStop, At, Locked
<1>6. CASE BeginCheck
  BY <1>6, Bounds, GotoShape, InterruptedGoes, StaysMover DEF BeginCheck, At
<1>7. CASE RejectInput
  BY <1>7, Bounds, Holder, RunOverGoes, PartsMover DEF RejectInput, At, Locked
<1>8. CASE BeginTurn
  BY <1>8, Bounds, GotoShape, InterruptedGoes, StaysMover DEF BeginTurn, At
<1>9. CASE LinkTurn
  BY <1>9, Bounds, GotoShape, InterruptedGoes, StaysMover DEF LinkTurn, At
<1> QED
  BY <1>1, <1>2, <1>3, <1>4, <1>5, <1>6, <1>7, <1>8, <1>9

LEMMA PassMoves ==
    ASSUME TypeOK, RowsAgree, Holding,
           \/ SettleStage \/ BeginSteps \/ Summarize \/ SetSummary \/ EndPass("steps")
           \/ \E op \in {"stops", "turns"} : BeginPass(op) \/ EndPass(op)
           \/ \E s \in StepIds : \/ TakeUp("stops", s, "stopping")
                                 \/ TakeUp("turns", s, "recover") \/ ClaimStep(s)
    PROVE  Mover(Poller) \/ UNCHANGED <<exec, lock>>
<1>0. ASSUME NEW f, exec' = [exec EXCEPT ![Poller] = f], exec[Poller].pc \notin Busy,
             lock' = lock \/ (lock = NoOne /\ lock' = Poller)
      PROVE  Mover(Poller)
  BY <1>0, Bounds, FrameShape DEF Mover
<1>1. ASSUME NEW pc, Goto(Poller, pc), UNCHANGED lock, exec[Poller].pc \notin Busy
      PROVE  Mover(Poller)
  BY <1>0, <1>1 DEF Goto
<1> USE DEF Busy, Locked, InTurn, At, Stage
<1>2. CASE SettleStage
  BY <1>0, <1>2 DEF SettleStage
<1>3. CASE BeginSteps \/ Summarize
  BY <1>1, <1>3 DEF BeginSteps, Summarize
<1>4. CASE SetSummary
  BY <1>1, <1>4 DEF SetSummary
<1>5. ASSUME NEW op \in {"stops", "turns", "steps"}, BeginPass(op) \/ EndPass(op)
      PROVE  Mover(Poller) \/ UNCHANGED <<exec, lock>>
  BY <1>1, <1>5 DEF BeginPass, EndPass
<1>6. ASSUME NEW s \in StepIds, NEW op \in {"stops", "turns"},
             NEW pc \in {"stopping", "recover"}, TakeUp(op, s, pc)
      PROVE  Mover(Poller)
  BY <1>0, <1>6 DEF TakeUp
<1>7. ASSUME NEW s \in StepIds, ClaimStep(s)
      PROVE  Mover(Poller)
  <2>1. CASE RunOver
    <3>1. exec[Poller].pc \notin Busy
      BY <1>7 DEF ClaimStep
    <3> QED
      BY <2>1, Bounds, RunOverGoes DEF Mover, Parts
  <2>2. ASSUME NEW k \in Keys, Claimed(s, k) PROVE Mover(Poller)
    BY <1>0, <1>7, <2>2 DEF Claimed, ClaimStep
  <2> QED
    BY <1>7, <2>1, <2>2, ClaimShape
<1> QED
  BY <1>2, <1>3, <1>4, <1>5, <1>6, <1>7

LEMMA CrashMoves ==
    ASSUME TypeOK, NEW e \in Executors, Crash(e)
    PROVE  Mover(e) /\ exec'[e] = Away
<1>1. /\ exec'[e] = Away /\ \A d \in Executors : d # e => exec'[d] = exec[d]
  BY FrameShape DEF Crash
<1>2. Away.pc = "idle"
  BY DEF Away
<1>3. exec[e].pc \in Busy => exec'[e] # exec[e]
  BY <1>1, <1>2 DEF Busy, Locked, InTurn
<1> QED
  BY <1>1, <1>3 DEF Mover, Crash, Freed

\* In every step at most one executor moves.
LEMMA Movers ==
    ASSUME TypeOK, RowsAgree, StepsAgree, Holding, Next
    PROVE  UNCHANGED <<exec, lock>> \/ \E e \in Executors : Mover(e)
<1>1. ASSUME NEW e \in Executors, RunTurn(e) PROVE Mover(e)
  <2>1. exec[e].pc \in InTurn /\ lock = e
    BY <1>1, Holder, RunTurnGoes DEF Locked
  <2> QED
    BY <1>1, <2>1, RunTurnGoes, StaysMover, PartsMover DEF At, InTurn
<1>2. ASSUME NEW e \in Executors, ResumeClaim(e) \/ ResumeCheck(e) PROVE Mover(e)
  <2>1. exec[e].pc \in {"resume", "resumed"} /\ lock = e
    BY <1>2, Holder DEF ResumeClaim, ResumeCheck, At, Locked, InTurn
  <2> QED
    BY <1>2, <2>1, ContinuationGoes, StaysMover, PartsMover DEF At
<1>3. ASSUME NEW yes \in BOOLEAN, Decide(yes) PROVE Mover(Desk)
  <2>1. lock = Desk /\ At(Desk, "deciding")
    BY <1>3, Bounds, Holder DEF Decide, At, Locked
  <2> QED
    BY <1>3, <2>1, Bounds, DecideGoes, StaysMover, PartsMover DEF At
<1>4. CASE StopTurn
  BY <1>4, Bounds, StopTurnGoes, StaysMover DEF StopTurn, At
<1>5. CASE Resume
  <2>1. lock = Poller /\ At(Poller, "outcome")
    BY <1>5, Bounds, Holder DEF Resume, At, Locked
  <2> QED
    BY <1>5, <2>1, Bounds, ResumeGoes, PartsMover DEF Stays, Mover
<1>6. ASSUME NEW s \in Existing, NEW pc, Sit(s, pc) PROVE Mover(Desk)
  BY <1>6, Bounds, FrameShape DEF Sit, Mover, At, Busy, Locked, InTurn
<1>7. CASE RunPoller
  <2>1. CASE Retire
    BY <2>1 DEF Retire
  <2>2. ASSUME NEW s \in StepIds, NEW v \in {"waiting", "pending", "failed"},
               Skip("stops", s) \/ Skip("turns", s) \/ CheckCondition(s, v)
        PROVE  UNCHANGED <<exec, lock>>
    BY <2>2 DEF Skip, CheckCondition
  <2>3. ASSUME NEW s \in StepIds, Skip("stops", s) \/ Skip("turns", s)
        PROVE  UNCHANGED <<exec, lock>>
    BY <2>3 DEF Skip
  <2> QED
    BY <1>1, <1>2, <1>4, <1>5, <1>7, <2>1, <2>2, <2>3, Bounds, JobMoves, PassMoves DEF RunPoller
<1>8. CASE RunDesk
  BY <1>1, <1>2, <1>3, <1>8, Bounds DEF RunDesk
<1>9. CASE Others
  <2>1. CASE \/ \E after \in SUBSET Existing : AddCheck(after)
             \/ \E waits \in BOOLEAN : AddInsert(waits)
             \/ CancelPlan \/ TimePasses
             \/ \E s \in Existing : ReleaseStep(s)
             \/ \E k \in Keys : ApprovalAges(k)
             \/ \E l \in late : LateCommit(l)
    BY <2>1 DEF AddCheck, AddInsert, CancelPlan, TimePasses, ReleaseStep, ApprovalAges,
         LateCommit
  <2>2. ASSUME NEW s \in Existing, DeskResume(s) \/ DeskApprove(s) PROVE Mover(Desk)
    BY <1>6, <2>2 DEF DeskResume, DeskApprove
  <2> QED
    BY <1>9, <2>1, <2>2, Bounds, CrashMoves DEF Others
<1> QED
  BY <1>7, <1>8, <1>9 DEF Next

\* Whoever holds the conversation of a step and does not move finds it, its
\* step and the turn of it as they were, but for an approval that got old.
LEMMA StillHeld ==
    ASSUME TypeOK, RowsAgree, StepsAgree, Holding, Next,
           NEW d \in Executors, exec[d].pc \in Busy, exec'[d] = exec[d], lock = d
    PROVE  lock' = d
BY Bounds, Movers DEF Mover, Executors

LEMMA StillWhoMoves ==
    ASSUME TypeOK, RowsAgree, StepsAgree, Holding, NEW d \in Executors, exec[d].pc \in Locked,
           exec'[d] = exec[d], NEW e \in Executors, exec[e].pc \in Locked, Mover(e)
    PROVE  FALSE
BY Holder DEF Mover, Busy

LEMMA StillStep ==
    ASSUME TypeOK, RowsAgree, StepsAgree, Holding, Working, Stopping, PlanAgrees, Next,
           NEW d \in Executors, exec[d].pc \in Locked, exec'[d] = exec[d]
    PROVE  LET s == Sid(d) IN
           /\ Sid(d)' = s /\ s \in Existing'
           /\ steps'[s].key = steps[s].key /\ steps'[s].turn = steps[s].turn
           /\ ~steps'[s].stopped
<1> DEFINE s == Sid(d)
<1>0. /\ s \in Existing /\ s \in StepIds /\ steps[s] \in StepRows /\ ~steps[s].stopped
      /\ steps \in [StepIds -> StepRows] /\ rows \in Nat /\ lock = d
      /\ Sid(d)' = s
  BY HeldType, Holder DEF Step, TypeOK, Sid
<1>1. Existing \subseteq Existing'
  BY StepsKept DEF Kept
<1> SUFFICES /\ steps'[s].key = steps[s].key /\ steps'[s].turn = steps[s].turn
             /\ ~steps'[s].stopped
  BY <1>0, <1>1
<1> HIDE DEF s
<1> DEFINE Same == /\ steps'[s].key = steps[s].key /\ steps'[s].turn = steps[s].turn
                   /\ ~steps'[s].stopped
<1>2. CASE UNCHANGED steps
  BY <1>0, <1>2
<1>3. ASSUME NEW t, NEW state, steps' = [steps EXCEPT ![t].state = state] PROVE Same
  BY <1>0, <1>3 DEF StepRows
<1>4. CASE Retire
  <2>1. ~(plan.state = "active" /\ NeverClaimed(s))
    <3>1. CASE exec[d].pc \in {"stopping", "stopped"}
      <4>1. d = Poller
        BY <3>1 DEF Holding, Executors, InTurn
      <4> QED
        BY <3>1, <4>1 DEF Stopping, PlanAgrees
    <3>2. CASE exec[d].pc \notin {"stopping", "stopped"}
      <4>1. steps[s].key # 0 \/ steps[s].turn # 0
        BY <3>2 DEF Working, Locked, Key, Step, s
      <4> QED
        BY <4>1 DEF NeverClaimed
    <3> QED
      BY <3>1, <3>2
  <2>2. steps'[s] = steps[s]
    BY <1>0, <1>4, <2>1 DEF Retire
  <2> QED
    BY <1>0, <2>2
<1>5. ASSUME \/ Recover \/ RetryUnstarted \/ Apply \/ AckStop \/ RejectInput \/ LinkTurn
             \/ Resume
      PROVE  Same
  <2>1. exec[Poller].pc \in Locked
    BY <1>5 DEF Recover, RetryUnstarted, Apply, AckStop, RejectInput, LinkTurn, Resume, At, Locked
  <2>2. CASE Resume
    <3>1. exec'[Poller] # exec[Poller]
      BY <2>1, <2>2, Bounds, ResumeGoes DEF Parts, Locked, InTurn
    <3>2. d # Poller /\ lock = Poller
      BY <1>0, <2>1, <3>1, Bounds, Holder
    <3> QED
      BY <1>0, <3>2
  <2> QED
    BY <1>5, <2>1, <2>2, Bounds, JobMoves, StillWhoMoves
<1>6. ASSUME NEW t \in StepIds, ClaimStep(t) PROVE Same
  <2>1. ASSUME NEW k \in Keys PROVE ~Claimed(t, k)
    BY <1>0, Bounds DEF Claimed, Executors
  <2> QED
    BY <1>2, <1>6, <2>1, ClaimShape
<1>7. ASSUME NEW t \in StepIds, NEW v \in {"waiting", "pending", "failed"}, CheckCondition(t, v)
      PROVE  Same
  BY <1>2, <1>3, <1>7 DEF CheckCondition
<1>8. ASSUME NEW t \in Existing, ReleaseStep(t) PROVE Same
  BY <1>3, <1>8 DEF ReleaseStep
<1>9. ASSUME NEW e \in Executors, ResumeCheck(e) PROVE Same
  <2>1. steps'[s] = steps[s] \/ steps'[s] = [steps[s] EXCEPT !.state = "running"]
    BY <1>0, <1>9 DEF ResumeCheck
  <2> QED
    BY <1>0, <2>1 DEF StepRows
<1>10. ASSUME NEW waits \in BOOLEAN, AddInsert(waits) PROVE Same
  <2>1. s # rows + 1
    BY <1>0 DEF Existing
  <2>2. steps'[s] = steps[s]
    BY <1>0, <1>10, <2>1 DEF AddInsert
  <2> QED
    BY <1>0, <2>2
<1> QED
  BY <1>2, <1>4, <1>5, <1>6, <1>7, <1>8, <1>9, <1>10, StepWriters DEF WritesSteps

LEMMA StillTurn ==
    ASSUME TypeOK, RowsAgree, OwnKeys, StepsAgree, Holding, Working, Next,
           NEW d \in Executors, exec[d].pc \in Locked, exec'[d] = exec[d], NEW k \in Begun
    PROVE  /\ k \in Begun' /\ turns'[k].step = turns[k].step
           /\ turns'[k].status = turns[k].status /\ turns'[k].open = turns[k].open
           /\ turns'[k].refused = turns[k].refused
           /\ \/ turns'[k].approval = turns[k].approval
              \/ turns[k].approval = "pending" /\ turns'[k].approval = "stale"
<1>1. k \in Keys /\ turns[k] \in TurnRows
  BY DEF Begun, TypeOK
<1>2. Moved(k)
  BY <1>1, TurnsWritten DEF Written
<1>3. \A e \in Executors : exec[e].pc \in Locked => e = d
  BY Holder
<1>4. k \in Begun'
  BY <1>1, <1>2 DEF Moved, Begun
<1>5. CASE turns'[k] = turns[k]
  BY <1>4, <1>5
<1>6. CASE turns[k].approval = "pending" /\ turns'[k] = [turns[k] EXCEPT !.approval = "stale"]
  BY <1>1, <1>4, <1>6 DEF TurnRows
<1> QED
  BY <1>2, <1>3, <1>5, <1>6, Bounds DEF Moved, At, Locked

\* Two things stop a step: the expiry of its plan, if nothing ever ran, and the
\* end of stop cleanup.
LEMMA StoppedBy ==
    ASSUME TypeOK, RowsAgree, Holding, Next, NEW s \in Existing', steps'[s].stopped
    PROVE  /\ s \in Existing
           /\ \/ steps[s].stopped
              \/ Retire /\ NeverClaimed(s) /\ plan'.stop # "" /\ steps'[s].state = "failed"
              \/ AckStop /\ s = Sid(Poller)
<1>0. /\ steps \in [StepIds -> StepRows] /\ rows \in Nat
      /\ \A t \in Existing : t \in StepIds /\ steps[t] \in StepRows
  BY DEF TypeOK, Existing, StepIds
<1>1. ASSUME UNCHANGED rows PROVE s \in Existing /\ s \in StepIds /\ steps[s] \in StepRows
  BY <1>0, <1>1 DEF Existing
<1>2. CASE UNCHANGED <<steps, rows>>
  BY <1>1, <1>2
<1>3. ASSUME NEW t, NEW state, steps' = [steps EXCEPT ![t].state = state], UNCHANGED rows
      PROVE  s \in Existing /\ steps[s].stopped
  BY <1>0, <1>1, <1>3 DEF StepRows
<1>4. CASE Retire
  <2>1. UNCHANGED rows
    BY <1>4 DEF Retire, Unchanged
  <2>2. CASE plan.state = "active" /\ due /\ NeverClaimed(s)
    <3>1. plan'.stop = "plan_expired"
      BY <1>4, <2>2 DEF Retire, TypeOK, PlanRows
    <3>2. steps'[s] = [steps[s] EXCEPT !.state = "failed", !.stopped = TRUE]
      BY <1>0, <1>1, <1>4, <2>1, <2>2 DEF Retire
    <3>3. steps'[s].state = "failed"
      BY <1>1, <2>1, <3>2 DEF StepRows
    <3> QED
      BY <1>1, <1>4, <2>1, <2>2, <3>1, <3>3
  <2>3. CASE ~(plan.state = "active" /\ due /\ NeverClaimed(s))
    <3>1. steps'[s] = steps[s]
      BY <1>0, <1>1, <1>4, <2>1, <2>3 DEF Retire
    <3> QED
      BY <1>1, <2>1, <3>1
  <2> QED
    BY <2>2, <2>3
<1>5. CASE AckStop
  BY <1>0, <1>1, <1>5 DEF AckStop, Unchanged
<1>6. CASE Recover \/ LinkTurn
  <2>1. UNCHANGED <<steps, rows>> \/ /\ UNCHANGED rows
                                     /\ steps' = [steps EXCEPT ![Sid(Poller)].turn = Key(Poller)]
    BY <1>6 DEF Recover, LinkTurn, Unchanged
  <2>2. ASSUME NEW u, NEW n, steps' = [steps EXCEPT ![u].turn = n], UNCHANGED rows
        PROVE  s \in Existing /\ steps[s].stopped
    BY <1>0, <1>1, <2>2 DEF StepRows
  <2> QED
    BY <1>2, <2>1, <2>2
<1>7. CASE RetryUnstarted
  BY <1>2, <1>3, <1>7 DEF RetryUnstarted, Unstarted, Unchanged
<1>8. CASE Resume \/ RejectInput
  BY <1>2, <1>3, <1>8 DEF Resume, RejectInput, Unchanged
<1>9. CASE Apply
  BY <1>2, <1>3, <1>9 DEF Apply, Unchanged
<1>10. ASSUME NEW t \in StepIds, ClaimStep(t)
       PROVE  s \in Existing /\ steps[s].stopped
  <2>1. UNCHANGED rows
    BY <1>10 DEF ClaimStep, Unchanged
  <2>2. ASSUME NEW k \in Keys, Claimed(t, k) PROVE steps[s].stopped
    BY <1>0, <1>1, <2>1, <2>2 DEF Claimed, StepRows
  <2> QED
    BY <1>1, <1>2, <1>10, <2>1, <2>2, ClaimShape
<1>11. ASSUME NEW t \in StepIds, NEW v \in {"waiting", "pending", "failed"}, CheckCondition(t, v)
       PROVE  s \in Existing /\ steps[s].stopped
  BY <1>1, <1>2, <1>3, <1>11 DEF CheckCondition, Unchanged
<1>12. ASSUME NEW t \in Existing, ReleaseStep(t)
       PROVE  s \in Existing /\ steps[s].stopped
  BY <1>3, <1>12 DEF ReleaseStep
<1>13. ASSUME NEW e \in Executors, ResumeCheck(e)
       PROVE  s \in Existing /\ steps[s].stopped
  <2>1. s \in Existing /\ s \in StepIds /\ steps[s] \in StepRows
    BY <1>1, <1>13 DEF ResumeCheck
  <2>2. steps'[s] = steps[s] \/ steps'[s] = [steps[s] EXCEPT !.state = "running"]
    BY <1>0, <1>13, <2>1 DEF ResumeCheck
  <2> QED
    BY <2>1, <2>2 DEF StepRows
<1>14. ASSUME NEW waits \in BOOLEAN, AddInsert(waits)
       PROVE  s \in Existing /\ steps[s].stopped
  <2>1. rows' = rows + 1 /\ rows < MaxSteps
    BY <1>14 DEF AddInsert, RowsAgree
  <2>2. s = rows + 1 \/ (s \in Existing /\ rows + 1 # s)
    BY <1>0, <2>1 DEF Existing
  <2>3. CASE s = rows + 1
    <3>1. s \in StepIds
      BY <1>0, <2>1, <2>3, Bounds DEF StepIds
    <3> QED
      BY <1>0, <1>14, <2>3, <3>1 DEF AddInsert, NoStep
  <2>4. CASE s \in Existing /\ rows + 1 # s
    BY <1>0, <1>14, <2>4 DEF AddInsert
  <2> QED
    BY <2>2, <2>3, <2>4
<1> QED
  BY <1>2, <1>4, <1>5, <1>6, <1>7, <1>8, <1>9, <1>10, <1>11, <1>12, <1>13, <1>14, StepWriters
  DEF WritesSteps

-----------------------------------------------------------------------------
(* Whoever works on a step holds the conversation.                          *)

HoldsAt(d) ==
    /\ exec[d].pc \in Locked => lock = d /\ Sid(d) \in Existing /\ ~Step(d).stopped
    /\ exec[d].pc \in {"settle", "close"} =>
         /\ exec[d].why \in {"turns", "resumed", "settle"}
         /\ exec[d].why # "settle" => lock = d
    /\ d = Desk => exec[d].pc \in {"idle", "resume", "deciding"} \cup InTurn

LEMMA HoldingByPart == Holding <=> \A d \in Executors : HoldsAt(d)
BY DEF Holding, HoldsAt

LEMMA StillHoldsAt ==
    ASSUME TypeOK, RowsAgree, StepsAgree, Holding, Working, Stopping, PlanAgrees, Next,
           NEW d \in Executors, exec'[d] = exec[d]
    PROVE  HoldsAt(d)'
<1>1. HoldsAt(d)
  BY HoldingByPart
<1>2. CASE exec[d].pc \in Locked
  <2>1. lock' = d
    BY <1>1, <1>2, StillHeld DEF HoldsAt, Busy
  <2>2. Sid(d)' \in Existing' /\ ~steps'[Sid(d)'].stopped
    BY <1>2, StillStep
  <2> QED
    BY <1>1, <1>2, <2>1, <2>2 DEF HoldsAt, Step, Locked, InTurn
<1>3. CASE exec[d].pc \in {"settle", "close"} /\ exec[d].why # "settle"
  <2>1. lock' = d
    BY <1>1, <1>3, StillHeld DEF HoldsAt, Busy
  <2> QED
    BY <1>1, <1>3, <2>1 DEF HoldsAt, Locked, InTurn
<1> QED
  BY <1>1, <1>2, <1>3 DEF HoldsAt

\* At another place of the same step, or away from it.
LEMMA StaysHoldsAt ==
    ASSUME TypeOK, RowsAgree, StepsAgree, Holding, Stopping, Next,
           NEW e \in Executors, exec[e].pc \in Locked, exec'[e] # exec[e],
           NEW pc \in Locked, Stays(e, pc), e = Desk => pc \in InTurn
    PROVE  HoldsAt(e)'
<1>1. lock = e /\ Sid(e) \in Existing /\ ~Step(e).stopped
  BY Holder
<1>2. Sid(e)' = Sid(e) /\ lock' = e /\ exec'[e].pc = pc
  BY <1>1 DEF Stays, Sid
<1>3. Sid(e) \in Existing'
  BY <1>1, StepsKept DEF Kept
<1>4. ~Retire
  BY DEF Retire
<1>5. ~AckStop
  <2> SUFFICES ASSUME AckStop PROVE FALSE
    OBVIOUS
  <2>1. e = Poller
    BY <1>1, Bounds, Holder DEF AckStop, At, Locked
  <2>2. Parts(Poller)
    BY NextCandidateGoes DEF AckStop
  <2> QED
    BY <1>2, <2>1, <2>2 DEF Parts, Locked, InTurn
<1>6. ~steps'[Sid(e)].stopped
  BY <1>1, <1>3, <1>4, <1>5, StoppedBy DEF Step
<1> QED
  BY <1>2, <1>3, <1>6 DEF HoldsAt, Step, Locked, InTurn

LEMMA PartsHoldsAt ==
    ASSUME NEW e \in Executors, Parts(e) PROVE HoldsAt(e)'
BY DEF Parts, HoldsAt, Locked, InTurn

LEMMA TakenHoldsAt ==
    ASSUME TypeOK, RowsAgree, PlanAgrees,
           \E s \in StepIds : TakeUp("stops", s, "stopping") \/ TakeUp("turns", s, "recover")
    PROVE  HoldsAt(Poller)'
<1>1. PICK s \in StepIds : TakeUp("stops", s, "stopping") \/ TakeUp("turns", s, "recover")
  OBVIOUS
<1>2. ASSUME NEW op \in {"stops", "turns"}, NEW pc \in {"stopping", "recover"},
             TakeUp(op, s, pc), ~steps[s].stopped
      PROVE  HoldsAt(Poller)'
  <2>1. exec'[Poller] = [Away EXCEPT !.pc = pc, !.step = s, !.why = op]
    BY <1>2, Bounds, FrameShape DEF TakeUp
  <2>2. exec'[Poller].pc = pc /\ exec'[Poller].step = s
    BY <2>1 DEF Away
  <2>3. s \in Existing
    BY <1>2 DEF TakeUp, RowsAgree
  <2>4. lock' = Poller /\ steps' = steps /\ rows' = rows
    BY <1>2 DEF TakeUp, Unchanged
  <2> QED
    BY <1>2, <2>2, <2>3, <2>4, Bounds DEF HoldsAt, Step, Sid, Existing
<1>3. TakeUp("stops", s, "stopping") => ~steps[s].stopped
  BY DEF TakeUp, Candidates
<1>4. TakeUp("turns", s, "recover") => ~steps[s].stopped
  BY DEF TakeUp, Candidates, PlanAgrees
<1> QED
  BY <1>1, <1>2, <1>3, <1>4

LEMMA SatHoldsAt ==
    ASSUME TypeOK, PlanAgrees, NEW s \in Existing, NEW pc \in {"resume", "deciding"}, Sit(s, pc)
    PROVE  HoldsAt(Desk)'
<1>1. exec'[Desk] = [Away EXCEPT !.pc = pc, !.step = s]
  BY Bounds, FrameShape DEF Sit
<1>2. exec'[Desk].pc = pc /\ exec'[Desk].step = s
  BY <1>1 DEF Away
<1>3. ~steps[s].stopped
  BY DEF Sit, PlanForTurn, Live, PlanAgrees
<1>4. lock' = Desk /\ steps' = steps /\ rows' = rows
  BY DEF Sit, OnlyTurn
<1> QED
  BY <1>2, <1>3, <1>4, Bounds DEF HoldsAt, Step, Sid, Existing

LEMMA ClaimHoldsAt ==
    ASSUME TypeOK, RowsAgree, PlanAgrees, NEW s \in StepIds, ClaimStep(s)
    PROVE  HoldsAt(Poller)'
<1>1. ASSUME NEW k \in Keys, Claimed(s, k) PROVE HoldsAt(Poller)'
  <2>1. /\ exec'[Poller].pc \in {"recover", "begin"} /\ exec'[Poller].step = s
    <3> DEFINE pc == IF k \in Begun THEN "recover" ELSE "begin"
               why == IF k \in Begun THEN "rerun" ELSE "run"
    <3>1. exec'[Poller] = [Away EXCEPT !.step = s, !.pc = pc, !.why = why]
      BY <1>1, Bounds, FrameShape DEF Claimed
    <3>2. pc \in {"recover", "begin"}
      OBVIOUS
    <3> HIDE DEF pc, why
    <3> QED
      BY <3>1, <3>2 DEF Away
  <2>2. steps'[s].stopped = steps[s].stopped
    BY <1>1 DEF Claimed, TypeOK, StepRows
  <2>3. ~steps[s].stopped
    BY <1>1 DEF Claimed, Live, PlanAgrees
  <2>4. lock' = Poller /\ rows' = rows /\ s \in Existing
    BY <1>1 DEF Claimed, ClaimStep, Unchanged
  <2> QED
    BY <2>1, <2>2, <2>3, <2>4, Bounds DEF HoldsAt, Step, Sid, Existing
<1> QED
  BY <1>1, Bounds, ClaimShape, RunOverGoes, PartsHoldsAt

LEMMA SettleHoldsAt ==
    ASSUME TypeOK, Holding, SettleRead \/ SettleWrite
    PROVE  HoldsAt(Poller)'
<1>1. exec[Poller] \in Frames
  BY Bounds DEF TypeOK
<1>2. CASE AfterSettle
  BY <1>2, Bounds, AfterSettleGoes, PartsHoldsAt DEF SettleRead, SettleWrite, At
<1>3. ASSUME NEW v, exec' = [exec EXCEPT ![Poller].pc = "close", ![Poller].verdict = v],
             lock' = lock, SettleRead
      PROVE  HoldsAt(Poller)'
  <2>1. exec'[Poller].pc = "close" /\ exec'[Poller].why = exec[Poller].why
    BY <1>1, <1>3, Bounds DEF TypeOK, Frames
  <2>2. /\ exec[Poller].why \in {"turns", "resumed", "settle"}
        /\ exec[Poller].why # "settle" => lock = Poller
    BY <1>3, Bounds DEF SettleRead, At, Holding
  <2> QED
    BY <1>3, <2>1, <2>2, Bounds DEF HoldsAt, Locked, InTurn
<1> QED
  BY <1>2, <1>3 DEF SettleRead, SettleWrite

\* The job between two steps.
LEMMA PassHoldsAt ==
    ASSUME TypeOK,
           \/ SettleStage \/ BeginSteps \/ Summarize \/ SetSummary \/ EndPass("steps")
           \/ \E op \in {"stops", "turns"} : BeginPass(op) \/ EndPass(op)
    PROVE  UNCHANGED exec \/ HoldsAt(Poller)'
<1>1. exec[Poller] \in Frames
  BY Bounds DEF TypeOK
<1>2. ASSUME NEW pc \in {"stops", "turns", "steps", "idle", "summing"}, Goto(Poller, pc)
      PROVE  HoldsAt(Poller)'
  <2>1. exec'[Poller].pc = pc
    BY <1>1, <1>2, Bounds DEF Goto, TypeOK, Frames
  <2> QED
    BY <2>1, Bounds DEF HoldsAt, Locked, InTurn
<1>3. ASSUME exec' = [exec EXCEPT ![Poller] = [Away EXCEPT !.pc = "settle", !.why = "settle"]]
      PROVE  HoldsAt(Poller)'
  <2>1. exec'[Poller] = [Away EXCEPT !.pc = "settle", !.why = "settle"]
    BY <1>3, Bounds, FrameShape
  <2>2. exec'[Poller].pc = "settle" /\ exec'[Poller].why = "settle"
    BY <2>1 DEF Away
  <2> QED
    BY <2>2, Bounds DEF HoldsAt, Locked, InTurn
<1> QED
  BY <1>2, <1>3 DEF SettleStage, BeginSteps, Summarize, SetSummary, BeginPass, EndPass

\* At work on a step: at another place of it, or done with it.
LEMMA WorkHoldsAt ==
    ASSUME TypeOK, RowsAgree, StepsAgree, Holding, Stopping, Next, NEW e \in Executors,
           \/ RunTurn(e) \/ ResumeClaim(e) \/ ResumeCheck(e)
           \/ e = Desk /\ \E yes \in BOOLEAN : Decide(yes)
           \/ e = Poller /\ \/ StopTurn \/ AckStop \/ Recover \/ RetryUnstarted \/ Resume
                            \/ Apply \/ BeginCheck \/ RejectInput \/ BeginTurn \/ LinkTurn
    PROVE  HoldsAt(e)' /\ \A d \in Executors : d # e => exec'[d] = exec[d]
<1> DEFINE Goal == HoldsAt(e)' /\ \A d \in Executors : d # e => exec'[d] = exec[d]
<1>1. ASSUME Parts(e) PROVE Goal
  BY <1>1, PartsHoldsAt DEF Parts
<1>2. ASSUME exec[e].pc \in Locked, NEW pc \in Locked, Stays(e, pc), exec'[e] # exec[e],
             e = Desk => pc \in InTurn
      PROVE  Goal
  <2>1. HoldsAt(e)'
    BY <1>2, StaysHoldsAt
  <2> QED
    BY <1>2, <2>1 DEF Stays
<1>3. ASSUME exec[e].pc \in Locked, NEW pc \in Locked, Stays(e, pc), pc # exec[e].pc,
             e = Desk => pc \in InTurn
      PROVE  Goal
  BY <1>2, <1>3 DEF Stays
<1>0. /\ {"outcome", "recover", "reserved", "acting", "loop", "stopped", "retry", "open", "link",
          "resumed", "resume"} \subseteq Locked
      /\ {"reserved", "acting", "loop", "resumed"} \subseteq InTurn
      /\ \A pc \in InTurn : pc \in Locked /\ pc # "outcome" /\ pc # "recover"
      /\ {"resume", "deciding", "recover", "retry", "outcome", "begin", "stopping"} \subseteq Locked
  BY DEF Locked, InTurn
<1>4. ASSUME e = Poller, exec[Poller].pc \in Locked, Stays(Poller, "settle"),
             exec'[Poller].why = exec[Poller].why, exec[Poller].why \in {"turns", "resumed"}
      PROVE  Goal
  BY <1>4, Bounds, Holder DEF Stays, HoldsAt, Locked, InTurn
<1> SUFFICES Goal
  OBVIOUS
<1> HIDE DEF Goal
<1>5. CASE RunTurn(e)
  <2>1. exec[e].pc \in InTurn /\ exec[e].pc \in Locked
    BY <1>0, <1>5, RunTurnGoes
  <2>2. \/ Parts(e)
        \/ \E pc \in Locked : /\ Stays(e, pc) /\ pc # exec[e].pc
                              /\ e = Desk => pc \in InTurn
    BY <1>0, <1>5, <2>1, Bounds, RunTurnGoes DEF At
  <2> QED
    BY <1>1, <1>3, <2>1, <2>2
<1>6. CASE ResumeClaim(e) \/ ResumeCheck(e)
  <2>1. exec[e].pc \in Locked
    BY <1>0, <1>6, ContinuationGoes DEF At
  <2>2. \/ Parts(e)
        \/ \E pc \in Locked : /\ Stays(e, pc) /\ pc # exec[e].pc
                              /\ e = Desk => pc \in InTurn
    BY <1>0, <1>6, Bounds, ContinuationGoes DEF At
  <2> QED
    BY <1>1, <1>3, <2>1, <2>2
<1>7. CASE e = Desk /\ \E yes \in BOOLEAN : Decide(yes)
  <2>1. At(Desk, "deciding") /\ (Stays(Desk, "loop") \/ Parts(Desk))
    BY <1>7, DecideGoes
  <2> QED
    BY <1>0, <1>1, <1>3, <1>7, <2>1, Bounds DEF At
<1>8. CASE e = Poller /\ StopTurn
  <2>1. At(Poller, "stopping") /\ Stays(Poller, "stopped")
    BY <1>8, StopTurnGoes DEF StopTurn
  <2> QED
    BY <1>0, <1>3, <1>8, <2>1, Bounds DEF At
<1>9. CASE e = Poller /\ AckStop
  <2>1. Parts(Poller)
    BY <1>9, NextCandidateGoes DEF AckStop
  <2> QED
    BY <1>1, <1>9, <2>1
<1>10. CASE e = Poller /\ Recover
  <2>1. \/ Goto(Poller, "outcome") /\ UNCHANGED lock
        \/ Goto(Poller, "retry") /\ UNCHANGED lock
        \/ NextCandidate \/ AbortCycle
    BY <1>10 DEF Recover
  <2>2. At(Poller, "recover") /\ "retry" \in Locked
    BY <1>0, <1>10 DEF Recover
  <2>3. Stays(Poller, "outcome") \/ Stays(Poller, "retry") \/ Parts(Poller)
    BY <2>1, Bounds, GotoShape, NextCandidateGoes, AbortCycleGoes
  <2> QED
    BY <1>0, <1>1, <1>3, <1>10, <2>2, <2>3, Bounds DEF At
<1>11. CASE e = Poller /\ (RetryUnstarted \/ Apply)
  <2>1. Continue /\ exec[Poller].pc \in Locked
    BY <1>11 DEF RetryUnstarted, Apply, At, Locked
  <2>2. \/ /\ Stays(Poller, "settle") /\ exec'[Poller].why = exec[Poller].why
           /\ exec[Poller].why \in {"turns", "resumed"}
        \/ Parts(Poller)
    BY <2>1, Bounds, Holder, ContinueGoes
  <2> QED
    BY <1>1, <1>4, <1>11, <2>1, <2>2
<1>12. CASE e = Poller /\ Resume
  <2>1. /\ At(Poller, "outcome")
        /\ \/ Parts(Poller)
           \/ /\ Stays(Poller, "resume") \/ Stays(Poller, "outcome")
              /\ exec'[Poller] # exec[Poller]
    BY <1>12, ResumeGoes
  <2> QED
    BY <1>0, <1>1, <1>2, <1>12, <2>1, Bounds DEF At
<1>13. CASE e = Poller /\ (BeginCheck \/ BeginTurn \/ LinkTurn)
  <2>1. /\ UNCHANGED lock
        /\ \/ Goto(Poller, "open") /\ At(Poller, "begin")
           \/ Goto(Poller, "link") /\ At(Poller, "open")
           \/ Goto(Poller, "loop") /\ At(Poller, "link")
           \/ Interrupted /\ exec[Poller].pc \in {"begin", "open", "link"}
    BY <1>13 DEF BeginCheck, BeginTurn, LinkTurn, At
  <2>2. \/ At(Poller, "begin") /\ Stays(Poller, "open")
        \/ At(Poller, "open") /\ Stays(Poller, "link")
        \/ At(Poller, "link") /\ Stays(Poller, "loop")
        \/ exec[Poller].pc \in {"begin", "open", "link"} /\ Stays(Poller, "recover")
    BY <2>1, Bounds, GotoShape, InterruptedGoes
  <2> QED
    BY <1>0, <1>3, <1>13, <2>2, Bounds DEF At
<1>14. CASE e = Poller /\ RejectInput
  <2>1. Parts(Poller)
    BY <1>14, RunOverGoes DEF RejectInput
  <2> QED
    BY <1>1, <1>14, <2>1
<1> QED
  BY <1>5, <1>6, <1>7, <1>8, <1>9, <1>10, <1>11, <1>12, <1>13, <1>14

\* What moves an executor.
AtWork(e) ==
    \/ RunTurn(e) \/ ResumeClaim(e) \/ ResumeCheck(e)
    \/ e = Desk /\ \E yes \in BOOLEAN : Decide(yes)
    \/ e = Poller /\ \/ StopTurn \/ AckStop \/ Recover \/ RetryUnstarted \/ Resume
                     \/ Apply \/ BeginCheck \/ RejectInput \/ BeginTurn \/ LinkTurn
Settling == SettleRead \/ SettleWrite
Passing  == \/ SettleStage \/ BeginSteps \/ Summarize \/ SetSummary \/ EndPass("steps")
            \/ \E op \in {"stops", "turns"} : BeginPass(op) \/ EndPass(op)
Taking   == \E s \in StepIds : TakeUp("stops", s, "stopping") \/ TakeUp("turns", s, "recover")
Claiming == \E s \in StepIds : ClaimStep(s)
Sitting  == \E s \in Existing : DeskResume(s) \/ DeskApprove(s)

LEMMA MovedBy ==
    ASSUME TypeOK, RowsAgree, StepsAgree, Holding, Stopping, Next, NEW d \in Executors,
           exec'[d] # exec[d]
    PROVE  \/ AtWork(d) \/ Crash(d)
           \/ d = Desk /\ Sitting
           \/ d = Poller /\ (Settling \/ Passing \/ Taking \/ Claiming)
<1>0. d = Poller \/ d = Desk
  BY DEF Executors
<1>1. CASE RunPoller
  <2>1. CASE AtWork(Poller)
    BY <1>0, <2>1, Bounds, WorkHoldsAt DEF AtWork
  <2>2. CASE Settling \/ Passing \/ Taking
    <3>1. UNCHANGED exec \/ \E f : exec' = [exec EXCEPT ![Poller] = f]
      BY <2>2 DEF Settling, Passing, Taking, SettleRead, SettleWrite, AfterSettle, NextCandidate,
           SettleStage, BeginSteps, Summarize, SetSummary, EndPass, BeginPass, Goto, TakeUp, TypeOK
    <3>2. d = Poller
      BY <1>0, <3>1, Bounds, FrameShape
    <3> QED
      BY <2>2, <3>2
  <2>3. ASSUME NEW s \in StepIds, ClaimStep(s) PROVE d = Poller /\ Claiming
    <3>1. \A e \in Executors : e # Poller => exec'[e] = exec[e]
      BY <2>3 DEF ClaimStep, RunOver, TypeOK
    <3> QED
      BY <1>0, <2>3, <3>1 DEF Claiming
  <2>4. CASE Retire \/ \E s \in StepIds : \/ Skip("stops", s) \/ Skip("turns", s)
                                          \/ \E v \in {"waiting", "pending", "failed"} :
                                                CheckCondition(s, v)
    BY <2>4 DEF Retire, Skip, CheckCondition
  <2> QED
    BY <1>1, <2>1, <2>2, <2>3, <2>4 DEF RunPoller, AtWork, Settling, Passing, Taking
<1>2. CASE RunDesk
  <2>1. AtWork(Desk)
    BY <1>2 DEF RunDesk, AtWork
  <2> QED
    BY <1>0, <2>1, Bounds, WorkHoldsAt DEF AtWork
<1>3. CASE Others
  <2>1. CASE \/ \E after \in SUBSET Existing : AddCheck(after)
             \/ \E waits \in BOOLEAN : AddInsert(waits)
             \/ CancelPlan \/ TimePasses \/ \E s \in Existing : ReleaseStep(s)
             \/ \E k \in Keys : ApprovalAges(k)
             \/ \E l \in late : LateCommit(l)
    BY <2>1 DEF AddCheck, AddInsert, CancelPlan, TimePasses, ReleaseStep, ApprovalAges,
         LateCommit
  <2>2. ASSUME NEW s \in Existing, DeskResume(s) \/ DeskApprove(s) PROVE d = Desk /\ Sitting
    <3>1. \E f : exec' = [exec EXCEPT ![Desk] = f]
      BY <2>2 DEF DeskResume, DeskApprove, Sit
    <3> QED
      BY <2>2, <3>1, Bounds, FrameShape DEF Sitting
  <2>3. ASSUME NEW e \in Executors, Crash(e) PROVE Crash(d)
    <3>1. e = d
      BY <2>3, CrashMoves DEF Mover
    <3> QED
      BY <2>3, <3>1
  <2> QED
    BY <1>3, <2>1, <2>2, <2>3 DEF Others
<1> QED
  BY <1>1, <1>2, <1>3 DEF Next

LEMMA HoldingStep ==
    ASSUME TypeOK, RowsAgree, StepsAgree, Holding, Working, Stopping, PlanAgrees, Next
    PROVE  Holding'
<1> SUFFICES ASSUME NEW d \in Executors PROVE HoldsAt(d)'
  BY DEF Holding, HoldsAt
<1>1. CASE exec'[d] = exec[d]
  BY <1>1, StillHoldsAt
<1>2. CASE AtWork(d)
  BY <1>2, WorkHoldsAt DEF AtWork
<1>3. CASE Crash(d)
  <2>1. exec'[d] = Away
    BY <1>3, CrashMoves
  <2>2. Away.pc = "idle"
    BY DEF Away
  <2> QED
    BY <2>1, <2>2 DEF HoldsAt, Locked, InTurn
<1>4. CASE d = Desk /\ Sitting
  <2>1. PICK s \in Existing, pc \in {"resume", "deciding"} : Sit(s, pc)
    BY <1>4 DEF Sitting, DeskResume, DeskApprove
  <2> QED
    BY <1>4, <2>1, SatHoldsAt
<1>5. CASE d = Poller /\ (Settling \/ Passing \/ Taking \/ Claiming)
  BY <1>1, <1>5, SettleHoldsAt, PassHoldsAt, TakenHoldsAt, ClaimHoldsAt
  DEF Settling, Passing, Taking, Claiming
<1> QED
  BY <1>1, <1>2, <1>3, <1>4, <1>5, MovedBy

-----------------------------------------------------------------------------
(* ... of a key that the step has, or of a turn that is linked to it.       *)

WorksAt(e) ==
    /\ exec[e].pc \in {"recover", "retry", "begin", "open", "link"} => Key(e) # 0
    /\ exec[e].pc \in {"outcome", "resume", "deciding"} \cup InTurn => Step(e).turn # 0
    /\ exec[e].pc \in {"link"} \cup InTurn => Key(e) \in Begun /\ Turn(e).status = "running"
    /\ exec[e].pc = "loop" => ~Turn(e).open
    /\ exec[e].pc = "close" => exec[e].verdict \in Settled

LEMMA WorkingByPart == Working <=> \A e \in Executors : WorksAt(e)
BY DEF Working, WorksAt

LEMMA BegunKey == \A k \in Begun : k \in Keys /\ k # 0
BY Bounds DEF Begun, Keys

LEMMA WorkingKey ==
    ASSUME TypeOK, StepsAgree, Holding, Working, NEW e \in Executors,
           exec[e].pc \in Locked \ {"stopping", "stopped"}
    PROVE  Key(e) # 0
<1>1. CASE exec[e].pc \in {"recover", "retry", "begin", "open", "link"}
  BY <1>1 DEF Working
<1>2. CASE exec[e].pc \in {"outcome", "resume", "deciding"} \cup InTurn
  BY <1>2, LinkedKey DEF Working
<1> QED
  BY <1>1, <1>2 DEF Locked

LEMMA StillWorksAt ==
    ASSUME TypeOK, RowsAgree, OwnKeys, StepsAgree, Holding, Working, Stopping, PlanAgrees, Next,
           NEW d \in Executors, exec'[d] = exec[d]
    PROVE  WorksAt(d)'
<1>1. WorksAt(d)
  BY WorkingByPart
<1>2. CASE exec[d].pc \in Locked
  <2>1. Key(d)' = Key(d) /\ Step(d)'.turn = Step(d).turn
    BY <1>2, StillStep DEF Key, Step
  <2>2. Key(d) \in Begun =>
          /\ Key(d) \in Begun' /\ turns'[Key(d)].status = turns[Key(d)].status
          /\ turns'[Key(d)].open = turns[Key(d)].open
    BY <1>2, StillTurn
  <2>3. Turn(d)' = turns'[Key(d)]
    BY <2>1 DEF Turn
  <2>4. exec[d].pc # "close"
    BY <1>2 DEF Locked, InTurn
  <2>5. exec[d].pc = "loop" => exec[d].pc \in InTurn
    BY DEF InTurn
  <2> QED
    BY <1>1, <2>1, <2>2, <2>3, <2>4, <2>5 DEF WorksAt, Turn
<1>3. CASE exec[d].pc \notin Locked
  BY <1>1, <1>3 DEF WorksAt, Locked, InTurn
<1> QED
  BY <1>2, <1>3

LEMMA StepStays ==
    ASSUME TypeOK, RowsAgree, StepsAgree, Holding, Stopping, Next,
           NEW e \in Executors, exec[e].pc \in Locked, NEW pc, Stays(e, pc)
    PROVE  /\ Sid(e)' = Sid(e) /\ exec'[e].pc = pc
           /\ Key(e) # 0 => Key(e)' = Key(e)
           /\ Step(e).turn # 0 => Step(e)'.turn = Step(e).turn
<1>1. Sid(e)' = Sid(e) /\ exec'[e].pc = pc /\ Sid(e) \in Existing
  BY Holder DEF Stays, Sid
<1>2. Kept(Sid(e))
  BY <1>1, StepsKept
<1> QED
  BY <1>1, <1>2 DEF Kept, Key, Step

\* Out of the turn, but not done with the step.
LEMMA StaysWorksAt ==
    ASSUME TypeOK, RowsAgree, StepsAgree, Holding, Stopping, Next,
           NEW e \in Executors, exec[e].pc \in Locked,
           NEW pc \in {"outcome", "resume", "recover", "retry", "open", "stopped", "settle"},
           Stays(e, pc), pc \in {"recover", "retry", "open"} => Key(e) # 0,
           pc \in {"outcome", "resume"} => Step(e).turn # 0 \/ Step(e)'.turn # 0
    PROVE  WorksAt(e)'
<1>1. /\ exec'[e].pc = pc
      /\ pc \in {"recover", "retry", "open"} => Key(e)' # 0
      /\ pc \in {"outcome", "resume"} => Step(e)'.turn # 0
  BY StepStays
<1> QED
  BY <1>1 DEF WorksAt, InTurn

\* In the turn.
LEMMA TurnWorksAt ==
    ASSUME TypeOK, RowsAgree, StepsAgree, Holding, Stopping, Next,
           NEW e \in Executors, exec[e].pc \in Locked, NEW pc \in {"link"} \cup InTurn,
           Stays(e, pc), Key(e) \in Begun', turns'[Key(e)].status = "running",
           pc \in InTurn => Step(e).turn # 0 \/ Step(e)'.turn # 0,
           pc = "loop" => ~turns'[Key(e)].open
    PROVE  WorksAt(e)'
<1>1. Key(e) # 0
  BY Bounds DEF Begun, Keys
<1>2. /\ exec'[e].pc = pc /\ Key(e)' = Key(e) /\ (pc \in InTurn => Step(e)'.turn # 0)
  BY <1>1, StepStays
<1> QED
  BY <1>1, <1>2 DEF WorksAt, InTurn, Turn

LEMMA RunTurnWorksAt ==
    ASSUME TypeOK, RowsAgree, OwnKeys, StepsAgree, Holding, Working, Stopping, Next,
           NEW e \in Executors, RunTurn(e)
    PROVE  WorksAt(e)'
<1>0. /\ exec[e].pc \in InTurn /\ exec[e].pc \in Locked
      /\ exec[e].pc \notin {"stopping", "stopped"}
  BY RunTurnGoes DEF Locked, InTurn
<1>1. /\ Key(e) \in Begun /\ turns[Key(e)].status = "running" /\ Step(e).turn # 0
      /\ Key(e) \in Keys /\ Key(e) # 0
  BY <1>0, BegunKey DEF Working, Turn
<1>2. turns[Key(e)] \in TurnRows /\ turns \in [Keys -> TurnRows]
  BY <1>1 DEF TypeOK
<1>3. CASE Parts(e)
  BY <1>3 DEF Parts, WorksAt, InTurn
<1>4. CASE Stays(e, "outcome") \/ Stays(e, "recover")
  BY <1>0, <1>1, <1>4, StaysWorksAt
<1>5. CASE Stays(e, "reserved") /\ Reserve(e)
  <2>1. turns'[Key(e)].status = "running"
    BY <1>1, <1>2, <1>5 DEF Reserve, TurnRows
  <2>2. Key(e) \in Begun'
    BY <1>1, <2>1 DEF Begun
  <2> QED
    BY <1>0, <1>1, <1>5, <2>1, <2>2, TurnWorksAt DEF InTurn
<1>6. CASE Stays(e, "acting") /\ Dispatch(e)
  <2>1. turns' = turns
    BY <1>6 DEF Dispatch
  <2>2. Key(e) \in Begun'
    BY <1>1, <2>1 DEF Begun
  <2> QED
    BY <1>0, <1>1, <1>6, <2>1, <2>2, TurnWorksAt DEF InTurn
<1>7. CASE Stays(e, "loop") /\ Answered(e)
  <2>1. turns'[Key(e)].status = "running" /\ ~turns'[Key(e)].open
    BY <1>1, <1>2, <1>7 DEF Answered, TurnRows
  <2>2. Key(e) \in Begun'
    BY <1>1, <2>1 DEF Begun
  <2> QED
    BY <1>0, <1>1, <1>7, <2>1, <2>2, TurnWorksAt DEF InTurn
<1> QED
  BY <1>3, <1>4, <1>5, <1>6, <1>7, RunTurnGoes

LEMMA ContinuationWorksAt ==
    ASSUME TypeOK, RowsAgree, OwnKeys, StepsAgree, Holding, Working, Stopping, Next,
           NEW e \in Executors, ResumeClaim(e) \/ ResumeCheck(e)
    PROVE  WorksAt(e)'
<1>0. exec[e].pc \in {"resume", "resumed"} /\ exec[e].pc \in Locked
  BY ContinuationGoes DEF Locked, InTurn, At
<1>1. Step(e).turn # 0 /\ Key(e) \in Begun /\ Key(e) \in Keys /\ Key(e) # 0
  BY <1>0, LinkedKey, BegunKey DEF Working, InTurn
<1>2. turns[Key(e)] \in TurnRows /\ turns \in [Keys -> TurnRows]
  BY <1>1 DEF TypeOK
<1>3. CASE Parts(e)
  BY <1>3 DEF Parts, WorksAt, InTurn
<1>4. CASE Stays(e, "outcome") \/ Stays(e, "recover")
  BY <1>0, <1>1, <1>4, StaysWorksAt
<1>5. CASE /\ Stays(e, "resumed") /\ turns[Key(e)].status = "running"
           /\ turns' = [turns EXCEPT ![Key(e)].resumes = @ + 1]
  <2>1. turns'[Key(e)].status = "running"
    BY <1>1, <1>2, <1>5 DEF TurnRows
  <2>2. Key(e) \in Begun'
    BY <1>1, <2>1 DEF Begun
  <2> QED
    BY <1>0, <1>1, <1>5, <2>1, <2>2, TurnWorksAt DEF InTurn
<1>6. CASE At(e, "resumed") /\ Stays(e, "loop") /\ ~turns[Key(e)].open /\ UNCHANGED turns
  <2>1. turns'[Key(e)].status = "running"
    BY <1>6 DEF Working, At, InTurn, Turn
  <2>2. Key(e) \in Begun'
    BY <1>1, <1>6 DEF Begun
  <2> QED
    BY <1>0, <1>1, <1>6, <2>1, <2>2, TurnWorksAt DEF InTurn
<1> QED
  BY <1>3, <1>4, <1>5, <1>6, ContinuationGoes

LEMMA DecideWorksAt ==
    ASSUME TypeOK, RowsAgree, OwnKeys, StepsAgree, TurnsAgree, Holding, Working, Stopping, Next,
           NEW yes \in BOOLEAN, Decide(yes)
    PROVE  WorksAt(Desk)'
<1>1. CASE Parts(Desk)
  BY <1>1, Bounds DEF Parts, WorksAt, InTurn
<1>2. CASE /\ At(Desk, "deciding") /\ Stays(Desk, "loop") /\ turns[Key(Desk)].approval = "pending"
           /\ turns' = [turns EXCEPT ![Key(Desk)].status = "running",
                                     ![Key(Desk)].approval = "decided",
                                     ![Key(Desk)].refused = ~yes]
  <2>1. /\ exec[Desk].pc \in Locked /\ Step(Desk).turn # 0 /\ Key(Desk) \in Begun
        /\ Key(Desk) \in Keys
    BY <1>2, Bounds, LinkedKey, BegunKey DEF Working, At, Locked
  <2>2. turns[Key(Desk)] \in TurnRows /\ turns \in [Keys -> TurnRows]
    BY <2>1 DEF TypeOK
  <2>3. ~turns[Key(Desk)].open
    BY <1>2, <2>1 DEF TurnsAgree
  <2>4. turns'[Key(Desk)].status = "running" /\ turns'[Key(Desk)].open = turns[Key(Desk)].open
    BY <1>2, <2>1, <2>2 DEF TurnRows
  <2>5. Key(Desk) \in Begun'
    BY <2>1, <2>4 DEF Begun
  <2> QED
    BY <1>2, <2>1, <2>3, <2>4, <2>5, Bounds, TurnWorksAt DEF InTurn
<1> QED
  BY <1>1, <1>2, DecideGoes

\* A turn with an open operation is linked, so that a link comes before all of them.
LEMMA UnlinkedIsClosed ==
    ASSUME OwnKeys, TurnsAgree, NEW s \in Existing, steps[s].turn = 0, steps[s].key \in Begun
    PROVE  ~turns[steps[s].key].open
<1> DEFINE k == steps[s].key
<1>1. k # 0
  BY BegunKey
<1>2. turns[k].step \in Existing /\ steps[turns[k].step].key = k
  BY DEF OwnKeys
<1>3. turns[k].step = s
  BY <1>1, <1>2 DEF OwnKeys
<1> QED
  BY <1>1, <1>3 DEF TurnsAgree

LEMMA JobWorksAt ==
    ASSUME TypeOK, RowsAgree, OwnKeys, StepsAgree, TurnsAgree, Holding, Working, Stopping, Next,
           \/ StopTurn \/ AckStop \/ Recover \/ RetryUnstarted \/ Resume \/ Apply
           \/ BeginCheck \/ RejectInput \/ BeginTurn \/ LinkTurn
    PROVE  WorksAt(Poller)'
<1> DEFINE s == Sid(Poller)
           k == Key(Poller)
<1>0. /\ exec[Poller].pc \in Locked
      /\ exec[Poller].pc \in {"recover", "retry", "outcome", "begin", "open", "link"} =>
           exec[Poller].pc \in Locked \ {"stopping", "stopped"}
  BY DEF StopTurn, AckStop, Recover, RetryUnstarted, Resume, Apply, BeginCheck, RejectInput,
     BeginTurn, LinkTurn, At, Locked
<1>1. /\ s \in Existing /\ s \in StepIds /\ steps[s] \in StepRows /\ lock = Poller
      /\ steps \in [StepIds -> StepRows]
  BY <1>0, Bounds, HeldType, Holder DEF Step, TypeOK
<1>2. CASE Parts(Poller)
  BY <1>2, Bounds DEF Parts, WorksAt, InTurn
<1>3. CASE StopTurn
  BY <1>0, <1>3, Bounds, StaysWorksAt, StopTurnGoes
<1>4. CASE AckStop
  BY <1>2, <1>4, NextCandidateGoes DEF AckStop
<1>5. CASE Recover
  <2>1. At(Poller, "recover") /\ k # 0
    BY <1>0, <1>5, Bounds, WorkingKey DEF Recover, At
  <2>2. CASE /\ Goto(Poller, "outcome") /\ UNCHANGED lock
             /\ steps[s].turn # 0 \/ steps' = [steps EXCEPT ![s].turn = k]
    <3>1. Stays(Poller, "outcome")
      BY <2>2, Bounds, GotoShape
    <3>2. steps[s].turn # 0 \/ steps'[s].turn = k
      BY <1>1, <2>2 DEF StepRows
    <3>3. Sid(Poller)' = s
      BY <1>0, <3>1, Bounds, StepStays
    <3>4. Step(Poller).turn # 0 \/ Step(Poller)'.turn # 0
      BY <2>1, <3>2, <3>3 DEF Step
    <3> QED
      BY <1>0, <3>1, <3>4, Bounds, StaysWorksAt
  <2>3. CASE Goto(Poller, "retry") /\ UNCHANGED lock
    BY <1>0, <2>1, <2>3, Bounds, GotoShape, StaysWorksAt
  <2>4. CASE NextCandidate \/ AbortCycle
    BY <1>2, <2>4, NextCandidateGoes, AbortCycleGoes
  <2> QED
    BY <1>5, <2>2, <2>3, <2>4 DEF Recover
<1>6. CASE RetryUnstarted \/ Apply
  <2>1. Continue
    BY <1>6 DEF RetryUnstarted, Apply
  <2> QED
    BY <1>0, <1>1, <1>2, <2>1, Bounds, ContinueGoes, StaysWorksAt
<1>7. CASE Resume
  <2>1. Step(Poller).turn # 0
    BY <1>7, Bounds, ResumeGoes DEF At, Working
  <2> QED
    BY <1>0, <1>2, <1>7, <2>1, Bounds, ResumeGoes, StaysWorksAt
<1>8. CASE Interrupted /\ UNCHANGED lock /\ (BeginCheck \/ BeginTurn \/ LinkTurn)
  <2>1. k # 0
    BY <1>0, <1>8, Bounds, WorkingKey DEF BeginCheck, BeginTurn, LinkTurn, At
  <2> QED
    BY <1>0, <1>8, <2>1, Bounds, InterruptedGoes, StaysWorksAt
<1>9. CASE BeginCheck /\ Goto(Poller, "open")
  <2>1. k # 0
    BY <1>0, <1>9, Bounds, WorkingKey DEF BeginCheck, At
  <2>2. Stays(Poller, "open")
    BY <1>9, Bounds, GotoShape DEF BeginCheck
  <2> QED
    BY <1>0, <2>1, <2>2, Bounds, StaysWorksAt
<1>10. CASE RejectInput
  BY <1>2, <1>10, RunOverGoes DEF RejectInput
<1>11. CASE BeginTurn /\ k \notin Begun
  <2>1. Stays(Poller, "link") /\ turns' = Opened(k, s)
    BY <1>11, Bounds, GotoShape DEF BeginTurn
  <2>2. k \in Keys \ Begun /\ steps[s].key = k
    <3>1. k # 0
      BY <1>0, <1>11, Bounds, WorkingKey DEF BeginTurn, At
    <3>2. steps[s].key = k
      BY DEF Key, Step
    <3> QED
      BY <1>1, <1>11, <3>1, <3>2 DEF StepRows, Keys
  <2>3. turns'[k].status = "running"
    BY <1>1, <2>1, <2>2, OpenedShape DEF Fresh
  <2>4. k \in Begun'
    BY <2>2, <2>3 DEF Begun
  <2> QED
    BY <1>0, <2>1, <2>3, <2>4, Bounds, TurnWorksAt DEF InTurn
<1>12. CASE LinkTurn /\ MayLink(s)
  <2>1. /\ Stays(Poller, "loop") /\ steps' = [steps EXCEPT ![s].turn = k] /\ turns' = turns
        /\ steps[s].turn = 0
    BY <1>12, Bounds, GotoShape DEF LinkTurn, MayLink
  <2>2. k \in Begun /\ turns[k].status = "running" /\ k # 0 /\ steps[s].key = k
    BY <1>12, Bounds, BegunKey DEF LinkTurn, At, Working, Turn, Key, Step
  <2>3. ~turns[k].open
    BY <1>1, <2>1, <2>2, UnlinkedIsClosed
  <2>4. Sid(Poller)' = s /\ steps'[s].turn = k
    BY <1>0, <1>1, <2>1, Bounds, StepStays DEF StepRows
  <2>5. k \in Begun' /\ Step(Poller)'.turn # 0
    BY <2>1, <2>2, <2>4 DEF Begun, Step
  <2> QED
    BY <1>0, <2>1, <2>2, <2>3, <2>5, Bounds, TurnWorksAt DEF InTurn
<1> QED
  BY <1>3, <1>4, <1>5, <1>6, <1>7, <1>8, <1>9, <1>10, <1>11, <1>12
  DEF BeginCheck, BeginTurn, LinkTurn

LEMMA TakenWorksAt ==
    ASSUME TypeOK, RowsAgree, StepsAgree, Taking
    PROVE  WorksAt(Poller)'
<1>1. PICK s \in StepIds : TakeUp("stops", s, "stopping") \/ TakeUp("turns", s, "recover")
  BY DEF Taking
<1>2. CASE TakeUp("stops", s, "stopping")
  <2>1. exec'[Poller] = [Away EXCEPT !.pc = "stopping", !.step = s, !.why = "stops"]
    BY <1>2, Bounds, FrameShape DEF TakeUp
  <2>2. exec'[Poller].pc = "stopping"
    BY <2>1 DEF Away
  <2> QED
    BY <2>2 DEF WorksAt, InTurn
<1>3. CASE TakeUp("turns", s, "recover")
  <2>1. exec'[Poller] = [Away EXCEPT !.pc = "recover", !.step = s, !.why = "turns"]
    BY <1>3, Bounds, FrameShape DEF TakeUp
  <2>2. exec'[Poller].pc = "recover" /\ exec'[Poller].step = s
    BY <2>1 DEF Away
  <2>3. steps'[s].key # 0
    BY <1>3 DEF TakeUp, Candidates, StepsAgree
  <2> QED
    BY <2>2, <2>3 DEF WorksAt, InTurn, Key, Step, Sid
<1> QED
  BY <1>1, <1>2, <1>3

LEMMA SatWorksAt ==
    ASSUME TypeOK, Sitting PROVE WorksAt(Desk)'
<1>1. PICK s \in Existing, pc \in {"resume", "deciding"} : Sit(s, pc) /\ steps[s].turn \in Begun
  BY DEF Sitting, DeskResume, DeskApprove, InStatus
<1>2. exec'[Desk] = [Away EXCEPT !.pc = pc, !.step = s]
  BY <1>1, Bounds, FrameShape DEF Sit
<1>3. exec'[Desk].pc = pc /\ exec'[Desk].step = s
  BY <1>2 DEF Away
<1>4. steps'[s].turn # 0
  BY <1>1, BegunKey DEF Sit, OnlyTurn
<1> QED
  BY <1>3, <1>4 DEF WorksAt, InTurn, Step, Sid

LEMMA ClaimWorksAt ==
    ASSUME TypeOK, RowsAgree, Claiming
    PROVE  WorksAt(Poller)'
<1>1. PICK s \in StepIds : ClaimStep(s)
  BY DEF Claiming
<1>2. ASSUME NEW k \in Keys, Claimed(s, k) PROVE WorksAt(Poller)'
  <2>1. exec'[Poller].pc \in {"recover", "begin"} /\ exec'[Poller].step = s
    <3> DEFINE pc == IF k \in Begun THEN "recover" ELSE "begin"
               why == IF k \in Begun THEN "rerun" ELSE "run"
    <3>1. exec'[Poller] = [Away EXCEPT !.step = s, !.pc = pc, !.why = why]
      BY <1>2, Bounds, FrameShape DEF Claimed
    <3>2. pc \in {"recover", "begin"}
      OBVIOUS
    <3> HIDE DEF pc, why
    <3> QED
      BY <3>1, <3>2 DEF Away
  <2>2. steps'[s].key = k
    BY <1>2 DEF Claimed, TypeOK, StepRows
  <2>3. k # 0
    BY <1>2, Bounds DEF Keys
  <2> QED
    BY <2>1, <2>2, <2>3 DEF WorksAt, InTurn, Key, Step, Sid
<1>3. CASE RunOver
  BY <1>3, RunOverGoes DEF WorksAt, InTurn
<1> QED
  BY <1>1, <1>2, <1>3, ClaimShape

LEMMA SettleWorksAt ==
    ASSUME TypeOK, Holding, Settling
    PROVE  WorksAt(Poller)'
<1>1. exec[Poller] \in Frames
  BY Bounds DEF TypeOK
<1>2. CASE AfterSettle
  BY <1>2, Bounds, AfterSettleGoes DEF Settling, SettleRead, SettleWrite, At, Parts, WorksAt,
     InTurn
<1>3. ASSUME NEW v \in {"done", "failed"},
             exec' = [exec EXCEPT ![Poller].pc = "close", ![Poller].verdict = v]
      PROVE  WorksAt(Poller)'
  <2>1. exec'[Poller].pc = "close" /\ exec'[Poller].verdict = v
    BY <1>1, <1>3, Bounds DEF TypeOK, Frames
  <2> QED
    BY <2>1 DEF WorksAt, InTurn, Settled
<1> QED
  BY <1>2, <1>3 DEF Settling, SettleRead, SettleWrite

LEMMA PassWorksAt ==
    ASSUME TypeOK, Passing
    PROVE  UNCHANGED exec \/ WorksAt(Poller)'
<1>1. exec[Poller] \in Frames
  BY Bounds DEF TypeOK
<1>2. ASSUME NEW pc \in {"stops", "turns", "steps", "idle", "summing"}, Goto(Poller, pc)
      PROVE  WorksAt(Poller)'
  <2>1. exec'[Poller].pc = pc
    BY <1>1, <1>2, Bounds DEF Goto, TypeOK, Frames
  <2> QED
    BY <2>1, Bounds DEF WorksAt, InTurn
<1>3. ASSUME exec' = [exec EXCEPT ![Poller] = [Away EXCEPT !.pc = "settle", !.why = "settle"]]
      PROVE  WorksAt(Poller)'
  <2>1. exec'[Poller] = [Away EXCEPT !.pc = "settle", !.why = "settle"]
    BY <1>3, Bounds, FrameShape
  <2>2. exec'[Poller].pc = "settle"
    BY <2>1 DEF Away
  <2> QED
    BY <2>2 DEF WorksAt, InTurn
<1> QED
  BY <1>2, <1>3 DEF Passing, SettleStage, BeginSteps, Summarize, SetSummary, BeginPass, EndPass

LEMMA WorkingStep ==
    ASSUME TypeOK, RowsAgree, OwnKeys, StepsAgree, TurnsAgree, Holding, Working, Stopping,
           PlanAgrees, Next
    PROVE  Working'
<1> SUFFICES ASSUME NEW d \in Executors PROVE WorksAt(d)'
  BY DEF Working, WorksAt
<1>1. CASE exec'[d] = exec[d]
  BY <1>1, StillWorksAt
<1>2. CASE AtWork(d)
  BY <1>2, RunTurnWorksAt, ContinuationWorksAt, DecideWorksAt, JobWorksAt DEF AtWork
<1>3. CASE Crash(d)
  <2>1. exec'[d] = Away
    BY <1>3, CrashMoves
  <2>2. Away.pc = "idle"
    BY DEF Away
  <2> QED
    BY <2>1, <2>2 DEF WorksAt, InTurn
<1> QED
  BY <1>1, <1>2, <1>3, MovedBy, SettleWorksAt, PassWorksAt, TakenWorksAt, ClaimWorksAt, SatWorksAt

-----------------------------------------------------------------------------
(* Rows and keys.                                                           *)

\* What the job has still to do in a pass are steps there are.
LEMMA TodoKept ==
    ASSUME TypeOK, RowsAgree, RunPoller
    PROVE  poll'.todo \subseteq Existing
<1>0. poll \in Cycles /\ poll.todo \subseteq Existing
  BY DEF TypeOK, RowsAgree
<1>1. CASE UNCHANGED poll
  BY <1>0, <1>1
<1>2. CASE poll' = NextStage \/ poll' = NewCycle
  <2>1. NewCycle.todo = {}
    BY DEF NewCycle
  <2>2. [poll EXCEPT !.stage = @ + 1, !.todo = {}].todo = {}
    BY <1>0 DEF Cycles
  <2> QED
    BY <1>2, <2>1, <2>2 DEF NextStage
<1>3. ASSUME NEW todo \in SUBSET Existing, poll' = [poll EXCEPT !.todo = todo]
      PROVE  poll'.todo \subseteq Existing
  BY <1>0, <1>3 DEF Cycles
<1>4. ASSUME NEW todo \in SUBSET Existing, NEW waits,
             poll' = [poll EXCEPT !.todo = todo, !.waits = waits]
      PROVE  poll'.todo \subseteq Existing
  BY <1>0, <1>4 DEF Cycles
<1>5. CASE RunOver \/ poll' = [poll EXCEPT !.todo = {}, !.touched = TRUE]
  BY <1>0, <1>5 DEF RunOver, Cycles
<1>6. CASE NextCandidate \/ AbortCycle \/ AfterReconcile \/ Continue \/ AfterSettle
  BY <1>1, <1>2, <1>5, <1>6 DEF NextCandidate, AbortCycle, AfterReconcile, Continue, AfterSettle
<1>7. CASE Retire \/ SettleStage \/ Summarize \/ SetSummary \/ EndPass("steps")
           \/ \E op \in {"stops", "turns"} : EndPass(op)
  BY <1>1, <1>2, <1>7 DEF Retire, SettleStage, Summarize, SetSummary, EndPass
<1>8. CASE AckStop \/ Recover \/ RetryUnstarted \/ Apply \/ SettleRead \/ SettleWrite
           \/ RejectInput
  BY <1>1, <1>5, <1>6, <1>8 DEF AckStop, Recover, RetryUnstarted, Apply, SettleRead, SettleWrite,
     RejectInput
<1>9. CASE StopTurn \/ BeginCheck \/ BeginTurn \/ LinkTurn \/ RunTurn(Poller)
           \/ ResumeClaim(Poller) \/ ResumeCheck(Poller)
  BY <1>1, <1>9 DEF StopTurn, BeginCheck, BeginTurn, LinkTurn, RunTurn, ResumeClaim, ResumeCheck,
     Stopped, Reserve, Dispatch, Answered, Uncertain, AskApproval, Finish, OnlyTurn
<1>10. CASE Resume
  <2>1. CASE NextCandidate
    BY <1>6, <2>1
  <2>2. CASE poll' = [poll EXCEPT !.resumed = TRUE]
    BY <1>0, <2>2 DEF Cycles
  <2> QED
    BY <1>10, <2>1, <2>2 DEF Resume
<1>11. CASE BeginSteps
  <2>1. Ready \subseteq Existing
    BY DEF Ready
  <2> QED
    BY <1>2, <1>4, <1>11, <2>1 DEF BeginSteps
<1>12. ASSUME NEW op \in {"stops", "turns"}, BeginPass(op) PROVE poll'.todo \subseteq Existing
  <2>1. Candidates(op) \subseteq Existing
    BY DEF Candidates
  <2> QED
    BY <1>2, <1>3, <1>12, <2>1 DEF BeginPass
<1>13. ASSUME NEW s, NEW op, NEW pc, Skip(op, s) \/ TakeUp(op, s, pc)
       PROVE  poll'.todo \subseteq Existing
  BY <1>0, <1>3, <1>13 DEF Skip, TakeUp
<1>14. ASSUME NEW s \in StepIds, ClaimStep(s) PROVE poll'.todo \subseteq Existing
  BY <1>5, <1>14 DEF ClaimStep
<1>15. ASSUME NEW s \in StepIds, NEW v, CheckCondition(s, v) PROVE poll'.todo \subseteq Existing
  <2>1. s \in Existing
    BY <1>0, <1>15 DEF CheckCondition
  <2>2. PICK todo \in SUBSET Existing, waits \in SUBSET poll.waits : poll' = [poll EXCEPT !.waits = waits, !.todo = todo]
    <3>1. /\ poll' = [poll EXCEPT !.waits = @ \ {s},
                            !.todo = IF plan.state = "active" /\ MayRelease(s) /\ v = "pending"
                                     THEN {s} ELSE @ \ {s}]
          /\ poll.todo \ {s} \subseteq Existing /\ {s} \subseteq Existing
      BY <1>0, <1>15, <2>1 DEF CheckCondition
    <3> DEFINE todo == IF plan.state = "active" /\ MayRelease(s) /\ v = "pending"
                       THEN {s} ELSE poll.todo \ {s}
    <3>2. todo \in SUBSET Existing /\ poll' = [poll EXCEPT !.waits = poll.waits \ {s}, !.todo = todo]
      BY <1>0, <3>1 DEF Cycles
    <3>3. poll.waits \ {s} \in SUBSET poll.waits
      OBVIOUS
    <3> HIDE DEF todo
    <3> QED
      BY <3>2, <3>3
  <2> QED
    BY <1>0, <2>2 DEF Cycles
<1> QED
  BY <1>7, <1>8, <1>9, <1>10, <1>11, <1>12, <1>13, <1>14, <1>15 DEF RunPoller

LEMMA RowsAgreeStep ==
    ASSUME TypeOK, RowsAgree, Next
    PROVE  RowsAgree'
<1>0. rows \in Nat /\ MaxSteps \in Nat
  BY Bounds DEF TypeOK
<1>1. CASE RunPoller
  <2>1. UNCHANGED <<rows, adding>> /\ (told' = told \/ told' = Existing)
    BY <1>1 DEF RunPoller, Retire, StopTurn, AckStop, Recover, RetryUnstarted, Resume, Apply,
       SettleStage, SettleRead, SettleWrite, BeginSteps, BeginCheck, RejectInput, BeginTurn,
       LinkTurn, Summarize, SetSummary, BeginPass, EndPass, Skip, TakeUp, ClaimStep,
       CheckCondition, RunTurn, ResumeClaim, ResumeCheck, Stopped, Reserve, Dispatch, Answered,
       Uncertain, AskApproval, Finish, OnlyTurn, Unchanged
  <2> QED
    BY <1>1, <2>1, TodoKept DEF RowsAgree, Existing
<1>2. CASE UNCHANGED <<rows, adding, told, poll>>
  BY <1>2 DEF RowsAgree, Existing
<1>3. CASE RunDesk
  BY <1>2, <1>3 DEF RunDesk, RunTurn, ResumeClaim, ResumeCheck, Stopped, Reserve, Dispatch,
     Answered, Uncertain, AskApproval, Finish, OnlyTurn, Decide
<1>4. CASE Others
  <2>1. CASE \E after \in SUBSET Existing : AddCheck(after)
    BY <2>1 DEF AddCheck, RowsAgree, Existing
  <2>2. CASE \E waits \in BOOLEAN : AddInsert(waits)
    <3>1. /\ rows' = rows + 1 /\ adding' = {} /\ told' = told /\ poll' = poll
      BY <2>2 DEF AddInsert
    <3>2. Existing \subseteq Existing'
      BY <1>0, <3>1 DEF Existing
    <3> QED
      BY <3>1, <3>2 DEF RowsAgree
  <2>3. CASE \E e \in Executors : Crash(e)
    <3>1. /\ UNCHANGED <<rows, adding, told>> /\ (poll' = poll \/ poll' = NewCycle)
      BY <2>3 DEF Crash
    <3> QED
      BY <3>1 DEF RowsAgree, Existing, NewCycle
  <2>4. CASE \/ CancelPlan \/ TimePasses
             \/ \E s \in Existing : ReleaseStep(s) \/ DeskResume(s) \/ DeskApprove(s)
             \/ \E k \in Keys : ApprovalAges(k)
             \/ \E l \in late : LateCommit(l)
    BY <1>2, <2>4 DEF CancelPlan, TimePasses, ReleaseStep, DeskResume, DeskApprove, Sit, OnlyTurn,
       ApprovalAges, LateCommit
  <2> QED
    BY <1>4, <2>1, <2>2, <2>3, <2>4 DEF Others
<1> QED
  BY <1>1, <1>3, <1>4 DEF Next

\* A turn that may still be opened late is one of an executor that was lost.
LEMMA LateBy ==
    ASSUME Next, NEW l \in late'
    PROVE  l \in late \/ \E e \in Executors : At(e, "open") /\ l = <<Key(e), Sid(e)>>
<1>1. CASE UNCHANGED late
  BY <1>1
<1>2. CASE \E e \in Executors : Crash(e)
  BY <1>2 DEF Crash
<1>3. CASE \E m \in late : LateCommit(m)
  BY <1>3 DEF LateCommit
<1>4. CASE RunPoller \/ RunDesk
  BY <1>4 DEF RunPoller, Retire, StopTurn, AckStop, Recover, RetryUnstarted, Resume, Apply,
     SettleStage, SettleRead, SettleWrite, BeginSteps, BeginCheck, RejectInput, BeginTurn,
     LinkTurn, Summarize, SetSummary, BeginPass, EndPass, Skip, TakeUp, ClaimStep,
     CheckCondition, RunTurn, ResumeClaim, ResumeCheck, Stopped, Reserve, Dispatch, Answered,
     Uncertain, AskApproval, Finish, OnlyTurn, RunDesk, Decide
<1>5. CASE Others
  BY <1>1, <1>2, <1>3, <1>5 DEF Others, AddCheck, AddInsert, CancelPlan, TimePasses, ReleaseStep,
     DeskResume, DeskApprove, Sit, OnlyTurn, ApprovalAges
<1> QED
  BY <1>4, <1>5 DEF Next

LEMMA OwnKeysStep ==
    ASSUME TypeOK, RowsAgree, OwnKeys, StepsAgree, Holding, Working, Stopping, Next
    PROVE  OwnKeys'
<1>0. ASSUME NEW s \in Existing, NEW k \in Keys, steps[s].key = k
      PROVE  s \in Existing' /\ steps'[s].key = k
  BY <1>0, Bounds, StepsKept DEF Kept, Keys
<1>1. ASSUME NEW s \in Existing', NEW t \in Existing', steps'[s].key # 0,
             steps'[s].key = steps'[t].key, s # t
      PROVE  FALSE
  <2>1. ASSUME NEW u \in Existing', NEW w \in Existing', u # w, u \in Existing,
               steps'[u].key \in Unused,
               \A v \in Existing' : v # u => v \in Existing /\ steps'[v].key = steps[v].key
        PROVE  steps'[w].key # steps'[u].key
    BY <2>1 DEF Unused, Drawn
  <2>2. CASE s \in Existing /\ steps'[s].key = steps[s].key /\ t \in Existing
             /\ steps'[t].key = steps[t].key
    <3>1. steps[s].key # 0 /\ steps[s].key = steps[t].key
      BY <1>1, <2>2
    <3>2. s = t
      BY <2>2, <3>1 DEF OwnKeys
    <3> QED
      BY <1>1, <3>2
  <2> QED
    BY <1>1, <2>1, <2>2, KeysDrawn
<1>2. ASSUME NEW k \in Begun'
      PROVE  turns'[k].step \in Existing' /\ steps'[turns'[k].step].key = k
  <2>1. k \in Keys /\ turns'[k].status # "none"
    BY <1>2 DEF Begun
  <2>2. Written(k)
    BY <2>1, TurnsWritten
  <2>3. turns'[k].step \in Existing /\ steps[turns'[k].step].key = k
    BY <2>1, <2>2 DEF Written, Moved, Fresh, OwnKeys
  <2> QED
    BY <1>0, <2>1, <2>3
<1>3. ASSUME NEW l \in late' PROVE l[2] \in Existing' /\ steps'[l[2]].key = l[1]
  <2>1. CASE l \in late
    <3>1. l[2] \in Existing /\ steps[l[2]].key = l[1] /\ l[1] \in Keys
      BY <2>1 DEF OwnKeys, TypeOK
    <3> QED
      BY <1>0, <3>1
  <2>2. ASSUME NEW e \in Executors, At(e, "open"), l = <<Key(e), Sid(e)>>
        PROVE  l[2] \in Existing' /\ steps'[l[2]].key = l[1]
    <3>1. Sid(e) \in Existing /\ Key(e) # 0
      BY <2>2, Holder DEF At, Locked, Working
    <3>2. Key(e) \in Keys /\ steps[Sid(e)].key = Key(e)
      <4>1. Sid(e) \in StepIds
        BY <3>1, Bounds DEF TypeOK, Existing, StepIds
      <4>2. steps[Sid(e)] \in StepRows
        BY <4>1 DEF TypeOK
      <4>3. steps[Sid(e)].key \in 0..MaxTurns
        BY <4>2 DEF StepRows
      <4> QED
        BY <3>1, <4>3, Bounds DEF Key, Step, Keys
    <3> QED
      BY <1>0, <2>2, <3>1, <3>2
  <2> QED
    BY <2>1, <2>2, LateBy
<1> QED
  BY <1>1, <1>2, <1>3 DEF OwnKeys

-----------------------------------------------------------------------------
(* Turns.                                                                   *)

\* A turn is the turn of the step that has its key.
LEMMA TurnOfKey ==
    ASSUME OwnKeys, NEW k \in Begun, NEW s \in Existing, steps[s].key = k
    PROVE  turns[k].step = s
BY BegunKey DEF OwnKeys

LEMMA LinkedTurn ==
    ASSUME OwnKeys, StepsAgree, NEW s \in Existing, steps[s].turn # 0
    PROVE  /\ steps[s].turn = steps[s].key /\ steps[s].turn \in Begun
           /\ turns[steps[s].turn].step = s
BY TurnOfKey DEF StepsAgree

LEMMA ClosedShape ==
    ASSUME TypeOK, NEW k \in Keys
    PROVE  /\ Closed(k).step = turns[k].step /\ Closed(k).open = turns[k].open
           /\ Closed(k).approval \in {"none", "decided"}
           /\ Closed(k).status = IF NeedsReview(k) \/ turns[k].status \in {"running", "waiting"}
                                 THEN "failed" ELSE turns[k].status
           /\ NeedsReview(k) => Closed(k).error = "other"
           /\ Closed(k).refused = (turns[k].refused \/ turns[k].approval \in {"pending", "stale"})
<1> DEFINE r == turns[k]
           review == NeedsReview(k)
           status == IF review \/ r.status \in {"running", "waiting"} THEN "failed" ELSE r.status
           error == IF review THEN "other"
                    ELSE IF r.status \in {"running", "waiting"} THEN "stop" ELSE r.error
           refused == r.refused \/ r.approval \in {"pending", "stale"}
           approval == NotAsked(k)
<1>1. r \in TurnRows
  BY DEF TypeOK
<1>2. Closed(k) = [r EXCEPT !.status = status, !.error = error, !.refused = refused,
                            !.approval = approval]
  BY <1>1 DEF Closed, TurnRows
<1>3. approval \in {"none", "decided"}
  BY DEF NotAsked
<1>4. review => error = "other"
  OBVIOUS
<1> HIDE DEF r, status, error, refused, approval
<1>5. /\ Closed(k).step = r.step /\ Closed(k).open = r.open /\ Closed(k).approval = approval
      /\ Closed(k).status = status /\ Closed(k).error = error /\ Closed(k).refused = refused
  BY <1>1, <1>2 DEF TurnRows
<1> QED
  BY <1>3, <1>4, <1>5 DEF r, status, refused

LEMMA TurnsAgreeStep ==
    ASSUME TypeOK, RowsAgree, OwnKeys, StepsAgree, TurnsAgree, Holding, Working, Stopping, Next
    PROVE  TurnsAgree'
<1> SUFFICES ASSUME NEW k \in Begun'
             PROVE  /\ turns'[k].open =>
                         /\ turns'[k].status \notin {"waiting", "done"}
                         /\ turns'[k].error # "approval_expired" \/ turns'[k].status # "failed"
                         /\ steps'[turns'[k].step].turn = k
                    /\ turns'[k].approval \in {"pending", "stale"} => turns'[k].status = "waiting"
  BY DEF TurnsAgree
<1> DEFINE r == turns[k]
           q == turns'[k]
<1>1. k \in Keys /\ k # 0 /\ q.status # "none" /\ Written(k)
  BY Bounds, TurnsWritten DEF Begun, Keys
<1>2. CASE k \notin Begun
  BY <1>1, <1>2 DEF Written, Fresh
<1>3. ASSUME k \in Begun, steps[r.step].turn = k PROVE steps'[r.step].turn = k
  <2>1. r.step \in Existing
    BY <1>3 DEF OwnKeys
  <2> QED
    BY <1>1, <1>3, <2>1, StepsKept DEF Kept
<1>4. CASE k \in Begun
  <2>1. /\ Moved(k) /\ r \in TurnRows /\ q.step = r.step
        /\ r.open => /\ r.status \notin {"waiting", "done"}
                     /\ r.error # "approval_expired" \/ r.status # "failed"
                     /\ steps'[q.step].turn = k
        /\ r.approval \in {"pending", "stale"} => r.status = "waiting"
    BY <1>1, <1>3, <1>4 DEF Written, Moved, TurnsAgree, TypeOK
  <2>2. CASE q = r
    BY <2>1, <2>2
  <2>3. CASE r.approval = "pending" /\ q = [r EXCEPT !.approval = "stale"]
    BY <2>1, <2>3 DEF TurnRows
  <2>4. CASE q = Closed(k)
    <3>1. /\ q.open = r.open
          /\ r.open => q.status = "failed" /\ q.error = "other"
          /\ q.approval \in {"none", "decided"}
      BY <1>1, <2>4, ClosedShape DEF NeedsReview
    <3> QED
      BY <2>1, <3>1
  <2>5. ASSUME NEW e \in Executors, Key(e) = k, Advanced(e, k)
        PROVE  /\ q.open => /\ q.status \notin {"waiting", "done"}
                            /\ q.error # "approval_expired" \/ q.status # "failed"
                            /\ steps'[q.step].turn = k
               /\ q.approval \in {"pending", "stale"} => q.status = "waiting"
    <3>1. Authorized(e) => steps'[q.step].turn = k
      <4> SUFFICES ASSUME NEW s \in Existing, steps[s].turn = k
                   PROVE  steps'[q.step].turn = k
        BY <2>5 DEF Authorized, PlanForTurn
      <4>1. r.step = s
        BY <1>1, LinkedTurn
      <4> QED
        BY <1>3, <1>4, <2>1, <4>1
    <3> QED
      BY <2>1, <2>5, <3>1 DEF Advanced
  <2>6. CASE Answer(k)
    BY <2>1, <2>6 DEF Answer
  <2> QED
    BY <2>1, <2>2, <2>3, <2>4, <2>5, <2>6 DEF Moved
<1> QED
  BY <1>2, <1>4

-----------------------------------------------------------------------------
(* The state of a step and its claim.                                       *)

Agreeing(r, begun) ==
    /\ r.turn # 0 => r.turn = r.key /\ r.turn \in begun
    /\ r.state = "waiting" => r.key = 0 /\ r.tries = 0
    /\ r.state = "pending" => r.turn = 0 /\ r.tries < MaxAttempts
    /\ r.state \in Moving => r.key # 0

LEMMA AgreeByRow == StepsAgree <=> \A s \in Existing : Agreeing(steps[s], Begun)
BY DEF StepsAgree, Agreeing

LEMMA BegunStays ==
    ASSUME TypeOK, OwnKeys, StepsAgree, Holding, Working, Next
    PROVE  Begun \subseteq Begun'
<1> SUFFICES ASSUME NEW k \in Begun PROVE k \in Begun'
  OBVIOUS
<1>1. k \in Keys /\ Written(k)
  BY TurnsWritten DEF Begun
<1> QED
  BY <1>1 DEF Written, Moved, Begun

\* Another state for the same claim.
LEMMA StateAgrees ==
    ASSUME NEW r \in StepRows, NEW begun, Agreeing(r, begun), NEW state,
           state = "waiting" => r.state = "waiting",
           state = "pending" => r.turn = 0 /\ r.tries < MaxAttempts,
           state \in Moving => r.key # 0
    PROVE  Agreeing([r EXCEPT !.state = state], begun)
<1> DEFINE q == [r EXCEPT !.state = state]
<1>1. q.state = state /\ q.turn = r.turn /\ q.key = r.key /\ q.tries = r.tries
  BY DEF StepRows
<1> HIDE DEF q
<1> QED
  BY <1>1 DEF Agreeing, q

LEMMA StepsAgreeStep ==
    ASSUME TypeOK, RowsAgree, OwnKeys, StepsAgree, Holding, Working, Stopping, Next
    PROVE  StepsAgree'
<1> SUFFICES ASSUME NEW s \in Existing' PROVE Agreeing(steps'[s], Begun')
  BY DEF StepsAgree, Agreeing
<1> DEFINE Goal == Agreeing(steps'[s], Begun')
<1>0. /\ steps \in [StepIds -> StepRows] /\ rows \in Nat /\ Begun \subseteq Begun'
      /\ \A t \in Existing : t \in StepIds /\ steps[t] \in StepRows /\ Agreeing(steps[t], Begun)
  BY AgreeByRow, BegunStays DEF TypeOK, Existing, StepIds
<1>1. ASSUME UNCHANGED rows PROVE s \in Existing /\ s \in StepIds /\ steps[s] \in StepRows
  BY <1>0, <1>1 DEF Existing
<1>2. ASSUME s \in Existing, steps'[s] = steps[s] PROVE Goal
  BY <1>0, <1>2 DEF Agreeing
<1>3. ASSUME s \in Existing, NEW state, steps'[s] = [steps[s] EXCEPT !.state = state],
             state = "waiting" => steps[s].state = "waiting",
             state = "pending" => steps[s].turn = 0 /\ steps[s].tries < MaxAttempts,
             state \in Moving => steps[s].key # 0
      PROVE  Goal
  <2>1. Agreeing(steps[s], Begun') /\ steps[s] \in StepRows
    BY <1>0, <1>3 DEF Agreeing
  <2> QED
    BY <1>3, <2>1, StateAgrees
<1>4. ASSUME NEW t \in Existing, NEW state, steps' = [steps EXCEPT ![t].state = state],
             UNCHANGED rows,
             state = "waiting" => steps[t].state = "waiting",
             state = "pending" => steps[t].turn = 0 /\ steps[t].tries < MaxAttempts,
             state \in Moving => steps[t].key # 0
      PROVE  Goal
  <2>1. CASE s = t
    <3>1. steps'[s] = [steps[s] EXCEPT !.state = state]
      BY <1>0, <1>4, <2>1
    <3> QED
      BY <1>3, <1>4, <2>1, <3>1
  <2>2. CASE s # t
    BY <1>0, <1>1, <1>2, <1>4, <2>2
  <2> QED
    BY <2>1, <2>2
<1>5. ASSUME UNCHANGED <<steps, rows>> PROVE Goal
  BY <1>1, <1>2, <1>5
<1> SUFFICES Goal
  OBVIOUS
<1> HIDE DEF Goal
<1>6. CASE Retire
  <2>1. UNCHANGED rows
    BY <1>6 DEF Retire, Unchanged
  <2>2. steps'[s] = steps[s] \/ steps'[s] = [steps[s] EXCEPT !.state = "failed", !.stopped = TRUE]
    BY <1>0, <1>1, <1>6, <2>1 DEF Retire
  <2>3. ASSUME steps'[s] = [steps[s] EXCEPT !.state = "failed", !.stopped = TRUE] PROVE Goal
    <3>1. /\ steps'[s].state = "failed" /\ steps'[s].turn = steps[s].turn
          /\ steps'[s].key = steps[s].key
      BY <1>1, <2>1, <2>3 DEF StepRows
    <3>2. "failed" \notin Moving
      BY DEF Moving
    <3> QED
      BY <1>0, <1>1, <2>1, <3>1, <3>2 DEF Agreeing, Goal
  <2> QED
    BY <1>1, <1>2, <2>1, <2>2, <2>3
<1>7. ASSUME At(Poller, "retry") \/ At(Poller, "outcome") \/ At(Poller, "open")
             \/ At(Poller, "recover") \/ At(Poller, "link") \/ At(Poller, "stopped")
      PROVE  Sid(Poller) \in Existing
  BY <1>7, Bounds, Holder DEF At, Locked
<1>8. CASE RetryUnstarted
  <2>1. CASE MayLink(Sid(Poller))
    <3> DEFINE t == Sid(Poller)
               state == IF steps[t].tries >= MaxAttempts THEN "failed" ELSE "pending"
    <3>1. t \in Existing /\ steps[t].tries \in Nat /\ steps[t].turn = 0
      BY <1>0, <1>7, <1>8, <2>1 DEF RetryUnstarted, MayLink, StepRows
    <3>2. steps' = [steps EXCEPT ![t].state = state] /\ UNCHANGED rows
      BY <1>8, <2>1 DEF RetryUnstarted, Unstarted, Unchanged
    <3>3. /\ state # "waiting" /\ state \notin Moving
          /\ state = "pending" => steps[t].tries < MaxAttempts
      BY <3>1, Bounds DEF Moving
    <3> HIDE DEF t, state
    <3> QED
      BY <1>4, <3>1, <3>2, <3>3
  <2>2. CASE ~MayLink(Sid(Poller))
    BY <1>5, <1>8, <2>2 DEF RetryUnstarted, Unchanged
  <2> QED
    BY <2>1, <2>2
<1>9. CASE Resume \/ Apply
  <2>1. /\ Sid(Poller) \in Existing /\ Step(Poller).turn # 0 /\ Key(Poller) = Step(Poller).turn
        /\ UNCHANGED rows
    BY <1>7, <1>9, Bounds, LinkedKey DEF Resume, Apply, At, Working, Locked, Unchanged
  <2>2. \/ UNCHANGED steps
        \/ \E state \in {"interrupted", "awaiting_approval", "running", "done", "failed",
                         "needs_review"} :
             steps' = [steps EXCEPT ![Sid(Poller)].state = state]
    <3>1. CASE Resume
      BY <3>1 DEF Resume
    <3>2. CASE Apply
      <4> DEFINE state == IF exec[Poller].why = "failed" THEN "interrupted"
                          ELSE StateFor(Outcome(Key(Poller)))
      <4>1. state \in {"interrupted", "awaiting_approval", "running", "done", "failed",
                       "needs_review"}
        <5>1. turns[Key(Poller)].status \in {"none", "running", "waiting", "done", "failed",
                                             "superseded"}
          <6>1. Key(Poller) \in Keys
            BY <2>1, Bounds, <1>0 DEF Step, StepRows, Keys
          <6> QED
            BY <6>1 DEF TypeOK, TurnRows
        <5> QED
          BY <5>1 DEF StateFor, Outcome
      <4>2. UNCHANGED steps \/ steps' = [steps EXCEPT ![Sid(Poller)].state = state]
        BY <3>2 DEF Apply
      <4> HIDE DEF state
      <4> QED
        BY <4>1, <4>2
    <3> QED
      BY <1>9, <3>1, <3>2
  <2>3. steps[Sid(Poller)].key # 0
    BY <2>1 DEF Key, Step
  <2>4. \A state \in {"interrupted", "awaiting_approval", "running", "done", "failed",
                      "needs_review"} : state # "waiting" /\ state # "pending"
    OBVIOUS
  <2> QED
    BY <1>4, <1>5, <2>1, <2>2, <2>3, <2>4
<1>10. CASE RejectInput
  <2>1. /\ Sid(Poller) \in Existing /\ UNCHANGED rows
        /\ UNCHANGED steps \/ steps' = [steps EXCEPT ![Sid(Poller)].state = "failed"]
    BY <1>7, <1>10 DEF RejectInput, Unchanged
  <2>2. "failed" \notin Moving
    BY DEF Moving
  <2> QED
    BY <1>4, <1>5, <2>1, <2>2
<1>11. CASE \/ \E t \in Existing : ReleaseStep(t)
            \/ \E t \in StepIds : \E v \in {"waiting", "pending", "failed"} : CheckCondition(t, v)
  <2>1. UNCHANGED rows
    BY <1>11 DEF ReleaseStep, CheckCondition, Unchanged
  <2>2. \/ UNCHANGED steps
        \/ \E t \in Existing, v \in {"pending", "failed"} :
             MayRelease(t) /\ steps' = [steps EXCEPT ![t].state = v]
    BY <1>11 DEF ReleaseStep, CheckCondition, RowsAgree
  <2>3. ASSUME NEW t \in Existing, MayRelease(t)
        PROVE  steps[t].turn = 0 /\ steps[t].tries < MaxAttempts
    BY <1>0, <2>3, Bounds DEF MayRelease, Agreeing
  <2>4. "failed" \notin Moving /\ "pending" \notin Moving
    BY DEF Moving
  <2> QED
    BY <1>4, <1>5, <2>1, <2>2, <2>3, <2>4
<1>12. ASSUME NEW e \in Executors, ResumeCheck(e) PROVE Goal
  <2>1. UNCHANGED rows
    BY <1>12 DEF ResumeCheck
  <2>2. \/ steps'[s] = steps[s]
        \/ steps'[s] = [steps[s] EXCEPT !.state = "running"] /\ steps[s].state = "interrupted"
    BY <1>0, <1>1, <1>12, <2>1 DEF ResumeCheck
  <2>3. steps[s].state = "interrupted" => steps[s].key # 0
    BY <1>0, <1>1, <2>1 DEF Agreeing, Moving
  <2> QED
    BY <1>1, <1>2, <1>3, <2>1, <2>2, <2>3
<1>13. CASE AckStop
  <2> DEFINE t == Sid(Poller)
             f == exec[Poller]
  <2>1. t \in Existing /\ UNCHANGED rows
    BY <1>7, <1>13 DEF AckStop, Unchanged
  <2>2. /\ f.turn # 0 => f.turn = steps[t].key /\ f.turn \in Begun
        /\ f.verdict \in {"done", "failed", "needs_review"}
    BY <1>13, Bounds DEF AckStop, At, Stopping, TypeOK, Frames
  <2>3. CASE s # t
    <3>1. steps'[s] = steps[s]
      BY <1>0, <1>1, <1>13, <2>1, <2>3 DEF AckStop
    <3> QED
      BY <1>1, <1>2, <2>1, <3>1
  <2>4. CASE s = t /\ ~steps[t].stopped
    <3>1. steps'[s] = [steps[s] EXCEPT !.state = f.verdict, !.turn = f.turn, !.stopped = TRUE]
      BY <1>0, <1>13, <2>1, <2>4 DEF AckStop
    <3>2. /\ steps'[s].state = f.verdict /\ steps'[s].turn = f.turn
          /\ steps'[s].key = steps[s].key
      BY <1>0, <2>1, <2>4, <3>1 DEF StepRows
    <3> QED
      BY <1>0, <2>2, <2>4, <3>2 DEF Agreeing, Moving, Goal
  <2>5. CASE steps[t].stopped
    BY <1>5, <1>13, <2>1, <2>5 DEF AckStop
  <2> QED
    BY <2>3, <2>4, <2>5
<1>14. CASE Recover \/ LinkTurn
  <2> DEFINE t == Sid(Poller)
             k == Key(Poller)
  <2>1. t \in Existing /\ UNCHANGED rows
    BY <1>7, <1>14 DEF Recover, LinkTurn, Unchanged
  <2>2. \/ UNCHANGED steps
        \/ k \in Begun /\ MayLink(t) /\ steps' = [steps EXCEPT ![t].turn = k]
    BY <1>14, Bounds DEF Recover, LinkTurn, Working, At
  <2>3. ASSUME k \in Begun, MayLink(t), steps' = [steps EXCEPT ![t].turn = k], s = t PROVE Goal
    <3>1. /\ steps'[s].state = "running" /\ steps'[s].turn = k /\ steps'[s].key = steps[s].key
      BY <1>0, <2>1, <2>3 DEF MayLink, StepRows
    <3>2. steps[s].key = k /\ k # 0
      BY <2>3, BegunKey DEF Key, Step
    <3> QED
      BY <1>0, <2>3, <3>1, <3>2 DEF Agreeing, Goal
  <2>4. ASSUME steps' = [steps EXCEPT ![t].turn = k], s # t PROVE Goal
    BY <1>0, <1>1, <1>2, <2>1, <2>4
  <2> QED
    BY <1>5, <2>1, <2>2, <2>3, <2>4
<1>15. ASSUME NEW t \in StepIds, ClaimStep(t) PROVE Goal
  <2>1. UNCHANGED rows
    BY <1>15 DEF ClaimStep, Unchanged
  <2>2. ASSUME NEW k \in Keys, Claimed(t, k) PROVE Goal
    <3>1. CASE s = t
      <4>1. steps'[s].state = "running" /\ steps'[s].turn = 0 /\ steps'[s].key = k
        BY <1>0, <2>2, <3>1 DEF Claimed, StepRows
      <4> QED
        BY <2>2, <4>1, Bounds DEF Agreeing, Keys, Goal
    <3>2. CASE s # t
      <4>1. steps'[s] = steps[s]
        BY <1>0, <1>1, <2>1, <2>2, <3>2 DEF Claimed
      <4> QED
        BY <1>1, <1>2, <2>1, <4>1
    <3> QED
      BY <3>1, <3>2
  <2> QED
    BY <1>5, <1>15, <2>1, <2>2, ClaimShape
<1>16. ASSUME NEW waits \in BOOLEAN, AddInsert(waits) PROVE Goal
  <2>1. rows' = rows + 1 /\ rows < MaxSteps
    BY <1>16 DEF AddInsert, RowsAgree
  <2>2. s = rows + 1 \/ (s \in Existing /\ rows + 1 # s)
    BY <1>0, <2>1 DEF Existing
  <2>3. CASE s = rows + 1
    <3>1. s \in StepIds
      BY <1>0, <2>1, <2>3, Bounds DEF StepIds
    <3>2. /\ steps'[s].state \in {"waiting", "pending"} /\ steps'[s].key = 0
          /\ steps'[s].turn = 0 /\ steps'[s].tries = 0
      BY <1>0, <1>16, <2>3, <3>1 DEF AddInsert, NoStep
    <3> QED
      BY <3>2, Bounds DEF Agreeing, Moving, Goal
  <2>4. CASE s \in Existing /\ rows + 1 # s
    <3>1. steps'[s] = steps[s]
      BY <1>0, <1>16, <2>4 DEF AddInsert
    <3> QED
      BY <1>2, <2>4, <3>1
  <2> QED
    BY <2>2, <2>3, <2>4
<1> QED
  BY <1>5, <1>6, <1>8, <1>9, <1>10, <1>11, <1>12, <1>13, <1>14, <1>15, <1>16, StepWriters
  DEF WritesSteps

-----------------------------------------------------------------------------
(* The plan.                                                                *)

\* Once the plan is over only stop cleanup writes about its steps.
LEMMA OverIsStill ==
    ASSUME TypeOK, RowsAgree, Next, plan.state # "active", NEW s \in Existing
    PROVE  \/ steps'[s] = steps[s]
           \/ /\ AckStop /\ s = Sid(Poller) /\ ~steps[s].stopped
              /\ steps'[s] = [steps[s] EXCEPT !.state = exec[Poller].verdict,
                                              !.turn = exec[Poller].turn, !.stopped = TRUE]
<1>0. /\ steps \in [StepIds -> StepRows] /\ rows \in Nat /\ s \in StepIds
  BY DEF TypeOK, Existing, StepIds
<1>1. ~Live
  BY DEF Live
<1>2. CASE UNCHANGED steps
  BY <1>2
<1>3. CASE AckStop
  BY <1>0, <1>3 DEF AckStop
<1>4. CASE Retire
  BY <1>2, <1>4 DEF Retire
<1>5. CASE Recover \/ LinkTurn \/ RetryUnstarted \/ RejectInput
  BY <1>1, <1>2, <1>5 DEF Recover, LinkTurn, RetryUnstarted, RejectInput, MayLink
<1>6. CASE Resume \/ Apply
  BY <1>1, <1>2, <1>6 DEF Resume, Apply, Holds
<1>7. CASE \/ \E t \in Existing : ReleaseStep(t)
           \/ \E t \in StepIds : \E v \in {"waiting", "pending", "failed"} : CheckCondition(t, v)
  BY <1>1, <1>2, <1>7 DEF ReleaseStep, CheckCondition, MayRelease
<1>8. CASE \E e \in Executors : ResumeCheck(e)
  BY <1>0, <1>1, <1>8 DEF ResumeCheck
<1>9. CASE \E t \in StepIds : ClaimStep(t)
  BY <1>2, <1>9 DEF ClaimStep
<1>10. CASE \E waits \in BOOLEAN : AddInsert(waits)
  <2>1. s # rows + 1
    BY <1>0 DEF Existing
  <2> QED
    BY <1>0, <1>10, <2>1 DEF AddInsert
<1> QED
  BY <1>2, <1>3, <1>4, <1>5, <1>6, <1>7, <1>8, <1>9, <1>10, StepWriters DEF WritesSteps

LEMMA PlanWriters ==
    ASSUME Next
    PROVE  /\ UNCHANGED plan \/ CancelPlan \/ Retire \/ SettleWrite \/ SetSummary
           /\ UNCHANGED told \/ (Summarize /\ MaySummarize)
<1>1. CASE RunPoller
  BY <1>1 DEF RunPoller, Retire, StopTurn, AckStop, Recover, RetryUnstarted, Resume, Apply,
     SettleStage, SettleRead, SettleWrite, BeginSteps, BeginCheck, RejectInput, BeginTurn,
     LinkTurn, Summarize, SetSummary, BeginPass, EndPass, Skip, TakeUp, ClaimStep,
     CheckCondition, RunTurn, ResumeClaim, ResumeCheck, Stopped, Reserve, Dispatch, Answered,
     Uncertain, AskApproval, Finish, OnlyTurn
<1>2. CASE RunDesk
  BY <1>2 DEF RunDesk, RunTurn, ResumeClaim, ResumeCheck, Stopped, Reserve, Dispatch,
     Answered, Uncertain, AskApproval, Finish, OnlyTurn, Decide
<1>3. CASE Others
  BY <1>3 DEF Others, AddCheck, AddInsert, CancelPlan, TimePasses, ReleaseStep, DeskResume,
     DeskApprove, Sit, OnlyTurn, ApprovalAges, Crash, LateCommit
<1> QED
  BY <1>1, <1>2, <1>3 DEF Next

\* A plan that is over stays so, and its summary is given once.
LEMMA PlanKept ==
    ASSUME TypeOK, Holding, Working, PlanAgrees, Next
    PROVE  /\ plan.state # "active" => plan'.state # "active" /\ plan'.stop = plan.stop
           /\ plan.summary => plan'.summary
           /\ plan.stop # "" => plan'.stop # ""
           /\ plan'.stop # "" \/ plan'.summary => plan'.state # "active"
           /\ plan'.summary /\ ~plan.summary => SetSummary /\ MaySummarize /\ plan'.stop = plan.stop
<1>0. plan \in PlanRows /\ (plan.stop # "" \/ plan.summary => plan.state # "active")
  BY DEF TypeOK, PlanAgrees
<1>1. CASE UNCHANGED plan
  BY <1>0, <1>1
<1>2. CASE CancelPlan
  BY <1>0, <1>2 DEF CancelPlan, PlanRows
<1>3. CASE Retire
  BY <1>0, <1>3 DEF Retire, PlanRows
<1>4. CASE SettleWrite
  <2>1. exec[Poller].verdict # "active"
    BY <1>4, Bounds DEF SettleWrite, At, Working, Settled
  <2> QED
    BY <1>0, <1>4, <2>1 DEF SettleWrite, PlanRows
<1>5. CASE SetSummary
  BY <1>0, <1>5 DEF SetSummary, MaySummarize, PlanRows
<1> QED
  BY <1>1, <1>2, <1>3, <1>4, <1>5, PlanWriters

LEMMA PlanAgreesStep ==
    ASSUME TypeOK, RowsAgree, StepsAgree, Holding, Working, Stopping, PlanAgrees, Next
    PROVE  PlanAgrees'
<1>1. plan'.stop # "" \/ plan'.summary => plan'.state # "active"
  BY PlanKept
<1>2. ASSUME NEW s \in Existing', steps'[s].stopped PROVE plan'.stop # ""
  <2>1. s \in Existing /\ steps[s].stopped => plan.stop # ""
    BY DEF PlanAgrees
  <2>2. AckStop => plan.stop # ""
    BY DEF AckStop, At, Stopping
  <2> QED
    BY <1>2, <2>1, <2>2, StoppedBy, PlanKept
<1>3. ASSUME plan'.summary, NEW s \in told'
      PROVE  steps'[s].state \notin Moving /\ (plan'.stop # "" => steps'[s].stopped)
  <2>1. CASE ~plan.summary
    <3>1. SetSummary /\ MaySummarize /\ plan'.stop = plan.stop
      BY <1>3, <2>1, PlanKept
    <3>2. told' = told /\ steps' = steps /\ s \in Existing
      BY <1>3, <3>1 DEF SetSummary, RowsAgree
    <3> QED
      BY <3>1, <3>2 DEF MaySummarize, Unfinished
  <2>2. CASE plan.summary
    <3>1. s \in told /\ s \in Existing
      BY <1>3, <2>2, PlanWriters DEF MaySummarize, RowsAgree
    <3>2. /\ plan.state # "active" /\ plan'.stop = plan.stop
          /\ steps[s].state \notin Moving /\ (plan.stop # "" => steps[s].stopped)
      BY <2>2, <3>1, PlanKept DEF PlanAgrees
    <3>3. CASE steps'[s] = steps[s]
      BY <3>2, <3>3
    <3>4. CASE /\ AckStop /\ s = Sid(Poller)
               /\ steps'[s] = [steps[s] EXCEPT !.state = exec[Poller].verdict,
                                               !.turn = exec[Poller].turn, !.stopped = TRUE]
      <4>1. exec[Poller].verdict \in {"done", "failed", "needs_review"}
        BY <3>4, Bounds DEF AckStop, At, Stopping, TypeOK, Frames
      <4>2. steps[s] \in StepRows
        BY <3>1 DEF TypeOK, Existing, StepIds
      <4>3. steps'[s].state = exec[Poller].verdict /\ steps'[s].stopped
        BY <3>4, <4>2 DEF StepRows
      <4> QED
        BY <4>1, <4>3 DEF Moving
    <3> QED
      BY <3>1, <3>2, <3>3, <3>4, OverIsStill
  <2> QED
    BY <2>1, <2>2
<1> QED
  BY <1>1, <1>2, <1>3 DEF PlanAgrees

-----------------------------------------------------------------------------
(* Stop cleanup.                                                            *)

\* Nothing but its own steps brings the job to stop cleanup, and nothing but a
\* dispatch an executor to an operation.
LEMMA ArrivedBy ==
    ASSUME TypeOK, RowsAgree, StepsAgree, Holding, Stopping, Next, NEW d \in Executors,
           exec'[d] # exec[d], exec'[d].pc \in {"stopping", "stopped", "acting"}
    PROVE  \/ exec'[d].pc = "acting" /\ Dispatch(d)
           \/ d = Poller /\ (StopTurn \/ \E s \in StepIds : TakeUp("stops", s, "stopping"))
<1> DEFINE Goal == \/ exec'[d].pc = "acting" /\ Dispatch(d)
                   \/ d = Poller /\ (StopTurn \/ \E s \in StepIds : TakeUp("stops", s, "stopping"))
<1>1. ASSUME Parts(d) PROVE FALSE
  BY <1>1 DEF Parts
<1>2. ASSUME NEW pc, Stays(d, pc), pc \notin {"stopping", "stopped", "acting"} PROVE FALSE
  BY <1>2 DEF Stays
<1>3. exec[Poller] \in Frames
  BY Bounds DEF TypeOK
<1>4. ASSUME NEW f, exec' = [exec EXCEPT ![Poller] = f], f.pc \notin {"stopping", "stopped", "acting"}
      PROVE  d # Poller
  BY <1>4, Bounds, FrameShape
<1> SUFFICES Goal
  OBVIOUS
<1> HIDE DEF Goal
<1>5. ASSUME RunTurn(d) PROVE Goal
  <2>1. ASSUME Stays(d, "acting") /\ Dispatch(d) PROVE Goal
    BY <2>1 DEF Stays, Goal
  <2> QED
    BY <1>1, <1>2, <1>5, <2>1, RunTurnGoes
<1>6. ASSUME ResumeClaim(d) \/ ResumeCheck(d) PROVE Goal
  BY <1>1, <1>2, <1>6, ContinuationGoes
<1>7. CASE AtWork(d) /\ d = Poller
  <2>1. CASE RunTurn(d)
    BY <1>5, <2>1
  <2>2. CASE ResumeClaim(d) \/ ResumeCheck(d)
    BY <1>6, <2>2
  <2>3. CASE AckStop \/ RejectInput
    BY <1>1, <1>7, <2>3, NextCandidateGoes, RunOverGoes DEF AckStop, RejectInput
  <2>4. CASE Recover
    <3>1. \/ Goto(Poller, "outcome") /\ UNCHANGED lock
          \/ Goto(Poller, "retry") /\ UNCHANGED lock
          \/ NextCandidate \/ AbortCycle
      BY <2>4 DEF Recover
    <3> QED
      BY <1>1, <1>2, <1>7, <3>1, Bounds, GotoShape, NextCandidateGoes, AbortCycleGoes
  <2>5. CASE RetryUnstarted \/ Apply
    <3>1. Continue /\ lock = Poller
      BY <2>5, Bounds, Holder DEF RetryUnstarted, Apply, At, Locked
    <3> QED
      BY <1>1, <1>2, <1>7, <3>1, ContinueGoes
  <2>6. CASE Resume
    BY <1>1, <1>2, <1>7, <2>6, ResumeGoes
  <2>7. CASE BeginCheck \/ BeginTurn \/ LinkTurn
    <3>1. /\ UNCHANGED lock
          /\ Goto(Poller, "open") \/ Goto(Poller, "link") \/ Goto(Poller, "loop") \/ Interrupted
      BY <2>7 DEF BeginCheck, BeginTurn, LinkTurn
    <3> QED
      BY <1>2, <1>7, <3>1, Bounds, GotoShape, InterruptedGoes
  <2>8. StopTurn => Goal
    BY <1>7 DEF Goal
  <2> QED
    BY <1>7, <2>1, <2>2, <2>3, <2>4, <2>5, <2>6, <2>7, <2>8, Bounds DEF AtWork
<1>8. CASE AtWork(d) /\ d = Desk
  <2>1. ASSUME NEW yes \in BOOLEAN, Decide(yes) PROVE FALSE
    BY <1>1, <1>2, <1>8, <2>1, DecideGoes
  <2> QED
    BY <1>5, <1>6, <1>8, <2>1, Bounds DEF AtWork
<1>9. CASE d = Desk /\ Sitting
  <2>1. PICK s \in Existing, pc \in {"resume", "deciding"} : Sit(s, pc)
    BY <1>9 DEF Sitting, DeskResume, DeskApprove
  <2>2. exec'[Desk] = [Away EXCEPT !.pc = pc, !.step = s]
    BY <2>1, Bounds, FrameShape DEF Sit
  <2>3. exec'[Desk].pc = pc
    BY <2>2 DEF Away
  <2> QED
    BY <1>9, <2>3
<1>10. CASE Crash(d)
  <2>1. exec'[d] = Away
    BY <1>10, CrashMoves
  <2>2. Away.pc = "idle"
    BY DEF Away
  <2> QED
    BY <2>1, <2>2
<1>11. CASE d = Poller /\ Settling
  <2>1. CASE AfterSettle
    BY <1>1, <1>11, <2>1, AfterSettleGoes DEF Settling, SettleRead, SettleWrite, At
  <2>2. ASSUME NEW v, exec' = [exec EXCEPT ![Poller].pc = "close", ![Poller].verdict = v]
        PROVE  FALSE
    <3>1. exec'[Poller].pc = "close"
      BY <1>3, <2>2, Bounds DEF TypeOK, Frames
    <3> QED
      BY <1>11, <3>1
  <2> QED
    BY <1>11, <2>1, <2>2 DEF Settling, SettleRead, SettleWrite
<1>12. CASE d = Poller /\ Passing
  <2>1. ASSUME NEW pc \in {"stops", "turns", "steps", "idle", "summing"}, Goto(Poller, pc)
        PROVE  FALSE
    <3>1. exec'[Poller].pc = pc
      BY <1>3, <2>1, Bounds DEF Goto, TypeOK, Frames
    <3> QED
      BY <1>12, <3>1
  <2>2. [Away EXCEPT !.pc = "settle", !.why = "settle"].pc = "settle"
    BY DEF Away
  <2> QED
    BY <1>4, <1>12, <2>1, <2>2 DEF Passing, SettleStage, BeginSteps, Summarize, SetSummary,
       BeginPass, EndPass
<1>13. CASE d = Poller /\ Taking
  <2>1. ASSUME NEW s, TakeUp("turns", s, "recover") PROVE FALSE
    <3>1. [Away EXCEPT !.pc = "recover", !.step = s, !.why = "turns"].pc = "recover"
      BY DEF Away
    <3> QED
      BY <1>4, <1>13, <2>1, <3>1 DEF TakeUp
  <2> QED
    BY <1>13, <2>1 DEF Taking, Goal
<1>14. CASE d = Poller /\ Claiming
  <2>1. PICK s \in StepIds : ClaimStep(s)
    BY <1>14 DEF Claiming
  <2>2. ASSUME NEW k \in Keys, Claimed(s, k) PROVE FALSE
    <3> DEFINE pc == IF k \in Begun THEN "recover" ELSE "begin"
               why == IF k \in Begun THEN "rerun" ELSE "run"
    <3>1. exec'[Poller] = [Away EXCEPT !.step = s, !.pc = pc, !.why = why]
      BY <2>2, Bounds, FrameShape DEF Claimed
    <3>2. pc \in {"recover", "begin"}
      OBVIOUS
    <3> HIDE DEF pc, why
    <3>3. exec'[Poller].pc = pc
      BY <3>1 DEF Away
    <3> QED
      BY <1>14, <3>2, <3>3
  <2> QED
    BY <1>1, <1>14, <2>1, <2>2, ClaimShape, RunOverGoes
<1>15. d = Poller \/ d = Desk
  BY DEF Executors
<1> QED
  BY <1>7, <1>10, <1>11, <1>12, <1>13, <1>14, <1>8, <1>9, <1>15, MovedBy

\* What it found and closed is what it is going to write.
LEMMA StopTurnAgrees ==
    ASSUME TypeOK, OwnKeys, StepsAgree, TurnsAgree, Holding, Stopping, Earned, Next, StopTurn,
           exec'[Poller].pc \in {"stopping", "stopped"}
    PROVE  Stopping'
<1> DEFINE s == Sid(Poller)
           k == TurnOf(s)
           v == exec'[Poller].verdict
<1>1. /\ s \in Existing /\ plan.stop # "" /\ UNCHANGED <<plan, steps>>
      /\ Sid(Poller)' = s /\ exec'[Poller].turn = k /\ exec'[Poller].pc = "stopped"
      /\ turns' = turns \/ (k # 0 /\ turns' = [turns EXCEPT ![k] = Closed(k)])
      /\ k = 0 => turns' = turns
      /\ k # 0 => turns' = [turns EXCEPT ![k] = Closed(k)]
  BY Bounds, Holder, StopTurnGoes DEF StopTurn, At, Locked, Stopping, Stays, Sid
<1>2. /\ v = "done" => \/ k = 0 /\ steps[s].state = "done"
                       \/ k # 0 /\ Completed(k)
      /\ v # "needs_review" /\ k # 0 => ~NeedsReview(k)
      /\ v # ""
  BY StopTurnGoes DEF Step
<1> HIDE DEF v
<1>3. /\ k # 0 => k = steps[s].key /\ k \in Begun /\ k \in Keys
      /\ steps[s].turn # 0 => k = steps[s].turn
      /\ k = 0 => steps[s].turn = 0 /\ steps[s].key \notin Begun
  BY <1>1, LinkedTurn, BegunKey DEF TurnOf
<1>4. ASSUME k # 0
      PROVE  /\ turns'[k] = Closed(k) /\ turns[k] \in TurnRows
             /\ turns[k].status # "none" /\ Closed(k).status # "none"
  BY <1>1, <1>3, <1>4, ClosedShape DEF TypeOK, Begun
<1> HIDE DEF k
<1>5. \A j \in Begun' : /\ j \in Begun /\ turns'[j].step = turns[j].step
                        /\ j # k => turns'[j] = turns[j]
  BY <1>1, <1>3, <1>4, ClosedShape DEF Begun, TypeOK
<1>6. k # 0 => k \in Begun'
  BY <1>3, <1>4 DEF Begun
<1>7. ASSUME v = "done"
      PROVE  k # 0 /\ turns'[k].status = "done" /\ ~turns'[k].refused
  <2>1. k # 0
    BY <1>1, <1>2, <1>3, <1>7 DEF Earned
  <2>2. turns[k].status = "done" /\ ~turns[k].refused /\ ~NeedsReview(k)
    BY <1>2, <1>7, <2>1 DEF Completed
  <2>3. turns[k].approval \notin {"pending", "stale"}
    BY <1>3, <2>1, <2>2 DEF TurnsAgree
  <2> QED
    BY <1>3, <1>4, <2>1, <2>2, <2>3, ClosedShape
<1>8. ASSUME NEW j \in Begun', turns'[j].step = s
      PROVE  /\ turns'[j].approval \notin {"pending", "stale"}
             /\ v # "needs_review" => ~turns'[j].open
  <2>1. j \in Begun /\ steps[s].key = j
    BY <1>5, <1>8 DEF OwnKeys
  <2>2. j = k /\ k # 0
    BY <1>3, <2>1, BegunKey
  <2>3. NeedsReview(k) \/ ~turns[k].open
    BY DEF NeedsReview
  <2> QED
    BY <1>2, <1>3, <1>4, <2>2, <2>3, ClosedShape
<1> QED
  BY <1>1, <1>2, <1>3, <1>6, <1>7, <1>8 DEF Stopping, v

LEMMA StoppingStep ==
    ASSUME TypeOK, RowsAgree, OwnKeys, StepsAgree, TurnsAgree, Holding, Working, Stopping,
           PlanAgrees, Earned, Next
    PROVE  Stopping'
<1>1. CASE exec'[Poller].pc \notin {"stopping", "stopped"}
  BY <1>1 DEF Stopping
<1>2. CASE exec'[Poller] = exec[Poller] /\ exec[Poller].pc \in {"stopping", "stopped"}
  <2> DEFINE s == Sid(Poller)
             t == exec[Poller].turn
             v == exec[Poller].verdict
  <2>1. plan'.stop # ""
    BY <1>2, PlanKept DEF Stopping
  <2>2. exec[Poller].pc \in Locked
    BY <1>2 DEF Locked
  <2>3. /\ Sid(Poller)' = s /\ exec'[Poller].turn = t /\ exec'[Poller].verdict = v
        /\ exec'[Poller].pc = exec[Poller].pc
        /\ steps'[s].key = steps[s].key /\ steps'[s].turn = steps[s].turn
    BY <1>2, <2>2, Bounds, StillStep
  <2>4. ASSUME NEW k \in Begun
        PROVE  /\ k \in Begun' /\ turns'[k].step = turns[k].step
               /\ turns'[k].status = turns[k].status /\ turns'[k].open = turns[k].open
               /\ turns'[k].refused = turns[k].refused
               /\ turns'[k].approval = turns[k].approval \/ turns[k].approval = "pending"
    BY <1>2, <2>2, Bounds, StillTurn
  <2>5. CASE exec[Poller].pc = "stopped"
    <3>1. /\ t # 0 => t = steps[s].key /\ t \in Begun
          /\ steps[s].turn # 0 => t = steps[s].turn
          /\ v # ""
          /\ v = "done" => t # 0 /\ turns[t].status = "done" /\ ~turns[t].refused
          /\ \A k \in Begun : turns[k].step = s =>
               /\ turns[k].approval \notin {"pending", "stale"}
               /\ v # "needs_review" => ~turns[k].open
      BY <2>5 DEF Stopping
    <3>2. ASSUME NEW k \in Begun', turns'[k].step = s
          PROVE  /\ turns'[k].approval \notin {"pending", "stale"}
                 /\ v # "needs_review" => ~turns'[k].open
      <4>1. CASE k \in Begun
        BY <2>4, <3>1, <3>2, <4>1
      <4>2. CASE k \notin Begun
        <5>1. k \in Keys /\ turns'[k].status # "none" /\ Written(k)
          BY TurnsWritten DEF Begun
        <5> QED
          BY <4>2, <5>1 DEF Written, Fresh
      <4> QED
        BY <4>1, <4>2
    <3>3. /\ t # 0 => t = steps'[s].key /\ t \in Begun'
          /\ steps'[s].turn # 0 => t = steps'[s].turn
          /\ v # ""
          /\ v = "done" => t # 0 /\ turns'[t].status = "done" /\ ~turns'[t].refused
      BY <2>3, <2>4, <3>1
    <3> QED
      BY <2>1, <2>3, <3>2, <3>3 DEF Stopping
  <2>6. CASE exec[Poller].pc # "stopped"
    BY <2>1, <2>3, <2>6 DEF Stopping
  <2> QED
    BY <2>5, <2>6
<1>3. CASE exec'[Poller] # exec[Poller] /\ exec'[Poller].pc \in {"stopping", "stopped"}
  <2>1. CASE StopTurn
    BY <1>3, <2>1, StopTurnAgrees
  <2>2. ASSUME NEW s \in StepIds, TakeUp("stops", s, "stopping") PROVE Stopping'
    <3>1. exec'[Poller] = [Away EXCEPT !.pc = "stopping", !.step = s, !.why = "stops"]
      BY <2>2, Bounds, FrameShape DEF TakeUp
    <3>2. exec'[Poller].pc = "stopping"
      BY <3>1 DEF Away
    <3>3. plan'.stop # ""
      BY <2>2 DEF TakeUp, Candidates
    <3> QED
      BY <3>2, <3>3 DEF Stopping
  <2> QED
    BY <1>3, <2>1, <2>2, Bounds, ArrivedBy
<1> QED
  BY <1>1, <1>2, <1>3

-----------------------------------------------------------------------------
(* What a step that is over says of its turn.                               *)

\* How a step comes to count as over.
LEMMA SettledBy ==
    ASSUME TypeOK, RowsAgree, OwnKeys, Holding, Next, NEW s \in Existing', steps'[s].state \in Settled
    PROVE  /\ s \in Existing
           /\ \/ steps'[s].state = steps[s].state
              \/ UNCHANGED turns /\ steps[s].turn = 0 /\ steps'[s].state = "failed"
              \/ /\ AckStop /\ s = Sid(Poller)
                 /\ steps'[s].state = exec[Poller].verdict /\ steps'[s].turn = exec[Poller].turn
              \/ /\ Apply /\ s = Sid(Poller) /\ steps[s].turn = Key(Poller)
                 /\ steps'[s].turn = Key(Poller)
                 /\ steps'[s].state = StateFor(Outcome(Key(Poller)))
<1> DEFINE Goal ==
             /\ s \in Existing
             /\ \/ steps'[s].state = steps[s].state
                \/ UNCHANGED turns /\ steps[s].turn = 0 /\ steps'[s].state = "failed"
                \/ /\ AckStop /\ s = Sid(Poller)
                   /\ steps'[s].state = exec[Poller].verdict /\ steps'[s].turn = exec[Poller].turn
                \/ /\ Apply /\ s = Sid(Poller) /\ steps[s].turn = Key(Poller)
                   /\ steps'[s].turn = Key(Poller)
                   /\ steps'[s].state = StateFor(Outcome(Key(Poller)))
<1>0. /\ steps \in [StepIds -> StepRows] /\ rows \in Nat
      /\ \A t \in Existing : t \in StepIds /\ steps[t] \in StepRows
  BY DEF TypeOK, Existing, StepIds
<1>1. ASSUME UNCHANGED rows PROVE s \in Existing /\ s \in StepIds /\ steps[s] \in StepRows
  BY <1>0, <1>1 DEF Existing
<1>2. ASSUME UNCHANGED rows, steps'[s] = steps[s] PROVE Goal
  BY <1>1, <1>2
<1>3. ASSUME NEW t, NEW state, steps' = [steps EXCEPT ![t].state = state],
             UNCHANGED <<rows, turns>>,
             state \in Settled => (t \in Existing => state = "failed" /\ steps[t].turn = 0)
      PROVE  Goal
  <2>1. s \in Existing /\ s \in StepIds /\ steps[s] \in StepRows
    BY <1>1, <1>3
  <2>2. CASE s = t
    <3>1. steps'[s] = [steps[s] EXCEPT !.state = state]
      BY <1>0, <1>3, <2>1, <2>2
    <3>2. steps'[s].state = state
      BY <2>1, <3>1 DEF StepRows
    <3> QED
      BY <1>3, <2>1, <2>2, <3>2
  <2>3. CASE s # t
    BY <1>0, <1>2, <1>3, <2>1, <2>3
  <2> QED
    BY <2>2, <2>3
<1> SUFFICES Goal
  OBVIOUS
<1>4. CASE Retire
  <2>1. UNCHANGED <<rows, turns>>
    BY <1>4 DEF Retire, Unchanged
  <2>2. \/ steps'[s] = steps[s]
        \/ /\ NeverClaimed(s) /\ steps'[s] = [steps[s] EXCEPT !.state = "failed", !.stopped = TRUE]
    BY <1>0, <1>1, <1>4, <2>1 DEF Retire
  <2>3. ASSUME NeverClaimed(s),
               steps'[s] = [steps[s] EXCEPT !.state = "failed", !.stopped = TRUE]
        PROVE  Goal
    <3>1. steps'[s].state = "failed" /\ steps[s].turn = 0
      BY <1>1, <2>1, <2>3 DEF StepRows, NeverClaimed
    <3> QED
      BY <1>1, <2>1, <3>1
  <2> QED
    BY <1>2, <2>1, <2>2, <2>3
<1>5. CASE AckStop
  <2>1. UNCHANGED rows
    BY <1>5 DEF AckStop, Unchanged
  <2>2. \/ steps'[s] = steps[s]
        \/ /\ s = Sid(Poller)
           /\ steps'[s] = [steps[s] EXCEPT !.state = exec[Poller].verdict,
                                           !.turn = exec[Poller].turn, !.stopped = TRUE]
    BY <1>0, <1>1, <1>5, <2>1 DEF AckStop
  <2>3. ASSUME s = Sid(Poller),
               steps'[s] = [steps[s] EXCEPT !.state = exec[Poller].verdict,
                                            !.turn = exec[Poller].turn, !.stopped = TRUE]
        PROVE  Goal
    <3>1. steps'[s].state = exec[Poller].verdict /\ steps'[s].turn = exec[Poller].turn
      BY <1>1, <2>1, <2>3 DEF StepRows
    <3> QED
      BY <1>1, <1>5, <2>1, <2>3, <3>1
  <2> QED
    BY <1>2, <2>1, <2>2, <2>3
<1>6. CASE Apply
  <2> DEFINE state == IF exec[Poller].why = "failed" THEN "interrupted"
                      ELSE StateFor(Outcome(Key(Poller)))
  <2>1. UNCHANGED rows
    BY <1>6 DEF Apply, Unchanged
  <2>2. \/ UNCHANGED steps
        \/ /\ Holds(Sid(Poller), Key(Poller))
           /\ steps' = [steps EXCEPT ![Sid(Poller)].state = state]
    BY <1>6 DEF Apply
  <2>3. ASSUME Holds(Sid(Poller), Key(Poller)), s = Sid(Poller),
               steps' = [steps EXCEPT ![Sid(Poller)].state = state]
        PROVE  Goal
    <3>1. steps'[s].state = state /\ steps'[s].turn = steps[s].turn
      <4> HIDE DEF state
      <4> QED
        BY <1>0, <1>1, <2>1, <2>3 DEF StepRows
    <3>2. steps[s].turn = Key(Poller)
      BY <2>3 DEF Holds
    <3>3. state # "interrupted"
      BY <3>1 DEF Settled
    <3> QED
      BY <1>1, <1>6, <2>1, <2>3, <3>1, <3>2, <3>3
  <2>4. ASSUME s # Sid(Poller), NEW x, steps' = [steps EXCEPT ![Sid(Poller)].state = x]
        PROVE  Goal
    BY <1>0, <1>1, <1>2, <2>1, <2>4
  <2> HIDE DEF state, Goal
  <2> QED
    BY <1>2, <2>1, <2>2, <2>3, <2>4
<1> HIDE DEF Goal
<1>7. CASE RetryUnstarted \/ RejectInput
  <2>1. UNCHANGED <<rows, turns>>
    BY <1>7 DEF RetryUnstarted, RejectInput, Unchanged
  <2>2. \/ UNCHANGED steps
        \/ /\ steps[Sid(Poller)].turn = 0
           /\ \E state \in {"failed", "pending"} : steps' = [steps EXCEPT ![Sid(Poller)].state = state]
    BY <1>7 DEF RetryUnstarted, Unstarted, RejectInput, MayLink
  <2> QED
    BY <1>2, <1>3, <2>1, <2>2 DEF Settled
<1>8. CASE Resume
  <2>1. UNCHANGED <<rows, turns>>
    BY <1>8 DEF Resume, Unchanged
  <2>2. UNCHANGED steps \/ steps' = [steps EXCEPT ![Sid(Poller)].state = "interrupted"]
    BY <1>8 DEF Resume
  <2> QED
    BY <1>2, <1>3, <2>1, <2>2 DEF Settled
<1>9. CASE \/ \E t \in Existing : ReleaseStep(t)
           \/ \E t \in StepIds : \E v \in {"waiting", "pending", "failed"} : CheckCondition(t, v)
  <2>1. UNCHANGED <<rows, turns>>
    BY <1>9 DEF ReleaseStep, CheckCondition, Unchanged
  <2>2. \/ UNCHANGED steps
        \/ \E t \in StepIds, v \in {"pending", "failed"} :
             steps[t].turn = 0 /\ steps' = [steps EXCEPT ![t].state = v]
    BY <1>0, <1>9 DEF ReleaseStep, CheckCondition, MayRelease
  <2> QED
    BY <1>2, <1>3, <2>1, <2>2 DEF Settled
<1>10. ASSUME NEW e \in Executors, ResumeCheck(e) PROVE Goal
  <2>1. UNCHANGED rows
    BY <1>10 DEF ResumeCheck
  <2>2. steps'[s] = steps[s] \/ steps'[s] = [steps[s] EXCEPT !.state = "running"]
    BY <1>0, <1>1, <1>10, <2>1 DEF ResumeCheck
  <2>3. ASSUME steps'[s] = [steps[s] EXCEPT !.state = "running"] PROVE FALSE
    <3>1. steps'[s].state = "running"
      BY <1>1, <2>1, <2>3 DEF StepRows
    <3> QED
      BY <3>1 DEF Settled
  <2> QED
    BY <1>2, <2>1, <2>2, <2>3
<1>11. CASE Recover \/ LinkTurn
  <2>1. UNCHANGED rows
    BY <1>11 DEF Recover, LinkTurn, Unchanged
  <2>2. UNCHANGED steps \/ steps' = [steps EXCEPT ![Sid(Poller)].turn = Key(Poller)]
    BY <1>11 DEF Recover, LinkTurn
  <2>3. steps'[s].state = steps[s].state
    BY <1>0, <1>1, <2>1, <2>2 DEF StepRows
  <2> QED
    BY <1>1, <2>1, <2>3 DEF Goal
<1>12. ASSUME NEW t \in StepIds, ClaimStep(t) PROVE Goal
  <2>1. UNCHANGED rows
    BY <1>12 DEF ClaimStep, Unchanged
  <2>2. ASSUME NEW k \in Keys, Claimed(t, k) PROVE steps'[s] = steps[s]
    <3>1. CASE s = t
      <4>1. steps'[s].state = "running"
        BY <1>0, <2>2, <3>1 DEF Claimed, StepRows
      <4> QED
        BY <4>1 DEF Settled
    <3>2. CASE s # t
      BY <1>0, <1>1, <2>1, <2>2, <3>2 DEF Claimed
    <3> QED
      BY <3>1, <3>2
  <2> QED
    BY <1>2, <1>12, <2>1, <2>2, ClaimShape
<1>13. ASSUME NEW waits \in BOOLEAN, AddInsert(waits) PROVE Goal
  <2>1. rows' = rows + 1 /\ rows < MaxSteps
    BY <1>13 DEF AddInsert, RowsAgree
  <2>2. s = rows + 1 \/ (s \in Existing /\ rows + 1 # s)
    BY <1>0, <2>1 DEF Existing
  <2>3. CASE s = rows + 1
    <3>1. s \in StepIds
      BY <1>0, <2>1, <2>3, Bounds DEF StepIds
    <3>2. steps'[s].state \in {"waiting", "pending"}
      BY <1>0, <1>13, <2>3, <3>1 DEF AddInsert, NoStep
    <3> QED
      BY <3>2 DEF Settled
  <2>4. CASE s \in Existing /\ rows + 1 # s
    <3>1. steps'[s] = steps[s]
      BY <1>0, <1>13, <2>4 DEF AddInsert
    <3> QED
      BY <2>4, <3>1 DEF Goal
  <2> QED
    BY <2>2, <2>3, <2>4
<1>14. CASE UNCHANGED <<steps, rows>>
  BY <1>2, <1>14
<1> QED
  BY <1>4, <1>5, <1>6, <1>7, <1>8, <1>9, <1>10, <1>11, <1>12, <1>13, <1>14, StepWriters
  DEF WritesSteps

\* Whoever works in a turn works on its step.
LEMMA WorkerOf ==
    ASSUME OwnKeys, Holding, NEW e \in Executors, exec[e].pc \in Locked, Key(e) \in Begun
    PROVE  turns[Key(e)].step = Sid(e) /\ ~steps[Sid(e)].stopped
<1>1. Sid(e) \in Existing /\ ~steps[Sid(e)].stopped /\ steps[Sid(e)].key = Key(e)
  BY Holder DEF Step, Key
<1> QED
  BY <1>1, TurnOfKey

LEMMA SilencedStep ==
    ASSUME TypeOK, RowsAgree, OwnKeys, StepsAgree, TurnsAgree, Holding, Working, Stopping,
           Silenced, Next
    PROVE  Silenced'
<1> SUFFICES ASSUME NEW s \in Existing', steps'[s].stopped,
                    NEW k \in Begun', turns'[k].step = s
             PROVE  turns'[k].approval \notin {"pending", "stale"}
  BY DEF Silenced
<1>1. k \in Keys /\ turns'[k].status # "none" /\ Written(k)
  BY TurnsWritten DEF Begun
<1>2. CASE k \notin Begun
  BY <1>1, <1>2 DEF Written, Fresh
<1>3. CASE k \in Begun
  <2>1. /\ Moved(k) /\ turns[k] \in TurnRows /\ turns[k].step = s
        /\ turns[k].approval \in {"pending", "stale"} => turns[k].status = "waiting"
        /\ s \in Existing /\ steps[s].key = k /\ k # 0
    BY <1>1, <1>3, BegunKey DEF Written, Moved, TypeOK, TurnsAgree, OwnKeys
  <2>2. CASE Retire /\ NeverClaimed(s)
    BY <2>1, <2>2 DEF NeverClaimed
  <2>3. CASE AckStop /\ s = Sid(Poller)
    BY <1>3, <2>1, <2>3 DEF AckStop, At, Stopping
  <2>4. CASE steps[s].stopped
    <3>1. turns[k].approval \notin {"pending", "stale"}
      BY <1>3, <2>1, <2>4 DEF Silenced
    <3>2. CASE turns'[k] = turns[k]
      BY <3>1, <3>2
    <3>3. CASE turns'[k] = Closed(k)
      BY <1>1, <3>3, ClosedShape
    <3>4. ASSUME NEW e \in Executors, exec[e].pc \in Locked, Key(e) = k PROVE FALSE
      BY <1>3, <2>1, <2>4, <3>4, WorkerOf
    <3> QED
      BY <2>1, <3>1, <3>2, <3>3, <3>4 DEF Moved
  <2> QED
    BY <2>2, <2>3, <2>4, StoppedBy
<1> QED
  BY <1>2, <1>3

\* A turn that ended with an answer is left as it is.
LEMMA DoneStays ==
    ASSUME TypeOK, OwnKeys, StepsAgree, TurnsAgree, Holding, Working, Next,
           NEW k \in Begun, turns[k].status = "done", ~turns[k].refused
    PROVE  turns'[k].status = "done" /\ ~turns'[k].refused
<1>1. k \in Keys /\ Moved(k) /\ turns[k] \in TurnRows
  BY TurnsWritten DEF Begun, Written, TypeOK
<1>2. turns[k].approval \notin {"pending", "stale"} /\ ~turns[k].open
  BY DEF TurnsAgree
<1>3. CASE turns'[k] = Closed(k)
  BY <1>1, <1>2, <1>3, ClosedShape DEF NeedsReview
<1>4. CASE turns'[k] = turns[k]
  BY <1>4
<1> QED
  BY <1>1, <1>2, <1>3, <1>4 DEF Moved, Advanced, Answer

LEMMA EarnedStep ==
    ASSUME TypeOK, RowsAgree, OwnKeys, StepsAgree, TurnsAgree, Holding, Working, Stopping,
           Earned, Next
    PROVE  Earned'
<1> SUFFICES ASSUME NEW s \in Existing', steps'[s].state = "done"
             PROVE  /\ steps'[s].turn # 0
                    /\ turns'[steps'[s].turn].status = "done"
                    /\ ~turns'[steps'[s].turn].refused
  BY DEF Earned
<1>1. s \in Existing /\ steps'[s].state \in Settled
  BY SettledBy DEF Settled
<1>2. CASE steps'[s].state = steps[s].state
  <2>1. /\ steps[s].turn # 0 /\ turns[steps[s].turn].status = "done"
        /\ ~turns[steps[s].turn].refused
    BY <1>1, <1>2 DEF Earned
  <2>2. steps[s].turn \in Begun /\ steps'[s].turn = steps[s].turn
    BY <1>1, <2>1, LinkedTurn, StepsKept DEF Kept
  <2> QED
    BY <2>1, <2>2, DoneStays
<1>3. CASE /\ AckStop /\ s = Sid(Poller)
           /\ steps'[s].state = exec[Poller].verdict /\ steps'[s].turn = exec[Poller].turn
  BY <1>3 DEF AckStop, At, Stopping
<1>4. CASE /\ Apply /\ s = Sid(Poller) /\ steps[s].turn = Key(Poller)
           /\ steps'[s].turn = Key(Poller)
           /\ steps'[s].state = StateFor(Outcome(Key(Poller)))
  <2>1. steps[s].turn # 0 /\ turns' = turns
    BY <1>4, Bounds DEF Apply, At, Working, Step
  <2>2. steps[s].turn \in Begun /\ steps[s].turn \in Keys
    BY <1>1, <2>1, LinkedTurn, BegunKey
  <2>3. turns[Key(Poller)].status \in {"none", "running", "waiting", "done", "failed",
                                       "superseded"}
    BY <1>4, <2>2 DEF TypeOK, TurnRows
  <2>4. turns[Key(Poller)].status = "done" /\ ~turns[Key(Poller)].refused
    BY <1>4, <2>3 DEF StateFor, Outcome
  <2> QED
    BY <1>4, <2>1, <2>4
<1> QED
  BY <1>1, <1>2, <1>3, <1>4, SettledBy

LEMMA DoubtIsShownStep ==
    ASSUME TypeOK, RowsAgree, OwnKeys, StepsAgree, TurnsAgree, Holding, Working, Stopping,
           DoubtIsShown, Next
    PROVE  DoubtIsShown'
<1> SUFFICES ASSUME NEW s \in Existing', steps'[s].state \in Settled,
                    NEW k \in Begun', turns'[k].step = s
             PROVE  ~turns'[k].open
  BY DEF DoubtIsShown
<1>1. k \in Keys /\ turns'[k].status # "none" /\ Written(k)
  BY TurnsWritten DEF Begun
<1>2. CASE k \notin Begun
  BY <1>1, <1>2 DEF Written, Fresh
<1>3. CASE k \in Begun
  <2>1. /\ Moved(k) /\ turns[k] \in TurnRows /\ turns[k].step = s
        /\ s \in Existing /\ steps[s].key = k /\ k # 0
        /\ turns[k].open => /\ turns[k].status \notin {"waiting", "done"}
                            /\ turns[k].error # "approval_expired" \/ turns[k].status # "failed"
                            /\ steps[s].turn = k
    BY <1>1, <1>3, BegunKey DEF Written, Moved, TypeOK, TurnsAgree, OwnKeys
  <2>2. CASE steps'[s].state = steps[s].state
    <3>1. ~turns[k].open
      BY <1>3, <2>1, <2>2 DEF DoubtIsShown
    <3>2. CASE turns[k].approval = "pending" /\ turns'[k] = [turns[k] EXCEPT !.approval = "stale"]
      BY <2>1, <3>1, <3>2 DEF TurnRows
    <3>3. CASE turns'[k] = Closed(k)
      BY <1>1, <3>1, <3>3, ClosedShape
    <3>4. ASSUME NEW e \in Executors, Key(e) = k PROVE ~Authorized(e)
      <4> SUFFICES ASSUME NEW t \in Existing, steps[t].turn = k, steps[t].state \in Continuable
                   PROVE  FALSE
        BY <3>4 DEF Authorized, PlanForTurn
      <4>1. t = s
        BY <2>1, LinkedTurn
      <4> QED
        BY <2>2, <4>1 DEF Settled, Continuable
    <3> QED
      BY <2>1, <3>1, <3>2, <3>3, <3>4 DEF Moved, Advanced, Answer
  <2>3. CASE UNCHANGED turns /\ steps[s].turn = 0
    BY <2>1, <2>3
  <2>4. CASE AckStop /\ s = Sid(Poller) /\ steps'[s].state = exec[Poller].verdict
    BY <1>3, <2>1, <2>4 DEF AckStop, At, Stopping, Settled
  <2>5. CASE /\ Apply /\ s = Sid(Poller) /\ steps[s].turn = Key(Poller)
             /\ steps'[s].state = StateFor(Outcome(Key(Poller)))
    <3>1. Key(Poller) = k /\ turns' = turns
      BY <2>1, <2>5 DEF Apply, Key, Step
    <3>2. turns[k].status \in {"none", "running", "waiting", "done", "failed", "superseded"}
      BY <2>1 DEF TurnRows
    <3>3. \/ turns[k].status \in {"done", "waiting"}
          \/ turns[k].status = "failed" /\ turns[k].error = "approval_expired"
      BY <2>5, <3>1, <3>2 DEF StateFor, Outcome, Settled
    <3> QED
      BY <2>1, <3>1, <3>3
  <2> QED
    BY <2>2, <2>3, <2>4, <2>5, SettledBy
<1> QED
  BY <1>2, <1>3

-----------------------------------------------------------------------------
(* The invariant and what follows from it.                                  *)

LEMMA InitInductive == Init => PlansInductive
<1> SUFFICES ASSUME Init PROVE PlansInductive
  OBVIOUS
<1>1. TypeOK
  BY InitType
<1>2. Existing = {} /\ late = {} /\ told = {} /\ poll.todo = {} /\ adding = {}
  <2>1. Existing = {}
    <3>1. rows = 0
      BY DEF Init
    <3>2. 1..0 = {}
      OBVIOUS
    <3> QED
      BY <3>1, <3>2 DEF Existing
  <2>2. NewCycle.todo = {}
    BY DEF NewCycle
  <2> QED
    BY <2>1, <2>2 DEF Init
<1>3. Begun = {}
  BY DEF Init, Begun, NoTurn
<1>4. \A e \in Executors : exec[e].pc = "idle"
  BY DEF Init, Away
<1>5. plan.stop = "" /\ ~plan.summary
  BY DEF Init
<1>6. RowsAgree /\ OwnKeys /\ StepsAgree /\ TurnsAgree /\ Silenced /\ Earned /\ DoubtIsShown
  BY <1>2, <1>3 DEF RowsAgree, OwnKeys, StepsAgree, TurnsAgree, Silenced, Earned, DoubtIsShown
<1>7. Holding /\ Working /\ Stopping
  BY <1>4, Bounds DEF Holding, Working, Stopping, Locked, InTurn
<1>8. PlanAgrees
  BY <1>2, <1>5 DEF PlanAgrees
<1> QED
  BY <1>1, <1>6, <1>7, <1>8 DEF PlansInductive

LEMMA StepInductive == PlansInductive /\ [Next]_vars => PlansInductive'
<1>1. CASE Next
  BY <1>1, TypeStep, RowsAgreeStep, OwnKeysStep, StepsAgreeStep, TurnsAgreeStep, HoldingStep,
     WorkingStep, StoppingStep, PlanAgreesStep, SilencedStep, EarnedStep, DoubtIsShownStep
  DEF PlansInductive
<1>2. CASE UNCHANGED vars
  <2>1. /\ UNCHANGED <<plan, due, steps, rows, adding, turns, late, lock, exec, poll, queue,
                       told, crashes>>
        /\ Existing' = Existing /\ Begun' = Begun
    BY <1>2 DEF vars, Existing, Begun
  <2>2. TypeOK' = TypeOK /\ RowsAgree' = RowsAgree /\ OwnKeys' = OwnKeys
    BY <2>1 DEF TypeOK, RowsAgree, OwnKeys
  <2>3. StepsAgree' = StepsAgree /\ TurnsAgree' = TurnsAgree /\ PlanAgrees' = PlanAgrees
    BY <2>1 DEF StepsAgree, TurnsAgree, PlanAgrees
  <2>4. Holding' = Holding /\ Working' = Working /\ Stopping' = Stopping
    BY <2>1 DEF Holding, Working, Stopping, Sid, Step, Key, Turn
  <2>5. Silenced' = Silenced /\ Earned' = Earned /\ DoubtIsShown' = DoubtIsShown
    BY <2>1 DEF Silenced, Earned, DoubtIsShown
  <2> QED
    BY <2>2, <2>3, <2>4, <2>5 DEF PlansInductive
<1> QED
  BY <1>1, <1>2

\* The inductive invariant: what the rows of the plan, the turns in their own
\* database, the conversation's lock and the memory of the job and the desk have
\* to do with each other, over crashes and commits that arrive late.
THEOREM Invariance == Spec => []PlansInductive
<1> QED
  BY InitInductive, StepInductive, PTL DEF Spec

\* Types, and nothing outside the bounds.
THEOREM TypeInvariance == Spec => []TypeOK
<1>1. PlansInductive => TypeOK
  BY DEF PlansInductive
<1> QED
  BY <1>1, Invariance, PTL

\* A step never has two turns (claim_step, retry_unstarted_step and the
\* unique caller key of begin_turn, across restarts and late commits).
THEOREM OneTurn == Spec => []OneTurnPerStep
<1>1. PlansInductive => OneTurnPerStep
  BY BegunKey DEF PlansInductive, OwnKeys, OneTurnPerStep
<1> QED
  BY <1>1, Invariance, PTL

\* What reconcile_stopped_step acknowledged neither runs nor can be approved.
THEOREM Fenced == Spec => []StopIsFenced
<1>1. ASSUME PlansInductive, NEW s \in Existing, steps[s].stopped,
             NEW k \in Begun, turns[k].step = s
      PROVE  ~Executing(k) /\ turns[k].approval \notin {"pending", "stale"}
  <2>1. ASSUME NEW e \in Executors, exec[e].pc \in InTurn, Key(e) = k PROVE FALSE
    <3>1. exec[e].pc \in Locked
      BY <2>1 DEF Locked
    <3> QED
      BY <1>1, <2>1, <3>1, WorkerOf DEF PlansInductive
  <2> QED
    BY <1>1, <2>1 DEF Executing, PlansInductive, Silenced
<1>2. PlansInductive => StopIsFenced
  BY <1>1 DEF StopIsFenced
<1> QED
  BY <1>2, Invariance, PTL

\* No operation of unknown outcome is left behind in a step that counts as
\* over (_apply_outcome, stop_plan_turn, reconcile_stopped_step).
THEOREM Doubt == Spec => []DoubtIsShown
<1>1. PlansInductive => DoubtIsShown
  BY DEF PlansInductive
<1> QED
  BY <1>1, Invariance, PTL

\* A step that is done has a turn of its own that was answered, unrefused.
THEOREM DoneByItsTurn == Spec => []DoneIsEarned
<1>1. PlansInductive => DoneIsEarned
  BY LinkedTurn DEF PlansInductive, Earned, DoneIsEarned
<1> QED
  BY <1>1, Invariance, PTL

\* What a step leaves alone once the summary stands.
LEMMA LastWord ==
    ASSUME PlansInductive, Next, plan.summary
    PROVE  /\ plan'.summary /\ queue' = queue
           /\ \A s \in told : steps'[s].state = steps[s].state
           /\ \A e \in Executors : exec'[e].pc = "acting" => exec[e].pc = "acting"
<1>0. TypeOK /\ RowsAgree /\ StepsAgree /\ Holding /\ Working /\ Stopping /\ PlanAgrees
  BY DEF PlansInductive
<1>1. plan.state # "active" /\ plan'.summary /\ ~Live
  BY <1>0, PlanKept DEF PlanAgrees, Live
<1>2. queue' = queue
  <2>1. UNCHANGED queue \/ Apply \/ SetSummary
    <3>1. CASE RunPoller
      BY <3>1 DEF RunPoller, Retire, StopTurn, AckStop, Recover, RetryUnstarted, Resume,
         SettleStage, SettleRead, SettleWrite, BeginSteps, BeginCheck, RejectInput, BeginTurn,
         LinkTurn, Summarize, BeginPass, EndPass, Skip, TakeUp, ClaimStep,
         CheckCondition, RunTurn, ResumeClaim, ResumeCheck, Stopped, Reserve, Dispatch, Answered,
         Uncertain, AskApproval, Finish, OnlyTurn
    <3>2. CASE RunDesk
      BY <3>2 DEF RunDesk, RunTurn, ResumeClaim, ResumeCheck, Stopped, Reserve, Dispatch,
         Answered, Uncertain, AskApproval, Finish, OnlyTurn, Decide
    <3>3. CASE Others
      BY <3>3 DEF Others, AddCheck, AddInsert, CancelPlan, TimePasses, ReleaseStep, DeskResume,
         DeskApprove, Sit, OnlyTurn, ApprovalAges, Crash, LateCommit
    <3> QED
      BY <3>1, <3>2, <3>3 DEF Next
  <2> QED
    BY <1>1, <2>1 DEF Apply, Holds, SetSummary, MaySummarize
<1>3. ASSUME NEW s \in told PROVE steps'[s].state = steps[s].state
  <2>1. s \in Existing /\ (plan.stop # "" => steps[s].stopped)
    BY <1>0 DEF RowsAgree, PlanAgrees
  <2>2. AckStop => plan.stop # ""
    BY <1>0 DEF AckStop, At, Stopping
  <2> QED
    BY <1>0, <1>1, <2>1, <2>2, OverIsStill
<1>4. ASSUME NEW e \in Executors, exec'[e].pc = "acting", exec[e].pc # "acting" PROVE FALSE
  <2>1. ~Dispatch(e)
    BY <1>1 DEF Dispatch, Authorized, PlanForTurn
  <2>2. ASSUME StopTurn PROVE exec'[Poller].pc = "stopped"
    BY <1>0, <2>2, StopTurnGoes DEF Stays
  <2>3. ASSUME NEW s, TakeUp("stops", s, "stopping") PROVE exec'[Poller].pc = "stopping"
    <3>1. exec'[Poller] = [Away EXCEPT !.pc = "stopping", !.step = s, !.why = "stops"]
      BY <1>0, <2>3, Bounds, FrameShape DEF TakeUp
    <3> QED
      BY <3>1 DEF Away
  <2> QED
    BY <1>0, <1>4, <2>1, <2>2, <2>3, ArrivedBy
<1> QED
  BY <1>1, <1>2, <1>3, <1>4

\* After the summary no step it speaks of changes, nothing more is queued and
\* no operation is sent: set_summary asks for a plan that is over and has nothing
\* to move, every write to a step asks for more than that, and the plan is read
\* again before each dispatch.
THEOREM SummaryEndsIt == Spec => SummaryIsLast
<1>1. PlansInductive /\ [Next]_vars =>
        [plan.summary => /\ plan'.summary /\ queue' = queue
                         /\ \A s \in told : steps'[s].state = steps[s].state
                         /\ \A e \in Executors : exec'[e].pc = "acting" =>
                                                 exec[e].pc = "acting"]_vars
  BY LastWord
<1> QED
  BY <1>1, Invariance, PTL DEF Spec, SummaryIsLast
============================================================================
