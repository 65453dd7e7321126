------------------------- MODULE DurableTurnProofs -------------------------
(***************************************************************************)
(* Proofs about DurableTurn, for every value of its constants.             *)
(***************************************************************************)
EXTENDS DurableTurn, TLAPS

USE ConstantsAssumption DEF ConstantsAssumption

-----------------------------------------------------------------------------
(* Types.                                                                   *)

\* What an executor remembers keeps its type when it moves on.
LEMMA GotoType ==
    ASSUME TypeOK, NEW e \in Executors, NEW pc \in Points, Goto(e, pc)
    PROVE  exec' \in [Executors -> Frames] /\ lock' = lock
<1> DEFINE f == [exec[e] EXCEPT !.pc = pc]
<1>0. exec[e] \in Frames
  BY DEF TypeOK
<1>1. f \in Frames
  BY <1>0 DEF Frames
<1>2. exec' = [exec EXCEPT ![e] = f]
  BY DEF TypeOK, Goto, Frames
<1> QED
  BY <1>1, <1>2 DEF TypeOK, Goto

\* ... and when it forgets everything and frees its conversation.
LEMMA UnwindType ==
    ASSUME TypeOK, NEW e \in Executors, Unwind(e)
    PROVE  /\ exec' \in [Executors -> Frames]
           /\ lock' \in [Threads -> Executors \cup {NoOne}]
<1>1. Idle \in Frames
  BY DEF Idle, Frames, Points, InTurn
<1> QED
  BY <1>1 DEF TypeOK, Unwind

\* A frame written in one piece.
LEMMA FrameType ==
    ASSUME TypeOK, NEW e \in Executors, NEW f \in Frames,
           exec' = [exec EXCEPT ![e] = f]
    PROVE  exec' \in [Executors -> Frames]
BY DEF TypeOK

\* Taking a conversation keeps the locks typed.
LEMMA OwnType ==
    ASSUME TypeOK, NEW e \in Executors, NEW th \in Threads, Own(e, th)
    PROVE  lock' \in [Threads -> Executors \cup {NoOne}]
BY DEF TypeOK, Own

\* The next call of a batch is a call of that batch.
LEMMA AdvanceType ==
    ASSUME TypeOK, NEW e \in Executors, T(e) \in Turns,
           Calls(T(e)) \subseteq 1..MaxBatch, Advance(e)
    PROVE  exec' \in [Executors -> Frames] /\ lock' = lock
<1>1. ASSUME NEW pc \in {"append", "journal"}, Goto(e, pc)
      PROVE  exec' \in [Executors -> Frames] /\ lock' = lock
  <2>1. pc \in Points
    BY DEF Points, InTurn
  <2> QED
    BY <1>1, <2>1, GotoType
<1>2. ASSUME NEW j \in Firsts(CallsAfter(T(e), exec[e].call)),
             exec' = [exec EXCEPT ![e].pc = "call", ![e].call = j]
      PROVE  exec' \in [Executors -> Frames]
  <2> DEFINE f == [exec[e] EXCEPT !.pc = "call", !.call = j]
  <2>1. j \in 0..MaxBatch
    BY DEF Firsts, CallsAfter
  <2>2. exec[e] \in Frames
    BY DEF TypeOK
  <2>3. f \in Frames
    BY <2>1, <2>2 DEF Frames, Points, InTurn
  <2>4. exec' = [exec EXCEPT ![e] = f]
    BY <1>2 DEF TypeOK, Frames
  <2> QED
    BY <2>3, <2>4, FrameType
<1> QED
  BY <1>1, <1>2 DEF Advance

LEMMA InitType == Init => TypeOK
<1> SUFFICES ASSUME Init PROVE TypeOK
  OBVIOUS
<1>1. NoBatch \in Batches
  BY DEF NoBatch, Batches
<1>2. NoAsk \in Asks
  BY DEF NoAsk, Asks
<1>3. <<0, 0, 0>> \in CallIds
  BY DEF CallIds
<1>4. NoEntry \in Entries
  BY <1>3 DEF NoEntry, Entries
<1>5. Idle \in Frames
  BY DEF Idle, Frames, Points, InTurn
<1>6. /\ turns \in 0..MaxTurns
      /\ attempts \in [Turns -> 0..MaxAttempts]
      /\ crashes \in 0..MaxCrashes
  BY DEF Init
<1> QED
  BY <1>1, <1>2, <1>4, <1>5, <1>6 DEF Init, TypeOK, Statuses

\* Every step keeps the types.
LEMMA TypeStep ==
    ASSUME TypeOK, Rows, Owners, OnePrompt, Next
    PROVE  TypeOK'
<1> USE DEF rows, outer, trust
<1> DEFINE Here(e) == /\ T(e) \in Turns /\ thread[T(e)] = exec[e].thread
                      /\ exec[e].thread \in Threads
                      /\ Calls(T(e)) \subseteq 1..MaxBatch
                      /\ journal[T(e)] \in Batches
                      /\ exec[e] \in Frames
<1>0. ASSUME NEW e \in Executors, exec[e].pc \notin {"idle", "begin"}
      PROVE  Here(e)
  BY <1>0 DEF TypeOK, Owners, Rows, At
<1>1. ASSUME NEW e \in Executors, NEW th \in Threads, Invoke(e, th)
      PROVE  TypeOK'
  <2>0. Idle \in Frames /\ "begin" \in Points /\ hist[th] \in SUBSET Turns
    BY DEF Idle, Frames, Points, InTurn, TypeOK
  <2>1. [Idle EXCEPT !.pc = "begin", !.thread = th, !.seen = hist[th]] \in Frames
    BY <2>0 DEF Frames
  <2>2. exec' \in [Executors -> Frames]
    BY <1>1, <2>1, FrameType DEF Invoke
  <2> QED
    BY <1>1, <2>2, OwnType DEF Invoke, TypeOK
<1>2. ASSUME NEW e \in Executors, RejectInput(e)
      PROVE  TypeOK'
  <2>1. exec[e].seen \in SUBSET Turns
    BY DEF TypeOK, Frames
  <2> QED
    BY <1>2, <2>1, UnwindType DEF RejectInput, TypeOK
<1>3. ASSUME NEW e \in Executors, BeginTurn(e)
      PROVE  TypeOK'
  <2> DEFINE f == [exec[e] EXCEPT !.pc = "model", !.turn = turns + 1]
  <2>1. turns' \in 0..MaxTurns /\ turns + 1 \in 0..MaxTurns
    BY <1>3 DEF BeginTurn, Turns
  <2>2. exec[e] \in Frames
    BY DEF TypeOK
  <2>3. f \in Frames
    BY <2>1, <2>2 DEF Frames, Points, InTurn
  <2>4. exec' = [exec EXCEPT ![e] = f]
    BY <1>3 DEF BeginTurn, TypeOK, Frames
  <2>5. exec' \in [Executors -> Frames]
    BY <2>3, <2>4, FrameType
  <2>6. status' \in [Turns -> Statuses] /\ thread' \in [Turns -> Threads \cup {NoThread}]
    BY <1>3, <2>2 DEF BeginTurn, TypeOK, Statuses, Unended, Active, Frames
  <2> QED
    BY <1>3, <2>1, <2>5, <2>6 DEF BeginTurn, TypeOK
<1>4. ASSUME NEW e \in Executors, ModelCalls(e)
      PROVE  TypeOK'
  <2> DEFINE f == [exec[e] EXCEPT !.pc = "call", !.call = 1]
  <2>1. Here(e)
    BY <1>0, <1>4 DEF ModelCalls, At
  <2>2. PICK n \in 1..MaxBatch : \E b \in [1..n -> Ops] :
          journal' = [journal EXCEPT ![T(e)] =
                        [round |-> @.round + 1, batch |-> b,
                         answered |-> {}, cache |-> {}, denied |-> {}]]
    BY <1>4 DEF ModelCalls
  <2>3. PICK b \in [1..n -> Ops] :
          journal' = [journal EXCEPT ![T(e)] =
                        [round |-> journal[T(e)].round + 1, batch |-> b,
                         answered |-> {}, cache |-> {}, denied |-> {}]]
    BY <2>2
  <2>4. b \in Seq(Ops)
    OBVIOUS
  <2>5. journal[T(e)].round + 1 \in 0..MaxRounds
    BY <1>4, <2>1 DEF ModelCalls, Batches
  <2>6. journal' \in [Turns -> Batches]
    BY <2>3, <2>4, <2>5 DEF TypeOK, Batches
  <2>7. 1 \in 0..MaxBatch /\ "call" \in Points
    BY <2>2 DEF Points, InTurn
  <2>10. f \in Frames
    BY <2>1, <2>7 DEF Frames
  <2>8. exec' = [exec EXCEPT ![e] = f]
    BY <1>4 DEF ModelCalls, TypeOK, Frames
  <2>9. exec' \in [Executors -> Frames]
    BY <2>8, <2>10, FrameType
  <2> QED
    BY <1>4, <2>6, <2>9 DEF ModelCalls, TypeOK
<1>5. ASSUME NEW e \in Executors, \/ ModelEnds(e) \/ ClaimReuse(e) \/ ClaimRefused(e)
                                  \/ ToolReturns(e) \/ Raise(e)
      PROVE  TypeOK'
  <2>1. PICK pc \in Points : Goto(e, pc)
    BY <1>5 DEF ModelEnds, ClaimReuse, ClaimRefused, ToolReturns, Raise, Points, InTurn
  <2> QED
    BY <1>5, <2>1, GotoType
       DEF ModelEnds, ClaimReuse, ClaimRefused, ToolReturns, Raise, TypeOK
<1>6. ASSUME NEW e \in Executors, \/ ReuseCached(e) \/ ReplayRecorded(e)
                                  \/ ApprovalUnavailable(e) \/ SaveResult(e)
      PROVE  TypeOK'
  <2>1. Here(e) /\ exec[e].call \in 1..MaxBatch
    BY <1>0, <1>6 DEF ReuseCached, ReplayRecorded, ApprovalUnavailable, SaveResult,
                      Fresh, At, OnePrompt, AtACall
  <2>2. exec' \in [Executors -> Frames] /\ lock' = lock
    BY <1>6, <2>1, AdvanceType
       DEF ReuseCached, ReplayRecorded, ApprovalUnavailable, SaveResult
  <2>3. \/ journal' = journal
        \/ journal' = [journal EXCEPT ![T(e)].cache = @ \cup {exec[e].call}]
        \/ journal' = [journal EXCEPT ![T(e)].denied = @ \cup {exec[e].call}]
    BY <1>6 DEF ReuseCached, ReplayRecorded, ApprovalUnavailable, SaveResult
  <2> DEFINE b == journal[T(e)]
             one == {exec[e].call}
  <2>5. /\ [b EXCEPT !.cache = @ \cup one] \in Batches
        /\ [b EXCEPT !.denied = @ \cup one] \in Batches
    BY <2>1 DEF Batches
  <2>4. journal' \in [Turns -> Batches]
    BY <2>1, <2>3, <2>5 DEF TypeOK
  <2> QED
    BY <1>6, <2>2, <2>4
       DEF ReuseCached, ReplayRecorded, ApprovalUnavailable, SaveResult, TypeOK
<1>7. ASSUME NEW e \in Executors, AskApproval(e)
      PROVE  TypeOK'
  <2>1. Here(e) /\ exec[e].call \in Calls(T(e)) /\ exec[e].call \in 0..MaxBatch
    BY <1>0, <1>7 DEF AskApproval, Fresh, At, OnePrompt, AtACall
  <2>2. Op(e) \in Ops
    BY <2>1 DEF Op, Calls, Batches
  <2>3. gate' \in [Turns -> Asks]
    BY <1>7, <2>1, <2>2 DEF AskApproval, TypeOK, Asks
  <2>4. exec' \in [Executors -> Frames] /\ lock' = lock
    BY <1>7, GotoType DEF AskApproval, Points, InTurn
  <2> QED
    BY <1>7, <2>1, <2>3, <2>4 DEF AskApproval, TypeOK, Statuses, Unended
<1>8. ASSUME NEW e \in Executors, JournalDone(e)
      PROVE  TypeOK'
  <2>1. Here(e)
    BY <1>0, <1>8 DEF JournalDone, At
  <2>2. journal' \in [Turns -> Batches]
    BY <1>8, <2>1 DEF JournalDone, TypeOK, Batches
  <2>3. exec' \in [Executors -> Frames] /\ lock' = lock
    BY <1>8, GotoType DEF JournalDone, Points, InTurn
  <2> QED
    BY <1>8, <2>2, <2>3 DEF JournalDone, TypeOK
<1>9. ASSUME NEW e \in Executors, JournalDeferred(e)
      PROVE  TypeOK'
  <2>1. Here(e)
    BY <1>0, <1>9 DEF JournalDeferred, At
  <2>2. journal' \in [Turns -> Batches]
    BY <1>9, <2>1 DEF JournalDeferred, TypeOK, Batches
  <2> QED
    BY <1>9, <2>2, UnwindType DEF JournalDeferred, TypeOK
<1>10. ASSUME NEW e \in Executors, exec[e].pc \in AtACall
       PROVE  /\ Here(e) /\ exec[e].call \in Calls(T(e))
              /\ Op(e) \in Ops /\ K(e) \in Keys /\ CallId(e) \in CallIds
  <2>1. Here(e) /\ exec[e].call \in Calls(T(e)) /\ exec[e].call \in 0..MaxBatch
    BY <1>0, <1>10 DEF AtACall, OnePrompt
  <2>2. Op(e) \in Ops
    BY <2>1 DEF Op, Calls, Batches
  <2>3. K(e) \in Keys
    BY <2>1, <2>2 DEF K, Key, Keys, Turns
  <2>4. T(e) \in 0..MaxTurns /\ journal[T(e)].round \in 0..MaxRounds
    BY <2>1 DEF Turns, Batches
  <2>5. CallId(e) \in CallIds
    BY <2>1, <2>4 DEF CallId, CallIds
  <2> QED
    BY <2>1, <2>2, <2>3, <2>5
<1>11. ASSUME NEW e \in Executors, ClaimEffect(e)
       PROVE  TypeOK'
  <2>1. exec[e].pc \in AtACall
    BY <1>11 DEF ClaimEffect, Claiming, Fresh, At, AtACall
  <2> DEFINE n == [st |-> "pending", turn |-> T(e), call |-> CallId(e), owner |-> e]
  <2>2. n \in Entries
    BY <2>1, <1>10 DEF Entries, Turns
  <2>3. ledger' \in [Keys -> Entries]
    BY <1>11, <2>2 DEF ClaimEffect, TypeOK
  <2>4. exec' \in [Executors -> Frames] /\ lock' = lock
    BY <1>11, GotoType DEF ClaimEffect, Points, InTurn
  <2> QED
    BY <1>11, <2>3, <2>4 DEF ClaimEffect, TypeOK
<1>12. ASSUME NEW e \in Executors, Dispatch(e)
       PROVE  TypeOK'
  <2>1. exec' \in [Executors -> Frames] /\ lock' = lock
    BY <1>12, GotoType DEF Dispatch, Points, InTurn
  <2> QED
    BY <1>12, <2>1 DEF Dispatch, TypeOK
<1>13. ASSUME NEW e \in Executors, FinishEffect(e)
       PROVE  TypeOK'
  <2>1. exec' \in [Executors -> Frames] /\ lock' = lock
    BY <1>13, GotoType DEF FinishEffect, Points, InTurn
  <2>4. ledger[K(e)] \in Entries
    BY <1>10, <1>13 DEF FinishEffect, At, AtACall, TypeOK
  <2>2. [ledger[K(e)] EXCEPT !.st = "recorded"] \in Entries
    BY <2>4 DEF Entries
  <2>3. ledger' \in [Keys -> Entries]
    BY <1>13, <2>2 DEF FinishEffect, TypeOK
  <2> QED
    BY <1>13, <2>1, <2>3 DEF FinishEffect, TypeOK
<1>14. ASSUME NEW e \in Executors, JournalBatch(e)
       PROVE  TypeOK'
  <2> DEFINE f == [exec[e] EXCEPT !.pc = "model", !.replay = FALSE]
  <2>1. Here(e)
    BY <1>0, <1>14 DEF JournalBatch, At
  <2>2. f \in Frames
    BY <2>1 DEF Frames, Points, InTurn
  <2>3. exec' = [exec EXCEPT ![e] = f]
    BY <1>14 DEF JournalBatch, TypeOK, Frames
  <2>4. exec' \in [Executors -> Frames]
    BY <2>2, <2>3, FrameType
  <2>5. journal' \in [Turns -> Batches]
    BY <1>14, <2>1 DEF JournalBatch, TypeOK, Batches
  <2> QED
    BY <1>14, <2>4, <2>5 DEF JournalBatch, TypeOK
<1>15. ASSUME NEW e \in Executors, AppendDecision(e)
       PROVE  TypeOK'
  <2> DEFINE answered == journal[T(e)].answered \cup {exec[e].call}
             pc == IF answered = Calls(T(e)) THEN "model" ELSE "failing"
             f == [exec[e] EXCEPT !.path = "loop", !.pc = pc]
  <2>1. Here(e) /\ exec[e].call \in 1..MaxBatch
    BY <1>10, <1>15 DEF AppendDecision, At, AtACall
  <2>2. pc \in Points
    BY DEF Points, InTurn
  <2>3. f \in Frames
    BY <2>1, <2>2 DEF Frames
  <2>4. exec' = [exec EXCEPT ![e] = f]
    BY <1>15 DEF AppendDecision, TypeOK, Frames
  <2>5. exec' \in [Executors -> Frames]
    BY <2>3, <2>4, FrameType
  <2>6. answered \in SUBSET (1..MaxBatch)
    BY <2>1 DEF Batches
  <2>7. journal' \in [Turns -> Batches]
    BY <1>15, <2>1, <2>6 DEF AppendDecision, TypeOK, Batches
  <2> QED
    BY <1>15, <2>5, <2>7 DEF AppendDecision, TypeOK
<1>16. ASSUME NEW e \in Executors, ResumeCheck(e)
       PROVE  TypeOK'
  <2> DEFINE f == [exec[e] EXCEPT !.pc = "model", !.seen = hist[exec[e].thread]]
  <2>1. Here(e) /\ hist[exec[e].thread] \in SUBSET Turns
    BY <1>0, <1>16 DEF ResumeCheck, At, TypeOK
  <2>2. ASSUME Goto(e, "failing")
        PROVE  exec' \in [Executors -> Frames]
    BY <2>2, GotoType DEF Points
  <2>3. ASSUME exec' = [exec EXCEPT ![e].pc = "model", ![e].seen = hist[exec[e].thread]]
        PROVE  exec' \in [Executors -> Frames]
    <3>1. f \in Frames
      BY <2>1 DEF Frames, Points, InTurn
    <3>2. exec' = [exec EXCEPT ![e] = f]
      BY <2>3 DEF TypeOK, Frames
    <3> QED
      BY <3>1, <3>2, FrameType
  <2>4. ASSUME NEW j \in Firsts(CallsAfter(T(e), 0)),
               exec' = [exec EXCEPT ![e].pc = "call", ![e].call = j,
                                    ![e].replay = TRUE,
                                    ![e].seen = hist[exec[e].thread]]
        PROVE  exec' \in [Executors -> Frames]
    <3> DEFINE g == [exec[e] EXCEPT !.pc = "call", !.call = j, !.replay = TRUE,
                                    !.seen = hist[exec[e].thread]]
    <3>1. j \in 0..MaxBatch
      BY <2>1 DEF Firsts, CallsAfter
    <3>2. g \in Frames
      BY <2>1, <3>1 DEF Frames, Points, InTurn
    <3>3. exec' = [exec EXCEPT ![e] = g]
      BY <2>4 DEF TypeOK, Frames
    <3> QED
      BY <3>2, <3>3, FrameType
  <2>5. exec' \in [Executors -> Frames]
    BY <1>16, <2>2, <2>3, <2>4 DEF ResumeCheck
  <2> QED
    BY <1>16, <2>5 DEF ResumeCheck, TypeOK
<1>17. ASSUME NEW e \in Executors, FailTurn(e)
       PROVE  TypeOK'
  <2>1. status' \in [Turns -> Statuses]
    BY <1>17 DEF FailTurn, Fail, TypeOK, Statuses, Terminal
  <2> QED
    BY <1>17, <2>1, UnwindType DEF FailTurn, TypeOK
<1>18. ASSUME NEW e \in Executors, NEW failed \in BOOLEAN, Finalize(e, failed)
       PROVE  TypeOK'
  <2>1. Here(e) /\ exec[e].seen \in SUBSET Turns
    BY <1>0, <1>18 DEF Finalize, At, Frames
  <2>2. NoBatch \in Batches
    BY DEF NoBatch, Batches
  <2>3. status' \in [Turns -> Statuses] /\ hist' \in [Threads -> SUBSET Turns]
    BY <1>18, <2>1 DEF Finalize, TypeOK, Statuses, Terminal
  <2> QED
    BY <1>18, <2>2, <2>3, UnwindType DEF Finalize, TypeOK
<1>19. ASSUME NEW e \in Executors, Crash(e)
       PROVE  TypeOK'
  BY <1>19, UnwindType DEF Crash, TypeOK
<1>20. ASSUME NEW e \in Executors, NEW t \in Turns, ResumeClaim(e, t)
       PROVE  TypeOK'
  <2>1. thread[t] \in Threads
    BY <1>20 DEF ResumeClaim, Abandoned, Rows, Active
  <2>0. Idle \in Frames /\ "resumed" \in Points /\ t \in 0..MaxTurns
    BY DEF Idle, Frames, Points, InTurn, Turns
  <2>2. [Idle EXCEPT !.pc = "resumed", !.turn = t, !.thread = thread[t]] \in Frames
    BY <2>0, <2>1 DEF Frames
  <2>3. exec' \in [Executors -> Frames]
    BY <1>20, <2>2, FrameType DEF ResumeClaim
  <2>4. status' \in [Turns -> Statuses] /\ attempts' \in [Turns -> 0..MaxAttempts]
    BY <1>20 DEF ResumeClaim, MayResume, TypeOK, Statuses, Unended, Active
  <2> QED
    BY <1>20, <2>1, <2>3, <2>4, OwnType DEF ResumeClaim, TypeOK
<1>21. ASSUME NEW e \in Executors, NEW t \in Turns, NEW approved \in BOOLEAN,
              Decide(e, t, approved)
       PROVE  TypeOK'
  <2> DEFINE op == gate[t].op
             f == [pc |-> IF approved THEN "call" ELSE "append", turn |-> t,
                   thread |-> thread[t], call |-> gate[t].call, path |-> "gate",
                   replay |-> FALSE, exempt |-> IF approved THEN op ELSE NoOp,
                   seen |-> hist[thread[t]]]
  <2>1. thread[t] \in Threads /\ gate[t] \in Asks /\ op \in Ops
    BY <1>21 DEF Decide, Decidable, Rows, Unended, Active, TypeOK, Batches, Calls
  <2>2. f \in Frames
    BY <2>1 DEF Frames, Points, InTurn, Turns, Asks, TypeOK
  <2>3. exec' \in [Executors -> Frames]
    BY <1>21, <2>2, FrameType DEF Decide, Decidable
  <2>4. gate' \in [Turns -> Asks] /\ status' \in [Turns -> Statuses]
    BY <1>21 DEF Decide, Decidable, TypeOK, Asks, Statuses, Unended, Active
  <2>5. granted' \in [Turns -> SUBSET Ops]
    BY <1>21, <2>1 DEF Decide, Decidable, TypeOK, Asks
  <2> QED
    BY <1>21, <2>1, <2>3, <2>4, <2>5, OwnType DEF Decide, Decidable, TypeOK
<1>22. ASSUME NEW t \in Turns, ExpireApproval(t)
       PROVE  TypeOK'
  <2>1. gate' \in [Turns -> Asks]
    BY <1>22 DEF ExpireApproval, TypeOK, Asks
  <2>2. status' \in [Turns -> Statuses]
    BY <1>22 DEF ExpireApproval, Fail, TypeOK, Statuses, Terminal
  <2> QED
    BY <1>22, <2>1, <2>2 DEF ExpireApproval, TypeOK
<1>23. ASSUME NEW t \in Turns, ResumeGivesUp(t)
       PROVE  TypeOK'
  BY <1>23 DEF ResumeGivesUp, TypeOK, Statuses, Terminal
<1>24. ASSUME NEW t \in Turns, Report(t)
       PROVE  TypeOK'
  <2>1. thread[t] \in Threads
    BY <1>24 DEF Report, Abandoned, Active, Rows
  <2> QED
    BY <1>24, <2>1 DEF Report, TypeOK, Statuses, Terminal
<1>25. ASSUME NEW k \in Keys, NEW v \in {"happened", "did_not_happen", "unknown"},
              Reconcile(k, v)
       PROVE  TypeOK'
  <2>1. NoEntry \in Entries
    <3>1. <<0, 0, 0>> \in CallIds
      BY DEF CallIds
    <3> QED
      BY <3>1 DEF NoEntry, Entries
  <2>2. ledger[k] \in Entries
    BY DEF TypeOK
  <2>3. [ledger[k] EXCEPT !.st = "recorded"] \in Entries
    BY <2>2 DEF Entries
  <2>4. ledger' \in [Keys -> Entries]
    BY <1>25, <2>1, <2>3 DEF Reconcile, Verifiable, TypeOK
  <2>5. status' \in [Turns -> Statuses] /\ waived' \in SUBSET Keys
    BY <1>25 DEF Reconcile, Verifiable, Fail, TypeOK, Statuses, Terminal
  <2> QED
    BY <1>25, <2>4, <2>5 DEF Reconcile, Verifiable, TypeOK
<1>26. ASSUME NEW t \in Turns, Prune(t)
       PROVE  TypeOK'
  <2>1. NoEntry \in Entries
    <3>1. <<0, 0, 0>> \in CallIds
      BY DEF CallIds
    <3> QED
      BY <3>1 DEF NoEntry, Entries
  <2>2. NoBatch \in Batches
    BY DEF NoBatch, Batches
  <2>3. ledger' \in [Keys -> Entries] /\ forgotten' \in SUBSET Keys
    BY <1>26, <2>1 DEF Prune, TypeOK
  <2> QED
    BY <1>26, <2>2, <2>3 DEF Prune, TypeOK, Statuses
<1>27. ASSUME NEW th \in Threads, ClearContext(th)
       PROVE  TypeOK'
  BY <1>27 DEF ClearContext, TypeOK
<1>28. ASSUME NEW k \in Keys, Arrives(k) \/ Vanishes(k)
       PROVE  TypeOK'
  BY <1>28 DEF Arrives, Vanishes, TypeOK
<1> QED
  BY <1>1, <1>2, <1>3, <1>4, <1>5, <1>6, <1>7, <1>8, <1>9, <1>11, <1>12, <1>13,
     <1>14, <1>15, <1>16, <1>17, <1>18, <1>19, <1>20, <1>21, <1>22, <1>23,
     <1>24, <1>25, <1>26, <1>27, <1>28
     DEF Next, Proceed

-----------------------------------------------------------------------------
(* Kinds of step.  Who owns a conversation and how far its turn has come    *)
(* depends on little of what a step does, so the steps are first sorted by  *)
(* that.                                                                    *)

InATurn(e) == exec[e].pc \notin {"idle", "begin"}
OnlyExec(e) == \A f \in Executors \ {e} : exec'[f] = exec[f]

\* The executor moves on inside its turn.
Within(e) ==
    /\ InATurn(e) /\ InATurn(e)'
    /\ exec'[e].turn = T(e) /\ exec'[e].thread = exec[e].thread
    /\ OnlyExec(e)
    /\ UNCHANGED <<lock, turns, thread>>
    /\ \A t \in Turns : \/ status'[t] = status[t]
                        \/ t = T(e) /\ status'[t] = "waiting_approval"

\* The executor opens the turn it was invoked for.
Opens(e) ==
    /\ At(e, "begin")
    /\ turns' = turns + 1 /\ turns' \in Turns
    /\ exec'[e].turn = turns' /\ exec'[e].thread = exec[e].thread
    /\ exec'[e].pc = "model"
    /\ OnlyExec(e)
    /\ UNCHANGED lock
    /\ status' = [status EXCEPT ![turns'] = "running"]
    /\ thread' = [thread EXCEPT ![turns'] = exec[e].thread]

\* The executor lets its conversation go, having ended its turn or not.
Leaves(e) ==
    /\ ~At(e, "idle")
    /\ exec'[e] = Idle
    /\ OnlyExec(e)
    /\ lock' = [lock EXCEPT ![exec[e].thread] = NoOne]
    /\ UNCHANGED <<turns, thread>>
    /\ \A t \in Turns : \/ status'[t] = status[t]
                        \/ /\ InATurn(e) /\ t = T(e) /\ status'[t] \in {"done", "failed"}
                           /\ status'[t] = "done" => ~PendingIn(t) /\ UNCHANGED ledger

\* The executor takes a free conversation, for a new turn or for turn t.
Takes(e, th) ==
    /\ lock[th] = NoOne
    /\ lock' = [lock EXCEPT ![th] = e]
    /\ At(e, "idle") /\ ~At(e, "idle")'
    /\ exec'[e].thread = th
    /\ OnlyExec(e)
    /\ UNCHANGED <<turns, thread>>
    /\ \/ exec'[e].pc = "begin" /\ status' = status
       \/ \E t \in Turns :
             /\ exec'[e].turn = t /\ thread[t] = th /\ status[t] \in Unended
             /\ status'[t] \in Active
             /\ \A u \in Turns \ {t} : status'[u] = status[u]

\* No executor moves; turns of free conversations may end, ended ones go.
Outside ==
    /\ UNCHANGED <<exec, lock, turns, thread>>
    /\ \A t \in Turns :
          \/ status'[t] = status[t]
          \/ /\ status[t] \in Unended /\ Free(thread[t])
             /\ status'[t] \in Terminal \ {"done"}
          \/ status[t] \in Terminal /\ status'[t] = "pruned" /\ Prune(t)

Kind == \/ \E e \in Executors : Within(e) \/ Opens(e) \/ Leaves(e)
        \/ \E e \in Executors, th \in Threads : Takes(e, th)
        \/ Outside

LEMMA Kinds ==
    ASSUME TypeOK, Rows, Owners, Intents, Next
    PROVE  Kind
<1> USE DEF rows, InATurn, OnlyExec
<1>1. ASSUME NEW e \in Executors, NEW th \in Threads, Invoke(e, th)
      PROVE  Takes(e, th)
  <2> DEFINE f == [Idle EXCEPT !.pc = "begin", !.thread = th, !.seen = hist[th]]
  <2>1. f.pc = "begin" /\ f.thread = th
    BY DEF Idle
  <2>2. exec' = [exec EXCEPT ![e] = f] /\ exec[e] = Idle
    BY <1>1 DEF Invoke, Own
  <2>3. exec'[e] = f /\ OnlyExec(e)
    BY <2>2 DEF TypeOK
  <2> HIDE DEF f
  <2> QED
    BY <1>1, <2>1, <2>2, <2>3 DEF Invoke, Own, Free, Takes, At, Idle
<1>2. ASSUME NEW e \in Executors, RejectInput(e)
      PROVE  Leaves(e)
  BY <1>2 DEF RejectInput, Unwind, Leaves, At, TypeOK
<1>3. ASSUME NEW e \in Executors, BeginTurn(e)
      PROVE  Opens(e)
  BY <1>3 DEF BeginTurn, Opens, At, TypeOK, Frames
<1>4. ASSUME NEW e \in Executors,
             \/ ModelCalls(e) \/ JournalBatch(e) \/ AppendDecision(e) \/ ResumeCheck(e)
      PROVE  Within(e)
  <2>1. exec[e] \in Frames
    BY DEF TypeOK
  <2>2. CASE ModelCalls(e)
    BY <2>1, <2>2 DEF ModelCalls, Within, At, T, TypeOK, Frames
  <2>3. CASE JournalBatch(e)
    BY <2>1, <2>3 DEF JournalBatch, Within, At, T, TypeOK, Frames
  <2>4. CASE AppendDecision(e)
    BY <2>1, <2>4 DEF AppendDecision, Within, At, T, TypeOK, Frames
  <2>5. CASE ResumeCheck(e)
    <3>1. At(e, "resumed") /\ UNCHANGED <<lock, turns, thread, status>>
      BY <2>5 DEF ResumeCheck
    <3> DEFINE Moved == /\ exec'[e].pc \in {"failing", "model", "call"} /\ OnlyExec(e)
                        /\ exec'[e].turn = T(e) /\ exec'[e].thread = exec[e].thread
    <3>2. ASSUME Goto(e, "failing") PROVE Moved
      BY <2>1, <3>2 DEF Goto, T, TypeOK, Frames
    <3>3. ASSUME exec' = [exec EXCEPT ![e].pc = "model", ![e].seen = hist[exec[e].thread]]
          PROVE  Moved
      BY <2>1, <3>3 DEF T, TypeOK, Frames
    <3>4. ASSUME NEW j \in Firsts(CallsAfter(T(e), 0)),
                 exec' = [exec EXCEPT ![e].pc = "call", ![e].call = j,
                                      ![e].replay = TRUE,
                                      ![e].seen = hist[exec[e].thread]]
          PROVE  Moved
      BY <2>1, <3>4 DEF T, TypeOK, Frames
    <3>5. Moved
      BY <2>5, <3>2, <3>3, <3>4 DEF ResumeCheck
    <3> QED
      BY <3>1, <3>5 DEF Within, At
  <2> QED
    BY <1>4, <2>2, <2>3, <2>4, <2>5
<1>5. ASSUME NEW e \in Executors,
             \/ ModelEnds(e) \/ JournalDone(e) \/ ClaimReuse(e) \/ ClaimRefused(e)
             \/ ClaimEffect(e) \/ Dispatch(e) \/ ToolReturns(e) \/ FinishEffect(e)
             \/ Raise(e)
      PROVE  Within(e)
  BY <1>5 DEF ModelEnds, JournalDone, ClaimReuse, ClaimRefused, ClaimEffect,
              Dispatch, ToolReturns, FinishEffect, Raise, Claiming, Fresh, InTurn,
              Goto, Within, At, T, TypeOK, Frames
<1>6. ASSUME NEW e \in Executors,
             \/ ReuseCached(e) \/ ReplayRecorded(e) \/ ApprovalUnavailable(e)
             \/ SaveResult(e)
      PROVE  Within(e)
  BY <1>6 DEF ReuseCached, ReplayRecorded, ApprovalUnavailable, SaveResult, Advance,
              Fresh, Goto, Within, At, T, TypeOK, Frames
<1>7. ASSUME NEW e \in Executors, AskApproval(e)
      PROVE  Within(e)
  BY <1>7 DEF AskApproval, Fresh, Goto, Within, At, T, TypeOK, Frames
<1>8. ASSUME NEW e \in Executors, \/ JournalDeferred(e) \/ FailTurn(e) \/ Crash(e)
                                  \/ \E failed \in BOOLEAN : Finalize(e, failed)
      PROVE  Leaves(e)
  BY <1>8 DEF JournalDeferred, FailTurn, Crash, Finalize, Fail, Unwind, Leaves,
              At, T, Owners, TypeOK
<1>9. ASSUME NEW e \in Executors, NEW t \in Turns, ResumeClaim(e, t)
      PROVE  Takes(e, thread[t]) /\ thread[t] \in Threads
  <2> DEFINE f == [Idle EXCEPT !.pc = "resumed", !.turn = t, !.thread = thread[t]]
  <2>1. f.pc = "resumed" /\ f.turn = t /\ f.thread = thread[t]
    BY DEF Idle
  <2>2. exec' = [exec EXCEPT ![e] = f] /\ exec[e] = Idle
    BY <1>9 DEF ResumeClaim, Own
  <2>3. exec'[e] = f /\ OnlyExec(e)
    BY <2>2 DEF TypeOK
  <2>4. status[t] \in Unended /\ thread[t] \in Threads
    BY <1>9 DEF ResumeClaim, Abandoned, Unended, Active, Rows
  <2>5. status'[t] \in Active /\ \A u \in Turns \ {t} : status'[u] = status[u]
    BY <1>9 DEF ResumeClaim, Active, TypeOK
  <2> HIDE DEF f
  <2> QED
    BY <1>9, <2>1, <2>2, <2>3, <2>4, <2>5 DEF ResumeClaim, Own, Free, Takes, At, Idle
<1>10. ASSUME NEW e \in Executors, NEW t \in Turns, NEW a \in BOOLEAN, Decide(e, t, a)
       PROVE  Takes(e, thread[t]) /\ thread[t] \in Threads
  <2> DEFINE f == [pc |-> IF a THEN "call" ELSE "append", turn |-> t,
                   thread |-> thread[t], call |-> gate[t].call, path |-> "gate",
                   replay |-> FALSE, exempt |-> IF a THEN gate[t].op ELSE NoOp,
                   seen |-> hist[thread[t]]]
  <2>1. f.pc # "idle" /\ f.turn = t /\ f.thread = thread[t]
    OBVIOUS
  <2>2. exec' = [exec EXCEPT ![e] = f] /\ exec[e] = Idle
    BY <1>10 DEF Decide, Decidable, Own
  <2>3. exec'[e] = f /\ OnlyExec(e)
    BY <2>2 DEF TypeOK
  <2>4. status[t] \in Unended /\ thread[t] \in Threads
    BY <1>10 DEF Decide, Decidable, Unended, Active, Rows
  <2>5. status'[t] \in Active /\ \A u \in Turns \ {t} : status'[u] = status[u]
    BY <1>10 DEF Decide, Decidable, Active, TypeOK
  <2> HIDE DEF f
  <2> QED
    BY <1>10, <2>1, <2>2, <2>3, <2>4, <2>5 DEF Decide, Decidable, Own, Free, Takes, At, Idle
<1>11. ASSUME NEW t \in Turns,
              ExpireApproval(t) \/ ResumeGivesUp(t) \/ Report(t) \/ Prune(t)
       PROVE  Outside
  BY <1>11 DEF ExpireApproval, ResumeGivesUp, Report, Prune, Abandoned, Fail,
               Outside, TypeOK, Unended, Terminal
<1>12. ASSUME NEW k \in Keys, NEW v \in {"happened", "did_not_happen", "unknown"},
              Reconcile(k, v)
       PROVE  Outside
  BY <1>12 DEF Reconcile, Verifiable, Fail, Outside, TypeOK, Intents, Terminal
<1>13. ASSUME NEW k \in Keys, Arrives(k) \/ Vanishes(k)
       PROVE  Outside
  BY <1>13 DEF Arrives, Vanishes, Outside
<1>14. ASSUME NEW th \in Threads, ClearContext(th)
       PROVE  Outside
  BY <1>14 DEF ClearContext, Outside
<1> QED
  BY <1>1, <1>2, <1>3, <1>4, <1>5, <1>6, <1>7, <1>8, <1>9, <1>10, <1>11, <1>12,
     <1>13, <1>14
     DEF Next, Proceed, Kind

\* Executors that are not idle are apart: other conversation, other turn.
LEMMA Apart ==
    ASSUME Owners, NEW e \in Executors, NEW f \in Executors, e # f,
           ~At(e, "idle"), ~At(f, "idle")
    PROVE  /\ exec[e].thread # exec[f].thread
           /\ InATurn(e) /\ InATurn(f) => T(e) # T(f)
BY DEF Owners, InATurn

\* How the status of a turn moves.
LEMMA StatusMoves ==
    ASSUME TypeOK, Rows, Owners, Kind, NEW t \in Turns
    PROVE  \/ status'[t] = status[t]
           \/ status[t] = "none" /\ t = turns' /\ turns' = turns + 1
              /\ status'[t] = "running"
           \/ /\ status[t] \in Unended /\ status'[t] \in Unended \cup Terminal
              /\ status'[t] = "done" => ~PendingIn(t) /\ UNCHANGED ledger
           \/ status[t] \in Terminal /\ status'[t] = "pruned" /\ Prune(t)
<1> USE DEF Unended, Active, Terminal
<1>1. ASSUME NEW e \in Executors, Within(e)
      PROVE  status'[t] = status[t] \/ (status[t] \in Unended /\ status'[t] \in Unended)
  BY <1>1 DEF Within, Owners, InATurn
<1>2. ASSUME NEW e \in Executors, Opens(e)
      PROVE  status'[t] = status[t] \/ (status[t] = "none" /\ t = turns' /\ status'[t] = "running")
  BY <1>2 DEF Opens, Rows, TypeOK, Turns
<1>3. ASSUME NEW e \in Executors, Leaves(e)
      PROVE  \/ status'[t] = status[t]
             \/ /\ status[t] \in Unended /\ status'[t] \in Terminal
                /\ status'[t] = "done" => ~PendingIn(t) /\ UNCHANGED ledger
  BY <1>3 DEF Leaves, Owners, InATurn
<1>4. ASSUME NEW e \in Executors, NEW th \in Threads, Takes(e, th)
      PROVE  status'[t] = status[t] \/ (status[t] \in Unended /\ status'[t] \in Unended)
  BY <1>4 DEF Takes
<1> QED
  BY <1>1, <1>2, <1>3, <1>4 DEF Kind, Outside, Opens

\* A live executor keeps its lock and its turn whatever anyone does.
LEMMA OwnersStep ==
    ASSUME TypeOK, TypeOK', Rows, Owners, Kind
    PROVE  Owners'
<1> USE DEF InATurn, OnlyExec, At, T
<1> DEFINE Ok(f) == /\ exec[f].pc = "idle" => exec[f] = Idle
                    /\ exec[f].pc # "idle" =>
                          exec[f].thread \in Threads /\ lock[exec[f].thread] = f
                    /\ exec[f].pc \notin {"idle", "begin"} =>
                          /\ exec[f].turn \in Turns
                          /\ thread[exec[f].turn] = exec[f].thread
                          /\ status[exec[f].turn] \in Unended
<1>0. \A f \in Executors : Ok(f)
  BY DEF Owners
<1>1. ASSUME NEW e \in Executors, Within(e), NEW f \in Executors
      PROVE  Ok(f)'
  <2>1. CASE f = e
    BY <1>0, <1>1, <2>1 DEF Within, Unended
  <2>2. CASE f # e
    <3>1. exec'[f] = exec[f] /\ lock' = lock /\ thread' = thread
      BY <1>1, <2>2 DEF Within
    <3>2. InATurn(f) => status'[T(f)] = status[T(f)]
      BY <1>0, <1>1, <2>2, Apart DEF Within
    <3> QED
      BY <1>0, <3>1, <3>2
  <2> QED
    BY <2>1, <2>2
<1>2. ASSUME NEW e \in Executors, Opens(e), NEW f \in Executors
      PROVE  Ok(f)'
  <2>1. turns' \in Turns /\ status[turns'] = "none"
    BY <1>2 DEF Opens, Rows, TypeOK, Turns
  <2>2. CASE f = e
    BY <1>0, <1>2, <2>1, <2>2 DEF Opens, TypeOK, Unended, Active
  <2>3. CASE f # e
    <3>1. exec'[f] = exec[f] /\ lock' = lock
      BY <1>2, <2>3 DEF Opens
    <3>2. InATurn(f) => T(f) # turns'
      BY <1>0, <2>1 DEF Unended, Active
    <3>3. InATurn(f) => thread'[T(f)] = thread[T(f)] /\ status'[T(f)] = status[T(f)]
      BY <1>0, <1>2, <3>2 DEF Opens, TypeOK
    <3> QED
      BY <1>0, <3>1, <3>3
  <2> QED
    BY <2>2, <2>3
<1>3. ASSUME NEW e \in Executors, Leaves(e), NEW f \in Executors
      PROVE  Ok(f)'
  <2>1. CASE f = e
    BY <1>3, <2>1 DEF Leaves, Idle
  <2>2. CASE f # e
    <3>1. exec'[f] = exec[f] /\ thread' = thread
      BY <1>3, <2>2 DEF Leaves
    <3>2. ~At(f, "idle") => lock'[exec[f].thread] = lock[exec[f].thread]
      BY <1>0, <1>3, <2>2, Apart DEF Leaves, TypeOK
    <3>3. InATurn(f) => status'[T(f)] = status[T(f)]
      BY <1>0, <1>3, <2>2, Apart DEF Leaves
    <3> QED
      BY <1>0, <3>1, <3>2, <3>3
  <2> QED
    BY <2>1, <2>2
<1>4. ASSUME NEW e \in Executors, NEW th \in Threads, Takes(e, th), NEW f \in Executors
      PROVE  Ok(f)'
  <2>1. CASE f = e
    <3>1. exec'[f].pc # "idle" /\ exec'[f].thread = th /\ lock'[th] = f
      BY <1>4, <2>1 DEF Takes, TypeOK
    <3>2. exec'[f].pc # "begin" =>
             /\ exec'[f].turn \in Turns
             /\ thread'[exec'[f].turn] = th
             /\ status'[exec'[f].turn] \in Unended
      BY <1>4, <2>1 DEF Takes, Unended
    <3> QED
      BY <3>1, <3>2
  <2>2. CASE f # e
    <3>1. exec'[f] = exec[f] /\ thread' = thread
      BY <1>4, <2>2 DEF Takes
    <3>2. ~At(f, "idle") => exec[f].thread # th /\ lock'[exec[f].thread] = lock[exec[f].thread]
      BY <1>0, <1>4 DEF Takes, TypeOK
    <3>3. InATurn(f) => status'[T(f)] = status[T(f)]
      BY <1>0, <1>4, <3>2 DEF Takes
    <3> QED
      BY <1>0, <3>1, <3>2, <3>3
  <2> QED
    BY <2>1, <2>2
<1>5. ASSUME Outside, NEW f \in Executors
      PROVE  Ok(f)'
  <2>1. exec' = exec /\ lock' = lock /\ thread' = thread
    BY <1>5 DEF Outside
  <2>2. InATurn(f) => status'[T(f)] = status[T(f)]
    BY <1>0, <1>5 DEF Outside, Free, Unended, Active, Terminal
  <2> QED
    BY <1>0, <2>1, <2>2
<1>6. \A f \in Executors : Ok(f)'
  BY <1>1, <1>2, <1>3, <1>4, <1>5 DEF Kind
<1> QED
  BY <1>6 DEF Owners

\* Marking calls as answered, memoized or refused leaves the batch as it is.
LEMMA MarkKeepsBatch ==
    ASSUME TypeOK, NEW t \in Turns, NEW e \in Executors,
           \/ ReplayRecorded(e) \/ ApprovalUnavailable(e) \/ SaveResult(e)
           \/ JournalDone(e) \/ JournalDeferred(e)
           \/ JournalBatch(e) \/ AppendDecision(e)
    PROVE  journal'[t].batch = journal[t].batch
<1>1. PICK X : \/ journal' = [journal EXCEPT ![T(e)].answered = X]
               \/ journal' = [journal EXCEPT ![T(e)].cache = X]
               \/ journal' = [journal EXCEPT ![T(e)].denied = X]
  BY DEF ReplayRecorded, ApprovalUnavailable, SaveResult, JournalDone,
         JournalDeferred, JournalBatch, AppendDecision
<1>2. journal[t] \in Batches
  BY DEF TypeOK
<1> DEFINE b == journal[t]
<1>3. /\ [b EXCEPT !.answered = X].batch = b.batch
      /\ [b EXCEPT !.cache = X].batch = b.batch
      /\ [b EXCEPT !.denied = X].batch = b.batch
  BY <1>2 DEF Batches
<1>4. CASE t = T(e)
  BY <1>1, <1>3, <1>4 DEF TypeOK
<1>5. CASE t # T(e)
  BY <1>1, <1>5 DEF TypeOK
<1> QED
  BY <1>4, <1>5

\* A batch is replaced by its own executor, or goes when its turn has ended.
LEMMA BatchSteps ==
    ASSUME TypeOK, Rows, Owners, Next, NEW t \in Turns
    PROVE  \/ journal'[t].batch = journal[t].batch
           \/ \E e \in Executors : /\ ModelCalls(e) /\ t = T(e)
                                   /\ Calls(t)' \subseteq 1..MaxBatch /\ 1 \in Calls(t)'
           \/ Calls(t)' = {} /\ status'[t] \notin Unended
<1> USE DEF rows
<1> DEFINE Same == journal'[t].batch = journal[t].batch
           Gone == Calls(t)' = {} /\ status'[t] \notin Unended
<1>1. ASSUME NEW e \in Executors, ModelCalls(e)
      PROVE  Same \/ (t = T(e) /\ Calls(t)' \subseteq 1..MaxBatch /\ 1 \in Calls(t)')
  <2>1. PICK n \in 1..MaxBatch : \E b \in [1..n -> Ops] :
          journal' = [journal EXCEPT ![T(e)] =
                        [round |-> @.round + 1, batch |-> b,
                         answered |-> {}, cache |-> {}, denied |-> {}]]
    BY <1>1 DEF ModelCalls
  <2>2. PICK b \in [1..n -> Ops] :
          journal' = [journal EXCEPT ![T(e)] =
                        [round |-> journal[T(e)].round + 1, batch |-> b,
                         answered |-> {}, cache |-> {}, denied |-> {}]]
    BY <2>1
  <2>3. CASE t = T(e)
    BY <2>2, <2>3 DEF TypeOK, Calls
  <2>4. CASE t # T(e)
    BY <2>2, <2>4 DEF TypeOK
  <2> QED
    BY <2>3, <2>4
<1>2. ASSUME NEW e \in Executors, NEW failed \in BOOLEAN, Finalize(e, failed)
      PROVE  Same \/ Gone
  <2>1. status[T(e)] \in Active /\ T(e) \in Turns
    BY <1>2 DEF Finalize, At, Owners
  <2> QED
    BY <1>2, <2>1 DEF Finalize, NoBatch, Calls, TypeOK, Unended, Active
<1>3. ASSUME NEW u \in Turns, Prune(u)
      PROVE  Same \/ Gone
  BY <1>3 DEF Prune, NoBatch, Calls, TypeOK, Unended, Active
<1>4. ASSUME NEW e \in Executors,
             \/ RejectInput(e) \/ BeginTurn(e) \/ ModelEnds(e)
             \/ ReuseCached(e) \/ AskApproval(e)
             \/ ClaimReuse(e) \/ ClaimRefused(e) \/ ClaimEffect(e)
             \/ Dispatch(e) \/ ToolReturns(e) \/ FinishEffect(e)
             \/ ResumeCheck(e) \/ Raise(e) \/ FailTurn(e) \/ Crash(e)
             \/ \E th \in Threads : Invoke(e, th)
             \/ \E u \in Turns : \/ ResumeClaim(e, u)
                                 \/ \E a \in BOOLEAN : Decide(e, u, a)
      PROVE  Same
  BY <1>4 DEF RejectInput, BeginTurn, ModelEnds, ReuseCached, AskApproval,
              ClaimReuse, ClaimRefused, ClaimEffect, Dispatch, ToolReturns,
              FinishEffect, ResumeCheck, Raise, FailTurn, Crash, Invoke,
              ResumeClaim, Decide
<1>5. ASSUME NEW e \in Executors,
             \/ ReplayRecorded(e) \/ ApprovalUnavailable(e) \/ SaveResult(e)
             \/ JournalDone(e) \/ JournalDeferred(e)
             \/ JournalBatch(e) \/ AppendDecision(e)
      PROVE  Same
  BY <1>5, MarkKeepsBatch
<1>6. ASSUME NEW u \in Turns, ExpireApproval(u) \/ ResumeGivesUp(u) \/ Report(u)
      PROVE  Same
  BY <1>6 DEF ExpireApproval, ResumeGivesUp, Report
<1>7. ASSUME NEW k \in Keys,
             \/ Arrives(k) \/ Vanishes(k)
             \/ \E v \in {"happened", "did_not_happen", "unknown"} : Reconcile(k, v)
      PROVE  Same
  BY <1>7 DEF Arrives, Vanishes, Reconcile
<1>8. ASSUME NEW th \in Threads, ClearContext(th)
      PROVE  Same
  BY <1>8 DEF ClearContext
<1> QED
  BY <1>1, <1>2, <1>3, <1>4, <1>5, <1>6, <1>7, <1>8 DEF Next, Proceed

\* A prompt is opened by the executor of its turn, and by nobody else.
LEMMA GateSteps ==
    ASSUME TypeOK, Next, NEW t \in Turns
    PROVE  \/ gate'[t] = gate[t]
           \/ \E e \in Executors : AskApproval(e) /\ t = T(e)
           \/ gate'[t].st # "pending" /\ gate[t].st = "pending"
<1> USE DEF rows
<1> DEFINE Same == gate'[t] = gate[t]
           Closed == gate'[t].st # "pending" /\ gate[t].st = "pending"
<1>1. ASSUME NEW e \in Executors, AskApproval(e)
      PROVE  Same \/ t = T(e)
  BY <1>1 DEF AskApproval, TypeOK
<1>2. ASSUME NEW e \in Executors, NEW u \in Turns, NEW a \in BOOLEAN, Decide(e, u, a)
      PROVE  Same \/ Closed
  BY <1>2 DEF Decide, Decidable, TypeOK, Asks
<1>3. ASSUME NEW u \in Turns, ExpireApproval(u)
      PROVE  Same \/ Closed
  BY <1>3 DEF ExpireApproval, TypeOK, Asks
<1>4. ASSUME NEW e \in Executors,
             \/ RejectInput(e) \/ BeginTurn(e) \/ ModelCalls(e) \/ ModelEnds(e)
             \/ ReuseCached(e) \/ ReplayRecorded(e) \/ ApprovalUnavailable(e)
             \/ JournalDone(e) \/ JournalDeferred(e)
             \/ ClaimReuse(e) \/ ClaimRefused(e) \/ ClaimEffect(e)
             \/ Dispatch(e) \/ ToolReturns(e) \/ FinishEffect(e) \/ SaveResult(e)
             \/ JournalBatch(e) \/ AppendDecision(e) \/ ResumeCheck(e)
             \/ Raise(e) \/ FailTurn(e) \/ Crash(e)
             \/ \E failed \in BOOLEAN : Finalize(e, failed)
             \/ \E th \in Threads : Invoke(e, th)
             \/ \E u \in Turns : ResumeClaim(e, u)
      PROVE  Same
  BY <1>4 DEF RejectInput, BeginTurn, ModelCalls, ModelEnds, ReuseCached,
              ReplayRecorded, ApprovalUnavailable, JournalDone, JournalDeferred,
              ClaimReuse, ClaimRefused, ClaimEffect, Dispatch, ToolReturns,
              FinishEffect, SaveResult, JournalBatch, AppendDecision, ResumeCheck,
              Raise, FailTurn, Crash, Finalize, Invoke, ResumeClaim
<1>5. ASSUME NEW u \in Turns, ResumeGivesUp(u) \/ Report(u) \/ Prune(u)
      PROVE  Same
  BY <1>5 DEF ResumeGivesUp, Report, Prune
<1>6. ASSUME NEW k \in Keys,
             \/ Arrives(k) \/ Vanishes(k)
             \/ \E v \in {"happened", "did_not_happen", "unknown"} : Reconcile(k, v)
      PROVE  Same
  BY <1>6 DEF Arrives, Vanishes, Reconcile
<1>7. ASSUME NEW th \in Threads, ClearContext(th)
      PROVE  Same
  BY <1>7 DEF ClearContext
<1> QED
  BY <1>1, <1>2, <1>3, <1>4, <1>5, <1>6, <1>7 DEF Next, Proceed

\* Rows keep their order, and an open prompt its call.
LEMMA RowsStep ==
    ASSUME TypeOK, TypeOK', Rows, Owners, OnePrompt, Kind, Next
    PROVE  Rows'
<1> SUFFICES ASSUME NEW t \in Turns
             PROVE  /\ status'[t] = "none" <=> t > turns'
                    /\ status'[t] # "none" => thread'[t] \in Threads
                    /\ status'[t] = "none" => gate'[t].st = "none"
                    /\ Calls(t)' \subseteq 1..MaxBatch
                    /\ gate'[t].st = "pending" /\ status'[t] \in Unended =>
                          /\ gate'[t].call \in Calls(t)'
                          /\ gate'[t].op = journal'[t].batch[gate'[t].call]
  BY DEF Rows
<1> USE DEF Turns
<1>1. /\ status'[t] = "none" <=> t > turns'
      /\ status'[t] # "none" => thread'[t] \in Threads
  <2>1. ASSUME NEW e \in Executors, Opens(e)
        PROVE  /\ status'[t] = "none" <=> t > turns'
               /\ status'[t] # "none" => thread'[t] \in Threads
    <3>1. exec[e].thread \in Threads
      BY <2>1 DEF Opens, Owners, At
    <3> QED
      BY <2>1, <3>1 DEF Opens, Rows, TypeOK
  <2>2. ASSUME NEW e \in Executors, Within(e) \/ Leaves(e)
        PROVE  /\ turns' = turns /\ thread' = thread
               /\ status'[t] = "none" <=> status[t] = "none"
    BY <2>2 DEF Within, Leaves, Owners, InATurn, Unended, Active, Rows
  <2>3. ASSUME NEW e \in Executors, NEW th \in Threads, Takes(e, th)
        PROVE  /\ turns' = turns /\ thread' = thread
               /\ status'[t] = "none" <=> status[t] = "none"
    BY <2>3 DEF Takes, Unended, Active
  <2>4. ASSUME Outside
        PROVE  /\ turns' = turns /\ thread' = thread
               /\ status'[t] = "none" <=> status[t] = "none"
    BY <2>4 DEF Outside, Unended, Active, Terminal
  <2> QED
    BY <2>1, <2>2, <2>3, <2>4 DEF Kind, Rows
<1>2. Calls(t)' \subseteq 1..MaxBatch
  BY BatchSteps DEF Calls, Rows
<1>3. status'[t] = "none" => gate'[t].st = "none"
  <2>1. SUFFICES ASSUME status'[t] = "none" PROVE gate'[t].st = "none"
    OBVIOUS
  <2>2. status[t] = "none"
    BY <2>1, StatusMoves DEF Unended, Active, Terminal
  <2>3. ASSUME NEW e \in Executors, AskApproval(e) PROVE t # T(e)
    BY <2>2, <2>3 DEF AskApproval, Fresh, At, Owners, Unended, Active
  <2> QED
    BY <2>2, <2>3, GateSteps DEF Rows
<1>4. ASSUME gate'[t].st = "pending", status'[t] \in Unended
      PROVE  /\ gate'[t].call \in Calls(t)'
             /\ gate'[t].op = journal'[t].batch[gate'[t].call]
  <2>1. ASSUME NEW e \in Executors, AskApproval(e), t = T(e)
        PROVE  /\ gate'[t].call \in Calls(t)'
               /\ gate'[t].op = journal'[t].batch[gate'[t].call]
    <3>1. exec[e].call \in Calls(t)
      BY <2>1 DEF AskApproval, Fresh, At, OnePrompt, AtACall
    <3>2. gate'[t].call = exec[e].call /\ gate'[t].op = Op(e) /\ journal' = journal
      BY <2>1 DEF AskApproval, TypeOK
    <3> QED
      BY <2>1, <3>1, <3>2 DEF Op, Calls
  <2>2. CASE gate'[t] = gate[t]
    <3>1. status[t] \in Unended
      BY <1>4, <2>2, StatusMoves DEF Rows, Unended, Active, Terminal
    <3>2. ASSUME NEW e \in Executors, ModelCalls(e) PROVE t # T(e)
      BY <1>4, <2>2, <3>2 DEF ModelCalls, At, OnePrompt, Paused
    <3>3. journal'[t].batch = journal[t].batch
      BY <1>4, <3>2, BatchSteps
    <3> QED
      BY <1>4, <2>2, <3>1, <3>3 DEF Rows, Calls
  <2> QED
    BY <1>4, <2>1, <2>2, GateSteps
<1> QED
  BY <1>1, <1>2, <1>3, <1>4

\* An executor keeps to a call of its batch and away from open prompts.
LEMMA OnePromptStep ==
    ASSUME TypeOK, TypeOK', Rows, Rows', Owners, Owners', OnePrompt, Next
    PROVE  OnePrompt'
<1> USE DEF At, T, rows
<1> DEFINE Good(f) == /\ exec[f].pc \in AtACall => exec[f].call \in Calls(T(f))
                      /\ exec[f].pc \notin Paused => gate[T(f)].st # "pending"
           Flow(f) ==
             /\ exec'[f].turn = exec[f].turn /\ exec'[f].call = exec[f].call
             /\ exec'[f].pc \in AtACall => exec[f].pc \in AtACall
             /\ exec'[f].pc \notin Paused => exec[f].pc \notin Paused
             /\ journal'[T(f)].batch = journal[T(f)].batch
             /\ gate' = gate
<1>0. \A f \in Executors : Good(f)
  BY DEF OnePrompt
<1>a. ASSUME NEW f \in Executors, InATurn(f)
      PROVE  /\ T(f) \in Turns /\ exec[f] \in Frames
             /\ journal[T(f)] \in Batches /\ gate[T(f)] \in Asks
  BY <1>a DEF Owners, InATurn, TypeOK
\* An executor that does not move is not disturbed.
<1>1. ASSUME NEW f \in Executors, exec'[f] = exec[f]
      PROVE  Good(f)'
  <2>1. CASE ~InATurn(f)
    BY <1>1, <2>1 DEF InATurn, AtACall, Paused
  <2>2. CASE InATurn(f)
    <3>1. T(f) \in Turns /\ status'[T(f)] \in Unended
      BY <1>1, <2>2 DEF InATurn, Owners
    <3>2. ASSUME NEW e \in Executors, ModelCalls(e), T(e) = T(f)
          PROVE  exec[f].pc \notin AtACall
      <4>1. e = f
        BY <2>2, <3>2, Apart DEF ModelCalls, InATurn
      <4> QED
        BY <3>2, <4>1 DEF ModelCalls, AtACall
    <3>3. ASSUME NEW e \in Executors, AskApproval(e) PROVE T(e) # T(f)
      <4>1. e # f
        BY <1>1, <3>3 DEF AskApproval, Fresh, Goto, TypeOK, Frames
      <4> QED
        BY <2>2, <3>3, <4>1, Apart DEF AskApproval, Fresh, InATurn
    <3>4. exec[f].pc \in AtACall => journal'[T(f)].batch = journal[T(f)].batch
      BY <3>1, <3>2, BatchSteps
    <3>5. gate'[T(f)] = gate[T(f)] \/ gate'[T(f)].st # "pending"
      BY <3>1, <3>3, GateSteps
    <3> QED
      BY <1>0, <1>1, <3>4, <3>5 DEF Calls
  <2> QED
    BY <2>1, <2>2
\* One that moves along its call keeps what it had.
<1>2. ASSUME NEW f \in Executors, Flow(f)
      PROVE  Good(f)'
  BY <1>0, <1>2 DEF Calls
<1>3. ASSUME NEW e \in Executors, NEW th \in Threads, Invoke(e, th)
      PROVE  exec'[e].pc = "begin" /\ OnlyExec(e)
  <2>1. [Idle EXCEPT !.pc = "begin", !.thread = th, !.seen = hist[th]].pc = "begin"
    BY DEF Idle
  <2> QED
    BY <1>3, <2>1 DEF Invoke, OnlyExec, TypeOK
<1>4. ASSUME NEW e \in Executors, BeginTurn(e)
      PROVE  Good(e)' /\ OnlyExec(e)
  <2>1. exec[e] \in Frames
    BY DEF TypeOK
  <2>2. exec'[e].pc = "model" /\ exec'[e].turn = turns + 1 /\ OnlyExec(e)
    BY <1>4, <2>1 DEF BeginTurn, OnlyExec, TypeOK, Frames
  <2>3. gate'[turns + 1].st = "none"
    BY <1>4 DEF BeginTurn, Rows, TypeOK, Turns
  <2> QED
    BY <2>2, <2>3 DEF AtACall
<1>5. ASSUME NEW e \in Executors, ModelCalls(e)
      PROVE  Good(e)' /\ OnlyExec(e)
  <2>1. T(e) \in Turns /\ exec[e] \in Frames /\ journal[T(e)] \in Batches
    BY <1>5, <1>a DEF ModelCalls, InATurn
  <2>2. exec'[e].pc = "call" /\ exec'[e].turn = T(e) /\ exec'[e].call = 1 /\ OnlyExec(e)
    BY <1>5, <2>1 DEF ModelCalls, OnlyExec, TypeOK, Frames
  <2>3. 1 \in Calls(T(e))'
    <3>1. PICK n \in 1..MaxBatch : \E b \in [1..n -> Ops] :
            journal' = [journal EXCEPT ![T(e)] =
                          [round |-> @.round + 1, batch |-> b,
                           answered |-> {}, cache |-> {}, denied |-> {}]]
      BY <1>5 DEF ModelCalls
    <3> QED
      BY <2>1, <2>2, <3>1 DEF Calls, TypeOK
  <2>4. gate' = gate /\ gate[T(e)].st # "pending"
    BY <1>0, <1>5 DEF ModelCalls, Paused
  <2> QED
    BY <2>2, <2>3, <2>4 DEF Calls
<1>6. ASSUME NEW e \in Executors,
             \/ ModelEnds(e) \/ ClaimReuse(e) \/ ClaimRefused(e) \/ ClaimEffect(e)
             \/ Dispatch(e) \/ ToolReturns(e) \/ FinishEffect(e) \/ Raise(e)
      PROVE  Flow(e) /\ OnlyExec(e)
  <2>1. PICK pc : /\ Goto(e, pc)
                  /\ pc \in AtACall => exec[e].pc \in AtACall
                  /\ pc \notin Paused => exec[e].pc \notin Paused
    BY <1>6 DEF ModelEnds, ClaimReuse, ClaimRefused, ClaimEffect, Claiming, Fresh,
                Dispatch, ToolReturns, FinishEffect, Raise, InTurn, AtACall, Paused
  <2>2. exec[e] \in Frames
    BY DEF TypeOK
  <2>3. exec'[e].pc = pc /\ exec'[e].turn = T(e) /\ exec'[e].call = exec[e].call
        /\ OnlyExec(e)
    BY <2>1, <2>2 DEF Goto, OnlyExec, TypeOK, Frames
  <2>4. UNCHANGED <<journal, gate>>
    BY <1>6 DEF ModelEnds, ClaimReuse, ClaimRefused, ClaimEffect, Dispatch,
                ToolReturns, FinishEffect, Raise
  <2> QED
    BY <2>1, <2>3, <2>4
<1>7. ASSUME NEW e \in Executors, JournalDone(e) \/ JournalBatch(e)
      PROVE  Flow(e) /\ OnlyExec(e)
  <2>1. T(e) \in Turns /\ exec[e] \in Frames /\ journal[T(e)] \in Batches
    BY <1>7, <1>a DEF JournalDone, JournalBatch, InATurn
  <2>2. /\ exec'[e].turn = T(e) /\ exec'[e].call = exec[e].call /\ OnlyExec(e)
        /\ exec'[e].pc \in AtACall => exec[e].pc \in AtACall
        /\ exec'[e].pc \notin Paused => exec[e].pc \notin Paused
    BY <1>7, <2>1 DEF JournalDone, JournalBatch, Goto, OnlyExec, TypeOK, Frames,
                      AtACall, Paused
  <2>3. gate' = gate /\ journal'[T(e)].batch = journal[T(e)].batch
    BY <1>7, <2>1, MarkKeepsBatch DEF JournalDone, JournalBatch
  <2> QED
    BY <2>2, <2>3
<1>8. ASSUME NEW e \in Executors, AppendDecision(e)
      PROVE  Flow(e) /\ OnlyExec(e)
  <2>1. T(e) \in Turns /\ exec[e] \in Frames /\ journal[T(e)] \in Batches
    BY <1>8, <1>a DEF AppendDecision, InATurn
  <2>2. /\ exec'[e].turn = T(e) /\ exec'[e].call = exec[e].call /\ OnlyExec(e)
        /\ exec'[e].pc \in {"model", "failing"}
    BY <1>8, <2>1, ZenonT(30) DEF AppendDecision, OnlyExec, TypeOK, Frames
  <2>3. gate' = gate /\ journal'[T(e)].batch = journal[T(e)].batch
    BY <1>8, <2>1, MarkKeepsBatch DEF AppendDecision
  <2> QED
    BY <1>8, <2>2, <2>3 DEF AppendDecision, AtACall, Paused
<1>9. ASSUME NEW e \in Executors,
             \/ ReuseCached(e) \/ ReplayRecorded(e) \/ ApprovalUnavailable(e)
             \/ SaveResult(e)
      PROVE  Good(e)' /\ OnlyExec(e)
  <2>1. /\ exec[e].pc \in {"call", "cache"} /\ Advance(e) /\ gate' = gate
        /\ T(e) \in Turns /\ exec[e] \in Frames /\ journal[T(e)] \in Batches
    BY <1>9, <1>a DEF ReuseCached, ReplayRecorded, ApprovalUnavailable, SaveResult,
                      Fresh, InATurn
  <2>2. journal'[T(e)].batch = journal[T(e)].batch
    <3>1. ReuseCached(e) => journal' = journal
      BY DEF ReuseCached
    <3> QED
      BY <1>9, <2>1, <3>1, MarkKeepsBatch
  <2>3. exec[e].call \in Calls(T(e)) /\ gate[T(e)].st # "pending"
    BY <1>0, <2>1 DEF AtACall, Paused
  <2>4. ASSUME NEW pc \in {"append", "journal"}, Goto(e, pc)
        PROVE  /\ exec'[e].turn = T(e) /\ exec'[e].call \in Calls(T(e)) /\ OnlyExec(e)
    BY <2>1, <2>3, <2>4 DEF Goto, OnlyExec, TypeOK, Frames
  <2>5. ASSUME NEW j \in Firsts(CallsAfter(T(e), exec[e].call)),
               exec' = [exec EXCEPT ![e].pc = "call", ![e].call = j]
        PROVE  /\ exec'[e].turn = T(e) /\ exec'[e].call \in Calls(T(e)) /\ OnlyExec(e)
    <3>1. j \in Calls(T(e))
      BY DEF Firsts, CallsAfter
    <3> QED
      BY <2>1, <2>5, <3>1 DEF OnlyExec, TypeOK, Frames
  <2>6. exec'[e].turn = T(e) /\ exec'[e].call \in Calls(T(e)) /\ OnlyExec(e)
    BY <2>1, <2>4, <2>5 DEF Advance
  <2> QED
    BY <2>1, <2>2, <2>3, <2>6 DEF Calls
<1>10. ASSUME NEW e \in Executors, AskApproval(e)
       PROVE  Good(e)' /\ OnlyExec(e)
  <2>1. T(e) \in Turns /\ exec[e] \in Frames
    BY <1>10, <1>a DEF AskApproval, Fresh, InATurn
  <2>2. /\ exec'[e].turn = T(e) /\ exec'[e].call = exec[e].call /\ OnlyExec(e)
        /\ exec'[e].pc = "pauseDone" /\ journal' = journal
    BY <1>10, <2>1 DEF AskApproval, Goto, OnlyExec, TypeOK, Frames
  <2>3. exec[e].call \in Calls(T(e))
    BY <1>0, <1>10 DEF AskApproval, Fresh, AtACall
  <2> QED
    BY <2>2, <2>3 DEF Calls, Paused
<1>11. ASSUME NEW e \in Executors, \/ RejectInput(e) \/ JournalDeferred(e)
                                   \/ FailTurn(e) \/ Crash(e)
                                   \/ \E failed \in BOOLEAN : Finalize(e, failed)
       PROVE  exec'[e].pc = "idle" /\ OnlyExec(e)
  BY <1>11 DEF RejectInput, JournalDeferred, FailTurn, Crash, Finalize, Unwind,
               Idle, OnlyExec, TypeOK
<1>12. ASSUME NEW e \in Executors, NEW t \in Turns, ResumeClaim(e, t)
       PROVE  Good(e)' /\ OnlyExec(e)
  <2> DEFINE f == [Idle EXCEPT !.pc = "resumed", !.turn = t, !.thread = thread[t]]
  <2>1. f.pc = "resumed" /\ f.turn = t
    BY DEF Idle
  <2>2. exec'[e] = f /\ OnlyExec(e)
    BY <1>12 DEF ResumeClaim, OnlyExec, TypeOK
  <2>3. gate' = gate /\ gate[t].st # "pending"
    BY <1>12 DEF ResumeClaim, Abandoned
  <2> HIDE DEF f
  <2> QED
    BY <2>1, <2>2, <2>3 DEF AtACall
<1>13. ASSUME NEW e \in Executors, NEW t \in Turns, NEW a \in BOOLEAN, Decide(e, t, a)
       PROVE  Good(e)' /\ OnlyExec(e)
  <2> DEFINE f == [pc |-> IF a THEN "call" ELSE "append", turn |-> t,
                   thread |-> thread[t], call |-> gate[t].call, path |-> "gate",
                   replay |-> FALSE, exempt |-> IF a THEN gate[t].op ELSE NoOp,
                   seen |-> hist[thread[t]]]
  <2>1. f.turn = t /\ f.call = gate[t].call
    OBVIOUS
  <2>2. exec'[e] = f /\ OnlyExec(e) /\ journal' = journal
    BY <1>13 DEF Decide, Decidable, OnlyExec, TypeOK
  <2>3. gate[t].call \in Calls(t)
    BY <1>13 DEF Decide, Decidable, Rows
  <2>4. gate'[t].st # "pending"
    BY <1>13 DEF Decide, Decidable, TypeOK, Asks
  <2> HIDE DEF f
  <2> QED
    BY <2>1, <2>2, <2>3, <2>4 DEF Calls
<1>14. ASSUME NEW e \in Executors, ResumeCheck(e)
       PROVE  Good(e)' /\ OnlyExec(e)
  <2>1. /\ T(e) \in Turns /\ exec[e] \in Frames /\ UNCHANGED <<journal, gate>>
        /\ gate[T(e)].st # "pending"
    BY <1>0, <1>14, <1>a DEF ResumeCheck, InATurn, Paused
  <2> DEFINE Moved == /\ exec'[e].turn = T(e) /\ OnlyExec(e)
                      /\ exec'[e].pc \in AtACall => exec'[e].call \in Calls(T(e))
  <2>2. ASSUME Goto(e, "failing") PROVE Moved
    BY <2>1, <2>2 DEF Goto, OnlyExec, TypeOK, Frames, AtACall
  <2>3. ASSUME exec' = [exec EXCEPT ![e].pc = "model", ![e].seen = hist[exec[e].thread]]
        PROVE  Moved
    BY <2>1, <2>3 DEF OnlyExec, TypeOK, Frames, AtACall
  <2>4. ASSUME NEW j \in Firsts(CallsAfter(T(e), 0)),
               exec' = [exec EXCEPT ![e].pc = "call", ![e].call = j,
                                    ![e].replay = TRUE,
                                    ![e].seen = hist[exec[e].thread]]
        PROVE  Moved
    <3>1. j \in Calls(T(e))
      BY DEF Firsts, CallsAfter
    <3> QED
      BY <2>1, <2>4, <3>1 DEF OnlyExec, TypeOK, Frames
  <2>5. Moved
    BY <1>14, <2>2, <2>3, <2>4 DEF ResumeCheck
  <2> QED
    BY <2>1, <2>5 DEF Calls
<1>15. ASSUME \/ \E t \in Turns : \/ ExpireApproval(t) \/ ResumeGivesUp(t)
                                  \/ Report(t) \/ Prune(t)
              \/ \E k \in Keys :
                   \/ Arrives(k) \/ Vanishes(k)
                   \/ \E v \in {"happened", "did_not_happen", "unknown"} : Reconcile(k, v)
              \/ \E th \in Threads : ClearContext(th)
       PROVE  exec' = exec
  BY <1>15 DEF ExpireApproval, ResumeGivesUp, Report, Prune, Arrives, Vanishes,
               Reconcile, ClearContext
<1>16. ASSUME NEW e \in Executors, Good(e)' \/ Flow(e) \/ exec'[e].pc \in {"begin", "idle"},
              OnlyExec(e)
       PROVE  \A f \in Executors : Good(f)'
  <2>1. Good(e)'
    BY <1>2, <1>16 DEF AtACall, Paused
  <2> QED
    BY <1>1, <1>16, <2>1 DEF OnlyExec
<1>17. \A f \in Executors : Good(f)'
  <2>1. ASSUME exec' = exec PROVE \A f \in Executors : Good(f)'
    BY <1>1, <2>1
  <2>2. ASSUME NEW e \in Executors, Proceed(e) \/ Crash(e)
        PROVE  (Good(e)' \/ Flow(e) \/ exec'[e].pc \in {"begin", "idle"}) /\ OnlyExec(e)
    BY <2>2, <1>4, <1>5, <1>6, <1>7, <1>8, <1>9, <1>10, <1>11, <1>14 DEF Proceed
  <2>3. ASSUME NEW e \in Executors,
               \/ \E th \in Threads : Invoke(e, th)
               \/ \E t \in Turns : \/ ResumeClaim(e, t)
                                   \/ \E a \in BOOLEAN : Decide(e, t, a)
        PROVE  (Good(e)' \/ Flow(e) \/ exec'[e].pc \in {"begin", "idle"}) /\ OnlyExec(e)
    BY <2>3, <1>3, <1>12, <1>13
  <2> HIDE DEF Good, Flow
  <2> QED
    BY <1>15, <1>16, <2>1, <2>2, <2>3 DEF Next
<1> QED
  BY <1>17 DEF OnePrompt

-----------------------------------------------------------------------------
(* The ledger and the outside world: seven steps touch them.                *)

LEMMA LedgerSteps ==
    ASSUME Next
    PROVE  \/ UNCHANGED <<ledger, outer, trust>>
           \/ \E e \in Executors : ClaimEffect(e) \/ Dispatch(e) \/ FinishEffect(e)
           \/ \E k \in Keys, v \in {"happened", "did_not_happen", "unknown"} :
                 Reconcile(k, v)
           \/ \E t \in Turns : Prune(t)
           \/ \E k \in Keys : Arrives(k) \/ Vanishes(k)
<1> DEFINE Quiet == UNCHANGED <<ledger, outer, trust>>
<1> USE DEF outer, trust
<1>1. ASSUME NEW e \in Executors,
             \/ RejectInput(e) \/ BeginTurn(e) \/ ModelCalls(e) \/ ModelEnds(e)
             \/ ReuseCached(e) \/ ReplayRecorded(e)
             \/ AskApproval(e) \/ ApprovalUnavailable(e)
             \/ JournalDone(e) \/ JournalDeferred(e)
             \/ ClaimReuse(e) \/ ClaimRefused(e) \/ ToolReturns(e) \/ SaveResult(e)
             \/ JournalBatch(e) \/ AppendDecision(e) \/ ResumeCheck(e)
             \/ Raise(e) \/ FailTurn(e) \/ Crash(e)
             \/ \E failed \in BOOLEAN : Finalize(e, failed)
             \/ \E th \in Threads : Invoke(e, th)
             \/ \E t \in Turns : \/ ResumeClaim(e, t)
                                 \/ \E a \in BOOLEAN : Decide(e, t, a)
      PROVE  Quiet
  BY <1>1 DEF RejectInput, BeginTurn, ModelCalls, ModelEnds, ReuseCached,
              ReplayRecorded, AskApproval, ApprovalUnavailable, JournalDone,
              JournalDeferred, ClaimReuse, ClaimRefused, ToolReturns, SaveResult,
              JournalBatch, AppendDecision, ResumeCheck, Raise, FailTurn, Crash,
              Finalize, Invoke, ResumeClaim, Decide
<1>2. ASSUME NEW t \in Turns, ExpireApproval(t) \/ ResumeGivesUp(t) \/ Report(t)
      PROVE  Quiet
  BY <1>2 DEF ExpireApproval, ResumeGivesUp, Report
<1>3. ASSUME NEW th \in Threads, ClearContext(th)
      PROVE  Quiet
  BY <1>3 DEF ClearContext
<1> QED
  BY <1>1, <1>2, <1>3 DEF Next, Proceed

\* The key an executor works on.
LEMMA KeyOfCall ==
    ASSUME TypeOK, Owners, OnePrompt, NEW e \in Executors, exec[e].pc \in AtACall
    PROVE  /\ T(e) \in Turns /\ Op(e) \in Ops /\ K(e) \in Keys
           /\ K(e) = Key(T(e), K(e)[2])
           /\ K(e)[1] \in Turns => K(e)[1] = T(e)
           /\ CallId(e) \in CallIds
<1>1. T(e) \in Turns /\ exec[e] \in Frames
  BY DEF Owners, AtACall, TypeOK
<1>2. journal[T(e)] \in Batches
  BY <1>1 DEF TypeOK
<1>3. Op(e) \in Ops
  BY <1>2 DEF OnePrompt, Calls, Op, Batches
<1>4. CallId(e) \in CallIds
  BY <1>1, <1>2 DEF CallId, CallIds, Frames, Batches, Turns
<1> QED
  BY <1>1, <1>3, <1>4 DEF K, Key, Keys, Turns

\* Where a reservation comes from.
LEMMA ClaimWrites ==
    ASSUME TypeOK, Owners, OnePrompt, NEW e \in Executors, ClaimEffect(e)
    PROVE  /\ K(e) \in Keys
           /\ ledger[K(e)].st = "none"
           /\ ledger'[K(e)].st = "pending" /\ ledger'[K(e)].turn = T(e)
           /\ ledger'[K(e)].owner = e
           /\ world'[K(e)] = "idle"
           /\ \A k \in Keys \ {K(e)} : ledger'[k] = ledger[k] /\ world'[k] = world[k]
<1>1. K(e) \in Keys
  BY KeyOfCall DEF ClaimEffect, Claiming, Fresh, At, AtACall
<1>2. ledger[K(e)].st \notin {"pending", "recorded"}
  BY <1>1 DEF ClaimEffect, Unresolved
<1>3. ledger[K(e)].st = "none"
  BY <1>1, <1>2 DEF TypeOK, Entries
<1> QED
  BY <1>1, <1>3 DEF ClaimEffect, TypeOK

\* An entry keeps its turn; a new one is the claiming executor's.
LEMMA EntrySteps ==
    ASSUME TypeOK, Owners, OnePrompt, Reserved, Next, NEW k \in Keys,
           ledger'[k].st # "none"
    PROVE  \/ /\ ledger[k].st # "none" /\ ledger'[k].turn = ledger[k].turn
              /\ ledger'[k].st = "pending" => ledger[k].st = "pending"
           \/ \E e \in Executors : ClaimEffect(e) /\ k = K(e) /\ ledger'[k].turn = T(e)
<1> DEFINE Old == /\ ledger[k].st # "none" /\ ledger'[k].turn = ledger[k].turn
                  /\ ledger'[k].st = "pending" => ledger[k].st = "pending"
<1>1. ASSUME NEW e \in Executors, ClaimEffect(e)
      PROVE  Old \/ (k = K(e) /\ ledger'[k].turn = T(e))
  BY <1>1, ClaimWrites
<1>2. ASSUME NEW e \in Executors, FinishEffect(e)
      PROVE  Old
  <2>1. CASE ledger' = ledger
    BY <2>1
  <2>2. CASE /\ ledger[K(e)].st = "pending"
             /\ ledger' = [ledger EXCEPT ![K(e)].st = "recorded"]
    <3>1. ledger[k] \in Entries
      BY DEF TypeOK
    <3> QED
      BY <2>2, <3>1 DEF TypeOK, Entries
  <2> QED
    BY <1>2, <2>1, <2>2 DEF FinishEffect
<1>3. ASSUME NEW j \in Keys, NEW v \in {"happened", "did_not_happen", "unknown"},
             Reconcile(j, v)
      PROVE  Old
  <2>1. ledger[k] \in Entries
    BY DEF TypeOK
  <2> QED
    BY <1>3, <2>1 DEF Reconcile, Verifiable, TypeOK, Entries, NoEntry
<1>4. ASSUME NEW t \in Turns, Prune(t)
      PROVE  Old
  BY <1>4 DEF Prune, NoEntry
<1>5. ASSUME ledger' = ledger
      PROVE  Old
  BY <1>5
<1> QED
  BY <1>1, <1>2, <1>3, <1>4, <1>5, LedgerSteps DEF Dispatch, Arrives, Vanishes

\* Intents keep their turn's row alive.
LEMMA IntentsStep ==
    ASSUME TypeOK, Rows, Owners, OnePrompt, Intents, Reserved, Kind, Next
    PROVE  Intents'
<1> SUFFICES ASSUME NEW k \in Keys, ledger'[k].st # "none"
             PROVE  /\ ledger'[k].turn \in Turns
                    /\ status'[ledger'[k].turn] \notin {"none", "pruned"}
                    /\ k = Key(ledger'[k].turn, k[2])
  BY DEF Intents
<1> DEFINE t == ledger'[k].turn
<1>1. /\ t \in Turns /\ status[t] \notin {"none", "pruned"}
      /\ k = Key(t, k[2])
  <2>1. ASSUME NEW e \in Executors, ClaimEffect(e), k = K(e), t = T(e)
        PROVE  /\ t \in Turns /\ status[t] \notin {"none", "pruned"}
               /\ k = Key(t, k[2])
    BY <2>1, KeyOfCall DEF ClaimEffect, Claiming, Fresh, At, AtACall, Active
  <2> QED
    BY <2>1, EntrySteps DEF Intents
<1>2. ~Prune(t)
  BY <1>1 DEF Prune, NoEntry, TypeOK
<1> QED
  BY <1>1, <1>2, StatusMoves DEF Unended, Active, Terminal

\* Points at which an executor holds a reservation.
Holding == {"dispatch", "await", "finish"}

\* How an executor comes to hold a reservation.
LEMMA HoldSteps ==
    ASSUME TypeOK, Next, NEW e \in Executors, exec'[e].pc \in Holding
    PROVE  exec'[e] = exec[e] \/ ClaimEffect(e) \/ Dispatch(e) \/ ToolReturns(e)
<1> DEFINE Ok(f) == exec'[f] = exec[f] \/ exec'[f].pc \notin Holding
<1>0. ASSUME NEW f \in Executors
      PROVE  exec[f] \in Frames
  BY DEF TypeOK
<1>1. ASSUME NEW f \in Executors, NEW pc, exec' = [exec EXCEPT ![f].pc = pc],
             pc \notin Holding
      PROVE  Ok(e)
  BY <1>0, <1>1 DEF TypeOK, Frames
<1>2. ASSUME NEW f \in Executors, Unwind(f)
      PROVE  Ok(e)
  BY <1>2 DEF Unwind, Idle, Holding, TypeOK
<1>3. ASSUME NEW f \in Executors, NEW th \in Threads, Invoke(f, th)
      PROVE  Ok(e)
  <2>1. [Idle EXCEPT !.pc = "begin", !.thread = th, !.seen = hist[th]].pc = "begin"
    BY DEF Idle
  <2> QED
    BY <1>3, <2>1 DEF Invoke, Holding, TypeOK
<1>4. ASSUME NEW f \in Executors, NEW t \in Turns, ResumeClaim(f, t)
      PROVE  Ok(e)
  <2>1. [Idle EXCEPT !.pc = "resumed", !.turn = t, !.thread = thread[t]].pc = "resumed"
    BY DEF Idle
  <2> QED
    BY <1>4, <2>1 DEF ResumeClaim, Holding, TypeOK
<1>5. ASSUME NEW f \in Executors, NEW t \in Turns, NEW a \in BOOLEAN, Decide(f, t, a)
      PROVE  Ok(e)
  BY <1>5 DEF Decide, Decidable, Holding, TypeOK
<1>6. ASSUME NEW f \in Executors, BeginTurn(f) \/ ModelCalls(f) \/ AppendDecision(f)
      PROVE  Ok(e)
  <2>1. exec[f] \in Frames
    BY <1>0
  <2> QED
    BY <1>6, <2>1 DEF BeginTurn, ModelCalls, AppendDecision, Holding, TypeOK, Frames
<1>7. ASSUME NEW f \in Executors, JournalBatch(f)
      PROVE  Ok(e)
  <2>1. exec[f] \in Frames
    BY <1>0
  <2> QED
    BY <1>7, <2>1 DEF JournalBatch, Holding, TypeOK, Frames
<1>8. ASSUME NEW f \in Executors, ResumeCheck(f)
      PROVE  Ok(e)
  <2>1. exec[f] \in Frames
    BY <1>0
  <2>2. ASSUME NEW j, exec' = [exec EXCEPT ![f].pc = "call", ![f].call = j,
                                           ![f].replay = TRUE,
                                           ![f].seen = hist[exec[f].thread]]
        PROVE  Ok(e)
    BY <2>1, <2>2 DEF Holding, TypeOK, Frames
  <2>3. ASSUME exec' = [exec EXCEPT ![f].pc = "model", ![f].seen = hist[exec[f].thread]]
        PROVE  Ok(e)
    BY <2>1, <2>3 DEF Holding, TypeOK, Frames
  <2>4. ASSUME Goto(f, "failing") PROVE Ok(e)
    BY <1>1, <2>4 DEF Goto, Holding
  <2> QED
    BY <1>8, <2>2, <2>3, <2>4 DEF ResumeCheck
<1>9. ASSUME NEW f \in Executors, Advance(f)
      PROVE  Ok(e)
  <2>1. ASSUME NEW j, exec' = [exec EXCEPT ![f].pc = "call", ![f].call = j]
        PROVE  Ok(e)
    <3>1. exec[f] \in Frames
      BY <1>0
    <3> QED
      BY <2>1, <3>1 DEF Holding, TypeOK, Frames
  <2>2. ASSUME NEW pc \in {"append", "journal"}, Goto(f, pc) PROVE Ok(e)
    BY <1>1, <2>2 DEF Goto, Holding
  <2> QED
    BY <1>9, <2>1, <2>2 DEF Advance
<1>10. ASSUME NEW f \in Executors,
              \/ RejectInput(f) \/ JournalDeferred(f) \/ FailTurn(f) \/ Crash(f)
              \/ \E failed \in BOOLEAN : Finalize(f, failed)
       PROVE  Ok(e)
  BY <1>2, <1>10 DEF RejectInput, JournalDeferred, FailTurn, Crash, Finalize
<1>11. ASSUME NEW f \in Executors,
              \/ ReuseCached(f) \/ ReplayRecorded(f) \/ ApprovalUnavailable(f)
              \/ SaveResult(f)
       PROVE  Ok(e)
  BY <1>9, <1>11 DEF ReuseCached, ReplayRecorded, ApprovalUnavailable, SaveResult
<1>12. ASSUME NEW f \in Executors,
              \/ ModelEnds(f) \/ AskApproval(f) \/ JournalDone(f) \/ ClaimReuse(f)
              \/ ClaimRefused(f) \/ FinishEffect(f) \/ Raise(f)
       PROVE  Ok(e)
  BY <1>1, <1>12 DEF ModelEnds, AskApproval, JournalDone, ClaimReuse, ClaimRefused,
                     FinishEffect, Raise, Goto, Holding
<1>13. ASSUME NEW f \in Executors, ClaimEffect(f) \/ Dispatch(f) \/ ToolReturns(f)
       PROVE  f = e \/ exec'[e] = exec[e]
  BY <1>13 DEF ClaimEffect, Dispatch, ToolReturns, Goto, TypeOK
<1>14. ASSUME \/ \E t \in Turns : \/ ExpireApproval(t) \/ ResumeGivesUp(t)
                                  \/ Report(t) \/ Prune(t)
              \/ \E k \in Keys :
                   \/ Arrives(k) \/ Vanishes(k)
                   \/ \E v \in {"happened", "did_not_happen", "unknown"} : Reconcile(k, v)
              \/ \E th \in Threads : ClearContext(th)
       PROVE  exec' = exec
  BY <1>14 DEF ExpireApproval, ResumeGivesUp, Report, Prune, Arrives, Vanishes,
               Reconcile, ClearContext
<1> QED
  BY <1>3, <1>4, <1>5, <1>6, <1>7, <1>8, <1>10, <1>11, <1>12, <1>13, <1>14
     DEF Next, Proceed

\* What an executor does in its own time keeps the key it works on.
LEMMA KeyStays ==
    ASSUME TypeOK, Rows, Owners, Owners', Next, NEW e \in Executors,
           exec[e].pc \in Holding \cup {"call", "cache"}, InATurn(e)',
           exec'[e].turn = exec[e].turn, exec'[e].call = exec[e].call
    PROVE  K(e)' = K(e)
<1>1. InATurn(e) /\ T(e) \in Turns /\ T(e)' = T(e) /\ status'[T(e)] \in Unended
  BY DEF Owners, InATurn, T, Holding
<1>2. ASSUME NEW f \in Executors, ModelCalls(f) PROVE T(f) # T(e)
  <2>1. f # e
    BY <1>2 DEF ModelCalls, At, Holding
  <2> QED
    BY <1>1, <1>2, <2>1, Apart DEF ModelCalls, InATurn, At
<1>3. journal'[T(e)].batch = journal[T(e)].batch
  BY <1>1, <1>2, BatchSteps
<1> QED
  BY <1>1, <1>3 DEF K, Op, Key, T

\* A reservation is its holder's until it is published.
LEMMA ReservedStep ==
    ASSUME TypeOK, TypeOK', Rows, Owners, Owners', OnePrompt, Intents, Reserved, Next
    PROVE  Reserved'
<1> USE DEF At, T
<1> DEFINE Held(f, k) ==
             /\ ledger[k].st = "pending" /\ ledger[k].owner = f
             /\ ledger[k].turn = exec[f].turn
             /\ exec[f].pc = "dispatch" => world[k] = "idle"
             /\ exec[f].pc = "finish" => world[k] = "applied"
           Holds(f, k) ==
             /\ ledger'[k].st = "pending" /\ ledger'[k].owner = f
             /\ ledger'[k].turn = exec'[f].turn
             /\ exec'[f].pc = "dispatch" => world'[k] = "idle"
             /\ exec'[f].pc = "finish" => world'[k] = "applied"
<1> SUFFICES ASSUME NEW e \in Executors, exec'[e].pc \in Holding
             PROVE  Holds(e, K(e)')
  BY DEF Reserved, Holding
<1>1. CASE ClaimEffect(e)
  <2>1. exec[e] \in Frames
    BY DEF TypeOK
  <2>2. exec'[e].pc = "dispatch" /\ exec'[e].turn = exec[e].turn
        /\ exec'[e].call = exec[e].call
    BY <1>1, <2>1 DEF ClaimEffect, Goto, TypeOK, Frames
  <2>3. K(e)' = K(e)
    BY <1>1, <2>2, KeyStays DEF ClaimEffect, Claiming, Fresh, InATurn
  <2> QED
    BY <1>1, <2>2, <2>3, ClaimWrites
<1>2. CASE Dispatch(e) \/ ToolReturns(e)
  <2>1. exec[e] \in Frames /\ exec[e].pc \in Holding
    BY <1>2 DEF Dispatch, ToolReturns, TypeOK, Holding
  <2>2. /\ exec'[e].turn = exec[e].turn /\ exec'[e].call = exec[e].call
        /\ exec'[e].pc \in {"await", "finish"} /\ ledger' = ledger
        /\ exec'[e].pc = "finish" => world'[K(e)] = "applied"
    BY <1>2, <2>1 DEF Dispatch, ToolReturns, Goto, outer, TypeOK, Frames
  <2>3. K(e)' = K(e)
    BY <2>1, <2>2, KeyStays DEF InATurn
  <2>4. Held(e, K(e))
    BY <2>1 DEF Reserved, Holding
  <2> QED
    BY <2>2, <2>3, <2>4
<1>3. CASE exec'[e] = exec[e]
  <2>1. exec[e].pc \in Holding /\ InATurn(e) /\ InATurn(e)'
    BY <1>3 DEF Holding, InATurn
  <2>2. K(e)' = K(e) /\ K(e) \in Keys
    BY <1>3, <2>1, KeyStays, KeyOfCall DEF Holding, AtACall
  <2>3. Held(e, K(e))
    BY <2>1 DEF Reserved, Holding
  <2>4. T(e) \in Turns /\ lock[thread[T(e)]] = e /\ status[T(e)] \in Unended
    BY <2>1 DEF Owners, InATurn
  <2> DEFINE k == K(e)
             Kept == /\ ledger'[k] = ledger[k]
                     /\ world'[k] = world[k] \/ world[k] = "inflight"
  <2>5. ASSUME NEW f \in Executors, ClaimEffect(f) PROVE Kept
    BY <2>2, <2>3, <2>5, ClaimWrites
  <2>6. ASSUME NEW f \in Executors, Dispatch(f) \/ FinishEffect(f) PROVE Kept
    <3>1. exec[f] \in Frames /\ exec[f].pc \in Holding
      BY <2>6 DEF Dispatch, FinishEffect, TypeOK, Holding
    <3>2. f # e
      BY <1>3, <2>6, <3>1 DEF Dispatch, FinishEffect, Goto, TypeOK, Frames
    <3>3. K(f) # k
      BY <2>3, <3>1, <3>2 DEF Reserved, Holding
    <3> QED
      BY <2>2, <2>6, <3>3 DEF Dispatch, FinishEffect, outer, TypeOK
  <2>7. ASSUME NEW j \in Keys, NEW v \in {"happened", "did_not_happen", "unknown"},
               Reconcile(j, v)
        PROVE  Kept
    <3>1. j # k
      BY <2>3, <2>4, <2>7 DEF Reconcile, Verifiable, Free
    <3> QED
      BY <2>2, <2>7, <3>1 DEF Reconcile, Verifiable, outer, TypeOK
  <2>8. ASSUME NEW t \in Turns, Prune(t) PROVE Kept
    <3>1. t # T(e)
      BY <2>4, <2>8 DEF Prune, Terminal, Unended, Active
    <3> QED
      BY <2>2, <2>3, <2>8, <3>1 DEF Prune, outer, TypeOK
  <2>9. ASSUME NEW j \in Keys, Arrives(j) \/ Vanishes(j) PROVE Kept
    BY <2>2, <2>9 DEF Arrives, Vanishes, TypeOK
  <2>10. Kept
    BY <2>5, <2>6, <2>7, <2>8, <2>9, LedgerSteps DEF outer
  <2> HIDE DEF k
  <2> QED
    BY <1>3, <2>2, <2>3, <2>10 DEF k
<1> QED
  BY <1>1, <1>2, <1>3, HoldSteps

\* A turn is not finished over an open question, and none is added later.
LEMMA DoneIsSettledStep ==
    ASSUME TypeOK, Rows, Owners, OnePrompt, Reserved, DoneIsSettled, Kind, Next
    PROVE  DoneIsSettled'
<1> SUFFICES ASSUME NEW t \in Turns, status'[t] \in {"done", "pruned"},
                    NEW k \in Keys, ledger'[k].st = "pending", ledger'[k].turn = t
             PROVE  FALSE
  BY DEF DoneIsSettled, PendingIn
<1>1. CASE \E e \in Executors : ClaimEffect(e) /\ k = K(e) /\ ledger'[k].turn = T(e)
  BY <1>1 DEF ClaimEffect, rows, Active
<1>2. CASE ledger[k].st = "pending" /\ ledger[k].turn = t
  <2>1. PendingIn(t)
    BY <1>2 DEF PendingIn
  <2>2. ~Prune(t)
    BY <2>1 DEF Prune
  <2> QED
    BY <2>1, <2>2, StatusMoves DEF DoneIsSettled, Unended, Active, Terminal
<1> QED
  BY <1>1, <1>2, EntrySteps

\* What the ledger answers for is what was carried out.
LEMMA AccountsStep ==
    ASSUME TypeOK, TypeOK', Rows, Owners, OnePrompt, Intents, Reserved, Accounts,
           Kind, Next
    PROVE  Accounts'
<1> DEFINE Ok(k) ==
             /\ ledger[k].st = "none" =>
                   /\ world[k] # "inflight"
                   /\ \/ times[k] = 0
                      \/ times[k] = 1 /\ k[1] \in Turns /\ status[k[1]] = "pruned"
             /\ ledger[k].st = "pending" =>
                   times[k] = IF world[k] = "applied" THEN 1 ELSE 0
             /\ ledger[k].st = "recorded" => times[k] = 1 /\ world[k] = "applied"
<1> USE DEF outer, trust
<1> SUFFICES ASSUME NEW k \in Keys, k \notin waived', k \notin forgotten'
             PROVE  Ok(k)'
  BY DEF Accounts
<1>1. /\ k \notin waived /\ k \notin forgotten
      /\ ledger[k] \in Entries /\ times[k] \in Nat
  <2>1. waived \subseteq waived' /\ forgotten \subseteq forgotten'
    BY LedgerSteps DEF ClaimEffect, Dispatch, FinishEffect, Reconcile, Prune,
                       Arrives, Vanishes
  <2> QED
    BY <2>1 DEF TypeOK
<1>2. Ok(k)
  BY <1>1 DEF Accounts
<1>3. k[1] \in Turns /\ status[k[1]] = "pruned" => status'[k[1]] = "pruned"
  BY StatusMoves DEF Unended, Active, Terminal
<1>4. ASSUME ledger'[k] = ledger[k], UNCHANGED outer
      PROVE  Ok(k)'
  BY <1>2, <1>3, <1>4
<1>5. ASSUME NEW e \in Executors, ClaimEffect(e)
      PROVE  Ok(k)'
  <2>1. CASE k = K(e)
    <3>1. k[1] \in Turns => k[1] = T(e)
      BY <1>5, <2>1, KeyOfCall DEF ClaimEffect, Claiming, Fresh, At, AtACall
    <3>2. status[T(e)] # "pruned" /\ ledger[k].st = "none"
      BY <1>5, <2>1, ClaimWrites DEF ClaimEffect, Active
    <3>3. times[k] = 0
      BY <1>2, <3>1, <3>2
    <3> QED
      BY <1>5, <2>1, <3>3, ClaimWrites DEF ClaimEffect
  <2>2. CASE k # K(e)
    <3>1. ledger'[k] = ledger[k] /\ world'[k] = world[k] /\ times' = times
      BY <1>5, <2>2, ClaimWrites DEF ClaimEffect
    <3> QED
      BY <1>2, <1>3, <3>1
  <2> QED
    BY <2>1, <2>2
<1>6. ASSUME NEW e \in Executors, Dispatch(e) \/ FinishEffect(e)
      PROVE  Ok(k)'
  <2>1. /\ K(e) \in Keys /\ ledger[K(e)].st = "pending"
        /\ At(e, "dispatch") => world[K(e)] = "idle"
        /\ At(e, "finish") => world[K(e)] = "applied"
    BY <1>6, KeyOfCall DEF Dispatch, FinishEffect, At, AtACall, Reserved
  <2>2. CASE k = K(e) /\ Dispatch(e)
    BY <1>2, <2>1, <2>2 DEF Dispatch, TypeOK
  <2>3. CASE k = K(e) /\ FinishEffect(e)
    <3>1. times[k] = 1 /\ world[k] = "applied"
      BY <1>2, <2>1, <2>3 DEF FinishEffect
    <3>2. ledger' = ledger \/ ledger' = [ledger EXCEPT ![k].st = "recorded"]
      BY <2>3 DEF FinishEffect
    <3>3. ledger'[k].st \in {"pending", "recorded"}
      BY <1>1, <2>1, <2>3, <3>2 DEF TypeOK, Entries
    <3> QED
      BY <2>3, <3>1, <3>3 DEF FinishEffect
  <2>4. CASE k # K(e)
    <3>1. ledger'[k] = ledger[k] /\ world'[k] = world[k] /\ times' = times
      BY <1>6, <2>4 DEF Dispatch, FinishEffect, TypeOK
    <3> QED
      BY <1>2, <1>3, <3>1
  <2> QED
    BY <1>6, <2>2, <2>3, <2>4
<1>7. ASSUME NEW j \in Keys, NEW v \in {"happened", "did_not_happen", "unknown"},
             Reconcile(j, v)
      PROVE  Ok(k)'
  <2>1. CASE k # j
    BY <1>4, <1>7, <2>1 DEF Reconcile, Verifiable, TypeOK
  <2>2. CASE k = j /\ v = "happened"
    <3>1. ledger[k].st = "pending" /\ world[k] = "applied" /\ UNCHANGED outer
      BY <1>7, <2>2 DEF Reconcile, Verifiable, Truthful
    <3>2. ledger'[k].st = "recorded"
      BY <1>1, <1>7, <2>2 DEF Reconcile, Verifiable, TypeOK, Entries
    <3> QED
      BY <1>2, <3>1, <3>2
  <2>3. CASE k = j /\ v = "did_not_happen"
    <3>1. ledger[k].st = "pending" /\ world[k] \in {"idle", "lost"} /\ UNCHANGED outer
      BY <1>7, <2>3 DEF Reconcile, Verifiable, Truthful
    <3>2. ledger'[k].st = "none"
      BY <1>7, <2>3 DEF Reconcile, Verifiable, TypeOK, NoEntry
    <3> QED
      BY <1>2, <3>1, <3>2
  <2>4. CASE k = j /\ v = "unknown"
    BY <1>7, <2>4 DEF Reconcile
  <2> QED
    BY <2>1, <2>2, <2>3, <2>4
<1>8. ASSUME NEW t \in Turns, Prune(t)
      PROVE  Ok(k)'
  <2>1. CASE ledger[k].st = "none" \/ ledger[k].turn # t
    <3>1. ledger'[k] = ledger[k] /\ UNCHANGED outer
      BY <1>8, <2>1 DEF Prune
    <3> QED
      BY <1>4, <3>1
  <2>2. CASE ledger[k].st # "none" /\ ledger[k].turn = t
    <3>1. ledger[k].st = "recorded" /\ ~Natural(k)
      BY <1>1, <1>8, <2>2 DEF Prune, PendingIn, Entries
    <3>2. k[1] = t
      BY <2>2, <3>1 DEF Intents, Key, Natural
    <3>3. ledger'[k].st = "none" /\ status'[t] = "pruned" /\ UNCHANGED outer
      BY <1>8, <2>2 DEF Prune, NoEntry, TypeOK
    <3> QED
      BY <1>2, <3>1, <3>2, <3>3
  <2> QED
    BY <2>1, <2>2
<1>9. ASSUME NEW j \in Keys, Arrives(j) \/ Vanishes(j)
      PROVE  Ok(k)'
  <2>1. CASE k = j
    <3>1. world[k] = "inflight" /\ ledger' = ledger
      BY <1>9, <2>1 DEF Arrives, Vanishes
    <3>2. ledger[k].st = "pending" /\ times[k] = 0
      BY <1>1, <1>2, <3>1 DEF Entries
    <3>3. \/ world'[k] = "applied" /\ times'[k] = 1
          \/ world'[k] = "lost" /\ times'[k] = 0
      BY <1>9, <2>1, <3>2 DEF Arrives, Vanishes, TypeOK
    <3> QED
      BY <3>1, <3>2, <3>3
  <2>2. CASE k # j
    BY <1>2, <1>3, <1>9, <2>2 DEF Arrives, Vanishes, TypeOK
  <2> QED
    BY <2>1, <2>2
<1> QED
  BY <1>4, <1>5, <1>6, <1>7, <1>8, <1>9, LedgerSteps

-----------------------------------------------------------------------------
(* The inductive invariant.                                                 *)

LEMMA InitInductive == Init => Inductive
<1> SUFFICES ASSUME Init PROVE Inductive
  OBVIOUS
<1>1. TypeOK
  BY InitType
<1>2. Rows
  BY DEF Init, Rows, Calls, NoBatch, NoAsk, Turns, Unended, Active
<1>3. Owners /\ OnePrompt /\ Reserved
  BY DEF Init, Owners, OnePrompt, Reserved, At, Idle, AtACall, Paused
<1>4. Intents /\ DoneIsSettled /\ Accounts
  BY DEF Init, Intents, DoneIsSettled, PendingIn, Accounts, NoEntry
<1> QED
  BY <1>1, <1>2, <1>3, <1>4 DEF Inductive

LEMMA NextInductive ==
    ASSUME Inductive, [Next]_vars
    PROVE  Inductive'
<1>1. CASE Next
  <2>0. TypeOK /\ Rows /\ Owners /\ OnePrompt /\ Intents /\ Reserved
        /\ DoneIsSettled /\ Accounts
    BY DEF Inductive
  <2>1. TypeOK' /\ Kind
    BY <1>1, <2>0, TypeStep, Kinds
  <2>2. Owners'
    BY <2>0, <2>1, OwnersStep
  <2>3. Rows'
    BY <1>1, <2>0, <2>1, RowsStep
  <2>4. OnePrompt'
    BY <1>1, <2>0, <2>1, <2>2, <2>3, OnePromptStep
  <2>5. Intents'
    BY <1>1, <2>0, <2>1, IntentsStep
  <2>6. Reserved'
    BY <1>1, <2>0, <2>1, <2>2, ReservedStep
  <2>7. DoneIsSettled'
    BY <1>1, <2>0, <2>1, DoneIsSettledStep
  <2>8. Accounts'
    BY <1>1, <2>0, <2>1, AccountsStep
  <2> QED
    BY <2>1, <2>2, <2>3, <2>4, <2>5, <2>6, <2>7, <2>8 DEF Inductive
<1>2. CASE UNCHANGED vars
  <2> USE <1>2 DEF vars, rows, outer, trust, Inductive
  <2>1. TypeOK'
    BY DEF TypeOK
  <2>2. Rows' /\ Owners' /\ OnePrompt'
    BY DEF Rows, Owners, OnePrompt, Calls, At, T
  <2>3. Intents' /\ DoneIsSettled' /\ Accounts'
    BY DEF Intents, DoneIsSettled, PendingIn, Accounts
  <2>4. Reserved'
    BY DEF Reserved, K, Op, T, At
  <2> QED
    BY <2>1, <2>2, <2>3, <2>4
<1> QED
  BY <1>1, <1>2

\* Every reachable state satisfies the inductive invariant.
THEOREM SpecInductive == Spec => []Inductive
<1>1. Init => Inductive
  BY InitInductive
<1>2. Inductive /\ [Next]_vars => Inductive'
  BY NextInductive
<1> QED
  BY <1>1, <1>2, PTL DEF Spec

\* Every value stays in its type: whatever the callers do, the rows hold only
\* the states kronos/session.py writes.
THEOREM SpecTypeOK == Spec => []TypeOK
BY SpecInductive, PTL DEF Inductive

\* Two executors never share a conversation, and the turn of a live executor is
\* not ended under it (kronos/turn_ownership.py).
THEOREM SpecLiveTurnIsOwned == Spec => []LiveTurnIsOwned
<1>1. Inductive => LiveTurnIsOwned
  <2> SUFFICES ASSUME Inductive, NEW e \in Executors, InATurn(e)
               PROVE  /\ status[T(e)] \in Unended
                      /\ \A f \in Executors \ {e} : exec[f].thread # exec[e].thread
    BY DEF LiveTurnIsOwned, InATurn
  <2>1. status[T(e)] \in Unended /\ exec[e].thread \in Threads
    BY DEF Inductive, Owners, InATurn, At
  <2>2. ASSUME NEW f \in Executors \ {e} PROVE exec[f].thread # exec[e].thread
    <3>1. CASE At(f, "idle")
      BY <2>1, <3>1 DEF Inductive, Owners, Idle
    <3>2. CASE ~At(f, "idle")
      BY <3>2, Apart DEF Inductive, InATurn, At
    <3> QED
      BY <3>1, <3>2
  <2> QED
    BY <2>1, <2>2
<1> QED
  BY <1>1, SpecInductive, PTL

\* An operation is carried out at most once per key, across every crash,
\* resume, approval and verdict (begin_external_effect, reconcile_effect).
THEOREM SpecEffectAtMostOnce == Spec => []EffectAtMostOnce
<1>1. Inductive => EffectAtMostOnce
  BY DEF Inductive, Accounts, EffectAtMostOnce, TypeOK, Entries
<1> QED
  BY <1>1, SpecInductive, PTL

\* What was carried out is recorded, visible as unresolved, or was pruned with
\* its turn after it had been recorded (prune_turn_history).
THEOREM SpecEffectIsAccounted == Spec => []EffectIsAccounted
<1>1. Inductive => EffectIsAccounted
  BY DEF Inductive, Accounts, EffectIsAccounted
<1> QED
  BY <1>1, SpecInductive, PTL

\* No turn is reported done, or pruned, over an unresolved effect
\* (assert_turn_effects_settled inside finalize_turn).
THEOREM SpecDoneIsSettled == Spec => []DoneIsSettled
BY SpecInductive, PTL DEF Inductive

\* A turn that ended is never reopened or ended differently.
THEOREM SpecEndedIsFinal == Spec => EndedIsFinal
<1> DEFINE Final == \A t \in Turns : status[t] \in Terminal =>
                       status'[t] \in {status[t], "pruned"}
<1>1. Inductive /\ [Next]_vars => [Final]_vars
  <2>1. ASSUME Inductive, Next PROVE Final
    <3>1. Kind
      BY <2>1, Kinds DEF Inductive
    <3> QED
      BY <2>1, <3>1, StatusMoves DEF Inductive, Unended, Active, Terminal
  <2> QED
    BY <2>1
<1> QED
  BY <1>1, SpecInductive, PTL DEF Spec, EndedIsFinal

-----------------------------------------------------------------------------
(* The runtime implements the contract of its effect ledger: what            *)
(* begin_external_effect, finish_external_effect, reconcile_effect and       *)
(* prune_turn_history do to a key, together with what happens to it in the   *)
(* outside world, is a step of EffectContract or leaves it alone.            *)

\* The phases of all keys.
Phasing == [k \in Keys |-> Phase(k)]

\* A key's phase stays when what it is read from does.
LEMMA PhaseSame ==
    ASSUME NEW k \in Keys, ledger'[k].st = ledger[k].st, times'[k] = times[k],
           (world'[k] = "applied") = (world[k] = "applied"),
           (k \in waived' \cup forgotten') = (k \in waived \cup forgotten)
    PROVE  Phase(k)' = Phase(k)
BY DEF Phase

\* Initially every key is open.
LEMMA InitContract == Init => Contract!Init
BY DEF Init, Contract!Init, Phase, NoEntry

\* A phase that moves, alone among all, is a move of the contract.
LEMMA OneMove ==
    ASSUME NEW k \in Keys, NEW from, NEW to, Phase(k) \in from, Phase(k)' = to,
           \A j \in Keys \ {k} : Phase(j)' = Phase(j)
    PROVE  Contract!Move(k, from, to)
BY DEF Contract!Move

LEMMA NoMove ==
    ASSUME \A j \in Keys : Phase(j)' = Phase(j)
    PROVE  Phasing' = Phasing
BY DEF Phasing

\* A reservation opens a key that was never applied.
LEMMA ClaimReserves ==
    ASSUME Inductive, Next, NEW e \in Executors, ClaimEffect(e)
    PROVE  Phasing' = Phasing \/ \E k \in Keys : Contract!Reserve(k)
<1> USE DEF Inductive, outer, trust
<1> DEFINE k == K(e)
<1>1. k \in Keys /\ ledger[k].st = "none" /\ ledger'[k].st = "pending"
  BY ClaimWrites
<1>2. times' = times /\ UNCHANGED trust /\ world'[k] = "idle"
  BY ClaimWrites DEF ClaimEffect
<1>3. \A j \in Keys \ {k} : Phase(j)' = Phase(j)
  BY <1>2, ClaimWrites, PhaseSame
<1>4. k[1] \in Turns => status[k[1]] # "pruned"
  BY KeyOfCall DEF ClaimEffect, Claiming, Fresh, At, AtACall, Active
<1>5. PICK j \in Keys : j = k
  BY <1>1
<1> HIDE DEF k
<1>6. CASE j \in waived \cup forgotten
  <2>1. Phase(j)' = Phase(j)
    BY <1>2, <1>6 DEF Phase
  <2> QED
    BY <1>3, <1>5, <2>1, NoMove
<1>7. CASE j \notin waived \cup forgotten
  <2>1. times[j] = 0
    BY <1>1, <1>4, <1>5, <1>7 DEF Accounts
  <2>2. Phase(j) = "open" /\ Phase(j)' = "reserved"
    BY <1>1, <1>2, <1>5, <1>7, <2>1 DEF Phase
  <2> QED
    BY <1>3, <1>5, <2>2, OneMove DEF Contract!Reserve
<1> QED
  BY <1>6, <1>7

\* A dispatched request leaves its reservation open.
LEMMA DispatchStutters ==
    ASSUME Inductive, NEW e \in Executors, Dispatch(e)
    PROVE  Phasing' = Phasing
<1> USE DEF Inductive, trust
<1>1. K(e) \in Keys /\ world[K(e)] = "idle"
  BY KeyOfCall DEF Dispatch, At, AtACall, Reserved
<1>2. \A j \in Keys : (world'[j] = "applied") = (world[j] = "applied")
  BY <1>1 DEF Dispatch, TypeOK
<1>3. \A j \in Keys : Phase(j)' = Phase(j)
  BY <1>2, PhaseSame DEF Dispatch
<1> QED
  BY <1>3, NoMove

\* A result is published only for what was applied.
LEMMA FinishRecords ==
    ASSUME Inductive, NEW e \in Executors, FinishEffect(e)
    PROVE  Phasing' = Phasing \/ \E k \in Keys : Contract!Record(k)
<1> USE DEF Inductive, outer, trust
<1> DEFINE k == K(e)
<1>1. k \in Keys /\ ledger[k].st = "pending" /\ world[k] = "applied"
  BY KeyOfCall DEF FinishEffect, At, AtACall, Reserved
<1>2. PICK j \in Keys : j = k
  BY <1>1
<1>3. UNCHANGED <<outer, trust>>
      /\ (ledger' = ledger \/ ledger' = [ledger EXCEPT ![j].st = "recorded"])
  BY <1>2 DEF FinishEffect
<1> HIDE DEF k
<1>4. CASE ledger' = ledger
  BY <1>3, <1>4, PhaseSame, NoMove
<1>5. CASE ledger' = [ledger EXCEPT ![j].st = "recorded"]
  <2>1. ledger[j] \in Entries
    BY DEF TypeOK
  <2>2. ledger'[j].st = "recorded" /\ \A i \in Keys \ {j} : ledger'[i] = ledger[i]
    BY <1>5, <2>1 DEF TypeOK, Entries
  <2>3. \A i \in Keys \ {j} : Phase(i)' = Phase(i)
    BY <1>3, <2>2, PhaseSame
  <2>4. CASE j \in waived \cup forgotten
    <3>1. Phase(j)' = Phase(j)
      BY <1>3, <2>4 DEF Phase
    <3> QED
      BY <2>3, <3>1, NoMove
  <2>5. CASE j \notin waived \cup forgotten
    <3>1. Phase(j) = "applied" /\ Phase(j)' = "recorded"
      BY <1>1, <1>2, <1>3, <2>2, <2>5 DEF Phase
    <3> QED
      BY <2>3, <3>1, OneMove DEF Contract!Record
  <2> QED
    BY <2>4, <2>5
<1> QED
  BY <1>3, <1>4, <1>5

\* An operator's verdict records, reopens or waives its key.
LEMMA VerdictMoves ==
    ASSUME Inductive, NEW k \in Keys,
           NEW v \in {"happened", "did_not_happen", "unknown"}, Reconcile(k, v)
    PROVE  \/ Phasing' = Phasing
           \/ Contract!Record(k) \/ Contract!Reopen(k) \/ Contract!Waive({k})
<1> USE DEF Inductive, outer, trust
<1>1. /\ ledger[k].st = "pending" /\ ledger[k] \in Entries
      /\ UNCHANGED <<outer, forgotten>>
      /\ \A j \in Keys \ {k} : ledger'[j] = ledger[j]
      /\ \A j \in Keys \ {k} : j \in waived' <=> j \in waived
  BY DEF Reconcile, Verifiable, TypeOK
<1>2. \A j \in Keys \ {k} : Phase(j)' = Phase(j)
  BY <1>1 DEF Phase
<1>3. CASE k \in waived \cup forgotten
  <2>1. Phase(k)' = Phase(k)
    BY <1>3 DEF Reconcile, Verifiable, Phase
  <2> QED
    BY <1>2, <2>1, NoMove
<1>4. CASE k \notin waived \cup forgotten /\ v = "happened"
  <2>1. world[k] = "applied" /\ ledger'[k].st = "recorded" /\ waived' = waived
    BY <1>1, <1>4 DEF Reconcile, Verifiable, Truthful, TypeOK, Entries
  <2>2. Phase(k) = "applied" /\ Phase(k)' = "recorded"
    BY <1>1, <1>4, <2>1 DEF Phase
  <2> QED
    BY <1>2, <2>2, OneMove DEF Contract!Record
<1>5. CASE k \notin waived \cup forgotten /\ v = "did_not_happen"
  <2>1. world[k] # "applied" /\ ledger'[k].st = "none" /\ waived' = waived
    BY <1>1, <1>5 DEF Reconcile, Verifiable, Truthful, TypeOK, NoEntry
  <2>2. times[k] = 0
    BY <1>1, <1>5, <2>1 DEF Accounts
  <2>3. Phase(k) = "reserved" /\ Phase(k)' = "open"
    BY <1>1, <1>5, <2>1, <2>2 DEF Phase
  <2> QED
    BY <1>2, <2>3, OneMove DEF Contract!Reopen
<1>6. CASE k \notin waived \cup forgotten /\ v = "unknown"
  <2>1. Phase(k) \in {"reserved", "applied"} /\ Phase(k)' = "waived"
    BY <1>1, <1>6 DEF Reconcile, Verifiable, Phase
  <2> QED
    BY <1>2, <2>1 DEF Contract!Waive
<1> QED
  BY <1>3, <1>4, <1>5, <1>6

\* Retention waives business keys and forgets what is settled of the others.
LEMMA PruneWaives ==
    ASSUME Inductive, NEW t \in Turns, Prune(t)
    PROVE  \E S \in SUBSET Keys : Contract!Waive(S)
<1> USE DEF Inductive, outer, trust
<1> DEFINE owned == {k \in Keys : ledger[k].st # "none" /\ ledger[k].turn = t}
           S == {k \in owned : Natural(k) /\ k \notin waived \cup forgotten}
<1>1. /\ UNCHANGED <<outer, waived>>
      /\ ledger' = [k \in Keys |-> IF k \in owned THEN NoEntry ELSE ledger[k]]
      /\ forgotten' = forgotten \cup {k \in owned : Natural(k)}
  BY DEF Prune
<1>2. \A k \in S : Phase(k) = "recorded" /\ Phase(k)' = "waived"
  <2> SUFFICES ASSUME NEW k \in S
               PROVE  Phase(k) = "recorded" /\ Phase(k)' = "waived"
    OBVIOUS
  <2>1. ledger[k].st = "recorded"
    BY DEF Prune, PendingIn, TypeOK, Entries
  <2> QED
    BY <1>1, <2>1 DEF Phase
<1>3. ASSUME NEW k \in Keys \ S PROVE Phase(k)' = Phase(k)
  <2>1. CASE k \in waived \cup forgotten
    BY <1>1, <2>1 DEF Phase
  <2>2. CASE k \notin waived \cup forgotten /\ k \notin owned
    BY <1>1, <2>2 DEF Phase
  <2>3. CASE k \notin waived \cup forgotten /\ k \in owned
    <3>1. ~Natural(k) /\ ledger[k].st = "recorded" /\ ledger'[k].st = "none"
      BY <1>1, <1>3, <2>3 DEF Prune, PendingIn, TypeOK, Entries, NoEntry
    <3>2. times[k] = 1
      BY <2>3, <3>1 DEF Accounts
    <3> QED
      BY <1>1, <2>3, <3>1, <3>2 DEF Phase
  <2> QED
    BY <2>1, <2>2, <2>3
<1>4. S \in SUBSET Keys
  OBVIOUS
<1> HIDE DEF S
<1>5. Contract!Waive(S)
  BY <1>2, <1>3, <1>4 DEF Contract!Waive
<1> QED
  BY <1>4, <1>5

\* The outside world applies what is reserved, once.
LEMMA WorldApplies ==
    ASSUME Inductive, NEW k \in Keys, Arrives(k) \/ Vanishes(k)
    PROVE  Phasing' = Phasing \/ Contract!Apply(k)
<1> USE DEF Inductive, outer, trust
<1>1. world[k] = "inflight" /\ UNCHANGED <<ledger, trust>>
  BY DEF Arrives, Vanishes
<1>2. \A j \in Keys \ {k} : Phase(j)' = Phase(j)
  BY <1>1 DEF Arrives, Vanishes, TypeOK, Phase
<1>3. CASE k \in waived \cup forgotten
  <2>1. Phase(k)' = Phase(k)
    BY <1>1, <1>3 DEF Phase
  <2> QED
    BY <1>2, <2>1, NoMove
<1>4. CASE k \notin waived \cup forgotten
  <2>1. ledger[k].st = "pending"
    BY <1>1, <1>4 DEF Accounts, TypeOK, Entries
  <2>2. Phase(k) = "reserved" /\ world'[k] \in {"applied", "lost"}
    BY <1>1, <1>4, <2>1 DEF Phase, Arrives, Vanishes, TypeOK
  <2>3. CASE world'[k] = "applied"
    <3>1. Phase(k)' = "applied"
      BY <1>1, <1>4, <2>1, <2>3 DEF Phase
    <3> QED
      BY <1>2, <2>2, <3>1, OneMove DEF Contract!Apply
  <2>4. CASE world'[k] = "lost"
    <3>1. Phase(k)' = Phase(k)
      BY <1>1, <1>4, <2>1, <2>2, <2>4 DEF Phase
    <3> QED
      BY <1>2, <3>1, NoMove
  <2> QED
    BY <2>2, <2>3, <2>4
<1> QED
  BY <1>3, <1>4

\* The runtime implements the contract: no interleaving, crash, resume, timeout
\* or verdict takes a key through anything but the contract's steps.
THEOREM SpecKeepsContract == Spec => KeepsContract
<1>1. Init => Contract!Init
  BY InitContract
<1>2. ASSUME Inductive, [Next]_vars
      PROVE  Contract!Next \/ Phasing' = Phasing
  <2>1. CASE UNCHANGED vars
    BY <2>1, NoMove DEF vars, outer, trust, Phase
  <2>2. CASE UNCHANGED <<ledger, outer, trust>>
    BY <2>2, NoMove DEF outer, trust, Phase
  <2>3. ASSUME NEW e \in Executors, Next,
               ClaimEffect(e) \/ Dispatch(e) \/ FinishEffect(e)
        PROVE  Contract!Next \/ Phasing' = Phasing
    BY <1>2, <2>3, ClaimReserves, DispatchStutters, FinishRecords DEF Contract!Next
  <2>4. ASSUME NEW k \in Keys, NEW v \in {"happened", "did_not_happen", "unknown"},
               Reconcile(k, v)
        PROVE  Contract!Next \/ Phasing' = Phasing
    BY <1>2, <2>4, VerdictMoves DEF Contract!Next
  <2>5. ASSUME NEW t \in Turns, Prune(t)
        PROVE  Contract!Next \/ Phasing' = Phasing
    BY <1>2, <2>5, PruneWaives DEF Contract!Next
  <2>6. ASSUME NEW k \in Keys, Arrives(k) \/ Vanishes(k)
        PROVE  Contract!Next \/ Phasing' = Phasing
    BY <1>2, <2>6, WorldApplies DEF Contract!Next
  <2> QED
    BY <1>2, <2>1, <2>2, <2>3, <2>4, <2>5, <2>6, LedgerSteps
<1>3. Inductive /\ [Next]_vars => [Contract!Next]_Phasing
  BY <1>2
<1> QED
  BY <1>1, <1>3, SpecInductive, PTL DEF Spec, KeepsContract, Contract!Spec, Phasing
-----------------------------------------------------------------------------
(* What executors remember: how a frame changes, and what that leaves of the *)
(* history it was opened with and of the approval it was started for.        *)

\* A live executor goes on with what it was started with.
Moves(e) ==
    /\ exec[e].pc \notin {"idle", "failing"} /\ exec'[e].pc \notin {"idle", "begin"}
    /\ exec'[e].thread = exec[e].thread /\ exec'[e].exempt = exec[e].exempt
    /\ At(e, "begin") \/ exec'[e].turn = exec[e].turn
    /\ \/ exec'[e].pc = "failing"
       \/ At(e, "resumed") /\ exec'[e].seen = hist[exec[e].thread]
       \/ ~At(e, "resumed") /\ exec'[e].seen = exec[e].seen
    /\ exec[e].path = "loop" => exec'[e].path = "loop"
    /\ exec[e].path = "gate" /\ exec[e].pc \in AtTheGate =>
          exec'[e].path = "loop" \/ exec'[e].pc \in AtTheGate \ {"call"}
    /\ exec'[e].pc \notin Paused => exec[e].pc \notin Paused \ {"begin"}
    /\ exec'[e].pc = "cache" => /\ ClaimReuse(e) \/ FinishEffect(e)
                                /\ exec'[e].call = exec[e].call

\* The ways in which a frame is written.
LEMMA FrameSteps ==
    ASSUME TypeOK, Next, NEW e \in Executors
    PROVE  \/ exec'[e] = exec[e] \/ exec'[e] = Idle
           \/ Moves(e)
           \/ \E th \in Threads : Invoke(e, th)
           \/ \E t \in Turns : ResumeClaim(e, t) \/ \E a \in BOOLEAN : Decide(e, t, a)
<1>0. exec[e] \in Frames
  BY DEF TypeOK
<1>2. ASSUME NEW f \in Executors, f # e,
             \/ Proceed(f) \/ Crash(f)
             \/ \E th \in Threads : Invoke(f, th)
             \/ \E t \in Turns : \/ ResumeClaim(f, t)
                                 \/ \E a \in BOOLEAN : Decide(f, t, a)
      PROVE  exec'[e] = exec[e]
  <2>1. CASE \/ RejectInput(f) \/ BeginTurn(f) \/ ModelCalls(f) \/ ModelEnds(f)
             \/ AskApproval(f) \/ JournalDone(f) \/ JournalDeferred(f)
             \/ ClaimReuse(f) \/ ClaimRefused(f) \/ ClaimEffect(f)
             \/ Dispatch(f) \/ ToolReturns(f) \/ FinishEffect(f)
    BY <1>2, <2>1 DEF RejectInput, BeginTurn, ModelCalls, ModelEnds, AskApproval,
         JournalDone, JournalDeferred, ClaimReuse, ClaimRefused, ClaimEffect, Dispatch,
         ToolReturns, FinishEffect, Goto, Unwind, TypeOK
  <2>2. CASE \/ ReuseCached(f) \/ ReplayRecorded(f) \/ ApprovalUnavailable(f)
             \/ SaveResult(f)
    BY <1>2, <2>2 DEF ReuseCached, ReplayRecorded, ApprovalUnavailable, SaveResult,
         Advance, Goto, TypeOK
  <2>3. CASE \/ JournalBatch(f) \/ AppendDecision(f) \/ ResumeCheck(f) \/ Raise(f)
             \/ FailTurn(f) \/ Crash(f)
             \/ \E failed \in BOOLEAN : Finalize(f, failed)
    BY <1>2, <2>3 DEF JournalBatch, AppendDecision, ResumeCheck, Raise, FailTurn,
         Crash, Finalize, Goto, Unwind, TypeOK
  <2>0. f # e
    BY <1>2
  <2>4. ASSUME NEW g, exec' = [exec EXCEPT ![f] = g]
        PROVE  exec'[e] = exec[e]
    BY <2>0, <2>4 DEF TypeOK
  <2>5. CASE Proceed(f)
    BY <2>1, <2>2, <2>3, <2>5 DEF Proceed
  <2>6. CASE Crash(f)
    BY <2>3, <2>6
  <2>7. ASSUME NEW th \in Threads, Invoke(f, th)
        PROVE  exec'[e] = exec[e]
    BY <2>4, <2>7 DEF Invoke
  <2>8. ASSUME NEW t \in Turns, ResumeClaim(f, t)
        PROVE  exec'[e] = exec[e]
    BY <2>4, <2>8 DEF ResumeClaim
  <2>9. ASSUME NEW t \in Turns, NEW a \in BOOLEAN, Decide(f, t, a)
        PROVE  exec'[e] = exec[e]
    BY <2>4, <2>9 DEF Decide
  <2> QED
    BY <1>2, <2>5, <2>6, <2>7, <2>8, <2>9
<1>3. ASSUME \/ RejectInput(e) \/ JournalDeferred(e) \/ FailTurn(e) \/ Crash(e)
             \/ \E failed \in BOOLEAN : Finalize(e, failed)
      PROVE  exec'[e] = Idle
  BY <1>3 DEF RejectInput, JournalDeferred, FailTurn, Crash, Finalize, Unwind, TypeOK
<1>4. ASSUME NEW pc, exec' = [exec EXCEPT ![e].pc = pc]
      PROVE  /\ exec'[e].pc = pc
             /\ exec'[e].thread = exec[e].thread /\ exec'[e].exempt = exec[e].exempt
             /\ exec'[e].turn = exec[e].turn /\ exec'[e].seen = exec[e].seen
             /\ exec'[e].path = exec[e].path /\ exec'[e].call = exec[e].call
  BY <1>0, <1>4 DEF TypeOK, Frames
<1> USE DEF At, AtTheGate, Paused
<1>5. ASSUME BeginTurn(e) \/ ModelCalls(e) \/ JournalBatch(e)
      PROVE  Moves(e)
  BY <1>0, <1>5 DEF BeginTurn, ModelCalls, JournalBatch, Moves, TypeOK, Frames
<1>6. ASSUME AppendDecision(e)
      PROVE  Moves(e)
  BY <1>0, <1>6 DEF AppendDecision, Moves, TypeOK, Frames
<1>7. ASSUME ModelEnds(e) \/ AskApproval(e) \/ JournalDone(e) \/ Raise(e)
      PROVE  Moves(e)
  BY <1>4, <1>7 DEF ModelEnds, AskApproval, Fresh, Gated, JournalDone, Raise, InTurn,
                    Goto, Moves
<1>8. ASSUME ClaimReuse(e) \/ ClaimRefused(e) \/ ClaimEffect(e)
      PROVE  Moves(e)
  BY <1>4, <1>8 DEF ClaimReuse, ClaimRefused, ClaimEffect, Claiming, Fresh, Goto, Moves
<1>9. ASSUME Dispatch(e) \/ ToolReturns(e) \/ FinishEffect(e)
      PROVE  Moves(e)
  BY <1>4, <1>9 DEF Dispatch, ToolReturns, FinishEffect, Goto, Moves
<1>10. ASSUME Advance(e), exec[e].pc \in {"call", "cache"}
       PROVE  Moves(e)
  <2>1. ASSUME NEW j, exec[e].path = "loop",
               exec' = [exec EXCEPT ![e].pc = "call", ![e].call = j]
        PROVE  Moves(e)
    BY <1>0, <1>10, <2>1 DEF Moves, TypeOK, Frames
  <2>2. ASSUME exec[e].path = "gate", Goto(e, "append") PROVE Moves(e)
    BY <1>4, <1>10, <2>2 DEF Moves, Goto
  <2>3. ASSUME exec[e].path = "loop", Goto(e, "journal") PROVE Moves(e)
    BY <1>4, <1>10, <2>3 DEF Moves, Goto
  <2> QED
    BY <1>10, <2>1, <2>2, <2>3 DEF Advance
<1>11. ASSUME \/ ReuseCached(e) \/ ReplayRecorded(e) \/ ApprovalUnavailable(e)
              \/ SaveResult(e)
       PROVE  Moves(e)
  BY <1>10, <1>11 DEF ReuseCached, ReplayRecorded, ApprovalUnavailable, SaveResult, Fresh
<1>12. ASSUME ResumeCheck(e)
       PROVE  Moves(e)
  <2>1. exec[e].pc = "resumed"
    BY <1>12 DEF ResumeCheck
  <2>2. ASSUME NEW j, exec' = [exec EXCEPT ![e].pc = "call", ![e].call = j,
                                           ![e].replay = TRUE,
                                           ![e].seen = hist[exec[e].thread]]
        PROVE  Moves(e)
    BY <1>0, <2>1, <2>2 DEF Moves, TypeOK, Frames
  <2>3. ASSUME exec' = [exec EXCEPT ![e].pc = "model", ![e].seen = hist[exec[e].thread]]
        PROVE  Moves(e)
    BY <1>0, <2>1, <2>3 DEF Moves, TypeOK, Frames
  <2>4. ASSUME Goto(e, "failing") PROVE Moves(e)
    <3>1. exec' = [exec EXCEPT ![e].pc = "failing"]
      BY <2>4 DEF Goto
    <3> QED
      BY <1>4, <2>1, <3>1 DEF Moves
  <2>5. \/ Goto(e, "failing")
        \/ exec' = [exec EXCEPT ![e].pc = "model", ![e].seen = hist[exec[e].thread]]
        \/ \E j : exec' = [exec EXCEPT ![e].pc = "call", ![e].call = j,
                                        ![e].replay = TRUE,
                                        ![e].seen = hist[exec[e].thread]]
    BY <1>12 DEF ResumeCheck
  <2> QED
    BY <2>2, <2>3, <2>4, <2>5
<1>13. ASSUME \/ \E t \in Turns : \/ ExpireApproval(t) \/ ResumeGivesUp(t)
                                  \/ Report(t) \/ Prune(t)
              \/ \E k \in Keys :
                   \/ Arrives(k) \/ Vanishes(k)
                   \/ \E v \in {"happened", "did_not_happen", "unknown"} : Reconcile(k, v)
              \/ \E th \in Threads : ClearContext(th)
       PROVE  exec' = exec
  BY <1>13 DEF ExpireApproval, ResumeGivesUp, Report, Prune, Arrives, Vanishes,
               Reconcile, ClearContext
<1> QED
  BY <1>2, <1>3, <1>5, <1>6, <1>7, <1>8, <1>9, <1>11, <1>12, <1>13 DEF Next, Proceed

\* Nobody but a live executor touches what needs its conversation to be free.
LEMMA NotFree ==
    ASSUME Owners, NEW e \in Executors, ~At(e, "idle")
    PROVE  /\ exec[e].thread \in Threads /\ ~Free(exec[e].thread)
           /\ InATurn(e) => T(e) \in Turns /\ ~Free(thread[T(e)])
<1>1. e # NoOne
  OBVIOUS
<1> QED
  BY <1>1 DEF Owners, Free, InATurn, At

\* Four steps write the saved history of a conversation, and an exchange is
\* closed as done or recovered by two of them.
LEMMA HistorySteps ==
    ASSUME TypeOK, Next
    PROVE  \/ /\ UNCHANGED <<hist, cleared>>
              /\ \A t \in Turns : status'[t] \in {"done", "recovered"} =>
                    status'[t] = status[t]
           \/ \E e \in Executors : \/ RejectInput(e)
                                   \/ \E failed \in BOOLEAN : Finalize(e, failed)
           \/ \E t \in Turns : Report(t)
           \/ \E th \in Threads : ClearContext(th)
<1> DEFINE Quiet == /\ UNCHANGED <<hist, cleared>>
                    /\ \A t \in Turns : status'[t] \in {"done", "recovered"} =>
                          status'[t] = status[t]
<1> USE DEF rows
<1>1. ASSUME NEW e \in Executors,
             \/ BeginTurn(e) \/ ModelCalls(e) \/ ModelEnds(e)
             \/ ReuseCached(e) \/ ReplayRecorded(e)
             \/ AskApproval(e) \/ ApprovalUnavailable(e)
             \/ JournalDone(e) \/ JournalDeferred(e)
             \/ ClaimReuse(e) \/ ClaimRefused(e) \/ ClaimEffect(e)
             \/ Dispatch(e) \/ ToolReturns(e) \/ FinishEffect(e) \/ SaveResult(e)
      PROVE  Quiet
  BY <1>1 DEF BeginTurn, ModelCalls, ModelEnds, ReuseCached, ReplayRecorded,
              AskApproval, ApprovalUnavailable, JournalDone, JournalDeferred,
              ClaimReuse, ClaimRefused, ClaimEffect, Dispatch, ToolReturns,
              FinishEffect, SaveResult, TypeOK
<1>2. ASSUME NEW e \in Executors,
             \/ JournalBatch(e) \/ AppendDecision(e) \/ ResumeCheck(e)
             \/ Raise(e) \/ FailTurn(e) \/ Crash(e)
             \/ \E th \in Threads : Invoke(e, th)
             \/ \E t \in Turns : \/ ResumeClaim(e, t)
                                 \/ \E a \in BOOLEAN : Decide(e, t, a)
      PROVE  Quiet
  BY <1>2, ZenonT(30) DEF JournalBatch, AppendDecision, ResumeCheck, Raise, FailTurn, Fail,
              Crash, Invoke, ResumeClaim, Decide, Decidable, TypeOK
<1>3. ASSUME NEW t \in Turns, ExpireApproval(t) \/ ResumeGivesUp(t) \/ Prune(t)
      PROVE  Quiet
  BY <1>3 DEF ExpireApproval, ResumeGivesUp, Prune, Fail, TypeOK
<1>4. ASSUME NEW k \in Keys,
             \/ Arrives(k) \/ Vanishes(k)
             \/ \E v \in {"happened", "did_not_happen", "unknown"} : Reconcile(k, v)
      PROVE  Quiet
  <2>1. CASE Arrives(k) \/ Vanishes(k)
    BY <2>1 DEF Arrives, Vanishes
  <2>2. ASSUME NEW v \in {"happened", "did_not_happen", "unknown"}, Reconcile(k, v)
        PROVE  Quiet
    <3>1. UNCHANGED <<hist, cleared>> /\ (status' = status \/ Fail(ledger[k].turn))
      BY <2>2 DEF Reconcile
    <3> QED
      BY <3>1 DEF Fail, TypeOK
  <2> QED
    BY <1>4, <2>1, <2>2
<1> QED
  BY <1>1, <1>2, <1>3, <1>4 DEF Next, Proceed
\* A live executor's history is not rewritten under it.
LEMMA SeenStaysCurrent ==
    ASSUME TypeOK, Owners, Histories, Next, NEW e \in Executors,
           exec'[e].pc # "idle", ~At(e, "idle")
    PROVE  hist'[exec[e].thread] = hist[exec[e].thread]
<1> DEFINE th == exec[e].thread
<1>1. th \in Threads /\ ~Free(th)
  BY NotFree
<1>2. ASSUME NEW f \in Executors, NEW S, hist' = [hist EXCEPT ![exec[f].thread] = S],
             ~At(f, "idle"), Unwind(f)
      PROVE  hist'[th] = hist[th]
  <2>1. f # e
    BY <1>2 DEF Unwind, Idle, TypeOK
  <2> QED
    BY <1>1, <1>2, <2>1, Apart DEF TypeOK
<1>3. ASSUME NEW f \in Executors, RejectInput(f)
      PROVE  hist'[th] = hist[th]
  BY <1>2, <1>3 DEF RejectInput, At
<1>4. ASSUME NEW f \in Executors, NEW failed \in BOOLEAN, Finalize(f, failed)
      PROVE  hist'[th] = hist[th]
  BY <1>2, <1>4 DEF Finalize, At
<1>5. ASSUME NEW t \in Turns, Report(t)
      PROVE  hist'[th] = hist[th]
  BY <1>1, <1>5 DEF Report, Abandoned, TypeOK
<1>6. ASSUME NEW c \in Threads, ClearContext(c)
      PROVE  hist'[th] = hist[th]
  BY <1>1, <1>6 DEF ClearContext, TypeOK
<1> QED
  BY <1>3, <1>4, <1>5, <1>6, HistorySteps

\* What becomes of the saved history of one conversation.
LEMMA HistoryMoves ==
    ASSUME TypeOK, Rows, Owners, Histories, Next, NEW th \in Threads
    PROVE  \/ hist'[th] = hist[th] /\ cleared'[th] = cleared[th]
           \/ hist'[th] = {} /\ cleared'[th] = cleared[th] \cup hist[th]
           \/ /\ cleared'[th] = cleared[th]
              /\ \E t \in Turns : /\ hist'[th] = hist[th] \cup {t}
                                  /\ status[t] \in Active
                                  /\ status'[t] \in Terminal
<1> DEFINE Grows(t) == /\ hist'[th] = hist[th] \cup {t}
                       /\ status[t] \in Active /\ status'[t] \in Terminal
           Same == hist'[th] = hist[th] /\ cleared'[th] = cleared[th]
<1>1. ASSUME NEW e \in Executors, RejectInput(e)
      PROVE  Same
  <2>1. exec[e].seen = hist[exec[e].thread]
    BY <1>1 DEF RejectInput, At, Histories
  <2> QED
    BY <1>1, <2>1 DEF RejectInput, TypeOK
<1>2. ASSUME NEW e \in Executors, NEW failed \in BOOLEAN, Finalize(e, failed)
      PROVE  cleared' = cleared /\ (Same \/ Grows(T(e))) /\ T(e) \in Turns
  <2>1. exec[e].seen = hist[exec[e].thread] /\ T(e) \in Turns
        /\ exec[e].thread \in Threads
    BY <1>2 DEF Finalize, At, Histories, Owners
  <2>2. hist' = [hist EXCEPT ![exec[e].thread] = hist[exec[e].thread] \cup {T(e)}]
        /\ cleared' = cleared
    BY <1>2, <2>1 DEF Finalize
  <2>3. status[T(e)] \in Active /\ status'[T(e)] \in Terminal
    BY <1>2, <2>1 DEF Finalize, TypeOK, Terminal
  <2> QED
    BY <2>1, <2>2, <2>3 DEF TypeOK
<1>3. ASSUME NEW t \in Turns, Report(t)
      PROVE  cleared' = cleared /\ (Same \/ Grows(t))
  <2>1. thread[t] \in Threads /\ status[t] \in Active
    BY <1>3 DEF Report, Abandoned, Rows, Active
  <2>2. status'[t] \in Terminal
    BY <1>3 DEF Report, TypeOK, Terminal
  <2>3. hist' = [hist EXCEPT ![thread[t]] = hist[thread[t]] \cup {t}] /\ cleared' = cleared
    BY <1>3 DEF Report
  <2> QED
    BY <2>1, <2>2, <2>3 DEF TypeOK
<1>4. ASSUME NEW c \in Threads, ClearContext(c)
      PROVE  Same \/ (hist'[th] = {} /\ cleared'[th] = cleared[th] \cup hist[th])
  BY <1>4 DEF ClearContext, TypeOK
<1> QED
  BY <1>1, <1>2, <1>3, <1>4, HistorySteps

\* An ended turn's exchange is added once, by whoever ends the turn.
LEMMA ExchangeIsSaved ==
    ASSUME TypeOK, Rows, Owners, Histories, Next, NEW t \in Turns,
           status'[t] \in {"done", "recovered"}, status'[t] # status[t]
    PROVE  t \in hist'[thread[t]] /\ thread'[t] = thread[t] /\ thread[t] \in Threads
<1> USE DEF rows
<1>1. ASSUME NEW e \in Executors, NEW failed \in BOOLEAN, Finalize(e, failed)
      PROVE  t \in hist'[thread[t]] /\ thread' = thread /\ thread[t] \in Threads
  <2>1. T(e) \in Turns /\ thread[T(e)] = exec[e].thread /\ exec[e].thread \in Threads
    BY <1>1 DEF Finalize, At, Owners
  <2>2. t = T(e)
    BY <1>1 DEF Finalize, TypeOK
  <2> QED
    BY <1>1, <2>1, <2>2 DEF Finalize, TypeOK
<1>2. ASSUME NEW u \in Turns, Report(u)
      PROVE  t \in hist'[thread[t]] /\ thread' = thread /\ thread[t] \in Threads
  <2>1. t = u
    BY <1>2 DEF Report, TypeOK
  <2>2. thread[u] \in Threads
    BY <1>2 DEF Report, Abandoned, Rows, Active
  <2> QED
    BY <1>2, <2>1, <2>2 DEF Report, TypeOK
<1>3. ASSUME NEW e \in Executors, RejectInput(e)
      PROVE  FALSE
  BY <1>3 DEF RejectInput
<1>4. ASSUME NEW th \in Threads, ClearContext(th)
      PROVE  FALSE
  BY <1>4 DEF ClearContext
<1> QED
  BY <1>1, <1>2, <1>3, <1>4, HistorySteps

\* Histories lose nothing and bring nothing back.
LEMMA HistoriesStep ==
    ASSUME TypeOK, Rows, Owners, Owners', Kind, Histories, Next
    PROVE  Histories'
<1>1. ASSUME NEW e \in Executors, exec'[e].pc \notin {"idle", "resumed", "failing"}
      PROVE  exec'[e].seen = hist'[exec'[e].thread]
  <2>1. CASE exec'[e] = exec[e]
    BY <1>1, <2>1, SeenStaysCurrent DEF Histories, At
  <2>2. CASE exec'[e] = Idle
    BY <1>1, <2>2 DEF Idle
  <2>3. CASE Moves(e)
    <3>1. hist'[exec[e].thread] = hist[exec[e].thread]
      BY <1>1, <2>3, SeenStaysCurrent DEF Moves, At
    <3> QED
      BY <1>1, <2>3, <3>1 DEF Moves, Histories, At
  <2>4. ASSUME NEW th \in Threads, Invoke(e, th)
        PROVE  exec'[e].seen = hist'[exec'[e].thread]
    <3> DEFINE f == [Idle EXCEPT !.pc = "begin", !.thread = th, !.seen = hist[th]]
    <3>1. f.seen = hist[th] /\ f.thread = th
      BY DEF Idle
    <3>2. exec'[e] = f /\ hist' = hist
      BY <2>4 DEF Invoke, TypeOK
    <3> QED
      BY <3>1, <3>2
  <2>5. ASSUME NEW t \in Turns, ResumeClaim(e, t)
        PROVE  FALSE
    <3>1. [Idle EXCEPT !.pc = "resumed", !.turn = t, !.thread = thread[t]].pc = "resumed"
      BY DEF Idle
    <3> QED
      BY <1>1, <2>5, <3>1 DEF ResumeClaim, TypeOK
  <2>6. ASSUME NEW t \in Turns, NEW a \in BOOLEAN, Decide(e, t, a)
        PROVE  exec'[e].seen = hist'[exec'[e].thread]
    BY <2>6 DEF Decide, TypeOK
  <2> QED
    BY <2>1, <2>2, <2>3, <2>4, <2>5, <2>6, FrameSteps
<1>2. ASSUME NEW th \in Threads, NEW t \in hist'[th] \cup cleared'[th]
      PROVE  status'[t] \in Terminal \cup {"pruned"}
  <2>1. ASSUME t \in hist[th] \cup cleared[th]
        PROVE  status'[t] \in Terminal \cup {"pruned"}
    <3>1. t \in Turns /\ status[t] \in Terminal \cup {"pruned"}
      BY <2>1 DEF TypeOK, Histories
    <3> QED
      BY <3>1, StatusMoves DEF Unended, Active, Terminal
  <2> QED
    BY <1>2, <2>1, HistoryMoves
<1>3. NoLostExchange'
  <2> SUFFICES ASSUME NEW t \in Turns, status'[t] \in {"done", "recovered"}
               PROVE  t \in hist'[thread'[t]] \cup cleared'[thread'[t]]
    BY DEF NoLostExchange
  <2>1. CASE status'[t] # status[t]
    BY <2>1, ExchangeIsSaved
  <2>2. CASE status'[t] = status[t]
    <3>1. thread[t] \in Threads /\ t \in hist[thread[t]] \cup cleared[thread[t]]
      BY <2>2 DEF Rows, Histories, NoLostExchange
    <3>2. ASSUME NEW e \in Executors, Opens(e) PROVE thread'[t] = thread[t]
      <4>1. t # turns'
        BY <2>2, <3>2 DEF Opens, TypeOK
      <4> QED
        BY <3>2, <4>1 DEF Opens, TypeOK
    <3>3. thread'[t] = thread[t]
      BY <3>2 DEF Kind, Within, Leaves, Takes, Outside
    <3> QED
      BY <3>1, <3>3, HistoryMoves
  <2> QED
    BY <2>1, <2>2
<1>4. ClearedStaysCleared'
  <2> SUFFICES ASSUME NEW th \in Threads PROVE hist'[th] \cap cleared'[th] = {}
    BY DEF ClearedStaysCleared
  <2>1. hist[th] \cap cleared[th] = {}
    BY DEF Histories, ClearedStaysCleared
  <2>2. ASSUME NEW t \in Turns, status[t] \in Active PROVE t \notin cleared[th]
    BY <2>2 DEF Histories, Active, Terminal
  <2> QED
    BY <2>1, <2>2, HistoryMoves
<1> QED
  BY <1>1, <1>2, <1>3, <1>4 DEF Histories

\* A decision is taken back or given for a turn that nobody works on.
LEMMA GrantStays ==
    ASSUME TypeOK, Owners, OnePrompt, Next, NEW e \in Executors,
           InATurn(e), exec[e].pc \notin Paused, exec'[e].pc \notin Paused,
           gate[T(e)].st = "approved"
    PROVE  granted'[T(e)] = granted[T(e)] /\ gate'[T(e)].st = "approved"
<1>1. T(e) \in Turns /\ ~Free(thread[T(e)])
  BY NotFree DEF InATurn, At
<1>2. ASSUME NEW f \in Executors, AskApproval(f) PROVE T(f) # T(e)
  <2>1. InATurn(f) /\ exec'[f].pc = "pauseDone"
    BY <1>2 DEF AskApproval, Fresh, At, InATurn, Goto, TypeOK, Frames
  <2>2. f # e
    BY <2>1 DEF Paused
  <2> QED
    BY <2>1, <2>2, Apart DEF InATurn, At
<1>3. gate'[T(e)] = gate[T(e)]
  BY <1>1, <1>2, GateSteps
<1>4. ASSUME NEW f \in Executors, NEW t \in Turns, NEW a \in BOOLEAN, Decide(f, t, a)
      PROVE  granted'[T(e)] = granted[T(e)]
  <2>1. Free(thread[t])
    BY <1>4 DEF Decide, Own
  <2>2. t # T(e)
    BY <1>1, <2>1
  <2>3. granted' = [granted EXCEPT ![t] = granted'[t]]
    BY <1>4 DEF Decide, TypeOK
  <2> QED
    BY <1>1, <2>2, <2>3 DEF TypeOK
<1>5. ASSUME NEW f \in Executors, Proceed(f) \/ Crash(f)
      PROVE  granted' = granted
  <2>1. CASE \/ RejectInput(f) \/ BeginTurn(f) \/ ModelCalls(f) \/ ModelEnds(f)
             \/ ReuseCached(f) \/ ReplayRecorded(f)
             \/ AskApproval(f) \/ ApprovalUnavailable(f)
             \/ JournalDone(f) \/ JournalDeferred(f)
             \/ ClaimReuse(f) \/ ClaimRefused(f) \/ ClaimEffect(f)
    BY <2>1 DEF RejectInput, BeginTurn, ModelCalls, ModelEnds, ReuseCached,
         ReplayRecorded, AskApproval, ApprovalUnavailable, JournalDone,
         JournalDeferred, ClaimReuse, ClaimRefused, ClaimEffect
  <2>2. CASE \/ Dispatch(f) \/ ToolReturns(f) \/ FinishEffect(f) \/ SaveResult(f)
             \/ JournalBatch(f) \/ AppendDecision(f) \/ ResumeCheck(f)
             \/ Raise(f) \/ FailTurn(f) \/ Crash(f)
             \/ \E failed \in BOOLEAN : Finalize(f, failed)
    BY <2>2 DEF Dispatch, ToolReturns, FinishEffect, SaveResult, JournalBatch,
         AppendDecision, ResumeCheck, Raise, FailTurn, Crash, Finalize
  <2>3. CASE Proceed(f)
    BY <2>1, <2>2, <2>3 DEF Proceed
  <2>4. CASE Crash(f)
    BY <2>2, <2>4
  <2> QED
    BY <1>5, <2>3, <2>4
<1>8. ASSUME NEW f \in Executors, NEW th \in Threads, Invoke(f, th)
      PROVE  granted' = granted
  BY <1>8 DEF Invoke
<1>9. ASSUME NEW f \in Executors, NEW t \in Turns, ResumeClaim(f, t)
      PROVE  granted' = granted
  BY <1>9 DEF ResumeClaim
<1>6. ASSUME NEW t \in Turns,
             ExpireApproval(t) \/ ResumeGivesUp(t) \/ Report(t) \/ Prune(t)
      PROVE  granted' = granted
  BY <1>6 DEF ExpireApproval, ResumeGivesUp, Report, Prune
<1>10. ASSUME NEW k \in Keys,
              \/ Arrives(k) \/ Vanishes(k)
              \/ \E v \in {"happened", "did_not_happen", "unknown"} : Reconcile(k, v)
       PROVE  granted' = granted
  BY <1>10 DEF Arrives, Vanishes, Reconcile
<1>11. ASSUME NEW th \in Threads, ClearContext(th)
       PROVE  granted' = granted
  BY <1>11 DEF ClearContext
<1>7. granted'[T(e)] = granted[T(e)]
  <2> DEFINE Kept == granted'[T(e)] = granted[T(e)]
  <2> HIDE DEF Kept
  <2>1. ASSUME granted' = granted PROVE Kept
    BY <2>1 DEF Kept
  <2>2. ASSUME NEW f \in Executors, NEW t \in Turns, NEW a \in BOOLEAN, Decide(f, t, a)
        PROVE  Kept
    BY <1>4, <2>2 DEF Kept
  <2>3. ASSUME NEW f \in Executors,
               \/ Proceed(f) \/ Crash(f)
               \/ \E th \in Threads : Invoke(f, th)
               \/ \E t \in Turns : \/ ResumeClaim(f, t)
                                   \/ \E a \in BOOLEAN : Decide(f, t, a)
        PROVE  Kept
    BY <1>5, <1>8, <1>9, <2>1, <2>2, <2>3
  <2>4. Kept
    BY <1>6, <1>10, <1>11, <2>1, <2>3 DEF Next
  <2> QED
    BY <2>4 DEF Kept
<1> QED
  BY <1>3, <1>7

\* An exemption from the approval check stays the approval of its turn.
LEMMA PermittedStep ==
    ASSUME TypeOK, TypeOK', Rows, Owners, Owners', OnePrompt, Permitted, Next
    PROVE  Permitted'
<1> USE DEF At
<1> SUFFICES ASSUME NEW e \in Executors
             PROVE  /\ exec'[e].path = "gate" => exec'[e].pc \in AtTheGate
                    /\ exec'[e].path = "gate" /\ exec'[e].pc = "call" =>
                          Op(e)' = exec'[e].exempt
                    /\ exec'[e].pc = "begin" => exec'[e].exempt = NoOp
                    /\ exec'[e].pc \notin Paused /\ exec'[e].exempt # NoOp =>
                          /\ exec'[e].exempt \in granted'[T(e)']
                          /\ gate'[T(e)'].st = "approved"
  BY DEF Permitted
<1> DEFINE Goal == /\ exec'[e].path = "gate" => exec'[e].pc \in AtTheGate
                   /\ exec'[e].path = "gate" /\ exec'[e].pc = "call" =>
                         Op(e)' = exec'[e].exempt
                   /\ exec'[e].pc = "begin" => exec'[e].exempt = NoOp
                   /\ exec'[e].pc \notin Paused /\ exec'[e].exempt # NoOp =>
                         /\ exec'[e].exempt \in granted'[T(e)']
                         /\ gate'[T(e)'].st = "approved"
<1> SUFFICES Goal
  OBVIOUS
<1>1. exec[e] \in Frames
  BY DEF TypeOK
<1>2. CASE exec'[e] = exec[e]
  <2>1. T(e)' = T(e)
    BY <1>2 DEF T
  <2>2. ASSUME exec[e].path = "gate", exec[e].pc = "call"
        PROVE  Op(e)' = Op(e)
    <3>1. K(e)' = K(e)
      BY <1>2, <2>2, KeyStays DEF InATurn
    <3>2. K(e)[2] = Op(e) /\ K(e)'[2] = Op(e)'
      BY DEF K, Key
    <3> QED
      BY <3>1, <3>2
  <2>3. ASSUME exec[e].pc \notin Paused, exec[e].exempt # NoOp
        PROVE  /\ exec[e].exempt \in granted'[T(e)]
               /\ gate'[T(e)].st = "approved"
    BY <1>2, <2>3, GrantStays DEF Permitted, Paused, InATurn
  <2> QED
    BY <1>2, <2>1, <2>2, <2>3 DEF Permitted
<1>3. CASE exec'[e] = Idle
  BY <1>3 DEF Idle, Paused
<1>4. CASE Moves(e)
  <2>1. exec'[e].path = "gate" => exec'[e].pc \in AtTheGate \ {"call"}
    BY <1>1, <1>4 DEF Moves, Permitted, Frames
  <2>2. ASSUME exec'[e].pc \notin Paused, exec'[e].exempt # NoOp
        PROVE  /\ exec'[e].exempt \in granted'[T(e)']
               /\ gate'[T(e)'].st = "approved"
    <3>1. exec[e].pc \notin Paused
      BY <1>4, <2>2 DEF Moves, Permitted
    <3>2. T(e)' = T(e) /\ InATurn(e) /\ exec'[e].exempt = exec[e].exempt
      BY <1>4, <3>1 DEF Moves, T, Paused, InATurn
    <3> QED
      BY <2>2, <3>1, <3>2, GrantStays DEF Permitted
  <2> QED
    BY <1>4, <2>1, <2>2 DEF Moves
<1>5. ASSUME NEW th \in Threads, Invoke(e, th)
      PROVE  Goal
  <2> DEFINE f == [Idle EXCEPT !.pc = "begin", !.thread = th, !.seen = hist[th]]
  <2>1. f.path = "loop" /\ f.exempt = NoOp
    BY DEF Idle
  <2>2. exec'[e] = f
    BY <1>5 DEF Invoke, TypeOK
  <2> HIDE DEF f
  <2> QED
    BY <2>1, <2>2
<1>6. ASSUME NEW t \in Turns, ResumeClaim(e, t)
      PROVE  Goal
  <2> DEFINE f == [Idle EXCEPT !.pc = "resumed", !.turn = t, !.thread = thread[t]]
  <2>1. f.path = "loop" /\ f.exempt = NoOp /\ f.pc = "resumed"
    BY DEF Idle
  <2>2. exec'[e] = f
    BY <1>6 DEF ResumeClaim, TypeOK
  <2> HIDE DEF f
  <2> QED
    BY <2>1, <2>2
<1>7. ASSUME NEW t \in Turns, NEW a \in BOOLEAN, Decide(e, t, a)
      PROVE  Goal
  <2>1. gate[t].op = journal[t].batch[gate[t].call] /\ gate[t] \in Asks
    BY <1>7 DEF Decide, Decidable, Rows, TypeOK
  <2>2. /\ exec'[e].turn = t /\ exec'[e].call = gate[t].call
        /\ exec'[e].pc = (IF a THEN "call" ELSE "append")
        /\ exec'[e].exempt = (IF a THEN gate[t].op ELSE NoOp)
        /\ exec'[e].path = "gate"
        /\ journal' = journal
    BY <1>7 DEF Decide, TypeOK
  <2>3. a => Op(e)' = gate[t].op
    BY <2>1, <2>2 DEF Op, T
  <2>4. a => gate[t].op \in granted'[t] /\ gate'[t].st = "approved"
    BY <1>7, <2>1 DEF Decide, TypeOK, Asks
  <2> QED
    BY <2>2, <2>3, <2>4 DEF T, AtTheGate
<1> QED
  BY <1>2, <1>3, <1>4, <1>5, <1>6, <1>7, FrameSteps
\* The memory of results: two steps add to it, and it keeps to its batch.
LEMMA CacheMoves ==
    ASSUME TypeOK, Next, NEW t \in Turns
    PROVE  \/ /\ journal'[t].batch = journal[t].batch
              /\ journal'[t].cache = journal[t].cache
           \/ journal'[t].cache = {}
           \/ /\ journal'[t].batch = journal[t].batch
              /\ \E e \in Executors : /\ ReplayRecorded(e) \/ SaveResult(e)
                                      /\ t = T(e)
                                      /\ journal'[t].cache =
                                            journal[t].cache \cup {exec[e].call}
<1> DEFINE Same == /\ journal'[t].batch = journal[t].batch
                   /\ journal'[t].cache = journal[t].cache
           Empty == journal'[t].cache = {}
<1>0. journal[t] \in Batches
  BY DEF TypeOK
<1>1. ASSUME NEW e \in Executors, ModelCalls(e)
      PROVE  Same \/ Empty
  <2>1. PICK n \in 1..MaxBatch : \E b \in [1..n -> Ops] :
          journal' = [journal EXCEPT ![T(e)] =
                        [round |-> @.round + 1, batch |-> b,
                         answered |-> {}, cache |-> {}, denied |-> {}]]
    BY <1>1 DEF ModelCalls
  <2>2. PICK b \in [1..n -> Ops] :
          journal' = [journal EXCEPT ![T(e)] =
                        [round |-> journal[T(e)].round + 1, batch |-> b,
                         answered |-> {}, cache |-> {}, denied |-> {}]]
    BY <2>1
  <2> QED
    BY <2>2 DEF TypeOK
<1>2. ASSUME NEW e \in Executors, ReplayRecorded(e) \/ SaveResult(e)
      PROVE  \/ Same
             \/ /\ journal'[t].batch = journal[t].batch /\ t = T(e)
                /\ journal'[t].cache = journal[t].cache \cup {exec[e].call}
  <2> DEFINE b == journal[t]
             new == b.cache \cup {exec[e].call}
  <2>1. [b EXCEPT !.cache = new].batch = b.batch /\ [b EXCEPT !.cache = new].cache = new
    BY <1>0 DEF Batches
  <2>2. journal' = [journal EXCEPT ![T(e)].cache = @ \cup {exec[e].call}]
    BY <1>2 DEF ReplayRecorded, SaveResult
  <2>3. CASE t = T(e)
    <3>1. journal'[t] = [b EXCEPT !.cache = new]
      BY <2>2, <2>3 DEF TypeOK
    <3> QED
      BY <2>1, <2>3, <3>1
  <2>4. CASE t # T(e)
    BY <2>2, <2>4 DEF TypeOK
  <2> QED
    BY <2>3, <2>4
<1>3. ASSUME NEW e \in Executors,
             \/ ApprovalUnavailable(e) \/ JournalDone(e) \/ JournalDeferred(e)
             \/ JournalBatch(e) \/ AppendDecision(e)
      PROVE  Same
  <2>1. PICK X : \/ journal' = [journal EXCEPT ![T(e)].answered = X]
                 \/ journal' = [journal EXCEPT ![T(e)].denied = X]
    BY <1>3 DEF ApprovalUnavailable, JournalDone, JournalDeferred, JournalBatch,
                AppendDecision
  <2> DEFINE b == journal[t]
  <2>2. /\ [b EXCEPT !.answered = X].batch = b.batch
        /\ [b EXCEPT !.answered = X].cache = b.cache
        /\ [b EXCEPT !.denied = X].batch = b.batch
        /\ [b EXCEPT !.denied = X].cache = b.cache
    BY <1>0 DEF Batches
  <2>3. CASE t = T(e)
    BY <2>1, <2>2, <2>3 DEF TypeOK
  <2>4. CASE t # T(e)
    BY <2>1, <2>4 DEF TypeOK
  <2> QED
    BY <2>3, <2>4
<1>4. ASSUME NEW e \in Executors, NEW failed \in BOOLEAN, Finalize(e, failed)
      PROVE  Same \/ Empty
  BY <1>4 DEF Finalize, NoBatch, TypeOK
<1>5. ASSUME NEW u \in Turns, Prune(u)
      PROVE  Same \/ Empty
  BY <1>5 DEF Prune, NoBatch, TypeOK
<1>6. ASSUME NEW e \in Executors,
             \/ RejectInput(e) \/ BeginTurn(e) \/ ModelEnds(e)
             \/ ReuseCached(e) \/ AskApproval(e)
             \/ ClaimReuse(e) \/ ClaimRefused(e) \/ ClaimEffect(e)
             \/ Dispatch(e) \/ ToolReturns(e) \/ FinishEffect(e)
             \/ ResumeCheck(e) \/ Raise(e) \/ FailTurn(e) \/ Crash(e)
             \/ \E th \in Threads : Invoke(e, th)
             \/ \E u \in Turns : \/ ResumeClaim(e, u)
                                 \/ \E a \in BOOLEAN : Decide(e, u, a)
      PROVE  Same
  BY <1>6 DEF RejectInput, BeginTurn, ModelEnds, ReuseCached, AskApproval,
              ClaimReuse, ClaimRefused, ClaimEffect, Dispatch, ToolReturns,
              FinishEffect, ResumeCheck, Raise, FailTurn, Crash, Invoke,
              ResumeClaim, Decide
<1>7. ASSUME NEW u \in Turns, ExpireApproval(u) \/ ResumeGivesUp(u) \/ Report(u)
      PROVE  Same
  BY <1>7 DEF ExpireApproval, ResumeGivesUp, Report
<1>8. ASSUME NEW k \in Keys,
             \/ Arrives(k) \/ Vanishes(k)
             \/ \E v \in {"happened", "did_not_happen", "unknown"} : Reconcile(k, v)
      PROVE  Same
  BY <1>8 DEF Arrives, Vanishes, Reconcile
<1>9. ASSUME NEW th \in Threads, ClearContext(th)
      PROVE  Same
  BY <1>9 DEF ClearContext
<1> QED
  BY <1>1, <1>2, <1>3, <1>4, <1>5, <1>6, <1>7, <1>8, <1>9 DEF Next, Proceed

\* Known, after the step.
StillKnown(k) == k \in waived' \cup forgotten' \/ ledger'[k].st = "recorded"

\* What the ledger knows of a key it forgets only with the key's own turn.
LEMMA KnownStays ==
    ASSUME TypeOK, Owners, OnePrompt, Intents, Reserved, Next, NEW k \in Keys, Known(k)
    PROVE  StillKnown(k) \/ \E u \in Turns : Prune(u) /\ k[1] = u
<1> USE DEF trust
<1>1. waived \subseteq waived' /\ forgotten \subseteq forgotten'
  BY LedgerSteps DEF ClaimEffect, Dispatch, FinishEffect, Reconcile, Prune,
                     Arrives, Vanishes
<1>2. CASE k \in waived \cup forgotten
  BY <1>1, <1>2 DEF Known, StillKnown
<1>3. CASE ledger[k].st = "recorded"
  <2>0. ledger[k] \in Entries
    BY DEF TypeOK
  <2>1. ASSUME NEW e \in Executors, ClaimEffect(e)
        PROVE  StillKnown(k)
    <3>1. k # K(e)
      BY <1>3, <2>1, ClaimWrites
    <3> QED
      BY <1>3, <2>1, <3>1, ClaimWrites DEF Known, StillKnown
  <2>2. ASSUME NEW e \in Executors, FinishEffect(e)
        PROVE  StillKnown(k)
    <3>1. ledger' = ledger \/ ledger' = [ledger EXCEPT ![K(e)].st = "recorded"]
      BY <2>2 DEF FinishEffect
    <3>2. ledger'[k].st = "recorded"
      BY <1>3, <2>0, <3>1 DEF TypeOK, Entries
    <3> QED
      BY <3>2 DEF Known, StillKnown
  <2>3. ASSUME NEW j \in Keys, NEW v \in {"happened", "did_not_happen", "unknown"},
               Reconcile(j, v)
        PROVE  StillKnown(k)
    <3>1. k # j
      BY <1>3, <2>3 DEF Reconcile, Verifiable
    <3>2. ledger'[k] = ledger[k]
      BY <2>3, <3>1 DEF Reconcile, TypeOK
    <3> QED
      BY <1>3, <3>2 DEF Known, StillKnown
  <2>4. ASSUME NEW u \in Turns, Prune(u)
        PROVE  StillKnown(k) \/ k[1] = u
    <3>1. CASE ledger[k].turn = u /\ Natural(k)
      BY <1>3, <2>4, <3>1 DEF Prune, Known, StillKnown
    <3>2. CASE ledger[k].turn = u /\ ~Natural(k)
      BY <1>3, <3>2 DEF Intents, Key, Natural
    <3>3. CASE ledger[k].turn # u
      BY <1>3, <2>4, <3>3 DEF Prune, Known, StillKnown
    <3> QED
      BY <3>1, <3>2, <3>3
  <2>5. ASSUME ledger' = ledger
        PROVE  StillKnown(k)
    BY <1>3, <2>5 DEF Known, StillKnown
  <2> QED
    BY <2>1, <2>2, <2>3, <2>4, <2>5, LedgerSteps DEF Dispatch, Arrives, Vanishes
<1> QED
  BY <1>2, <1>3 DEF Known, StillKnown

\* The key of a call of a batch.
LEMMA KeyOfBatch ==
    ASSUME TypeOK, NEW t \in Turns, NEW i \in Calls(t)
    PROVE  /\ Key(t, journal[t].batch[i]) \in Keys
           /\ Key(t, journal[t].batch[i])[1] \in {0, t}
<1>1. journal[t].batch[i] \in Ops
  BY DEF TypeOK, Batches, Calls
<1> QED
  BY <1>1 DEF Key, Keys, Turns

\* A memoized result keeps its effect.
LEMMA BackedStep ==
    ASSUME TypeOK, TypeOK', Rows, Owners, Owners', OnePrompt, Intents, Reserved,
           Backed, Next
    PROVE  Backed'
<1> USE DEF At
<1>1. ASSUME NEW t \in Turns, NEW i \in journal'[t].cache
      PROVE  i \in Calls(t)' /\ StillKnown(Key(t, journal[t].batch[i])')
  <2> DEFINE k == Key(t, journal[t].batch[i])
  <2>1. journal'[t].batch = journal[t].batch
    BY <1>1, CacheMoves
  <2>2. ~Prune(t)
    BY <1>1 DEF Prune, NoBatch, TypeOK
  <2>3. ASSUME i \in Calls(t), Known(k)
        PROVE  StillKnown(k)
    <3>1. k \in Keys /\ k[1] \in {0, t}
      BY <2>3, KeyOfBatch
    <3>2. 0 \notin Turns
      BY DEF Turns
    <3> QED
      BY <2>2, <2>3, <3>1, <3>2, KnownStays
  <2>4. i \in Calls(t) /\ StillKnown(k)
    <3>1. CASE i \in journal[t].cache
      BY <2>3, <3>1 DEF Backed
    <3>2. ASSUME NEW e \in Executors, ReplayRecorded(e) \/ SaveResult(e), t = T(e),
                 i = exec[e].call
          PROVE  i \in Calls(t) /\ StillKnown(k)
      <4>1. i \in Calls(t)
        BY <3>2 DEF ReplayRecorded, SaveResult, OnePrompt, AtACall
      <4>2. k = K(e)
        BY <3>2 DEF K, Op
      <4>3. Known(K(e))
        BY <3>2 DEF ReplayRecorded, SaveResult, Backed, Known, StillKnown
      <4> QED
        BY <2>3, <4>1, <4>2, <4>3
    <3> QED
      BY <1>1, <3>1, <3>2, CacheMoves
  <2>5. k' = k
    BY <2>1 DEF Key
  <2> QED
    BY <2>1, <2>4, <2>5 DEF Calls, Known, StillKnown
<1>2. ASSUME NEW e \in Executors, exec'[e].pc = "cache"
      PROVE  StillKnown(K(e)')
  <2>1. ASSUME exec[e].pc = "cache"
        PROVE  K(e) \in Keys /\ StillKnown(K(e))
    <3>1. /\ K(e) \in Keys /\ T(e) \in Turns /\ status[T(e)] \in Unended
          /\ K(e)[1] \in Turns => K(e)[1] = T(e)
      BY <2>1, KeyOfCall DEF AtACall, Owners
    <3>2. Known(K(e))
      BY <2>1 DEF Backed
    <3>3. ~Prune(T(e))
      BY <3>1 DEF Prune, Unended, Active, Terminal
    <3> QED
      BY <3>1, <3>2, <3>3, KnownStays
  <2>2. CASE exec'[e] = exec[e]
    <3>1. K(e)' = K(e)
      BY <1>2, <2>2, KeyStays DEF InATurn
    <3> QED
      BY <1>2, <2>1, <2>2, <3>1 DEF Known, StillKnown
  <2>3. CASE Moves(e)
    <3>1. /\ ClaimReuse(e) \/ (FinishEffect(e) /\ exec'[e].call = exec[e].call)
          /\ exec[e].pc \in {"call", "finish"} /\ exec'[e].turn = exec[e].turn
      BY <1>2, <2>3 DEF Moves, ClaimReuse, Claiming, Fresh, FinishEffect
    <3>2. K(e)' = K(e) /\ K(e) \in Keys
      BY <1>2, <2>3, <3>1, KeyStays, KeyOfCall DEF Moves, InATurn, Holding, AtACall
    <3>3. CASE ClaimReuse(e)
      BY <3>2, <3>3 DEF ClaimReuse, Reusable, Known, StillKnown
    <3>4. CASE FinishEffect(e)
      <4>1. exec'[e].pc # "failing" /\ exec[e] \in Frames
        BY <1>2 DEF TypeOK
      <4>2. ~Goto(e, "failing")
        BY <4>1 DEF Goto, TypeOK, Frames
      <4>3. ledger' = [ledger EXCEPT ![K(e)].st = "recorded"] /\ ledger[K(e)] \in Entries
        BY <3>2, <3>4, <4>2 DEF FinishEffect, TypeOK
      <4>4. ledger'[K(e)].st = "recorded"
        BY <3>2, <4>3 DEF TypeOK, Entries
      <4> QED
        BY <3>2, <4>4 DEF Known, StillKnown
    <3> QED
      BY <3>1, <3>3, <3>4
  <2>4. exec'[e] # Idle
    BY <1>2 DEF Idle
  <2>5. ASSUME NEW th \in Threads, Invoke(e, th)
        PROVE  FALSE
    <3>1. [Idle EXCEPT !.pc = "begin", !.thread = th, !.seen = hist[th]].pc = "begin"
      BY DEF Idle
    <3> QED
      BY <1>2, <2>5, <3>1 DEF Invoke, TypeOK
  <2>6. ASSUME NEW t \in Turns, ResumeClaim(e, t)
        PROVE  FALSE
    <3>1. [Idle EXCEPT !.pc = "resumed", !.turn = t, !.thread = thread[t]].pc = "resumed"
      BY DEF Idle
    <3> QED
      BY <1>2, <2>6, <3>1 DEF ResumeClaim, TypeOK
  <2>7. ASSUME NEW t \in Turns, NEW a \in BOOLEAN, Decide(e, t, a)
        PROVE  FALSE
    BY <1>2, <2>7 DEF Decide, TypeOK
  <2> QED
    BY <2>2, <2>3, <2>4, <2>5, <2>6, <2>7, FrameSteps
<1> QED
  BY <1>1, <1>2 DEF Backed, Known, StillKnown
\* The invariant with the three stories beside it.
Whole == Inductive /\ Histories /\ Permitted /\ Backed

LEMMA InitWhole == Init => Whole
<1> SUFFICES ASSUME Init PROVE Whole
  OBVIOUS
<1>1. Histories
  BY DEF Init, Histories, NoLostExchange, ClearedStaysCleared, Idle
<1>2. Permitted
  BY DEF Init, Permitted, Idle, Paused, At
<1>3. Backed
  BY DEF Init, Backed, NoBatch, Idle, At
<1> QED
  BY <1>1, <1>2, <1>3, InitInductive DEF Whole

LEMMA NextWhole ==
    ASSUME Whole, [Next]_vars
    PROVE  Whole'
<1>0. Inductive /\ Inductive'
  BY NextInductive DEF Whole
<1>1. CASE Next
  <2>1. /\ TypeOK /\ Rows /\ Owners /\ OnePrompt /\ Intents /\ Reserved
        /\ TypeOK' /\ Owners'
        /\ Histories /\ Permitted /\ Backed
    BY <1>0 DEF Inductive, Whole
  <2>2. Kind
    BY <1>1, <2>1, Kinds
  <2>3. Histories'
    BY <1>1, <2>1, <2>2, HistoriesStep
  <2>4. Permitted'
    BY <1>1, <2>1, PermittedStep
  <2>5. Backed'
    BY <1>1, <2>1, BackedStep
  <2> QED
    BY <1>0, <2>3, <2>4, <2>5 DEF Whole
<1>2. CASE UNCHANGED vars
  <2> USE <1>2 DEF vars, rows, outer, trust, Whole
  <2>1. Histories'
    BY DEF Histories, NoLostExchange, ClearedStaysCleared
  <2>2. Permitted'
    BY DEF Permitted, Op, T, At
  <2>3. Backed'
    BY DEF Backed, Calls, Known, Key, K, Op, T, At
  <2> QED
    BY <1>0, <2>1, <2>2, <2>3
<1> QED
  BY <1>1, <1>2

\* The three stories of what an executor remembers hold in every state, beside
\* Inductive: the history it loaded at the start of its turn (finalize_turn), the
\* approval it continues under (the engine's tool loop) and the recorded result
\* it is about to memoize (save_tool_result).
THEOREM SpecWhole == Spec => []Whole
<1>1. Init => Whole
  BY InitWhole
<1>2. Whole /\ [Next]_vars => Whole'
  BY NextWhole
<1> QED
  BY <1>1, <1>2, PTL DEF Spec

\* No update of a history is lost: no writer saves an older copy over the exchange
\* of a turn that was answered or reported (finalize_turn, recover_abandoned_turns,
\* own_conversation).  Only /clear removes turns here: the code's trimming to
\* MAX_HISTORY, its compaction and its treatment of a history that cannot be parsed
\* are left out of the model.
THEOREM SpecNoLostExchange == Spec => []NoLostExchange
BY SpecWhole, PTL DEF Whole, Histories

\* What /clear removed stays removed, whoever had loaded it (clear_context under
\* the conversation's lock).
THEOREM SpecClearedStaysCleared == Spec => []ClearedStaysCleared
BY SpecWhole, PTL DEF Whole, Histories

\* A memoized result rests on a recorded effect (save_tool_result after
\* finish_external_effect, and the replay of recorded effects).
THEOREM SpecCacheIsBacked == Spec => []CacheIsBacked
<1>1. Backed => CacheIsBacked
  BY DEF Backed, CacheIsBacked, Known
<1> QED
  BY <1>1, SpecWhole, PTL DEF Whole

\* A gated operation is reserved only under a human's approval that was not
\* taken back, in a turn that no open prompt is waiting on (begin_external_effect
\* behind the approval check of the engine's tool loop).
THEOREM SpecReservedOnlyIfApproved == Spec => ReservedOnlyIfApproved
<1> DEFINE Step == \A k \in Keys :
                      /\ ledger[k].st = "none" /\ ledger'[k].st = "pending"
                      /\ k[2] \in GatedOps
                      => k[2] \in granted[ledger'[k].turn] /\ gate[ledger'[k].turn].st = "approved"
<1>1. Whole /\ [Next]_vars => [Step]_vars
  <2>1. ASSUME Whole, Next, NEW k \in Keys, ledger[k].st = "none",
               ledger'[k].st = "pending", k[2] \in GatedOps
        PROVE  /\ k[2] \in granted[ledger'[k].turn]
               /\ gate[ledger'[k].turn].st = "approved"
    <3>0. TypeOK /\ Owners /\ OnePrompt /\ Reserved /\ Permitted
      BY <2>1 DEF Whole, Inductive
    <3>1. PICK e \in Executors : ClaimEffect(e) /\ k = K(e) /\ ledger'[k].turn = T(e)
      BY <2>1, <3>0, EntrySteps
    <3>2. At(e, "call") /\ ~Gated(e) /\ k[2] = Op(e) /\ exec[e].path \in {"loop", "gate"}
      BY <3>0, <3>1 DEF ClaimEffect, Claiming, Fresh, K, Key, TypeOK, Frames
    <3>3. Op(e) = exec[e].exempt
      BY <2>1, <3>0, <3>2 DEF Gated, Permitted
    <3>4. exec[e].exempt # NoOp
      BY <2>1, <3>2, <3>3
    <3> QED
      BY <3>0, <3>1, <3>2, <3>3, <3>4 DEF Permitted, At, Paused
  <2> QED
    BY <2>1
<1> QED
  BY <1>1, SpecWhole, PTL DEF Spec, ReservedOnlyIfApproved
=============================================================================
