-------------------------- MODULE MemoryResetProofs --------------------------
(***************************************************************************)
(* Proofs about MemoryReset, for any users, writers and resets: facts that *)
(* a reset deleted do not come back.                                       *)
(***************************************************************************)
EXTENDS MemoryReset, TLAPS

\* The gate holds the writers between its entry and their store, and none
\* while a reset holds it.
GateIsHeld ==
    /\ \A w \in Writers : writer[w].step \in {"entered", "checked"} => w \in gate
    /\ \A r \in Resets : reset[r].step = "holding" => gate = {}

\* Only a consolidation reads before it captures: a turn's source is as old as
\* the generation it captured.
TurnsCapture ==
    /\ \A w \in Turns \cup Foreign :
         writer[w].step # "idle" => /\ writer[w].step # "read"
                                    /\ writer[w].source = writer[w].gen
    /\ \A w \in Foreign : writer[w].step \in {"idle", "mirroring"}
    /\ \A w \in Sleepers : writer[w].step # "mirroring"
    /\ \A w \in Writers : writer[w].step # "idle" => writer[w].user \in Users

\* Nothing is cleared for an epoch that has not begun.
ClearedIsPast ==
    /\ \A l \in Layers, u \in Users : cleared[l][u] <= epoch[u]
    /\ \A r \in Resets, u \in Users : reset[r].marks[u] <= epoch[u]

\* A turn that passed the check stores nothing older than the last reset.
CheckedIsFresh ==
    \A w \in Turns :
        writer[w].step = "checked" => writer[w].source >= cleared["facts"][writer[w].user]

MemoryInductive ==
    /\ MemoryTypeOK
    /\ GateIsHeld
    /\ TurnsCapture
    /\ ClearedIsPast
    /\ CheckedIsFresh
    /\ NothingReturns

LEMMA MemoryInit == InitMemory => MemoryInductive
<1> SUFFICES ASSUME InitMemory PROVE MemoryInductive
  OBVIOUS
<1> USE DEF InitMemory, IdleWriter, IdleReset
<1>1. MemoryTypeOK
  BY DEF MemoryTypeOK, WriterState, ResetState, Steps
<1>2. GateIsHeld /\ TurnsCapture /\ ClearedIsPast /\ CheckedIsFresh
  BY DEF GateIsHeld, TurnsCapture, ClearedIsPast, CheckedIsFresh, Writers, Layers
<1>3. NothingReturns
  BY DEF NothingReturns, Untouched, Layers
<1> QED
  BY <1>1, <1>2, <1>3 DEF MemoryInductive

-----------------------------------------------------------------------------
\* Types.

LEMMA WriterTypes ==
    ASSUME MemoryTypeOK, TurnsCapture, NEW w \in Writers, WriterStep(w)
    PROVE  MemoryTypeOK'
<1> USE DEF MemoryTypeOK
<1>0. /\ \A x \in Writers : writer[x] \in WriterState
      /\ \A x \in WriterState : /\ x.step \in Steps /\ x.user \in Users \cup {Nobody}
                                /\ x.source \in Nat /\ x.gen \in Nat
  BY DEF WriterState
<1>1. End(w) \in [Writers -> WriterState]
  BY DEF End, IdleWriter, WriterState, Steps
<1>2. ASSUME NEW l \in Layers, writer[w].step # "idle"
      PROVE  Put(l, w) \in [Layers -> SUBSET (Users \X Nat)]
  BY <1>0, <1>2 DEF Put, TurnsCapture
<1>3. ASSUME NEW u \in Users, StartTurn(w, u) PROVE MemoryTypeOK'
  BY <1>3 DEF StartTurn, WriterState, Steps
<1>4. ASSUME NEW u \in Users, ReadFacts(w, u) PROVE MemoryTypeOK'
  BY <1>4 DEF ReadFacts, WriterState, Steps
<1>5. CASE CaptureLate(w)
  <2>1. writer[w].user \in Users
    BY <1>5 DEF CaptureLate, TurnsCapture
  <2> DEFINE g == epoch[writer[w].user]
  <2>2. g \in Nat
    BY <2>1
  <2> HIDE DEF g
  <2>3. [writer[w] EXCEPT !.step = "captured", !.gen = g] \in WriterState
    BY <1>0, <2>2 DEF WriterState, Steps
  <2>4. writer' = [writer EXCEPT ![w] = [writer[w] EXCEPT !.step = "captured", !.gen = g]]
    BY <1>5 DEF CaptureLate, g
  <2> QED
    BY <1>5, <2>3, <2>4 DEF CaptureLate
<1>6. CASE EnterGate(w)
  BY <1>0, <1>6 DEF EnterGate, WriterState, Steps
<1>7. CASE CheckGeneration(w)
  <2>1. [writer EXCEPT ![w].step = "checked"] \in [Writers -> WriterState]
    BY <1>0 DEF WriterState, Steps
  <2> QED
    BY <1>1, <1>7, <2>1 DEF CheckGeneration
<1>8. CASE Store(w)
  <2>1. [writer EXCEPT ![w].step = "mirroring"] \in [Writers -> WriterState]
    BY <1>0 DEF WriterState, Steps
  <2>2. stored' \in [Layers -> SUBSET (Users \X Nat)]
    BY <1>2, <1>8 DEF Store, Layers
  <2> QED
    BY <1>1, <1>8, <2>1, <2>2 DEF Store
<1>9. CASE Mirror(w)
  <2>1. stored' \in [Layers -> SUBSET (Users \X Nat)]
    BY <1>2, <1>9 DEF Mirror, Layers
  <2> QED
    BY <1>1, <1>9, <2>1 DEF Mirror
<1>10. CASE WriterFails(w)
  BY <1>1, <1>10 DEF WriterFails
<1> QED
  BY <1>3, <1>4, <1>5, <1>6, <1>7, <1>8, <1>9, <1>10 DEF WriterStep

LEMMA ResetTypes ==
    ASSUME MemoryTypeOK, NEW r \in Resets, ResetStep(r)
    PROVE  MemoryTypeOK'
<1> USE DEF MemoryTypeOK
<1>0. /\ reset[r] \in ResetState
      /\ reset[r].users \in SUBSET Users /\ reset[r].layers \in SUBSET Layers
      /\ reset[r].marks \in [Users -> Nat]
  BY DEF ResetState
<1>1. ASSUME NEW us \in Owners, NEW ls \in SUBSET Layers \ {{}}, StartReset(r, us, ls)
      PROVE  MemoryTypeOK'
  <2> DEFINE next == [u \in Users |-> IF u \in us THEN epoch[u] + 1 ELSE epoch[u]]
  <2>1. next \in [Users -> Nat] /\ us \in SUBSET Users
    BY <1>1 DEF Owners
  <2>2. /\ epoch' = next
        /\ reset' = [reset EXCEPT ![r] =
              [step |-> "marked", users |-> us, layers |-> ls, marks |-> next]]
    BY <1>1 DEF StartReset
  <2>3. [step |-> "marked", users |-> us, layers |-> ls, marks |-> next] \in ResetState
    BY <2>1 DEF ResetState
  <2>4. reset' \in [Resets -> ResetState]
    BY <2>2, <2>3
  <2> QED
    BY <1>1, <2>1, <2>2, <2>4 DEF StartReset
<1>2. CASE AwaitGate(r)
  BY <1>0, <1>2 DEF AwaitGate, ResetState
<1>3. CASE TakeGate(r)
  BY <1>0, <1>3 DEF TakeGate, ResetState
<1>4. CASE ClearLayer(r)
  <2> DEFINE l == NextLayer(r)
             us == reset[r].users
  <2>1. /\ stored' = [stored EXCEPT ![l] = {item \in stored[l] : item[1] \notin us}]
        /\ cleared' = [cleared EXCEPT ![l] =
              [u \in Users |-> IF u \in us THEN reset[r].marks[u] ELSE cleared[l][u]]]
        /\ reset' = [reset EXCEPT ![r].layers = reset[r].layers \ {l}]
    BY <1>4 DEF ClearLayer
  <2> HIDE DEF l
  <2>2. stored' \in [Layers -> SUBSET (Users \X Nat)]
    BY <2>1
  <2>3. cleared' \in [Layers -> [Users -> Nat]]
    BY <1>0, <2>1
  <2>4. reset' \in [Resets -> ResetState]
    BY <1>0, <2>1 DEF ResetState
  <2> QED
    BY <1>4, <2>2, <2>3, <2>4 DEF ClearLayer
<1>5. CASE LayerFails(r)
  BY <1>0, <1>5 DEF LayerFails, ResetState
<1>6. CASE ReleaseGate(r)
  BY <1>6 DEF ReleaseGate, IdleReset, ResetState
<1> QED
  BY <1>1, <1>2, <1>3, <1>4, <1>5, <1>6 DEF ResetStep

LEMMA MemoryTypes == MemoryInductive /\ [NextMemory]_memoryVars => MemoryTypeOK'
<1> SUFFICES ASSUME MemoryInductive, [NextMemory]_memoryVars PROVE MemoryTypeOK'
  OBVIOUS
<1>1. CASE UNCHANGED memoryVars
  BY <1>1 DEF memoryVars, MemoryInductive, MemoryTypeOK
<1> QED
  BY <1>1, WriterTypes, ResetTypes DEF MemoryInductive, NextMemory

-----------------------------------------------------------------------------
\* Writers.

LEMMA WriterKeepsGate ==
    ASSUME MemoryInductive, NEW w \in Writers, WriterStep(w)
    PROVE  GateIsHeld' /\ TurnsCapture'
<1> USE ResetAssumption DEF MemoryInductive, MemoryTypeOK, GateIsHeld, TurnsCapture, Writers
<1>1. ASSUME NEW u \in Users, StartTurn(w, u) PROVE GateIsHeld' /\ TurnsCapture'
  BY <1>1 DEF StartTurn
<1>2. ASSUME NEW u \in Users, ReadFacts(w, u) PROVE GateIsHeld' /\ TurnsCapture'
  BY <1>2 DEF ReadFacts
<1>3. CASE CaptureLate(w)
  BY <1>3 DEF CaptureLate
<1>4. CASE EnterGate(w)
  BY <1>4 DEF EnterGate, Admits
<1>5. CASE CheckGeneration(w)
  <2>1. CASE writer' = [writer EXCEPT ![w].step = "checked"] /\ gate' = gate
    BY <1>5, <2>1 DEF CheckGeneration, WriterState
  <2>2. CASE writer' = End(w) /\ gate' = gate \ {w}
    BY <1>5, <2>2 DEF CheckGeneration, End, IdleWriter
  <2> QED
    BY <1>5, <2>1, <2>2 DEF CheckGeneration
<1>6. CASE Store(w)
  BY <1>6 DEF Store, End, IdleWriter
<1>7. CASE Mirror(w)
  BY <1>7 DEF Mirror, End, IdleWriter
<1>8. CASE WriterFails(w)
  BY <1>8 DEF WriterFails, End, IdleWriter
<1> QED
  BY <1>1, <1>2, <1>3, <1>4, <1>5, <1>6, <1>7, <1>8 DEF WriterStep

\* What a writer stores is as new as the last reset that cleared its layer: a
\* fact because no reset clears anything while its writer is inside the gate, a
\* mirrored fact because its generation is compared as it is inserted.
LEMMA WriterIsFresh ==
    ASSUME MemoryInductive, NEW w \in Writers, WriterStep(w)
    PROVE  CheckedIsFresh' /\ NothingReturns'
<1> USE ResetAssumption DEF MemoryInductive, MemoryTypeOK, Writers
<1>0. UNCHANGED <<epoch, cleared, reset>>
  BY DEF WriterStep, StartTurn, ReadFacts, CaptureLate, EnterGate, CheckGeneration, Store,
         Mirror, WriterFails
<1>1. CASE stored' = stored /\ \A x \in Turns :
             writer'[x].step = "checked" => writer'[x] = writer[x]
  <2>1. CheckedIsFresh'
    BY <1>0, <1>1 DEF CheckedIsFresh
  <2>2. NothingReturns'
    BY <1>0, <1>1 DEF NothingReturns, Untouched
  <2> QED
    BY <2>1, <2>2
<1>2. ASSUME NEW u \in Users, StartTurn(w, u) \/ ReadFacts(w, u)
      PROVE  CheckedIsFresh' /\ NothingReturns'
  BY <1>1, <1>2 DEF StartTurn, ReadFacts
<1>3. CASE CaptureLate(w) \/ EnterGate(w) \/ WriterFails(w)
  BY <1>1, <1>3 DEF CaptureLate, EnterGate, WriterFails, End, IdleWriter, WriterState
<1>4. CASE CheckGeneration(w)
  <2>1. CASE ~Current(w)
    BY <1>1, <1>4, <2>1 DEF CheckGeneration, End, IdleWriter
  <2>2. CASE Current(w)
    <3>1. writer' = [writer EXCEPT ![w].step = "checked"] /\ stored' = stored
      BY <1>4, <2>2 DEF CheckGeneration
    <3>2. ASSUME NEW x \in Writers
          PROVE  /\ writer'[x].user = writer[x].user
                 /\ writer'[x].source = writer[x].source
                 /\ x # w => writer'[x].step = writer[x].step
      <4>1. writer[x] \in WriterState /\ writer[w] \in WriterState
        OBVIOUS
      <4>2. CASE x = w
        BY <3>1, <4>1, <4>2 DEF WriterState
      <4>3. CASE x # w
        BY <3>1, <4>3
      <4> QED
        BY <4>2, <4>3
    <3>3. w \in Turns => writer[w].source >= cleared["facts"][writer[w].user]
      <4> SUFFICES ASSUME w \in Turns PROVE writer[w].source >= cleared["facts"][writer[w].user]
        OBVIOUS
      <4>1. writer[w].user \in Users /\ writer[w].source = epoch[writer[w].user]
        BY <1>4, <2>2 DEF CheckGeneration, Current, TurnsCapture
      <4>2. cleared["facts"][writer[w].user] <= epoch[writer[w].user]
        BY <4>1 DEF ClearedIsPast, Layers
      <4>3. cleared["facts"][writer[w].user] \in Nat /\ epoch[writer[w].user] \in Nat
        BY <4>1 DEF Layers
      <4> QED
        BY <4>1, <4>2, <4>3
    <3>4. ASSUME NEW x \in Turns, writer'[x].step = "checked"
          PROVE  writer'[x].source >= cleared'["facts"][writer'[x].user]
      <4>0. x \in Writers /\ cleared' = cleared
        BY <1>0
      <4>1. writer'[x].source = writer[x].source /\ writer'[x].user = writer[x].user
        BY <3>2, <4>0
      <4>2. writer[x].source >= cleared["facts"][writer[x].user]
        <5>1. CASE x = w
          BY <3>3, <5>1
        <5>2. CASE x # w
          <6>1. writer[x].step = "checked"
            <7>1. writer'[x].step = writer[x].step
              BY <3>2, <4>0, <5>2
            <7> QED
              BY <3>4, <7>1
          <6> QED
            BY <6>1 DEF CheckedIsFresh
        <5> QED
          BY <5>1, <5>2
      <4> QED
        BY <4>0, <4>1, <4>2
    <3>5. NothingReturns'
      BY <1>0, <3>1 DEF NothingReturns, Untouched
    <3> QED
      BY <3>4, <3>5 DEF CheckedIsFresh
  <2> QED
    BY <2>1, <2>2
<1>5. CASE Store(w)
  <2>1. CheckedIsFresh'
    BY <1>0, <1>5 DEF Store, End, IdleWriter, CheckedIsFresh, WriterState
  <2>2. CASE w \in Turns
    <3>1. stored' = [stored EXCEPT !["facts"] =
                       stored["facts"] \cup {<<writer[w].user, writer[w].source>>}]
      BY <1>5, <2>2 DEF Store, Put
    <3>2. writer[w].source >= cleared["facts"][writer[w].user]
      BY <1>5, <2>2 DEF Store, CheckedIsFresh
    <3> QED
      BY <1>0, <2>1, <3>1, <3>2 DEF NothingReturns, Untouched, Layers
  <2>3. CASE w \notin Turns
    <3>1. stored'["facts"] = stored["facts"] /\ stored'["shared"] = stored["shared"]
      BY <1>5, <2>3 DEF Store, Put, Layers
    <3> QED
      BY <1>0, <2>1, <3>1 DEF NothingReturns, Untouched
  <2> QED
    BY <2>2, <2>3
<1>6. CASE Mirror(w)
  <2>1. CASE ~Current(w)
    BY <1>1, <1>6, <2>1 DEF Mirror, End, IdleWriter
  <2>2. CASE Current(w)
    <3>1. stored' = [stored EXCEPT !["shared"] =
                       stored["shared"] \cup {<<writer[w].user, writer[w].source>>}]
      BY <1>6, <2>2 DEF Mirror, Put
    <3>2. w \in Turns \cup Foreign
      BY <1>6 DEF Mirror, TurnsCapture
    <3>3. writer[w].user \in Users /\ writer[w].source = epoch[writer[w].user]
      BY <1>6, <2>2, <3>2 DEF Mirror, Current, TurnsCapture
    <3>4. writer[w].source >= cleared["shared"][writer[w].user]
      <4>1. cleared["shared"][writer[w].user] <= epoch[writer[w].user]
        BY <3>3 DEF ClearedIsPast, Layers
      <4>2. cleared["shared"][writer[w].user] \in Nat /\ epoch[writer[w].user] \in Nat
        BY <3>3 DEF Layers
      <4> QED
        BY <3>3, <4>1, <4>2
    <3>5. CheckedIsFresh'
      BY <1>0, <1>6 DEF Mirror, End, IdleWriter, CheckedIsFresh
    <3> QED
      BY <1>0, <3>1, <3>4, <3>5 DEF NothingReturns, Untouched, Layers
  <2> QED
    BY <2>1, <2>2
<1> QED
  BY <1>2, <1>3, <1>4, <1>5, <1>6 DEF WriterStep

\* Writers leave the epochs, and what was cleared for them, alone.
LEMMA WriterKeepsEpochs ==
    ASSUME MemoryInductive, NEW w \in Writers, WriterStep(w)
    PROVE  ClearedIsPast'
<1>1. UNCHANGED <<epoch, cleared, reset>>
  BY DEF WriterStep, StartTurn, ReadFacts, CaptureLate, EnterGate, CheckGeneration, Store,
         Mirror, WriterFails
<1> QED
  BY <1>1 DEF MemoryInductive, ClearedIsPast

-----------------------------------------------------------------------------
\* Resets.

\* A reset enters only an empty gate, and moves no writer.
LEMMA ResetKeepsGate ==
    ASSUME MemoryInductive, NEW r \in Resets, ResetStep(r)
    PROVE  GateIsHeld' /\ TurnsCapture'
<1> USE DEF MemoryInductive, MemoryTypeOK
<1>1. UNCHANGED <<writer, gate>>
  BY DEF ResetStep, StartReset, AwaitGate, TakeGate, ClearLayer, LayerFails, ReleaseGate
<1>2. TurnsCapture'
  BY <1>1 DEF TurnsCapture
<1>3. \A q \in Resets : reset'[q].step = "holding" => reset[q].step = "holding" \/ gate = {}
  BY DEF ResetStep, StartReset, AwaitGate, TakeGate, ClearLayer, LayerFails, ReleaseGate,
         IdleReset, ResetState
<1> QED
  BY <1>1, <1>2, <1>3 DEF GateIsHeld

\* Epochs only grow, and a layer is cleared for an epoch that has begun.
LEMMA ResetKeepsEpochs ==
    ASSUME MemoryInductive, NEW r \in Resets, ResetStep(r)
    PROVE  ClearedIsPast'
<1> USE DEF MemoryInductive, MemoryTypeOK, ClearedIsPast
<1>1. ASSUME NEW us \in Owners, NEW ls \in SUBSET Layers \ {{}}, StartReset(r, us, ls)
      PROVE  ClearedIsPast'
  <2> DEFINE next == [u \in Users |-> IF u \in us THEN epoch[u] + 1 ELSE epoch[u]]
  <2>1. /\ epoch' = next /\ cleared' = cleared
        /\ reset' = [reset EXCEPT ![r] =
              [step |-> "marked", users |-> us, layers |-> ls, marks |-> next]]
    BY <1>1 DEF StartReset
  <2>2. \A u \in Users : epoch[u] \in Nat /\ next[u] \in Nat /\ epoch[u] <= next[u]
    OBVIOUS
  <2>3. \A q \in Resets : reset'[q].marks = IF q = r THEN next ELSE reset[q].marks
    BY <2>1
  <2>4. \A q \in Resets, u \in Users : reset[q].marks[u] \in Nat
    BY DEF ResetState
  <2>5. \A l \in Layers, u \in Users : cleared[l][u] \in Nat
    OBVIOUS
  <2> HIDE DEF next
  <2>6. \A l \in Layers, u \in Users : cleared'[l][u] <= epoch'[u]
    BY <2>1, <2>2, <2>5
  <2>7. ASSUME NEW q \in Resets, NEW u \in Users PROVE reset'[q].marks[u] <= epoch'[u]
    <3>1. reset[q].marks[u] <= next[u]
      BY <2>2, <2>4
    <3> QED
      BY <2>1, <2>2, <2>3, <3>1
  <2> QED
    BY <2>6, <2>7
<1>2. CASE AwaitGate(r) \/ TakeGate(r) \/ LayerFails(r)
  <2>1. UNCHANGED <<epoch, cleared>>
    BY <1>2 DEF AwaitGate, TakeGate, LayerFails
  <2>2. \A q \in Resets : reset'[q].marks = reset[q].marks
    <3>1. \A q \in Resets : reset[q] \in ResetState
      OBVIOUS
    <3>2. CASE AwaitGate(r)
      BY <3>1, <3>2 DEF AwaitGate, ResetState
    <3>3. CASE TakeGate(r)
      BY <3>1, <3>3 DEF TakeGate, ResetState
    <3>4. CASE LayerFails(r)
      BY <3>1, <3>4 DEF LayerFails, ResetState
    <3> QED
      BY <1>2, <3>2, <3>3, <3>4
  <2>3. \A l \in Layers, u \in Users : cleared'[l][u] <= epoch'[u]
    BY <2>1
  <2>4. \A q \in Resets, u \in Users : reset'[q].marks[u] <= epoch'[u]
    BY <2>1, <2>2
  <2> QED
    BY <2>3, <2>4
<1>3. CASE ReleaseGate(r)
  <2>1. UNCHANGED <<epoch, cleared>>
    BY <1>3 DEF ReleaseGate
  <2>2. \A q \in Resets, u \in Users : reset'[q].marks[u] \in {0, reset[q].marks[u]}
    BY <1>3 DEF ReleaseGate, IdleReset
  <2>3. \A l \in Layers, u \in Users : cleared'[l][u] <= epoch'[u]
    BY <2>1
  <2>4. \A q \in Resets, u \in Users : reset'[q].marks[u] <= epoch'[u]
    BY <2>1, <2>2
  <2> QED
    BY <2>3, <2>4
<1>4. CASE ClearLayer(r)
  <2> DEFINE l == NextLayer(r)
             us == reset[r].users
  <2>1. /\ epoch' = epoch
        /\ cleared' = [cleared EXCEPT ![l] =
              [u \in Users |-> IF u \in us THEN reset[r].marks[u] ELSE cleared[l][u]]]
        /\ reset' = [reset EXCEPT ![r].layers = reset[r].layers \ {l}]
    BY <1>4 DEF ClearLayer
  <2> HIDE DEF l
  <2>2. \A q \in Resets : reset'[q].marks = reset[q].marks
    BY <2>1 DEF ResetState
  <2>3. \A k \in Layers, u \in Users : cleared'[k][u] \in {cleared[k][u], reset[r].marks[u]}
    BY <2>1
  <2>4. \A k \in Layers, u \in Users : cleared'[k][u] <= epoch'[u]
    BY <2>1, <2>3
  <2>5. \A q \in Resets, u \in Users : reset'[q].marks[u] <= epoch'[u]
    BY <2>1, <2>2
  <2> QED
    BY <2>4, <2>5
<1> QED
  BY <1>1, <1>2, <1>3, <1>4 DEF ResetStep

\* A layer that is cleared keeps nothing of the users it is cleared for.
LEMMA ResetIsFresh ==
    ASSUME MemoryInductive, NEW r \in Resets, ResetStep(r)
    PROVE  CheckedIsFresh' /\ NothingReturns'
<1> USE DEF MemoryInductive, MemoryTypeOK
<1>1. CASE UNCHANGED <<stored, cleared, writer>>
  BY <1>1 DEF CheckedIsFresh, NothingReturns, Untouched
<1>2. CASE ClearLayer(r)
  <2> DEFINE l == NextLayer(r)
             us == reset[r].users
  <2>1. /\ stored' = [stored EXCEPT ![l] = {item \in stored[l] : item[1] \notin us}]
        /\ cleared' = [cleared EXCEPT ![l] =
              [u \in Users |-> IF u \in us THEN reset[r].marks[u] ELSE cleared[l][u]]]
        /\ writer' = writer
    BY <1>2 DEF ClearLayer
  <2> HIDE DEF l
  <2>2. \A x \in Writers : writer[x].step # "checked"
    BY <1>2 DEF ClearLayer, GateIsHeld
  <2>3. CheckedIsFresh'
    BY <2>1, <2>2 DEF CheckedIsFresh, Writers
  <2>4. ASSUME NEW k \in Layers, Untouched(k) PROVE Untouched(k)'
    <3> SUFFICES ASSUME NEW item \in stored'[k] PROVE item[2] >= cleared'[k][item[1]]
      BY DEF Untouched
    <3>1. item \in stored[k] /\ item[1] \in Users
      BY <2>1
    <3>2. cleared'[k][item[1]] = cleared[k][item[1]]
      BY <2>1, <3>1
    <3> QED
      BY <2>4, <3>1, <3>2 DEF Untouched
  <2> QED
    BY <2>3, <2>4 DEF NothingReturns, Layers
<1> QED
  BY <1>1, <1>2 DEF ResetStep, StartReset, AwaitGate, TakeGate, LayerFails, ReleaseGate

-----------------------------------------------------------------------------

LEMMA MemoryStep == MemoryInductive /\ [NextMemory]_memoryVars => MemoryInductive'
<1> SUFFICES ASSUME MemoryInductive, [NextMemory]_memoryVars PROVE MemoryInductive'
  OBVIOUS
<1>1. MemoryTypeOK'
  BY MemoryTypes
<1>2. CASE \E w \in Writers : WriterStep(w)
  BY <1>1, <1>2, WriterKeepsGate, WriterIsFresh, WriterKeepsEpochs DEF MemoryInductive
<1>3. CASE \E r \in Resets : ResetStep(r)
  BY <1>1, <1>3, ResetKeepsGate, ResetIsFresh, ResetKeepsEpochs DEF MemoryInductive
<1>4. CASE UNCHANGED memoryVars
  BY <1>1, <1>4 DEF memoryVars, MemoryInductive, GateIsHeld, TurnsCapture, ClearedIsPast,
                    CheckedIsFresh, NothingReturns, Untouched
<1> QED
  BY <1>2, <1>3, <1>4 DEF NextMemory

\* For any users, writers and resets: whatever the writers of facts do around
\* the gate and the generations, nothing that a reset deleted is stored again.
THEOREM SpecMemoryInductive == SpecMemory => []MemoryInductive
<1>1. InitMemory => MemoryInductive
  BY MemoryInit
<1>2. MemoryInductive /\ [NextMemory]_memoryVars => MemoryInductive'
  BY MemoryStep
<1> QED
  BY <1>1, <1>2, PTL DEF SpecMemory
=============================================================================
