---------------------------- MODULE MemoryReset ----------------------------
(***************************************************************************)
(* Scoped memory reset against the writers that fill memory in the         *)
(* background.  A reset advances a generation in swarm.db, takes the gate  *)
(* of its process (many writers or one reset) and deletes the layers; a    *)
(* writer writes only while the generation it captured is still current.   *)
(*                                                                         *)
(* Writers are turns of this agent (facts, then the shared mirror), turns  *)
(* of other agents (the shared mirror only, from another process and so    *)
(* without this gate), and the nightly consolidation, which extracts a     *)
(* graph from facts it read.  What a writer stores carries the epoch in    *)
(* which its source was said or read, the number of resets of that user    *)
(* so far: history that only the properties read.                          *)
(***************************************************************************)
EXTENDS Naturals, FiniteSets

CONSTANTS Users,      \* whose memory it is
          Turns,      \* background storage of this agent's turns
          Foreign,    \* storage of other agents' turns
          Sleepers,   \* runs of the nightly consolidation
          Resets,     \* resets in this process
          Nobody,     \* no user
          MaxEpoch    \* bound on the resets of one user

ASSUME ResetAssumption ==
    /\ Nobody \notin Users /\ MaxEpoch \in Nat
    /\ Turns \cap Sleepers = {} /\ Foreign \cap Sleepers = {} /\ Turns \cap Foreign = {}

Layers == {"facts", "shared", "graph"}
Writers == Turns \cup Foreign \cup Sleepers

VARIABLES
    epoch,    \* memory_generations: resets of each user so far
    stored,   \* per layer: <<user, epoch of the source>> of what it holds
    writer,   \* each writer: step, user, epoch of its source, captured generation
    gate,     \* the writers inside the gate of this process
    reset,    \* each reset: step, users, layers wanted and layers still to do
    cleared   \* history: per layer and user, the last epoch a reset cleared

memoryVars == <<epoch, stored, writer, gate, reset, cleared>>

Steps == {"idle", "read", "captured", "entered", "checked", "mirroring"}
WriterState == [step: Steps, user: Users \cup {Nobody}, source: Nat, gen: Nat]
ResetState == [step: {"idle", "marked", "waiting", "holding"}, users: SUBSET Users,
               layers: SUBSET Layers, marks: [Users -> Nat]]

MemoryTypeOK ==
    /\ epoch \in [Users -> Nat]
    /\ stored \in [Layers -> SUBSET (Users \X Nat)]
    /\ writer \in [Writers -> WriterState]
    /\ gate \subseteq Writers
    /\ reset \in [Resets -> ResetState]
    /\ cleared \in [Layers -> [Users -> Nat]]

IdleWriter == [step |-> "idle", user |-> Nobody, source |-> 0, gen |-> 0]
IdleReset == [step |-> "idle", users |-> {}, layers |-> {}, marks |-> [u \in Users |-> 0]]

InitMemory ==
    /\ epoch = [u \in Users |-> 0]
    /\ stored = [l \in Layers |-> {}]
    /\ writer = [w \in Writers |-> IdleWriter]
    /\ gate = {}
    /\ reset = [r \in Resets |-> IdleReset]
    /\ cleared = [l \in Layers |-> [u \in Users |-> 0]]

-----------------------------------------------------------------------------
\* Writers.

End(w) == [writer EXCEPT ![w] = IdleWriter]
Current(w) == writer[w].gen = epoch[writer[w].user]
Put(layer, w) ==
    [stored EXCEPT ![layer] = stored[layer] \cup {<<writer[w].user, writer[w].source>>}]

\* A turn captures the generation before its model runs.  Of another agent's
\* turn only the shared mirror matters here.
StartTurn(w, u) ==
    /\ w \in Turns \cup Foreign /\ writer[w].step = "idle"
    /\ writer' = [writer EXCEPT ![w] =
         [step |-> IF w \in Turns THEN "captured" ELSE "mirroring",
          user |-> u, source |-> epoch[u], gen |-> epoch[u]]]
    /\ UNCHANGED <<epoch, stored, gate, reset, cleared>>

\* The consolidation reads the recent facts of all users first ...
ReadFacts(w, u) ==
    /\ w \in Sleepers /\ writer[w].step = "idle"
    /\ \E item \in stored["facts"] : item[1] = u
    /\ writer' = [writer EXCEPT ![w] =
         [step |-> "read", user |-> u, source |-> epoch[u], gen |-> 0]]
    /\ UNCHANGED <<epoch, stored, gate, reset, cleared>>

\* ... and captures a user's generation when it comes to that user's graph,
\* after the models of the users before it have answered.
CaptureLate(w) ==
    /\ writer[w].step = "read"
    /\ writer' = [writer EXCEPT ![w].step = "captured",
                                ![w].gen = epoch[writer[w].user]]
    /\ UNCHANGED <<epoch, stored, gate, reset, cleared>>

\* Mutation: writers pass a reset that waits.
AdmitsUnlessHeld == \A r \in Resets : reset[r].step # "holding"

\* _WriterGate.writing: a writer waits for a reset that holds the gate or that
\* waits for it.
Admits == \A r \in Resets : reset[r].step \notin {"waiting", "holding"}

EnterGate(w) ==
    /\ writer[w].step = "captured"
    /\ Admits
    /\ gate' = gate \cup {w}
    /\ writer' = [writer EXCEPT ![w].step = "entered"]
    /\ UNCHANGED <<epoch, stored, reset, cleared>>

\* memory_write compares the generations inside the gate; if a reset has
\* intervened it raises, and nothing is stored in any layer.
CheckGeneration(w) ==
    /\ writer[w].step = "entered"
    /\ IF Current(w)
       THEN writer' = [writer EXCEPT ![w].step = "checked"] /\ gate' = gate
       ELSE writer' = End(w) /\ gate' = gate \ {w}
    /\ UNCHANGED <<epoch, stored, reset, cleared>>

\* A turn stores its facts and goes on to mirror them; the consolidation
\* stores the entities and is done.
Store(w) ==
    /\ writer[w].step = "checked"
    /\ stored' = Put(IF w \in Turns THEN "facts" ELSE "graph", w)
    /\ gate' = gate \ {w}
    /\ writer' = IF w \in Turns THEN [writer EXCEPT ![w].step = "mirroring"] ELSE End(w)
    /\ UNCHANGED <<epoch, reset, cleared>>

\* add_shared_fact compares the generations in the transaction of its insert.
Mirror(w) ==
    /\ writer[w].step = "mirroring"
    /\ stored' = IF Current(w) THEN Put("shared", w) ELSE stored
    /\ writer' = End(w)
    /\ UNCHANGED <<epoch, gate, reset, cleared>>

\* A model or a store fails, or there is nothing to store: the gate is left.
WriterFails(w) ==
    /\ writer[w].step # "idle"
    /\ writer' = End(w)
    /\ gate' = gate \ {w}
    /\ UNCHANGED <<epoch, stored, reset, cleared>>

-----------------------------------------------------------------------------
\* Resets.

\* advance_memory_generation, before anything else: for one user or for all.
StartReset(r, us, ls) ==
    /\ reset[r].step = "idle"
    /\ \A u \in us : epoch[u] < MaxEpoch
    /\ LET next == [u \in Users |-> IF u \in us THEN epoch[u] + 1 ELSE epoch[u]]
       IN /\ epoch' = next
          /\ reset' = [reset EXCEPT ![r] =
               [step |-> "marked", users |-> us, layers |-> ls, marks |-> next]]
    /\ UNCHANGED <<stored, writer, gate, cleared>>

AwaitGate(r) ==
    /\ reset[r].step = "marked"
    /\ reset' = [reset EXCEPT ![r].step = "waiting"]
    /\ UNCHANGED <<epoch, stored, writer, gate, cleared>>

\* Mutation: a reset does not wait for the writers inside.
TakeGateAtOnce(r) ==
    /\ reset[r].step = "waiting"
    /\ \A q \in Resets : reset[q].step # "holding"
    /\ reset' = [reset EXCEPT ![r].step = "holding"]
    /\ UNCHANGED <<epoch, stored, writer, gate, cleared>>

\* _WriterGate.resetting
TakeGate(r) ==
    /\ reset[r].step = "waiting"
    /\ gate = {}
    /\ \A q \in Resets : reset[q].step # "holding"
    /\ reset' = [reset EXCEPT ![r].step = "holding"]
    /\ UNCHANGED <<epoch, stored, writer, gate, cleared>>

\* The layers are deleted in this order.
Order == [facts |-> 1, shared |-> 2, graph |-> 3]
NextLayer(r) ==
    CHOOSE l \in reset[r].layers : \A k \in reset[r].layers : Order[l] <= Order[k]

ClearLayer(r) ==
    /\ reset[r].step = "holding" /\ reset[r].layers # {}
    /\ LET l == NextLayer(r)
           us == reset[r].users
       IN /\ stored' = [stored EXCEPT ![l] = {item \in stored[l] : item[1] \notin us}]
          /\ cleared' = [cleared EXCEPT ![l] =
               [u \in Users |-> IF u \in us THEN reset[r].marks[u] ELSE cleared[l][u]]]
          /\ reset' = [reset EXCEPT ![r].layers = reset[r].layers \ {l}]
    /\ UNCHANGED <<epoch, writer, gate>>

\* A layer that fails is reported, and the next one is attempted.
LayerFails(r) ==
    /\ reset[r].step = "holding" /\ reset[r].layers # {}
    /\ reset' = [reset EXCEPT ![r].layers = reset[r].layers \ {NextLayer(r)}]
    /\ UNCHANGED <<epoch, stored, writer, gate, cleared>>

ReleaseGate(r) ==
    /\ reset[r].step = "holding" /\ reset[r].layers = {}
    /\ reset' = [reset EXCEPT ![r] = IdleReset]
    /\ UNCHANGED <<epoch, stored, writer, gate, cleared>>

WriterStep(w) ==
    \/ \E u \in Users : StartTurn(w, u) \/ ReadFacts(w, u)
    \/ CaptureLate(w) \/ EnterGate(w) \/ CheckGeneration(w)
    \/ Store(w) \/ Mirror(w) \/ WriterFails(w)

Owners == {{u} : u \in Users} \cup {Users}
ResetStep(r) ==
    \/ \E us \in Owners, ls \in SUBSET Layers \ {{}} : StartReset(r, us, ls)
    \/ AwaitGate(r) \/ TakeGate(r) \/ ClearLayer(r) \/ LayerFails(r) \/ ReleaseGate(r)

NextMemory == (\E w \in Writers : WriterStep(w)) \/ (\E r \in Resets : ResetStep(r))

SpecMemory == InitMemory /\ [][NextMemory]_memoryVars

\* What the liveness of a reset rests on: threads inside the gate go on, and a
\* reset that may take the gate or holds it goes on.
InsideStep(w) == CheckGeneration(w) \/ Store(w)
HolderStep(r) == TakeGate(r) \/ ClearLayer(r) \/ LayerFails(r) \/ ReleaseGate(r)

-----------------------------------------------------------------------------

\* What a reset deleted does not come back: a layer holds nothing of a user
\* whose source is older than the last reset that cleared the layer, although
\* turns that began before it store their facts after it.
Untouched(l) == \A item \in stored[l] : item[2] >= cleared[l][item[1]]
NothingReturns == Untouched("facts") /\ Untouched("shared")

\* The comment in sleep_compute.py: facts read before a reset must not rebuild
\* the graph the reset removed.
GraphStaysReset == Untouched("graph")

\* A reset does not wait for the gate forever, however many writers come.
ResetProceeds == \A r \in Resets : []<>(reset[r].step # "waiting")
============================================================================
