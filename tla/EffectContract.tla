--------------------------- MODULE EffectContract ---------------------------
(***************************************************************************)
(* What the effect ledger promises to the outside world, with no turn, no  *)
(* executor and no crash in sight: an operation, named by its idempotency  *)
(* key, is applied at most once for as long as the ledger answers for it.  *)
(* It may be reserved, applied and recorded, in that order only; an        *)
(* operator who has verified that it never happened reopens it; and once   *)
(* an operator accepts an unknown outcome, or retention forgets a business *)
(* key, the ledger answers for it no longer.                               *)
(***************************************************************************)
CONSTANT Keys       \* idempotency keys

VARIABLE phase      \* what the ledger can say of each key

Phases == {"open", "reserved", "applied", "recorded", "waived"}

Init == phase = [k \in Keys |-> "open"]

Move(k, from, to) == /\ phase[k] \in from
                     /\ phase' = [phase EXCEPT ![k] = to]

\* An intent is committed before the tool is called.
Reserve(k) == Move(k, {"open"}, "reserved")

\* The outside world carries the operation out, once per reservation.
Apply(k) == Move(k, {"reserved"}, "applied")

\* The result is published, by the executor or by an operator who saw it.
Record(k) == Move(k, {"applied"}, "recorded")

\* An operator verified that the operation did not happen.
Reopen(k) == Move(k, {"reserved"}, "open")

\* An operator accepts an unknown outcome, or retention drops the business keys
\* of a turn.
Waive(S) == /\ \A k \in S : phase[k] \in {"reserved", "applied", "recorded"}
            /\ phase' = [k \in Keys |-> IF k \in S THEN "waived" ELSE phase[k]]

Next == \/ \E k \in Keys : Reserve(k) \/ Apply(k) \/ Record(k) \/ Reopen(k)
        \/ \E S \in SUBSET Keys : Waive(S)

Spec == Init /\ [][Next]_phase
=============================================================================
