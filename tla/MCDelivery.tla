----------------------------- MODULE MCDelivery -----------------------------
(***************************************************************************)
(* Small instances of Delivery for TLC.                                    *)
(***************************************************************************)
EXTENDS Delivery, TLC

CONSTANTS a1

\* Every turn was received by the first account.
OriginA1 == [s \in TurnStreams |-> a1]

\* Workers differ in nothing but their name.
WorkerSymmetry == Permutations(Workers)
=============================================================================
