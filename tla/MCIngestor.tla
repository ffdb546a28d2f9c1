----------------------------- MODULE MCIngestor -----------------------------
(***************************************************************************)
(* Instances of Ingestor: two clients share an event, a third has no key.  *)
(***************************************************************************)
EXTENDS Ingestor, TLC

CONSTANTS c1, c2, c3, k1

SharedKey == [c \in Clients |-> IF c = c3 THEN NoKey ELSE k1]

EveryFault == [f \in FaultKinds |-> 1]

ClientSymmetry == Permutations({c1, c2})
=============================================================================
