-------------------------- MODULE MCCircuitBreaker --------------------------
(* Instances of CircuitBreaker for TLC.                                    *)
EXTENDS CircuitBreaker, TLC

CONSTANTS MCBad, MCGood

MCClaimsOne == [p \in Partitions |-> 4]
MCClaimsTwo == MCBad :> 4 @@ MCGood :> 1

MCWorkerSymmetry == Permutations(Workers)
MCClassSymmetry == Permutations(ErrorClasses)
MCSymmetry == MCWorkerSymmetry \cup MCClassSymmetry
=============================================================================
