------------------------- MODULE MCExecutionManager -------------------------
(***************************************************************************)
(* Small instances of ExecutionManager: one /execute request that plans    *)
(* one, two or three jobs of one assessment.                               *)
(***************************************************************************)
EXTENDS ExecutionManager

CONSTANTS a1, r1

OneRun == [j \in Jobs |-> r1]
OneAssessment == [r \in Runs |-> a1]

(* Jobs of one run, slots and requests are interchangeable.                *)
Symmetry == Permutations(Jobs) \cup Permutations(Workers) \cup Permutations(Nets)
              \cup Permutations(Cancels) \cup Permutations(Retries)
=============================================================================
