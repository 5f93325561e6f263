-------------------------- MODULE MCTurnLifecycle --------------------------
(* Instances of TurnLifecycle for TLC.  Executions, the attempts that are   *)
(* not compactions and waits are interchangeable.                           *)
EXTENDS TurnLifecycle, TLC

\* A blank input or one message; merging makes the longer ones.
ShortInputs == {<< >>} \cup {<<m>> : m \in Messages}

Symmetry == Permutations(Executions) \cup Permutations(Attempts \ Compactions)
            \cup Permutations(Waits)
=============================================================================
