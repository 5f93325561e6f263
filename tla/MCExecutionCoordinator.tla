----------------------- MODULE MCExecutionCoordinator -----------------------
(* Instances of ExecutionCoordinator for TLC.                               *)
EXTENDS ExecutionCoordinator, TLC

\* Every input that merging distinct messages can make.
MergedInputs == {q \in UNION {[1 .. n -> Messages] : n \in 0 .. Cardinality(Messages)} :
                    Cardinality(Range(q)) = Len(q)}

\* Messages, which are also the executions, are interchangeable.
Symmetry == Permutations(Messages)
=============================================================================
