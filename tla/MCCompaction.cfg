\* Compaction before a turn and by command, stopped or failing, against messages of the old session.
CONSTANTS
    Sessions = {s1, s2}
    Executions = {m1, m2}
    Attempts = {a1, c1, c2}
    Compactions = {c1, c2}
    Waits = {}
    Messages = {m1, m2}
    Resumers = {}
    Stoppers = {k2}
    Compactors = {k1}
    Decisions = {confirm}
    Environment = {"error", "compact"}
    Inputs <- MergedInputs
    First = s1
    Nil = Nil
    MaxInput = 6
SPECIFICATION Spec
SYMMETRY Symmetry
INVARIANTS
    RunsInCurrentSession
PROPERTIES
    HaltedLandsNothing
