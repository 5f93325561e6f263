\* Every step that can fail fails, requests time out and the application shuts down.
CONSTANTS
    Sessions = {s1}
    Executions = {m1, m2}
    Attempts = {a1, a2, a3}
    Compactions = {}
    Waits = {}
    Messages = {m1, m2}
    Resumers = {r1}
    Stoppers = {}
    Compactors = {}
    Decisions = {confirm}
    Environment = {"error", "timeout", "shutdown", "tools"}
    Inputs <- MergedInputs
    First = s1
    Nil = Nil
    MaxInput = 6
SPECIFICATION Spec
SYMMETRY Symmetry
INVARIANTS
    CoordinatorSound
