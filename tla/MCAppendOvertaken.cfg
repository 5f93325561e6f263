\* An append answered with y while the old Run still carries queued input.
CONSTANTS
    Sessions = {s1}
    Executions = {m1, m2, m3}
    Attempts = {a1, a2, a3}
    Compactions = {}
    Waits = {}
    Messages = {m1, m2, m3}
    Resumers = {r1}
    Stoppers = {}
    Compactors = {}
    Decisions = {confirm}
    Environment = {"tools"}
    Inputs <- MergedInputs
    First = s1
    Nil = Nil
    MaxInput = 6
SPECIFICATION Spec
INVARIANTS
    AppendedInputKept
