\* A message queued for the tool phase while the turn completes.
CONSTANTS
    Sessions = {s1}
    Executions = {m1, m2}
    Attempts = {a1, a2, a3}
    Compactions = {}
    Waits = {}
    Messages = {m1, m2}
    Resumers = {}
    Stoppers = {}
    Compactors = {}
    Decisions = {confirm}
    Environment = {"tools"}
    Inputs <- MergedInputs
    First = s1
    Nil = Nil
    MaxInput = 6
SPECIFICATION Spec
INVARIANTS
    QueuedInputKept
