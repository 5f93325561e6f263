\* Every message is settled: interrupted, stopped, timed out, joined or run.
CONSTANTS
    Sessions = {s1}
    Executions = {m1, m2}
    Attempts = {a1, a2}
    Compactions = {}
    Waits = {w1}
    Messages = {m1, m2}
    Resumers = {r1}
    Stoppers = {k1}
    Compactors = {}
    Decisions = {confirm}
    Environment = {"tools"}
    Inputs <- MergedInputs
    First = s1
    Nil = Nil
    MaxInput = 6
SPECIFICATION FairSpec
PROPERTIES
    EveryInputSettles
    StoppedTurnEnds
