\* Two messages, an answer to the append question and a /stop, with tools, a confirmation and timeouts.
CONSTANTS
    Sessions = {s1}
    Executions = {m1, m2}
    Attempts = {a1, a2, a3}
    Compactions = {}
    Waits = {w1}
    Messages = {m1, m2}
    Resumers = {r1}
    Stoppers = {k1}
    Compactors = {}
    Decisions = {confirm}
    Environment = {"tools", "timeout"}
    Inputs <- MergedInputs
    First = s1
    Nil = Nil
    MaxInput = 6
SPECIFICATION Spec
SYMMETRY Symmetry
INVARIANTS
    CoordinatorSound
PROPERTIES
    Implements
    HaltedLandsNothing
