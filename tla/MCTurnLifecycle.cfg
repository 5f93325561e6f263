\* One session: every order of attempts, appends, stops, compaction and two confirmations.
CONSTANTS
    Sessions = {s1}
    Executions = {e1, e2}
    Attempts = {a1, a2, c1}
    Compactions = {c1}
    Waits = {w1, w2}
    Messages = {m1}
    Decisions = {confirm}
    Nil = Nil
    Inputs <- ShortInputs
    MaxInput = 2
SPECIFICATION Spec
INVARIANTS
    TypeOK
    TurnOwned
    ChannelsCloseOnce
    ConfirmationsAnswered
PROPERTIES
    StopIsFinal
    ReservationKeepsExecution
SYMMETRY Symmetry
