\* Two goroutines want scopes and several sessions, again and again, until the manager is shut down.
CONSTANTS
    Scopes = {1}
    Sessions = {1, 2}
    Clients = {c1, c2}
    Gates = {g1, g2, g3}
    MaxVersion = 0
    Enters = {"scope", "sessions"}
    Nil = Nil
SPECIFICATION FairSpec
INVARIANTS
    MutualExclusion
PROPERTIES
    Implements
    EveryEntryReturns
    CloseCompletes
