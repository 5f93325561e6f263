\* One session bound in two scopes: entered, rebound, deleted through one of them, shut down.
CONSTANTS
    Scopes = {1, 2}
    Sessions = {1}
    Clients = {c1, c2}
    Gates = {g1, g2, g3}
    MaxVersion = 4
    Enters = {"sessions", "binding", "target"}
    Nil = Nil
SPECIFICATION Spec
SYMMETRY Symmetry
INVARIANTS
    TypeOK
    GatesCounted
    BindingsSound
    QuietTeardown
PROPERTIES
    PublishedUnlocked
