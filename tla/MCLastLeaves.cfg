SPECIFICATION SubsSpec
CONSTANTS
    Clients = {c1}
    MaxConns = 1
    MaxTurns = 2
    MaxLines = 2
INVARIANTS
    LastLeaves
CHECK_DEADLOCK FALSE
