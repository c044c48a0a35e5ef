SPECIFICATION WireSpec
CONSTANTS
    Clients = {c1}
    MaxConns = 2
    MaxTurns = 4
    MaxLines = 2
    Runners = {r1, r2}
    Passwords = {FALSE}
    Drops = FALSE
    Children = {"x", "y"}
    Trees <- TreesDef
    Ways <- WaysDef
    MaxTries = 3
    MaxStops = 2
    Boxes = {"near", "jump"}
    Proxied = {"jump"}
    Patience <- PatienceDef
    Rounds = {"round"}
    Slots = 1
    Deadline = 2
    DialBound = 2
    MaxNow = 2
    MaxEvents = 2
INVARIANTS
    WireTypeOK
    EventsReach
    
    
    NoneOutlives
    OnlyEstablished
SYMMETRY Alike
CHECK_DEADLOCK FALSE
