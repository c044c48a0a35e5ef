SPECIFICATION HostSpec
CONSTANTS
    c1 = c1
    c2 = c2
    Cmds = {c1, c2}
    Runs <- RunsDef
    Names = {n1}
    Addrs = {a1}
    Shared = {}
    MaxId = 2
    Procs = {e1, e2}
    Ports = {p1, p2}
    Template = {p1}
    Kinds = {"smol", "entry", "provider", "hub"}
    Starters = {s1, s2}
    Tables = {"a", "b"}
    New = "c"
    MaxLines = 4
    Machines = {"m1"}
    Ascending <- AscendingDef
    Asks = {1, 2}
    Daemons <- DaemonsDef
    SubWait = 2
    RelayWait = 6
    AgentWait = 8
    BindTime = 1
    Lag = 1
    Spread = 0
    MaxDrops = 1
INVARIANTS
    HostTypeOK
    CreateSaysSo
    NoStrayList
    BootNotKilled
    
    NoOldCode
    
PROPERTIES
    OnlyConfirmedDeleted
    IsRegister
    
SYMMETRY Alike
CHECK_DEADLOCK FALSE
