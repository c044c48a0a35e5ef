CONSTANTS
  Guests = {1}
  Prefs = {1}
  Bump = 2
  MaxPort = 2
  ForeignPorts = {1}
  Conns = {}
  Procs = {p1, p2}
  Slots = {s1, s2}
  Transports = {t1, t2}
  Callers = {"oneshot"}
  Kind = "smol"
  MaxEphemeral = 1
  Sup = Sup
  Conf = Conf
  TTL = TTL
  NoSlot = NoSlot
  NoTr = NoTr
  NoReq = NoReq
  NoJob = NoJob
SPECIFICATION Spec
SYMMETRY Symmetry
INVARIANTS TypeOK OneBinder BoundIsCarried NoLeakedListener
PROPERTY IsForwardTable
