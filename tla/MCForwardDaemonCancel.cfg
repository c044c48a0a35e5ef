CONSTANTS
  Guests = {1}
  Prefs = {1}
  Bump = 1
  MaxPort = 1
  ForeignPorts = {}
  Conns = {}
  Procs = {p1, p2}
  Slots = {s1, s2}
  Transports = {t1, t2}
  Callers = {"oneshot"}
  Kind = "ssh"
  MaxEphemeral = 1
  Sup = Sup
  Conf = Conf
  TTL = TTL
  NoSlot = NoSlot
  NoTr = NoTr
  NoReq = NoReq
  NoJob = NoJob
SPECIFICATION Spec
SYMMETRY Symmetry
INVARIANT BoundIsCarried
