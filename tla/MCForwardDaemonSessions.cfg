CONSTANTS
  Guests = {1, 2}
  Prefs = {1}
  Bump = 1
  MaxPort = 1
  ForeignPorts = {}
  Conns = {c1}
  Procs = {p1}
  Slots = {s1, s2}
  Transports = {t1, t2}
  Callers = {"session"}
  Kind = "ssh"
  MaxEphemeral = 1
  Sup = Sup
  Conf = Conf
  TTL = TTL
  NoSlot = NoSlot
  NoTr = NoTr
  NoReq = NoReq
  NoJob = NoJob
SPECIFICATION Spec
SYMMETRY Symmetry
INVARIANTS OwnersRegistered RelayNeverPending

