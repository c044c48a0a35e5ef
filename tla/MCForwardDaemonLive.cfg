CONSTANTS
  Guests = {1}
  Prefs = {1}
  Bump = 1
  MaxPort = 1
  ForeignPorts = {1}
  Conns = {c1}
  Procs = {p1}
  Slots = {s1}
  Transports = {t1}
  Callers = {"bridge"}
  Kind = "smol"
  MaxEphemeral = 1
  Sup = Sup
  Conf = Conf
  TTL = TTL
  NoSlot = NoSlot
  NoTr = NoTr
  NoReq = NoReq
  NoJob = NoJob
SPECIFICATION FairSpec
PROPERTIES StopExits AddAnswered PendingComesUp LapsedGoes
