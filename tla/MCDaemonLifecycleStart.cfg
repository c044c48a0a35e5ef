CONSTANTS
  Procs = {p1, p2, p3}
  Clients = {c1}
  Inodes = {i1, i2}
  Verbs = {"dial", "reap", "delete"}
  Kinds = {"smol", "ssh"}
  Ends = TRUE
  Kills = TRUE
  Wedges = FALSE
  None = None
SPECIFICATION Spec
SYMMETRY Symmetry
 
PROPERTIES OnlyStaleCleared 
