CONSTANTS
  Procs = {p1, p2}
  Clients = {c1}
  Inodes = {i1}
  Verbs = {"dial", "stop", "cycle", "reap"}
  Kinds = {"ssh"}
  Ends = TRUE
  Kills = TRUE
  Wedges = FALSE
  None = None
SPECIFICATION FairSpec
PROPERTY StartsAndStopsEnd
