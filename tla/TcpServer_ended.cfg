SPECIFICATION FairSpec
CONSTANTS
  NumLoops = 1
  Fds = {7, 8}
  MaxConns = 2
  Kept = {1}
  Main = Main
  None = None
PROPERTIES EndedLeaves
