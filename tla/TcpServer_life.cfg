SPECIFICATION FairSpec
CONSTANTS
  NumLoops = 2
  Fds = {7, 8}
  MaxConns = 3
  Kept = {1}
  Main = Main
  None = None
INVARIANTS RemoveFindsIt MapOwnsNumber DispatchedIsAlive OpenIsWatched
PROPERTIES ClosedLeaves
