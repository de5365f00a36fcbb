SPECIFICATION FairSpec
CONSTANTS
  c1 = c1
  c2 = c2
  c3 = c3
  Clients = {c1, c2, c3}
  Fds = {5, 6}
  MaxStarts = 2
  None = None
INVARIANTS OwnerCloses InterestIsKept ToldOnce
PROPERTIES AttemptEnds
