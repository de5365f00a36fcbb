SPECIFICATION FairSpec
CONSTANTS
  N = 3
  MaxTasks = 4
INVARIANTS SleepersMissNothing GoneIsQuiet
PROPERTIES IsTaskPool TasksBegin StopReturns
