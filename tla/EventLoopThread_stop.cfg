SPECIFICATION FairSpec
CONSTANTS
  job1 = job1
  Owner = Owner
  Loop = Loop
  Tasks = {job1}
  WakeupFd = WakeupFd
  None = None
  WakeMax = 2
  MaxQueue = 2
PROPERTIES StopEndsThread
