SPECIFICATION FairSpec
CONSTANTS
  t1 = t1
  t2 = t2
  job1 = job1
  job2 = job2
  Loop = Loop
  Others = {t1, t2}
  Tasks = {job1, job2}
  Fds = {conn}
  WakeupFd = WakeupFd
  None = None
  WakeMax = 2
  MaxQueue = 3
INVARIANTS NoLostWakeup
PROPERTIES ExecutorSafety ExecutorSpec IoIsServed StopEndsLoop
