----------------------- MODULE EventLoopThreadProofs ------------------------
(***************************************************************************)
(* Proofs about EventLoopThread, for any closures and counter sizes.       *)
(***************************************************************************)
EXTENDS EventLoopThreadProps, TLAPS

(* The part of TypeOK that is not the EventLoop's, count apart, which is a  *)
(* consequence of Counted below.                                            *)
StartTypeOK ==
  /\ user \in {"thread", "loopthread", "pool"}
  /\ opc \in {"new", "latch", "test", "asleep", "lock", "look", "wait", "up",
              "joined", "gone"}
  /\ tpc \in {"none", "failed", "created", "latch", "count", "counted", "func",
              "build", "lock", "publish", "unlock", "loop", "done"}
  /\ mutex \in [{"latch", "loop"} -> {None, Owner, Loop}]
  /\ tid \in BOOLEAN
  /\ loop \in BOOLEAN
  /\ alive \in BOOLEAN
  /\ stopped \in BOOLEAN
  /\ fault \in {"none", "null", "tid", "join", "freed", "dangling"}

(* The new thread's way: what it has done by the time it is somewhere. *)
Counted ==
  count = IF tpc \in {"none", "failed", "created", "latch", "count"} THEN 1 ELSE 0

Stored == tpc \notin {"none", "failed", "created"} => tid

Published ==
  /\ alive <=> tpc \in {"lock", "publish", "unlock", "loop"}
  /\ loop => tpc \in {"unlock", "loop", "done"}

OwnFunction ==
  /\ user = "thread" =>
       /\ tpc \in {"none", "failed", "created", "latch", "count", "counted",
                   "func", "done"}
       /\ opc \notin {"lock", "look", "wait"}
  /\ user = "loopthread" =>
       /\ tpc # "func" /\ opc # "joined"
       /\ tpc = "done" => stopped
  /\ user = "pool" => opc = "new"

(* The two mutexes. *)
Holders ==
  /\ opc = "test" => mutex["latch"] = Owner
  /\ opc = "look" => mutex["loop"] = Owner
  /\ tpc \in {"count", "counted"} => mutex["latch"] = Loop
  /\ tpc \in {"publish", "unlock"} => mutex["loop"] = Loop

(* What the owner knows of the new thread: behind the latch's wait it has   *)
(* left the latch, and behind startLoop's it has left the EventLoopThread's *)
(* mutex too.                                                               *)
Behind ==
  /\ opc = "new" => tpc = "none"
  /\ opc \in {"lock", "look", "wait", "up", "joined"} =>
       tpc \notin {"none", "created", "latch", "count", "counted"}
  /\ user = "thread" /\ opc = "gone" => tpc \in {"none", "failed", "func", "done"}
  /\ HasLoop => loop /\ tpc \in {"loop", "done"}

(* A loop that is not running, and has been entered, was stopped. *)
StopCalled ==
  /\ lpc # "init" /\ ~running => stopped
  /\ lpc = "exit" => stopped

IInv ==
  /\ StartTypeOK
  /\ Counted /\ Stored /\ Published /\ OwnFunction /\ Holders /\ Behind
  /\ StopCalled
  /\ HandshakeHolds

-----------------------------------------------------------------------------
(* The EventLoop's own steps keep the EventLoop's types. *)
LEMMA LoopTypeStep ==
  ASSUME EL!TypeOK,
         \/ EL!Enter \/ EL!LoopStep \/ EL!Timeout \/ EL!Return
         \/ EL!wakeup(Loop) \/ EL!wakeup(Owner)
         \/ EL!stop(Loop) \/ EL!stop(Owner)
         \/ \E task \in Tasks : EL!queueInloop(Loop, task) \/ EL!queueInloop(Owner, task)
         \/ UNCHANGED loopVars
  PROVE  EL!TypeOK'
<1> USE LoopThreadAssumption DEF EL!TypeOK, EL!Threads
<1>1. ASSUME NEW t \in EL!Threads, NEW task \in Tasks, EL!queueInloop(t, task)
      PROVE  EL!TypeOK'
  BY <1>1 DEF EL!queueInloop
<1>2. ASSUME NEW t \in EL!Threads, EL!stop(t) PROVE EL!TypeOK'
  BY <1>2 DEF EL!stop
<1>3. ASSUME NEW t \in EL!Threads, EL!wakeup(t) PROVE EL!TypeOK'
  BY <1>3 DEF EL!wakeup
<1>4. CASE EL!Enter
  BY <1>4 DEF EL!Enter
<1>5. CASE EL!While
  BY <1>5 DEF EL!While
<1>6. CASE EL!Wait
  BY <1>6 DEF EL!Wait, EL!Reported
<1>7. CASE EL!handleRead
  BY <1>7 DEF EL!handleRead
<1>8. ASSUME NEW fd \in {}, EL!handleEvent(fd) PROVE EL!TypeOK'
  OBVIOUS
<1>9. CASE EL!handleTask
  BY <1>9 DEF EL!handleTask
<1>10. CASE EL!RunTask
  BY <1>10 DEF EL!RunTask
<1>11. CASE EL!EndTasks
  BY <1>11 DEF EL!EndTasks
<1>12. CASE EL!Timeout
  BY <1>12 DEF EL!Timeout
<1>13. CASE EL!Return
  BY <1>13 DEF EL!Return
<1>14. CASE UNCHANGED loopVars
  BY <1>14 DEF loopVars
<1>15. QED
  BY <1>1, <1>2, <1>3, <1>4, <1>5, <1>6, <1>7, <1>8, <1>9, <1>10, <1>11, <1>12,
     <1>13, <1>14 DEF EL!LoopStep

(* Every step is one of those for the EventLoop. *)
LEMMA LoopIsTyped ==
  ASSUME EL!TypeOK, [Next]_vars
  PROVE  EL!TypeOK'
<1>1. CASE OwnerStep \/ start \/ spuriousWakeup \/ join \/ destroy \/ poolStart \/ Over
  BY <1>1, LoopTypeStep DEF OwnerStep, latchLock, latchWait, loopLock, loopWait,
     start, spuriousWakeup, join, destroy, poolStart, Over, vars, loopVars
<1>2. CASE ThreadStep
  BY <1>2, LoopTypeStep DEF ThreadStep, runInThread, countLock, countDown,
     countUnlock, func, build, threadLock, publish, threadUnlock, useDestroyed,
     runLoop, leave
<1>3. CASE wakeup
  BY <1>3, LoopTypeStep DEF wakeup
<1>4. CASE loopMay \/ callLoop
  BY <1>4, LoopTypeStep DEF loopMay, callLoop
<1>5. CASE UNCHANGED vars
  BY <1>5, LoopTypeStep DEF vars
<1>6. QED
  BY <1>1, <1>2, <1>3, <1>4, <1>5 DEF Next

-----------------------------------------------------------------------------
(* The steps that leave the EventLoop alone. *)
LEMMA OwnerStepInv ==
  ASSUME IInv, OwnerStep \/ start \/ spuriousWakeup \/ join \/ destroy \/ poolStart
  PROVE  IInv'
<1> USE LoopThreadAssumption DEF IInv, StartTypeOK, Counted, Stored, Published,
        OwnFunction, Holders, Behind, StopCalled, HandshakeHolds, HasLoop, Started, Lock, Unlock, loopVars
<1>1. CASE latchLock
  BY <1>1 DEF latchLock
<1>2. CASE latchWait
  BY <1>2 DEF latchWait
<1>3. CASE loopLock
  BY <1>3 DEF loopLock
<1>4. CASE loopWait
  BY <1>4 DEF loopWait
<1>5. CASE start
  BY <1>5 DEF start
<1>6. CASE spuriousWakeup
  BY <1>6 DEF spuriousWakeup
<1>7. CASE join
  BY <1>7 DEF join
<1>8. CASE destroy
  BY <1>8 DEF destroy
<1>9. CASE poolStart
  BY <1>9 DEF poolStart
<1>10. QED
  BY <1>1, <1>2, <1>3, <1>4, <1>5, <1>6, <1>7, <1>8, <1>9 DEF OwnerStep

LEMMA ThreadStepInv ==
  ASSUME IInv,
         \/ runInThread \/ countLock \/ countDown \/ countUnlock \/ func
         \/ build \/ threadLock \/ publish \/ threadUnlock \/ useDestroyed
         \/ leave
  PROVE  IInv'
<1> USE LoopThreadAssumption DEF IInv, StartTypeOK, Counted, Stored, Published,
        OwnFunction, Holders, Behind, StopCalled, HandshakeHolds, HasLoop, Lock, Unlock, Notify, loopVars
<1>1. CASE runInThread
  BY <1>1 DEF runInThread
<1>2. CASE countLock
  BY <1>2 DEF countLock
<1>3. CASE countDown
  BY <1>3 DEF countDown
<1>4. CASE countUnlock
  BY <1>4 DEF countUnlock
<1>5. CASE func
  BY <1>5 DEF func
<1>6. CASE build
  BY <1>6 DEF build
<1>7. CASE threadLock
  BY <1>7 DEF threadLock
<1>8. CASE publish
  BY <1>8 DEF publish
<1>9. CASE threadUnlock
  BY <1>9 DEF threadUnlock
<1>10. CASE useDestroyed
  BY <1>10 DEF useDestroyed
<1>11. CASE leave
  BY <1>11 DEF leave
<1>12. QED
  BY <1>1, <1>2, <1>3, <1>4, <1>5, <1>6, <1>7, <1>8, <1>9, <1>10, <1>11

(* The steps of the EventLoop: of these only its way out and stop() matter  *)
(* to IInv.                                                                 *)
LEMMA LoopStepInv ==
  ASSUME IInv, EL!TypeOK, runLoop \/ loopMay \/ callLoop \/ wakeup
  PROVE  IInv'
<1> USE LoopThreadAssumption DEF IInv, StartTypeOK, Counted, Stored, Published,
        OwnFunction, Holders, Behind, HandshakeHolds, HasLoop,
        startVars
<1>1. CASE runLoop
  <2>1. StopCalled'
    <3>1. CASE EL!Enter
      BY <1>1, <3>1 DEF runLoop, EL!Enter, StopCalled
    <3>2. CASE EL!While
      BY <1>1, <3>2 DEF runLoop, EL!While, EL!LoopAt, StopCalled
    <3>3. CASE EL!Wait \/ EL!handleRead \/ EL!handleTask \/ EL!RunTask \/ EL!EndTasks
      BY <1>1, <3>3 DEF runLoop, EL!Wait, EL!handleRead, EL!handleTask, EL!RunTask,
         EL!EndTasks, EL!LoopAt, StopCalled
    <3>4. CASE EL!Return \/ EL!wakeup(Loop)
      BY <1>1, <3>4 DEF runLoop, EL!Return, EL!wakeup, EL!LoopAt, StopCalled
    <3>5. QED
      BY <1>1, <3>1, <3>2, <3>3, <3>4 DEF runLoop, EL!LoopStep
  <2>2. QED
    BY <1>1, <2>1 DEF runLoop
<1>2. CASE loopMay \/ callLoop
  <2>1. stopped' \in BOOLEAN /\ (stopped => stopped')
    <3>1. \/ UNCHANGED stopped
          \/ stopped' = TRUE
      BY <1>2 DEF loopMay, callLoop
    <3>2. QED
      BY <3>1
  <2>2. StopCalled'
    BY <1>2 DEF loopMay, callLoop, EL!Timeout, EL!LoopAt, EL!queueInloop, EL!stop,
       StopCalled
  <2>3. QED
    BY <1>2, <2>1, <2>2 DEF loopMay, callLoop
<1>3. CASE wakeup
  BY <1>3 DEF wakeup, EL!wakeup, StopCalled, loopVars
<1>4. QED
  BY <1>1, <1>2, <1>3

(* The inductive invariant, and the EventLoop's types. *)
THEOREM InductiveInvariant == Spec => [](IInv /\ EL!TypeOK)
<1>1. Init => IInv /\ EL!TypeOK
  <2> SUFFICES ASSUME Init PROVE IInv /\ EL!TypeOK
    OBVIOUS
  <2>1. IInv
    BY LoopThreadAssumption DEF Init, EL!Init, IInv, StartTypeOK, Counted, Stored,
       Published, OwnFunction, Holders, Behind, StopCalled,
       HandshakeHolds, HasLoop
  <2>2. [t \in EL!Threads |-> "idle"] \in [EL!Threads -> {"idle", "wake"}]
    OBVIOUS
  <2>3. <<>> \in Seq(Tasks) /\ 0 \in 0..WakeMax
    BY LoopThreadAssumption
  <2>4. EL!TypeOK
    BY <2>2, <2>3 DEF Init, EL!Init, EL!TypeOK
  <2>5. QED
    BY <2>1, <2>4
<1>2. IInv /\ EL!TypeOK /\ [Next]_vars => IInv' /\ EL!TypeOK'
  <2> SUFFICES ASSUME IInv, EL!TypeOK, [Next]_vars PROVE IInv' /\ EL!TypeOK'
    OBVIOUS
  <2>1. EL!TypeOK'
    BY LoopIsTyped
  <2>2. CASE OwnerStep \/ start \/ spuriousWakeup \/ join \/ destroy \/ poolStart
    BY <2>1, <2>2, OwnerStepInv
  <2>3. CASE ThreadStep
    BY <2>1, <2>3, ThreadStepInv, LoopStepInv DEF ThreadStep
  <2>4. CASE wakeup \/ loopMay \/ callLoop
    BY <2>1, <2>4, LoopStepInv
  <2>5. CASE UNCHANGED vars
    BY <2>1, <2>5 DEF vars, loopVars, startVars, IInv, StartTypeOK, Counted,
       Stored, Published, OwnFunction, Holders, Behind, StopCalled,
       HandshakeHolds, HasLoop
  <2>6. QED
    BY <2>2, <2>3, <2>4, <2>5 DEF Next, Over
<1>3. QED
  BY <1>1, <1>2, PTL DEF Spec

(* Every variable keeps its type: the latch is counted down once. *)
THEOREM TypeCorrect == Spec => []TypeOK
<1>1. IInv /\ EL!TypeOK => TypeOK
  <2> SUFFICES ASSUME IInv, EL!TypeOK PROVE TypeOK
    OBVIOUS
  <2>1. count \in 0..1
    BY DEF IInv, Counted
  <2>2. QED
    BY <2>1 DEF IInv, StartTypeOK, TypeOK
<1>2. QED
  BY <1>1, InductiveInvariant, PTL

(* No use of the latch or of the EventLoopThread comes after its owner has  *)
(* destroyed it, in any order of the two threads, and the assertion of      *)
(* Thread::start never fails.                                               *)
THEOREM HandshakeAlwaysHolds == Spec => []HandshakeHolds
<1>1. IInv => HandshakeHolds
  BY DEF IInv
<1>2. QED
  BY <1>1, InductiveInvariant, PTL

(* The pointer startLoop returns is good until stop() is called. *)
THEOREM ReturnedLoopIsGood == Spec => []ReturnedLoopIsBuilt
<1>1. IInv => ReturnedLoopIsBuilt
  BY DEF IInv, ReturnedLoopIsBuilt, Behind, Published, OwnFunction, HasLoop
<1>2. QED
  BY <1>1, InductiveInvariant, PTL

-----------------------------------------------------------------------------
(* The loop that a thread builds is an EventLoop whose only other thread is *)
(* the owner: what the owner and the new thread do to it are calls and      *)
(* steps of EventLoop, at the places where EventLoop lets them be made, so  *)
(* that what is proved of EventLoop holds of it.                            *)
LEMMA LoopStepMaps == [Next]_vars => [EL!Next]_(EL!vars)
<1> SUFFICES ASSUME [Next]_vars PROVE EL!Next \/ UNCHANGED EL!vars
  OBVIOUS
<1> USE DEF EL!vars, loopVars
<1>1. CASE runLoop \/ loopMay
  BY <1>1 DEF runLoop, loopMay, EL!Next, EL!Threads
<1>2. CASE callLoop \/ wakeup
  BY <1>2 DEF callLoop, wakeup, EL!Next, EL!Threads
<1>3. CASE OwnerStep \/ start \/ spuriousWakeup \/ join \/ destroy \/ poolStart
  BY <1>3 DEF OwnerStep, latchLock, latchWait, loopLock, loopWait, start,
     spuriousWakeup, join, destroy, poolStart
<1>4. CASE ThreadStep /\ ~runLoop
  BY <1>4 DEF ThreadStep, runInThread, countLock, countDown, countUnlock, func,
     build, threadLock, publish, threadUnlock, useDestroyed, leave
<1>5. CASE UNCHANGED vars
  BY <1>5 DEF vars
<1>6. QED
  BY <1>1, <1>2, <1>3, <1>4, <1>5 DEF Next, Over

THEOREM LoopIsEventLoop == Spec => EL!Spec
<1>1. Init => EL!Init
  BY DEF Init
<1>2. QED
  BY <1>1, LoopStepMaps, PTL DEF Spec, EL!Spec

Built == INSTANCE EventLoopProofs WITH Others <- {Owner}, Fds <- {}

LEMMA BuiltIsEventLoop == EL!Spec => Built!Spec
<1>1. EL!Init => Built!Init
  BY DEF EL!Init, Built!Init, EL!Threads, Built!Threads
<1>2. [EL!Next]_(EL!vars) => [Built!Next]_(Built!vars)
  BY DEF EL!Next, Built!Next, EL!vars, Built!vars, EL!Threads, Built!Threads,
     EL!LoopStep, Built!LoopStep, EL!CanCall, Built!CanCall, EL!LoopAt, Built!LoopAt,
     EL!Reported, Built!Reported, EL!queueInloop, Built!queueInloop, EL!stop,
     Built!stop, EL!wakeup, Built!wakeup, EL!Enter, Built!Enter, EL!While,
     Built!While, EL!Wait, Built!Wait, EL!Timeout, Built!Timeout, EL!handleRead,
     Built!handleRead, EL!handleEvent, Built!handleEvent, EL!handleTask,
     Built!handleTask, EL!RunTask, Built!RunTask, EL!EndTasks, Built!EndTasks,
     EL!Return, Built!Return, EL!Arrive, Built!Arrive
<1>3. QED
  BY <1>1, <1>2, PTL DEF EL!Spec, Built!Spec

(* The loop's own thread is at poll with no call of its own under way, so   *)
(* that the thread EventLoop promises is waking it is the owner.            *)
THEOREM OwnerAlwaysHeard == Spec => []OwnerIsHeard
<1>1. Built!LoopAssumption
  BY LoopThreadAssumption DEF Built!LoopAssumption
<1>2. Built!Spec => []Built!IInv
  BY <1>1, Built!InductiveInvariant
<1>3. Built!IInv => OwnerIsHeard
  BY DEF Built!IInv, Built!WakeupDue, Built!StopDue, Built!LoopShape,
     Built!Waking, Built!Threads, OwnerIsHeard
<1>4. QED
  BY LoopIsEventLoop, BuiltIsEventLoop, <1>2, <1>3, PTL

(* The closures that the owner and the loop's callbacks queue run one at a  *)
(* time, in the order they were queued, each once, from before loop() to    *)
(* its end.                                                                 *)
THEOREM ClosuresRunInOrder == Spec => Built!ExecutorSafety
<1>1. Built!LoopAssumption
  BY LoopThreadAssumption DEF Built!LoopAssumption
<1>2. Built!Spec => Built!ExecutorSafety
  BY <1>1, Built!RunsTasksInOrder
<1>3. QED
  BY LoopIsEventLoop, BuiltIsEventLoop, <1>2, PTL

=============================================================================
