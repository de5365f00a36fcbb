--------------------------- MODULE EventLoopProofs --------------------------
(***************************************************************************)
(* Proofs about EventLoop, for any threads, closures and descriptors.      *)
(***************************************************************************)
EXTENDS EventLoopProps, SequenceTheorems, TLAPS

(* The inductive invariant.  NoLostWakeup speaks of a loop that is blocked; *)
(* what a step preserves is that the wakeup is due from the moment          *)
(* handleTask has emptied the queue until the next dispatch starts.         *)
WakeupDue ==
  lpc \notin {"dispatch", "handler"} /\ taskqueue # <<>> => wakeups > 0 \/ Waking

(* For stop() it is due in the poll alone: While looks at running_.         *)
StopDue ==
  lpc = "wait" /\ ~running => wakeups > 0 \/ Waking

(* batch and current belong to the loop's thread and to one part of loop(), *)
(* and the thread goes on with loop() when its own calls have returned.     *)
LoopShape ==
  /\ lpc \notin {"tasks", "task"} => batch = <<>>
  /\ lpc = "task" => current \in Tasks
  /\ lpc = "handler" => current \in Fds
  /\ lpc \notin {"task", "handler"} => current = None
  /\ pc[Loop] = "wake" => lpc \in {"init", "handler", "task", "exit"}

IInv == WakeupDue /\ StopDue /\ LoopShape

(* The type invariant is inductive on its own. *)
THEOREM TypeCorrect == Spec => []TypeOK
<1>1. Init => TypeOK
  <2> SUFFICES ASSUME Init PROVE TypeOK
    OBVIOUS
  <2>1. [t \in Threads |-> "idle"] \in [Threads -> {"idle", "wake"}]
    OBVIOUS
  <2>2. <<>> \in Seq(Tasks)
    OBVIOUS
  <2>3. 0 \in 0..WakeMax
    BY LoopAssumption
  <2>4. QED
    BY <2>1, <2>2, <2>3 DEF Init, TypeOK
<1>2. TypeOK /\ [Next]_vars => TypeOK'
  <2> SUFFICES ASSUME TypeOK, [Next]_vars PROVE TypeOK'
    OBVIOUS
  <2> USE LoopAssumption DEF TypeOK
  <2>1. ASSUME NEW t \in Threads, NEW task \in Tasks, queueInloop(t, task)
        PROVE  TypeOK'
    BY <2>1 DEF queueInloop
  <2>2. ASSUME NEW t \in Threads, stop(t) PROVE TypeOK'
    BY <2>2 DEF stop
  <2>3. ASSUME NEW t \in Threads, wakeup(t) PROVE TypeOK'
    BY <2>3 DEF wakeup
  <2>4. CASE Enter
    BY <2>4 DEF Enter
  <2>5. CASE While
    BY <2>5 DEF While
  <2>6. CASE Wait
    BY <2>6 DEF Wait, Reported
  <2>7. CASE handleRead
    BY <2>7 DEF handleRead
  <2>8. ASSUME NEW fd \in Fds, handleEvent(fd) PROVE TypeOK'
    BY <2>8 DEF handleEvent
  <2>9. CASE handleTask
    BY <2>9 DEF handleTask
  <2>10. CASE RunTask
    BY <2>10 DEF RunTask
  <2>11. CASE EndTasks
    BY <2>11 DEF EndTasks
  <2>12. CASE Timeout
    BY <2>12 DEF Timeout
  <2>13. CASE Return
    BY <2>13 DEF Return
  <2>14. ASSUME NEW fd \in Fds, Arrive(fd) PROVE TypeOK'
    BY <2>14 DEF Arrive
  <2>15. CASE UNCHANGED vars
    BY <2>15 DEF vars
  <2>16. QED
    BY <2>1, <2>2, <2>3, <2>4, <2>5, <2>6, <2>7, <2>8, <2>9, <2>10, <2>11,
       <2>12, <2>13, <2>14, <2>15 DEF Next, LoopStep
<1>3. QED
  BY <1>1, <1>2, PTL DEF Spec

-----------------------------------------------------------------------------
(* A step leaves every fact of IInv true, given that it starts in a typed   *)
(* state.  LoopShape is a matter of the loop thread's own steps.            *)
LEMMA LoopShapeStep ==
  ASSUME TypeOK, LoopShape, [Next]_vars
  PROVE  LoopShape'
<1> USE LoopAssumption DEF TypeOK, LoopShape
<1>1. ASSUME NEW t \in Threads, NEW task \in Tasks, queueInloop(t, task)
      PROVE  LoopShape'
  BY <1>1 DEF queueInloop, CanCall, Threads
<1>2. ASSUME NEW t \in Threads, stop(t) PROVE LoopShape'
  BY <1>2 DEF stop, CanCall, Threads
<1>3. ASSUME NEW t \in Threads, wakeup(t) PROVE LoopShape'
  BY <1>3 DEF wakeup, Threads
<1>4. CASE Enter \/ While \/ Wait \/ handleRead \/ Timeout
  BY <1>4 DEF Enter, While, Wait, handleRead, Timeout, LoopAt
<1>5. ASSUME NEW fd \in Fds, handleEvent(fd) PROVE LoopShape'
  BY <1>5 DEF handleEvent, LoopAt
<1>6. CASE handleTask
  BY <1>6 DEF handleTask, LoopAt
<1>7. CASE RunTask
  BY <1>7 DEF RunTask, LoopAt
<1>8. CASE EndTasks
  BY <1>8 DEF EndTasks, LoopAt
<1>9. CASE Return
  BY <1>9 DEF Return, LoopAt
<1>10. ASSUME NEW fd \in Fds, Arrive(fd) PROVE LoopShape'
  BY <1>10 DEF Arrive
<1>11. CASE UNCHANGED vars
  BY <1>11 DEF vars
<1>12. QED
  BY <1>1, <1>2, <1>3, <1>4, <1>5, <1>6, <1>7, <1>8, <1>9, <1>10, <1>11
     DEF Next, LoopStep

(* The steps that touch the wakeup: a thread that pushes or stops is Waking *)
(* until its eventfd_write has made the counter positive, and only          *)
(* handleRead, which stays in the dispatch, makes it zero.                  *)
LEMMA WakeupStep ==
  ASSUME TypeOK, WakeupDue, StopDue, [Next]_vars
  PROVE  WakeupDue' /\ StopDue'
<1> DEFINE P == WakeupDue /\ StopDue
<1> USE LoopAssumption DEF TypeOK, WakeupDue, StopDue, Waking
<1>1. ASSUME NEW t \in Threads, NEW task \in Tasks, queueInloop(t, task)
      PROVE  P'
  <2>1. pc'[t] = "wake"
    BY <1>1 DEF queueInloop
  <2>2. QED
    BY <2>1
<1>2. ASSUME NEW t \in Threads, stop(t) PROVE P'
  <2>1. pc'[t] = "wake"
    BY <1>2 DEF stop
  <2>2. QED
    BY <2>1
<1>3. ASSUME NEW t \in Threads, wakeup(t) PROVE P'
  <2>1. wakeups' > 0
    BY <1>3 DEF wakeup
  <2>2. QED
    BY <2>1
<1>4. CASE Enter \/ Wait \/ EndTasks \/ Timeout
  BY <1>4 DEF Enter, Wait, EndTasks, Timeout, LoopAt
<1>5. CASE While
  BY <1>5 DEF While, LoopAt
<1>6. CASE handleRead
  BY <1>6 DEF handleRead, LoopAt
<1>7. ASSUME NEW fd \in Fds, handleEvent(fd) PROVE P'
  BY <1>7 DEF handleEvent, LoopAt
<1>8. CASE handleTask
  BY <1>8 DEF handleTask, LoopAt
<1>9. CASE RunTask
  BY <1>9 DEF RunTask, LoopAt
<1>10. CASE Return
  BY <1>10 DEF Return, LoopAt
<1>11. ASSUME NEW fd \in Fds, Arrive(fd) PROVE P'
  BY <1>11 DEF Arrive
<1>12. CASE UNCHANGED vars
  BY <1>12 DEF vars
<1>13. QED
  BY <1>1, <1>2, <1>3, <1>4, <1>5, <1>6, <1>7, <1>8, <1>9, <1>10, <1>11, <1>12
     DEF Next, LoopStep

(* IInv holds in every reachable state. *)
THEOREM InductiveInvariant == Spec => []IInv
<1>1. Init => IInv
  BY DEF Init, IInv, WakeupDue, StopDue, LoopShape, Threads
<1>2. TypeOK /\ IInv /\ [Next]_vars => IInv'
  BY LoopShapeStep, WakeupStep DEF IInv
<1>3. QED
  BY <1>1, <1>2, TypeCorrect, PTL DEF Spec

(* A queued closure or a stop() never waits for the poll's timeout,         *)
(* whatever the number of threads, the size of the eventfd counter and the  *)
(* order of the calls.                                                      *)
THEOREM WakeupNeverLost == Spec => []NoLostWakeup
<1>1. IInv => NoLostWakeup
  BY DEF IInv, WakeupDue, StopDue, NoLostWakeup
<1>2. QED
  BY <1>1, InductiveInvariant, PTL

-----------------------------------------------------------------------------
(* EventLoop implements the safety part of TaskExecutor.  The steps of the  *)
(* abstract executor are queueInloop (Queue), RunTask (Start), the return   *)
(* of a closure (Finish) and the exit of loop() (Close); handleTask's swap  *)
(* moves closures from taskqueue to the empty batch and is a stutter.       *)
LEMMA SwapIsInvisible ==
  ASSUME TypeOK, LoopShape, handleTask
  PROVE  UNCHANGED (batch \o taskqueue)
<1>1. batch = <<>>
  BY DEF LoopShape, handleTask, LoopAt
<1>2. batch' = taskqueue /\ taskqueue' = <<>>
  BY DEF handleTask
<1>3. taskqueue \o <<>> = taskqueue /\ <<>> \o taskqueue = taskqueue
  BY ConcatEmptySeq DEF TypeOK
<1>4. QED
  BY <1>1, <1>2, <1>3

LEMMA PushIsQueue ==
  ASSUME TypeOK, NEW task \in Tasks
  PROVE  batch \o Append(taskqueue, task) = Append(batch \o taskqueue, task)
<1>1. /\ Append(taskqueue, task) = taskqueue \o <<task>>
      /\ Append(batch \o taskqueue, task) = (batch \o taskqueue) \o <<task>>
  BY AppendIsConcat, ConcatProperties DEF TypeOK
<1>2. <<task>> \in Seq(Tasks)
  OBVIOUS
<1>3. QED
  BY <1>1, <1>2, ConcatAssociative DEF TypeOK

LEMMA PopIsStart ==
  ASSUME TypeOK, batch # <<>>
  PROVE  /\ batch \o taskqueue # <<>>
         /\ Head(batch \o taskqueue) = Head(batch)
         /\ Tail(batch \o taskqueue) = Tail(batch) \o taskqueue
<1> DEFINE all == batch \o taskqueue
           rest == Tail(batch) \o taskqueue
<1>1. /\ Len(batch) \in Nat \ {0}
      /\ Len(taskqueue) \in Nat
      /\ Tail(batch) \in Seq(Tasks)
      /\ Len(Tail(batch)) = Len(batch) - 1
      /\ \A i \in 1..Len(Tail(batch)) : Tail(batch)[i] = batch[i + 1]
  BY EmptySeq, LenProperties, HeadTailProperties DEF TypeOK
<1>2. /\ all \in Seq(Tasks)
      /\ Len(all) = Len(batch) + Len(taskqueue)
      /\ \A i \in 1..Len(batch) + Len(taskqueue) :
           all[i] = IF i <= Len(batch) THEN batch[i] ELSE taskqueue[i - Len(batch)]
  BY ConcatProperties DEF TypeOK
<1>3. /\ rest \in Seq(Tasks)
      /\ Len(rest) = Len(batch) - 1 + Len(taskqueue)
      /\ \A i \in 1..Len(batch) - 1 + Len(taskqueue) :
           rest[i] = IF i <= Len(batch) - 1 THEN Tail(batch)[i]
                     ELSE taskqueue[i - (Len(batch) - 1)]
  BY <1>1, ConcatProperties DEF TypeOK
<1>4. all # <<>>
  BY <1>1, <1>2
<1>5. Head(all) = Head(batch)
  BY <1>1, <1>2, <1>4 DEF TypeOK
<1>6. /\ Tail(all) \in Seq(Tasks)
      /\ Len(Tail(all)) = Len(rest)
      /\ \A i \in 1..Len(Tail(all)) : Tail(all)[i] = all[i + 1]
  BY <1>1, <1>2, <1>3, <1>4, HeadTailProperties
<1>7. ASSUME NEW i \in 1..Len(Tail(all)) PROVE Tail(all)[i] = rest[i]
  BY <1>1, <1>2, <1>3, <1>6
<1>8. Tail(all) = rest
  BY <1>3, <1>6, <1>7, SeqEqual
<1>9. QED
  BY <1>4, <1>5, <1>8

LEMMA ExecutorStep ==
  ASSUME TypeOK, LoopShape, [Next]_vars
  PROVE  [Executor!Next]_(Executor!vars)
<1> DEFINE run == IF current \in Tasks THEN current ELSE None
<1> USE LoopAssumption
<1>a. None \notin Tasks
  OBVIOUS
<1>1. ASSUME NEW t \in Threads, NEW task \in Tasks, queueInloop(t, task)
      PROVE  Executor!Queue(task)
  BY <1>1, PushIsQueue DEF queueInloop, Executor!Queue
<1>2. CASE RunTask
  <2>1. Executor!Start
    <3>1. run = None /\ lpc = "tasks" /\ lpc' # "exit"
      BY <1>2, <1>a DEF RunTask, LoopAt, LoopShape
    <3>2. run' = Head(batch)
      BY <1>2, HeadTailProperties DEF RunTask, TypeOK
    <3>3. QED
      BY <1>2, <3>1, <3>2, PopIsStart DEF RunTask, Executor!Start
  <2>2. QED
    BY <2>1 DEF Executor!Next
<1>3. CASE Return
  <2>1. UNCHANGED <<batch, taskqueue>> /\ run' = None /\ UNCHANGED (lpc = "exit")
    BY <1>3, <1>a DEF Return, LoopAt
  <2>2. CASE LoopAt("task")
    <3>1. run # None
      BY <2>2, <1>a DEF LoopAt, LoopShape
    <3>2. Executor!Finish
      BY <2>1, <3>1 DEF Executor!Finish
    <3>3. QED
      BY <3>2 DEF Executor!Next
  <2>3. CASE LoopAt("handler")
    <3>1. run = None
      BY <2>3 DEF LoopAt, LoopShape
    <3>2. QED
      BY <2>1, <3>1 DEF Executor!vars
  <2>4. QED
    BY <1>3, <2>2, <2>3 DEF Return
<1>4. CASE While
  <2>1. run = None /\ UNCHANGED <<batch, taskqueue, run>> /\ lpc # "exit"
    BY <1>4, <1>a DEF While, LoopAt, LoopShape
  <2>2. CASE lpc' = "exit"
    BY <2>1, <2>2 DEF Executor!Close, Executor!Next
  <2>3. CASE lpc' # "exit"
    BY <2>1, <2>3 DEF Executor!vars
  <2>4. QED
    BY <2>2, <2>3
<1>5. CASE handleTask
  BY <1>5, SwapIsInvisible DEF handleTask, LoopAt, Executor!vars
<1>6. ASSUME NEW fd \in Fds, handleEvent(fd)
      PROVE  UNCHANGED Executor!vars
  BY <1>6 DEF handleEvent, LoopAt, LoopShape, Executor!vars
<1>7. CASE Enter \/ Wait \/ Timeout \/ handleRead \/ EndTasks
  BY <1>7 DEF Enter, Wait, Timeout, handleRead, EndTasks, LoopAt, Executor!vars
<1>8. ASSUME NEW t \in Threads, stop(t) \/ wakeup(t)
      PROVE  UNCHANGED Executor!vars
  BY <1>8 DEF stop, wakeup, Executor!vars
<1>9. ASSUME NEW fd \in Fds, Arrive(fd)
      PROVE  UNCHANGED Executor!vars
  BY <1>9 DEF Arrive, Executor!vars
<1>10. CASE UNCHANGED vars
  BY <1>10 DEF vars, Executor!vars
<1>11. QED
  BY <1>1, <1>2, <1>3, <1>4, <1>5, <1>6, <1>7, <1>8, <1>9, <1>10
     DEF Next, LoopStep, Executor!Next

(* Every run of EventLoop is, for the threads that queue closures, a run of *)
(* TaskExecutor: one closure at a time, first come first run, each once.    *)
THEOREM RunsTasksInOrder == Spec => ExecutorSafety
<1>1. Init => Executor!Init
  BY LoopAssumption, ConcatEmptySeq, EmptySeq DEF Init, Executor!Init
<1>2. TypeOK /\ IInv /\ [Next]_vars => [Executor!Next]_(Executor!vars)
  BY ExecutorStep DEF IInv
<1>3. QED
  BY <1>1, <1>2, TypeCorrect, InductiveInvariant, PTL
     DEF Spec, ExecutorSafety, Executor!Safety

=============================================================================
