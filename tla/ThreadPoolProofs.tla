-------------------------- MODULE ThreadPoolProofs --------------------------
(***************************************************************************)
(* Proofs about ThreadPool, for any number of workers and tasks.           *)
(***************************************************************************)
EXTENDS ThreadPoolProps, SequenceTheorems, TLAPS

(* How far start() has come: the threads behind index are not made yet.     *)
(* TypeOK needs it, for latchWait moves index without looking at N.         *)
Unstarted ==
  /\ owner = "new" => index = 1 /\ \A w \in Workers : pc[w] = "none"
  /\ owner = "starting" => \A w \in Workers : w >= index => pc[w] = "none"
  /\ owner = "latch" => index <= N /\ \A w \in Workers : w > index => pc[w] = "none"

(* running_ is set from start() to stop(). *)
RunningPhase == running <=> owner \in {"starting", "latch", "up"}

(* A worker has a task exactly while it runs it. *)
RunShape == \A w \in Workers : task[w] # 0 <=> pc[w] = "run"

(* How far stop() has come: the threads before index have ended. *)
Joined == owner = "joining" => \A w \in Workers : w < index => pc[w] = "done"

Shape == RunningPhase /\ RunShape /\ Joined /\ GoneIsQuiet

IInv == TypeOK /\ Unstarted /\ Shape /\ SleepersMissNothing

LEMMA NotifiedType ==
  ASSUME TypeOK
  PROVE  Notified \in [Workers -> {"none", "failed", "created", "while", "take",
                                   "wait", "run", "done"}]
BY DEF Notified, TypeOK

LEMMA InitShape == Init => IInv
<1> SUFFICES ASSUME Init PROVE IInv
  OBVIOUS
<1>1. TypeOK
  <2>1. 1 \in 1..N + 1 /\ 0 \in 0..MaxTasks
    BY PoolAssumption
  <2>2. <<>> \in Seq(1..MaxTasks)
    OBVIOUS
  <2>3. task \in [Workers -> 0..MaxTasks]
    BY <2>1 DEF Init
  <2>4. QED
    BY <2>1, <2>2, <2>3 DEF Init, TypeOK
<1>2. QED
  BY <1>1 DEF Init, IInv, Unstarted, Shape, RunningPhase, RunShape, Joined,
     GoneIsQuiet, SleepersMissNothing

-----------------------------------------------------------------------------
LEMMA TypeStep ==
  ASSUME TypeOK, Unstarted, [Next]_vars
  PROVE  TypeOK' /\ Unstarted'
<1> DEFINE P == TypeOK /\ Unstarted
<1> USE PoolAssumption DEF TypeOK, Unstarted, Workers
<1>1. CASE queueInPool
  <2>1. Notified \in [Workers -> {"none", "failed", "created", "while", "take",
                                  "wait", "run", "done"}]
    BY NotifiedType
  <2>2. last' \in 1..MaxTasks
    BY <1>1 DEF queueInPool
  <2>3. taskQueue' \in Seq(1..MaxTasks)
    BY <1>1, <2>2 DEF queueInPool
  <2>4. QED
    BY <1>1, <2>1, <2>2, <2>3 DEF queueInPool, Notified
<1>2. CASE start
  BY <1>2 DEF start
<1>3. CASE destroyUnstarted
  BY <1>3 DEF destroyUnstarted
<1>4. CASE stop
  <2>1. Notified \in [Workers -> {"none", "failed", "created", "while", "take",
                                  "wait", "run", "done"}]
    BY NotifiedType
  <2>2. 1 \in 1..N + 1
    OBVIOUS
  <2>3. TypeOK'
    BY <1>4, <2>1, <2>2 DEF stop
  <2>4. QED
    BY <1>4, <2>3 DEF stop
<1>5. CASE startThread
  <2>1. pc' \in [Workers -> {"none", "failed", "created", "while", "take",
                             "wait", "run", "done"}]
    BY <1>5 DEF startThread
  <2>2. index' \in 1..N + 1
    BY <1>5 DEF startThread
  <2>3. TypeOK'
    BY <1>5, <2>1, <2>2 DEF startThread
  <2>4. Unstarted'
    BY <1>5 DEF startThread
  <2>5. QED
    BY <2>3, <2>4
<1>6. CASE latchWait
  BY <1>6 DEF latchWait
<1>7. CASE startReturns
  BY <1>7 DEF startReturns
<1>8. CASE join
  BY <1>8 DEF join
<1>9. CASE joinAsserts
  BY <1>9 DEF joinAsserts
<1>10. CASE stopReturns
  BY <1>10 DEF stopReturns
<1>11. ASSUME NEW w \in Workers, runInThread(w) PROVE P'
  BY <1>11 DEF runInThread
<1>12. ASSUME NEW w \in Workers, threadFunc(w) PROVE P'
  BY <1>12 DEF threadFunc
<1>13. ASSUME NEW w \in Workers, takeWait(w) PROVE P'
  BY <1>13 DEF takeWait
<1>14. ASSUME NEW w \in Workers, takeEmpty(w) PROVE P'
  BY <1>14 DEF takeEmpty
<1>15. ASSUME NEW w \in Workers, take(w) PROVE P'
  <2>1. /\ Head(taskQueue) \in 1..MaxTasks
        /\ Tail(taskQueue) \in Seq(1..MaxTasks)
    BY <1>15 DEF take
  <2>2. task' \in [Workers -> 0..MaxTasks]
    BY <1>15, <2>1 DEF take
  <2>3. TypeOK'
    BY <1>15, <2>1, <2>2 DEF take
  <2>4. Unstarted'
    BY <1>15 DEF take
  <2>5. QED
    BY <2>3, <2>4
<1>16. ASSUME NEW w \in Workers, taskReturns(w) PROVE P'
  BY <1>16 DEF taskReturns
<1>17. ASSUME NEW w \in Workers, spuriousWakeup(w) PROVE P'
  BY <1>17 DEF spuriousWakeup
<1>18. CASE UNCHANGED vars
  BY <1>18 DEF vars
<1>19. QED
  BY <1>1, <1>2, <1>3, <1>4, <1>5, <1>6, <1>7, <1>8, <1>9, <1>10, <1>11, <1>12,
     <1>13, <1>14, <1>15, <1>16, <1>17, <1>18
     DEF Next, OwnerStep, WorkerStep, Over

LEMMA ShapeStep ==
  ASSUME IInv, [Next]_vars
  PROVE  Shape' /\ SleepersMissNothing'
<1> DEFINE P == Shape /\ SleepersMissNothing
<1> USE PoolAssumption DEF IInv, TypeOK, Unstarted, Shape, RunningPhase, RunShape,
        Joined, GoneIsQuiet, SleepersMissNothing, Workers
<1>1. CASE queueInPool
  BY <1>1 DEF queueInPool, Notified
<1>2. CASE start
  BY <1>2 DEF start
<1>3. CASE destroyUnstarted
  BY <1>3 DEF destroyUnstarted
<1>4. CASE stop
  BY <1>4 DEF stop, Notified
<1>5. CASE startThread
  BY <1>5 DEF startThread
<1>6. CASE latchWait
  BY <1>6 DEF latchWait
<1>7. CASE startReturns
  BY <1>7 DEF startReturns
<1>8. CASE join
  BY <1>8 DEF join
<1>9. CASE joinAsserts
  BY <1>9 DEF joinAsserts
<1>10. CASE stopReturns
  BY <1>10 DEF stopReturns
<1>11. ASSUME NEW w \in Workers, runInThread(w) PROVE P'
  BY <1>11 DEF runInThread
<1>12. ASSUME NEW w \in Workers, threadFunc(w) PROVE P'
  BY <1>12 DEF threadFunc
<1>13. ASSUME NEW w \in Workers, takeWait(w) PROVE P'
  BY <1>13 DEF takeWait
<1>14. ASSUME NEW w \in Workers, takeEmpty(w) PROVE P'
  BY <1>14 DEF takeEmpty
<1>15. ASSUME NEW w \in Workers, take(w) PROVE P'
  <2>1. Head(taskQueue) # 0
    BY <1>15 DEF take
  <2>2. QED
    BY <1>15, <2>1 DEF take
<1>16. ASSUME NEW w \in Workers, taskReturns(w) PROVE P'
  BY <1>16 DEF taskReturns
<1>17. ASSUME NEW w \in Workers, spuriousWakeup(w) PROVE P'
  BY <1>17 DEF spuriousWakeup
<1>18. CASE UNCHANGED vars
  BY <1>18 DEF vars
<1>19. QED
  BY <1>1, <1>2, <1>3, <1>4, <1>5, <1>6, <1>7, <1>8, <1>9, <1>10, <1>11, <1>12,
     <1>13, <1>14, <1>15, <1>16, <1>17, <1>18
     DEF Next, OwnerStep, WorkerStep, Over

(* IInv holds in every reachable state of the pool. *)
THEOREM InductiveInvariant == Spec => []IInv
<1>1. IInv /\ [Next]_vars => IInv'
  BY TypeStep, ShapeStep DEF IInv
<1>2. QED
  BY <1>1, InitShape, PTL DEF Spec

(* Every variable keeps its type: the walks of start() and stop() over      *)
(* threadQueue_ end at its last thread.                                     *)
THEOREM TypeCorrect == Spec => []TypeOK
<1>1. IInv => TypeOK
  BY DEF IInv
<1>2. QED
  BY <1>1, InductiveInvariant, PTL

(* No worker sleeps through a task or through stop(), for any number of     *)
(* workers and of threads that queue tasks.                                 *)
THEOREM NoSleeperMisses == Spec => []SleepersMissNothing
<1>1. IInv => SleepersMissNothing
  BY DEF IInv
<1>2. QED
  BY <1>1, InductiveInvariant, PTL

(* No worker is left in a pool whose destructor has returned. *)
THEOREM DestroyedPoolIsQuiet == Spec => []GoneIsQuiet
<1>1. IInv => GoneIsQuiet
  BY DEF IInv, Shape
<1>2. QED
  BY <1>1, InductiveInvariant, PTL

-----------------------------------------------------------------------------
(* ThreadPool implements TaskPool: queueInPool is Queue, take is Begin, the *)
(* return of a task is End, stop() (or the destructor of a pool that was    *)
(* not started) is Close, a take() that returns an empty Task is Leave, and *)
(* every other step is a stutter.                                           *)
LEMMA PoolStep ==
  ASSUME IInv, [Next]_vars
  PROVE  [Pool!Next]_(Pool!vars)
<1> DEFINE closed == owner \in {"joining", "gone", "aborted"}
           asking == IF closed THEN {w \in Workers : pc[w] = "take"} ELSE {}
<1> USE DEF IInv, TypeOK, Unstarted, Shape, RunningPhase, RunShape, GoneIsQuiet,
        SleepersMissNothing
<1>1. CASE queueInPool
  <2>1. asking' = asking
    BY <1>1 DEF queueInPool, Notified
  <2>2. Pool!Queue
    BY <1>1, <2>1 DEF queueInPool, Pool!Queue
  <2>3. QED
    BY <2>2 DEF Pool!Next
<1>2. CASE start \/ startThread \/ latchWait \/ startReturns
  <2>1. ~closed /\ ~closed'
    BY <1>2 DEF start, startThread, latchWait, startReturns
  <2>2. UNCHANGED <<taskQueue, task, last>>
    BY <1>2 DEF start, startThread, latchWait, startReturns
  <2>3. QED
    BY <2>1, <2>2 DEF Pool!vars
<1>3. CASE destroyUnstarted \/ stop
  <2>1. ~closed /\ closed' /\ UNCHANGED <<taskQueue, task, last>>
    BY <1>3 DEF destroyUnstarted, stop
  <2>2. asking' \in SUBSET {w \in Workers : task[w] = 0}
    BY <1>3, <2>1 DEF destroyUnstarted, stop, Notified
  <2>3. Pool!Close
    BY <2>1, <2>2 DEF Pool!Close
  <2>4. QED
    BY <2>3 DEF Pool!Next
<1>4. CASE join \/ joinAsserts \/ stopReturns
  <2>1. closed /\ closed' /\ UNCHANGED <<taskQueue, task, last, pc>>
    BY <1>4 DEF join, joinAsserts, stopReturns
  <2>2. QED
    BY <2>1 DEF Pool!vars
<1>5. ASSUME NEW w \in Workers, owner # "aborted",
             runInThread(w) \/ threadFunc(w) \/ takeWait(w) \/ spuriousWakeup(w)
      PROVE  UNCHANGED Pool!vars
  <2>1. UNCHANGED <<taskQueue, task, last, owner>>
    BY <1>5 DEF runInThread, threadFunc, takeWait, spuriousWakeup
  <2>2. closed => pc[w] # "take" /\ pc'[w] # "take"
    BY <1>5 DEF runInThread, threadFunc, takeWait, spuriousWakeup
  <2>3. \A v \in Workers : v # w => pc'[v] = pc[v]
    BY <1>5 DEF runInThread, threadFunc, takeWait, spuriousWakeup
  <2>4. asking' = asking
    BY <2>1, <2>2, <2>3
  <2>5. QED
    BY <2>1, <2>4 DEF Pool!vars
<1>6. ASSUME NEW w \in Workers, takeEmpty(w) PROVE Pool!Next
  <2>1. closed
    BY <1>6 DEF takeEmpty
  <2>2. asking' = asking \ {w}
    BY <1>6, <2>1 DEF takeEmpty
  <2>3. Pool!Leave(w)
    BY <1>6, <2>2 DEF takeEmpty, Pool!Leave
  <2>4. QED
    BY <2>3 DEF Pool!Next
<1>7. ASSUME NEW w \in Workers, take(w) PROVE Pool!Next
  <2>1. asking' = asking \ {w}
    BY <1>7 DEF take
  <2>2. ~closed \/ w \in asking
    BY <1>7 DEF take
  <2>3. task[w] = 0
    BY <1>7 DEF take
  <2>4. Pool!Begin(w)
    BY <1>7, <2>1, <2>2, <2>3 DEF take, Pool!Begin
  <2>5. QED
    BY <2>4 DEF Pool!Next
<1>8. ASSUME NEW w \in Workers, taskReturns(w) PROVE Pool!Next
  <2>1. asking' = asking
    BY <1>8 DEF taskReturns
  <2>2. Pool!End(w)
    BY <1>8, <2>1 DEF taskReturns, Pool!End
  <2>3. QED
    BY <2>2 DEF Pool!Next
<1>9. CASE UNCHANGED vars
  BY <1>9 DEF vars, Pool!vars
<1>10. ASSUME NEW w \in Workers, spuriousWakeup(w) PROVE owner # "aborted"
  BY <1>10 DEF spuriousWakeup
<1>11. QED
  BY <1>1, <1>2, <1>3, <1>4, <1>5, <1>6, <1>7, <1>8, <1>9, <1>10
     DEF Next, OwnerStep, WorkerStep, Over

(* To the threads that queue tasks the pool is a TaskPool. *)
THEOREM ImplementsTaskPool == Spec => IsTaskPool
<1>1. Init => Pool!Init
  BY DEF Init, Pool!Init
<1>2. IInv /\ [Next]_vars => [Pool!Next]_(Pool!vars)
  BY PoolStep
<1>3. QED
  BY <1>1, <1>2, InductiveInvariant, PTL DEF Spec, IsTaskPool, Pool!Spec

=============================================================================
