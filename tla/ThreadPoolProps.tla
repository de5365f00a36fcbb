--------------------------- MODULE ThreadPoolProps --------------------------
(***************************************************************************)
(* What must hold of ThreadPool.                                           *)
(***************************************************************************)
EXTENDS ThreadPool

(* A worker asleep in take() has nothing to be awake for: no task is queued *)
(* and the pool is not stopping (the purpose of ThreadPool.cpp:58), however *)
(* the unlocked stores to running_, the queueInPool calls and the spurious  *)
(* wakeups fall.                                                            *)
SleepersMissNothing ==
  \A w \in Workers : pc[w] = "wait" => taskQueue = <<>> /\ running

(* When the destructor has returned no worker is left in the pool: none     *)
(* runs a task, holds the mutex or sleeps on the destroyed condition        *)
(* (ThreadPool.h:24, and the EBUSY note at ThreadPool.cpp:79).              *)
GoneIsQuiet ==
  owner = "gone" => \A w \in Workers : pc[w] \in {"none", "done"}

Pool == INSTANCE TaskPool WITH
          pending <- taskQueue,
          running <- task,
          open    <- owner \notin {"joining", "gone", "aborted"},
          asking  <- IF owner \in {"joining", "gone", "aborted"}
                       THEN {w \in Workers : pc[w] = "take"} ELSE {}

(* Seen by the threads that queue tasks, the pool is a TaskPool: tasks      *)
(* begin in the order they were queued, each once, and after stop() cleared *)
(* running_ a worker begins one more task at most.                          *)
IsTaskPool == Pool!Spec

(* A queued task begins unless the pool is stopped first, if start() got a  *)
(* thread at all.  Tasks begin in order, so the k-th has begun when that    *)
(* many are no longer queued.                                               *)
TasksBegin ==
  \A k \in 1..MaxTasks :
    running /\ last >= k
      ~> \/ last - Len(taskQueue) >= k
         \/ ~running
         \/ \A w \in Workers : pc[w] = "failed"

(* The destructor returns: the notifyAll in stop() reaches every worker     *)
(* wherever it was, and each leaves within one task.                        *)
StopReturns == owner = "joining" ~> owner \in {"gone", "aborted"}

=============================================================================
