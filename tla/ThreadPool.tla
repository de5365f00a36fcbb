----------------------------- MODULE ThreadPool -----------------------------
(***************************************************************************)
(* One ThreadPool (ThreadPool.h, ThreadPool.cpp): the thread that owns it, *)
(* which starts and destroys it, the workers it starts, and the threads    *)
(* that call queueInPool, a task on a worker among them.                   *)
(*                                                                         *)
(* taskQueue_ and notEmpty_ are used under mutex_ only, and notEmpty_.wait *)
(* releases it as it falls asleep: a critical section, up to the wait or   *)
(* to its end, is one step.  running_ is also stored by start() and read   *)
(* by threadFunc without the mutex, in steps of their own.  A task is the  *)
(* number of the queueInPool call that queued it.                          *)
(***************************************************************************)
EXTENDS Naturals, Sequences

CONSTANTS
  N,          \* maxThreadNum_
  MaxTasks    \* bound: calls of queueInPool

ASSUME PoolAssumption == N \in Nat /\ MaxTasks \in Nat

VARIABLES
  running,    \* running_
  taskQueue,  \* taskQueue_
  last,       \* the number of queueInPool calls so far
  owner,      \* where the owner is
  index,      \* the thread of threadQueue_ that start() or stop() has come to
  pc,         \* per worker: where its thread is
  task        \* per worker: the cb it runs, 0 for none

vars == <<running, taskQueue, last, owner, index, pc, task>>

Workers == 1..N

TypeOK ==
  /\ running \in BOOLEAN
  /\ taskQueue \in Seq(1..MaxTasks)
  /\ last \in 0..MaxTasks
  /\ owner \in {"new", "starting", "latch", "up", "joining", "gone", "aborted"}
  /\ index \in 1..N + 1
  /\ pc \in [Workers -> {"none", "failed", "created", "while", "take", "wait",
                         "run", "done"}]
  /\ task \in [Workers -> 0..MaxTasks]

(* The constructor: N Thread objects, none of them started. *)
Init ==
  /\ running = FALSE
  /\ taskQueue = <<>>
  /\ last = 0
  /\ owner = "new"
  /\ index = 1
  /\ pc = [w \in Workers |-> "none"]
  /\ task = [w \in Workers |-> 0]

(* notEmpty_.notifyAll, and the mutex it is taken under: the sleepers go    *)
(* back to take's loop condition.                                           *)
Notified == [w \in Workers |-> IF pc[w] = "wait" THEN "take" ELSE pc[w]]

-----------------------------------------------------------------------------
(* Any thread, as long as there is a pool: before start() and after stop()  *)
(* has cleared running_ too, for running_ is not looked at.                 *)

(* Mutant: queueInPool without notifyAll. *)
queueInPoolSilently ==
  /\ owner \notin {"gone", "aborted"}
  /\ last < MaxTasks
  /\ last' = last + 1
  /\ taskQueue' = Append(taskQueue, last')
  /\ UNCHANGED <<running, owner, index, pc, task>>

(* Mutant: push_front where the code pushes back. *)
queueInPoolFirst ==
  /\ owner \notin {"gone", "aborted"}
  /\ last < MaxTasks
  /\ last' = last + 1
  /\ taskQueue' = <<last'>> \o taskQueue
  /\ pc' = Notified
  /\ UNCHANGED <<running, owner, index, task>>

queueInPool ==
  /\ owner \notin {"gone", "aborted"}
  /\ last < MaxTasks
  /\ last' = last + 1
  /\ taskQueue' = Append(taskQueue, last')
  /\ pc' = Notified
  /\ UNCHANGED <<running, owner, index, task>>

-----------------------------------------------------------------------------
(* The owner. *)

(* start, whose second call finds running_ set and does nothing. *)
start ==
  /\ owner = "new"
  /\ running' = TRUE
  /\ owner' = "starting"
  /\ UNCHANGED <<taskQueue, last, index, pc, task>>

(* Thread::start of the next thread: pthread_create makes it, or fails and  *)
(* start() goes on to the next one.                                         *)
startThread ==
  /\ owner = "starting"
  /\ index <= N
  /\ \/ /\ pc' = [pc EXCEPT ![index] = "created"]
        /\ owner' = "latch"
        /\ UNCHANGED index
     \/ /\ pc' = [pc EXCEPT ![index] = "failed"]
        /\ index' = index + 1
        /\ UNCHANGED owner
  /\ UNCHANGED <<running, taskQueue, last, task>>

(* Thread::start returns from latch_.wait() once the thread counted down. *)
latchWait ==
  /\ owner = "latch"
  /\ pc[index] # "created"
  /\ owner' = "starting"
  /\ index' = index + 1
  /\ UNCHANGED <<running, taskQueue, last, pc, task>>

startReturns ==
  /\ owner = "starting"
  /\ index = N + 1
  /\ owner' = "up"
  /\ UNCHANGED <<running, taskQueue, last, index, pc, task>>

(* The destructor of a pool that was not started: running_ is false. *)
destroyUnstarted ==
  /\ owner = "new"
  /\ owner' = "gone"
  /\ UNCHANGED <<running, taskQueue, last, index, pc, task>>

(* Mutant: stop clears running_ and wakes nobody. *)
stopSilently ==
  /\ owner = "up"
  /\ running' = FALSE
  /\ owner' = "joining"
  /\ index' = 1
  /\ UNCHANGED <<taskQueue, last, pc, task>>

(* The destructor of a started pool calls stop: the critical section. *)
stop ==
  /\ owner = "up"
  /\ running' = FALSE
  /\ pc' = Notified
  /\ owner' = "joining"
  /\ index' = 1
  /\ UNCHANGED <<taskQueue, last, task>>

(* Mutant: the join of a thread in a task does not wait for it. *)
joinIdle ==
  /\ owner = "joining"
  /\ index <= N
  /\ pc[index] \in {"done", "run"}
  /\ index' = index + 1
  /\ UNCHANGED <<running, taskQueue, last, owner, pc, task>>

(* stop joins the threads in order. *)
join ==
  /\ owner = "joining"
  /\ index <= N
  /\ pc[index] = "done"
  /\ index' = index + 1
  /\ UNCHANGED <<running, taskQueue, last, owner, pc, task>>

(* Thread::join asserts started_, which a failed pthread_create resets. *)
joinAsserts ==
  /\ owner = "joining"
  /\ index <= N
  /\ pc[index] = "failed"
  /\ owner' = "aborted"
  /\ UNCHANGED <<running, taskQueue, last, index, pc, task>>

stopReturns ==
  /\ owner = "joining"
  /\ index = N + 1
  /\ owner' = "gone"
  /\ UNCHANGED <<running, taskQueue, last, index, pc, task>>

-----------------------------------------------------------------------------
(* The workers. *)

(* runInThread counts the latch down and calls threadFunc. *)
runInThread(w) ==
  /\ pc[w] = "created"
  /\ pc' = [pc EXCEPT ![w] = "while"]
  /\ UNCHANGED <<running, taskQueue, last, owner, index, task>>

(* while(running_), read without mutex_. *)
threadFunc(w) ==
  /\ pc[w] = "while"
  /\ pc' = [pc EXCEPT ![w] = IF running THEN "take" ELSE "done"]
  /\ UNCHANGED <<running, taskQueue, last, owner, index, task>>

(* Mutant: the wait of take does not look at running_. *)
takeWaitAlways(w) ==
  /\ pc[w] = "take"
  /\ taskQueue = <<>>
  /\ pc' = [pc EXCEPT ![w] = "wait"]
  /\ UNCHANGED <<running, taskQueue, last, owner, index, task>>

(* take, while(running_ && taskQueue_.empty()). *)
takeWait(w) ==
  /\ pc[w] = "take"
  /\ running
  /\ taskQueue = <<>>
  /\ pc' = [pc EXCEPT ![w] = "wait"]
  /\ UNCHANGED <<running, taskQueue, last, owner, index, task>>

(* take returns an empty Task, which is not called. *)
takeEmpty(w) ==
  /\ pc[w] = "take"
  /\ ~running
  /\ taskQueue = <<>>
  /\ pc' = [pc EXCEPT ![w] = "while"]
  /\ UNCHANGED <<running, taskQueue, last, owner, index, task>>

(* take pops the front task, whether or not the pool is stopping, and the   *)
(* worker calls it.                                                         *)
take(w) ==
  /\ pc[w] = "take"
  /\ taskQueue # <<>>
  /\ task' = [task EXCEPT ![w] = Head(taskQueue)]
  /\ taskQueue' = Tail(taskQueue)
  /\ pc' = [pc EXCEPT ![w] = "run"]
  /\ UNCHANGED <<running, last, owner, index>>

(* pthread_cond_wait may return without a notification. *)
spuriousWakeup(w) ==
  /\ owner # "aborted"
  /\ pc[w] = "wait"
  /\ pc' = [pc EXCEPT ![w] = "take"]
  /\ UNCHANGED <<running, taskQueue, last, owner, index, task>>

(* cb() returns. *)
taskReturns(w) ==
  /\ pc[w] = "run"
  /\ task' = [task EXCEPT ![w] = 0]
  /\ pc' = [pc EXCEPT ![w] = "while"]
  /\ UNCHANGED <<running, taskQueue, last, owner, index>>

-----------------------------------------------------------------------------
OwnerStep ==
  startThread \/ latchWait \/ startReturns \/ join \/ joinAsserts \/ stopReturns

WorkerStep(w) ==
  /\ owner # "aborted"
  /\ \/ runInThread(w)
     \/ threadFunc(w)
     \/ takeWait(w)
     \/ takeEmpty(w)
     \/ take(w)
     \/ taskReturns(w)

(* The pool is gone, or the program was aborted: nothing more happens. *)
Over == owner \in {"gone", "aborted"} /\ UNCHANGED vars

Next ==
  \/ queueInPool
  \/ start
  \/ destroyUnstarted
  \/ stop
  \/ OwnerStep
  \/ \E w \in Workers : WorkerStep(w) \/ spuriousWakeup(w)
  \/ Over

Spec == Init /\ [][Next]_vars

(* Fairness: the owner and the workers keep being scheduled and get the     *)
(* mutex when they wait for it, and tasks return.  Nobody has to queue a    *)
(* task, start or destroy the pool, and no wakeup has to be spurious.       *)
Fairness ==
  /\ WF_vars(OwnerStep)
  /\ \A w \in Workers : WF_vars(WorkerStep(w))

FairSpec == Spec /\ Fairness

=============================================================================
