--------------------------- MODULE EventLoopThread --------------------------
(***************************************************************************)
(* A thread and the object that starts it: Thread::start and its latch     *)
(* (Thread.cpp, CountDownLatch.h), and EventLoopThread, which has its      *)
(* thread build an EventLoop and hand out a pointer to it.  The loop is    *)
(* module EventLoop; here it has an owner that calls it through the        *)
(* pointer and a thread that builds it, runs it and destroys it.           *)
(*                                                                         *)
(* The latch's and the EventLoopThread's mutexes are held over several     *)
(* steps, and a condition's wait releases its mutex as it falls asleep:    *)
(* what matters here is who may still be inside an object when its owner   *)
(* destroys it.                                                            *)
(***************************************************************************)
EXTENDS Integers, Sequences

CONSTANTS
  Owner,     \* the thread that creates the objects and calls startLoop
  Loop,      \* the thread that Thread::start makes
  Tasks,     \* the closures queued on the loop
  WakeupFd,  \* wakeupFD_
  None,      \* nobody, nothing
  WakeMax,   \* the greatest value of an eventfd counter
  MaxQueue   \* bound: closures in taskqueue_

ASSUME LoopThreadAssumption ==
  /\ Owner # Loop
  /\ None \notin Tasks \cup {Owner, Loop}
  /\ WakeupFd # None
  /\ WakeMax \in Nat \ {0}
  /\ MaxQueue \in Nat

VARIABLES
  running, taskqueue, wakeups, readable, lpc, active, batch, current, pc,
             \* the EventLoop's, as in module EventLoop
  user,      \* what the owner has: a Thread, an EventLoopThread or a pool
  opc,       \* where the owner is
  tpc,       \* where the new thread is
  mutex,     \* who holds the latch's mutex and the EventLoopThread's
  count,     \* count_ of the latch
  tid,       \* tid_ has been stored
  loop,      \* loop_ is not null
  alive,     \* the EventLoop on the thread's stack exists
  stopped,   \* stop() has been called
  fault      \* what went wrong: the program is at its end

loopVars == <<running, taskqueue, wakeups, readable, lpc, active, batch,
              current, pc>>
startVars == <<user, opc, tpc, mutex, count, tid, loop, alive, stopped, fault>>
vars == <<loopVars, startVars>>

EL == INSTANCE EventLoop WITH Others <- {Owner}, Fds <- {}

TypeOK ==
  /\ EL!TypeOK
  /\ user \in {"thread", "loopthread", "pool"}
  /\ opc \in {"new", "latch", "test", "asleep", "lock", "look", "wait", "up",
              "joined", "gone"}
  /\ tpc \in {"none", "failed", "created", "latch", "count", "counted", "func",
              "build", "lock", "publish", "unlock", "loop", "done"}
  /\ mutex \in [{"latch", "loop"} -> {None, Owner, Loop}]
  /\ count \in 0..1
  /\ tid \in BOOLEAN
  /\ loop \in BOOLEAN
  /\ alive \in BOOLEAN
  /\ stopped \in BOOLEAN
  /\ fault \in {"none", "null", "tid", "join", "freed", "dangling"}

(* The constructors: a latch of one, no loop. *)
Init ==
  /\ EL!Init
  /\ user \in {"thread", "loopthread", "pool"}
  /\ opc = "new"
  /\ tpc = "none"
  /\ mutex = [m \in {"latch", "loop"} |-> None]
  /\ count = 1
  /\ tid = FALSE
  /\ loop = FALSE
  /\ alive = FALSE
  /\ stopped = FALSE
  /\ fault = "none"

Lock(m, t) == mutex[m] = None /\ mutex' = [mutex EXCEPT ![m] = t]
Unlock(m)  == mutex' = [mutex EXCEPT ![m] = None]

(* A signal, or a broadcast: the owner, the one thread that sleeps here,    *)
(* goes from its condition's wait back to the mutex it was taken with.      *)
Notify(asleep, awake) == opc' = IF opc = asleep THEN awake ELSE opc

Started == IF user = "thread" THEN "up" ELSE "lock"

-----------------------------------------------------------------------------
(* The owner: Thread::start, inside startLoop or by itself. *)

(* pthread_create may fail, which Thread::start only prints: startLoop goes *)
(* on to wait for a loop.                                                   *)
start ==
  /\ user # "pool"
  /\ opc = "new"
  /\ \/ tpc' = "created" /\ opc' = "latch"
     \/ tpc' = "failed" /\ opc' = Started
  /\ UNCHANGED <<loopVars, user, mutex, count, tid, loop, alive, stopped, fault>>

latchLock ==
  /\ opc = "latch"
  /\ Lock("latch", Owner)
  /\ opc' = "test"
  /\ UNCHANGED <<loopVars, user, tpc, count, tid, loop, alive, stopped, fault>>

(* latch_.wait(): while(count_); then assert(tid_ > 0). *)
latchWait ==
  /\ opc = "test"
  /\ Unlock("latch")
  /\ opc' = IF count # 0 THEN "asleep" ELSE Started
  /\ fault' = IF count = 0 /\ ~tid THEN "tid" ELSE fault
  /\ UNCHANGED <<loopVars, user, tpc, count, tid, loop, alive, stopped>>

loopLock ==
  /\ opc = "lock"
  /\ Lock("loop", Owner)
  /\ opc' = "look"
  /\ UNCHANGED <<loopVars, user, tpc, count, tid, loop, alive, stopped, fault>>

(* Mutant: if(loop_ == nullptr) where the code has while, seen when a       *)
(* wakeup is spurious.                                                      *)
loopWaitOnce ==
  /\ opc = "look"
  /\ Unlock("loop")
  /\ opc' \in IF loop THEN {"up"} ELSE {"wait", "up"}
  /\ UNCHANGED <<loopVars, user, tpc, count, tid, loop, alive, stopped, fault>>

(* startLoop: while(loop_ == nullptr) cond_.wait(), then it returns loop_.  *)
(* A second startLoop returns null and changes nothing.                     *)
loopWait ==
  /\ opc = "look"
  /\ Unlock("loop")
  /\ opc' = IF loop THEN "up" ELSE "wait"
  /\ UNCHANGED <<loopVars, user, tpc, count, tid, loop, alive, stopped, fault>>

(* pthread_cond_wait returns without a notification. *)
spuriousWakeup ==
  /\ \/ opc = "asleep" /\ opc' = "latch"
     \/ opc = "wait" /\ opc' = "lock"
  /\ UNCHANGED <<loopVars, user, tpc, mutex, count, tid, loop, alive, stopped, fault>>

(* Thread::join, which asserts started_. *)
join ==
  /\ user = "thread"
  /\ opc = "up"
  /\ \/ tpc = "done" /\ opc' = "joined" /\ UNCHANGED fault
     \/ tpc = "failed" /\ fault' = "join" /\ UNCHANGED opc
  /\ UNCHANGED <<loopVars, user, tpc, mutex, count, tid, loop, alive, stopped>>

(* ~Thread, which does not join, and ~EventLoopThread, whose test of loop_  *)
(* is the wrong way round: without a loop it calls stop() on it, with one   *)
(* it leaves the thread running.                                            *)
destroy ==
  /\ user # "pool"
  /\ opc \in {"new", "up", "joined"}
  /\ IF user = "loopthread" /\ ~loop
       THEN fault' = "null" /\ UNCHANGED opc
       ELSE opc' = "gone" /\ UNCHANGED fault
  /\ UNCHANGED <<loopVars, user, tpc, mutex, count, tid, loop, alive, stopped>>

(* EventLoopThreadPool::start: the constructor has filled pool_ with null   *)
(* pointers, the new EventLoopThread goes behind them, and pool_[0] is not  *)
(* it.                                                                      *)
poolStart ==
  /\ user = "pool"
  /\ fault' = "null"
  /\ UNCHANGED <<loopVars, user, opc, tpc, mutex, count, tid, loop, alive, stopped>>

-----------------------------------------------------------------------------
(* The new thread: ThreadData::runInThread. *)

runInThread ==
  /\ tpc = "created"
  /\ tid' = TRUE
  /\ tpc' = "latch"
  /\ UNCHANGED <<loopVars, user, opc, mutex, count, loop, alive, stopped, fault>>

countLock ==
  /\ tpc = "latch"
  /\ opc # "gone"
  /\ Lock("latch", Loop)
  /\ tpc' = "count"
  /\ UNCHANGED <<loopVars, user, opc, count, tid, loop, alive, stopped, fault>>

(* Mutant: countDown leaves the critical section before it notifies. *)
countDownUnlocked ==
  /\ tpc = "count"
  /\ opc # "gone"
  /\ count' = count - 1
  /\ Unlock("latch")
  /\ tpc' = "counted"
  /\ UNCHANGED <<loopVars, user, opc, tid, loop, alive, stopped, fault>>

(* Mutant: countDown without notifyAll. *)
countDownSilently ==
  /\ tpc = "count"
  /\ opc # "gone"
  /\ count' = count - 1
  /\ tpc' = "counted"
  /\ UNCHANGED <<loopVars, user, opc, mutex, tid, loop, alive, stopped, fault>>

(* latch_->countDown(): count_ reaches zero and the waiters are notified    *)
(* with the mutex still held.                                               *)
countDown ==
  /\ tpc = "count"
  /\ opc # "gone"
  /\ count' = count - 1
  /\ Notify("asleep", "latch")
  /\ tpc' = "counted"
  /\ UNCHANGED <<loopVars, user, mutex, tid, loop, alive, stopped, fault>>

(* countDown's guard releases the mutex; then func_(). *)
countUnlock ==
  /\ tpc = "counted"
  /\ opc # "gone"
  /\ Unlock("latch")
  /\ tpc' = IF user = "thread" THEN "func" ELSE "build"
  /\ UNCHANGED <<loopVars, user, opc, count, tid, loop, alive, stopped, fault>>

(* The function of a Thread that has no EventLoop returns. *)
func ==
  /\ tpc = "func"
  /\ tpc' = "done"
  /\ UNCHANGED <<loopVars, user, opc, mutex, count, tid, loop, alive, stopped, fault>>

-----------------------------------------------------------------------------
(* EventLoopThread::threadFunc. *)

build ==
  /\ tpc = "build"
  /\ alive' = TRUE
  /\ tpc' = "lock"
  /\ UNCHANGED <<loopVars, user, opc, mutex, count, tid, loop, stopped, fault>>

threadLock ==
  /\ tpc = "lock"
  /\ opc # "gone"
  /\ Lock("loop", Loop)
  /\ tpc' = "publish"
  /\ UNCHANGED <<loopVars, user, opc, count, tid, loop, alive, stopped, fault>>

publish ==
  /\ tpc = "publish"
  /\ opc # "gone"
  /\ loop' = TRUE
  /\ Notify("wait", "lock")
  /\ tpc' = "unlock"
  /\ UNCHANGED <<loopVars, user, mutex, count, tid, alive, stopped, fault>>

threadUnlock ==
  /\ tpc = "unlock"
  /\ opc # "gone"
  /\ Unlock("loop")
  /\ tpc' = "loop"
  /\ UNCHANGED <<loopVars, user, opc, count, tid, loop, alive, stopped, fault>>

(* A member of an object that the owner has destroyed is used. *)
useDestroyed ==
  /\ tpc \in {"latch", "count", "counted", "lock", "publish", "unlock"}
  /\ opc = "gone"
  /\ fault' = "freed"
  /\ UNCHANGED <<loopVars, user, opc, tpc, mutex, count, tid, loop, alive, stopped>>

(* loop.loop(), up to its end. *)
runLoop ==
  /\ tpc = "loop"
  /\ \/ EL!Enter
     \/ EL!LoopStep
     \/ EL!Return
     \/ EL!wakeup(Loop)
  /\ UNCHANGED startVars

(* What it may do, without having to: let poll time out, and queue a        *)
(* closure or stop the loop from a closure.                                 *)
loopMay ==
  /\ tpc = "loop"
  /\ \/ EL!Timeout /\ UNCHANGED stopped
     \/ /\ lpc = "task"
        /\ \E task \in Tasks : EL!queueInloop(Loop, task)
        /\ UNCHANGED stopped
     \/ lpc = "task" /\ EL!stop(Loop) /\ stopped' = TRUE
  /\ UNCHANGED <<user, opc, tpc, mutex, count, tid, loop, alive, fault>>

(* threadFunc returns and takes the EventLoop with it. *)
leave ==
  /\ tpc = "loop"
  /\ lpc = "exit"
  /\ alive' = FALSE
  /\ tpc' = "done"
  /\ UNCHANGED <<loopVars, user, opc, mutex, count, tid, loop, stopped, fault>>

-----------------------------------------------------------------------------
(* The owner uses the pointer that startLoop returned. *)

HasLoop == user = "loopthread" /\ opc \in {"up", "gone"}

(* Mutant: the wakeup is left out, as if the loop were always about to      *)
(* look.                                                                    *)
callLoopSilently ==
  /\ HasLoop
  /\ alive
  /\ EL!stopSilently(Owner)
  /\ stopped' = TRUE
  /\ UNCHANGED <<user, opc, tpc, mutex, count, tid, loop, alive, fault>>

callLoop ==
  /\ HasLoop
  /\ alive
  /\ \/ (\E task \in Tasks : EL!queueInloop(Owner, task)) /\ UNCHANGED stopped
     \/ EL!stop(Owner) /\ stopped' = TRUE
  /\ UNCHANGED <<user, opc, tpc, mutex, count, tid, loop, alive, fault>>

(* The second half of queueInloop or stop.  The loop may have left since    *)
(* the first half, and taken the eventfd with it.                           *)
wakeup ==
  /\ HasLoop
  /\ IF alive
       THEN EL!wakeup(Owner) /\ UNCHANGED fault
       ELSE pc[Owner] = "wake" /\ fault' = "dangling" /\ UNCHANGED loopVars
  /\ UNCHANGED <<user, opc, tpc, mutex, count, tid, loop, alive, stopped>>

-----------------------------------------------------------------------------
OwnerStep == latchLock \/ latchWait \/ loopLock \/ loopWait

ThreadStep ==
  \/ runInThread \/ countLock \/ countDown \/ countUnlock \/ func
  \/ build \/ threadLock \/ publish \/ threadUnlock \/ useDestroyed
  \/ runLoop \/ leave

(* Nothing more has to happen. *)
Over ==
  /\ \/ fault # "none"
     \/ opc = "gone" /\ tpc \in {"none", "failed", "done"}
  /\ UNCHANGED vars

Next ==
  \/ fault = "none" /\ OwnerStep
  \/ fault = "none" /\ ThreadStep
  \/ fault = "none" /\ wakeup
  \/ fault = "none" /\ (start \/ spuriousWakeup \/ join \/ destroy \/ poolStart)
  \/ fault = "none" /\ (loopMay \/ callLoop)
  \/ Over

Spec == Init /\ [][Next]_vars

(* Fairness: both threads keep being scheduled, callbacks return, and the   *)
(* new thread gets a mutex that the owner takes and gives back for as long  *)
(* as its wakeups are spurious.  Nobody has to start, queue, stop or        *)
(* destroy.                                                                 *)
Fairness ==
  /\ WF_vars(fault = "none" /\ OwnerStep)
  /\ SF_vars(fault = "none" /\ ThreadStep)
  /\ WF_vars(fault = "none" /\ wakeup)

FairSpec == Spec /\ Fairness

=============================================================================
