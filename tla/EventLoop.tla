----------------------------- MODULE EventLoop ------------------------------
(***************************************************************************)
(* One EventLoop (EventLoop.h, EventLoop.cpp): the thread that runs        *)
(* loop(), and the threads that hand it closures through runInloop /       *)
(* queueInloop or end it through stop().                                   *)
(*                                                                         *)
(* A step is what one thread does between two points where another thread  *)
(* can see or change the loop's shared state: taskqueue_ (under            *)
(* mutexTask_, whose two critical sections are a push_back and a swap and  *)
(* so are single steps), the eventfd counter, and running_.  queueInloop   *)
(* and stop are therefore two steps each, the second being wakeup().       *)
(*                                                                         *)
(* runInloop called on the loop's own thread runs the closure in place and *)
(* touches none of this state; on another thread it is queueInloop.        *)
(***************************************************************************)
EXTENDS Naturals, Sequences

CONSTANTS
  Loop,       \* the thread that built the EventLoop (tid_) and calls loop()
  Others,     \* the other threads that hold a pointer to the EventLoop
  Tasks,      \* the closures they queue
  Fds,        \* the descriptors the user registered with the loop
  WakeupFd,   \* wakeupFD_, the eventfd registered by the constructor
  None,       \* no callback is running
  WakeMax,    \* the greatest value of an eventfd counter (2^64 - 2)
  MaxQueue    \* bound: closures in taskqueue_

ASSUME LoopAssumption ==
  /\ Loop \notin Others
  /\ WakeupFd \notin Fds
  /\ None \notin Tasks \cup Fds
  /\ Tasks \cap Fds = {}
  /\ WakeMax \in Nat \ {0}
  /\ MaxQueue \in Nat

VARIABLES
  running,    \* running_
  taskqueue,  \* taskqueue_
  wakeups,    \* the counter of wakeupFD_
  readable,   \* the user's descriptors that epoll would report
  lpc,        \* where the loop's thread is
  active,     \* activeChannels_ not dispatched yet
  batch,      \* the closures swapped out by handleTask and not run yet
  current,    \* the closure, or the descriptor whose handler, is running
  pc          \* per thread: "wake" between the two steps of queueInloop / stop

vars == <<running, taskqueue, wakeups, readable, lpc, active, batch, current,
          pc>>

Threads == Others \cup {Loop}

TypeOK ==
  /\ running \in BOOLEAN
  /\ taskqueue \in Seq(Tasks)
  /\ wakeups \in 0..WakeMax
  /\ readable \subseteq Fds
  /\ lpc \in {"init", "while", "wait", "dispatch", "handler", "tasks", "task",
              "exit"}
  /\ active \subseteq Fds \cup {WakeupFd}
  /\ batch \in Seq(Tasks)
  /\ current \in Tasks \cup Fds \cup {None}
  /\ pc \in [Threads -> {"idle", "wake"}]

(* The constructor: nothing queued, the wakeup channel registered, running_ *)
(* false until loop() is entered.                                           *)
Init ==
  /\ running = FALSE
  /\ taskqueue = <<>>
  /\ wakeups = 0
  /\ readable = {}
  /\ lpc = "init"
  /\ active = {}
  /\ batch = <<>>
  /\ current = None
  /\ pc = [t \in Threads |-> "idle"]

-----------------------------------------------------------------------------
(* Calls made on the EventLoop.  The loop's own thread makes them before    *)
(* it enters loop(), from a callback, or after loop() has returned.         *)

CanCall(t) ==
  /\ pc[t] = "idle"
  /\ t = Loop => lpc \in {"init", "handler", "task", "exit"}

(* Mutant: the loop's own thread does not wake the loop. *)
queueInloopLocal(t, task) ==
  /\ CanCall(t)
  /\ Len(taskqueue) < MaxQueue
  /\ taskqueue' = Append(taskqueue, task)
  /\ pc' = IF t = Loop THEN pc ELSE [pc EXCEPT ![t] = "wake"]
  /\ UNCHANGED <<running, wakeups, readable, lpc, active, batch, current>>

(* queueInloop, first half: push_back under mutexTask_. *)
queueInloop(t, task) ==
  /\ CanCall(t)
  /\ Len(taskqueue) < MaxQueue
  /\ taskqueue' = Append(taskqueue, task)
  /\ pc' = [pc EXCEPT ![t] = "wake"]
  /\ UNCHANGED <<running, wakeups, readable, lpc, active, batch, current>>

(* Mutant: stop without wakeup. *)
stopSilently(t) ==
  /\ CanCall(t)
  /\ running' = FALSE
  /\ UNCHANGED <<taskqueue, wakeups, readable, lpc, active, batch, current, pc>>

(* stop, first half: the plain store to running_. *)
stop(t) ==
  /\ CanCall(t)
  /\ running' = FALSE
  /\ pc' = [pc EXCEPT ![t] = "wake"]
  /\ UNCHANGED <<taskqueue, wakeups, readable, lpc, active, batch, current>>

(* wakeup: eventfd_write(1).  The descriptor is non-blocking, so a write    *)
(* that would overflow the counter fails and leaves it as it was.           *)
wakeup(t) ==
  /\ pc[t] = "wake"
  /\ wakeups' = IF wakeups < WakeMax THEN wakeups + 1 ELSE wakeups
  /\ pc' = [pc EXCEPT ![t] = "idle"]
  /\ UNCHANGED <<running, taskqueue, readable, lpc, active, batch, current>>

-----------------------------------------------------------------------------
(* loop().  Every step is taken by the loop's own thread, which therefore   *)
(* is not in the middle of a queueInloop or a stop of its own.              *)

LoopAt(l) == lpc = l /\ pc[Loop] = "idle"

Enter ==
  /\ LoopAt("init")
  /\ running' = TRUE
  /\ lpc' = "while"
  /\ UNCHANGED <<taskqueue, wakeups, readable, active, batch, current, pc>>

While ==
  /\ LoopAt("while")
  /\ active' = {}
  /\ lpc' = IF running THEN "wait" ELSE "exit"
  /\ UNCHANGED <<running, taskqueue, wakeups, readable, batch, current, pc>>

Reported == readable \cup {w \in {WakeupFd} : wakeups > 0}

(* poll_->wait with at least one descriptor ready.  epoll is level          *)
(* triggered and reports every one of them, in an order the dispatch below  *)
(* leaves open.                                                             *)
Wait ==
  /\ LoopAt("wait")
  /\ Reported # {}
  /\ active' = Reported
  /\ lpc' = "dispatch"
  /\ UNCHANGED <<running, taskqueue, wakeups, readable, batch, current, pc>>

(* poll_->wait returning 0 after ktimeoutMS. *)
Timeout ==
  /\ LoopAt("wait")
  /\ Reported = {}
  /\ lpc' = "dispatch"
  /\ UNCHANGED <<running, taskqueue, wakeups, readable, active, batch, current, pc>>

(* handleEvent of the wakeup channel: handleRead reads the counter to 0. *)
handleRead ==
  /\ LoopAt("dispatch")
  /\ WakeupFd \in active
  /\ active' = active \ {WakeupFd}
  /\ wakeups' = 0
  /\ UNCHANGED <<running, taskqueue, readable, lpc, batch, current, pc>>

(* handleEvent of a user's channel: the handler may or may not read all     *)
(* there is.                                                                *)
handleEvent(fd) ==
  /\ LoopAt("dispatch")
  /\ fd \in active \cap Fds
  /\ active' = active \ {fd}
  /\ readable' \in {readable, readable \ {fd}}
  /\ current' = fd
  /\ lpc' = "handler"
  /\ UNCHANGED <<running, taskqueue, wakeups, batch, pc>>

(* Mutant: a copy of taskqueue_ where the code swaps. *)
handleTaskCopy ==
  /\ LoopAt("dispatch")
  /\ active = {}
  /\ batch' = taskqueue
  /\ lpc' = "tasks"
  /\ UNCHANGED <<running, taskqueue, wakeups, readable, active, current, pc>>

(* handleTask, first half: the swap under mutexTask_. *)
handleTask ==
  /\ LoopAt("dispatch")
  /\ active = {}
  /\ batch' = taskqueue
  /\ taskqueue' = <<>>
  /\ lpc' = "tasks"
  /\ UNCHANGED <<running, wakeups, readable, active, current, pc>>

(* handleTask, second half: for(auto &cb:tasks) cb(). *)
RunTask ==
  /\ LoopAt("tasks")
  /\ batch # <<>>
  /\ current' = Head(batch)
  /\ batch' = Tail(batch)
  /\ lpc' = "task"
  /\ UNCHANGED <<running, taskqueue, wakeups, readable, active, pc>>

(* Mutant: handleTask goes on until taskqueue_ is empty. *)
EndTasksDrain ==
  /\ LoopAt("tasks")
  /\ batch = <<>>
  /\ batch' = taskqueue
  /\ taskqueue' = <<>>
  /\ lpc' = IF taskqueue = <<>> THEN "while" ELSE "tasks"
  /\ UNCHANGED <<running, wakeups, readable, active, current, pc>>

EndTasks ==
  /\ LoopAt("tasks")
  /\ batch = <<>>
  /\ lpc' = "while"
  /\ UNCHANGED <<running, taskqueue, wakeups, readable, active, batch, current, pc>>

(* A callback, handler or task, returns to loop(). *)
Return ==
  /\ \/ LoopAt("handler") /\ lpc' = "dispatch"
     \/ LoopAt("task") /\ lpc' = "tasks"
  /\ current' = None
  /\ UNCHANGED <<running, taskqueue, wakeups, readable, active, batch, pc>>

-----------------------------------------------------------------------------
(* The kernel: data, a connection or room to write arrives on a descriptor. *)
Arrive(fd) ==
  /\ fd \notin readable
  /\ readable' = readable \cup {fd}
  /\ UNCHANGED <<running, taskqueue, wakeups, lpc, active, batch, current, pc>>

LoopStep ==
  \/ While
  \/ Wait
  \/ handleRead
  \/ \E fd \in Fds : handleEvent(fd)
  \/ handleTask
  \/ RunTask
  \/ EndTasks

Next ==
  \/ \E t \in Threads, task \in Tasks : queueInloop(t, task)
  \/ \E t \in Threads : stop(t)
  \/ \E t \in Threads : wakeup(t)
  \/ Enter
  \/ LoopStep
  \/ Timeout
  \/ Return
  \/ \E fd \in Fds : Arrive(fd)

Spec == Init /\ [][Next]_vars

(* Fairness: the thread that built the loop goes on to call loop(), however *)
(* often it queues or stops first, and keeps being scheduled; a thread      *)
(* inside queueInloop or stop reaches the eventfd write; callbacks return   *)
(* (loop()'s comment asks for callbacks that do not block), however often   *)
(* they call back into the loop.  The poll's timeout is not assumed:        *)
(* nothing below rests on the 10 s tick.                                    *)
Fairness ==
  /\ SF_vars(Enter)
  /\ WF_vars(LoopStep)
  /\ SF_vars(Return)
  /\ \A t \in Threads : WF_vars(wakeup(t))

FairSpec == Spec /\ Fairness

=============================================================================
