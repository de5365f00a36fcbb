----------------------------- MODULE TcpServer ------------------------------
(***************************************************************************)
(* A TcpServer with its Acceptor and its sub-loops (TcpServer.h,           *)
(* TcpServer.cpp, Acceptor.cpp): the life of its connections, from the     *)
(* accept on the main thread to the close on a sub-loop's, in connsMap_,   *)
(* in the sub-loops' EPollers (EPoller.cpp) and in the kernel, whose       *)
(* descriptor numbers are used again.                                      *)
(*                                                                         *)
(* The main thread's and the sub-loops' steps are as fine as the state     *)
(* they share: a call into another thread's EPoller, a search of connsMap_ *)
(* without its mutex and each callback set on the new connection are       *)
(* steps.  What a connection reads and writes is module TcpConnection; the *)
(* one effect kept here is a send that is caught by the close and has the  *)
(* descriptor registered again.                                            *)
(*                                                                         *)
(* The EventLoopThreadPool is taken as started, each of its loops running. *)
(***************************************************************************)
EXTENDS Integers, FiniteSets

CONSTANTS
  NumLoops,   \* maxLoop_ of etPool_
  Fds,        \* the descriptor numbers the kernel can give to a connection
  MaxConns,   \* bound: connections made by onConnectEstablish
  Kept,       \* bound: the connections the user may keep a connPtr of
  Main,       \* the thread of mainLoop_
  None        \* no thread

ASSUME ServerAssumption ==
  /\ NumLoops \in Nat \ {0}
  /\ Fds \subseteq Nat
  /\ MaxConns \in Nat
  /\ Kept \subseteq 1..MaxConns
  /\ Main # None
  /\ {Main, None} \cap (0..NumLoops - 1) = {}

Loops == 0..NumLoops - 1    \* the sub-loops, as getNextLoop numbers them
Conns == 1..MaxConns        \* connections in the order they are made; 0: none
NoFd  == -1                 \* the connfd of an accept that failed

VARIABLES
  made,       \* the number of connections made so far
  fdOf,       \* per connection: the descriptor number of its Socket
  files,      \* per number: the connection whose socket it is in the kernel
  watched,    \* the connections whose socket an epoll instance reports
  fin,        \* the connections whose peer has closed
  closed,     \* the connections that handleClose has run for (state_)
  ueventMap,  \* per sub-loop: ueventMap_ of its EPoller
  stale,      \* the entries left in a ueventMap_ by deleted connections
  connsMap,   \* connsMap_
  mapHolder,  \* who holds connsMapMutex_
  callbacks,  \* per connection: those of its callbacks that are set
  mpc, newConn,     \* where the main thread is; its connection in hand
  spc, cur, ready,  \* per sub-loop: where it is; the connection whose handler
                    \* runs; those of activeChannels_ that are to come
  user,       \* the connections of which the user keeps a connPtr
  sending,    \* the connections for which a send is queued
  swapped,    \* those that have a send in the vector handleTask runs
  fault       \* the undefined behaviour or failed assertion met

vars == <<made, fdOf, files, watched, fin, closed, ueventMap, stale,
          connsMap, mapHolder, callbacks, mpc, newConn, spc, cur, ready, user, sending,
          swapped, fault>>
mainVars   == <<made, fdOf, mpc, newConn>>
loopVars   == <<spc, cur, ready>>
kernelVars == <<files, watched>>

(* getNextLoop: index_ % maxLoop_, one loop after the other. *)
getNextLoop(c) == (c - 1) % NumLoops

TypeOK ==
  /\ made \in 0..MaxConns
  /\ fdOf \in [Conns -> Fds \cup {NoFd}]
  /\ files \in [Fds -> Conns \cup {0}]
  /\ watched \subseteq Conns
  /\ fin \subseteq Conns
  /\ closed \subseteq Conns
  /\ ueventMap \in [Loops -> [Fds \cup {NoFd} -> Conns \cup {0}]]
  /\ stale \subseteq Loops \X Fds
  /\ connsMap \in [Fds \cup {NoFd} -> Conns \cup {0}]
  /\ mapHolder \in Loops \cup {Main, None}
  /\ callbacks \in [Conns -> SUBSET {"read", "disconnect"}]
  /\ mpc \in {"accept", "register", "lock", "insert", "read",
              "disconnect", "connected"}
  /\ newConn \in Conns \cup {0}
  /\ spc \in [Loops -> {"poll", "dispatch", "find", "lock", "erase",
                     "tasks"}]
  /\ cur \in [Loops -> Conns \cup {0}]
  /\ ready \in [Loops -> SUBSET Conns]
  /\ user \subseteq Conns
  /\ sending \subseteq Conns
  /\ swapped \subseteq Conns
  /\ fault \in {"none", "missing", "freed", "poller", "map", "callback"}

Init ==
  /\ made = 0
  /\ fdOf = [c \in Conns |-> NoFd]
  /\ files = [fd \in Fds |-> 0]
  /\ watched = {}
  /\ fin = {}
  /\ closed = {}
  /\ ueventMap = [l \in Loops |-> [fd \in Fds \cup {NoFd} |-> 0]]
  /\ stale = {}
  /\ connsMap = [fd \in Fds \cup {NoFd} |-> 0]
  /\ mapHolder = None
  /\ callbacks = [c \in Conns |-> {}]
  /\ mpc = "accept"
  /\ newConn = 0
  /\ spc = [l \in Loops |-> "poll"]
  /\ cur = [l \in Loops |-> 0]
  /\ ready = [l \in Loops |-> {}]
  /\ user = {}
  /\ sending = {}
  /\ swapped = {}
  /\ fault = "none"

-----------------------------------------------------------------------------
(* Shared state. *)

(* connPtr's: c is owned by connsMap_, by onConnectEstablish's newConn, by  *)
(* the user or by a queued closure.                                         *)
Referenced(c) ==
  \/ \E fd \in DOMAIN connsMap : connsMap[fd] = c
  \/ newConn = c
  \/ c \in user
  \/ c \in sending \cup swapped

Alive == {c \in 1..made : Referenced(c)}

(* ~TcpConnection for those whose last connPtr a step let go: ~Socket       *)
(* closes the number, whatever it is the number of by now; the kernel takes *)
(* the socket out of epoll, and nothing takes the entry out of ueventMap_.  *)
Destroy(gone) ==
  LET numbers == {fdOf[c] : c \in gone} IN
  /\ files' = [fd \in Fds |-> IF fd \in numbers THEN 0 ELSE files[fd]]
  /\ watched' = watched \ {files[fd] : fd \in numbers \cap Fds}
  /\ stale' = stale \cup {e \in Loops \X Fds : ueventMap[e[1]][e[2]] \in gone}

DestroyUnreferenced == Destroy(Alive \ Alive')

(* EPoller::updateChannel for c's channel on loop l: EPOLL_CTL_ADD for a    *)
(* number that is new to ueventMap_, EPOLL_CTL_MOD for one that is in it.   *)
(* The kernel refuses the descriptor -1 and the modification of what it     *)
(* does not watch; neither result is looked at.                             *)
updateChannel(l, c) ==
  /\ ueventMap' = [ueventMap EXCEPT ![l][fdOf[c]] = c]
  /\ watched' = IF fdOf[c] # NoFd /\ ueventMap[l][fdOf[c]] = 0
                  THEN watched \cup {c} ELSE watched

(* EPoller::removeChannel: the entry is erased, EPOLL_CTL_DEL. *)
removeChannel(l, c) ==
  /\ ueventMap' = [ueventMap EXCEPT ![l][fdOf[c]] = 0]
  /\ watched' = watched \ {c}

(* The main thread is inside updateChannel of loop l: its two maps are      *)
(* being changed.                                                           *)
Registering(l) == mpc = "register" /\ getNextLoop(newConn) = l

-----------------------------------------------------------------------------
(* The main thread: Acceptor::handleRead, one connection per event of the   *)
(* listening socket, and TcpServer::onConnectEstablish.                     *)

(* sockets::accept: the kernel gives a number that is free, or accept fails *)
(* and returns -1.                                                          *)
accept(fd) == fd # NoFd => files[fd] = 0

(* accept, then getNextLoop and the TcpConnection's constructor up to       *)
(* updateChannel.  An accept that fails goes on with connfd -1.             *)
handleRead(fd) ==
  /\ mpc = "accept"
  /\ made < MaxConns
  /\ accept(fd)
  /\ made' = made + 1
  /\ newConn' = made'
  /\ fdOf' = [fdOf EXCEPT ![made'] = fd]
  /\ files' = [f \in Fds |-> IF f = fd THEN made' ELSE files[f]]
  /\ mpc' = "register"
  /\ UNCHANGED <<watched, fin, closed, ueventMap, stale, connsMap, mapHolder,
                 callbacks, loopVars, user, sending, swapped, fault>>

(* Mutant: the callbacks are set before the connection is in connsMap_. *)
registerCallbacksFirst ==
  /\ mpc = "register"
  /\ updateChannel(getNextLoop(newConn), newConn)
  /\ mpc' = "lock"
  /\ callbacks' = [callbacks EXCEPT ![newConn] = {"read", "disconnect"}]
  /\ UNCHANGED <<made, fdOf, newConn, files, fin, closed, stale, connsMap, mapHolder,
                 loopVars, user, sending, swapped, fault>>

(* The constructor's enableRead, on the main thread, for a loop that runs   *)
(* on another one.                                                          *)
register ==
  /\ mpc = "register"
  /\ updateChannel(getNextLoop(newConn), newConn)
  /\ mpc' = "lock"
  /\ UNCHANGED <<made, fdOf, newConn, files, fin, closed, stale, connsMap, mapHolder,
                 callbacks, loopVars, user, sending, swapped, fault>>

insertLock ==
  /\ mpc = "lock"
  /\ mapHolder = None
  /\ mapHolder' = Main
  /\ mpc' = "insert"
  /\ UNCHANGED <<made, fdOf, newConn, kernelVars, fin, closed, ueventMap, stale,
                 connsMap, callbacks, loopVars, user, sending, swapped, fault>>

(* Mutant: onConnectEstablish keeps no connPtr of the connection. *)
insertNothing ==
  /\ mpc = "insert"
  /\ mapHolder' = None
  /\ mpc' = "read"
  /\ UNCHANGED <<made, fdOf, newConn, kernelVars, fin, closed, ueventMap, stale,
                 connsMap, callbacks, loopVars, user, sending, swapped, fault>>

(* connsMap_.insert, which leaves a connection that is there as it is. *)
insert ==
  /\ mpc = "insert"
  /\ connsMap' = IF connsMap[fdOf[newConn]] = 0
                   THEN [connsMap EXCEPT ![fdOf[newConn]] = newConn]
                   ELSE connsMap
  /\ mapHolder' = None
  /\ mpc' = "read"
  /\ UNCHANGED <<made, fdOf, newConn, kernelVars, fin, closed, ueventMap, stale,
                 callbacks, loopVars, user, sending, swapped, fault>>

(* A std::function of the new connection is assigned: undefined behaviour   *)
(* if its sub-loop is in a handler that reads it.                           *)
SetCallBack(b) ==
  LET l == getNextLoop(newConn) IN
  /\ mpc = b
  /\ callbacks' = [callbacks EXCEPT ![newConn] = @ \cup {b}]
  /\ fault' \in IF spc[l] = "dispatch" /\ newConn \in ready[l]
                  THEN {fault, "callback"} ELSE {fault}
  /\ UNCHANGED <<made, fdOf, newConn, kernelVars, fin, closed, ueventMap, stale,
                 connsMap, mapHolder, loopVars, user, sending, swapped>>

setReadCallBack == SetCallBack("read") /\ mpc' = "disconnect"

setDisconnectCallBack == SetCallBack("disconnect") /\ mpc' = "connected"

(* onConnect_(newConn), from which the user may keep a connPtr; then        *)
(* onConnectEstablish returns and lets go of its own.                       *)
onConnect ==
  /\ mpc = "connected"
  /\ user' \in {user, user \cup ({newConn} \cap Kept)}
  /\ newConn' = 0
  /\ mpc' = "accept"
  /\ UNCHANGED <<made, fdOf, fin, closed, ueventMap, connsMap, mapHolder, callbacks,
                 loopVars, sending, swapped, fault>>
  /\ DestroyUnreferenced

MainStep ==
  \/ register \/ insertLock \/ insert \/ setReadCallBack
  \/ setDisconnectCallBack \/ onConnect

-----------------------------------------------------------------------------
(* A sub-loop. *)

(* EPoller::wait reports every connection whose peer has closed and any of  *)
(* those that may have sent something, and the wakeup of a queueInloop; it  *)
(* searches ueventMap_ for each of them.                                    *)
poll(l) ==
  /\ spc[l] = "poll"
  /\ \E reported \in SUBSET {c \in watched : getNextLoop(c) = l} :
       /\ reported # {} \/ \E c \in sending : getNextLoop(c) = l
       /\ \A c \in watched \ reported : getNextLoop(c) = l => c \notin fin \ closed
       /\ ready' = [ready EXCEPT ![l] = reported]
  /\ IF Registering(l)
       THEN fault' = "poller" /\ UNCHANGED spc
       ELSE spc' = [spc EXCEPT ![l] = "dispatch"] /\ UNCHANGED fault
  /\ UNCHANGED <<mainVars, kernelVars, fin, closed, ueventMap, stale, connsMap,
                 mapHolder, callbacks, cur, user, sending, swapped>>

(* handleEvent of a channel that went with its connection. *)
useFreed(l, c) ==
  /\ spc[l] = "dispatch"
  /\ c \in ready[l] \ Alive
  /\ fault' = "freed"
  /\ UNCHANGED <<mainVars, kernelVars, fin, closed, ueventMap, stale, connsMap,
                 mapHolder, callbacks, loopVars, user, sending, swapped>>

(* handleRead of bytes: onMessage_ gives the user a connPtr to keep. *)
handleMessage(l, c) ==
  /\ spc[l] = "dispatch"
  /\ c \in (ready[l] \cap Alive) \ (fin \cup closed)
  /\ ready' = [ready EXCEPT ![l] = @ \ {c}]
  /\ \/ UNCHANGED user
     \/ "read" \in callbacks[c] /\ user' = user \cup ({c} \cap Kept)
  /\ UNCHANGED <<mainVars, kernelVars, fin, closed, ueventMap, stale, connsMap,
                 mapHolder, callbacks, spc, cur, sending, swapped, fault>>

(* Mutant: handleClose closes the descriptor itself (the line commented out *)
(* at TcpConnection.cpp:310).                                               *)
handleCloseAtOnce(l, c) ==
  /\ spc[l] = "dispatch"
  /\ c \in (ready[l] \cap Alive \cap fin) \ closed
  /\ closed' = closed \cup {c}
  /\ ready' = [ready EXCEPT ![l] = @ \ {c}]
  /\ removeChannel(l, c)
  /\ files' = [fd \in Fds |-> IF fd = fdOf[c] THEN 0 ELSE files[fd]]
  /\ IF "disconnect" \in callbacks[c]
       THEN /\ spc' = [spc EXCEPT ![l] = "find"]
            /\ cur' = [cur EXCEPT ![l] = c]
       ELSE UNCHANGED <<spc, cur>>
  /\ UNCHANGED <<mainVars, fin, stale, connsMap, mapHolder, callbacks, user,
                 sending, swapped, fault>>

(* handleRead of 0 bytes calls handleClose: disableAll, and onDisconnect_   *)
(* when it is set already.                                                  *)
handleClose(l, c) ==
  /\ spc[l] = "dispatch"
  /\ c \in (ready[l] \cap Alive \cap fin) \ closed
  /\ closed' = closed \cup {c}
  /\ ready' = [ready EXCEPT ![l] = @ \ {c}]
  /\ IF Registering(l)
       THEN fault' = "poller" /\ UNCHANGED <<ueventMap, watched>>
       ELSE removeChannel(l, c) /\ UNCHANGED fault
  /\ IF "disconnect" \in callbacks[c]
       THEN /\ spc' = [spc EXCEPT ![l] = "find"]
            /\ cur' = [cur EXCEPT ![l] = c]
       ELSE UNCHANGED <<spc, cur>>
  /\ UNCHANGED <<mainVars, files, fin, stale, connsMap, mapHolder, callbacks,
                 user, sending, swapped>>

(* handleWrite of a connection that was registered again after its close:   *)
(* some of what waits is sent, or the rest of it, and disableWrite.         *)
handleWrite(l, c) ==
  /\ spc[l] = "dispatch"
  /\ c \in ready[l] \cap Alive \cap closed
  /\ ready' = [ready EXCEPT ![l] = @ \ {c}]
  /\ \/ UNCHANGED <<ueventMap, watched, fault>>
     \/ Registering(l) /\ fault' = "poller" /\ UNCHANGED <<ueventMap, watched>>
     \/ ~Registering(l) /\ removeChannel(l, c) /\ UNCHANGED fault
  /\ UNCHANGED <<mainVars, files, fin, closed, stale, connsMap, mapHolder,
                 callbacks, spc, cur, user, sending, swapped>>

(* TcpServer::removeConnect: connsMap_.find without the mutex, and the      *)
(* assertion.                                                               *)
find(l) ==
  /\ spc[l] = "find"
  /\ spc' = [spc EXCEPT ![l] = "lock"]
  /\ fault' = IF mapHolder # None THEN "map"
              ELSE IF connsMap[fdOf[cur[l]]] = 0 THEN "missing" ELSE fault
  /\ UNCHANGED <<mainVars, kernelVars, fin, closed, ueventMap, stale, connsMap,
                 mapHolder, callbacks, cur, ready, user, sending, swapped>>

eraseLock(l) ==
  /\ spc[l] = "lock"
  /\ mapHolder = None
  /\ mapHolder' = l
  /\ spc' = [spc EXCEPT ![l] = "erase"]
  /\ UNCHANGED <<mainVars, kernelVars, fin, closed, ueventMap, stale, connsMap,
                 callbacks, cur, ready, user, sending, swapped, fault>>

(* Mutant: removeConnect forgets the erase. *)
eraseNothing(l) ==
  /\ spc[l] = "erase"
  /\ mapHolder' = None
  /\ spc' = [spc EXCEPT ![l] = "dispatch"]
  /\ cur' = [cur EXCEPT ![l] = 0]
  /\ UNCHANGED <<mainVars, kernelVars, fin, closed, ueventMap, stale, connsMap,
                 callbacks, ready, user, sending, swapped, fault>>

(* connsMap_.erase, which may delete the connection; then onDisConnect_. *)
erase(l) ==
  /\ spc[l] = "erase"
  /\ connsMap' = [connsMap EXCEPT ![fdOf[cur[l]]] = 0]
  /\ mapHolder' = None
  /\ spc' = [spc EXCEPT ![l] = "dispatch"]
  /\ cur' = [cur EXCEPT ![l] = 0]
  /\ UNCHANGED <<mainVars, fin, closed, ueventMap, callbacks, ready, user, sending, swapped,
                 fault>>
  /\ DestroyUnreferenced

(* All handlers have run; handleTask swaps the queue of closures. *)
handleTask(l) ==
  /\ spc[l] = "dispatch"
  /\ ready[l] = {}
  /\ spc' = [spc EXCEPT ![l] = "tasks"]
  /\ swapped' = swapped \cup {c \in sending : getNextLoop(c) = l}
  /\ sending' = {c \in sending : getNextLoop(c) # l}
  /\ UNCHANGED <<mainVars, kernelVars, fin, closed, ueventMap, stale, connsMap,
                 mapHolder, callbacks, cur, ready, user, fault>>

(* sendInloop, where it does not get rid of all its bytes: it enables       *)
(* writing, and the descriptor is registered, again if the connection was   *)
(* closed.  A send to the number -1 fails, which is all that comes of it.   *)
sendInloop(l, c) ==
  /\ spc[l] = "tasks"
  /\ c \in swapped
  /\ getNextLoop(c) = l
  /\ fdOf[c] # NoFd
  /\ IF Registering(l)
       THEN fault' = "poller" /\ UNCHANGED <<ueventMap, watched>>
       ELSE updateChannel(l, c) /\ UNCHANGED fault
  /\ UNCHANGED <<mainVars, files, fin, closed, stale, connsMap, mapHolder, callbacks,
                 loopVars, user, sending, swapped>>

(* All closures have run, those that sent everything without a trace here:  *)
(* the vector goes, with the connPtr of each of them, and the loop polls.   *)
endIteration(l) ==
  /\ spc[l] = "tasks"
  /\ spc' = [spc EXCEPT ![l] = "poll"]
  /\ swapped' = {c \in swapped : getNextLoop(c) # l}
  /\ UNCHANGED <<mainVars, fin, closed, ueventMap, connsMap, mapHolder, callbacks,
                 cur, ready, user, sending, fault>>
  /\ DestroyUnreferenced

LoopStep(l) ==
  \/ poll(l) \/ find(l) \/ eraseLock(l) \/ erase(l)
  \/ handleTask(l) \/ endIteration(l)
  \/ \E c \in Conns : useFreed(l, c) \/ handleMessage(l, c)
                      \/ handleClose(l, c) \/ handleWrite(l, c)
                      \/ sendInloop(l, c)

-----------------------------------------------------------------------------
(* The user's threads and the peers. *)

(* send tests state_, and queues sendInloop with a connPtr. *)
send(c) ==
  /\ c \in user
  /\ c \notin closed
  /\ sending' = sending \cup {c}
  /\ UNCHANGED <<mainVars, kernelVars, fin, closed, ueventMap, stale, connsMap,
                 mapHolder, callbacks, loopVars, user, swapped, fault>>

release(c) ==
  /\ c \in user
  /\ user' = user \ {c}
  /\ UNCHANGED <<mainVars, fin, closed, ueventMap, connsMap, mapHolder, callbacks,
                 loopVars, sending, swapped, fault>>
  /\ DestroyUnreferenced

peerCloses(c) ==
  /\ c \in 1..made
  /\ fdOf[c] # NoFd
  /\ c \notin fin
  /\ fin' = fin \cup {c}
  /\ UNCHANGED <<mainVars, kernelVars, closed, ueventMap, stale, connsMap,
                 mapHolder, callbacks, loopVars, user, sending, swapped, fault>>

(* The program is at its end, or nothing is left to happen to it. *)
Over ==
  /\ \/ fault # "none"
     \/ made = MaxConns
  /\ UNCHANGED vars

Next ==
  \/ fault = "none" /\ \E fd \in Fds \cup {NoFd} : handleRead(fd)
  \/ fault = "none" /\ MainStep
  \/ fault = "none" /\ \E l \in Loops : LoopStep(l)
  \/ fault = "none" /\ \E c \in Conns : send(c) \/ release(c) \/ peerCloses(c)
  \/ Over

Spec == Init /\ [][Next]_vars

(* Fairness: the main thread and every sub-loop keep being scheduled, and   *)
(* callbacks return.  Nobody has to connect, send, close or release.        *)
Fairness ==
  /\ WF_vars(fault = "none" /\ MainStep)
  /\ \A l \in Loops : WF_vars(fault = "none" /\ LoopStep(l))

FairSpec == Spec /\ Fairness

=============================================================================
