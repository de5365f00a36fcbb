------------------------------ MODULE Connector -----------------------------
(***************************************************************************)
(* The TcpClients of a process, each with its Connector, on one EventLoop  *)
(* (Connector.h, Connector.cpp, TcpClient.h, TcpClient.cpp): the           *)
(* non-blocking connect, the channel that waits for its end, and who       *)
(* closes the descriptor connfd_, whose number the kernel gives out again  *)
(* and the loop's EPoller (EPoller.cpp) knows the channel by.              *)
(*                                                                         *)
(* A step is a call of start() or a handler on the loop's thread.  Between *)
(* a connect that fails and doError's close(connfd_) another thread can    *)
(* take the number: the close is a step of its own.                        *)
(***************************************************************************)
EXTENDS Naturals

CONSTANTS
  Clients,    \* the TcpClients
  Fds,        \* the descriptor numbers the kernel can give them
  MaxStarts,  \* bound: calls of start() on a TcpClient
  None        \* no client

ASSUME ConnectorAssumption ==
  /\ None \notin Clients
  /\ Fds \subseteq Nat \ {0}
  /\ MaxStarts \in Nat

VARIABLES
  connfd,     \* per client: connfd_, 0 before the constructor
  starts,     \* per client: the calls of start()
  holder,     \* per number: the client whose socket it is in the kernel
  sock,       \* per client: the state of its socket in the kernel
  watch,      \* per client: the event epoll watches its socket for
  fin,        \* the clients whose server has closed the connection
  entry,      \* per number: the channel in ueventMap_, by client and event
  connsMap,   \* the clients with their connection in connsMap_
  user,       \* the clients of whose connection the user keeps a connPtr
  closing,    \* the client about to run close(connfd_)
  stolen,     \* the sockets closed under their owners
  fault       \* the failed assertion or the second connection met

vars == <<connfd, starts, holder, sock, watch, fin, entry, connsMap, user,
          closing, stolen, fault>>
socketVars == <<holder, sock, watch, stolen>>
clientVars == <<connfd, starts>>
connVars   == <<connsMap, user>>

Connected == connsMap \cup user   \* clients with a TcpConnection that exists

NoChannel == <<None, "none">>
Channels  == Clients \X {"read", "write"}

TypeOK ==
  /\ connfd \in [Clients -> Fds \cup {0}]
  /\ starts \in [Clients -> 0..MaxStarts]
  /\ holder \in [Fds -> Clients \cup {None}]
  /\ sock \in [Clients -> {"new", "connecting", "connected", "failed",
                           "closed"}]
  /\ watch \in [Clients -> {"none", "read", "write"}]
  /\ fin \subseteq Clients
  /\ entry \in [Fds -> Channels \cup {NoChannel}]
  /\ connsMap \subseteq Clients
  /\ user \subseteq Clients
  /\ closing \in Clients \cup {None}
  /\ stolen \subseteq Clients
  /\ fault \in {"none", "missing", "twice"}

Init ==
  /\ connfd = [c \in Clients |-> 0]
  /\ starts = [c \in Clients |-> 0]
  /\ holder = [n \in Fds |-> None]
  /\ sock = [c \in Clients |-> "closed"]
  /\ watch = [c \in Clients |-> "none"]
  /\ fin = {}
  /\ entry = [n \in Fds |-> NoChannel]
  /\ connsMap = {}
  /\ user = {}
  /\ closing = None
  /\ stolen = {}
  /\ fault = "none"

-----------------------------------------------------------------------------
(* EPoller and the kernel. *)

(* EPoller::updateChannel: EPOLL_CTL_ADD for a number that is new to        *)
(* ueventMap_, EPOLL_CTL_MOD for one that is in it, which the kernel        *)
(* refuses for a socket it does not watch.                                  *)
updateChannel(n, channel, s) ==
  /\ entry' = [entry EXCEPT ![n] = channel]
  /\ watch' = IF entry[n] = NoChannel \/ watch[s] # "none"
                THEN [watch EXCEPT ![s] = channel[2]] ELSE watch

(* EPoller::removeChannel: the entry is erased, EPOLL_CTL_DEL. *)
removeChannel(n, s) ==
  /\ entry' = [entry EXCEPT ![n] = NoChannel]
  /\ watch' = [watch EXCEPT ![s] = "none"]

(* close(n), whosesoever socket it is; what is closed though its owner,     *)
(* another client or a TcpConnection, still uses it is stolen.              *)
close(n, owners) ==
  LET s == holder[n] IN
  IF s = None THEN UNCHANGED socketVars
  ELSE /\ holder' = [holder EXCEPT ![n] = None]
       /\ sock' = [sock EXCEPT ![s] = "closed"]
       /\ watch' = [watch EXCEPT ![s] = "none"]
       /\ stolen' = IF s \in owners THEN stolen ELSE stolen \cup {s}

-----------------------------------------------------------------------------
(* The Connector. *)

(* A new socket takes a number that is free; the constructor asserts that   *)
(* there was one.                                                           *)
createNonblockingOrDie(n) == holder[n] = None

(* The constructor: createNonblockingOrDie, by any thread at any time. *)
construct(c, n) ==
  /\ connfd[c] = 0
  /\ createNonblockingOrDie(n)
  /\ connfd' = [connfd EXCEPT ![c] = n]
  /\ holder' = [holder EXCEPT ![n] = c]
  /\ sock' = [sock EXCEPT ![c] = "new"]
  /\ UNCHANGED <<starts, watch, fin, entry, connVars, closing, stolen, fault>>

(* start(), with a connect that has it close connfd_, as one in any state   *)
(* of the socket can: EBADF for the number of no socket, EALREADY for a     *)
(* connect that goes on, 0 for the first connect after the end of one, and  *)
(* on a new socket 0 or an errno of doError's.                              *)
startFails(c) ==
  /\ closing = None
  /\ connfd[c] # 0
  /\ starts[c] < MaxStarts
  /\ starts' = [starts EXCEPT ![c] = @ + 1]
  /\ closing' = c
  /\ UNCHANGED <<connfd, socketVars, fin, entry, connVars, fault>>

(* Mutant: start() does not wait for the end of the connect. *)
startConnectsUnseen(c) ==
  LET s == holder[connfd[c]] IN
  /\ closing = None
  /\ connfd[c] # 0
  /\ starts[c] < MaxStarts
  /\ s # None
  /\ sock[s] = "new"
  /\ starts' = [starts EXCEPT ![c] = @ + 1]
  /\ sock' = [sock EXCEPT ![s] = "connecting"]
  /\ UNCHANGED <<connfd, holder, stolen, fin, entry, watch, connVars, closing,
                 fault>>

(* start(), with EINPROGRESS: doConnect has the channel wait for the end.   *)
startConnects(c) ==
  LET s == holder[connfd[c]] IN
  /\ closing = None
  /\ connfd[c] # 0
  /\ starts[c] < MaxStarts
  /\ s # None
  /\ sock[s] = "new"
  /\ starts' = [starts EXCEPT ![c] = @ + 1]
  /\ sock' = [sock EXCEPT ![s] = "connecting"]
  /\ updateChannel(connfd[c], <<c, "write">>, s)
  /\ UNCHANGED <<connfd, holder, stolen, fin, connVars, closing, fault>>

(* start(), with EISCONN, an errno that is not listed, or one of doRetry's, *)
(* which only prints.                                                       *)
startDoesNothing(c) ==
  LET s == holder[connfd[c]] IN
  /\ closing = None
  /\ connfd[c] # 0
  /\ starts[c] < MaxStarts
  /\ s # None
  /\ sock[s] \in {"new", "connected"}
  /\ starts' = [starts EXCEPT ![c] = @ + 1]
  /\ UNCHANGED <<connfd, socketVars, fin, entry, connVars, closing, fault>>

(* doError, or start()'s branch for 0: close(connfd_). *)
closeConnfd(c) ==
  /\ closing = c
  /\ closing' = None
  /\ close(connfd[c], {c} \ Connected)
  /\ UNCHANGED <<clientVars, fin, entry, connVars, fault>>

(* EPoller::wait reports the socket at c's number to c's channel. *)
Reported(c, event) ==
  LET s == holder[connfd[c]] IN
  /\ closing = None
  /\ connfd[c] # 0
  /\ s # None
  /\ entry[connfd[c]] = <<c, event>>
  /\ watch[s] = event

(* TcpClient::onConnectEstablish: the TcpConnection registers connfd_ for   *)
(* reading and comes into connsMap_; onConnect_ may keep a connPtr.         *)
onConnectEstablish(c, s) ==
  /\ entry' = [entry EXCEPT ![connfd[c]] = <<c, "read">>]
  /\ watch' = [watch EXCEPT ![s] = "read"]
  /\ connsMap' = connsMap \cup {c}
  /\ user' \in {user, user \cup {c}}
  /\ fault' = IF c \in Connected THEN "twice" ELSE fault

(* SO_ERROR tells how the connect ended. *)
getOptSoError(s) == sock[s] = "failed"

(* Mutant: handleWrite leaves the channel registered when the connect       *)
(* failed.                                                                  *)
handleWriteRegistered(c) ==
  LET s == holder[connfd[c]] IN
  /\ Reported(c, "write")
  /\ sock[s] \in {"connected", "failed"}
  /\ \/ ~getOptSoError(s) /\ onConnectEstablish(c, s) /\ UNCHANGED closing
     \/ /\ getOptSoError(s)
        /\ closing' = c
        /\ UNCHANGED <<entry, watch, connVars, fault>>
  /\ UNCHANGED <<clientVars, holder, sock, stolen, fin>>

(* handleWrite: disableWrite leaves no event and takes the channel out of   *)
(* the poller.                                                              *)
handleWrite(c) ==
  LET s == holder[connfd[c]] IN
  /\ Reported(c, "write")
  /\ sock[s] \in {"connected", "failed"}
  /\ \/ ~getOptSoError(s) /\ onConnectEstablish(c, s) /\ UNCHANGED closing
     \/ /\ getOptSoError(s)
        /\ removeChannel(connfd[c], s)
        /\ closing' = c
        /\ UNCHANGED <<connVars, fault>>
  /\ UNCHANGED <<clientVars, holder, sock, stolen, fin>>

-----------------------------------------------------------------------------
(* The connection, owner of connfd_ from onConnectEstablish on. *)

(* ~TcpConnection, when a step lets go of the last connPtr: ~Socket closes  *)
(* the number.                                                              *)
Delete(c, kept) ==
  IF c \in kept THEN UNCHANGED socketVars ELSE close(connfd[c], {c})

(* Mutant: handleClose leaves the channel registered. *)
handleCloseRegistered(c) ==
  LET s == holder[connfd[c]] IN
  /\ Reported(c, "read")
  /\ s \in fin
  /\ connsMap' = connsMap \ {c}
  /\ fault' = IF c \in connsMap THEN fault ELSE "missing"
  /\ Delete(c, user)
  /\ UNCHANGED <<clientVars, fin, entry, user, closing>>

(* Mutant: handleClose closes the descriptor, and ~Socket does it again.    *)
handleCloseAtOnce(c) ==
  LET s == holder[connfd[c]] IN
  /\ Reported(c, "read")
  /\ s \in fin
  /\ entry' = [entry EXCEPT ![connfd[c]] = NoChannel]
  /\ connsMap' = connsMap \ {c}
  /\ fault' = IF c \in connsMap THEN fault ELSE "missing"
  /\ close(connfd[c], {c})
  /\ UNCHANGED <<clientVars, fin, user, closing>>

(* handleClose: disableAll, and removeConnect erases the connection, which  *)
(* it asserts to find.                                                      *)
handleClose(c) ==
  LET s == holder[connfd[c]] IN
  /\ Reported(c, "read")
  /\ s \in fin
  /\ entry' = [entry EXCEPT ![connfd[c]] = NoChannel]
  /\ connsMap' = connsMap \ {c}
  /\ fault' = IF c \in connsMap THEN fault ELSE "missing"
  /\ IF c \in user
       THEN /\ watch' = [watch EXCEPT ![s] = "none"]
            /\ UNCHANGED <<holder, sock, stolen>>
       ELSE close(connfd[c], {c})
  /\ UNCHANGED <<clientVars, fin, user, closing>>

(* The user, on any thread, lets go of its connPtr. *)
release(c) ==
  /\ c \in user
  /\ user' = user \ {c}
  /\ Delete(c, connsMap)
  /\ UNCHANGED <<clientVars, fin, entry, connsMap, closing, fault>>

-----------------------------------------------------------------------------
(* The network. *)

connectEnds(c) ==
  /\ sock[c] = "connecting"
  /\ \E end \in {"connected", "failed"} : sock' = [sock EXCEPT ![c] = end]
  /\ UNCHANGED <<clientVars, holder, watch, stolen, fin, entry, connVars,
                 closing, fault>>

serverCloses(c) ==
  /\ sock[c] = "connected"
  /\ c \notin fin
  /\ fin' = fin \cup {c}
  /\ UNCHANGED <<clientVars, socketVars, entry, connVars, closing, fault>>

start(c) == startFails(c) \/ startConnects(c) \/ startDoesNothing(c)

LoopStep(c) == closeConnfd(c) \/ handleWrite(c) \/ handleClose(c)

(* Nothing is left to happen, or the program has come to a fault. *)
Over ==
  /\ closing = None
  /\ UNCHANGED vars

Next ==
  \/ fault = "none" /\ \E c \in Clients, n \in Fds : construct(c, n)
  \/ fault = "none" /\ \E c \in Clients :
       start(c) \/ LoopStep(c) \/ release(c) \/ connectEnds(c) \/ serverCloses(c)
  \/ Over

Spec == Init /\ [][Next]_vars

(* Fairness: the loop's thread keeps being scheduled, and the kernel ends   *)
(* every connect, with a time-out at the latest.                            *)
Fairness ==
  \A c \in Clients :
    /\ WF_vars(fault = "none" /\ LoopStep(c))
    /\ WF_vars(fault = "none" /\ connectEnds(c))

FairSpec == Spec /\ Fairness

=============================================================================
