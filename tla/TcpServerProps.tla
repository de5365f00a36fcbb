--------------------------- MODULE TcpServerProps ---------------------------
(***************************************************************************)
(* What must hold of TcpServer, its Acceptor and its sub-loops.            *)
(***************************************************************************)
EXTENDS TcpServer

(* The assertion of TcpServer.cpp:40: removeConnect finds its connection,   *)
(* though it runs on a sub-loop's thread while the main thread is still     *)
(* setting the connection up.                                               *)
RemoveFindsIt == fault # "missing"

(* A connection that anybody holds, the map, the main thread, the user or a *)
(* queued closure, is alone with its number: the kernel gives it to nobody  *)
(* else before ~Socket, so that a send of it reaches its own peer.  And a   *)
(* number in connsMap_ is the number of its own connection: insert would    *)
(* drop the new one and erase take the wrong one (the notes at              *)
(* TcpServer.cpp:43).                                                       *)
MapOwnsNumber ==
  /\ \A c \in Alive : fdOf[c] # NoFd => files[fdOf[c]] = c
  /\ \A fd \in Fds : connsMap[fd] # 0 =>
       connsMap[fd] \in Alive /\ fdOf[connsMap[fd]] = fd

(* A handler only runs on a connection that exists: one that was deleted    *)
(* between the poll and its turn had been registered again after its close. *)
DispatchedIsAlive == \A l \in Loops : ready[l] \ Alive \subseteq closed

(* From its registration to its close a connection is watched by epoll, so  *)
(* that its loop can hear of it, unless its number has an entry in          *)
(* ueventMap_ that a deleted connection left.                               *)
OpenIsWatched ==
  \A c \in Alive \ closed :
    \/ c = newConn /\ mpc = "register"
    \/ c \in watched
    \/ fdOf[c] = NoFd
    \/ <<getNextLoop(c), fdOf[c]>> \in stale

Removed(c) == fault # "none" \/ \A fd \in Fds : connsMap[fd] # c

(* The peer of c has closed, and its loop has not come to it yet. *)
Ending(c) == c \in (watched \cap fin) \ closed

(* The close of a peer has the connection removed from connsMap_, if it is  *)
(* not so early that the callbacks are not set yet, whatever the other      *)
(* connections, the accepts and the queued sends do meanwhile.  This is of  *)
(* the peer's close alone: activeClose is not in this module, and after one *)
(* the connection is registered no more, so that it stays in the map.       *)
ClosedLeaves ==
  \A c \in Conns :
    Ending(c) /\ "disconnect" \in callbacks[c] ~> Removed(c)

-----------------------------------------------------------------------------
(* What the code says of itself and does not do. *)

(* TcpServer.h:77: when a connection ends, its connPtr is deleted from the  *)
(* map.                                                                     *)
EndedLeaves ==
  \A c \in Conns : c \in closed ~> Removed(c)

=============================================================================
