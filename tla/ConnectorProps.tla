---------------------------- MODULE ConnectorProps --------------------------
(***************************************************************************)
(* What must hold of the Connectors and their TcpClients.                  *)
(***************************************************************************)
EXTENDS Connector

(* Nothing keeps a user from calling start() again, and nothing tells it    *)
(* that an attempt failed.  A second start() meets a connect that goes on,  *)
(* a connection, or a number that is another's by now, and closes it: the   *)
(* safety of the numbers below is what one start() per client gives.        *)
StartedOnce == \A c \in Clients : starts[c] <= 1

(* A descriptor is closed by its owner only: by the Connector until the     *)
(* connection is made, by ~Socket of the TcpConnection after that, and by   *)
(* neither once the number is another client's (doError at Connector.cpp:   *)
(* 118 and ~Socket both close by number).                                   *)
OwnerCloses == StartedOnce => stolen = {}

(* The end of a connect, and what the server sends, is heard of: the socket *)
(* is watched, and its number leads to the channel of its own client and    *)
(* not to an entry that one before it has left in ueventMap_.               *)
InterestIsKept ==
  StartedOnce =>
    \A c \in Clients :
      /\ sock[c] \in {"connecting", "failed"} /\ closing # c =>
           watch[c] = "write" /\ entry[connfd[c]] = <<c, "write">>
      /\ c \in connsMap =>
           watch[c] = "read" /\ entry[connfd[c]] = <<c, "read">>

(* removeConnect finds the connection (the assertion at TcpClient.cpp:41),  *)
(* and a client is told of one connection: the second one made with the     *)
(* same number would not enter connsMap_.                                   *)
ToldOnce == StartedOnce => fault = "none"

(* A connect that is going on ends in a connection the client is told of,   *)
(* or in a closed descriptor, unless some client's second start() breaks    *)
(* into it.                                                                 *)
AttemptEnds ==
  \A c \in Clients :
    sock[c] = "connecting" ~> c \in Connected \/ sock[c] = "closed" \/ ~StartedOnce

=============================================================================
