--------------------------- MODULE ConnectorProofs --------------------------
(***************************************************************************)
(* Proofs about Connector, for any clients, descriptor numbers and starts. *)
(***************************************************************************)
EXTENDS ConnectorProps, TLAPS

(* The kernel's numbers: an open socket has the number its Connector got in *)
(* the constructor, and no other.  It holds however often start() is called *)
(* and whoever closes what.                                                 *)
Numbers ==
  /\ \A n \in Fds, c \in Clients :
       holder[n] = c => connfd[c] = n /\ sock[c] # "closed"
  /\ \A c \in Clients :
       sock[c] # "closed" => connfd[c] \in Fds /\ holder[connfd[c]] = c
  /\ \A c \in Clients : c = closing \/ c \in Connected => connfd[c] # 0

(* What one start() per client gives.  A socket that has not been started   *)
(* is untouched; what is about to be closed is the Connector's own;         *)
Unstarted ==
  \A c \in Clients :
    starts[c] = 0 =>
      sock[c] \in {"new", "closed"} /\ (connfd[c] # 0 => sock[c] = "new")

Closing ==
  closing # None => starts[closing] # 0 /\ sock[closing] \in {"new", "failed"}

(* an entry of ueventMap_ is the channel of the socket that has the number; *)
Entries ==
  \A n \in Fds, c \in Clients :
    /\ entry[n] = <<c, "write">> =>
         /\ holder[n] = c /\ watch[c] = "write"
         /\ sock[c] \in {"connecting", "connected", "failed"}
         /\ c \notin Connected /\ closing # c
    /\ entry[n] = <<c, "read">> =>
         holder[n] = c /\ watch[c] = "read" /\ c \in connsMap

(* and every socket that waits for something has its entry. *)
Waiting ==
  \A c \in Clients :
    /\ sock[c] \in {"connecting", "failed"} /\ closing # c =>
         entry[connfd[c]] = <<c, "write">>
    /\ c \in connsMap => entry[connfd[c]] = <<c, "read">>
    /\ c \in Connected => sock[c] = "connected"

Private ==
  /\ Unstarted /\ Closing /\ Entries /\ Waiting
  /\ stolen = {} /\ fault = "none"

IInv == TypeOK /\ Numbers /\ (StartedOnce => Private)

-----------------------------------------------------------------------------
(* The shape of an entry. *)
LEMMA EntryIsChannel ==
  ASSUME TypeOK, NEW n \in Fds, entry[n] # NoChannel
  PROVE  \E c \in Clients, e \in {"read", "write"} : entry[n] = <<c, e>>
<1>1. entry[n] \in Channels
  BY DEF TypeOK
<1>2. /\ entry[n] = <<entry[n][1], entry[n][2]>>
      /\ entry[n][1] \in Clients /\ entry[n][2] \in {"read", "write"}
  BY <1>1 DEF Channels
<1>3. QED
  BY <1>2

(* What a close changes keeps its type. *)
LEMMA CloseType ==
  ASSUME TypeOK, NEW n \in Fds, NEW owners, close(n, owners)
  PROVE  /\ holder' \in [Fds -> Clients \cup {None}]
         /\ sock' \in [Clients -> {"new", "connecting", "connected", "failed",
                                  "closed"}]
         /\ watch' \in [Clients -> {"none", "read", "write"}]
         /\ stolen' \subseteq Clients
<1>1. CASE holder[n] = None
  BY <1>1 DEF close, TypeOK, socketVars
<1>2. CASE holder[n] # None
  BY <1>2 DEF close, TypeOK
<1>3. QED
  BY <1>1, <1>2

(* Every variable keeps its type; a close needs a number that is one. *)
LEMMA TypeStep ==
  ASSUME TypeOK, Numbers, [Next]_vars
  PROVE  TypeOK'
<1> USE ConnectorAssumption DEF TypeOK, socketVars, clientVars, connVars, Channels,
        NoChannel
<1>1. ASSUME NEW c \in Clients, NEW n \in Fds, construct(c, n) PROVE TypeOK'
  BY <1>1 DEF construct, createNonblockingOrDie
<1>2. ASSUME NEW c \in Clients, startFails(c) PROVE TypeOK'
  BY <1>2 DEF startFails
<1>3. ASSUME NEW c \in Clients, startConnects(c) PROVE TypeOK'
  <2>1. connfd[c] \in Fds /\ holder[connfd[c]] \in Clients
    BY <1>3 DEF startConnects
  <2>2. starts[c] + 1 \in 0..MaxStarts
    BY <1>3 DEF startConnects
  <2>3. entry' \in [Fds -> Channels \cup {NoChannel}]
    BY <1>3, <2>1 DEF startConnects, updateChannel
  <2>4. watch' \in [Clients -> {"none", "read", "write"}]
    BY <1>3, <2>1 DEF startConnects, updateChannel
  <2>5. QED
    BY <1>3, <2>1, <2>2, <2>3, <2>4 DEF startConnects
<1>4. ASSUME NEW c \in Clients, startDoesNothing(c) PROVE TypeOK'
  BY <1>4 DEF startDoesNothing
<1>5. ASSUME NEW c \in Clients, closeConnfd(c) PROVE TypeOK'
  <2>1. connfd[c] \in Fds
    BY <1>5 DEF closeConnfd, Numbers
  <2>2. close(connfd[c], {c} \ Connected)
    BY <1>5 DEF closeConnfd
  <2>3. QED
    BY <1>5, <2>1, <2>2, CloseType DEF closeConnfd
<1>6. ASSUME NEW c \in Clients, handleWrite(c) PROVE TypeOK'
  BY <1>6 DEF handleWrite, Reported, onConnectEstablish, removeChannel
<1>7. ASSUME NEW c \in Clients, handleClose(c) PROVE TypeOK'
  <2>1. connfd[c] \in Fds /\ holder[connfd[c]] \in Clients
    BY <1>7 DEF handleClose, Reported
  <2>2. /\ holder' \in [Fds -> Clients \cup {None}]
        /\ sock' \in [Clients -> {"new", "connecting", "connected", "failed",
                                 "closed"}]
        /\ watch' \in [Clients -> {"none", "read", "write"}]
        /\ stolen' \subseteq Clients
    BY <1>7, <2>1, CloseType DEF handleClose
  <2>3. QED
    BY <1>7, <2>1, <2>2 DEF handleClose
<1>8. ASSUME NEW c \in Clients, release(c) PROVE TypeOK'
  <2>1. connfd[c] \in Fds
    BY <1>8 DEF release, Numbers, Connected
  <2>2. UNCHANGED socketVars \/ close(connfd[c], {c})
    BY <1>8 DEF release, Delete
  <2>3. /\ holder' \in [Fds -> Clients \cup {None}]
        /\ sock' \in [Clients -> {"new", "connecting", "connected", "failed",
                                 "closed"}]
        /\ watch' \in [Clients -> {"none", "read", "write"}]
        /\ stolen' \subseteq Clients
    BY <2>1, <2>2, CloseType
  <2>4. QED
    BY <1>8, <2>3 DEF release
<1>9. ASSUME NEW c \in Clients, connectEnds(c) PROVE TypeOK'
  BY <1>9 DEF connectEnds
<1>10. ASSUME NEW c \in Clients, serverCloses(c) PROVE TypeOK'
  BY <1>10 DEF serverCloses
<1>11. CASE UNCHANGED vars
  BY <1>11 DEF vars
<1>12. QED
  BY <1>1, <1>2, <1>3, <1>4, <1>5, <1>6, <1>7, <1>8, <1>9, <1>10, <1>11
     DEF Next, start, LoopStep, Over

(* The kernel keeps its numbers apart whatever the program does. *)
LEMMA NumbersStep ==
  ASSUME TypeOK, Numbers, [Next]_vars
  PROVE  Numbers'
<1> USE ConnectorAssumption DEF TypeOK, Numbers, Connected, socketVars, clientVars,
        connVars
<1>1. ASSUME NEW c \in Clients, NEW n \in Fds, construct(c, n) PROVE Numbers'
  BY <1>1 DEF construct, createNonblockingOrDie
<1>2. ASSUME NEW c \in Clients, startFails(c) \/ startDoesNothing(c) PROVE Numbers'
  BY <1>2 DEF startFails, startDoesNothing
<1>3. ASSUME NEW c \in Clients, startConnects(c) PROVE Numbers'
  BY <1>3 DEF startConnects
<1>4. ASSUME NEW n \in Fds, NEW owners, close(n, owners), UNCHANGED connfd,
             closing' \in {closing, None}, Connected' \subseteq Connected
      PROVE  Numbers'
  <2>1. CASE holder[n] = None
    BY <1>4, <2>1 DEF close
  <2>2. CASE holder[n] # None
    <3>1. PICK s \in Clients : s = holder[n]
      BY <2>2
    <3>2. /\ holder' = [holder EXCEPT ![n] = None]
          /\ sock' = [sock EXCEPT ![s] = "closed"]
      BY <1>4, <2>2, <3>1 DEF close
    <3>3. QED
      BY <1>4, <3>1, <3>2
  <2>3. QED
    BY <2>1, <2>2
<1>5. ASSUME NEW c \in Clients, closeConnfd(c) PROVE Numbers'
  <2>1. connfd[c] \in Fds /\ closing' = None /\ Connected' = Connected
    BY <1>5 DEF closeConnfd
  <2>2. close(connfd[c], {c} \ Connected) /\ UNCHANGED connfd
    BY <1>5 DEF closeConnfd
  <2>3. QED
    BY <1>4, <2>1, <2>2
<1>6. ASSUME NEW c \in Clients, handleWrite(c) PROVE Numbers'
  <2>1. connfd[c] # 0
    BY <1>6 DEF handleWrite, Reported
  <2>2. closing' \in {closing, c} /\ Connected' \subseteq Connected \cup {c}
    BY <1>6 DEF handleWrite, onConnectEstablish
  <2>3. QED
    BY <1>6, <2>1, <2>2 DEF handleWrite
<1>7. ASSUME NEW c \in Clients, handleClose(c) PROVE Numbers'
  <2>1. /\ connfd[c] \in Fds
        /\ closing' = closing /\ Connected' \subseteq Connected /\ UNCHANGED connfd
    BY <1>7 DEF handleClose, Reported
  <2>2. CASE c \in user
    BY <1>7, <2>1, <2>2 DEF handleClose
  <2>3. CASE c \notin user
    BY <1>4, <1>7, <2>1, <2>3 DEF handleClose
  <2>4. QED
    BY <2>2, <2>3
<1>8. ASSUME NEW c \in Clients, release(c) PROVE Numbers'
  <2>1. /\ connfd[c] \in Fds
        /\ closing' = closing /\ Connected' \subseteq Connected /\ UNCHANGED connfd
    BY <1>8 DEF release
  <2>2. CASE c \in connsMap
    BY <1>8, <2>1, <2>2 DEF release, Delete
  <2>3. CASE c \notin connsMap
    BY <1>4, <1>8, <2>1, <2>3 DEF release, Delete
  <2>4. QED
    BY <2>2, <2>3
<1>9. ASSUME NEW c \in Clients, connectEnds(c) PROVE Numbers'
  BY <1>9 DEF connectEnds
<1>10. ASSUME NEW c \in Clients, serverCloses(c) PROVE Numbers'
  BY <1>10 DEF serverCloses
<1>11. CASE UNCHANGED vars
  BY <1>11 DEF vars
<1>12. QED
  BY <1>1, <1>2, <1>3, <1>5, <1>6, <1>7, <1>8, <1>9, <1>10, <1>11
     DEF Next, start, LoopStep, Over

-----------------------------------------------------------------------------
(* A client's own close: the number is its socket's, and the entry of the   *)
(* number is the socket's too.                                              *)
LEMMA OwnClose ==
  ASSUME TypeOK, Numbers, NEW c \in Clients, NEW owners,
         sock[c] # "closed", c \in owners, close(connfd[c], owners)
  PROVE  /\ holder' = [holder EXCEPT ![connfd[c]] = None]
         /\ sock' = [sock EXCEPT ![c] = "closed"]
         /\ watch' = [watch EXCEPT ![c] = "none"]
         /\ stolen' = stolen
<1>1. holder[connfd[c]] = c /\ c # None
  BY ConnectorAssumption DEF Numbers
<1>2. QED
  BY <1>1 DEF close

(* Two sockets have two numbers. *)
LEMMA NumbersApart ==
  ASSUME Numbers, NEW c \in Clients, NEW d \in Clients,
         sock[c] # "closed", sock[d] # "closed", connfd[c] = connfd[d]
  PROVE  c = d
BY DEF Numbers

(* Nothing leads to a socket that is new, about to be closed, or the user's *)
(* alone.                                                                   *)
LEMMA NoEntry ==
  ASSUME TypeOK, Entries, NEW c \in Clients, connfd[c] \in Fds,
         holder[connfd[c]] = c, c \notin connsMap,
         sock[c] = "new" \/ closing = c \/ c \in user
  PROVE  entry[connfd[c]] = NoChannel
<1>1. SUFFICES ASSUME NEW d \in Clients, NEW e \in {"read", "write"},
                      entry[connfd[c]] = <<d, e>>
               PROVE  FALSE
  BY EntryIsChannel
<1>2. CASE e = "write"
  <2>1. entry[connfd[c]] = <<d, "write">>
    BY <1>1, <1>2
  <2>2. holder[connfd[c]] = d /\ sock[d] # "new" /\ d \notin Connected /\ closing # d
    BY <2>1 DEF Entries
  <2>3. QED
    BY <2>2 DEF Connected
<1>3. CASE e = "read"
  <2>1. entry[connfd[c]] = <<d, "read">>
    BY <1>1, <1>3
  <2>2. holder[connfd[c]] = d /\ d \in connsMap
    BY <2>1 DEF Entries
  <2>3. QED
    BY <2>2
<1>4. QED
  BY <1>2, <1>3

LEMMA PrivateStep ==
  ASSUME IInv, StartedOnce, StartedOnce', [Next]_vars
  PROVE  Private'
<1> USE ConnectorAssumption DEF IInv, Private
<1>a. TypeOK' /\ Numbers'
  BY TypeStep, NumbersStep
<1>1. ASSUME NEW c \in Clients, NEW n \in Fds, construct(c, n) PROVE Private'
  <2>1. sock[c] = "closed" /\ n # 0 /\ starts[c] \in Nat
    BY <1>1 DEF construct, createNonblockingOrDie, Numbers, TypeOK
  <2>2. closing # c /\ c \notin Connected
    BY <2>1 DEF Closing, Waiting
  <2>3. \A e \in {"read", "write"} : entry[n] # <<c, e>>
    BY <1>1, <2>1 DEF construct, createNonblockingOrDie, Entries, Numbers
  <2>4. Unstarted' /\ Closing'
    BY <1>1, <2>1, <2>2
       DEF construct, createNonblockingOrDie, Unstarted, Closing, TypeOK, connVars
  <2>5. Entries'
    BY <1>1, <2>1, <2>2, <2>3
       DEF construct, createNonblockingOrDie, Entries, TypeOK, connVars, Connected
  <2>6. Waiting'
    BY <1>1, <2>1, <2>2
       DEF construct, createNonblockingOrDie, Waiting, TypeOK, connVars, Connected
  <2>7. QED
    BY <1>1, <2>4, <2>5, <2>6 DEF construct, createNonblockingOrDie
<1>2. ASSUME NEW c \in Clients, startFails(c) PROVE Private'
  <2>1. starts[c] = 0 /\ starts'[c] = 1
    BY <1>2 DEF startFails, StartedOnce, TypeOK
  <2>2. sock[c] = "new"
    BY <1>2, <2>1 DEF startFails, Unstarted
  <2>3. Unstarted' /\ Closing'
    BY <1>2, <2>1, <2>2 DEF startFails, Unstarted, Closing, TypeOK, socketVars
  <2>4. Entries'
    BY <1>2, <2>2 DEF startFails, Entries, TypeOK, socketVars, connVars, Connected
  <2>5. Waiting'
    BY <1>2, <2>2 DEF startFails, Waiting, TypeOK, socketVars, connVars, Connected
  <2>6. QED
    BY <1>2, <2>3, <2>4, <2>5 DEF startFails, socketVars
<1>3. ASSUME NEW c \in Clients, startConnects(c) PROVE Private'
  <2>1. starts[c] = 0 /\ starts'[c] = 1
    BY <1>3 DEF startConnects, StartedOnce, TypeOK
  <2>2. sock[c] = "new" /\ holder[connfd[c]] = c /\ connfd[c] \in Fds
    BY <1>3, <2>1 DEF startConnects, Unstarted, Numbers
  <2>3. c \notin Connected /\ closing # c
    BY <1>3, <2>2 DEF startConnects, Waiting
  <2>4. entry[connfd[c]] = NoChannel
    BY <2>2, <2>3, NoEntry DEF Connected
  <2>5. /\ entry' = [entry EXCEPT ![connfd[c]] = <<c, "write">>]
        /\ watch' = [watch EXCEPT ![c] = "write"]
        /\ sock' = [sock EXCEPT ![c] = "connecting"]
    BY <1>3, <2>2, <2>4 DEF startConnects, updateChannel
  <2>6. UNCHANGED <<connfd, holder, stolen, connsMap, user, closing, fault>>
    BY <1>3 DEF startConnects, connVars
  <2>7. Unstarted' /\ Closing'
    BY <1>3, <2>1, <2>2, <2>3, <2>5, <2>6
       DEF startConnects, Unstarted, Closing, TypeOK
  <2>8. Entries'
    BY <2>2, <2>3, <2>5, <2>6 DEF Entries, TypeOK, Connected
  <2>9. Waiting'
    <3>1. \A d \in Clients : d # c /\ sock[d] # "closed" => connfd[d] # connfd[c]
      BY <2>2, NumbersApart
    <3>2. QED
      BY <2>2, <2>3, <2>5, <2>6, <3>1 DEF Waiting, TypeOK, Connected
  <2>10. QED
    BY <2>6, <2>7, <2>8, <2>9
<1>4. ASSUME NEW c \in Clients, startDoesNothing(c) PROVE Private'
  BY <1>4 DEF startDoesNothing, socketVars, connVars, Unstarted, Closing, Entries,
     Waiting, Connected, TypeOK
(* A close of c's own, once nothing leads to c any more. *)
<1>5. ASSUME NEW c \in Clients, starts[c] # 0, sock[c] # "closed",
             closing' # c, c \notin Connected',
             entry'[connfd[c]] = NoChannel,
             holder' = [holder EXCEPT ![connfd[c]] = None],
             sock' = [sock EXCEPT ![c] = "closed"],
             watch' = [watch EXCEPT ![c] = "none"],
             stolen' = stolen, fault' = fault, UNCHANGED <<connfd, starts>>,
             closing' \in {closing, None},
             \A n \in Fds : n # connfd[c] => entry'[n] = entry[n],
             \A d \in Clients : d # c => /\ d \in connsMap' <=> d \in connsMap
                                         /\ d \in user' <=> d \in user,
             closing' = None => closing \in {None, c}
      PROVE  Private'
  <2>1. connfd[c] \in Fds /\ holder[connfd[c]] = c
    BY <1>5 DEF Numbers
  <2>2. \A d \in Clients : d # c /\ sock[d] # "closed" => connfd[d] # connfd[c]
    BY <1>5, NumbersApart
  <2>3. Unstarted' /\ Closing'
    BY <1>5 DEF Unstarted, Closing, TypeOK
  <2>4. Entries'
    <3> SUFFICES ASSUME NEW n \in Fds, NEW d \in Clients, NEW e \in {"read", "write"},
                        entry'[n] = <<d, e>>
                 PROVE  /\ e = "write" =>
                             /\ holder'[n] = d /\ watch'[d] = "write"
                             /\ sock'[d] \in {"connecting", "connected", "failed"}
                             /\ d \notin Connected' /\ closing' # d
                        /\ e = "read" =>
                             holder'[n] = d /\ watch'[d] = "read" /\ d \in connsMap'
      BY DEF Entries
    <3>1. n # connfd[c]
      BY <1>5 DEF NoChannel
    <3>2. entry[n] = <<d, e>> /\ holder[n] = d
      BY <1>5, <3>1 DEF Entries
    <3>3. d # c
      BY <2>1, <3>1, <3>2 DEF Numbers
    <3>4. QED
      BY <1>5, <3>1, <3>2, <3>3 DEF Entries, TypeOK, Connected
  <2>5. Waiting'
    <3> SUFFICES ASSUME NEW d \in Clients
                 PROVE  /\ sock'[d] \in {"connecting", "failed"} /\ closing' # d =>
                             entry'[connfd[d]] = <<d, "write">>
                        /\ d \in connsMap' => entry'[connfd[d]] = <<d, "read">>
                        /\ d \in Connected' => sock'[d] = "connected"
      BY <1>5 DEF Waiting
    <3>1. CASE d = c
      BY <1>5, <3>1 DEF Connected, TypeOK
    <3>2. CASE d # c
      <4>1. sock'[d] = sock[d] /\ (closing # d \/ closing' = d)
        BY <1>5, <3>2 DEF TypeOK
      <4>2. sock[d] # "closed" => entry'[connfd[d]] = entry[connfd[d]]
        BY <1>5, <2>2, <3>2 DEF Numbers
      <4>3. QED
        BY <1>5, <3>2, <4>1, <4>2 DEF Waiting, Connected, TypeOK
    <3>3. QED
      BY <3>1, <3>2
  <2>6. QED
    BY <1>5, <2>3, <2>4, <2>5
<1>6. ASSUME NEW c \in Clients, closeConnfd(c) PROVE Private'
  <2>1. sock[c] \in {"new", "failed"} /\ starts[c] # 0 /\ c \notin Connected
    BY <1>6 DEF closeConnfd, Closing, Waiting
  <2>2. connfd[c] \in Fds /\ holder[connfd[c]] = c
    BY <2>1 DEF Numbers
  <2>3. entry[connfd[c]] = NoChannel
    BY <1>6, <2>1, <2>2, NoEntry DEF closeConnfd, Connected
  <2>4. close(connfd[c], {c} \ Connected)
    BY <1>6 DEF closeConnfd
  <2>5. /\ holder' = [holder EXCEPT ![connfd[c]] = None]
        /\ sock' = [sock EXCEPT ![c] = "closed"]
        /\ watch' = [watch EXCEPT ![c] = "none"]
        /\ stolen' = stolen
    BY <2>1, <2>4, OwnClose
  <2>6. UNCHANGED <<connfd, starts, entry, connsMap, user, fault>> /\ closing = c
        /\ closing' = None
    BY <1>6 DEF closeConnfd, clientVars, connVars
  <2>7. c \notin Connected' /\ closing' # c
    BY <2>1, <2>6 DEF Connected
  <2>8. QED
    BY <1>5, <2>1, <2>3, <2>5, <2>6, <2>7
<1>7. ASSUME NEW c \in Clients, handleWrite(c) PROVE Private'
  <2>1. /\ entry[connfd[c]] = <<c, "write">> /\ connfd[c] \in Fds
        /\ closing = None
    BY <1>7 DEF handleWrite, Reported, TypeOK
  <2>2. holder[connfd[c]] = c /\ c \notin Connected /\ sock[c] # "closed"
    BY <2>1 DEF Entries
  <2>3. \A d \in Clients : d # c /\ sock[d] # "closed" => connfd[d] # connfd[c]
    BY <2>2, NumbersApart
  <2>4. UNCHANGED <<connfd, starts, holder, sock, stolen>>
    BY <1>7 DEF handleWrite, clientVars
  <2>5. starts[c] # 0
    BY <1>7, <2>2 DEF handleWrite, Unstarted
  <2>6. CASE /\ sock[c] = "connected" /\ onConnectEstablish(c, c)
             /\ UNCHANGED closing
    <3>1. /\ entry' = [entry EXCEPT ![connfd[c]] = <<c, "read">>]
          /\ watch' = [watch EXCEPT ![c] = "read"]
          /\ connsMap' = connsMap \cup {c}
          /\ user \subseteq user' /\ user' \subseteq user \cup {c}
          /\ fault' = fault
      BY <2>2, <2>6 DEF onConnectEstablish
    <3>2. Unstarted' /\ Closing'
      BY <2>4, <2>6 DEF Unstarted, Closing
    <3>3. Entries'
      BY <2>1, <2>2, <2>4, <2>6, <3>1 DEF Entries, Numbers, TypeOK, Connected
    <3>4. Waiting'
      BY <2>1, <2>2, <2>3, <2>4, <2>6, <3>1 DEF Waiting, TypeOK, Connected
    <3>5. QED
      BY <2>4, <3>1, <3>2, <3>3, <3>4
  <2>7. CASE /\ sock[c] = "failed" /\ removeChannel(connfd[c], c)
             /\ closing' = c /\ UNCHANGED <<connVars, fault>>
    <3>1. /\ entry' = [entry EXCEPT ![connfd[c]] = NoChannel]
          /\ watch' = [watch EXCEPT ![c] = "none"]
          /\ UNCHANGED <<connsMap, user, fault>>
      BY <2>7 DEF removeChannel, connVars
    <3>2. Unstarted' /\ Closing'
      BY <2>4, <2>5, <2>7 DEF Unstarted, Closing
    <3>3. Entries'
      BY <2>1, <2>2, <2>4, <2>7, <3>1
         DEF Entries, Numbers, TypeOK, Connected, NoChannel
    <3>4. Waiting'
      BY <2>1, <2>2, <2>3, <2>4, <2>7, <3>1 DEF Waiting, TypeOK, Connected
    <3>5. QED
      BY <2>4, <3>1, <3>2, <3>3, <3>4
  <2>8. QED
    BY <1>7, <2>2, <2>6, <2>7 DEF handleWrite, getOptSoError
<1>8. ASSUME NEW c \in Clients, handleClose(c) PROVE Private'
  <2>1. /\ entry[connfd[c]] = <<c, "read">> /\ connfd[c] \in Fds
        /\ closing = None
    BY <1>8 DEF handleClose, Reported, TypeOK
  <2>2. /\ holder[connfd[c]] = c /\ c \in connsMap /\ sock[c] = "connected"
        /\ starts[c] # 0
    BY <2>1 DEF Entries, Waiting, Connected, Unstarted
  <2>3. \A d \in Clients : d # c /\ sock[d] # "closed" => connfd[d] # connfd[c]
    BY <2>2, NumbersApart
  <2>4. /\ entry' = [entry EXCEPT ![connfd[c]] = NoChannel]
        /\ connsMap' = connsMap \ {c}
        /\ UNCHANGED <<connfd, starts, user, closing, fault>>
    BY <1>8, <2>2 DEF handleClose, clientVars
  <2>5. CASE c \in user
    <3>1. watch' = [watch EXCEPT ![c] = "none"] /\ UNCHANGED <<holder, sock, stolen>>
      BY <1>8, <2>2, <2>5 DEF handleClose
    <3>2. Unstarted' /\ Closing'
      BY <2>4, <3>1 DEF Unstarted, Closing
    <3>3. Entries'
      BY <2>1, <2>2, <2>4, <3>1 DEF Entries, Numbers, TypeOK, Connected, NoChannel
    <3>4. Waiting'
      BY <2>1, <2>2, <2>3, <2>4, <3>1 DEF Waiting, TypeOK, Connected
    <3>5. QED
      BY <2>4, <3>1, <3>2, <3>3, <3>4
  <2>6. CASE c \notin user
    <3>1. close(connfd[c], {c})
      BY <1>8, <2>6 DEF handleClose
    <3>2. /\ holder' = [holder EXCEPT ![connfd[c]] = None]
          /\ sock' = [sock EXCEPT ![c] = "closed"]
          /\ watch' = [watch EXCEPT ![c] = "none"]
          /\ stolen' = stolen
      BY <2>2, <3>1, OwnClose
    <3>3. c \notin Connected' /\ closing' # c /\ closing' = None
      BY <2>1, <2>4, <2>6 DEF Connected
    <3>4. entry'[connfd[c]] = NoChannel
      BY <2>1, <2>4 DEF TypeOK
    <3>5. /\ \A n \in Fds : n # connfd[c] => entry'[n] = entry[n]
          /\ \A d \in Clients : d # c => (d \in connsMap' <=> d \in connsMap)
      BY <2>1, <2>4 DEF TypeOK
    <3>6. QED
      BY <1>5, <2>1, <2>2, <2>4, <3>2, <3>3, <3>4, <3>5
  <2>7. QED
    BY <2>5, <2>6
<1>9. ASSUME NEW c \in Clients, release(c) PROVE Private'
  <2>1. sock[c] = "connected" /\ starts[c] # 0 /\ closing # c
    BY <1>9 DEF release, Waiting, Connected, Unstarted, Closing
  <2>2. connfd[c] \in Fds /\ holder[connfd[c]] = c
    BY <2>1 DEF Numbers
  <2>3. /\ user' = user \ {c}
        /\ UNCHANGED <<connfd, starts, entry, connsMap, closing, fault>>
    BY <1>9 DEF release, clientVars
  <2>4. CASE c \in connsMap
    <3>1. UNCHANGED <<holder, sock, watch, stolen>>
      BY <1>9, <2>4 DEF release, Delete, socketVars
    <3>2. QED
      BY <2>3, <3>1 DEF Unstarted, Closing, Entries, Waiting, Connected
  <2>5. CASE c \notin connsMap
    <3>1. close(connfd[c], {c})
      BY <1>9, <2>5 DEF release, Delete
    <3>2. /\ holder' = [holder EXCEPT ![connfd[c]] = None]
          /\ sock' = [sock EXCEPT ![c] = "closed"]
          /\ watch' = [watch EXCEPT ![c] = "none"]
          /\ stolen' = stolen
      BY <2>1, <3>1, OwnClose
    <3>3. entry[connfd[c]] = NoChannel
      BY <1>9, <2>2, <2>5, NoEntry DEF release
    <3>4. c \notin Connected'
      BY <2>3, <2>5 DEF Connected
    <3>5. QED
      BY <1>5, <2>1, <2>2, <2>3, <3>2, <3>3, <3>4
  <2>6. QED
    BY <2>4, <2>5
<1>10. ASSUME NEW c \in Clients, connectEnds(c) PROVE Private'
  <2>1. starts[c] # 0 /\ closing # c /\ c \notin Connected
    BY <1>10 DEF connectEnds, Unstarted, Closing, Waiting
  <2>2. QED
    BY <1>10, <2>1 DEF connectEnds, clientVars, connVars, Unstarted, Closing,
       Entries, Waiting, Connected, TypeOK
<1>11. ASSUME NEW c \in Clients, serverCloses(c) PROVE Private'
  BY <1>11 DEF serverCloses, clientVars, socketVars, connVars, Unstarted, Closing,
     Entries, Waiting, Connected
<1>12. CASE UNCHANGED vars
  BY <1>12 DEF vars, Unstarted, Closing, Entries, Waiting, Connected
<1>13. QED
  BY <1>1, <1>2, <1>3, <1>4, <1>6, <1>7, <1>8, <1>9, <1>10, <1>11, <1>12
     DEF Next, start, LoopStep, Over

(* A client that has been started twice stays so. *)
LEMMA StartsGrow ==
  ASSUME TypeOK, StartedOnce', [Next]_vars
  PROVE  StartedOnce
<1> USE ConnectorAssumption DEF TypeOK, StartedOnce, clientVars
<1>1. ASSUME NEW c \in Clients, start(c) PROVE StartedOnce
  BY <1>1 DEF start, startFails, startConnects, startDoesNothing
<1>2. ASSUME NEW c \in Clients, NEW n \in Fds, construct(c, n) PROVE StartedOnce
  BY <1>2 DEF construct, createNonblockingOrDie
<1>3. ASSUME NEW c \in Clients,
             LoopStep(c) \/ release(c) \/ connectEnds(c) \/ serverCloses(c)
      PROVE  StartedOnce
  BY <1>3 DEF LoopStep, closeConnfd, handleWrite, handleClose, release, connectEnds,
     serverCloses
<1>4. CASE UNCHANGED vars
  BY <1>4 DEF vars
<1>5. QED
  BY <1>1, <1>2, <1>3, <1>4 DEF Next, Over

(* IInv holds in every reachable state. *)
THEOREM InductiveInvariant == Spec => []IInv
<1>1. Init => IInv
  BY ConnectorAssumption DEF Init, IInv, TypeOK, Numbers, Private, Unstarted, Closing,
     Entries, Waiting, Connected, NoChannel
<1>2. IInv /\ [Next]_vars => IInv'
  BY TypeStep, NumbersStep, PrivateStep, StartsGrow DEF IInv
<1>3. QED
  BY <1>1, <1>2, PTL DEF Spec

(* Every variable keeps its type. *)
THEOREM TypeCorrect == Spec => []TypeOK
<1>1. IInv => TypeOK
  BY DEF IInv
<1>2. QED
  BY <1>1, InductiveInvariant, PTL

(* No descriptor is closed under its owner, however many clients share the  *)
(* numbers, if each is started once.                                        *)
THEOREM OnlyOwnersClose == Spec => []OwnerCloses
<1>1. IInv => OwnerCloses
  BY DEF IInv, OwnerCloses, Private
<1>2. QED
  BY <1>1, InductiveInvariant, PTL

(* A connect or a connection always has its entry and its epoll event. *)
THEOREM InterestIsAlwaysKept == Spec => []InterestIsKept
<1>1. IInv => InterestIsKept
  <2> SUFFICES ASSUME IInv, StartedOnce, NEW c \in Clients
               PROVE  /\ sock[c] \in {"connecting", "failed"} /\ closing # c =>
                           watch[c] = "write" /\ entry[connfd[c]] = <<c, "write">>
                      /\ c \in connsMap =>
                           watch[c] = "read" /\ entry[connfd[c]] = <<c, "read">>
    BY DEF InterestIsKept
  <2>1. sock[c] # "closed" => connfd[c] \in Fds
    BY DEF IInv, Numbers
  <2>2. QED
    BY <2>1 DEF IInv, Private, Entries, Waiting, Connected
<1>2. QED
  BY <1>1, InductiveInvariant, PTL

(* removeConnect finds its connection, and there is one connection to a     *)
(* client.                                                                  *)
THEOREM AlwaysToldOnce == Spec => []ToldOnce
<1>1. IInv => ToldOnce
  BY DEF IInv, ToldOnce, Private
<1>2. QED
  BY <1>1, InductiveInvariant, PTL

=============================================================================
