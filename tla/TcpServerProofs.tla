-------------------------- MODULE TcpServerProofs ---------------------------
(***************************************************************************)
(* Proofs about TcpServer, for any numbers of sub-loops, connections and   *)
(* descriptors.                                                            *)
(***************************************************************************)
EXTENDS TcpServerProps, TLAPS

(* The numbers of the connections made so far, and who may hold them. *)
Made ==
  /\ newConn \in 0..made
  /\ newConn = 0 <=> mpc = "accept"
  /\ \A fd \in Fds \cup {NoFd} : connsMap[fd] \in 0..made
  /\ user \cup sending \cup swapped \cup closed \subseteq 1..made
  /\ \A c \in Conns : callbacks[c] # {} => c \in 1..made
  /\ \A fd \in Fds : files[fd] \in 0..made
  /\ \A l \in Loops, fd \in Fds \cup {NoFd} : ueventMap[l][fd] \in 0..made
  /\ \A c \in fin \cup watched : c \in 1..made /\ fdOf[c] # NoFd
  /\ \A l \in Loops : \A c \in ready[l] :
       c \in 1..made /\ fdOf[c] # NoFd /\ getNextLoop(c) = l

(* What the connection in the main thread's hand has of its callbacks, and  *)
(* what the user can have of it: a callback is what shows it to the user.   *)
InHand ==
  /\ newConn # 0 /\ "read" \in callbacks[newConn] => mpc \in {"disconnect", "connected"}
  /\ newConn # 0 /\ "disconnect" \in callbacks[newConn] => mpc = "connected"
  /\ newConn \in user \cup sending \cup swapped => mpc \in {"disconnect", "connected"}

(* A connection that exists has its number, and is in the map under it. *)
Numbers ==
  /\ \A c \in Alive : fdOf[c] # NoFd => files[fdOf[c]] = c
  /\ \A fd \in Fds \cup {NoFd} : connsMap[fd] # 0 => fdOf[connsMap[fd]] = fd

(* A connection is in the map until it is closed. *)
InMap ==
  \A c \in (1..made) \ closed :
    fdOf[c] # NoFd =>
      \/ connsMap[fdOf[c]] = c
      \/ c = newConn /\ mpc \in {"register", "lock", "insert"}

(* removeConnect has its connection in the map until it erases it. *)
Removing ==
  \A l \in Loops :
    spc[l] \in {"find", "lock", "erase"} =>
      /\ cur[l] \in closed
      /\ fdOf[cur[l]] # NoFd
      /\ getNextLoop(cur[l]) = l
      /\ connsMap[fdOf[cur[l]]] = cur[l]

(* An entry of a ueventMap_ is a connection's that exists, or stale. *)
Entries ==
  fault = "none" =>
    \A l \in Loops, fd \in Fds :
      ueventMap[l][fd] # 0 =>
        \/ /\ ueventMap[l][fd] \in Alive
           /\ fdOf[ueventMap[l][fd]] = fd
           /\ ueventMap[l][fd] = newConn => mpc # "register"
        \/ <<l, fd>> \in stale

IInv ==
  /\ TypeOK /\ Made /\ InHand /\ Numbers /\ InMap /\ Removing /\ Entries
  /\ OpenIsWatched /\ RemoveFindsIt

-----------------------------------------------------------------------------
LEMMA LoopOf == \A c \in Int : getNextLoop(c) \in Loops
BY ServerAssumption, SMTT(30) DEF getNextLoop, Loops

LEMMA Constants ==
  /\ Main # None /\ Main \notin Loops /\ None \notin Loops
  /\ NoFd \notin Fds
  /\ Conns \subseteq Nat \ {0}
BY ServerAssumption DEF Loops, NoFd, Conns

(* Which connections exist. *)
LEMMA AliveIsMade == ASSUME TypeOK PROVE Alive \subseteq Conns
BY ServerAssumption DEF Alive, Conns, TypeOK

LEMMA NothingIsMade == ASSUME TypeOK PROVE 0 \in 0..made
BY ServerAssumption DEF TypeOK

LEMMA AliveStays ==
  ASSUME UNCHANGED <<made, newConn, connsMap, user, sending, swapped>>
  PROVE  Alive' = Alive
BY DEF Alive, Referenced

(* What ~TcpConnection does to those that stay: nothing. *)
LEMMA DestroyOthers ==
  ASSUME TypeOK, Numbers, Alive' \subseteq Alive, UNCHANGED <<fdOf, ueventMap>>,
         DestroyUnreferenced
  PROVE  /\ \A c \in Alive' : fdOf[c] # NoFd => files'[fdOf[c]] = c
         /\ \A c \in Alive' : c \in watched => c \in watched'
         /\ files' \in [Fds -> Conns \cup {0}]
         /\ \A fd \in Fds : files'[fd] \in {files[fd], 0}
         /\ watched' \subseteq watched
         /\ stale \subseteq stale' /\ stale' \subseteq Loops \X Fds
         /\ \A l \in Loops, fd \in Fds :
              ueventMap[l][fd] \in Alive \ Alive' => <<l, fd>> \in stale'
<1> DEFINE gone == Alive \ Alive'
           numbers == {fdOf[c] : c \in gone}
<1>1. /\ files' = [fd \in Fds |-> IF fd \in numbers THEN 0 ELSE files[fd]]
      /\ watched' = watched \ {files[fd] : fd \in numbers \cap Fds}
      /\ stale' = stale \cup {e \in Loops \X Fds : ueventMap[e[1]][e[2]] \in gone}
  BY DEF DestroyUnreferenced, Destroy
<1>2. ASSUME NEW c \in Alive', fdOf[c] # NoFd
      PROVE  fdOf[c] \in Fds /\ files[fdOf[c]] = c /\ fdOf[c] \notin numbers
  <2>1. fdOf[c] \in Fds /\ files[fdOf[c]] = c
    BY <1>2, AliveIsMade DEF Numbers, TypeOK
  <2>2. ASSUME NEW d \in gone, fdOf[d] = fdOf[c] PROVE FALSE
    BY <1>2, <2>1, <2>2 DEF Numbers
  <2>3. QED
    BY <2>1, <2>2
<1>3. ASSUME NEW c \in Alive', c \in watched PROVE c \in watched'
  <2>1. SUFFICES ASSUME NEW d \in gone, fdOf[d] \in Fds, files[fdOf[d]] = c
                 PROVE  FALSE
    BY <1>1, <1>3
  <2>2. files[fdOf[d]] = d
    BY <2>1, Constants DEF Numbers
  <2>3. QED
    BY <2>1, <2>2
<1>4. \A c \in Alive' : fdOf[c] # NoFd => files'[fdOf[c]] = c
  BY <1>1, <1>2
<1>5. files' \in [Fds -> Conns \cup {0}] /\ \A fd \in Fds : files'[fd] \in {files[fd], 0}
  BY <1>1 DEF TypeOK
<1>6. stale \subseteq stale' /\ stale' \subseteq Loops \X Fds
  BY <1>1 DEF TypeOK
<1>7. ASSUME NEW l \in Loops, NEW fd \in Fds, ueventMap[l][fd] \in gone
      PROVE  <<l, fd>> \in stale'
  BY <1>1, <1>7
<1>8. QED
  BY <1>1, <1>3, <1>4, <1>5, <1>6, <1>7

-----------------------------------------------------------------------------
(* Every variable keeps its type: the number in hand is a connection's.     *)
LEMMA UpdateType ==
  ASSUME TypeOK, NEW c \in Conns,
         updateChannel(getNextLoop(c), c) \/ removeChannel(getNextLoop(c), c)
  PROVE  /\ ueventMap' \in [Loops -> [Fds \cup {NoFd} -> Conns \cup {0}]]
         /\ watched' \subseteq Conns
<1>1. getNextLoop(c) \in Loops /\ fdOf[c] \in Fds \cup {NoFd}
  BY LoopOf, Constants DEF TypeOK
<1>2. CASE updateChannel(getNextLoop(c), c)
  BY <1>1, <1>2 DEF TypeOK, updateChannel
<1>3. CASE removeChannel(getNextLoop(c), c)
  BY <1>1, <1>3, Constants DEF TypeOK, removeChannel
<1>4. QED
  BY <1>2, <1>3

LEMMA DestroyType ==
  ASSUME TypeOK, DestroyUnreferenced
  PROVE  /\ files' \in [Fds -> Conns \cup {0}]
         /\ watched' \subseteq Conns
         /\ stale' \subseteq Loops \X Fds
BY DEF TypeOK, DestroyUnreferenced, Destroy

LEMMA MainTypeStep ==
  ASSUME TypeOK, Made, MainStep \/ \E fd \in Fds \cup {NoFd} : handleRead(fd)
  PROVE  TypeOK'
<1> USE ServerAssumption, Constants DEF TypeOK, mainVars, loopVars, kernelVars
<1>a. made \in Nat /\ newConn \in 0..made
  BY DEF Made
<1>1. ASSUME NEW fd \in Fds \cup {NoFd}, handleRead(fd) PROVE TypeOK'
  <2>1. made' \in Conns
    BY <1>a, <1>1 DEF handleRead, Conns
  <2>2. files' \in [Fds -> Conns \cup {0}]
    BY <1>1, <2>1 DEF handleRead
  <2>3. fdOf' \in [Conns -> Fds \cup {NoFd}]
    BY <1>1, <2>1 DEF handleRead
  <2>4. made' \in 0..MaxConns
    BY <1>a, <1>1 DEF handleRead
  <2>5. QED
    BY <1>1, <2>1, <2>2, <2>3, <2>4 DEF handleRead
<1>2. CASE register
  <2>1. newConn \in Conns
    BY <1>a, <1>2 DEF register, Made
  <2>2. QED
    BY <1>2, <2>1, UpdateType DEF register
<1>3. CASE insertLock
  BY <1>3 DEF insertLock
<1>4. CASE insert
  <2>1. newConn \in Conns
    BY <1>a, <1>4 DEF insert, Made
  <2>2. connsMap' \in [Fds \cup {NoFd} -> Conns \cup {0}]
    BY <1>4, <2>1 DEF insert
  <2>3. QED
    BY <1>4, <2>2 DEF insert
<1>5. CASE setReadCallBack \/ setDisconnectCallBack
  <2>1. PICK b \in {"read", "disconnect"} : SetCallBack(b)
    BY <1>5 DEF setReadCallBack, setDisconnectCallBack
  <2>2. callbacks' \in [Conns -> SUBSET {"read", "disconnect"}]
    BY <2>1 DEF SetCallBack
  <2>3. mpc' \in {"disconnect", "connected"}
    BY <1>5 DEF setReadCallBack, setDisconnectCallBack
  <2>4. fault' \in {"none", "missing", "freed", "poller", "map", "callback"}
    BY <2>1 DEF SetCallBack
  <2>5. QED
    BY <2>1, <2>2, <2>3, <2>4 DEF SetCallBack
<1>6. CASE onConnect
  <2>1. user' \subseteq Conns
    BY <1>6 DEF onConnect
  <2>2. QED
    BY <1>6, <2>1, DestroyType DEF onConnect
<1>7. QED
  BY <1>1, <1>2, <1>3, <1>4, <1>5, <1>6 DEF MainStep

LEMMA LoopTypeStep ==
  ASSUME TypeOK, Made, Removing, NEW l \in Loops, LoopStep(l)
  PROVE  TypeOK'
<1> USE ServerAssumption, Constants DEF TypeOK, mainVars, loopVars, kernelVars
<1>1. CASE poll(l)
  <2>1. PICK reported \in SUBSET {c \in watched : getNextLoop(c) = l} :
          ready' = [ready EXCEPT ![l] = reported]
    BY <1>1 DEF poll
  <2>2. ready' \in [Loops -> SUBSET Conns]
    BY <2>1
  <2>3. spc' \in [Loops -> {"poll", "dispatch", "find", "lock", "erase", "tasks"}]
    BY <1>1 DEF poll
  <2>4. fault' \in {"none", "missing", "freed", "poller", "map", "callback"}
    BY <1>1 DEF poll
  <2>5. QED
    BY <1>1, <2>2, <2>3, <2>4 DEF poll
<1>2. CASE find(l)
  BY <1>2 DEF find
<1>3. CASE eraseLock(l)
  BY <1>3 DEF eraseLock
<1>4. CASE erase(l)
  <2>1. cur[l] \in Conns /\ fdOf[cur[l]] \in Fds \cup {NoFd}
    BY <1>4 DEF erase, Removing
  <2>2. connsMap' \in [Fds \cup {NoFd} -> Conns \cup {0}]
    BY <1>4, <2>1 DEF erase
  <2>3. QED
    BY <1>4, <2>2, DestroyType DEF erase
<1>5. CASE handleTask(l)
  BY <1>5 DEF handleTask
<1>6. CASE endIteration(l)
  BY <1>6, DestroyType DEF endIteration
<1>7. ASSUME NEW c \in Conns, useFreed(l, c) PROVE TypeOK'
  BY <1>7 DEF useFreed
<1>8. ASSUME NEW c \in Conns, handleMessage(l, c) PROVE TypeOK'
  BY <1>8 DEF handleMessage
<1>9. ASSUME NEW c \in Conns, handleClose(l, c) PROVE TypeOK'
  <2>1. getNextLoop(c) = l
    BY <1>9 DEF handleClose, Made
  <2>2. /\ ueventMap' \in [Loops -> [Fds \cup {NoFd} -> Conns \cup {0}]]
        /\ watched' \subseteq Conns
    BY <1>9, <2>1, UpdateType DEF handleClose
  <2>3. fault' \in {"none", "missing", "freed", "poller", "map", "callback"}
    BY <1>9 DEF handleClose
  <2>4. /\ spc' \in [Loops -> {"poll", "dispatch", "find", "lock", "erase", "tasks"}]
        /\ cur' \in [Loops -> Conns \cup {0}]
    <3>1. CASE "disconnect" \in callbacks[c]
      BY <1>9, <3>1 DEF handleClose
    <3>2. CASE "disconnect" \notin callbacks[c]
      BY <1>9, <3>2 DEF handleClose
    <3>3. QED
      BY <3>1, <3>2
  <2>5. closed' \subseteq Conns /\ ready' \in [Loops -> SUBSET Conns]
    BY <1>9 DEF handleClose
  <2>6. QED
    BY <1>9, <2>2, <2>3, <2>4, <2>5 DEF handleClose
<1>10. ASSUME NEW c \in Conns, handleWrite(l, c) PROVE TypeOK'
  <2>1. getNextLoop(c) = l
    BY <1>10 DEF handleWrite, Made
  <2>2. /\ ueventMap' \in [Loops -> [Fds \cup {NoFd} -> Conns \cup {0}]]
        /\ watched' \subseteq Conns
    BY <1>10, <2>1, UpdateType DEF handleWrite
  <2>3. fault' \in {"none", "missing", "freed", "poller", "map", "callback"}
    BY <1>10 DEF handleWrite
  <2>4. ready' \in [Loops -> SUBSET Conns]
    BY <1>10 DEF handleWrite
  <2>5. QED
    BY <1>10, <2>2, <2>3, <2>4 DEF handleWrite
<1>11. ASSUME NEW c \in Conns, sendInloop(l, c) PROVE TypeOK'
  <2>1. getNextLoop(c) = l
    BY <1>11 DEF sendInloop
  <2>2. /\ ueventMap' \in [Loops -> [Fds \cup {NoFd} -> Conns \cup {0}]]
        /\ watched' \subseteq Conns
    <3>1. CASE updateChannel(getNextLoop(c), c)
      BY <3>1, UpdateType
    <3>2. CASE UNCHANGED <<ueventMap, watched>>
      BY <3>2
    <3>3. QED
      BY <1>11, <2>1, <3>1, <3>2 DEF sendInloop
  <2>3. fault' \in {"none", "missing", "freed", "poller", "map", "callback"}
    BY <1>11 DEF sendInloop
  <2>4. QED
    BY <1>11, <2>2, <2>3 DEF sendInloop
<1>12. QED
  BY <1>1, <1>2, <1>3, <1>4, <1>5, <1>6, <1>7, <1>8, <1>9, <1>10, <1>11 DEF LoopStep

LEMMA TypeStep ==
  ASSUME TypeOK, Made, Removing, [Next]_vars
  PROVE  TypeOK'
<1> USE ServerAssumption, Constants DEF mainVars, loopVars, kernelVars
<1>1. ASSUME NEW c \in Conns, send(c) PROVE TypeOK'
  BY <1>1 DEF send, TypeOK
<1>2. ASSUME NEW c \in Conns, release(c) PROVE TypeOK'
  BY <1>2, DestroyType DEF release, TypeOK
<1>3. ASSUME NEW c \in Conns, peerCloses(c) PROVE TypeOK'
  BY <1>3 DEF peerCloses, TypeOK
<1>4. CASE UNCHANGED vars
  BY <1>4 DEF vars, TypeOK
<1>5. QED
  BY <1>1, <1>2, <1>3, <1>4, MainTypeStep, LoopTypeStep DEF Next, Over

-----------------------------------------------------------------------------
(* The steps that let go of a connPtr: those that stay are as they were.    *)
LEMMA DestroyInv ==
  ASSUME TypeOK, Numbers, Entries, OpenIsWatched, fault = "none",
         Alive' \subseteq Alive, UNCHANGED <<fdOf, ueventMap, closed, fault>>,
         DestroyUnreferenced,
         \/ UNCHANGED <<newConn, mpc>>
         \/ mpc # "register" /\ mpc' # "register"
  PROVE  /\ \A c \in Alive' : fdOf'[c] # NoFd => files'[fdOf'[c]] = c
         /\ Entries'
         /\ OpenIsWatched'
<1>1. Entries'
  <2> SUFFICES ASSUME NEW l \in Loops, NEW fd \in Fds, ueventMap[l][fd] # 0,
                      <<l, fd>> \notin stale'
               PROVE  /\ ueventMap[l][fd] \in Alive'
                      /\ fdOf[ueventMap[l][fd]] = fd
                      /\ ueventMap[l][fd] = newConn' => mpc' # "register"
    BY DEF Entries
  <2>1. <<l, fd>> \notin stale
    BY DestroyOthers
  <2>2. /\ ueventMap[l][fd] \in Alive
        /\ fdOf[ueventMap[l][fd]] = fd
        /\ ueventMap[l][fd] = newConn => mpc # "register"
    BY <2>1 DEF Entries
  <2>3. ueventMap[l][fd] \in Alive'
    BY <2>2, DestroyOthers
  <2>4. QED
    BY <2>2, <2>3
<1>2. OpenIsWatched'
  <2> SUFFICES ASSUME NEW c \in Alive', c \notin closed, fdOf[c] # NoFd,
                      <<getNextLoop(c), fdOf[c]>> \notin stale',
                      ~(c = newConn' /\ mpc' = "register")
               PROVE  c \in watched'
    BY DEF OpenIsWatched, getNextLoop
  <2>1. c \in watched
    BY DestroyOthers DEF OpenIsWatched
  <2>2. QED
    BY <2>1, DestroyOthers
<1>3. QED
  BY <1>1, <1>2, DestroyOthers

LEMMA DestroyMade ==
  ASSUME TypeOK, Made, Numbers, Alive' \subseteq Alive,
         UNCHANGED <<made, fdOf, fin, closed, ueventMap, callbacks, ready>>,
         DestroyUnreferenced,
         newConn' \in 0..made, newConn' = 0 <=> mpc' = "accept",
         \A fd \in Fds \cup {NoFd} : connsMap'[fd] \in 0..made,
         user' \cup sending' \cup swapped' \subseteq 1..made
  PROVE  Made'
<1>1. /\ \A fd \in Fds : files'[fd] \in {files[fd], 0}
      /\ watched' \subseteq watched
  BY DestroyOthers
<1>2. made \in Nat
  BY ServerAssumption DEF TypeOK
<1>3. \A fd \in Fds : files'[fd] \in 0..made
  BY <1>1, <1>2 DEF Made
<1>4. \A c \in fin \cup watched' : c \in 1..made /\ fdOf[c] # NoFd
  BY <1>1 DEF Made
<1>5. QED
  BY <1>3, <1>4 DEF Made, getNextLoop

(* What IInv says besides TypeOK. *)
Rest ==
  /\ Made /\ InHand /\ Numbers /\ InMap /\ Removing /\ Entries
  /\ OpenIsWatched /\ RemoveFindsIt

LEMMA AcceptInv ==
  ASSUME TypeOK, Rest, fault = "none", NEW fd \in Fds \cup {NoFd}, handleRead(fd)
  PROVE  Rest'
<1> USE ServerAssumption, Constants DEF Rest
<1> DEFINE n == made + 1
<1>1. /\ n \in Conns /\ made' = n /\ newConn' = n /\ newConn = 0 /\ made \in Nat
      /\ mpc' = "register"
  BY DEF handleRead, TypeOK, Conns, Made
<1>2. /\ fdOf'[n] = fd
      /\ \A c \in 1..made : fdOf'[c] = fdOf[c]
      /\ \A f \in Fds : files'[f] = IF f = fd THEN n ELSE files[f]
  BY <1>1 DEF handleRead, TypeOK, Conns
<1>3. UNCHANGED <<watched, fin, closed, ueventMap, stale, connsMap, callbacks, spc, cur,
                  ready, user, sending, swapped, fault>>
  BY DEF handleRead, loopVars
<1>4. Alive' = Alive \cup {n}
  BY <1>1, <1>3 DEF Alive, Referenced, Made
<1>5. Alive \subseteq 1..made
  BY DEF Alive
<1>6. Made'
  BY <1>1, <1>2, <1>3 DEF Made
<1>7. InHand'
  BY <1>1, <1>3 DEF InHand, Made
<1>8. Numbers'
  <2>1. ASSUME NEW c \in Alive', fdOf'[c] # NoFd PROVE files'[fdOf'[c]] = c
    <3>1. CASE c = n
      BY <1>1, <1>2, <2>1, <3>1
    <3>2. CASE c # n
      <4>1. c \in Alive /\ fdOf'[c] = fdOf[c] /\ files[fdOf[c]] = c /\ c # 0
        BY <1>2, <1>4, <1>5, <2>1, <3>2 DEF Numbers
      <4>2. fdOf[c] \in Fds
        BY <1>1, <1>5, <2>1, <4>1 DEF TypeOK, Conns
      <4>3. fdOf[c] # fd
        BY <4>1, <4>2 DEF handleRead, accept
      <4>4. QED
        BY <1>2, <4>1, <4>2, <4>3
    <3>3. QED
      BY <3>1, <3>2
  <2>2. \A f \in Fds \cup {NoFd} : connsMap'[f] # 0 => fdOf'[connsMap'[f]] = f
    BY <1>2, <1>3 DEF Numbers, Made
  <2>3. QED
    BY <2>1, <2>2 DEF Numbers
<1>9. InMap'
  BY <1>1, <1>2, <1>3 DEF InMap
<1>10. Removing'
  BY <1>2, <1>3 DEF Removing, Made, getNextLoop
<1>11. Entries'
  <2> SUFFICES ASSUME NEW l \in Loops, NEW f \in Fds, ueventMap[l][f] # 0,
                      <<l, f>> \notin stale
               PROVE  /\ ueventMap[l][f] \in Alive'
                      /\ fdOf'[ueventMap[l][f]] = f
                      /\ ueventMap[l][f] # n
    BY <1>1, <1>3 DEF Entries
  <2>1. ueventMap[l][f] \in Alive /\ fdOf[ueventMap[l][f]] = f
    BY DEF Entries
  <2>2. ueventMap[l][f] \in 1..made
    BY <1>5, <2>1
  <2>3. QED
    BY <1>1, <1>2, <1>4, <2>1, <2>2
<1>12. OpenIsWatched'
  BY <1>1, <1>2, <1>3, <1>4, <1>5 DEF OpenIsWatched, getNextLoop
<1>13. QED
  BY <1>3, <1>6, <1>7, <1>8, <1>9, <1>10, <1>11, <1>12 DEF RemoveFindsIt

LEMMA RegisterInv ==
  ASSUME TypeOK, Rest, fault = "none", register
  PROVE  Rest'
<1> USE ServerAssumption, Constants DEF Rest
<1> DEFINE l0 == getNextLoop(newConn)
           fd0 == fdOf[newConn]
<1>1. newConn \in 1..made /\ newConn \in Conns /\ l0 \in Loops /\ fd0 \in Fds \cup {NoFd}
  BY LoopOf DEF register, Made, TypeOK, Conns
<1>2. /\ ueventMap' = [ueventMap EXCEPT ![l0][fd0] = newConn]
      /\ watched' = IF fd0 # NoFd /\ ueventMap[l0][fd0] = 0
                      THEN watched \cup {newConn} ELSE watched
      /\ mpc = "register" /\ mpc' = "lock"
  BY DEF register, updateChannel
<1>3. UNCHANGED <<made, fdOf, newConn, files, fin, closed, stale, connsMap, callbacks,
                  spc, cur, ready, user, sending, swapped, fault>>
  BY DEF register, loopVars
<1>4. Alive' = Alive
  BY <1>3, AliveStays
<1>5. newConn \in Alive
  BY <1>1 DEF Alive, Referenced
<1>6. \A l \in Loops, fd \in Fds \cup {NoFd} :
        ueventMap'[l][fd] = IF l = l0 /\ fd = fd0 THEN newConn ELSE ueventMap[l][fd]
  BY <1>1, <1>2 DEF TypeOK
<1>7. Made'
  BY <1>1, <1>2, <1>3, <1>6 DEF Made
<1>8. Entries'
  BY <1>1, <1>2, <1>3, <1>4, <1>5, <1>6 DEF Entries
<1>9. OpenIsWatched'
  <2> SUFFICES ASSUME NEW c \in Alive \ closed, fdOf[c] # NoFd,
                      <<getNextLoop(c), fdOf[c]>> \notin stale
               PROVE  c \in watched'
    BY <1>3, <1>4 DEF OpenIsWatched, getNextLoop
  <2>1. CASE c # newConn
    BY <1>2, <2>1 DEF OpenIsWatched
  <2>2. CASE c = newConn
    <3>1. fd0 \in Fds /\ files[fd0] = newConn
      BY <1>1, <1>5, <2>2 DEF Numbers
    <3>2. ueventMap[l0][fd0] = 0
      BY <1>1, <1>2, <2>2, <3>1 DEF Entries, Numbers
    <3>3. QED
      BY <1>2, <2>2, <3>1, <3>2
  <2>3. QED
    BY <2>1, <2>2
<1>10. InHand' /\ InMap'
  BY <1>2, <1>3 DEF InHand, InMap
<1>11. Numbers' /\ Removing' /\ RemoveFindsIt'
  BY <1>3, <1>4 DEF Numbers, Removing, RemoveFindsIt, getNextLoop
<1>12. QED
  BY <1>7, <1>8, <1>9, <1>10, <1>11

LEMMA InsertInv ==
  ASSUME TypeOK, Rest, fault = "none", insert
  PROVE  Rest'
<1> USE ServerAssumption, Constants DEF Rest
<1> DEFINE fd0 == fdOf[newConn]
<1>1. newConn \in 1..made /\ newConn \in Conns /\ fd0 \in Fds \cup {NoFd}
  BY DEF insert, Made, TypeOK, Conns
<1>2. UNCHANGED <<made, fdOf, newConn, files, watched, fin, closed, ueventMap, stale,
                  callbacks, spc, cur, ready, user, sending, swapped, fault>>
  BY DEF insert, loopVars, kernelVars
<1>3. mpc = "insert" /\ mpc' = "read"
  BY DEF insert
<1>4. newConn \in Alive
  BY <1>1 DEF Alive, Referenced
<1>5. \A fd \in Fds \cup {NoFd} :
        connsMap'[fd] = IF fd = fd0 /\ connsMap[fd] = 0 THEN newConn ELSE connsMap[fd]
  BY <1>1 DEF insert, TypeOK
<1>6. Alive' = Alive
  <2>1. DOMAIN connsMap = Fds \cup {NoFd} /\ DOMAIN connsMap' = Fds \cup {NoFd}
    BY DEF insert, TypeOK
  <2>2. ASSUME NEW c \in 1..made, NEW fd \in Fds \cup {NoFd}
        PROVE  /\ connsMap'[fd] = c => connsMap[fd] = c \/ newConn = c
               /\ connsMap[fd] = c => connsMap'[fd] = c
    <3>1. c # 0
      BY <1>1
    <3>2. QED
      BY <1>5, <3>1
  <2>3. ASSUME NEW c \in 1..made PROVE Referenced(c)' <=> Referenced(c)
    BY <1>2, <2>1, <2>2 DEF Referenced
  <2>4. QED
    BY <1>2, <2>3 DEF Alive
(* No other connection is in the map under the number. *)
<1>7. fd0 # NoFd /\ connsMap[fd0] # 0 => connsMap[fd0] = newConn
  <2> SUFFICES ASSUME fd0 # NoFd, connsMap[fd0] # 0 PROVE connsMap[fd0] = newConn
    OBVIOUS
  <2>1. connsMap[fd0] \in 1..made
    <3>1. connsMap[fd0] \in 0..made
      BY <1>1 DEF Made
    <3>2. QED
      BY <1>1, <3>1
  <2>2. connsMap[fd0] \in Alive /\ fdOf[connsMap[fd0]] = fd0
    BY <1>1, <2>1 DEF Alive, Referenced, Numbers, TypeOK
  <2>3. QED
    BY <1>4, <2>2 DEF Numbers
<1>8. Made'
  BY <1>1, <1>2, <1>3, <1>5 DEF Made
<1>9. Numbers'
  BY <1>2, <1>5, <1>6 DEF Numbers
<1>10. InMap'
  <2> SUFFICES ASSUME NEW c \in (1..made) \ closed, fdOf[c] # NoFd
               PROVE  connsMap'[fdOf[c]] = c
    BY <1>2 DEF InMap
  <2>1. fdOf[c] \in Fds
    BY DEF TypeOK, Conns
  <2>2. CASE c = newConn
    BY <1>1, <1>5, <1>7, <2>1, <2>2
  <2>3. CASE c # newConn
    <3>1. connsMap[fdOf[c]] = c /\ c # 0
      BY <2>3 DEF InMap, TypeOK
    <3>2. QED
      BY <1>5, <2>1, <3>1
  <2>4. QED
    BY <2>2, <2>3
<1>11. Removing'
  <2> SUFFICES ASSUME NEW l \in Loops, spc[l] \in {"find", "lock", "erase"}
               PROVE  connsMap'[fdOf[cur[l]]] = cur[l]
    BY <1>2 DEF Removing, getNextLoop
  <2>1. cur[l] \in 1..made /\ connsMap[fdOf[cur[l]]] = cur[l]
    BY DEF Removing, Made
  <2>2. fdOf[cur[l]] \in Fds \cup {NoFd}
    BY <2>1 DEF TypeOK, Conns
  <2>3. cur[l] # 0
    BY <1>1, <2>1
  <2>4. QED
    BY <1>5, <2>1, <2>2, <2>3
<1>12. InHand' /\ Entries' /\ OpenIsWatched' /\ RemoveFindsIt'
  BY <1>2, <1>3, <1>6 DEF InHand, Entries, OpenIsWatched, RemoveFindsIt, getNextLoop
<1>13. QED
  BY <1>8, <1>9, <1>10, <1>11, <1>12

LEMMA CallbackInv ==
  ASSUME TypeOK, Rest, setReadCallBack \/ setDisconnectCallBack \/ insertLock
  PROVE  Rest'
<1> USE DEF Rest
<1>1. /\ UNCHANGED <<made, fdOf, newConn, files, watched, fin, closed, ueventMap, stale,
                     connsMap, spc, cur, ready, user, sending, swapped>>
      /\ fault' \in {fault, "callback"}
  BY DEF setReadCallBack, setDisconnectCallBack, SetCallBack, insertLock, loopVars,
     kernelVars
<1>2. Alive' = Alive
  BY <1>1, AliveStays
<1>3. CASE insertLock
  <2>1. mpc = "lock" /\ mpc' = "insert" /\ UNCHANGED callbacks
    BY <1>3 DEF insertLock
  <2>2. QED
    BY <1>1, <1>2, <2>1 DEF Made, InHand, Numbers, InMap, Removing, Entries,
       OpenIsWatched, RemoveFindsIt, getNextLoop
<1>4. CASE setReadCallBack \/ setDisconnectCallBack
  <2>1. /\ mpc \in {"read", "disconnect"} /\ mpc' \in {"disconnect", "connected"}
        /\ mpc = "disconnect" => mpc' = "connected"
    BY <1>4 DEF setReadCallBack, setDisconnectCallBack, SetCallBack
  <2>2. newConn \in 1..made /\ newConn \in Conns
    BY <2>1 DEF Made, TypeOK, Conns
  <2>3. /\ \A c \in Conns : c # newConn => callbacks'[c] = callbacks[c]
        /\ "read" \in callbacks'[newConn] => mpc' \in {"disconnect", "connected"}
        /\ "disconnect" \in callbacks'[newConn] =>
             mpc' = "connected" \/ "disconnect" \in callbacks[newConn]
    BY <1>4, <2>2 DEF setReadCallBack, setDisconnectCallBack, SetCallBack, TypeOK
  <2>4. Made' /\ InHand'
    BY <1>1, <2>1, <2>2, <2>3 DEF Made, InHand
  <2>5. QED
    BY <1>1, <1>2, <2>1, <2>4 DEF Numbers, InMap, Removing, Entries,
       OpenIsWatched, RemoveFindsIt, getNextLoop
<1>5. QED
  BY <1>3, <1>4

LEMMA ConnectInv ==
  ASSUME TypeOK, Rest, fault = "none", onConnect
  PROVE  Rest'
<1> USE ServerAssumption, Constants DEF Rest
<1>1. UNCHANGED <<made, fdOf, fin, closed, ueventMap, connsMap, callbacks, spc, cur,
                  ready, sending, swapped, fault>>
  BY DEF onConnect, loopVars
<1>2. /\ mpc = "connected" /\ mpc' = "accept" /\ newConn' = 0
      /\ newConn \in 1..made /\ user' \subseteq user \cup {newConn}
  BY DEF onConnect, Made, TypeOK
<1>3. Alive' \subseteq Alive
  BY <1>1, <1>2 DEF Alive, Referenced
<1>4. DestroyUnreferenced
  BY DEF onConnect
<1>5. Entries' /\ OpenIsWatched' /\ Numbers'
  BY <1>1, <1>2, <1>3, <1>4, DestroyInv DEF Numbers
<1>6. Made'
  <2>1. /\ newConn' \in 0..made /\ (newConn' = 0 <=> mpc' = "accept")
        /\ \A fd \in Fds \cup {NoFd} : connsMap'[fd] \in 0..made
        /\ user' \cup sending' \cup swapped' \subseteq 1..made
    <3>1. 0 \in 0..made /\ user' \subseteq 1..made
      BY <1>2, NothingIsMade DEF Made
    <3>2. QED
      BY <1>1, <1>2, <3>1 DEF Made
  <2>2. QED
    BY <1>1, <1>3, <1>4, <2>1, DestroyMade
<1>7. InHand' /\ InMap' /\ Removing' /\ RemoveFindsIt'
  BY <1>1, <1>2 DEF InHand, InMap, Removing, RemoveFindsIt, getNextLoop, Made
<1>8. QED
  BY <1>5, <1>6, <1>7

-----------------------------------------------------------------------------
(* The steps of a sub-loop and of the user that let go of a connPtr.        *)
LEMMA EraseInv ==
  ASSUME TypeOK, Rest, fault = "none", NEW l \in Loops, erase(l)
  PROVE  Rest'
<1> USE ServerAssumption, Constants DEF Rest
<1> DEFINE c0 == cur[l]
<1>1. UNCHANGED <<made, fdOf, mpc, newConn, fin, closed, ueventMap, callbacks, ready,
                  user, sending, swapped, fault>>
  BY DEF erase, mainVars
<1>2. /\ c0 \in closed /\ c0 \in 1..made /\ fdOf[c0] \in Fds
      /\ connsMap[fdOf[c0]] = c0
  BY DEF erase, Removing, Made, TypeOK, Conns
<1>3. \A fd \in Fds \cup {NoFd} :
        connsMap'[fd] = IF fd = fdOf[c0] THEN 0 ELSE connsMap[fd]
  BY <1>2 DEF erase, TypeOK
<1>4. Alive' \subseteq Alive
  <2>1. DOMAIN connsMap = Fds \cup {NoFd} /\ DOMAIN connsMap' = Fds \cup {NoFd}
    BY DEF erase, TypeOK
  <2>2. ASSUME NEW c \in 1..made, NEW fd \in Fds \cup {NoFd}, connsMap'[fd] = c
        PROVE  connsMap[fd] = c
    <3>1. c # 0
      BY <1>2 DEF TypeOK
    <3>2. QED
      BY <1>3, <2>2, <3>1
  <2>3. QED
    BY <1>1, <2>1, <2>2 DEF Alive, Referenced
<1>5. DestroyUnreferenced
  BY DEF erase
<1>6. Entries' /\ OpenIsWatched' /\ Numbers'
  BY <1>1, <1>3, <1>4, <1>5, DestroyInv DEF Numbers
<1>7. Made'
  <2>1. /\ newConn' \in 0..made /\ (newConn' = 0 <=> mpc' = "accept")
        /\ \A fd \in Fds \cup {NoFd} : connsMap'[fd] \in 0..made
        /\ user' \cup sending' \cup swapped' \subseteq 1..made
    <3>1. 0 \in 0..made
      BY NothingIsMade
    <3>2. \A fd \in Fds \cup {NoFd} : connsMap'[fd] \in 0..made
      BY <1>3, <3>1 DEF Made
    <3>3. QED
      BY <1>1, <3>2 DEF Made
  <2>2. QED
    BY <1>1, <1>4, <1>5, <2>1, DestroyMade
<1>8. InMap'
  <2> SUFFICES ASSUME NEW c \in (1..made) \ closed, fdOf[c] # NoFd
               PROVE  \/ connsMap'[fdOf[c]] = c
                      \/ c = newConn /\ mpc \in {"register", "lock", "insert"}
    BY <1>1 DEF InMap
  <2>1. fdOf[c] \in Fds /\ c # c0
    BY <1>2 DEF TypeOK, Conns
  <2>2. QED
    BY <1>2, <1>3, <2>1 DEF InMap
<1>9. Removing'
  <2> SUFFICES ASSUME NEW m \in Loops, spc'[m] \in {"find", "lock", "erase"}
               PROVE  /\ cur'[m] \in closed /\ fdOf[cur'[m]] # NoFd
                      /\ getNextLoop(cur'[m]) = m
                      /\ connsMap'[fdOf[cur'[m]]] = cur'[m]
    BY <1>1 DEF Removing, getNextLoop
  <2>1. m # l /\ spc'[m] = spc[m] /\ cur'[m] = cur[m]
    BY DEF erase, TypeOK
  <2>2. /\ cur[m] \in closed /\ fdOf[cur[m]] # NoFd /\ getNextLoop(cur[m]) = m
        /\ connsMap[fdOf[cur[m]]] = cur[m] /\ getNextLoop(c0) = l
    BY <2>1 DEF Removing, erase
  <2>3. cur[m] # c0 /\ fdOf[cur[m]] \in Fds
    BY <2>1, <2>2 DEF TypeOK, Made, Conns
  <2>4. QED
    BY <1>2, <1>3, <2>1, <2>2, <2>3
<1>10. InHand' /\ RemoveFindsIt'
  BY <1>1 DEF InHand, RemoveFindsIt
<1>11. QED
  BY <1>6, <1>7, <1>8, <1>9, <1>10

LEMMA ReleaseInv ==
  ASSUME TypeOK, Rest, fault = "none", NEW c \in Conns, release(c)
  PROVE  Rest'
<1> USE ServerAssumption, Constants DEF Rest
<1>1. UNCHANGED <<made, fdOf, mpc, newConn, fin, closed, ueventMap, connsMap, callbacks,
                  spc, cur, ready, sending, swapped, fault>> /\ user' \subseteq user
  BY DEF release, mainVars, loopVars
<1>2. Alive' \subseteq Alive
  BY <1>1 DEF Alive, Referenced
<1>3. DestroyUnreferenced
  BY DEF release
<1>4. Entries' /\ OpenIsWatched' /\ Numbers'
  BY <1>1, <1>2, <1>3, DestroyInv DEF Numbers
<1>5. Made'
  <2>1. /\ newConn' \in 0..made /\ (newConn' = 0 <=> mpc' = "accept")
        /\ \A fd \in Fds \cup {NoFd} : connsMap'[fd] \in 0..made
        /\ user' \cup sending' \cup swapped' \subseteq 1..made
    BY <1>1 DEF Made
  <2>2. QED
    BY <1>1, <1>2, <1>3, <2>1, DestroyMade
<1>6. InHand' /\ InMap' /\ Removing' /\ RemoveFindsIt'
  BY <1>1 DEF InHand, InMap, Removing, RemoveFindsIt, getNextLoop
<1>7. QED
  BY <1>4, <1>5, <1>6

LEMMA SendInloopInv ==
  ASSUME TypeOK, Rest, fault = "none", NEW l \in Loops, NEW c \in Conns,
         sendInloop(l, c)
  PROVE  Rest'
<1> USE ServerAssumption, Constants DEF Rest
<1>1. UNCHANGED <<made, fdOf, mpc, newConn, files, fin, closed, stale, connsMap, callbacks,
                  spc, cur, ready, user, sending, swapped>>
  BY DEF sendInloop, mainVars, loopVars
<1>2. c \in 1..made /\ c \in Alive /\ getNextLoop(c) = l /\ fdOf[c] # NoFd
  BY DEF sendInloop, Made, Alive, Referenced
<1>3. Alive' = Alive
  BY <1>1, AliveStays
<1>4. InHand' /\ InMap' /\ Removing' /\ Numbers'
  BY <1>1, <1>3 DEF InHand, InMap, Removing, Numbers, getNextLoop
<1>5. CASE fault' = "poller" /\ UNCHANGED <<ueventMap, watched>>
  BY <1>1, <1>3, <1>4, <1>5 DEF Made, Entries, OpenIsWatched, RemoveFindsIt, getNextLoop
<1>6. CASE updateChannel(l, c) /\ UNCHANGED fault
  <2>1. fdOf[c] \in Fds \cup {NoFd}
    BY DEF TypeOK
  <2>2. /\ \A m \in Loops, fd \in Fds \cup {NoFd} :
             ueventMap'[m][fd] = IF m = l /\ fd = fdOf[c] THEN c ELSE ueventMap[m][fd]
        /\ watched \subseteq watched' /\ watched' \subseteq watched \cup {c}
    BY <1>6, <2>1 DEF updateChannel, TypeOK
  <2>3. Made'
    <3>1. \A m \in Loops, fd \in Fds \cup {NoFd} : ueventMap'[m][fd] \in 0..made
      BY <1>2, <2>2 DEF Made, TypeOK
    <3>2. \A d \in fin \cup watched' : d \in 1..made /\ fdOf[d] # NoFd
      BY <1>2, <2>2 DEF Made
    <3>3. QED
      BY <1>1, <3>1, <3>2 DEF Made, getNextLoop
  <2>4. Entries'
    <3>1. c = newConn => mpc # "register"
      BY DEF sendInloop, InHand
    <3>2. QED
      BY <1>1, <1>2, <1>3, <1>6, <2>2, <3>1 DEF Entries
  <2>5. OpenIsWatched' /\ RemoveFindsIt'
    BY <1>1, <1>3, <1>6, <2>2 DEF OpenIsWatched, RemoveFindsIt, getNextLoop
  <2>6. QED
    BY <1>4, <2>3, <2>4, <2>5
<1>7. QED
  BY <1>5, <1>6 DEF sendInloop

(* handleTask lets go of the connPtr's in its vector. *)
LEMMA EndInv ==
  ASSUME TypeOK, Rest, fault = "none", NEW l \in Loops, endIteration(l)
  PROVE  Rest'
<1> USE ServerAssumption, Constants DEF Rest
<1>1. UNCHANGED <<made, fdOf, mpc, newConn, fin, closed, ueventMap, connsMap, callbacks,
                  cur, ready, user, sending, fault>> /\ swapped' \subseteq swapped
  BY DEF endIteration, mainVars
<1>2. Alive' \subseteq Alive
  BY <1>1 DEF Alive, Referenced
<1>3. DestroyUnreferenced
  BY DEF endIteration
<1>4. Entries' /\ OpenIsWatched' /\ Numbers'
  BY <1>1, <1>2, <1>3, DestroyInv DEF Numbers
<1>5. Made'
  <2>1. /\ newConn' \in 0..made /\ (newConn' = 0 <=> mpc' = "accept")
        /\ \A fd \in Fds \cup {NoFd} : connsMap'[fd] \in 0..made
        /\ user' \cup sending' \cup swapped' \subseteq 1..made
    BY <1>1 DEF Made
  <2>2. QED
    BY <1>1, <1>2, <1>3, <2>1, DestroyMade
<1>6. InHand' /\ InMap' /\ RemoveFindsIt'
  BY <1>1 DEF InHand, InMap, RemoveFindsIt
<1>7. Removing'
  <2>1. \A m \in Loops : spc'[m] \in {"find", "lock", "erase"} => spc[m] = spc'[m]
    BY DEF endIteration, TypeOK
  <2>2. QED
    BY <1>1, <2>1 DEF Removing, getNextLoop
<1>8. QED
  BY <1>4, <1>5, <1>6, <1>7

-----------------------------------------------------------------------------
(* The steps that change neither who owns a connection nor what is          *)
(* registered.                                                              *)
LEMMA QuietInv ==
  ASSUME TypeOK, Rest, fault = "none",
         UNCHANGED <<mainVars, kernelVars, closed, ueventMap, stale, connsMap, callbacks>>,
         Alive' = Alive, Made', InHand', Removing', RemoveFindsIt'
  PROVE  Rest'
BY DEF Rest, mainVars, kernelVars, Numbers, InMap, Entries, OpenIsWatched, getNextLoop

LEMMA DispatchInv ==
  ASSUME TypeOK, Rest, fault = "none", NEW l \in Loops,
         \/ poll(l) \/ find(l) \/ eraseLock(l) \/ handleTask(l)
         \/ \E c \in Conns : useFreed(l, c) \/ handleMessage(l, c)
  PROVE  Rest'
<1> USE ServerAssumption, Constants DEF Rest
<1>1. CASE poll(l)
  <2>1. UNCHANGED <<mainVars, kernelVars, fin, closed, ueventMap, stale, connsMap,
                    callbacks, cur, user, sending, swapped>>
    BY <1>1 DEF poll
  <2>2. PICK reported \in SUBSET {c \in watched : getNextLoop(c) = l} :
          ready' = [ready EXCEPT ![l] = reported]
    BY <1>1 DEF poll
  <2>3. \A m \in Loops : ready'[m] = IF m = l THEN reported ELSE ready[m]
    BY <2>2 DEF TypeOK
  <2>4. Made'
    BY <2>1, <2>2, <2>3 DEF Made, mainVars, kernelVars, getNextLoop
  <2>5. \A m \in Loops : spc'[m] \in {"find", "lock", "erase"} => spc'[m] = spc[m]
    BY <1>1 DEF poll, TypeOK
  <2>6. InHand' /\ Removing'
    BY <2>1, <2>5 DEF InHand, Removing, mainVars, getNextLoop
  <2>7. RemoveFindsIt'
    BY <1>1 DEF poll, RemoveFindsIt
  <2>8. Alive' = Alive
    BY <2>1, AliveStays DEF mainVars
  <2>9. QED
    BY <2>1, <2>4, <2>6, <2>7, <2>8, QuietInv
<1>2. CASE find(l)
  <2>1. UNCHANGED <<mainVars, kernelVars, fin, closed, ueventMap, stale, connsMap,
                    callbacks, cur, ready, user, sending, swapped>>
    BY <1>2 DEF find
  <2>2. Made' /\ InHand'
    BY <2>1 DEF Made, InHand, mainVars, kernelVars, getNextLoop
  <2>3. Removing'
    BY <1>2, <2>1 DEF find, Removing, mainVars, getNextLoop, TypeOK
  <2>4. connsMap[fdOf[cur[l]]] # 0
    BY <1>2 DEF find, Removing, Made
  <2>5. RemoveFindsIt'
    BY <1>2, <2>4 DEF find, RemoveFindsIt
  <2>6. Alive' = Alive
    BY <2>1, AliveStays DEF mainVars
  <2>7. QED
    BY <2>1, <2>2, <2>3, <2>5, <2>6, QuietInv
<1>3. CASE eraseLock(l) \/ handleTask(l)
  <2>1. /\ UNCHANGED <<mainVars, kernelVars, fin, closed, ueventMap, stale, connsMap,
                       callbacks, cur, ready, user, fault>>
        /\ sending' \cup swapped' = sending \cup swapped
    BY <1>3 DEF eraseLock, handleTask
  <2>2. Made' /\ InHand'
    BY <2>1 DEF Made, InHand, mainVars, kernelVars, getNextLoop
  <2>3. \A m \in Loops : spc'[m] \in {"find", "lock", "erase"} =>
                         spc[m] \in {"find", "lock", "erase"}
    BY <1>3 DEF eraseLock, handleTask, TypeOK
  <2>4. Removing' /\ RemoveFindsIt'
    BY <2>1, <2>3 DEF Removing, RemoveFindsIt, mainVars, getNextLoop
  <2>5. Alive' = Alive
    BY <2>1 DEF Alive, Referenced, mainVars
  <2>6. QED
    BY <2>1, <2>2, <2>4, <2>5, QuietInv
<1>4. ASSUME NEW c \in Conns, useFreed(l, c) PROVE Rest'
  <2>1. UNCHANGED <<mainVars, kernelVars, fin, closed, ueventMap, stale, connsMap,
                    callbacks, loopVars, user, sending, swapped>>
    BY <1>4 DEF useFreed
  <2>2. Made' /\ InHand' /\ Removing'
    BY <2>1 DEF Made, InHand, Removing, mainVars, loopVars, kernelVars, getNextLoop
  <2>3. RemoveFindsIt'
    BY <1>4 DEF useFreed, RemoveFindsIt
  <2>4. Alive' = Alive
    BY <2>1, AliveStays DEF mainVars
  <2>5. QED
    BY <2>1, <2>2, <2>3, <2>4, QuietInv
<1>5. ASSUME NEW c \in Conns, handleMessage(l, c) PROVE Rest'
  <2>1. UNCHANGED <<mainVars, kernelVars, fin, closed, ueventMap, stale, connsMap,
                    callbacks, spc, cur, sending, swapped, fault>>
    BY <1>5 DEF handleMessage
  <2>2. /\ c \in Alive /\ user' \subseteq user \cup {c} /\ user \subseteq user'
        /\ c \in user' \ user => "read" \in callbacks[c]
        /\ ready' = [ready EXCEPT ![l] = @ \ {c}]
    BY <1>5 DEF handleMessage
  <2>3. c \in 1..made
    BY <2>2 DEF Alive
  <2>4. Made'
    <3>1. \A m \in Loops : ready'[m] \subseteq ready[m]
      BY <2>2 DEF TypeOK
    <3>2. user' \subseteq 1..made
      BY <2>2, <2>3 DEF Made
    <3>3. QED
      BY <2>1, <3>1, <3>2 DEF Made, mainVars, kernelVars, getNextLoop
  <2>5. InHand'
    BY <2>1, <2>2, <2>3 DEF InHand, mainVars
  <2>6. Removing' /\ RemoveFindsIt'
    BY <2>1 DEF Removing, RemoveFindsIt, mainVars, getNextLoop
  <2>7. Alive' = Alive
    BY <2>1, <2>2 DEF Alive, Referenced, mainVars
  <2>8. QED
    BY <2>1, <2>4, <2>5, <2>6, <2>7, QuietInv
<1>6. QED
  BY <1>1, <1>2, <1>3, <1>4, <1>5

(* removeChannel takes a closed connection out of its poller.               *)
LEMMA RemoveChannelInv ==
  ASSUME TypeOK, Rest, fault = "none", NEW c \in 1..made, c \in closed',
         removeChannel(getNextLoop(c), c) \/ UNCHANGED <<ueventMap, watched>>,
         UNCHANGED <<mainVars, files, stale, connsMap>>,
         Alive' = Alive, closed \subseteq closed'
  PROVE  /\ Entries' /\ OpenIsWatched' /\ watched' \subseteq watched
         /\ \A m \in Loops, fd \in Fds \cup {NoFd} :
              ueventMap'[m][fd] \in {ueventMap[m][fd], 0}
<1> USE ServerAssumption, Constants DEF Rest, mainVars
<1>1. c \in Conns /\ getNextLoop(c) \in Loops /\ fdOf[c] \in Fds \cup {NoFd}
  BY LoopOf DEF TypeOK, Conns
<1>2. /\ \A m \in Loops, fd \in Fds \cup {NoFd} :
           ueventMap'[m][fd] \in {ueventMap[m][fd], 0}
      /\ watched' \subseteq watched /\ watched \subseteq watched' \cup {c}
  BY <1>1 DEF removeChannel, TypeOK
<1>3. Entries'
  BY <1>2 DEF Entries
<1>4. OpenIsWatched'
  BY <1>2 DEF OpenIsWatched, getNextLoop
<1>5. QED
  BY <1>2, <1>3, <1>4

LEMMA CloseInv ==
  ASSUME TypeOK, Rest, fault = "none", NEW l \in Loops, NEW c \in Conns,
         handleClose(l, c)
  PROVE  Rest'
<1> USE ServerAssumption, Constants DEF Rest
<1>1. UNCHANGED <<mainVars, files, fin, stale, connsMap, callbacks, user, sending, swapped>>
  BY DEF handleClose
<1>2. /\ c \in ready[l] /\ c \in 1..made /\ c \notin closed /\ fdOf[c] # NoFd
      /\ getNextLoop(c) = l /\ closed' = closed \cup {c}
      /\ ready' = [ready EXCEPT ![l] = @ \ {c}]
  BY DEF handleClose, Alive, Made
<1>3. Alive' = Alive
  BY <1>1, AliveStays DEF mainVars
<1>4. removeChannel(l, c) \/ UNCHANGED <<ueventMap, watched>>
  BY DEF handleClose
<1>5. /\ Entries' /\ OpenIsWatched' /\ watched' \subseteq watched
      /\ \A m \in Loops, fd \in Fds \cup {NoFd} :
           ueventMap'[m][fd] \in {ueventMap[m][fd], 0}
  BY <1>1, <1>2, <1>3, <1>4, RemoveChannelInv
<1>6. Made'
  <2>1. \A m \in Loops : ready'[m] \subseteq ready[m]
    BY <1>2 DEF TypeOK
  <2>2. \A m \in Loops, fd \in Fds \cup {NoFd} : ueventMap'[m][fd] \in 0..made
    <3>1. 0 \in 0..made
      BY NothingIsMade
    <3>2. QED
      BY <1>5, <3>1 DEF Made
  <2>3. QED
    BY <1>1, <1>2, <1>5, <2>1, <2>2 DEF Made, mainVars, getNextLoop
<1>7. InHand' /\ Numbers' /\ InMap'
  BY <1>1, <1>2, <1>3 DEF InHand, Numbers, InMap, mainVars
<1>8. Removing'
  <2> SUFFICES ASSUME NEW m \in Loops, spc'[m] \in {"find", "lock", "erase"}
               PROVE  /\ cur'[m] \in closed' /\ fdOf[cur'[m]] # NoFd
                      /\ getNextLoop(cur'[m]) = m
                      /\ connsMap[fdOf[cur'[m]]] = cur'[m]
    BY <1>1 DEF Removing, mainVars, getNextLoop
  <2>1. spc[l] = "dispatch"
    BY DEF handleClose
  <2>2. CASE "disconnect" \notin callbacks[c]
    BY <1>2, <2>2 DEF handleClose, Removing
  <2>3. CASE "disconnect" \in callbacks[c] /\ m # l
    BY <1>2, <2>3 DEF handleClose, Removing, TypeOK
  <2>4. CASE "disconnect" \in callbacks[c] /\ m = l
    <3>1. cur'[m] = c
      BY <2>4 DEF handleClose, TypeOK
    <3>2. connsMap[fdOf[c]] = c
      BY <1>2, <2>4 DEF InMap, InHand, Made
    <3>3. QED
      BY <1>2, <2>4, <3>1, <3>2
  <2>5. QED
    BY <2>2, <2>3, <2>4
<1>9. RemoveFindsIt'
  BY DEF handleClose, RemoveFindsIt
<1>10. QED
  BY <1>5, <1>6, <1>7, <1>8, <1>9

LEMMA WriteInv ==
  ASSUME TypeOK, Rest, fault = "none", NEW l \in Loops, NEW c \in Conns,
         handleWrite(l, c)
  PROVE  Rest'
<1> USE ServerAssumption, Constants DEF Rest
<1>1. UNCHANGED <<mainVars, files, fin, closed, stale, connsMap, callbacks, spc, cur,
                  user, sending, swapped>>
  BY DEF handleWrite
<1>2. /\ c \in 1..made /\ c \in closed /\ getNextLoop(c) = l
      /\ ready' = [ready EXCEPT ![l] = @ \ {c}]
  BY DEF handleWrite, Alive, Made
<1>3. Alive' = Alive
  BY <1>1, AliveStays DEF mainVars
<1>4. removeChannel(l, c) \/ UNCHANGED <<ueventMap, watched>>
  BY DEF handleWrite
<1>5. /\ Entries' /\ OpenIsWatched' /\ watched' \subseteq watched
      /\ \A m \in Loops, fd \in Fds \cup {NoFd} :
           ueventMap'[m][fd] \in {ueventMap[m][fd], 0}
  BY <1>1, <1>2, <1>3, <1>4, RemoveChannelInv
<1>6. Made'
  <2>1. \A m \in Loops : ready'[m] \subseteq ready[m]
    BY <1>2 DEF TypeOK
  <2>2. \A m \in Loops, fd \in Fds \cup {NoFd} : ueventMap'[m][fd] \in 0..made
    <3>1. 0 \in 0..made
      BY NothingIsMade
    <3>2. QED
      BY <1>5, <3>1 DEF Made
  <2>3. QED
    BY <1>1, <1>2, <1>5, <2>1, <2>2 DEF Made, mainVars, getNextLoop
<1>7. InHand' /\ Numbers' /\ InMap' /\ Removing'
  BY <1>1, <1>2, <1>3 DEF InHand, Numbers, InMap, Removing, mainVars, getNextLoop
<1>8. RemoveFindsIt'
  BY DEF handleWrite, RemoveFindsIt
<1>9. QED
  BY <1>5, <1>6, <1>7, <1>8

LEMMA PeerInv ==
  ASSUME TypeOK, Rest, fault = "none", NEW c \in Conns, send(c) \/ peerCloses(c)
  PROVE  Rest'
<1> USE ServerAssumption, Constants DEF Rest
<1>1. UNCHANGED <<mainVars, kernelVars, closed, ueventMap, stale, connsMap, callbacks,
                  spc, cur, ready, user, swapped, fault>>
  BY DEF send, peerCloses, loopVars
<1>2. CASE send(c)
  <2>1. sending' = sending \cup {c} /\ c \in user /\ fin' = fin
    BY <1>2 DEF send
  <2>2. Made' /\ InHand'
    BY <1>1, <2>1 DEF Made, InHand, mainVars, kernelVars, getNextLoop
  <2>3. Alive' = Alive
    BY <1>1, <2>1 DEF Alive, Referenced, mainVars
  <2>4. QED
    BY <1>1, <2>2, <2>3, QuietInv DEF Removing, RemoveFindsIt, mainVars, getNextLoop
<1>3. CASE peerCloses(c)
  <2>1. fin' = fin \cup {c} /\ c \in 1..made /\ fdOf[c] # NoFd /\ sending' = sending
    BY <1>3 DEF peerCloses
  <2>2. Made' /\ InHand'
    BY <1>1, <2>1 DEF Made, InHand, mainVars, kernelVars, getNextLoop
  <2>3. Alive' = Alive
    BY <1>1, <2>1, AliveStays DEF mainVars
  <2>4. QED
    BY <1>1, <2>2, <2>3, QuietInv DEF Removing, RemoveFindsIt, mainVars, getNextLoop
<1>4. QED
  BY <1>2, <1>3

-----------------------------------------------------------------------------
(* IInv holds in every reachable state. *)
THEOREM InductiveInvariant == Spec => []IInv
<1>1. Init => IInv
  <2> SUFFICES ASSUME Init PROVE IInv
    OBVIOUS
  <2> USE ServerAssumption, Constants DEF Init
  <2>1. TypeOK
    BY DEF TypeOK
  <2>2. Alive = {}
    BY DEF Alive
  <2>3. Made /\ InHand /\ Numbers /\ InMap /\ Removing
    BY <2>2 DEF Made, InHand, Numbers, InMap, Removing
  <2>4. Entries /\ OpenIsWatched /\ RemoveFindsIt
    BY <2>2 DEF Entries, OpenIsWatched, RemoveFindsIt
  <2>5. QED
    BY <2>1, <2>3, <2>4 DEF IInv
<1>2. IInv /\ [Next]_vars => IInv'
  <2> SUFFICES ASSUME TypeOK, Rest, [Next]_vars PROVE TypeOK' /\ Rest'
    BY DEF IInv, Rest
  <2>1. TypeOK'
    BY TypeStep DEF Rest
  <2>2. CASE fault = "none" /\ \E fd \in Fds \cup {NoFd} : handleRead(fd)
    BY <2>1, <2>2, AcceptInv
  <2>3. CASE fault = "none" /\ MainStep
    BY <2>1, <2>3, RegisterInv, InsertInv, CallbackInv, ConnectInv DEF MainStep
  <2>4. CASE fault = "none" /\ \E l \in Loops : LoopStep(l)
    <3>1. PICK l \in Loops : LoopStep(l)
      BY <2>4
    <3>2. CASE \/ poll(l) \/ find(l) \/ eraseLock(l) \/ handleTask(l)
               \/ \E c \in Conns : useFreed(l, c) \/ handleMessage(l, c)
      BY <2>1, <2>4, <3>2, DispatchInv
    <3>3. CASE erase(l) \/ endIteration(l)
      BY <2>1, <2>4, <3>3, EraseInv, EndInv
    <3>4. ASSUME NEW c \in Conns, handleClose(l, c) \/ handleWrite(l, c) \/ sendInloop(l, c)
          PROVE  Rest'
      BY <2>4, <3>4, CloseInv, WriteInv, SendInloopInv
    <3>5. QED
      BY <2>1, <3>1, <3>2, <3>3, <3>4 DEF LoopStep
  <2>5. CASE fault = "none" /\ \E c \in Conns : send(c) \/ release(c) \/ peerCloses(c)
    BY <2>1, <2>5, PeerInv, ReleaseInv
  <2>6. CASE UNCHANGED vars
    <3>1. UNCHANGED <<mainVars, kernelVars, fin, closed, ueventMap, stale, connsMap,
                      callbacks, loopVars, user, sending, swapped, fault>>
      BY <2>6 DEF vars, mainVars, kernelVars, loopVars
    <3>2. Alive' = Alive
      BY <3>1, AliveStays DEF mainVars
    <3>3. Rest'
      BY <3>1, <3>2 DEF Rest, mainVars, kernelVars, loopVars, Made, InHand, Numbers,
         InMap, Removing, Entries, OpenIsWatched, RemoveFindsIt, getNextLoop
    <3>4. QED
      BY <2>1, <3>3
  <2>7. QED
    BY <2>2, <2>3, <2>4, <2>5, <2>6 DEF Next, Over
<1>3. QED
  BY <1>1, <1>2, PTL DEF Spec

(* Every variable keeps its type: an accept that fails is the one way a     *)
(* number that is not a descriptor's comes in.                              *)
THEOREM TypeCorrect == Spec => []TypeOK
<1>1. IInv => TypeOK
  BY DEF IInv
<1>2. QED
  BY <1>1, InductiveInvariant, PTL

(* removeConnect's assertion holds, whatever the sub-loops and the main     *)
(* thread do between the close and the search.                              *)
THEOREM RemoveAlwaysFinds == Spec => []RemoveFindsIt
<1>1. IInv => RemoveFindsIt
  BY DEF IInv
<1>2. QED
  BY <1>1, InductiveInvariant, PTL

(* A connection that is held has its number to itself, and the map's        *)
(* numbers are its connections' own, for the reuse of any numbers.          *)
THEOREM MapAlwaysOwns == Spec => []MapOwnsNumber
<1>1. IInv => MapOwnsNumber
  <2> SUFFICES ASSUME IInv PROVE MapOwnsNumber
    OBVIOUS
  <2>1. ASSUME NEW fd \in Fds, connsMap[fd] # 0
        PROVE  connsMap[fd] \in Alive /\ fdOf[connsMap[fd]] = fd
    <3>1. connsMap[fd] \in 1..made
      BY <2>1, ServerAssumption DEF IInv, Made, TypeOK
    <3>2. connsMap[fd] \in Alive
      BY <2>1, <3>1 DEF IInv, TypeOK, Alive, Referenced
    <3>3. QED
      BY <2>1, <3>2, Constants DEF IInv, Numbers
  <2>2. \A c \in Alive : fdOf[c] # NoFd => files[fdOf[c]] = c
    BY DEF IInv, Numbers
  <2>3. QED
    BY <2>1, <2>2 DEF MapOwnsNumber
<1>2. QED
  BY <1>1, InductiveInvariant, PTL

(* No handler runs on a connection that was deleted before its close. *)
THEOREM DispatchedAlwaysAlive == Spec => []DispatchedIsAlive
<1>1. IInv => DispatchedIsAlive
  <2> SUFFICES ASSUME IInv, NEW l \in Loops, NEW c \in ready[l], c \notin closed
               PROVE  c \in Alive
    BY DEF DispatchedIsAlive
  <2>1. c \in 1..made /\ fdOf[c] # NoFd /\ c \in Conns
    BY ServerAssumption DEF IInv, Made, TypeOK, Conns
  <2>2. connsMap[fdOf[c]] = c \/ c = newConn
    BY <2>1 DEF IInv, InMap
  <2>3. QED
    BY <2>1, <2>2 DEF IInv, TypeOK, Alive, Referenced
<1>2. QED
  BY <1>1, InductiveInvariant, PTL

(* An open connection is watched, or meets an entry left by a deleted one.  *)
THEOREM OpenAlwaysWatched == Spec => []OpenIsWatched
<1>1. IInv => OpenIsWatched
  BY DEF IInv
<1>2. QED
  BY <1>1, InductiveInvariant, PTL

=============================================================================
