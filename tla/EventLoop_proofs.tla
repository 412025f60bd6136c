--------------------------- MODULE EventLoop_proofs ---------------------------
(***************************************************************************)
(* Safety of the event loop for any number of connections, descriptors,    *)
(* events per epoll_wait and pending connections.                          *)
(***************************************************************************)
EXTENDS EventLoop, TLAPS

\* How epoll's registrations, the kernel's descriptors, clients_ and the
\* objects correspond between two steps; the invariants are inductive only
\* together with this.
Bookkeeping ==
    /\ \A f \in Fd : reg[f] # NoConn => fd_[reg[f]] = f
    /\ \A f \in Fd : f \in ready => reg[f] # NoConn
    /\ \A f \in Fd : clients[f] # NoConn =>
          /\ f \in open
          /\ kind[clients[f]] = "client"
          /\ fd_[clients[f]] \in {f, NoFd}
          /\ reg[f] \in {NoConn, clients[f]}
    /\ \A f, g \in Fd : clients[f] = clients[g] /\ clients[f] # NoConn => f = g
    /\ pc \in {"setup", "wait", "reap", "cleanup", "stopped"} => batch = {}

IInv ==
    /\ TypeOK
    /\ TargetsExist
    /\ OwnDescriptor
    /\ NoFdClash
    /\ RemovalsSound
    /\ NothingLost
    /\ Bookkeeping

USE ConnAssumption, FdAssumption, ReceiverAssumption, BoundAssumption

\* The variables that relate objects, descriptors and registrations.
links == <<kind, fd_, clients, removeClients, open, reg>>

\* The server before setup() satisfies the invariant: there are no connections.
LEMMA InitInv == Init => IInv
<1> SUFFICES ASSUME Init PROVE IInv
  OBVIOUS
<1> USE DEF Init
<1>1. TypeOK
  <2>1. removeClients \in Seq(Fd)
    OBVIOUS
  <2>2. Quiet \in PeerState
    BY DEF Quiet, PeerState
  <2>3. peer \in [Fd -> PeerState]
    BY <2>2
  <2>4. accepting \in BOOLEAN /\ keepRunning \in BOOLEAN
    OBVIOUS
  <2> QED
    BY <2>1, <2>3, <2>4 DEF TypeOK
<1>2. TargetsExist /\ OwnDescriptor /\ NoFdClash /\ RemovalsSound
  BY DEF TargetsExist, OwnDescriptor, NoFdClash, RemovalsSound
<1>3. NothingLost /\ Bookkeeping
  BY DEF NothingLost, Bookkeeping
<1> QED
  BY <1>1, <1>2, <1>3 DEF IInv

\* A step that leaves the links alone keeps the invariant if what it adds to
\* epoll's ready list is registered and what it adds to the batch, or calls,
\* exists.
LEMMA FrameInv ==
    ASSUME IInv, TypeOK', UNCHANGED links,
           pc \in {"cleanup", "stopped", "blocked"} =>
              pc' \in {"cleanup", "stopped", "blocked"},
           \A f \in Fd : f \in ready' => reg[f] # NoConn,
           \A c \in Conn : c \in batch' => kind[c] # "none",
           pc' \in {"read", "input"} => cur' \in Conn /\ kind[cur'] # "none",
           pc' \in {"setup", "wait", "reap", "cleanup", "stopped"} => batch' = {},
           NoFdClash'
    PROVE  IInv'
<1> USE DEF links
<1>1. TargetsExist'
  BY DEF IInv, TargetsExist
<1>2. OwnDescriptor'
  BY DEF IInv, OwnDescriptor
<1>3. RemovalsSound'
  BY DEF IInv, RemovalsSound
<1>4. NothingLost'
  <2>1. UNCHANGED <<kind, fd_, clients, removeClients, open, reg>>
    OBVIOUS
  <2> QED
    BY <2>1 DEF IInv, NothingLost
<1>5. Bookkeeping'
  BY DEF IInv, Bookkeeping
<1> QED
  BY <1>1, <1>2, <1>3, <1>4, <1>5 DEF IInv

\* setup() (Server.cpp:129), whether it succeeds or throws.
LEMMA SetupInv ==
    ASSUME IInv, Setup
    PROVE  IInv'
<1> USE DEF IInv, Setup, Die, kernelVars
<1>1. TypeOK'
  BY DEF TypeOK
<1> QED
  BY FrameInv, <1>1 DEF links, TypeOK, TargetsExist, Bookkeeping, NoFdClash

\* epoll_wait (Server.cpp:190): the pointers fetched were registered, and a
\* registered connection exists.
LEMMA EpollWaitInv ==
    ASSUME IInv, NEW B \in SUBSET ready, EpollWait(B)
    PROVE  IInv'
<1> USE DEF IInv, EpollWait
<1>0. /\ batch' \subseteq Conn \cup {Listener, SignalPipe}
      /\ \A c \in Conn : c \in batch' => kind[c] # "none"
  <2>1. ASSUME NEW r \in B
        PROVE  /\ Target(r) \in Conn \cup {Listener, SignalPipe}
               /\ Target(r) \in Conn => kind[Target(r)] # "none"
    BY DEF Target, TypeOK, Bookkeeping, TargetsExist
  <2> QED
    BY <2>1
<1>1. TypeOK'
  BY <1>0 DEF TypeOK
<1> QED
  BY FrameInv, <1>1, <1>0 DEF links, TypeOK, TargetsExist, Bookkeeping, NoFdClash

\* SignalReceiver::onPollIn (SignalReceiver.cpp:18) touches no connection.
LEMMA DispatchSignalInv ==
    ASSUME IInv, DispatchSignal
    PROVE  IInv'
<1> USE DEF IInv, DispatchSignal
<1>1. TypeOK'
  <2>1. sig' \in Nat
    BY DEF TypeOK
  <2>2. keepRunning' \in BOOLEAN
    OBVIOUS
  <2>3. batch' \subseteq Conn \cup {Listener, SignalPipe}
    BY DEF TypeOK
  <2> QED
    BY <2>1, <2>2, <2>3 DEF TypeOK
<1> QED
  BY FrameInv, <1>1 DEF links, TypeOK, TargetsExist, Bookkeeping, NoFdClash

\* dispatch() of the listening socket (Server.cpp:226).
LEMMA DispatchListenerInv ==
    ASSUME IInv, DispatchListener
    PROVE  IInv'
<1> USE DEF IInv, DispatchListener, kernelVars
<1>1. TypeOK'
  BY DEF TypeOK
<1> QED
  BY FrameInv, <1>1 DEF links, TypeOK, TargetsExist, Bookkeeping, NoFdClash

\* dispatch() of a connection (Server.cpp:226): it is in the batch, so it exists.
LEMMA DispatchConnectionInv ==
    ASSUME IInv, NEW c \in Conn, DispatchConnection(c)
    PROVE  IInv'
<1> USE DEF IInv, DispatchConnection, kernelVars
<1>1. TypeOK'
  BY DEF TypeOK
<1> QED
  BY FrameInv, <1>1 DEF links, TypeOK, TargetsExist, Bookkeeping, NoFdClash

\* The end of a batch (Server.cpp:193): nothing fetched is left.
LEMMA BatchDoneInv ==
    ASSUME IInv, BatchDone
    PROVE  IInv'
<1> USE DEF IInv, BatchDone, kernelVars
<1>1. TypeOK'
  BY DEF TypeOK
<1> QED
  BY FrameInv, <1>1 DEF links, TypeOK, TargetsExist, Bookkeeping, NoFdClash

\* remove_dead_clients() returns (Server.cpp:214).
LEMMA ReapDoneInv ==
    ASSUME IInv, ReapDone
    PROVE  IInv'
<1> USE DEF IInv, ReapDone, kernelVars
<1>1. TypeOK'
  BY DEF TypeOK
<1> QED
  BY FrameInv, <1>1 DEF links, TypeOK, TargetsExist, Bookkeeping, NoFdClash

\* The loop ends and the listening socket is closed (Server.cpp:216).
LEMMA LeaveLoopInv ==
    ASSUME IInv, LeaveLoop
    PROVE  IInv'
<1> USE DEF IInv, LeaveLoop
<1>1. TypeOK'
  BY DEF TypeOK
<1> QED
  BY FrameInv, <1>1 DEF links, TypeOK, TargetsExist, Bookkeeping, NoFdClash

\* cleanup() returns (Server.cpp:220).
LEMMA StopInv ==
    ASSUME IInv, Stop
    PROVE  IInv'
<1> USE DEF IInv, Stop, kernelVars
<1>1. TypeOK'
  BY DEF TypeOK
<1> QED
  BY FrameInv, <1>1 DEF links, TypeOK, TargetsExist, Bookkeeping, NoFdClash

\* accept4 has nothing left (Server.cpp:260).
LEMMA AcceptNoMoreInv ==
    ASSUME IInv, AcceptNoMore
    PROVE  IInv'
<1> USE DEF IInv, AcceptNoMore, kernelVars
<1>1. TypeOK'
  BY DEF TypeOK
<1> QED
  BY FrameInv, <1>1 DEF links, TypeOK, TargetsExist, Bookkeeping, NoFdClash

\* accept4 throws (Server.cpp:258).
LEMMA AcceptFailsInv ==
    ASSUME IInv, AcceptFails
    PROVE  IInv'
<1> USE DEF IInv, AcceptFails, Die
<1>1. TypeOK'
  <2>1. backlog' \in Nat
    BY DEF TypeOK
  <2> QED
    BY <2>1 DEF TypeOK
<1> QED
  BY FrameInv, <1>1 DEF links, TypeOK, TargetsExist, Bookkeeping, NoFdClash

\* ::read returns input (Connection.cpp:85); only the socket's input changes.
LEMMA ReadDataInv ==
    ASSUME IInv, ReadData
    PROVE  IInv'
<1> USE DEF IInv, ReadData
<1>1. TypeOK'
  <2>1. cur \in Conn /\ fd_[cur] \in Fd /\ peer[fd_[cur]].unread > 0
    BY DEF ReadResult, TypeOK, TargetsExist
  <2> DEFINE p == [peer[fd_[cur]] EXCEPT !.unread = @ - 1]
  <2>2. p \in PeerState
    <3>1. peer[fd_[cur]] \in PeerState
      BY <2>1 DEF TypeOK
    <3> QED
      BY <2>1, <3>1 DEF PeerState
  <2>3. peer' = [peer EXCEPT ![fd_[cur]] = p]
    OBVIOUS
  <2>4. peer' \in [Fd -> PeerState]
    BY <2>1, <2>2, <2>3 DEF TypeOK
  <2> QED
    BY <2>4 DEF TypeOK
<1> QED
  BY FrameInv, <1>1 DEF links, TypeOK, TargetsExist, Bookkeeping, NoFdClash

\* ::read returns EAGAIN (Connection.cpp:104).
LEMMA ReadAgainInv ==
    ASSUME IInv, ReadAgain
    PROVE  IInv'
<1> USE DEF IInv, ReadAgain, ReturnFromPollIn, kernelVars
<1>1. TypeOK'
  BY DEF TypeOK
<1> QED
  BY FrameInv, <1>1 DEF links, TypeOK, TargetsExist, Bookkeeping, NoFdClash

\* A handler throws (Connection.cpp:87).
LEMMA HandlerDiesInv ==
    ASSUME IInv, HandlerDies
    PROVE  IInv'
<1> USE DEF IInv, HandlerDies, Die, kernelVars
<1>1. TypeOK'
  BY DEF TypeOK
<1> QED
  BY FrameInv, <1>1 DEF links, TypeOK, TargetsExist, Bookkeeping, NoFdClash

\* A handler returns (Connection.cpp:90).
LEMMA HandlerReturnsInv ==
    ASSUME IInv, HandlerReturns
    PROVE  IInv'
<1> USE DEF IInv, HandlerReturns, ReturnFromPollIn, kernelVars
<1>1. TypeOK'
  BY DEF TypeOK
<1>2. pc' \in {"accept", "dispatch"} \/ (pc' = "read" /\ cur' = cur)
  OBVIOUS
<1> QED
  BY FrameInv, <1>1, <1>2 DEF links, TypeOK, TargetsExist, Bookkeeping, NoFdClash

\* Events at the peers: a socket's state changes and epoll may report it.
LEMMA EdgeInv ==
    ASSUME IInv, ~Halted, UNCHANGED serverVars, NEW f \in Fd, Edge(f),
           peer' \in [Fd -> PeerState]
    PROVE  IInv'
<1> USE DEF IInv, Edge, serverVars
<1>1. TypeOK'
  BY DEF TypeOK
<1> QED
  BY FrameInv, <1>1 DEF links, TypeOK, TargetsExist, Bookkeeping, NoFdClash, Halted

\* A client connects: the listening socket becomes ready.
LEMMA PeerConnectsInv ==
    ASSUME IInv, ~Halted, UNCHANGED serverVars, PeerConnects
    PROVE  IInv'
<1> USE DEF IInv, PeerConnects, serverVars
<1>1. TypeOK'
  BY DEF TypeOK
<1> QED
  BY FrameInv, <1>1 DEF links, TypeOK, TargetsExist, Bookkeeping, NoFdClash, Halted

\* What peers do changes sockets and ready events, and no object of the server.
LEMMA PeerStepInv ==
    ASSUME IInv, PeerStep
    PROVE  IInv'
<1>1. ASSUME NEW f \in Fd, PeerSends(f) \/ PeerFinishes(f) \/ PeerResets(f)
      PROVE  IInv'
  <2>1. /\ peer[f] \in PeerState
        /\ DOMAIN peer = Fd
        /\ \A g \in Fd : peer[g] \in PeerState
    BY DEF IInv, TypeOK
  <2>2. \E p \in PeerState : peer' = [peer EXCEPT ![f] = p]
    <3>1. CASE PeerSends(f)
      <4> DEFINE p == [peer[f] EXCEPT !.unread = @ + 1]
      <4>1. p \in PeerState
        BY <2>1 DEF PeerState
      <4>2. peer' = [peer EXCEPT ![f] = p]
        BY <3>1 DEF PeerSends
      <4> QED
        BY <4>1, <4>2
    <3>2. CASE PeerFinishes(f)
      <4> DEFINE p == [peer[f] EXCEPT !.fin = "eof"]
      <4>1. p \in PeerState
        BY <2>1 DEF PeerState
      <4>2. peer' = [peer EXCEPT ![f] = p]
        BY <3>2 DEF PeerFinishes
      <4> QED
        BY <4>1, <4>2
    <3>3. CASE PeerResets(f)
      <4> DEFINE p == [peer[f] EXCEPT !.fin = "rst"]
      <4>1. p \in PeerState
        BY <2>1 DEF PeerState
      <4>2. peer' = [peer EXCEPT ![f] = p]
        BY <3>3 DEF PeerResets
      <4> QED
        BY <4>1, <4>2
    <3> QED
      BY <1>1, <3>1, <3>2, <3>3
  <2>3. peer' \in [Fd -> PeerState]
    BY <2>1, <2>2 DEF IInv, TypeOK
  <2> QED
    BY <1>1, <2>3, EdgeInv DEF PeerStep, PeerSends, PeerFinishes, PeerResets
<1> QED
  BY <1>1, PeerConnectsInv DEF PeerStep

\* The signal handler (SignalSource.cpp:15) writes to the pipe only.
LEMMA SigIntInv ==
    ASSUME IInv, SigInt
    PROVE  IInv'
<1> USE DEF IInv, SigInt
<1>1. TypeOK'
  <2>1. sig' \in Nat
    BY DEF TypeOK
  <2>2. pc' \in {pc, "wait", "reap"}
    OBVIOUS
  <2> QED
    BY <2>1, <2>2 DEF TypeOK
<1> QED
  BY FrameInv, <1>1 DEF links, TypeOK, TargetsExist, Bookkeeping, NoFdClash

\* A signal handler that blocks (SignalSource.cpp:16) changes nothing else.
LEMMA SigIntBlocksInv ==
    ASSUME IInv, SigIntBlocks
    PROVE  IInv'
<1> USE DEF IInv, SigIntBlocks, kernelVars
<1>1. TypeOK'
  BY DEF TypeOK
<1> QED
  BY FrameInv, <1>1 DEF links, TypeOK, TargetsExist, Bookkeeping, NoFdClash

\* Connection's constructor (Connection.cpp:17) at a free address with a free
\* descriptor: as no live object, key of clients_ or queue entry has that number,
\* the new object is its only owner.
LEMMA ConstructInv ==
    ASSUME IInv, NEW c \in Conn, NEW f \in Fd, NEW k \in {"client", "backend"},
           f \notin open, kind[c] = "none", Construct(c, f, k), TypeOK', NoFdClash',
           clients' = IF k = "client" THEN [clients EXCEPT ![f] = c] ELSE clients,
           UNCHANGED <<removeClients, batch>>,
           pc \in {"accept", "input"}, pc' \in {"read", "input"},
           cur' \in Conn, kind'[cur'] # "none"
    PROVE  IInv'
<1> USE DEF IInv, Construct, Subscribe
<1>1. /\ fd_[c] = NoFd
      /\ \A g \in Fd : reg[g] # c /\ clients[g] # c
      /\ reg[f] = NoConn /\ clients[f] = NoConn
      /\ \A i \in 1..Len(removeClients) : removeClients[i] \in Fd /\ removeClients[i] # f
  <2>1. fd_[c] = NoFd
    BY DEF OwnDescriptor
  <2>2. \A g \in Fd : reg[g] # c /\ clients[g] # c
    BY DEF TargetsExist, Bookkeeping, TypeOK
  <2>3. reg[f] = NoConn /\ clients[f] = NoConn
    BY DEF Bookkeeping, OwnDescriptor, TypeOK
  <2>4. \A i \in 1..Len(removeClients) : removeClients[i] \in Fd /\ removeClients[i] # f
    BY DEF RemovalsSound, TypeOK
  <2> QED
    BY <2>1, <2>2, <2>3, <2>4
<1>2. /\ kind' = [kind EXCEPT ![c] = k] /\ fd_' = [fd_ EXCEPT ![c] = f]
      /\ reg' = [reg EXCEPT ![f] = c] /\ open' = open \cup {f}
      /\ kind \in [Conn -> {"none", "client", "backend"}]
      /\ fd_ \in [Conn -> Fd \cup {NoFd}]
      /\ reg \in [Fd -> Conn \cup {NoConn}]
      /\ clients \in [Fd -> Conn \cup {NoConn}]
      /\ open \subseteq Fd
  BY DEF TypeOK
<1>3. TargetsExist'
  BY <1>1, <1>2 DEF TargetsExist
<1>4. OwnDescriptor'
  BY <1>1, <1>2 DEF OwnDescriptor
<1>5. RemovalsSound'
  BY <1>1, <1>2 DEF RemovalsSound
<1>6. NothingLost'
  <2>1. ASSUME NEW d \in Conn, kind'[d] = "client"
        PROVE  \E g \in Fd : clients'[g] = d /\ fd_'[d] \in {g, NoFd}
    <3>1. CASE d = c
      BY <2>1, <3>1, <1>1, <1>2
    <3>2. CASE d # c
      <4>1. PICK g \in Fd : clients[g] = d /\ fd_[d] \in {g, NoFd}
        BY <2>1, <3>2, <1>2 DEF NothingLost
      <4>2. clients'[g] = d /\ fd_'[d] \in {g, NoFd}
        BY <4>1, <3>2, <1>1, <1>2
      <4> QED
        BY <4>2
    <3> QED
      BY <3>1, <3>2
  <2>2. ASSUME NEW g \in open'
        PROVE  \/ reg'[g] # NoConn /\ fd_'[reg'[g]] = g
               \/ \E i \in 1..Len(removeClients') : removeClients'[i] = g
    BY <1>1, <1>2 DEF NothingLost, Bookkeeping
  <2> QED
    BY <2>1, <2>2 DEF NothingLost
<1>7. Bookkeeping'
  BY <1>1, <1>2 DEF Bookkeeping
<1> QED
  BY <1>3, <1>4, <1>5, <1>6, <1>7

\* accept() (Server.cpp:252).  A descriptor the kernel hands out is no key of
\* clients_, since keys stay open until they are erased.
LEMMA AcceptInv ==
    ASSUME IInv, NEW c \in Conn, NEW f \in Fd, Accept(c, f)
    PROVE  IInv'
<1> USE DEF IInv
<1>1. clients[f] = NoConn
  BY DEF Accept, Bookkeeping
<1>2. Quiet \in PeerState
  BY DEF Quiet, PeerState
<1>3. backlog' \in Nat
  BY DEF Accept, TypeOK
<1>4. TypeOK'
  BY <1>1, <1>2, <1>3 DEF Accept, Construct, Subscribe, TypeOK
<1>5. kind'[c] = "client"
  BY <1>1 DEF Accept, Construct, TypeOK
<1> QED
  BY <1>1, <1>4, <1>5, ConstructInv DEF Accept, NoFdClash

\* newTransport() (ClientTransportSource.cpp:31) opens a backend connection.
LEMMA HandlerConnectsInv ==
    ASSUME IInv, NEW c \in Conn, NEW f \in Fd, HandlerConnects(c, f)
    PROVE  IInv'
<1> USE DEF IInv
<1>1. Quiet \in PeerState
  BY DEF Quiet, PeerState
<1>2. TypeOK'
  BY <1>1 DEF HandlerConnects, Construct, Subscribe, TypeOK
<1>3. cur \in Conn /\ kind'[cur] # "none"
  BY DEF HandlerConnects, Construct, TypeOK, TargetsExist
<1> QED
  BY <1>2, <1>3, ConstructInv DEF HandlerConnects, NoFdClash

\* Connection::close() (Connection.cpp:112) of a live connection, with the loop in
\* any state: the object stays, its descriptor is queued or closed.
LEMMA CloseInv ==
    ASSUME IInv, NEW c \in Conn, Close(c), TypeOK', NoFdClash',
           UNCHANGED <<clients, batch>>,
           pc \in {"read", "input"}, pc' \in {"accept", "dispatch", "input"},
           pc' = "input" => cur' \in Conn /\ kind[cur'] # "none"
    PROVE  IInv'
<1> USE DEF IInv
<1> DEFINE f == fd_[c]
<1>1. /\ f \in Fd /\ f \in open /\ reg[f] = c /\ kind[c] \in {"client", "backend"}
      /\ fd_ \in [Conn -> Fd \cup {NoFd}]
      /\ reg \in [Fd -> Conn \cup {NoConn}]
      /\ clients \in [Fd -> Conn \cup {NoConn}]
      /\ open \subseteq Fd
      /\ removeClients \in Seq(Fd)
  BY DEF Close, OwnDescriptor, TypeOK
<1>2. /\ fd_' = [fd_ EXCEPT ![c] = NoFd] /\ kind' = kind /\ clients' = clients
      /\ \A g \in Fd : reg'[g] = IF g = f THEN NoConn ELSE reg[g]
      /\ ready' = ready \ {f}
  BY <1>1 DEF Close, Invalidate, Unsubscribe
<1>3. /\ kind[c] = "client" => /\ removeClients' = Append(removeClients, f)
                               /\ open' = open
      /\ kind[c] # "client" => /\ removeClients' = removeClients
                               /\ open' = open \ {f}
  BY DEF Close, Release
<1>4. \A i \in 1..Len(removeClients) :
         removeClients[i] \in Fd /\ removeClients[i] # f
  BY <1>1 DEF RemovalsSound
<1>5. /\ kind[c] = "client" => clients[f] = c
      /\ \A g \in Fd : clients[g] # NoConn /\ g # f => clients[g] # c
      /\ clients[f] # NoConn => clients[f] = c
  BY <1>1 DEF NothingLost, Bookkeeping
<1>6. TargetsExist'
  BY <1>1, <1>2 DEF TargetsExist
<1>7. OwnDescriptor'
  BY <1>1, <1>2, <1>3 DEF OwnDescriptor
<1>8. RemovalsSound'
  <2>1. CASE kind[c] = "client"
    <3>1. Len(removeClients') = Len(removeClients) + 1
          /\ removeClients'[Len(removeClients) + 1] = f
          /\ \A i \in 1..Len(removeClients) : removeClients'[i] = removeClients[i]
      BY <1>1, <1>3, <2>1
    <3>2. Len(removeClients) \in Nat
      BY <1>1
    <3>3. ASSUME NEW i \in 1..Len(removeClients')
          PROVE  LET g == removeClients'[i] IN
                 /\ g \in open' /\ reg'[g] = NoConn
                 /\ clients'[g] # NoConn /\ fd_'[clients'[g]] = NoFd
      <4>1. CASE i = Len(removeClients) + 1
        BY <4>1, <1>1, <1>2, <1>3, <1>5, <2>1, <3>1
      <4>2. CASE i \in 1..Len(removeClients)
        <5>1. LET g == removeClients[i] IN
              /\ g \in open /\ reg[g] = NoConn
              /\ clients[g] # NoConn /\ fd_[clients[g]] = NoFd
          BY <4>2 DEF RemovalsSound
        <5>2. removeClients[i] \in Fd /\ removeClients'[i] = removeClients[i]
          BY <4>2, <1>4, <3>1
        <5> QED
          BY <5>1, <5>2, <1>1, <1>2, <1>3, <2>1
      <4> QED
        BY <3>1, <3>2, <4>1, <4>2
    <3>4. \A i, j \in 1..Len(removeClients') :
             removeClients'[i] = removeClients'[j] => i = j
      BY <1>4, <3>1, <3>2 DEF RemovalsSound
    <3> QED
      BY <3>3, <3>4 DEF RemovalsSound
  <2>2. CASE kind[c] # "client"
    BY <1>1, <1>2, <1>3, <1>4, <1>5, <2>2 DEF RemovalsSound, Bookkeeping
  <2> QED
    BY <2>1, <2>2
<1>9. NothingLost'
  <2>1. ASSUME NEW d \in Conn, kind'[d] = "client"
        PROVE  \E g \in Fd : clients'[g] = d /\ fd_'[d] \in {g, NoFd}
    <3>1. PICK g \in Fd : clients[g] = d /\ fd_[d] \in {g, NoFd}
      BY <2>1, <1>2 DEF NothingLost
    <3> QED
      BY <3>1, <1>1, <1>2
  <2>2. ASSUME NEW g \in open'
        PROVE  \/ reg'[g] # NoConn /\ fd_'[reg'[g]] = g
               \/ \E i \in 1..Len(removeClients') : removeClients'[i] = g
    <3>1. g \in open /\ g \in Fd
      BY <1>1, <1>3
    <3>2. CASE g = f
      <4>1. kind[c] = "client"
        BY <3>2, <1>3
      <4>2. Len(removeClients) + 1 \in 1..Len(removeClients')
            /\ removeClients'[Len(removeClients) + 1] = f
        BY <4>1, <1>1, <1>3
      <4> QED
        BY <4>2, <3>2
    <3>3. CASE g # f /\ reg[g] # NoConn
      BY <3>1, <3>3, <1>1, <1>2 DEF Bookkeeping
    <3>4. CASE g # f /\ reg[g] = NoConn
      <4>1. PICK i \in 1..Len(removeClients) : removeClients[i] = g
        BY <3>1, <3>4 DEF NothingLost
      <4>2. i \in 1..Len(removeClients') /\ removeClients'[i] = g
        BY <4>1, <1>1, <1>3
      <4> QED
        BY <4>2
    <3> QED
      BY <3>2, <3>3, <3>4
  <2> QED
    BY <2>1, <2>2 DEF NothingLost
<1>10. Bookkeeping'
  BY <1>1, <1>2, <1>3, <1>5 DEF Bookkeeping
<1> QED
  BY <1>6, <1>7, <1>8, <1>9, <1>10

\* close() keeps the types.
LEMMA CloseType ==
    ASSUME TypeOK, NEW c \in Conn, Close(c)
    PROVE  /\ fd_' \in [Conn -> Fd \cup {NoFd}] /\ kind' = kind
           /\ reg' \in [Fd -> Conn \cup {NoConn}]
           /\ ready' \subseteq Fd \cup {Listener, SignalPipe} /\ aged' \subseteq ready'
           /\ removeClients' \in Seq(Fd) /\ open' \subseteq Fd
           /\ peer' \in [Fd -> PeerState]
<1> USE DEF Close
<1>1. fd_[c] \in Fd
  BY DEF TypeOK
<1>2. Quiet \in PeerState
  BY DEF Quiet, PeerState
<1>3. fd_' \in [Conn -> Fd \cup {NoFd}] /\ kind' = kind
  BY DEF TypeOK, Invalidate
<1>4. /\ reg' \in [Fd -> Conn \cup {NoConn}]
      /\ ready' \subseteq Fd \cup {Listener, SignalPipe} /\ aged' \subseteq ready'
  BY DEF TypeOK, Unsubscribe
<1>5. removeClients' \in Seq(Fd) /\ open' \subseteq Fd
  <2>1. Append(removeClients, fd_[c]) \in Seq(Fd)
    BY <1>1 DEF TypeOK
  <2> QED
    BY <2>1 DEF TypeOK, Release
<1>6. peer' \in [Fd -> PeerState]
  BY <1>1, <1>2 DEF TypeOK, Release
<1> QED
  BY <1>3, <1>4, <1>5, <1>6

\* The end of input or an error (Connection.cpp:98-109), also on a connection
\* closed before.
LEMMA ReadFailsInv ==
    ASSUME IInv, ReadFails
    PROVE  IInv'
<1>1. cur \in Conn /\ kind[cur] # "none" /\ accepting \in BOOLEAN
  BY DEF IInv, ReadFails, TypeOK, TargetsExist
<1>2. pc' \in {"accept", "dispatch"} /\ cur' = NoConn /\ accepting' = FALSE
  BY <1>1 DEF ReadFails, ReturnFromPollIn
<1>3. CASE Close(cur)
  <2>1. TypeOK'
    BY <1>1, <1>2, <1>3, CloseType DEF IInv, ReadFails, TypeOK
  <2> QED
    BY <1>1, <1>2, <1>3, <2>1, CloseInv DEF IInv, ReadFails, NoFdClash
<1>4. CASE ~Close(cur)
  <2>1. TypeOK' /\ UNCHANGED links
    BY <1>2, <1>4 DEF IInv, ReadFails, TypeOK, links
  <2> QED
    BY <1>2, <1>4, <2>1, FrameInv
       DEF IInv, ReadFails, TypeOK, TargetsExist, Bookkeeping, NoFdClash
<1> QED
  BY <1>3, <1>4

\* A handler closes a connection, its own or another's (Transport.cpp:145).
LEMMA HandlerClosesInv ==
    ASSUME IInv, NEW c \in Conn, HandlerCloses(c)
    PROVE  IInv'
<1>1. TypeOK'
  BY CloseType DEF IInv, HandlerCloses, TypeOK
<1> QED
  BY <1>1, CloseInv DEF IInv, HandlerCloses, NoFdClash, TargetsExist

\* A round of remove_dead_clients() (Server.cpp:207): the object destroyed is
\* closed, no event of it is fetched or registered, and its number is freed with
\* its key.
LEMMA ReapInv ==
    ASSUME IInv, Reap
    PROVE  IInv'
<1> USE DEF IInv
<1> DEFINE f == Head(removeClients)
           c == clients[f]
           n == Len(removeClients)
<1>1. /\ removeClients \in Seq(Fd) /\ n \in Nat /\ n > 0 /\ f = removeClients[1]
      /\ f \in Fd
      /\ kind \in [Conn -> {"none", "client", "backend"}]
      /\ fd_ \in [Conn -> Fd \cup {NoFd}]
      /\ reg \in [Fd -> Conn \cup {NoConn}]
      /\ clients \in [Fd -> Conn \cup {NoConn}]
      /\ open \subseteq Fd /\ batch = {} /\ pc = "reap"
  BY DEF Reap, TypeOK, Bookkeeping
<1>2. f \in open /\ reg[f] = NoConn /\ c \in Conn /\ fd_[c] = NoFd
  BY <1>1 DEF RemovalsSound
<1>3. /\ open' = open \ {f}
      /\ peer' = [peer EXCEPT ![f] = Quiet]
      /\ clients' = [clients EXCEPT ![f] = NoConn]
      /\ kind' = [kind EXCEPT ![c] = "none"]
      /\ fd_' = fd_
      /\ removeClients' = Tail(removeClients)
      /\ \A g \in Fd : reg'[g] = reg[g]
      /\ reg' \in [Fd -> Conn \cup {NoConn}]
      /\ ready' = ready \ {f} /\ aged' = aged \ {f}
      /\ UNCHANGED <<pc, cur, accepting, keepRunning, failure, batch, backlog, sig>>
  BY <1>1, <1>2 DEF Reap, Unsubscribe
<1>4. /\ Len(removeClients') = n - 1
      /\ removeClients' \in Seq(Fd)
      /\ \A i \in 1..(n - 1) : removeClients'[i] = removeClients[i + 1]
  BY <1>1, <1>3
<1>5. \A i \in 2..n : removeClients[i] \in Fd /\ removeClients[i] # f
  BY <1>1 DEF RemovalsSound
<1>6. TypeOK'
  <2>1. Quiet \in PeerState
    BY DEF Quiet, PeerState
  <2>2. peer' \in [Fd -> PeerState]
    BY <1>1, <1>3, <2>1 DEF TypeOK
  <2>3. kind' \in [Conn -> {"none", "client", "backend"}]
        /\ clients' \in [Fd -> Conn \cup {NoConn}]
    BY <1>1, <1>2, <1>3
  <2> QED
    BY <1>1, <1>3, <1>4, <2>2, <2>3 DEF TypeOK
<1>7. TargetsExist' /\ NoFdClash'
  BY <1>1, <1>2, <1>3 DEF TargetsExist, Bookkeeping, NoFdClash
<1>8. OwnDescriptor'
  BY <1>1, <1>2, <1>3 DEF OwnDescriptor
<1>9. RemovalsSound'
  <2>1. ASSUME NEW i \in 1..Len(removeClients')
        PROVE  LET g == removeClients'[i] IN
               /\ g \in open' /\ reg'[g] = NoConn
               /\ clients'[g] # NoConn /\ fd_'[clients'[g]] = NoFd
    <3>1. i + 1 \in 2..n /\ removeClients'[i] = removeClients[i + 1]
      BY <1>1, <1>4
    <3>2. LET g == removeClients[i + 1] IN
          /\ g \in open /\ reg[g] = NoConn
          /\ clients[g] # NoConn /\ fd_[clients[g]] = NoFd
      BY <1>1, <3>1 DEF RemovalsSound
    <3> QED
      BY <1>1, <1>3, <1>5, <3>1, <3>2
  <2>2. \A i, j \in 1..Len(removeClients') :
           removeClients'[i] = removeClients'[j] => i = j
    <3> SUFFICES ASSUME NEW i \in 1..Len(removeClients'), NEW j \in 1..Len(removeClients'),
                        removeClients'[i] = removeClients'[j]
                 PROVE  i = j
      OBVIOUS
    <3>1. i + 1 \in 1..n /\ j + 1 \in 1..n
      BY <1>1, <1>4
    <3>2. removeClients[i + 1] = removeClients[j + 1]
      BY <1>1, <1>4
    <3>3. i + 1 = j + 1
      BY <3>1, <3>2 DEF RemovalsSound
    <3> QED
      BY <1>1, <1>4, <3>3
  <2> QED
    BY <2>1, <2>2 DEF RemovalsSound
<1>10. NothingLost'
  <2>1. ASSUME NEW d \in Conn, kind'[d] = "client"
        PROVE  \E g \in Fd : clients'[g] = d /\ fd_'[d] \in {g, NoFd}
    <3>1. d # c /\ kind[d] = "client"
      BY <2>1, <1>1, <1>2, <1>3
    <3>2. PICK g \in Fd : clients[g] = d /\ fd_[d] \in {g, NoFd}
      BY <3>1 DEF NothingLost
    <3> QED
      BY <3>1, <3>2, <1>1, <1>3
  <2>2. ASSUME NEW g \in open'
        PROVE  \/ reg'[g] # NoConn /\ fd_'[reg'[g]] = g
               \/ \E i \in 1..Len(removeClients') : removeClients'[i] = g
    <3>1. g \in open /\ g \in Fd /\ g # f
      BY <1>1, <1>3
    <3>2. CASE reg[g] # NoConn
      BY <3>1, <3>2, <1>1, <1>3 DEF Bookkeeping
    <3>3. CASE reg[g] = NoConn
      <4>1. PICK i \in 1..n : removeClients[i] = g
        BY <3>1, <3>3 DEF NothingLost
      <4>2. i - 1 \in 1..Len(removeClients') /\ removeClients'[i - 1] = g
        BY <4>1, <3>1, <1>1, <1>4
      <4> QED
        BY <4>2
    <3> QED
      BY <3>2, <3>3
  <2> QED
    BY <2>1, <2>2 DEF NothingLost
<1>11. Bookkeeping'
  BY <1>1, <1>2, <1>3 DEF Bookkeeping
<1> QED
  BY <1>6, <1>7, <1>8, <1>9, <1>10, <1>11

\* clients_.clear() (Server.cpp:222), one destructor at a time.
LEMMA CloseAllClientsInv ==
    ASSUME IInv, NEW f \in Fd, CloseAllClients(f)
    PROVE  IInv'
<1> USE DEF IInv
<1> DEFINE c == clients[f]
           n == Len(removeClients)
           live == fd_[c] # NoFd
<1>1. /\ removeClients \in Seq(Fd) /\ n \in Nat
      /\ kind \in [Conn -> {"none", "client", "backend"}]
      /\ fd_ \in [Conn -> Fd \cup {NoFd}]
      /\ reg \in [Fd -> Conn \cup {NoConn}]
      /\ clients \in [Fd -> Conn \cup {NoConn}]
      /\ open \subseteq Fd /\ batch = {} /\ pc = "cleanup"
  BY DEF CloseAllClients, TypeOK, Bookkeeping
<1>2. /\ c \in Conn /\ kind[c] = "client" /\ f \in open
      /\ fd_[c] \in {f, NoFd}
      /\ live => reg[f] = c
      /\ ~live => \A g \in Fd : reg[g] # c
  BY <1>1 DEF CloseAllClients, Bookkeeping, OwnDescriptor
<1>3. /\ clients' = [clients EXCEPT ![f] = NoConn]
      /\ kind' = [kind EXCEPT ![c] = "none"]
      /\ fd_' = [fd_ EXCEPT ![c] = NoFd]
      /\ removeClients' = IF live THEN Append(removeClients, f) ELSE removeClients
      /\ \A g \in Fd : reg'[g] = IF live /\ g = f THEN NoConn ELSE reg[g]
      /\ reg' \in [Fd -> Conn \cup {NoConn}]
      /\ ready' = (IF live THEN ready \ {f} ELSE ready)
      /\ aged' = (IF live THEN aged \ {f} ELSE aged)
      /\ UNCHANGED <<pc, cur, accepting, keepRunning, failure, batch, open, peer,
                     backlog, sig>>
  BY <1>1, <1>2 DEF CloseAllClients, Unsubscribe
<1>4. TypeOK'
  <2>1. removeClients' \in Seq(Fd)
    BY <1>1, <1>3
  <2>2. /\ kind' \in [Conn -> {"none", "client", "backend"}]
        /\ fd_' \in [Conn -> Fd \cup {NoFd}]
        /\ clients' \in [Fd -> Conn \cup {NoConn}]
    BY <1>1, <1>2, <1>3
  <2> QED
    BY <1>3, <2>1, <2>2 DEF TypeOK
<1>5. TargetsExist' /\ NoFdClash'
  <2>1. \A g \in Fd : reg'[g] # NoConn => reg'[g] # c /\ kind[reg'[g]] # "none"
    BY <1>1, <1>2, <1>3 DEF TargetsExist, Bookkeeping
  <2> QED
    BY <1>1, <1>2, <1>3, <2>1 DEF TargetsExist, NoFdClash
<1>6. OwnDescriptor'
  BY <1>1, <1>2, <1>3 DEF OwnDescriptor
<1>7. \A i \in 1..n : removeClients[i] \in Fd /\ (live => removeClients[i] # f)
  BY <1>1, <1>2 DEF RemovalsSound, CloseAllClients
<1>8. /\ n' = (IF live THEN n + 1 ELSE n)
      /\ \A i \in 1..n : removeClients'[i] = removeClients[i]
      /\ live => removeClients'[n + 1] = f
  BY <1>1, <1>3
<1>9. RemovalsSound'
  BY <1>1, <1>2, <1>3, <1>7, <1>8 DEF RemovalsSound
<1>10. NothingLost'
  <2>1. ASSUME NEW d \in Conn, kind'[d] = "client"
        PROVE  \E g \in Fd : clients'[g] = d /\ fd_'[d] \in {g, NoFd}
    <3>1. d # c /\ kind[d] = "client"
      BY <2>1, <1>1, <1>2, <1>3
    <3>2. PICK g \in Fd : clients[g] = d /\ fd_[d] \in {g, NoFd}
      BY <3>1 DEF NothingLost
    <3> QED
      BY <3>1, <3>2, <1>1, <1>2, <1>3
  <2>2. ASSUME NEW g \in open'
        PROVE  \/ reg'[g] # NoConn /\ fd_'[reg'[g]] = g
               \/ \E i \in 1..Len(removeClients') : removeClients'[i] = g
    <3>1. g \in open /\ g \in Fd
      BY <1>1, <1>3
    <3>2. CASE live /\ g = f
      BY <3>2, <1>1, <1>8
    <3>3. CASE ~(live /\ g = f) /\ reg[g] # NoConn
      BY <3>1, <3>3, <1>1, <1>2, <1>3 DEF Bookkeeping
    <3>4. CASE ~(live /\ g = f) /\ reg[g] = NoConn
      <4>1. PICK i \in 1..n : removeClients[i] = g
        BY <3>1, <3>4 DEF NothingLost
      <4>2. i \in 1..Len(removeClients') /\ removeClients'[i] = g
        BY <4>1, <1>1, <1>8
      <4> QED
        BY <4>2
    <3> QED
      BY <3>2, <3>3, <3>4
  <2> QED
    BY <2>1, <2>2 DEF NothingLost
<1>11. Bookkeeping'
  BY <1>1, <1>2, <1>3 DEF Bookkeeping
<1> QED
  BY <1>4, <1>5, <1>6, <1>9, <1>10, <1>11

\* Every step of the event loop, its callbacks and the world preserves the invariant.
LEMMA NextInv ==
    ASSUME IInv, [Next]_vars
    PROVE  IInv'
<1>1. CASE LoopStep
  BY <1>1, SetupInv, EpollWaitInv, DispatchSignalInv, DispatchListenerInv,
     DispatchConnectionInv, BatchDoneInv, ReapInv, ReapDoneInv, LeaveLoopInv,
     CloseAllClientsInv, StopInv DEF LoopStep
<1>2. CASE CallbackStep
  BY <1>2, AcceptInv, AcceptNoMoreInv, AcceptFailsInv, ReadDataInv, ReadAgainInv,
     ReadFailsInv, HandlerClosesInv, HandlerConnectsInv, HandlerDiesInv,
     HandlerReturnsInv DEF CallbackStep
<1>3. CASE PeerStep \/ SigInt \/ SigIntBlocks
  BY <1>3, PeerStepInv, SigIntInv, SigIntBlocksInv
<1>4. CASE End \/ UNCHANGED vars
  BY <1>4, FrameInv DEF End, vars, links, IInv, TypeOK, TargetsExist, Bookkeeping,
     NoFdClash
<1> QED
  BY <1>1, <1>2, <1>3, <1>4 DEF Next

\* The inductive invariant of the event loop holds in every state (Server.cpp,
\* Connection.cpp), for any number of connections, descriptors and events.
THEOREM LoopInvariant == Spec => []IInv
<1> QED
  BY InitInv, NextInv, PTL DEF Spec

\* Every variable of the event loop keeps its type (Server.cpp, Connection.cpp).
THEOREM LoopTypes == Spec => []TypeOK
<1>1. IInv => TypeOK
  BY DEF IInv
<1> QED
  BY <1>1, LoopInvariant, PTL

\* The rule of Server.cpp:230 is kept for every number of connections and any
\* batch size: no event, call or epoll registration targets a destroyed
\* Connection.
THEOREM NoUseAfterFree == Spec => []TargetsExist
<1>1. IInv => TargetsExist
  BY DEF IInv
<1> QED
  BY <1>1, LoopInvariant, PTL

\* An open Connection owns its descriptor, and accept() never finds the number
\* it got in clients_ (the logic_error of Server.cpp:269 is unreachable).
THEOREM DescriptorOwnership == Spec => [](OwnDescriptor /\ NoFdClash)
<1>1. IInv => OwnDescriptor /\ NoFdClash
  BY DEF IInv
<1> QED
  BY <1>1, LoopInvariant, PTL

\* A Connection disappears only between two batches of events and after it was
\* closed, or when the loop has ended (Server.cpp:207, 222).
THEOREM DeferredDeletion == Spec => DestroyedOnlyWhenIdle
<1>1. ASSUME IInv, [Next]_vars, NEW c \in Conn, kind[c] # "none", kind'[c] = "none"
      PROVE  \/ pc = "reap" /\ batch = {} /\ fd_[c] = NoFd
             \/ pc = "cleanup"
  <2>1. kind' # kind
    BY <1>1
  <2>2. \A d \in Conn, k \in {"client", "backend"} : kind' # [kind EXCEPT ![d] = k]
    BY <1>1 DEF IInv, TypeOK
  <2>3. CASE LoopStep
    <3>1. Reap \/ \E f \in Fd : CloseAllClients(f)
      BY <2>1, <2>3 DEF LoopStep, Setup, EpollWait, DispatchSignal, DispatchListener,
         DispatchConnection, BatchDone, ReapDone, LeaveLoop, Stop
    <3>2. CASE Reap
      <4>1. Head(removeClients) = removeClients[1] /\ 1 \in 1..Len(removeClients)
        BY <1>1, <3>2 DEF Reap, IInv, TypeOK
      <4>2. c = clients[Head(removeClients)]
        BY <1>1, <3>2 DEF Reap, IInv, TypeOK
      <4> QED
        BY <1>1, <3>2, <4>1, <4>2 DEF Reap, IInv, RemovalsSound, Bookkeeping
    <3>3. CASE \E f \in Fd : CloseAllClients(f)
      BY <3>3 DEF CloseAllClients
    <3> QED
      BY <3>1, <3>2, <3>3
  <2>4. CASE CallbackStep
    <3>1. ASSUME NEW d \in Conn, Close(d) PROVE FALSE
      BY <2>1, <3>1 DEF Close, Invalidate
    <3>2. ASSUME NEW d \in Conn, NEW f \in Fd, NEW k \in {"client", "backend"},
                 Construct(d, f, k)
          PROVE  FALSE
      BY <2>2, <3>2 DEF Construct
    <3>3. pc \in {"read", "input"} => cur \in Conn
      BY <1>1 DEF IInv, TargetsExist
    <3> QED
      BY <2>1, <2>4, <3>1, <3>2, <3>3 DEF CallbackStep, Accept, AcceptNoMore, AcceptFails,
         ReadData, ReadAgain, ReadFails, HandlerCloses, HandlerConnects, HandlerDies,
         HandlerReturns
  <2>5. CASE PeerStep \/ SigInt \/ SigIntBlocks \/ End \/ UNCHANGED vars
    BY <2>1, <2>5 DEF PeerStep, SigInt, SigIntBlocks, End, vars, serverVars
  <2> QED
    BY <1>1, <2>3, <2>4, <2>5 DEF Next
<1>2. IInv /\ [Next]_vars =>
         [\A c \in Conn : kind[c] # "none" /\ kind'[c] = "none" =>
             \/ pc = "reap" /\ batch = {} /\ fd_[c] = NoFd
             \/ pc = "cleanup"]_vars
  BY <1>1
<1> QED
  BY <1>2, LoopInvariant, PTL DEF Spec, DestroyedOnlyWhenIdle

\* remove_dead_clients closes each queued descriptor once, and only of closed
\* connections (Server.cpp:200-216).
THEOREM Removal == Spec => []RemovalsSound
<1>1. IInv => RemovalsSound
  BY DEF IInv
<1> QED
  BY <1>1, LoopInvariant, PTL

\* No Connection object and no open descriptor escapes the server: each has an
\* owner that will still close it (Server.cpp:200-229).
THEOREM NoneEscapes == Spec => []NothingLost
<1>1. IInv => NothingLost
  BY DEF IInv
<1> QED
  BY <1>1, LoopInvariant, PTL

=============================================================================
