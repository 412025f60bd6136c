------------------------------ MODULE EventLoop ------------------------------
(***************************************************************************)
(* The single-threaded event loop of the server: Server::Impl (Server.cpp) *)
(* with the life cycle of Connection objects and their descriptors         *)
(* (Connection.cpp), the SIGINT self-pipe (SignalSource.cpp,               *)
(* SignalReceiver.cpp) and the kernel as the code uses it: the descriptor  *)
(* table, which hands a closed number out again, and an edge-triggered     *)
(* epoll instance.                                                         *)
(*                                                                         *)
(* What a transport does with input (HTTP/1, HTTP/2, the proxy) is         *)
(* abstracted to what it can do to connections: close its own or another   *)
(* one, open a backend connection, throw, return.                          *)
(***************************************************************************)
EXTENDS Naturals, FiniteSets, Sequences

CONSTANTS
    Conn,         \* addresses of Connection objects
    Fd,           \* descriptor numbers available for sockets of connections
    NoConn, NoFd, \* nullptr; -1
    Listener,     \* listenfd_ and its receiver, the Server::Impl
    SignalPipe,   \* the read end of the self-pipe and its SignalReceiver
    MaxEvents,    \* size of the array loop() passes to epoll_wait
    MaxBacklog,   \* bound: connections waiting to be accepted
    MaxChunks,    \* bound: chunks of input a socket's receive buffer holds
    MaxBackends,  \* bound: backend connections opened by proxy handlers
    PipeCap       \* signal numbers the self-pipe holds

ASSUME ConnAssumption == NoConn \notin Conn
ASSUME FdAssumption == NoFd \notin Fd
ASSUME ReceiverAssumption ==
    /\ Listener # SignalPipe
    /\ Listener \notin Conn \cup Fd \cup {NoConn, NoFd}
    /\ SignalPipe \notin Conn \cup Fd \cup {NoConn, NoFd}
ASSUME BoundAssumption ==
    /\ {MaxEvents, MaxBacklog, MaxChunks, PipeCap} \subseteq Nat \ {0}
    /\ MaxBackends \in Nat

VARIABLES
    pc,             \* where the only thread is
    cur,            \* the Connection whose onPollIn is running
    accepting,      \* that onPollIn was called by accept(), not by dispatch()
    keepRunning,    \* keep_running_
    failure,        \* why the server died, if it did
    kind,           \* Connection objects: none at the address, client, backend
    fd_,            \* Connection::fd_
    clients,        \* clients_: the owning map from descriptor to Connection
    removeClients,  \* remove_clients_: the queue of descriptors to close
    batch,          \* receivers of the fetched events not dispatched yet
    open,           \* kernel: open descriptors among Fd
    reg,            \* kernel: data.ptr of the epoll registration of each Fd
    ready,          \* kernel: descriptors with an event not yet fetched
    aged,           \* kernel: those of ready to be delivered before the others
    peer,           \* kernel: input of each socket
    backlog,        \* kernel: connections completed and not accepted
    sig             \* signal numbers in the self-pipe

serverVars == <<pc, cur, accepting, keepRunning, failure, kind, fd_, clients,
                removeClients, batch>>
kernelVars == <<open, reg, ready, aged, peer, backlog, sig>>
vars == <<pc, cur, accepting, keepRunning, failure, kind, fd_, clients,
          removeClients, batch, open, reg, ready, aged, peer, backlog, sig>>

Quiet == [unread |-> 0, fin |-> "none"]
PeerState == [unread : Nat, fin : {"none", "eof", "rst"}]

\* The thread runs no more: the server has ended, or waits in its signal handler.
Halted == pc \in {"stopped", "crashed", "blocked"}

-----------------------------------------------------------------------------
\* Connection: the constructor, close() and leaving onPollIn().

\* Registering a descriptor with epoll, and forgetting it.
Subscribe(c, f) ==
    /\ reg' = [reg EXCEPT ![f] = c]
    /\ UNCHANGED <<ready, aged>>

Unsubscribe(F) ==
    /\ reg' = [f \in Fd |-> IF f \in F THEN NoConn ELSE reg[f]]
    /\ ready' = ready \ F
    /\ aged' = aged \ F

\* A new Connection of kind k at address c for the new socket f.
Construct(c, f, k) ==
    /\ kind' = [kind EXCEPT ![c] = k]
    /\ fd_' = [fd_ EXCEPT ![c] = f]
    /\ open' = open \cup {f}
    /\ peer' = [peer EXCEPT ![f] = Quiet]
    /\ Subscribe(c, f)

\* Mutant: the receiver is deleted as soon as it is closed.
InvalidateAndDelete(c) ==
    /\ fd_' = [fd_ EXCEPT ![c] = NoFd]
    /\ kind' = [kind EXCEPT ![c] = "none"]

\* Mutant: close() forgets fd_ = -1.
InvalidateNothing(c) == UNCHANGED <<fd_, kind>>

\* close() leaves the object in place with fd_ = -1; it may still be the
\* target of events already fetched.
Invalidate(c) ==
    /\ fd_' = [fd_ EXCEPT ![c] = NoFd]
    /\ UNCHANGED kind

\* Mutant: a managed connection closes its descriptor and queues it too.
ReleaseTwice(c) ==
    /\ removeClients' = IF kind[c] = "client"
                        THEN Append(removeClients, fd_[c]) ELSE removeClients
    /\ open' = open \ {fd_[c]}
    /\ peer' = [peer EXCEPT ![fd_[c]] = Quiet]

\* Mutant: nobody is told that a managed connection is closed.
ReleaseForgets(c) ==
    \/ kind[c] = "client" /\ UNCHANGED <<removeClients, open, peer>>
    \/ /\ kind[c] # "client"
       /\ open' = open \ {fd_[c]}
       /\ peer' = [peer EXCEPT ![fd_[c]] = Quiet]
       /\ UNCHANGED removeClients

\* A client's descriptor is queued for remove_dead_clients; a connection
\* without a manager (a backend) closes its descriptor at once.
Release(c) ==
    \/ /\ kind[c] = "client"
       /\ removeClients' = Append(removeClients, fd_[c])
       /\ UNCHANGED <<open, peer>>
    \/ /\ kind[c] # "client"
       /\ open' = open \ {fd_[c]}
       /\ peer' = [peer EXCEPT ![fd_[c]] = Quiet]
       /\ UNCHANGED removeClients

\* close() of a connection that is open.
Close(c) ==
    /\ fd_[c] # NoFd
    /\ Unsubscribe({fd_[c]})
    /\ Release(c)
    /\ Invalidate(c)

\* onPollIn() returns to accept() or to dispatch().
ReturnFromPollIn ==
    /\ pc' = IF accepting THEN "accept" ELSE "dispatch"
    /\ cur' = NoConn
    /\ accepting' = FALSE

Die(reason) ==
    /\ pc' = "crashed"
    /\ failure' = reason

-----------------------------------------------------------------------------
\* The loop.

\* setup(): the listening socket is bound and registered, or run() throws.
Setup ==
    /\ pc = "setup"
    /\ \/ pc' = "wait" /\ UNCHANGED failure
       \/ Die("setup")
    /\ UNCHANGED <<cur, accepting, keepRunning, kind, fd_, clients,
                   removeClients, batch>>
    /\ UNCHANGED kernelVars

\* The receiver epoll reports for a ready descriptor.
Target(r) == IF r \in Fd THEN reg[r] ELSE r

\* epoll_wait fetches up to MaxEvents events, the oldest first: no event that
\* came later is fetched before those left behind by an earlier call.
EpollWait(B) ==
    /\ pc = "wait" /\ keepRunning
    /\ B # {} /\ Cardinality(B) <= MaxEvents
    /\ B = ready \/ Cardinality(B) = MaxEvents
    /\ aged \subseteq B \/ B \subseteq aged
    /\ batch' = {Target(r) : r \in B}
    /\ ready' = ready \ B
    /\ aged' = IF aged \subseteq B THEN ready \ B ELSE aged \ B
    /\ pc' = "dispatch"
    /\ UNCHANGED <<cur, accepting, keepRunning, failure, kind, fd_, clients,
                   removeClients, open, reg, peer, backlog, sig>>

\* Mutant: the signal is read and nothing else.
DispatchSignalIgnored ==
    /\ pc = "dispatch" /\ SignalPipe \in batch /\ sig > 0
    /\ batch' = batch \ {SignalPipe}
    /\ sig' = sig - 1
    /\ UNCHANGED <<pc, cur, accepting, keepRunning, failure, kind, fd_, clients,
                   removeClients, open, reg, ready, aged, peer, backlog>>

\* The self-pipe is readable: one signal number is read and the callback
\* given to signal_receiver_ clears keep_running_.
DispatchSignal ==
    /\ pc = "dispatch" /\ SignalPipe \in batch /\ sig > 0
    /\ batch' = batch \ {SignalPipe}
    /\ sig' = sig - 1
    /\ keepRunning' = FALSE
    /\ UNCHANGED <<pc, cur, accepting, failure, kind, fd_, clients,
                   removeClients, open, reg, ready, aged, peer, backlog>>

DispatchListener ==
    /\ pc = "dispatch" /\ Listener \in batch
    /\ batch' = batch \ {Listener}
    /\ pc' = "accept"
    /\ UNCHANGED <<cur, accepting, keepRunning, failure, kind, fd_, clients,
                   removeClients>>
    /\ UNCHANGED kernelVars

DispatchConnection(c) ==
    /\ pc = "dispatch" /\ c \in batch
    /\ batch' = batch \ {c}
    /\ pc' = "read" /\ cur' = c /\ accepting' = FALSE
    /\ UNCHANGED <<keepRunning, failure, kind, fd_, clients, removeClients>>
    /\ UNCHANGED kernelVars

\* Mutant: the dead clients are left for later.
BatchDoneNoReap ==
    /\ pc = "dispatch" /\ batch = {}
    /\ pc' = "wait"
    /\ UNCHANGED <<cur, accepting, keepRunning, failure, kind, fd_, clients,
                   removeClients, batch>>
    /\ UNCHANGED kernelVars

BatchDone ==
    /\ pc = "dispatch" /\ batch = {}
    /\ pc' = "reap"
    /\ UNCHANGED <<cur, accepting, keepRunning, failure, kind, fd_, clients,
                   removeClients, batch>>
    /\ UNCHANGED kernelVars

\* One round of remove_dead_clients: ::close(fd), then clients_.erase(fd),
\* which destroys the Connection (its destructor calls close() again), then pop.
Reap ==
    /\ pc = "reap" /\ removeClients # <<>>
    /\ LET f == Head(removeClients)
           c == clients[f]
           again == c # NoConn /\ fd_[c] # NoFd
       IN  /\ open' = open \ {f}
           /\ peer' = [peer EXCEPT ![f] = Quiet]
           /\ clients' = [clients EXCEPT ![f] = NoConn]
           /\ kind' = IF c = NoConn THEN kind ELSE [kind EXCEPT ![c] = "none"]
           /\ fd_' = IF c = NoConn THEN fd_ ELSE [fd_ EXCEPT ![c] = NoFd]
           /\ removeClients' = Tail(IF again THEN Append(removeClients, fd_[c])
                                    ELSE removeClients)
           /\ Unsubscribe(IF again THEN {f, fd_[c]} ELSE {f})
    /\ UNCHANGED <<pc, cur, accepting, keepRunning, failure, batch, backlog, sig>>

ReapDone ==
    /\ pc = "reap" /\ removeClients = <<>>
    /\ pc' = "wait"
    /\ UNCHANGED <<cur, accepting, keepRunning, failure, kind, fd_, clients,
                   removeClients, batch>>
    /\ UNCHANGED kernelVars

\* The loop ends once keep_running_ is false: cleanup() closes the listening
\* socket and then destroys the clients one by one.  Each destructor calls
\* close(), which only queues the descriptor: nothing is left to close it.
LeaveLoop ==
    /\ pc = "wait" /\ ~keepRunning
    /\ pc' = "cleanup"
    /\ ready' = ready \ {Listener}
    /\ aged' = aged \ {Listener}
    /\ backlog' = 0
    /\ UNCHANGED <<cur, accepting, keepRunning, failure, kind, fd_, clients,
                   removeClients, batch, open, reg, peer, sig>>

CloseAllClients(f) ==
    /\ pc = "cleanup" /\ clients[f] # NoConn
    /\ LET c == clients[f]
           live == fd_[c] # NoFd
       IN  /\ clients' = [clients EXCEPT ![f] = NoConn]
           /\ kind' = [kind EXCEPT ![c] = "none"]
           /\ fd_' = [fd_ EXCEPT ![c] = NoFd]
           /\ removeClients' = IF live THEN Append(removeClients, fd_[c])
                               ELSE removeClients
           /\ Unsubscribe(IF live THEN {fd_[c]} ELSE {})
    /\ UNCHANGED <<pc, cur, accepting, keepRunning, failure, batch, open, peer,
                   backlog, sig>>

Stop ==
    /\ pc = "cleanup" /\ \A f \in Fd : clients[f] = NoConn
    /\ pc' = "stopped"
    /\ UNCHANGED <<cur, accepting, keepRunning, failure, kind, fd_, clients,
                   removeClients, batch>>
    /\ UNCHANGED kernelVars

-----------------------------------------------------------------------------
\* Server::Impl::onPollIn: accept until there is nothing left to accept.

\* accept4 succeeds: a Connection for a free descriptor, entered in clients_,
\* whose onPollIn is called straight away.
Accept(c, f) ==
    /\ pc = "accept" /\ backlog > 0
    /\ f \notin open /\ kind[c] = "none"
    /\ backlog' = backlog - 1
    /\ \/ /\ clients[f] = NoConn
          /\ Construct(c, f, "client")
          /\ clients' = [clients EXCEPT ![f] = c]
          /\ pc' = "read" /\ cur' = c /\ accepting' = TRUE
          /\ UNCHANGED failure
       \/ /\ clients[f] # NoConn
          /\ Die("existing_fd")
          /\ UNCHANGED <<cur, accepting, kind, fd_, clients, open, reg, ready,
                         aged, peer>>
    /\ UNCHANGED <<keepRunning, removeClients, batch, sig>>

\* Mutant: one accept per event.
AcceptNoMoreEarly ==
    /\ pc = "accept"
    /\ pc' = "dispatch"
    /\ UNCHANGED <<cur, accepting, keepRunning, failure, kind, fd_, clients,
                   removeClients, batch>>
    /\ UNCHANGED kernelVars

AcceptNoMore ==
    /\ pc = "accept" /\ backlog = 0
    /\ pc' = "dispatch"
    /\ UNCHANGED <<cur, accepting, keepRunning, failure, kind, fd_, clients,
                   removeClients, batch>>
    /\ UNCHANGED kernelVars

\* accept4 fails (EMFILE when no descriptor is free, or an error of the
\* connection): the exception leaves loop().
AcceptFails ==
    /\ pc = "accept" /\ backlog > 0
    /\ backlog' = backlog - 1
    /\ Die("accept4")
    /\ UNCHANGED <<cur, accepting, keepRunning, kind, fd_, clients,
                   removeClients, batch, open, reg, ready, aged, peer, sig>>

-----------------------------------------------------------------------------
\* Connection::onPollIn of cur: read until EAGAIN, the end or a close.

\* The outcome of ::read on the connection's descriptor.
ReadResult ==
    IF fd_[cur] = NoFd \/ peer[fd_[cur]].fin = "rst" THEN "error"
    ELSE IF peer[fd_[cur]].unread > 0 THEN "data"
    ELSE IF peer[fd_[cur]].fin = "eof" THEN "end"
    ELSE "again"

\* Some input: it is handed to the transport.
ReadData ==
    /\ pc = "read" /\ ReadResult = "data"
    /\ peer' = [peer EXCEPT ![fd_[cur]].unread = @ - 1]
    /\ pc' = "input"
    /\ UNCHANGED <<cur, accepting, keepRunning, failure, kind, fd_, clients,
                   removeClients, batch, open, reg, ready, aged, backlog, sig>>

ReadAgain ==
    /\ pc = "read" /\ ReadResult = "again"
    /\ ReturnFromPollIn
    /\ UNCHANGED <<keepRunning, failure, kind, fd_, clients, removeClients, batch>>
    /\ UNCHANGED kernelVars

\* End of input or an error: close(), which does nothing if the connection
\* is already closed (a late event: read(-1) fails with EBADF).
ReadFails ==
    /\ pc = "read" /\ ReadResult \in {"end", "error"}
    /\ \/ Close(cur)
       \/ /\ fd_[cur] = NoFd
          /\ UNCHANGED <<kind, fd_, removeClients, open, reg, ready, aged, peer>>
    /\ ReturnFromPollIn
    /\ UNCHANGED <<keepRunning, failure, clients, batch, backlog, sig>>

-----------------------------------------------------------------------------
\* Inside transport_->onInput of cur.

\* A connection is closed: its own (Connection: close, a failed send) or
\* another one (a proxied message that cannot be sent).
HandlerCloses(c) ==
    /\ pc = "input" /\ kind[c] # "none"
    /\ Close(c)
    /\ UNCHANGED <<pc, cur, accepting, keepRunning, failure, clients, batch,
                   backlog, sig>>

\* A proxied request opens a backend connection (ClientTransportSource).
HandlerConnects(c, f) ==
    /\ pc = "input" /\ kind[cur] = "client"
    /\ Cardinality({b \in Conn : kind[b] = "backend"}) < MaxBackends
    /\ f \notin open /\ kind[c] = "none"
    /\ Construct(c, f, "backend")
    /\ UNCHANGED <<pc, cur, accepting, keepRunning, failure, clients,
                   removeClients, batch, backlog, sig>>

\* An exception (protocol error, no descriptor for a backend) or SIGPIPE:
\* nothing between the handler and main() catches it.
HandlerDies ==
    /\ pc = "input"
    /\ Die("handler")
    /\ UNCHANGED <<cur, accepting, keepRunning, kind, fd_, clients,
                   removeClients, batch>>
    /\ UNCHANGED kernelVars

\* Mutant: a single read per event.
HandlerReturnsReadOnce ==
    /\ pc = "input"
    /\ ReturnFromPollIn
    /\ UNCHANGED <<keepRunning, failure, kind, fd_, clients, removeClients, batch>>
    /\ UNCHANGED kernelVars

\* onInput returns: edge-triggered, so read again unless closed meanwhile.
HandlerReturns ==
    /\ pc = "input"
    /\ \/ fd_[cur] # NoFd /\ pc' = "read" /\ UNCHANGED <<cur, accepting>>
       \/ fd_[cur] = NoFd /\ ReturnFromPollIn
    /\ UNCHANGED <<keepRunning, failure, kind, fd_, clients, removeClients, batch>>
    /\ UNCHANGED kernelVars

-----------------------------------------------------------------------------
\* The world outside: peers and signals, at any time.

\* A change of a socket's state puts it on epoll's ready list if registered.
Edge(f) ==
    /\ ready' = IF reg[f] # NoConn THEN ready \cup {f} ELSE ready
    /\ UNCHANGED <<open, reg, aged, backlog, sig>>

\* A peer sends whenever the socket's buffer has room, as often as it likes.
PeerSends(f) ==
    /\ f \in open /\ peer[f].fin = "none" /\ peer[f].unread < MaxChunks
    /\ peer' = [peer EXCEPT ![f].unread = @ + 1]
    /\ Edge(f)

PeerFinishes(f) ==
    /\ f \in open /\ peer[f].fin = "none"
    /\ peer' = [peer EXCEPT ![f].fin = "eof"]
    /\ Edge(f)

PeerResets(f) ==
    /\ f \in open /\ peer[f].fin # "rst"
    /\ peer' = [peer EXCEPT ![f].fin = "rst"]
    /\ Edge(f)

PeerConnects ==
    /\ pc # "setup" /\ pc # "cleanup" /\ backlog < MaxBacklog
    /\ backlog' = backlog + 1
    /\ ready' = ready \cup {Listener}
    /\ UNCHANGED <<open, reg, aged, peer, sig>>

\* SIGINT: the handler writes to the self-pipe.  An epoll_wait in progress
\* fails with EINTR, and the loop body runs with no events.
SigInt ==
    /\ ~Halted /\ sig < PipeCap
    /\ sig' = sig + 1
    /\ ready' = ready \cup {SignalPipe}
    /\ pc' \in IF pc = "wait" THEN {"wait", "reap"} ELSE {pc}
    /\ UNCHANGED <<cur, accepting, keepRunning, failure, kind, fd_, clients,
                   removeClients, batch, open, reg, aged, peer, backlog>>

\* SIGINT with the pipe full: the handler's write blocks, and the thread it has
\* interrupted is the only one that would read.
SigIntBlocks ==
    /\ ~Halted /\ sig = PipeCap
    /\ pc' = "blocked"
    /\ UNCHANGED <<cur, accepting, keepRunning, failure, kind, fd_, clients,
                   removeClients, batch>>
    /\ UNCHANGED kernelVars

-----------------------------------------------------------------------------
Init ==
    /\ pc = "setup" /\ cur = NoConn /\ accepting = FALSE
    /\ keepRunning = TRUE /\ failure = "none"
    /\ kind = [c \in Conn |-> "none"]
    /\ fd_ = [c \in Conn |-> NoFd]
    /\ clients = [f \in Fd |-> NoConn]
    /\ removeClients = <<>>
    /\ batch = {}
    /\ open = {}
    /\ reg = [f \in Fd |-> NoConn]
    /\ ready = {} /\ aged = {}
    /\ peer = [f \in Fd |-> Quiet]
    /\ backlog = 0 /\ sig = 0

LoopStep ==
    \/ Setup
    \/ \E B \in SUBSET ready : EpollWait(B)
    \/ DispatchSignal \/ DispatchListener
    \/ \E c \in Conn : DispatchConnection(c)
    \/ BatchDone \/ Reap \/ ReapDone \/ LeaveLoop
    \/ \E f \in Fd : CloseAllClients(f)
    \/ Stop

CallbackStep ==
    \/ \E c \in Conn, f \in Fd : Accept(c, f)
    \/ AcceptNoMore \/ AcceptFails
    \/ ReadData \/ ReadAgain \/ ReadFails
    \/ \E c \in Conn : HandlerCloses(c)
    \/ \E c \in Conn, f \in Fd : HandlerConnects(c, f)
    \/ HandlerDies \/ HandlerReturns

\* Peers of a server that has ended are not followed further.
PeerStep ==
    /\ ~Halted
    /\ \/ \E f \in Fd : PeerSends(f) \/ PeerFinishes(f) \/ PeerResets(f)
       \/ PeerConnects
    /\ UNCHANGED serverVars

\* The server has come to an end, one way or the other.
End == Halted /\ UNCHANGED vars

Next == LoopStep \/ CallbackStep \/ PeerStep \/ SigInt \/ SigIntBlocks \/ End

Spec == Init /\ [][Next]_vars

\* The thread keeps running while it has something to do; handlers return.
FairSpec == Spec /\ WF_vars(LoopStep \/ CallbackStep)

-----------------------------------------------------------------------------
\* Properties.

TypeOK ==
    /\ pc \in {"setup", "wait", "dispatch", "accept", "read", "input", "reap",
              "cleanup", "stopped", "crashed", "blocked"}
    /\ cur \in Conn \cup {NoConn} /\ accepting \in BOOLEAN
    /\ keepRunning \in BOOLEAN
    /\ failure \in {"none", "setup", "accept4", "handler",
                   "existing_fd"}
    /\ kind \in [Conn -> {"none", "client", "backend"}]
    /\ fd_ \in [Conn -> Fd \cup {NoFd}]
    /\ clients \in [Fd -> Conn \cup {NoConn}]
    /\ removeClients \in Seq(Fd)
    /\ batch \subseteq Conn \cup {Listener, SignalPipe}
    /\ open \subseteq Fd
    /\ reg \in [Fd -> Conn \cup {NoConn}]
    /\ ready \subseteq Fd \cup {Listener, SignalPipe} /\ aged \subseteq ready
    /\ peer \in [Fd -> PeerState]
    /\ backlog \in Nat /\ sig \in Nat

\* No callback reaches a destroyed Connection: the connection being called,
\* every connection with a fetched and undispatched event, and every one epoll
\* holds a pointer to still exists.  (Server.cpp:230: "you cannot delete your
\* receiver during an event callback or you'll crash".)
TargetsExist ==
    /\ \A c \in batch \cap Conn : kind[c] # "none"
    /\ pc \in {"read", "input"} => cur \in Conn /\ kind[cur] # "none"
    /\ \A f \in Fd : reg[f] # NoConn => kind[reg[f]] # "none"

\* A Connection that believes to be open owns its descriptor: the kernel has
\* it open and reports its events to this object, so a read, send or close
\* never hits a socket that got the same number later.
OwnDescriptor ==
    \A c \in Conn : fd_[c] # NoFd =>
        /\ kind[c] # "none"
        /\ fd_[c] \in open
        /\ reg[fd_[c]] = c

\* The exception "Accepted new connection with existing fd" (Server.cpp:269)
\* is never thrown: a number stays out of the kernel's hands for as long as it
\* is a key of clients_.
NoFdClash == failure # "existing_fd"

\* remove_clients_ holds every descriptor once, and while the loop runs each
\* belongs to a closed Connection still owned by clients_: remove_dead_clients
\* never closes a live connection's socket, nor the same number twice.
RemovalsSound ==
    /\ \A i, j \in 1..Len(removeClients) :
          removeClients[i] = removeClients[j] => i = j
    /\ \A i \in 1..Len(removeClients) :
          LET f == removeClients[i] IN
          /\ f \in open /\ reg[f] = NoConn
          /\ pc \notin {"cleanup", "stopped", "blocked"} =>
                clients[f] # NoConn /\ fd_[clients[f]] = NoFd

\* No Connection is lost: each client object is in clients_, under its own
\* descriptor or under the one queued for it; and no open descriptor is lost:
\* it is some Connection's or queued.
NothingLost ==
    /\ \A c \in Conn : kind[c] = "client" =>
          \E f \in Fd : clients[f] = c /\ fd_[c] \in {f, NoFd}
    /\ \A f \in open :
          \/ reg[f] # NoConn /\ fd_[reg[f]] = f
          \/ \E i \in 1..Len(removeClients) : removeClients[i] = f

\* What is destroyed is not reported any more: between two steps a Connection
\* only disappears once it is closed and the fetched events are dispatched, or
\* at shutdown.
DestroyedOnlyWhenIdle ==
    [][\A c \in Conn : kind[c] # "none" /\ kind'[c] = "none" =>
          \/ pc = "reap" /\ batch = {} /\ fd_[c] = NoFd
          \/ pc = "cleanup"]_vars

\* onPollIn reads until EAGAIN (Connection.cpp:89-93), so a peer that never stops
\* sending and is never slower than the thread holds it in one onPollIn for ever.
HeldByPeer ==
    \E f \in Fd :
        /\ []<><<PeerSends(f)>>_vars
        /\ <>[](pc \in {"read", "input"} /\ fd_[cur] = f)

\* Edge-triggered input is never forgotten: unless the thread is held by a peer
\* that never stops sending, input of a registered socket is read to the end, or
\* the connection is closed, or the server ends.
InputConsumed ==
    HeldByPeer \/ \A f \in Fd :
        peer[f].unread > 0 /\ reg[f] # NoConn
            ~> peer[f].unread = 0 \/ reg[f] = NoConn \/ Halted

\* A connection waiting to be accepted is accepted, or the server ends, unless
\* the thread is held by a peer that never stops sending.
BacklogAccepted == HeldByPeer \/ (backlog > 0 ~> backlog = 0 \/ Halted)

\* A closed client's descriptor and object are released, or the server ends,
\* unless the thread is held by a peer that never stops sending.
ClosedReleased ==
    HeldByPeer \/ \A c \in Conn :
        kind[c] = "client" /\ fd_[c] = NoFd ~> kind[c] = "none" \/ Halted

\* SIGINT ends the server wherever the loop is, with only two exceptions: one
\* peer that never stops sending holds the thread, which then never looks at
\* keep_running_; or so many signals come before the first is read that the pipe
\* is full and the handler's write blocks the only thread (SignalSource.cpp:16).
SigIntStops ==
    HeldByPeer \/
    (sig > 0 ~> \/ pc \in {"stopped", "crashed"}
                \/ pc = "blocked" /\ sig = PipeCap)
=============================================================================
