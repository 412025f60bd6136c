-------------------------------- MODULE Proxy --------------------------------
(***************************************************************************)
(* The reverse proxy: PerRequestProxyHandler (ProxyHandler.cpp), the pool  *)
(* of backend transports it draws on (http1/ClientTransportSource.cpp,     *)
(* http1/ClientTransport.cpp) and the Responder that leads back to the     *)
(* client's transport (Responder.h).  All code runs in the event loop's    *)
(* thread; what interleaves are the events of the clients' and the         *)
(* backends' connections.                                                  *)
(*                                                                         *)
(* A client is a pair <<address of its transport, generation>>: once a     *)
(* client's connection is destroyed, the allocator may give its address to *)
(* the transport of the next.                                              *)
(***************************************************************************)
EXTENDS Naturals, Sequences, FiniteSets

CONSTANTS
    FrontAddr,    \* addresses of the clients' transports
    Backend,      \* addresses of backend transports, with their connections
    MaxReq,       \* bound: requests in a behaviour
    MaxPipeline,  \* bound: unanswered requests of one client
    MaxGen,       \* bound: clients at each address, one after the other
    BodyLen,      \* size of the body of a response that has one
    BackendsFail  \* backends may close, lose requests, or answer amiss

ASSUME ProxyAssumption ==
    /\ {MaxReq, MaxPipeline, BodyLen} \subseteq Nat \ {0}
    /\ MaxGen \in [FrontAddr -> Nat]
    /\ BackendsFail \in BOOLEAN

VARIABLES
    nreq,      \* requests dispatched: 1, 2, ..., nreq
    client,    \* the client of each: the target of the handler's responder_
    gen,       \* how many clients each address has had
    front,     \* connection of the client at each address: none, open, closed
    live,      \* requests whose PerRequestProxyHandler exists
    via,       \* backendTransport_ of each handler
    conn,      \* connection of each backend: none, open, closed
    spare,     \* spare_connections_, the top first
    inUse,     \* keys of in_use_connections_
    handler,   \* handler_ of each backend transport: the request, or 0
    pending,   \* requests each backend has received and not answered
    reading,   \* what the parser of each backend transport is at: the lines of
               \* a response, its body, or stuck behind a body read too far
    buffered,  \* bytes of that body in the buffer
    out,       \* responses sent: to which client, answering which request
    failure,   \* the exception that ended the server, if any
    dangling,  \* a response was given to a transport already destroyed
    deserted,  \* a client's transport was destroyed before its last answer
    interim    \* a backend has sent an interim (1xx) response

vars == <<nreq, client, gen, front, live, via, conn, spare, inUse, handler, pending,
          reading, buffered, out, failure, dangling, deserted, interim>>
fronts == <<nreq, client, gen, front, deserted>>
parser == <<reading, buffered>>

Init ==
    /\ nreq = 0 /\ client = <<>>
    /\ gen = [f \in FrontAddr |-> 0] /\ front = [f \in FrontAddr |-> "none"]
    /\ live = {} /\ via = <<>>
    /\ conn = [b \in Backend |-> "none"] /\ spare = <<>> /\ inUse = {}
    /\ handler = [b \in Backend |-> 0]
    /\ pending = [b \in Backend |-> <<>>]
    /\ reading = [b \in Backend |-> "lines"] /\ buffered = [b \in Backend |-> 0]
    /\ out = <<>> /\ failure = "none" /\ dangling = FALSE
    /\ deserted = FALSE /\ interim = FALSE

Running == failure = "none"
There == {f \in FrontAddr : front[f] # "none"}
ClientAt(f) == <<f, gen[f]>>
Waiting(f) == {r \in live : client[r] = ClientAt(f)}

-----------------------------------------------------------------------------
\* The pool.

\* spareTransport(): the connection on top of the stack, open or not.
SpareTransport(b) ==
    /\ spare # <<>> /\ b = Head(spare)
    /\ spare' = Tail(spare)
    /\ inUse' = inUse \cup {b}

\* Mutant: the new connection goes to the stack as well, as if it were spare.
NewTransportShared(b) ==
    /\ spare = <<>> /\ conn[b] = "none"
    /\ inUse' = inUse \cup {b}
    /\ spare' = <<b>>

\* newTransport(): a connection to the backend.
NewTransport(b) ==
    /\ spare = <<>> /\ conn[b] = "none"
    /\ inUse' = inUse \cup {b}
    /\ UNCHANGED spare

\* Mutant: the connection is copied to the stack and stays in use.
PutTransportKeeps(b) ==
    /\ spare' = <<b>> \o spare
    /\ UNCHANGED <<inUse, failure>>

\* A transport in use goes to the top of the stack.
GiveBack(b) ==
    /\ b \in inUse
    /\ spare' = <<b>> \o spare
    /\ inUse' = inUse \ {b}

\* putTransport(b), which throws for a transport that is not in use.
PutTransport(b) ==
    \/ GiveBack(b) /\ UNCHANGED failure
    \/ /\ b \notin inUse
       /\ failure' = "unknown_transport"
       /\ UNCHANGED <<spare, inUse>>

-----------------------------------------------------------------------------
\* A client's request.

\* sendRequest: on an open connection the backend gets it, or the send fails
\* and closes the connection, or it stays in outgoing_ for good (the connect is
\* still in progress and nothing waits for EPOLLOUT); on a connection closed
\* before, it is lost.
SendRequest(b, r) ==
    \/ /\ conn[b] # "closed"
       /\ conn' = [conn EXCEPT ![b] = "open"]
       /\ pending' = [pending EXCEPT ![b] = Append(@, r)]
    \/ /\ conn[b] # "closed" /\ BackendsFail
       /\ conn' \in {[conn EXCEPT ![b] = s] : s \in {"open", "closed"}}
       /\ UNCHANGED pending
    \/ /\ conn[b] = "closed"
       /\ UNCHANGED <<conn, pending>>

\* Mutant: the handler is installed only on new connections.
AcquireNoHandler(b, r) ==
    /\ \/ SpareTransport(b) /\ UNCHANGED handler
       \/ NewTransport(b) /\ handler' = [handler EXCEPT ![b] = r]
    /\ via' = Append(via, b)

\* acquireBackendTransport: a transport with this handler's callback.
Acquire(b, r) ==
    /\ SpareTransport(b) \/ NewTransport(b)
    /\ handler' = [handler EXCEPT ![b] = r]
    /\ via' = Append(via, b)

\* A request of f is dispatched: new PerRequestProxyHandler(...).  The connection
\* may be closed by then: the transport goes on with what is in its buffer.
Dispatch(f, b) ==
    /\ Running /\ f \in There
    /\ nreq < MaxReq /\ Cardinality(Waiting(f)) < MaxPipeline
    /\ nreq' = nreq + 1
    /\ client' = Append(client, ClientAt(f))
    /\ live' = live \cup {nreq + 1}
    /\ Acquire(b, nreq + 1)
    /\ SendRequest(b, nreq + 1)
    /\ UNCHANGED <<gen, front, parser, out, failure, dangling, deserted, interim>>

\* socket or connect fails: the exception leaves the event loop.
DispatchFails(f) ==
    /\ Running /\ f \in There /\ nreq < MaxReq /\ BackendsFail
    /\ spare = <<>>
    /\ failure' = "connect"
    /\ UNCHANGED <<fronts, live, via, conn, spare, inUse, handler, pending, parser, out,
                   dangling, interim>>

-----------------------------------------------------------------------------
\* A backend's response: its arrival, which http1::Transport parses as it does a
\* client's request, and what follows once it is complete.

\* respond(): the response goes to whoever is at the client's address now; on a
\* closed connection it is lost.
Respond(h, r) ==
    LET f == client[h][1] IN
    /\ out' = IF front[f] = "open" THEN Append(out, [to |-> ClientAt(f), req |-> r]) ELSE out
    /\ dangling' = (dangling \/ f \notin There \/ ClientAt(f) # client[h])

\* Mutant: the handler is not deleted.
OnBackendResponseLeaks(b, h, r) ==
    /\ handler' = [handler EXCEPT ![via[h]] = 0]
    /\ PutTransport(via[h])
    /\ Respond(h, r)
    /\ UNCHANGED live

\* onBackendResponse of handler h: release the transport, respond, delete this.
OnBackendResponse(b, h, r) ==
    /\ handler' = [handler EXCEPT ![via[h]] = 0]
    /\ PutTransport(via[h])
    /\ Respond(h, r)
    /\ live' = live \ {h}

\* The response to r, or one that nobody asked for (r = 0), is read on b.
\* After it was handled the connection is closed if the backend said so,
\* although it may be a spare one by now.
HandleResponse(b, r, close) ==
    /\ Running /\ conn[b] = "open"
    /\ close => BackendsFail
    /\ \/ /\ handler[b] # 0
          /\ OnBackendResponse(b, handler[b], r)
          /\ conn' = [conn EXCEPT ![b] = IF close THEN "closed" ELSE @]
       \/ /\ handler[b] = 0
          /\ failure' = "bad_function_call"
          /\ UNCHANGED <<live, conn, spare, inUse, handler, out, dangling>>
    /\ UNCHANGED <<fronts, via>>

\* A response without a body, which is handled with its last line.
BackendAnswers(b, close) ==
    /\ reading[b] = "lines" /\ pending[b] # <<>>
    /\ pending' = [pending EXCEPT ![b] = Tail(@)]
    /\ HandleResponse(b, Head(pending[b]), close)
    /\ UNCHANGED <<parser, interim>>

\* The headers of a response with a body, and in the same read n bytes of the body:
\* processInput returns false after the last line, and these stay in the buffer.
BackendSendsHeaders(b, n) ==
    /\ Running /\ conn[b] = "open" /\ reading[b] = "lines" /\ pending[b] # <<>>
    /\ reading' = [reading EXCEPT ![b] = "body"]
    /\ buffered' = [buffered EXCEPT ![b] = n]
    /\ UNCHANGED <<fronts, live, via, conn, spare, inUse, handler, pending, out, failure,
                   dangling, interim>>

\* n more bytes of the body: readContent throws if it is not all there now, and the
\* response is handled if it is.
BackendSendsBody(b, n, close) ==
    /\ Running /\ conn[b] = "open" /\ reading[b] = "body" /\ pending[b] # <<>>
    /\ \/ /\ buffered[b] + n < BodyLen
          /\ failure' = "protocol"
          /\ UNCHANGED <<fronts, live, via, conn, spare, inUse, handler, pending, parser, out,
                         dangling, interim>>
       \/ /\ buffered[b] + n = BodyLen
          /\ pending' = [pending EXCEPT ![b] = Tail(@)]
          /\ HandleResponse(b, Head(pending[b]), close)
          /\ reading' = [reading EXCEPT ![b] = "lines"]
          /\ buffered' = [buffered EXCEPT ![b] = 0]
          /\ UNCHANGED interim

\* More arrives than the body: the beginning of another response is taken for its
\* end, and the body has the size expected never again.  Input that is shorter than
\* that size makes readContent throw from then on, too.
BackendRunsOn(b) ==
    /\ Running /\ conn[b] = "open" /\ reading[b] # "lines"
    /\ BackendsFail \/ Len(pending[b]) > 1
    /\ \/ /\ reading' = [reading EXCEPT ![b] = "stuck"]
          /\ buffered' = [buffered EXCEPT ![b] = 0]
          /\ UNCHANGED failure
       \/ /\ reading[b] = "stuck"
          /\ failure' = "protocol"
          /\ UNCHANGED parser
    /\ UNCHANGED <<fronts, live, via, conn, spare, inUse, handler, pending, out, dangling,
                   interim>>

\* A response that is malformed or has a transfer-encoding: the parser throws.
BackendGarbles(b) ==
    /\ Running /\ BackendsFail /\ conn[b] = "open" /\ reading[b] = "lines"
    /\ failure' = "protocol"
    /\ UNCHANGED <<fronts, live, via, conn, spare, inUse, handler, pending, parser, out,
                   dangling, interim>>

\* Two responses in one read, of which the first closes the connection: onInput goes
\* on with the second, which finds no callback.
BackendAnswersTwice(b) ==
    /\ Running /\ BackendsFail /\ conn[b] = "open"
    /\ reading[b] = "lines" /\ pending[b] # <<>> /\ handler[b] # 0
    /\ pending' = [pending EXCEPT ![b] = Tail(@)]
    /\ handler' = [handler EXCEPT ![b] = 0]
    /\ GiveBack(b)
    /\ Respond(handler[b], Head(pending[b]))
    /\ live' = live \ {handler[b]}
    /\ conn' = [conn EXCEPT ![b] = "closed"]
    /\ failure' = "bad_function_call"
    /\ UNCHANGED <<fronts, via, parser, interim>>

\* An interim response is taken for the response itself; the final one is
\* still to come.
BackendInterim(b) ==
    /\ reading[b] = "lines" /\ pending[b] # <<>>
    /\ HandleResponse(b, Head(pending[b]), FALSE)
    /\ interim' = TRUE
    /\ UNCHANGED <<pending, parser>>

\* For instance a 408 for a connection that is idle.
BackendSpeaksUnasked(b) ==
    /\ BackendsFail /\ reading[b] = "lines" /\ pending[b] = <<>>
    /\ HandleResponse(b, 0, TRUE)
    /\ UNCHANGED <<pending, parser, interim>>

\* The end of input or an error on a backend connection: close(), and nobody
\* is told, neither the pool nor the handler.
BackendCloses(b) ==
    /\ Running /\ BackendsFail /\ conn[b] = "open"
    /\ conn' = [conn EXCEPT ![b] = "closed"]
    /\ pending' = [pending EXCEPT ![b] = <<>>]
    /\ UNCHANGED <<fronts, live, via, spare, inUse, handler, parser, out, failure, dangling,
                   interim>>

-----------------------------------------------------------------------------
\* Clients.

FrontConnects(f) ==
    /\ Running /\ front[f] = "none" /\ gen[f] < MaxGen[f]
    /\ gen' = [gen EXCEPT ![f] = @ + 1]
    /\ front' = [front EXCEPT ![f] = "open"]
    /\ UNCHANGED <<nreq, client, live, via, conn, spare, inUse, handler, pending,
                   parser, out, failure, dangling, deserted, interim>>

\* The client's connection is closed: the client leaves, a send fails, or its
\* request says "connection: close", which handleMessage honours as soon as the
\* request is dispatched, whether it is answered or not.
FrontCloses(f) ==
    /\ Running /\ front[f] = "open"
    /\ front' = [front EXCEPT ![f] = "closed"]
    /\ UNCHANGED <<nreq, client, gen, live, via, conn, spare, inUse, handler, pending,
                   parser, out, failure, dangling, deserted, interim>>

\* remove_dead_clients destroys it with its transport, after the batch of events.
FrontDestroyed(f) ==
    /\ Running /\ front[f] = "closed"
    /\ front' = [front EXCEPT ![f] = "none"]
    /\ deserted' = (deserted \/ Waiting(f) # {})
    /\ UNCHANGED <<nreq, client, gen, live, via, conn, spare, inUse, handler, pending,
                   parser, out, failure, dangling, interim>>

Next ==
    \/ \E f \in FrontAddr, b \in Backend : Dispatch(f, b)
    \/ \E f \in FrontAddr : DispatchFails(f) \/ FrontConnects(f) \/ FrontCloses(f) \/ FrontDestroyed(f)
    \/ \E b \in Backend, close \in BOOLEAN : BackendAnswers(b, close)
    \/ \E b \in Backend, n \in 0..BodyLen : BackendSendsHeaders(b, n)
    \/ \E b \in Backend, n \in 1..BodyLen, close \in BOOLEAN : BackendSendsBody(b, n, close)
    \/ \E b \in Backend :
          \/ BackendRunsOn(b) \/ BackendGarbles(b) \/ BackendAnswersTwice(b)
          \/ BackendInterim(b) \/ BackendSpeaksUnasked(b) \/ BackendCloses(b)

Spec == Init /\ [][Next]_vars

\* A backend goes on answering what it has received.
FairSpec ==
    /\ Spec
    /\ \A b \in Backend :
          WF_vars(\/ \E close \in BOOLEAN : BackendAnswers(b, close)
                  \/ \E n \in 0..BodyLen : BackendSendsHeaders(b, n)
                  \/ \E n \in 1..BodyLen, close \in BOOLEAN : BackendSendsBody(b, n, close))

-----------------------------------------------------------------------------
TypeOK ==
    /\ nreq \in 0..MaxReq /\ live \subseteq 1..nreq
    /\ client \in Seq(FrontAddr \X Nat) /\ Len(client) = nreq
    /\ via \in Seq(Backend) /\ Len(via) = nreq
    /\ front \in [FrontAddr -> {"none", "open", "closed"}]
    /\ gen \in [FrontAddr -> Nat] /\ {dangling, deserted, interim} \subseteq BOOLEAN
    /\ conn \in [Backend -> {"none", "open", "closed"}]
    /\ spare \in Seq(Backend) /\ inUse \subseteq Backend
    /\ handler \in [Backend -> 0..nreq] /\ pending \in [Backend -> Seq(Nat)]
    /\ reading \in [Backend -> {"lines", "body", "stuck"}] /\ buffered \in [Backend -> 0..BodyLen]
    /\ out \in Seq([to : FrontAddr \X Nat, req : Nat])
    /\ failure \in {"none", "connect", "unknown_transport", "bad_function_call", "protocol"}

\* Every backend connection is owned exactly once, by the stack or by the map,
\* however requests, answers and failures interleave, so that putTransport never
\* throws "Tried to remove unknown transport" (ClientTransportSource.cpp:66).
OwnedOnce ==
    /\ \A i, j \in DOMAIN spare : spare[i] = spare[j] => i = j
    /\ \A i \in DOMAIN spare : spare[i] \notin inUse
    /\ \A b \in Backend :
          conn[b] # "none" <=> b \in inUse \/ \E i \in DOMAIN spare : spare[i] = b
    /\ failure # "unknown_transport"

\* A transport calls back the handler that holds it and no other: in use it has
\* the callback of one existing handler, spare it has none, and every handler
\* holds a transport of its own (no callback into a deleted handler).
CallbacksPaired ==
    /\ \A b \in Backend : b \in inUse <=> handler[b] # 0
    /\ \A b \in inUse : handler[b] \in live /\ via[handler[b]] = b
    /\ \A h \in live : handler[via[h]] = h

\* Each answer of a backend reaches the client that asked, and only once
\* (ProxyHandler.cpp:25-29), although transports pass from request to request
\* and addresses from client to client: a handler never answers through a
\* destroyed transport as long as no client's was destroyed before its last
\* answer, and no answer goes astray as long as no backend sends an interim
\* response either.
AnswersReachTheirClient ==
    /\ dangling => deserted
    /\ ~deserted /\ ~interim =>
        /\ \A i \in 1..Len(out) : out[i].req # 0 => out[i].to = client[out[i].req]
        /\ \A i, j \in 1..Len(out) : out[i].req = out[j].req /\ out[i].req # 0 => i = j

\* The proxy implements a pool in which each request holds one backend transport,
\* its own, from its dispatch to its answer, and each transport serves one request
\* at a time (module BackendPool).
Pool == INSTANCE BackendPool WITH holder <- handler, waiting <- live, last <- nreq
PoolSpec == Pool!Spec

\* The parser of b waits for ever, or until the backend says something else: the
\* whole body has come with the end of the headers (Transport.cpp:76), or more than
\* the body was taken for it (Transport.cpp:102).
Stalled(b) == reading[b] = "stuck" \/ (reading[b] = "body" /\ buffered[b] = BodyLen)

\* If backends answer what they receive, each request that a backend has received is
\* answered and its handler deleted, with only these exceptions: the backend closes
\* the connection, the server ends, or the parser stalls on the response's body.
Answered ==
    \A r \in 1..MaxReq :
        r \in live /\ (\E i \in DOMAIN pending[via[r]] : pending[via[r]][i] = r)
            ~> r \notin live \/ conn[via[r]] = "closed" \/ ~Running \/ Stalled(via[r])

\* Responder.h:22 "Never nullptr": the ServerStream a Responder points to is
\* there to be called whenever the handler responds.
ResponderValid == ~dangling
=============================================================================
