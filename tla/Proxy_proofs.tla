---------------------------- MODULE Proxy_proofs ----------------------------
(***************************************************************************)
(* The proxy for every number of clients, backends and requests.  One      *)
(* invariant pairs transports, handlers and owners (Paired); from it       *)
(* follows that the proxy implements module BackendPool.  Two more say     *)
(* which answer may still come on a transport (OneAwaited) and where its   *)
(* client is (ClientsThere); with them every answer reaches its client.    *)
(***************************************************************************)
EXTENDS Proxy, SequenceTheorems, TLAPS

USE ProxyAssumption

Paired == TypeOK /\ OwnedOnce /\ CallbacksPaired

\* While no client's transport was destroyed too early, the responder of every
\* handler leads to the client that is still there.
ClientsThere ==
    ~deserted =>
        /\ ~dangling
        /\ \A h \in live : client[h][1] \in There /\ client[h] = ClientAt(client[h][1])

\* While no backend sent an interim response, a backend owes at most the answer
\* to the request that holds its transport.
OneAwaited ==
    ~interim =>
        \A b \in Backend : pending[b] # <<>> => handler[b] # 0 /\ pending[b] = <<handler[b]>>

\* An answer sent is that of a request whose handler is gone.
AnsweredGone ==
    ~deserted /\ ~interim =>
        \A i \in 1..Len(out) : out[i].req # 0 => out[i].req \in (1..nreq) \ live

AnswerInv ==
    /\ Paired
    /\ ClientsThere /\ OneAwaited /\ AnsweredGone
    /\ AnswersReachTheirClient
-----------------------------------------------------------------------------
\* The stack of spare transports and the lists of the model.

LEMMA PushSeq ==
    ASSUME NEW S, NEW s \in Seq(S), NEW b \in S
    PROVE  LET t == <<b>> \o s IN
           /\ t \in Seq(S) /\ Len(t) = Len(s) + 1 /\ t[1] = b
           /\ \A i \in 1..Len(t) : i > 1 => i - 1 \in 1..Len(s) /\ t[i] = s[i - 1]
           /\ \A i \in 1..Len(s) : i + 1 \in 1..Len(t) /\ t[i + 1] = s[i]
<1>1. <<b>> \in Seq(S) /\ Len(<<b>>) = 1 /\ <<b>>[1] = b
  OBVIOUS
<1> QED
  BY <1>1, ConcatProperties

LEMMA PopSeq ==
    ASSUME NEW S, NEW s \in Seq(S), s # <<>>
    PROVE  /\ Head(s) = s[1] /\ 1 \in 1..Len(s)
           /\ Tail(s) \in Seq(S) /\ Len(Tail(s)) = Len(s) - 1
           /\ \A i \in 1..Len(Tail(s)) : i + 1 \in 1..Len(s) /\ Tail(s)[i] = s[i + 1]
           /\ \A i \in 1..Len(s) : i > 1 => i - 1 \in 1..Len(Tail(s)) /\ Tail(s)[i - 1] = s[i]
BY HeadTailProperties

LEMMA AppendSeq ==
    ASSUME NEW S, NEW s \in Seq(S), NEW x \in S
    PROVE  /\ Append(s, x) \in Seq(S) /\ Len(Append(s, x)) = Len(s) + 1
           /\ \A i \in 1..Len(s) : Append(s, x)[i] = s[i]
           /\ Append(s, x)[Len(s) + 1] = x
BY AppendProperties

-----------------------------------------------------------------------------
\* Transports, handlers and owners.

\* What a response does: it reaches the one handler that holds the transport, which
\* gives it back (ProxyHandler.cpp:25-33), or it finds no callback.
Handled(b, r) ==
    /\ b \in inUse /\ handler[b] \in live /\ via[handler[b]] = b
    /\ handler' = [handler EXCEPT ![b] = 0]
    /\ spare' = <<b>> \o spare /\ inUse' = inUse \ {b}
    /\ live' = live \ {handler[b]}
    /\ Respond(handler[b], r)
    /\ conn' \in {conn, [conn EXCEPT ![b] = "closed"]}
    /\ failure' \in {failure, "bad_function_call"}
    /\ UNCHANGED <<fronts, via>>

Unhandled(b) ==
    /\ handler[b] = 0 /\ failure' = "bad_function_call"
    /\ UNCHANGED <<fronts, live, via, conn, spare, inUse, handler, out, dangling>>

Response(b, r) == conn[b] = "open" /\ (Handled(b, r) \/ Unhandled(b))

ParserTyped == reading \in [Backend -> {"lines", "body", "stuck"}] /\ buffered \in [Backend -> 0..BodyLen]

\* A response that ends what the backend owes for the request.
FinalResponse(b) ==
    /\ pending[b] # <<>> /\ pending' = [pending EXCEPT ![b] = Tail(@)]
    /\ Response(b, Head(pending[b]))
    /\ ParserTyped' /\ interim' = interim

\* A part of a response, or one the parser throws at.
PartialResponse ==
    /\ failure' \in {failure, "protocol"} /\ ParserTyped'
    /\ UNCHANGED <<fronts, live, via, conn, spare, inUse, handler, pending, out, dangling, interim>>

LEMMA ResponseEffect ==
    ASSUME Paired, NEW b \in Backend, NEW r, NEW close, HandleResponse(b, r, close)
    PROVE  Response(b, r)
<1>1. conn[b] = "open" /\ conn = [conn EXCEPT ![b] = conn[b]]
  BY DEF HandleResponse, Paired, TypeOK
<1>2. [conn EXCEPT ![b] = IF close THEN "closed" ELSE @] \in {conn, [conn EXCEPT ![b] = "closed"]}
  BY <1>1
<1> QED
  BY <1>1, <1>2 DEF HandleResponse, OnBackendResponse, PutTransport, GiveBack, Paired, CallbacksPaired,
                    Response, Handled, Unhandled

LEMMA AnswerEffect ==
    ASSUME Paired, NEW b \in Backend, NEW close, BackendAnswers(b, close)
    PROVE  FinalResponse(b)
BY ResponseEffect DEF BackendAnswers, FinalResponse, parser, ParserTyped, Paired, TypeOK

LEMMA AnswersTwiceEffect ==
    ASSUME Paired, NEW b \in Backend, BackendAnswersTwice(b)
    PROVE  FinalResponse(b)
<1>1. b \in inUse /\ handler[b] \in live /\ via[handler[b]] = b
  BY DEF BackendAnswersTwice, GiveBack, Paired, CallbacksPaired
<1> QED
  BY <1>1 DEF BackendAnswersTwice, GiveBack, FinalResponse, Response, Handled, parser, ParserTyped,
              Paired, TypeOK

LEMMA BodyEffect ==
    ASSUME Paired, NEW b \in Backend, NEW n, NEW close, BackendSendsBody(b, n, close)
    PROVE  FinalResponse(b) \/ PartialResponse
<1>1. reading \in [Backend -> {"lines", "body", "stuck"}] /\ buffered \in [Backend -> 0..BodyLen]
      /\ BodyLen \in Nat
  BY DEF Paired, TypeOK
<1>2. CASE failure' = "protocol" /\ UNCHANGED <<fronts, live, via, conn, spare, inUse, handler, pending,
                                               parser, out, dangling, interim>>
  BY <1>1, <1>2 DEF PartialResponse, parser, ParserTyped
<1>3. CASE /\ pending[b] # <<>> /\ pending' = [pending EXCEPT ![b] = Tail(@)]
           /\ HandleResponse(b, Head(pending[b]), close)
           /\ reading' = [reading EXCEPT ![b] = "lines"]
           /\ buffered' = [buffered EXCEPT ![b] = 0]
           /\ UNCHANGED interim
  <2>1. ParserTyped'
    BY <1>1, <1>3 DEF ParserTyped
  <2> QED
    BY <1>3, <2>1, ResponseEffect DEF FinalResponse
<1> QED
  BY <1>2, <1>3 DEF BackendSendsBody

LEMMA PartEffect ==
    ASSUME Paired, NEW b \in Backend,
           \/ \E n \in 0..BodyLen : BackendSendsHeaders(b, n)
           \/ BackendRunsOn(b) \/ BackendGarbles(b)
    PROVE  PartialResponse
<1>1. reading \in [Backend -> {"lines", "body", "stuck"}] /\ buffered \in [Backend -> 0..BodyLen]
      /\ BodyLen \in Nat
  BY DEF Paired, TypeOK
<1>2. ASSUME NEW n \in 0..BodyLen, BackendSendsHeaders(b, n) PROVE PartialResponse
  BY <1>1, <1>2 DEF BackendSendsHeaders, PartialResponse, ParserTyped
<1>3. CASE BackendRunsOn(b)
  BY <1>1, <1>3 DEF BackendRunsOn, PartialResponse, parser, ParserTyped
<1>4. CASE BackendGarbles(b)
  BY <1>1, <1>4 DEF BackendGarbles, PartialResponse, parser, ParserTyped
<1> QED
  BY <1>2, <1>3, <1>4

\* What is sent to a client is typed.
LEMMA RespondType ==
    ASSUME TypeOK, NEW h \in live, NEW r \in Nat, Respond(h, r)
    PROVE  /\ out' \in Seq([to : FrontAddr \X Nat, req : Nat]) /\ dangling' \in BOOLEAN
           /\ client[h][1] \in FrontAddr
<1>1. client[h] \in FrontAddr \X Nat
  BY DEF TypeOK
<1>2. client[h][1] \in FrontAddr
  BY <1>1
<1>3. ClientAt(client[h][1]) \in FrontAddr \X Nat
  <2>1. gen \in [FrontAddr -> Nat]
    BY DEF TypeOK
  <2>2. gen[client[h][1]] \in Nat
    BY <1>2, <2>1
  <2> QED
    BY <1>2, <2>2 DEF ClientAt
<1>4. [to |-> ClientAt(client[h][1]), req |-> r] \in [to : FrontAddr \X Nat, req : Nat]
  BY <1>3
<1> QED
  BY <1>2, <1>4, AppendSeq DEF Respond, TypeOK

LEMMA ResponseKeepsPaired ==
    ASSUME Paired, NEW b \in Backend, NEW r \in Nat, Response(b, r),
           pending' \in [Backend -> Seq(Nat)], interim' \in BOOLEAN, ParserTyped'
    PROVE  Paired'
<1>1. conn[b] = "open"
  BY DEF Response
<1>2. CASE Handled(b, r)
  <2> USE DEF Handled
  <2>1. spare \in Seq(Backend)
    BY DEF Paired, TypeOK
  <2>2. TypeOK'
    <3>1. spare' \in Seq(Backend)
      BY <1>2, <2>1, PushSeq
    <3>2. out' \in Seq([to : FrontAddr \X Nat, req : Nat]) /\ dangling' \in BOOLEAN
      BY <1>2, RespondType DEF Paired
    <3>3. handler' \in [Backend -> 0..nreq'] /\ live' \subseteq 1..nreq'
      <4>1. handler \in [Backend -> 0..nreq] /\ nreq \in Nat /\ live \subseteq 1..nreq
        BY DEF Paired, TypeOK
      <4>2. nreq' = nreq /\ handler' = [handler EXCEPT ![b] = 0] /\ live' = live \ {handler[b]}
        BY <1>2 DEF fronts
      <4>3. handler' \in [Backend -> 0..nreq]
        BY <4>1, <4>2
      <4>4. live' \subseteq 1..nreq
        BY <4>1, <4>2
      <4> QED
        BY <4>2, <4>3, <4>4
    <3>4. conn' \in [Backend -> {"none", "open", "closed"}]
      BY <1>2 DEF Paired, TypeOK
    <3> QED
      BY <1>2, <3>1, <3>2, <3>3, <3>4 DEF Paired, TypeOK, fronts, ParserTyped
  <2>3. OwnedOnce'
    <3> DEFINE t == <<b>> \o spare
    <3>1. /\ Len(t) = Len(spare) + 1 /\ t[1] = b /\ t \in Seq(Backend)
          /\ \A i \in 1..Len(t) : i > 1 => i - 1 \in 1..Len(spare) /\ t[i] = spare[i - 1]
          /\ \A i \in 1..Len(spare) : i + 1 \in 1..Len(t) /\ t[i + 1] = spare[i]
      BY <2>1, PushSeq
    <3>2. DOMAIN spare = 1..Len(spare) /\ DOMAIN t = 1..Len(t) /\ Len(spare) \in Nat
      BY <2>1, <3>1
    <3>3. \A i \in 1..Len(spare) : spare[i] # b
      <4>1. b \in inUse /\ \A i \in DOMAIN spare : spare[i] \notin inUse
        BY <1>2 DEF Paired, OwnedOnce
      <4> QED
        BY <3>2, <4>1
    <3>4. spare' = t
      BY <1>2
    <3> HIDE DEF t
    <3>5. \A i, j \in DOMAIN spare' : spare'[i] = spare'[j] => i = j
      <4> SUFFICES ASSUME NEW i \in 1..Len(t), NEW j \in 1..Len(t), t[i] = t[j] PROVE i = j
        BY <3>2, <3>4
      <4>1. CASE i = 1
        BY <3>1, <3>2, <3>3, <4>1
      <4>2. CASE j = 1
        BY <3>1, <3>2, <3>3, <4>2
      <4>3. CASE i > 1 /\ j > 1
        <5>1. i - 1 = j - 1
          <6>1. \A k, l \in DOMAIN spare : spare[k] = spare[l] => k = l
            BY DEF Paired, OwnedOnce
          <6>2. /\ i - 1 \in DOMAIN spare /\ j - 1 \in DOMAIN spare
                /\ t[i] = spare[i - 1] /\ t[j] = spare[j - 1]
            BY <3>1, <3>2, <4>3
          <6> QED
            BY <6>1, <6>2
        <5> QED
          BY <5>1
      <4> QED
        BY <4>1, <4>2, <4>3
    <3>6. \A i \in DOMAIN spare' : spare'[i] \notin inUse'
      BY <1>2, <3>1, <3>2, <3>4 DEF Paired, OwnedOnce
    <3>7. ASSUME NEW c \in Backend
          PROVE  conn'[c] # "none" <=> c \in inUse' \/ \E i \in DOMAIN spare' : spare'[i] = c
      <4>1. CASE c = b
        <5>1. conn'[b] # "none"
          BY <1>1, <1>2 DEF Paired, TypeOK
        <5>2. 1 \in DOMAIN spare' /\ spare'[1] = b
          BY <3>1, <3>2, <3>4
        <5> QED
          BY <4>1, <5>1, <5>2
      <4>2. CASE c # b
        <5>1. conn'[c] = conn[c] /\ (c \in inUse' <=> c \in inUse)
          BY <1>2, <4>2 DEF Paired, TypeOK
        <5>2. (\E i \in DOMAIN spare' : spare'[i] = c) <=> (\E i \in DOMAIN spare : spare[i] = c)
          <6>1. ASSUME NEW i \in 1..Len(t), t[i] = c PROVE \E k \in 1..Len(spare) : spare[k] = c
            <7>1. i > 1
              BY <3>1, <4>2, <6>1
            <7> QED
              BY <3>1, <6>1, <7>1
          <6>2. ASSUME NEW i \in 1..Len(spare), spare[i] = c PROVE \E k \in 1..Len(t) : t[k] = c
            BY <3>1, <6>2
          <6> QED
            BY <3>2, <3>4, <6>1, <6>2
        <5> QED
          BY <5>1, <5>2 DEF Paired, OwnedOnce
      <4> QED
        BY <4>1, <4>2
    <3>8. failure' # "unknown_transport"
      BY <1>2 DEF Paired, OwnedOnce
    <3> QED
      BY <3>5, <3>6, <3>7, <3>8 DEF OwnedOnce
  <2>4. CallbacksPaired'
    <3>1. handler \in [Backend -> 0..nreq] /\ 0 \notin live
      BY DEF Paired, TypeOK
    <3>2. \A h \in live : via[h] \in Backend
      BY DEF Paired, TypeOK
    <3>3. /\ b \in inUse /\ handler[b] \in live /\ via[handler[b]] = b /\ via' = via
          /\ handler' = [handler EXCEPT ![b] = 0]
          /\ inUse' = inUse \ {b} /\ live' = live \ {handler[b]} /\ CallbacksPaired
      BY <1>2 DEF Paired
    <3> QED
      BY <3>1, <3>2, <3>3 DEF CallbacksPaired
  <2> QED
    BY <2>2, <2>3, <2>4 DEF Paired
<1>3. CASE Unhandled(b)
  BY <1>3 DEF Unhandled, Paired, TypeOK, OwnedOnce, CallbacksPaired, fronts, ParserTyped
<1> QED
  BY <1>2, <1>3 DEF Response

LEMMA FinalKeepsPaired ==
    ASSUME Paired, NEW b \in Backend, FinalResponse(b)
    PROVE  Paired'
<1>1. pending \in [Backend -> Seq(Nat)] /\ interim \in BOOLEAN
  BY DEF Paired, TypeOK
<1>2. Head(pending[b]) \in Nat /\ Tail(pending[b]) \in Seq(Nat)
  BY <1>1, PopSeq DEF FinalResponse
<1>3. pending' \in [Backend -> Seq(Nat)] /\ interim' \in BOOLEAN
  BY <1>1, <1>2 DEF FinalResponse
<1> QED
  BY <1>2, <1>3, ResponseKeepsPaired DEF FinalResponse

LEMMA PartKeepsPaired ==
    ASSUME Paired, PartialResponse
    PROVE  Paired'
<1>1. /\ UNCHANGED <<nreq, client, gen, front, deserted, live, via, conn, spare, inUse, handler,
                     pending, out, dangling, interim>>
      /\ failure' \in {failure, "protocol"} /\ ParserTyped'
  BY DEF PartialResponse, fronts
<1>2. TypeOK'
  BY <1>1 DEF Paired, TypeOK, ParserTyped
<1>3. OwnedOnce' /\ CallbacksPaired'
  BY <1>1 DEF Paired, OwnedOnce, CallbacksPaired
<1> QED
  BY <1>2, <1>3 DEF Paired

\* A request gets a transport that nobody holds: the top of the stack, or a new one
\* (ClientTransportSource.cpp:20-50).
LEMMA DispatchTakesIdle ==
    ASSUME Paired, NEW f \in FrontAddr, NEW b \in Backend, Dispatch(f, b)
    PROVE  /\ b \notin inUse /\ handler[b] = 0
           /\ inUse' = inUse \cup {b}
           /\ handler' = [handler EXCEPT ![b] = nreq + 1]
           /\ \/ spare # <<>> /\ b = Head(spare) /\ spare' = Tail(spare)
              \/ spare = <<>> /\ spare' = spare
<1>1. /\ inUse' = inUse \cup {b} /\ handler' = [handler EXCEPT ![b] = nreq + 1]
      /\ \/ spare # <<>> /\ b = Head(spare) /\ spare' = Tail(spare)
         \/ spare = <<>> /\ conn[b] = "none" /\ spare' = spare
  BY DEF Dispatch, Acquire, SpareTransport, NewTransport
<1>2. b \notin inUse
  <2>1. CASE spare # <<>> /\ b = Head(spare)
    <3>1. b = spare[1] /\ 1 \in DOMAIN spare
      BY <2>1, PopSeq DEF Paired, TypeOK
    <3> QED
      BY <3>1 DEF Paired, OwnedOnce
  <2>2. CASE conn[b] = "none"
    BY <2>2 DEF Paired, OwnedOnce
  <2> QED
    BY <1>1, <2>1, <2>2
<1> QED
  BY <1>1, <1>2 DEF Paired, CallbacksPaired

\* The connection after a request was sent on it, and what the backend has got.
LEMMA SendRequestEffect ==
    ASSUME TypeOK, NEW b \in Backend, NEW r \in Nat, SendRequest(b, r)
    PROVE  /\ conn' \in [Backend -> {"none", "open", "closed"}] /\ conn'[b] # "none"
           /\ \A c \in Backend : c # b => conn'[c] = conn[c]
           /\ pending' \in [Backend -> Seq(Nat)]
           /\ \/ pending' = pending
              \/ pending' = [pending EXCEPT ![b] = Append(@, r)]
<1>1. conn \in [Backend -> {"none", "open", "closed"}] /\ pending \in [Backend -> Seq(Nat)]
  BY DEF TypeOK
<1>2. Append(pending[b], r) \in Seq(Nat)
  BY <1>1, AppendSeq
<1>3. CASE /\ conn[b] # "closed"
           /\ conn' = [conn EXCEPT ![b] = "open"]
           /\ pending' = [pending EXCEPT ![b] = Append(@, r)]
  BY <1>1, <1>2, <1>3
<1>4. CASE /\ conn' \in {[conn EXCEPT ![b] = s] : s \in {"open", "closed"}}
           /\ UNCHANGED pending
  BY <1>1, <1>4
<1>5. CASE conn[b] = "closed" /\ UNCHANGED <<conn, pending>>
  BY <1>1, <1>5
<1> QED
  BY <1>3, <1>4, <1>5 DEF SendRequest

LEMMA DispatchKeepsPaired ==
    ASSUME Paired, NEW f \in FrontAddr, NEW b \in Backend, Dispatch(f, b)
    PROVE  Paired'
<1> DEFINE r == nreq + 1
<1>1. /\ nreq \in Nat /\ nreq' = r /\ r \in 1..MaxReq /\ live \subseteq 1..nreq
      /\ live' = live \cup {r}
      /\ client' = Append(client, ClientAt(f)) /\ via' = Append(via, b)
      /\ UNCHANGED <<gen, front, parser, out, failure, dangling, deserted, interim>>
  BY DEF Dispatch, Acquire, Paired, TypeOK
<1>2. /\ b \notin inUse /\ handler[b] = 0
      /\ inUse' = inUse \cup {b}
      /\ handler' = [handler EXCEPT ![b] = r]
      /\ \/ spare # <<>> /\ b = Head(spare) /\ spare' = Tail(spare)
         \/ spare = <<>> /\ spare' = spare
  BY DispatchTakesIdle
<1>3. /\ conn' \in [Backend -> {"none", "open", "closed"}] /\ conn'[b] # "none"
      /\ \A c \in Backend : c # b => conn'[c] = conn[c]
      /\ pending' \in [Backend -> Seq(Nat)]
  <2>1. SendRequest(b, r)
    BY DEF Dispatch
  <2> QED
    BY <1>1, <2>1, SendRequestEffect DEF Paired
<1>4. via \in Seq(Backend) /\ Len(via) = nreq /\ spare \in Seq(Backend)
      /\ handler \in [Backend -> 0..nreq]
  BY DEF Paired, TypeOK
<1>5. /\ via' \in Seq(Backend) /\ Len(via') = r /\ via'[r] = b
      /\ \A h \in 1..nreq : via'[h] = via[h] /\ via[h] \in Backend
  BY <1>1, <1>4, AppendSeq
<1> HIDE DEF r
<1>6. TypeOK'
  <2>1. client' \in Seq(FrontAddr \X Nat) /\ Len(client') = r
    <3>1. client \in Seq(FrontAddr \X Nat) /\ Len(client) = nreq
      BY DEF Paired, TypeOK
    <3>2. gen \in [FrontAddr -> Nat]
      BY DEF Paired, TypeOK
    <3>3. ClientAt(f) \in FrontAddr \X Nat
      BY <3>2 DEF ClientAt
    <3> QED
      BY <1>1, <3>1, <3>3, AppendSeq DEF r
  <2>2. spare' \in Seq(Backend)
    <3>1. CASE spare # <<>> /\ spare' = Tail(spare)
      BY <1>4, <3>1, PopSeq
    <3> QED
      BY <1>2, <1>4, <3>1
  <2>3. handler' \in [Backend -> 0..r] /\ live' \subseteq 1..r
    BY <1>1, <1>2, <1>4 DEF r
  <2>4. r \in 0..MaxReq /\ inUse' \subseteq Backend
    BY <1>1, <1>2 DEF Paired, TypeOK
  <2>5. /\ front' \in [FrontAddr -> {"none", "open", "closed"}]
        /\ gen' \in [FrontAddr -> Nat]
        /\ {dangling', deserted', interim'} \subseteq BOOLEAN
        /\ reading' \in [Backend -> {"lines", "body", "stuck"}] /\ buffered' \in [Backend -> 0..BodyLen]
        /\ out' \in Seq([to : FrontAddr \X Nat, req : Nat])
        /\ failure' \in {"none", "connect", "unknown_transport", "bad_function_call", "protocol"}
    BY <1>1 DEF Paired, TypeOK, parser
  <2> QED
    BY <1>1, <1>3, <1>5, <2>1, <2>2, <2>3, <2>4, <2>5 DEF TypeOK
<1>7. OwnedOnce'
  <2>1. OwnedOnce /\ failure' # "unknown_transport"
    BY <1>1 DEF Paired, OwnedOnce
  <2>2. CASE spare = <<>> /\ spare' = spare
    <3>1. DOMAIN spare = {} /\ \A c \in Backend : c \in inUse' <=> c \in inUse \/ c = b
      BY <1>2, <2>2
    <3>2. \A c \in Backend : conn'[c] # "none" <=> c \in inUse'
      BY <1>3, <2>1, <3>1 DEF OwnedOnce
    <3> QED
      BY <2>1, <2>2, <3>1, <3>2 DEF OwnedOnce
  <2>3. CASE spare # <<>> /\ b = Head(spare) /\ spare' = Tail(spare)
    <3>1. /\ b = spare[1] /\ 1 \in 1..Len(spare)
          /\ spare' \in Seq(Backend) /\ Len(spare') = Len(spare) - 1
          /\ \A i \in 1..Len(spare') : i + 1 \in 1..Len(spare) /\ spare'[i] = spare[i + 1]
          /\ \A i \in 1..Len(spare) :
                i > 1 => i - 1 \in 1..Len(spare') /\ spare'[i - 1] = spare[i]
      BY <1>4, <2>3, PopSeq
    <3>2. DOMAIN spare = 1..Len(spare) /\ DOMAIN spare' = 1..Len(spare') /\ Len(spare) \in Nat
      BY <1>4, <3>1
    <3>3. ASSUME NEW i \in DOMAIN spare', NEW j \in DOMAIN spare', spare'[i] = spare'[j]
          PROVE  i = j
      <4>1. i + 1 \in DOMAIN spare /\ j + 1 \in DOMAIN spare /\ spare[i + 1] = spare[j + 1]
        BY <3>1, <3>2, <3>3
      <4>2. i + 1 = j + 1
        BY <2>1, <4>1 DEF OwnedOnce
      <4> QED
        BY <3>2, <4>2
    <3>4. ASSUME NEW i \in DOMAIN spare' PROVE spare'[i] \notin inUse' /\ spare'[i] # b
      <4>1. i + 1 \in DOMAIN spare /\ i + 1 # 1 /\ spare'[i] = spare[i + 1]
        BY <3>1, <3>2
      <4>2. spare[i + 1] # spare[1] /\ spare[i + 1] \notin inUse
        BY <2>1, <3>1, <3>2, <4>1 DEF OwnedOnce
      <4> QED
        BY <1>2, <3>1, <4>1, <4>2
    <3>5. ASSUME NEW c \in Backend
          PROVE  conn'[c] # "none" <=> c \in inUse' \/ \E i \in DOMAIN spare' : spare'[i] = c
      <4>1. CASE c = b
        BY <1>2, <1>3, <4>1
      <4>2. CASE c # b
        <5>1. (\E i \in DOMAIN spare' : spare'[i] = c) <=> (\E i \in DOMAIN spare : spare[i] = c)
          <6>1. ASSUME NEW i \in 1..Len(spare'), spare'[i] = c
                PROVE  \E k \in 1..Len(spare) : spare[k] = c
            BY <3>1, <6>1
          <6>2. ASSUME NEW i \in 1..Len(spare), spare[i] = c
                PROVE  \E k \in 1..Len(spare') : spare'[k] = c
            <7>1. i > 1
              BY <3>1, <4>2, <6>2
            <7> QED
              BY <3>1, <6>2, <7>1
          <6> QED
            BY <3>2, <6>1, <6>2
        <5>2. conn'[c] = conn[c] /\ (c \in inUse' <=> c \in inUse)
          BY <1>2, <1>3, <4>2
        <5> QED
          BY <2>1, <5>1, <5>2 DEF OwnedOnce
      <4> QED
        BY <4>1, <4>2
    <3> QED
      BY <2>1, <3>3, <3>4, <3>5 DEF OwnedOnce
  <2> QED
    BY <1>2, <2>2, <2>3
<1>8. CallbacksPaired'
  <2>1. CallbacksPaired /\ r # 0 /\ r \notin live /\ live \subseteq 1..nreq
        /\ inUse \subseteq Backend
    BY <1>1 DEF Paired, r, TypeOK
  <2>2. ASSUME NEW c \in Backend PROVE c \in inUse' <=> handler'[c] # 0
    BY <1>2, <1>4, <2>1, <2>2 DEF CallbacksPaired
  <2>3. ASSUME NEW c \in inUse' PROVE handler'[c] \in live' /\ via'[handler'[c]] = c
    <3>1. CASE c = b
      BY <1>1, <1>2, <1>4, <1>5, <3>1
    <3>2. CASE c # b
      <4>1. c \in inUse /\ c \in Backend /\ handler'[c] = handler[c]
        BY <1>2, <1>4, <2>1, <2>3, <3>2
      <4>2. handler[c] \in live /\ via[handler[c]] = c
        BY <2>1, <4>1 DEF CallbacksPaired
      <4> QED
        BY <1>1, <1>5, <2>1, <4>1, <4>2
    <3> QED
      BY <3>1, <3>2
  <2>4. ASSUME NEW h \in live' PROVE handler'[via'[h]] = h
    <3>1. CASE h = r
      BY <1>2, <1>4, <1>5, <3>1
    <3>2. CASE h # r
      <4>1. h \in live /\ via'[h] = via[h] /\ via[h] \in Backend
        BY <1>1, <1>5, <2>1, <2>4, <3>2
      <4>2. handler[via[h]] = h
        BY <2>1, <4>1 DEF CallbacksPaired
      <4>3. h # 0
        BY <1>1, <4>1
      <4> QED
        BY <1>2, <1>4, <4>1, <4>2, <4>3
    <3> QED
      BY <3>1, <3>2
  <2> QED
    BY <2>2, <2>3, <2>4 DEF CallbacksPaired
<1> QED
  BY <1>6, <1>7, <1>8 DEF Paired

\* Each step keeps transports, handlers and owners paired.
LEMMA PairedInductive == Paired /\ [Next]_vars => Paired'
<1> SUFFICES ASSUME Paired, [Next]_vars PROVE Paired'
  OBVIOUS
<1>1. ASSUME NEW f \in FrontAddr, NEW b \in Backend, Dispatch(f, b) PROVE Paired'
  BY <1>1, DispatchKeepsPaired
<1>2. ASSUME NEW f \in FrontAddr, DispatchFails(f) PROVE Paired'
  BY <1>2 DEF DispatchFails, fronts, parser, Paired, TypeOK, OwnedOnce, CallbacksPaired
<1>3. ASSUME NEW f \in FrontAddr, FrontConnects(f) PROVE Paired'
  <2>1. gen' \in [FrontAddr -> Nat]
    <3>1. gen \in [FrontAddr -> Nat] /\ gen' = [gen EXCEPT ![f] = @ + 1]
      BY <1>3 DEF FrontConnects, Paired, TypeOK
    <3> QED
      BY <3>1
  <2>2. front' \in [FrontAddr -> {"none", "open", "closed"}]
    BY <1>3 DEF FrontConnects, Paired, TypeOK
  <2> QED
    BY <1>3, <2>1, <2>2 DEF FrontConnects, parser, Paired, TypeOK, OwnedOnce, CallbacksPaired
<1>4. ASSUME NEW f \in FrontAddr, FrontCloses(f) PROVE Paired'
  BY <1>4 DEF FrontCloses, parser, Paired, TypeOK, OwnedOnce, CallbacksPaired
<1>5. ASSUME NEW f \in FrontAddr, FrontDestroyed(f) PROVE Paired'
  BY <1>5 DEF FrontDestroyed, parser, Paired, TypeOK, OwnedOnce, CallbacksPaired
<1>6. ASSUME NEW b \in Backend, FinalResponse(b) PROVE Paired'
  BY <1>6, FinalKeepsPaired
<1>7. ASSUME NEW b \in Backend, BackendInterim(b) PROVE Paired'
  <2>1. pending \in [Backend -> Seq(Nat)]
    BY DEF Paired, TypeOK
  <2>2. Head(pending[b]) \in Nat
    BY <1>7, <2>1, PopSeq DEF BackendInterim
  <2>3. pending' \in [Backend -> Seq(Nat)] /\ interim' \in BOOLEAN /\ ParserTyped'
    BY <1>7, <2>1 DEF BackendInterim, parser, ParserTyped, Paired, TypeOK
  <2> QED
    BY <1>7, <2>2, <2>3, ResponseEffect, ResponseKeepsPaired DEF BackendInterim
<1>8. ASSUME NEW b \in Backend, BackendSpeaksUnasked(b) PROVE Paired'
  <2>1. pending' \in [Backend -> Seq(Nat)] /\ interim' \in BOOLEAN /\ ParserTyped'
    BY <1>8 DEF BackendSpeaksUnasked, parser, ParserTyped, Paired, TypeOK
  <2> QED
    BY <1>8, <2>1, ResponseEffect, ResponseKeepsPaired DEF BackendSpeaksUnasked
<1>9. ASSUME NEW b \in Backend, BackendCloses(b) PROVE Paired'
  <2>1. pending' \in [Backend -> Seq(Nat)] /\ conn' \in [Backend -> {"none", "open", "closed"}]
    BY <1>9 DEF BackendCloses, Paired, TypeOK
  <2>2. \A c \in Backend : conn'[c] # "none" <=> conn[c] # "none"
    BY <1>9 DEF BackendCloses, Paired, TypeOK
  <2> QED
    BY <1>9, <2>1, <2>2 DEF BackendCloses, fronts, parser, Paired, TypeOK, OwnedOnce, CallbacksPaired
<1>10. CASE UNCHANGED vars
  BY <1>10 DEF vars, Paired, TypeOK, OwnedOnce, CallbacksPaired
<1>11. CASE PartialResponse
  BY <1>11, PartKeepsPaired
<1>12. ASSUME NEW b \in Backend, NEW close \in BOOLEAN, BackendAnswers(b, close) PROVE Paired'
  BY <1>6, <1>12, AnswerEffect
<1>13. ASSUME NEW b \in Backend, NEW n \in 1..BodyLen, NEW close \in BOOLEAN,
              BackendSendsBody(b, n, close)
       PROVE  Paired'
  BY <1>6, <1>11, <1>13, BodyEffect
<1>14. ASSUME NEW b \in Backend, BackendAnswersTwice(b) PROVE Paired'
  BY <1>6, <1>14, AnswersTwiceEffect
<1>15. ASSUME NEW b \in Backend, NEW n \in 0..BodyLen, BackendSendsHeaders(b, n) PROVE Paired'
  BY <1>11, <1>15, PartEffect
<1>16. ASSUME NEW b \in Backend, BackendRunsOn(b) \/ BackendGarbles(b) PROVE Paired'
  BY <1>11, <1>16, PartEffect
<1> QED
  BY <1>1, <1>2, <1>3, <1>4, <1>5, <1>7, <1>8, <1>9, <1>10, <1>12, <1>13, <1>14, <1>15, <1>16
     DEF Next

LEMMA PairedInitially == Init => Paired
<1> SUFFICES ASSUME Init PROVE Paired
  OBVIOUS
<1>1. TypeOK
  <2>1. /\ nreq \in 0..MaxReq /\ live \subseteq 1..nreq
        /\ client \in Seq(FrontAddr \X Nat) /\ Len(client) = nreq
        /\ via \in Seq(Backend) /\ Len(via) = nreq
        /\ spare \in Seq(Backend) /\ inUse \subseteq Backend
        /\ out \in Seq([to : FrontAddr \X Nat, req : Nat])
    BY DEF Init
  <2>2. /\ front \in [FrontAddr -> {"none", "open", "closed"}]
        /\ gen \in [FrontAddr -> Nat]
        /\ conn \in [Backend -> {"none", "open", "closed"}]
        /\ handler \in [Backend -> 0..nreq] /\ pending \in [Backend -> Seq(Nat)]
        /\ reading \in [Backend -> {"lines", "body", "stuck"}] /\ buffered \in [Backend -> 0..BodyLen]
    BY DEF Init
  <2>3. /\ {dangling, deserted, interim} \subseteq BOOLEAN
        /\ failure \in {"none", "connect", "unknown_transport", "bad_function_call", "protocol"}
    BY DEF Init
  <2> QED
    BY <2>1, <2>2, <2>3 DEF TypeOK
<1>2. OwnedOnce
  BY DEF Init, OwnedOnce
<1>3. CallbacksPaired
  BY DEF Init, CallbacksPaired
<1> QED
  BY <1>1, <1>2, <1>3 DEF Paired

LEMMA PairedAlways == Spec => []Paired
BY PairedInitially, PairedInductive, PTL DEF Spec

\* The proxy keeps its state well-formed, whatever clients and backends do.
THEOREM ProxyTypes == Spec => []TypeOK
<1>1. Paired => TypeOK
  BY DEF Paired
<1> QED
  BY <1>1, PairedAlways, PTL

\* For any number of clients, backends and requests, backends that fail or not:
\* every backend connection is owned exactly once, by the stack or the map, and
\* putTransport never throws (ClientTransportSource.cpp:66).
THEOREM TransportsOwnedOnce == Spec => []OwnedOnce
<1>1. Paired => OwnedOnce
  BY DEF Paired
<1> QED
  BY <1>1, PairedAlways, PTL

\* A transport calls back the one handler that holds it, which exists: no callback
\* goes into a PerRequestProxyHandler that deleted itself (ProxyHandler.cpp:32).
THEOREM CallbacksReachTheirHandler == Spec => []CallbacksPaired
<1>1. Paired => CallbacksPaired
  BY DEF Paired
<1> QED
  BY <1>1, PairedAlways, PTL

-----------------------------------------------------------------------------
\* The proxy implements the pool.

LEMMA ResponseRefines ==
    ASSUME Paired, NEW b \in Backend, NEW r, Response(b, r)
    PROVE  [Pool!Next]_(Pool!pvars)
BY DEF Response, Handled, Unhandled, fronts, Pool!Next, Pool!GiveBack, Pool!pvars

\* The stack, the map and the callbacks of the proxy implement the pool that
\* ClientTransportSource promises: each request holds a transport of its own from
\* its dispatch to its answer.
THEOREM ProxyImplementsPool == Spec => PoolSpec
<1>1. Init => Pool!Init
  BY DEF Init, Pool!Init
<1>2. Paired /\ [Next]_vars => [Pool!Next]_(Pool!pvars)
  <2> SUFFICES ASSUME Paired, [Next]_vars PROVE [Pool!Next]_(Pool!pvars)
    OBVIOUS
  <2>1. ASSUME NEW f \in FrontAddr, NEW b \in Backend, Dispatch(f, b) PROVE Pool!Next
    BY <2>1, DispatchTakesIdle DEF Dispatch, Pool!Next, Pool!Take
  <2>2. ASSUME NEW f \in FrontAddr,
               DispatchFails(f) \/ FrontConnects(f) \/ FrontCloses(f) \/ FrontDestroyed(f)
        PROVE  UNCHANGED Pool!pvars
    BY <2>2 DEF DispatchFails, FrontConnects, FrontCloses, FrontDestroyed, fronts, Pool!pvars
  <2>3. ASSUME NEW b \in Backend, NEW close \in BOOLEAN, BackendAnswers(b, close)
        PROVE  [Pool!Next]_(Pool!pvars)
    BY <2>3, AnswerEffect, ResponseRefines DEF FinalResponse
  <2>4. ASSUME NEW b \in Backend, BackendInterim(b) \/ BackendSpeaksUnasked(b)
        PROVE  [Pool!Next]_(Pool!pvars)
    BY <2>4, ResponseEffect, ResponseRefines DEF BackendInterim, BackendSpeaksUnasked
  <2>5. ASSUME NEW b \in Backend, BackendCloses(b) PROVE UNCHANGED Pool!pvars
    BY <2>5 DEF BackendCloses, fronts, Pool!pvars
  <2>6. CASE UNCHANGED vars
    BY <2>6 DEF vars, Pool!pvars
  <2>7. PartialResponse => UNCHANGED Pool!pvars
    BY DEF PartialResponse, fronts, Pool!pvars
  <2>8. ASSUME NEW b \in Backend, NEW n \in 1..BodyLen, NEW close \in BOOLEAN,
               BackendSendsBody(b, n, close)
        PROVE  [Pool!Next]_(Pool!pvars)
    BY <2>7, <2>8, BodyEffect, ResponseRefines DEF FinalResponse
  <2>9. ASSUME NEW b \in Backend, BackendAnswersTwice(b) PROVE [Pool!Next]_(Pool!pvars)
    BY <2>9, AnswersTwiceEffect, ResponseRefines DEF FinalResponse
  <2>10. ASSUME NEW b \in Backend, NEW n \in 0..BodyLen, BackendSendsHeaders(b, n)
         PROVE  UNCHANGED Pool!pvars
    BY <2>7, <2>10, PartEffect
  <2>11. ASSUME NEW b \in Backend, BackendRunsOn(b) \/ BackendGarbles(b)
         PROVE  UNCHANGED Pool!pvars
    BY <2>7, <2>11, PartEffect
  <2> QED
    BY <2>1, <2>2, <2>3, <2>4, <2>5, <2>6, <2>8, <2>9, <2>10, <2>11 DEF Next
<1> QED
  BY <1>1, <1>2, PairedAlways, PTL DEF Spec, PoolSpec, Pool!Spec

-----------------------------------------------------------------------------
\* Answers and their clients.

\* A response that is the one the handler waits for, or nobody's, keeps the
\* answers in order; the handler finds its client where it was (Responder.h:14-24).
LEMMA ResponseKeepsAnswers ==
    ASSUME AnswerInv, NEW b \in Backend, NEW r \in Nat, Response(b, r),
           ~interim' => ~interim /\ r \in {0, handler[b]}
    PROVE  ClientsThere' /\ AnsweredGone' /\ AnswersReachTheirClient'
<1>1. CASE handler[b] = 0 /\ UNCHANGED <<fronts, live, out, dangling>>
  BY <1>1 DEF fronts, AnswerInv, ClientsThere, AnsweredGone, AnswersReachTheirClient, There, ClientAt
<1>2. CASE /\ handler[b] \in live /\ live' = live \ {handler[b]}
           /\ Respond(handler[b], r)
           /\ UNCHANGED fronts
  <2> DEFINE h == handler[b]
             e == [to |-> ClientAt(client[h][1]), req |-> r]
  <2>1. /\ h \in live /\ live' = live \ {h}
        /\ UNCHANGED <<nreq, client, gen, front, deserted>>
    BY <1>2 DEF fronts
  <2>2. There' = There /\ \A f \in FrontAddr : ClientAt(f)' = ClientAt(f)
    BY <2>1 DEF There, ClientAt
  <2>3. \A g \in live : client[g] \in FrontAddr \X Nat /\ client[g][1] \in FrontAddr
    <3>1. client \in Seq(FrontAddr \X Nat) /\ live \subseteq 1..Len(client)
      BY DEF AnswerInv, Paired, TypeOK
    <3> QED
      BY <3>1
  <2>4. /\ out' = out \/ out' = Append(out, e)
        /\ dangling' = (dangling \/ client[h][1] \notin There \/ ClientAt(client[h][1]) # client[h])
    BY <1>2 DEF Respond
  <2>5. ~deserted => /\ ~dangling
                     /\ \A g \in live : client[g][1] \in There /\ client[g] = ClientAt(client[g][1])
    BY DEF AnswerInv, ClientsThere
  <2> HIDE DEF h
  <2>6. ClientsThere'
    BY <2>1, <2>2, <2>3, <2>4, <2>5 DEF ClientsThere
  <2>7. dangling' => deserted'
    BY <2>1, <2>6 DEF ClientsThere
  <2>8. ASSUME ~deserted', ~interim'
        PROVE  /\ \A i \in 1..Len(out') : out'[i].req # 0 => out'[i].req \in (1..nreq') \ live'
               /\ \A i \in 1..Len(out') : out'[i].req # 0 => out'[i].to = client'[out'[i].req]
               /\ \A i, j \in 1..Len(out') : out'[i].req = out'[j].req /\ out'[i].req # 0 => i = j
    <3>1. ~deserted /\ ~interim /\ r \in {0, h}
      BY <2>1, <2>8 DEF h
    <3>2. /\ \A i \in 1..Len(out) : out[i].req # 0 => out[i].req \in (1..nreq) \ live
          /\ \A i \in 1..Len(out) : out[i].req # 0 => out[i].to = client[out[i].req]
          /\ \A i, j \in 1..Len(out) : out[i].req = out[j].req /\ out[i].req # 0 => i = j
      BY <3>1 DEF AnswerInv, AnsweredGone, AnswersReachTheirClient
    <3>3. CASE out' = out
      BY <2>1, <3>2, <3>3
    <3>4. CASE out' = Append(out, e)
      <4>1. e.to = client[h] /\ e.req = r
        BY <2>1, <2>5, <3>1
      <4> HIDE DEF e
      <4>2. /\ Len(out) \in Nat /\ Len(out') = Len(out) + 1 /\ out'[Len(out) + 1] = e
            /\ \A i \in 1..Len(out) : out'[i] = out[i]
        <5>1. out \in Seq([to : FrontAddr \X Nat, req : Nat])
          BY DEF AnswerInv, Paired, TypeOK
        <5>2. e \in [to : FrontAddr \X Nat, req : Nat]
          BY <2>1, <2>3, <2>5, <3>1 DEF e
        <5> QED
          BY <3>4, <5>1, <5>2, AppendSeq
      <4>3. h \in 1..nreq
        BY <2>1 DEF AnswerInv, Paired, TypeOK
      <4>4. \A i \in 1..Len(out') : i \in 1..Len(out) \/ i = Len(out) + 1
        BY <4>2
      <4>5. \A i \in 1..Len(out') : out'[i].req # 0 => out'[i].req \in (1..nreq') \ live'
        BY <2>1, <3>1, <3>2, <4>1, <4>2, <4>3, <4>4
      <4>6. \A i \in 1..Len(out') : out'[i].req # 0 => out'[i].to = client'[out'[i].req]
        BY <2>1, <3>1, <3>2, <4>1, <4>2, <4>4
      <4>7. \A i \in 1..Len(out) : r # 0 => out[i].req # r
        BY <2>1, <3>1, <3>2
      <4>8. \A i, j \in 1..Len(out') : out'[i].req = out'[j].req /\ out'[i].req # 0 => i = j
        BY <3>2, <4>1, <4>2, <4>4, <4>7
      <4> QED
        BY <4>5, <4>6, <4>8
    <3> QED
      BY <2>4, <3>3, <3>4
  <2> QED
    BY <2>6, <2>7, <2>8 DEF AnsweredGone, AnswersReachTheirClient
<1> QED
  BY <1>1, <1>2 DEF Response, Handled, Unhandled

\* What a response leaves of the answers still to come.
LEMMA ResponseKeepsAwaited ==
    ASSUME AnswerInv, NEW b \in Backend, NEW r, Response(b, r),
           ~interim' => ~interim /\ pending'[b] = <<>>
                        /\ \A c \in Backend : c # b => pending'[c] = pending[c]
    PROVE  OneAwaited'
<1>1. handler \in [Backend -> 0..nreq]
  BY DEF AnswerInv, Paired, TypeOK
<1>2. handler' = handler \/ handler' = [handler EXCEPT ![b] = 0]
  BY DEF Response, Handled, Unhandled
<1> QED
  BY <1>1, <1>2 DEF AnswerInv, OneAwaited

\* A new request changes nothing for the answers given, and its transport owes none.
LEMMA DispatchKeepsAnswers ==
    ASSUME AnswerInv, NEW f \in FrontAddr, NEW b \in Backend, Dispatch(f, b)
    PROVE  ClientsThere' /\ OneAwaited' /\ AnsweredGone' /\ AnswersReachTheirClient'
<1> DEFINE r == nreq + 1
<1>1. /\ nreq \in Nat /\ nreq' = r /\ live \subseteq 1..nreq /\ live' = live \cup {r}
      /\ f \in There
      /\ UNCHANGED <<gen, front, out, dangling, deserted, interim>>
  BY DEF Dispatch, AnswerInv, Paired, TypeOK
<1>2. /\ Len(client) = nreq /\ client'[r] = ClientAt(f)
      /\ \A h \in 1..nreq : client'[h] = client[h]
  <2>1. client \in Seq(FrontAddr \X Nat) /\ Len(client) = nreq
    BY DEF AnswerInv, Paired, TypeOK
  <2>2. gen \in [FrontAddr -> Nat]
    BY DEF AnswerInv, Paired, TypeOK
  <2>3. ClientAt(f) \in FrontAddr \X Nat
    BY <2>2 DEF ClientAt
  <2>4. client' = Append(client, ClientAt(f))
    BY DEF Dispatch
  <2> QED
    BY <2>1, <2>3, <2>4, AppendSeq
<1>3. There' = There /\ \A g : ClientAt(g)' = ClientAt(g)
  BY <1>1 DEF There, ClientAt
<1>4. handler[b] = 0 /\ handler' = [handler EXCEPT ![b] = r]
  BY DispatchTakesIdle DEF AnswerInv
<1>5. r # 0 /\ r \notin 1..nreq /\ 1..nreq \subseteq 1..r /\ r \in 1..r
  BY <1>1
<1>6. \/ pending' = pending
      \/ pending' = [pending EXCEPT ![b] = Append(@, r)]
  BY <1>1, SendRequestEffect DEF Dispatch, AnswerInv, Paired
<1>7. pending \in [Backend -> Seq(Nat)] /\ handler \in [Backend -> 0..nreq]
  BY DEF AnswerInv, Paired, TypeOK
<1> HIDE DEF r
<1>8. ClientsThere'
  <2> SUFFICES ASSUME ~deserted', NEW h \in live'
               PROVE  ~dangling' /\ client'[h][1] \in There'
                      /\ (client[h] = ClientAt(client[h][1]))'
    BY <1>1 DEF AnswerInv, ClientsThere
  <2>1. ~deserted /\ ~dangling /\ dangling' = dangling
    BY <1>1 DEF AnswerInv, ClientsThere
  <2>2. CASE h = r
    <3>1. client'[h] = ClientAt(f) /\ client'[h][1] = f
      BY <1>2, <2>2 DEF ClientAt
    <3> QED
      BY <1>1, <1>3, <2>1, <3>1
  <2>3. CASE h \in live
    BY <1>1, <1>2, <1>3, <2>1, <2>3 DEF AnswerInv, ClientsThere
  <2> QED
    BY <1>1, <2>2, <2>3
<1>9. OneAwaited'
  <2> SUFFICES ASSUME ~interim', NEW c \in Backend, pending'[c] # <<>>
               PROVE  handler'[c] # 0 /\ pending'[c] = <<handler'[c]>>
    BY DEF OneAwaited
  <2>1. \A d \in Backend : pending[d] # <<>> => handler[d] # 0 /\ pending[d] = <<handler[d]>>
    BY <1>1 DEF AnswerInv, OneAwaited
  <2>2. pending[b] = <<>>
    BY <1>4, <2>1
  <2>3. CASE c # b
    BY <1>4, <1>6, <1>7, <2>1, <2>3
  <2>4. CASE c = b
    <3>1. pending'[b] = Append(<<>>, r)
      BY <1>6, <1>7, <2>2, <2>4
    <3>2. Append(<<>>, r) = <<r>>
      OBVIOUS
    <3> QED
      BY <1>4, <1>5, <1>7, <2>4, <3>1, <3>2
  <2> QED
    BY <2>3, <2>4
<1>10. AnsweredGone'
  BY <1>1, <1>5 DEF AnswerInv, AnsweredGone
<1>11. AnswersReachTheirClient'
  <2> SUFFICES ASSUME ~deserted', ~interim', NEW i \in 1..Len(out'), out'[i].req # 0
               PROVE  out'[i].to = client'[out'[i].req]
    BY <1>1 DEF AnswerInv, AnswersReachTheirClient
  <2>1. out[i].req \in 1..nreq /\ out[i].to = client[out[i].req]
    BY <1>1 DEF AnswerInv, AnsweredGone, AnswersReachTheirClient
  <2> QED
    BY <1>1, <1>2, <2>1
<1> QED
  BY <1>8, <1>9, <1>10, <1>11

LEMMA AnswerInductive == AnswerInv /\ [Next]_vars => AnswerInv'
<1> SUFFICES ASSUME AnswerInv, [Next]_vars PROVE AnswerInv'
  OBVIOUS
<1>0. Paired'
  BY PairedInductive DEF AnswerInv
<1> DEFINE Rest == ClientsThere /\ OneAwaited /\ AnsweredGone /\ AnswersReachTheirClient
<1>1. ASSUME NEW f \in FrontAddr, NEW b \in Backend, Dispatch(f, b) PROVE Rest'
  BY <1>1, DispatchKeepsAnswers
<1>2. ASSUME NEW f \in FrontAddr, DispatchFails(f) PROVE Rest'
  BY <1>2 DEF DispatchFails, fronts, AnswerInv, ClientsThere, OneAwaited, AnsweredGone,
              AnswersReachTheirClient, There, ClientAt
<1>3. ASSUME NEW f \in FrontAddr, FrontConnects(f) PROVE Rest'
  <2>1. OneAwaited' /\ AnsweredGone' /\ AnswersReachTheirClient'
    BY <1>3 DEF FrontConnects, AnswerInv, OneAwaited, AnsweredGone, AnswersReachTheirClient
  <2>2. ClientsThere'
    <3> SUFFICES ASSUME ~deserted', NEW h \in live'
                 PROVE  client'[h][1] \in There' /\ (client[h] = ClientAt(client[h][1]))'
      BY <1>3 DEF FrontConnects, AnswerInv, ClientsThere
    <3>1. /\ h \in live /\ client' = client
          /\ client[h][1] \in There /\ client[h] = ClientAt(client[h][1])
      BY <1>3 DEF FrontConnects, AnswerInv, ClientsThere
    <3>2. /\ front[f] = "none" /\ front' = [front EXCEPT ![f] = "open"]
          /\ gen' = [gen EXCEPT ![f] = @ + 1]
          /\ front \in [FrontAddr -> {"none", "open", "closed"}]
          /\ gen \in [FrontAddr -> Nat]
      BY <1>3 DEF FrontConnects, AnswerInv, Paired, TypeOK
    <3>3. client[h][1] # f /\ client[h][1] \in FrontAddr
      BY <3>1, <3>2 DEF There
    <3> QED
      BY <3>1, <3>2, <3>3 DEF There, ClientAt
  <2> QED
    BY <2>1, <2>2
<1>4. ASSUME NEW f \in FrontAddr, FrontCloses(f) PROVE Rest'
  <2>1. OneAwaited' /\ AnsweredGone' /\ AnswersReachTheirClient'
    BY <1>4 DEF FrontCloses, AnswerInv, OneAwaited, AnsweredGone, AnswersReachTheirClient
  <2>2. There' = There /\ \A g : ClientAt(g)' = ClientAt(g)
    BY <1>4 DEF FrontCloses, There, ClientAt, AnswerInv, Paired, TypeOK
  <2> QED
    BY <1>4, <2>1, <2>2 DEF FrontCloses, AnswerInv, ClientsThere
<1>5. ASSUME NEW f \in FrontAddr, FrontDestroyed(f) PROVE Rest'
  <2>1. /\ UNCHANGED <<nreq, client, gen, live, handler, pending, out, dangling, interim>>
        /\ deserted' = (deserted \/ Waiting(f) # {})
        /\ front' = [front EXCEPT ![f] = "none"]
        /\ front \in [FrontAddr -> {"none", "open", "closed"}]
    BY <1>5 DEF FrontDestroyed, AnswerInv, Paired, TypeOK
  <2>2. OneAwaited' /\ AnsweredGone' /\ AnswersReachTheirClient'
    BY <2>1 DEF AnswerInv, OneAwaited, AnsweredGone, AnswersReachTheirClient
  <2>3. ClientsThere'
    <3> SUFFICES ASSUME ~deserted', NEW h \in live'
                 PROVE  ~dangling' /\ client'[h][1] \in There'
                        /\ (client[h] = ClientAt(client[h][1]))'
      BY <2>1 DEF AnswerInv, ClientsThere
    <3>1. ~deserted /\ Waiting(f) = {} /\ h \in live
      BY <2>1
    <3>2. ~dangling /\ client[h][1] \in There /\ client[h] = ClientAt(client[h][1])
      BY <3>1 DEF AnswerInv, ClientsThere
    <3>3. client[h][1] # f
      BY <3>1, <3>2 DEF Waiting
    <3> QED
      BY <2>1, <3>1, <3>2, <3>3 DEF There, ClientAt
  <2> QED
    BY <2>2, <2>3
<1>6. ASSUME NEW b \in Backend, FinalResponse(b) PROVE Rest'
  <2>1. /\ pending \in [Backend -> Seq(Nat)] /\ pending[b] # <<>>
        /\ pending' = [pending EXCEPT ![b] = Tail(@)]
        /\ interim' = interim
        /\ Response(b, Head(pending[b]))
    BY <1>6 DEF FinalResponse, AnswerInv, Paired, TypeOK
  <2>2. Head(pending[b]) \in Nat
    BY <2>1, PopSeq
  <2>3. ASSUME ~interim
        PROVE  Head(pending[b]) = handler[b] /\ pending'[b] = <<>>
    <3>1. pending[b] = <<handler[b]>>
      BY <2>1, <2>3 DEF AnswerInv, OneAwaited
    <3>2. Head(<<handler[b]>>) = handler[b] /\ Tail(<<handler[b]>>) = <<>>
      OBVIOUS
    <3> QED
      BY <2>1, <3>1, <3>2
  <2>4. ClientsThere' /\ AnsweredGone' /\ AnswersReachTheirClient'
    BY <2>1, <2>2, <2>3, ResponseKeepsAnswers
  <2>5. OneAwaited'
    BY <2>1, <2>3, ResponseKeepsAwaited
  <2> QED
    BY <2>4, <2>5
<1>7. ASSUME NEW b \in Backend, BackendInterim(b) PROVE Rest'
  <2>1. /\ pending \in [Backend -> Seq(Nat)] /\ pending[b] # <<>> /\ interim' = TRUE
        /\ Response(b, Head(pending[b]))
    BY <1>7, ResponseEffect DEF BackendInterim, AnswerInv, Paired, TypeOK
  <2>2. Head(pending[b]) \in Nat
    BY <2>1, PopSeq
  <2>3. ClientsThere' /\ AnsweredGone' /\ AnswersReachTheirClient'
    BY <2>1, <2>2, ResponseKeepsAnswers
  <2> QED
    BY <2>1, <2>3 DEF OneAwaited
<1>8. ASSUME NEW b \in Backend, BackendSpeaksUnasked(b) PROVE Rest'
  <2>1. pending[b] = <<>> /\ UNCHANGED <<pending, interim>> /\ Response(b, 0)
    BY <1>8, ResponseEffect DEF BackendSpeaksUnasked, AnswerInv
  <2>2. ClientsThere' /\ AnsweredGone' /\ AnswersReachTheirClient'
    BY <2>1, ResponseKeepsAnswers
  <2>3. OneAwaited'
    BY <2>1, ResponseKeepsAwaited
  <2> QED
    BY <2>2, <2>3
<1>9. ASSUME NEW b \in Backend, BackendCloses(b) PROVE Rest'
  <2>1. OneAwaited'
    BY <1>9 DEF BackendCloses, AnswerInv, Paired, TypeOK, OneAwaited
  <2> QED
    BY <1>9, <2>1 DEF BackendCloses, fronts, AnswerInv, ClientsThere, AnsweredGone,
                      AnswersReachTheirClient, There, ClientAt
<1>10. ASSUME UNCHANGED vars PROVE Rest'
  BY <1>10 DEF vars, AnswerInv, ClientsThere, OneAwaited, AnsweredGone,
               AnswersReachTheirClient, There, ClientAt
<1>11. PartialResponse => Rest'
  BY DEF PartialResponse, fronts, AnswerInv, ClientsThere, OneAwaited, AnsweredGone,
         AnswersReachTheirClient, There, ClientAt
<1> HIDE DEF Rest
<1>12. ASSUME NEW b \in Backend, NEW close \in BOOLEAN, BackendAnswers(b, close) PROVE Rest'
  BY <1>6, <1>12, AnswerEffect DEF AnswerInv
<1>13. ASSUME NEW b \in Backend, NEW n \in 1..BodyLen, NEW close \in BOOLEAN,
              BackendSendsBody(b, n, close)
       PROVE  Rest'
  BY <1>6, <1>11, <1>13, BodyEffect DEF AnswerInv
<1>14. ASSUME NEW b \in Backend, BackendAnswersTwice(b) PROVE Rest'
  BY <1>6, <1>14, AnswersTwiceEffect DEF AnswerInv
<1>15. ASSUME NEW b \in Backend, NEW n \in 0..BodyLen, BackendSendsHeaders(b, n) PROVE Rest'
  BY <1>11, <1>15, PartEffect DEF AnswerInv
<1>16. ASSUME NEW b \in Backend, BackendRunsOn(b) \/ BackendGarbles(b) PROVE Rest'
  BY <1>11, <1>16, PartEffect DEF AnswerInv
<1>17. Rest'
  BY <1>1, <1>2, <1>3, <1>4, <1>5, <1>7, <1>8, <1>9, <1>10, <1>12, <1>13, <1>14, <1>15, <1>16
     DEF Next
<1> QED
  BY <1>0, <1>17 DEF AnswerInv, Rest

\* The answers reach the clients that asked, each once (ProxyHandler.cpp:25-29),
\* for any number of clients and of reuses of an address, as long as no client's
\* transport is destroyed before its last answer and no backend sends an interim
\* response; no answer goes to a destroyed transport under the first condition alone.
THEOREM AnswersDelivered == Spec => []AnswersReachTheirClient
<1>1. Init => AnswerInv
  <2>1. Init => Paired
    BY PairedInitially
  <2> QED
    BY <2>1 DEF Init, AnswerInv, ClientsThere, OneAwaited, AnsweredGone, AnswersReachTheirClient
<1>2. AnswerInv => AnswersReachTheirClient
  BY DEF AnswerInv
<1> QED
  BY <1>1, <1>2, AnswerInductive, PTL DEF Spec
=============================================================================
