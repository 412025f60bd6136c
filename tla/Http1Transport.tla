---------------------------- MODULE Http1Transport ----------------------------
(***************************************************************************)
(* The HTTP/1 server transport of one connection: http1::Transport, the    *)
(* incremental parser (http1/Transport.cpp), and http1::ServerTransport,   *)
(* which answers, upgrades to HTTP/2 or replies to Expect                  *)
(* (http1/ServerTransport.cpp), fed by Connection::onPollIn with input cut *)
(* at arbitrary places.  The request handler is one that answers at once   *)
(* (StaticResponder).                                                      *)
(*                                                                         *)
(* Input is a sequence of lexemes [c, id, at]: c is the content of a line, *)
(* a line end "nl" or one byte "b" of a body; id numbers the request and   *)
(* at the lexemes in it.                                                   *)
(*   req, bad        a well-formed and a malformed request line            *)
(*   unrouted        a well-formed one for a path that no route matches    *)
(*   hdr             a header of no consequence                            *)
(*   len, te         content-length: BodyLen; transfer-encoding            *)
(*   badlen          a content-length that is no number or is too large    *)
(*   close, upg      connection: close; upgrade: h2c                       *)
(*   upother         upgrade: a protocol that is not registered            *)
(*   badset          http2-settings that cannot be decoded                 *)
(*   exp             expect: 100-continue                                  *)
(*   fold, nocolon   a continuation line; a header line without a colon    *)
(***************************************************************************)
EXTENDS Integers, Sequences, SequencesExt, FiniteSets

CONSTANTS
    Messages,   \* contents of the requests the client may send
    MaxMsgs,    \* bound: number of requests
    BodyLen     \* value of content-length

FirstLines == {"req", "unrouted", "bad"}
Fields == {"hdr", "len", "badlen", "te", "close", "upg", "upother", "badset", "exp"}
Content == FirstLines \cup Fields \cup {"fold", "nocolon", "nl", "b"}

\* Fields of the same name, whose values differ.
SameName(g, h) == \E N \in {{"len", "badlen"}, {"upg", "upother"}} : {g, h} \subseteq N

\* getContentLength does not throw: std::stoul gets a number that fits ssize_t.
LengthReadable(hdrs) == "badlen" \notin hdrs

\* getContentLength: -1 for a transfer-encoding, 0 without any indication.
ContentLength(hdrs) ==
    IF "len" \in hdrs THEN BodyLen ELSE IF "te" \in hdrs THEN -1 ELSE 0

\* The headers of request m end with the empty line at e: before it are a first
\* line, which may be empty, and header lines, behind it the body they announce.
\* No two lines give different values for one name: which of them find() takes is
\* MessageText's matter.
HeadEnds(m, e) ==
    /\ m[e - 1] = "nl" /\ m[e] = "nl"
    /\ m[1] \in FirstLines \cup {"nl"}
    /\ \A i \in 2..(e - 1) : IF m[i - 1] = "nl" THEN m[i] \in Fields \cup {"fold", "nocolon"}
                             ELSE m[i] = "nl"
    /\ \A i, j \in 2..(e - 1) : SameName(m[i], m[j]) => m[i] = m[j]
    /\ \A i \in (e + 1)..Len(m) : m[i] = "b"
    /\ LET len == ContentLength({m[i] : i \in 2..e})
       IN  IF len = -1 THEN Len(m) > e ELSE Len(m) = e + len

ASSUME MessagesAssumption ==
    /\ MaxMsgs \in Nat /\ BodyLen \in Nat \ {0}
    /\ \A m \in Messages : m \in Seq(Content) /\ \E e \in 2..Len(m) : HeadEnds(m, e)

VARIABLES
    net,        \* lexemes sent by the client and not yet read
    sent,       \* the requests sent, as members of Messages
    pc,         \* idle, or parse: onInput's loop is running
    buf,        \* incoming_
    msg,        \* incoming_message_, or NoMsg
    complete,   \* message_headers_complete_
    expected,   \* expected_body_length_
    last,       \* last_header_, or "" for none
    transport,  \* the connection's transport: http1 or http2
    isOpen,
    alive,      \* no exception has left the event loop
    dangling,   \* a destroyed http1 transport was used
    handled,    \* requests dispatched: <<id, body>>
    out         \* what was sent on the connection: <<status, id>>

vars == <<net, sent, pc, buf, msg, complete, expected, last, transport, isOpen,
          alive, dangling, handled, out>>
parser == <<msg, complete, expected, last>>

NoMsg == [first |-> <<>>, hdrs |-> {}, body |-> <<>>, there |-> FALSE]

Init ==
    /\ net = <<>> /\ sent = <<>> /\ pc = "idle" /\ buf = <<>>
    /\ msg = NoMsg /\ complete = FALSE /\ expected = 0 /\ last = ""
    /\ transport = "http1" /\ isOpen = TRUE /\ alive = TRUE /\ dangling = FALSE
    /\ handled = <<>> /\ out = <<>>

-----------------------------------------------------------------------------
\* The client, and Connection::onPollIn.

Lexemes(m, id) == [i \in 1..Len(m) |-> [c |-> m[i], id |-> id, at |-> i]]

\* The client may send at any time, also behind a request not yet answered.
ClientSends(m) ==
    /\ Len(sent) < MaxMsgs
    /\ sent' = Append(sent, m)
    /\ net' = net \o Lexemes(m, Len(sent) + 1)
    /\ UNCHANGED <<pc, buf, parser, transport, isOpen, alive, dangling, handled, out>>

\* Any part of what has arrived is read and given to the transport.
OnPollIn(n) ==
    /\ pc = "idle" /\ isOpen /\ alive /\ transport = "http1"
    /\ buf' = buf \o SubSeq(net, 1, n)
    /\ net' = SubSeq(net, n + 1, Len(net))
    /\ pc' = "parse"
    /\ UNCHANGED <<sent, parser, transport, isOpen, alive, dangling, handled, out>>

-----------------------------------------------------------------------------
\* Reading lines and headers.

NewLines(b) == {i \in 1..Len(b) : b[i].c = "nl"}
First(S) == CHOOSE i \in S : \A j \in S : i <= j

\* Mutant: the search for the end of the line stops at the last one.
RestAfterLastLine(b) ==
    SubSeq(b, 1 + CHOOSE i \in NewLines(b) : \A j \in NewLines(b) : j <= i, Len(b))

\* getLine: the first line and what is left of the buffer.
Line(b) == SubSeq(b, 1, First(NewLines(b)) - 1)
RestAfterLine(b) == SubSeq(b, First(NewLines(b)) + 1, Len(b))

\* headerContinuation appends to the value of the last header: a number and
\* the presence of a transfer-encoding survive, a keyword does not.
Folded(hdrs, h) ==
    IF h = "close" THEN hdrs \ {h}
    ELSE IF h = "upg" THEN (hdrs \ {h}) \cup {"upother"}
    ELSE IF h = "exp" THEN (hdrs \ {h}) \cup {"expother"}
    ELSE hdrs

Die == alive' = FALSE /\ pc' = "idle"

\* The messages sent count only while the connection is open.
Send(s) == out' = IF isOpen THEN out \o s ELSE out

\* Mutant: a message is complete as soon as its body is long enough.
IsCompleteLong(body, len) == Len(body) >= len /\ len >= 0

\* isMessageComplete
IsComplete(body, len) == Len(body) = len

\* resetIncomingMessage
ResetIncomingMessage ==
    msg' = NoMsg /\ complete' = FALSE /\ expected' = 0 /\ last' = ""

\* parseRequestLine does not throw.
WellFormed(line) == \E i \in 1..Len(line) : line[i].c \in {"req", "unrouted"}

\* Mutant: the default handler is called after the route's.
RoutesDispatchTwice(line) == <<<<200, line.id>>, <<200, line.id>>>>

\* Routes::dispatch: the handler of the first route that matches answers; when
\* none does, nobody does.
RoutesDispatch(line) == IF line.c = "req" THEN <<<<200, line.id>>>> ELSE <<>>

\* confirmUpgrade: 101 Switching Protocols.
ConfirmUpgrade(id) == <<<<101, id>>>>

\* upgrade: the HTTP/2 transport takes the place of this one, which is destroyed.
\* The request becomes stream 1, whose onRequest answers 200 by itself: the
\* server's handler does not see it.
Upgrade ==
    /\ transport' = "http2"
    /\ UNCHANGED <<parser, isOpen, alive, handled>>

\* UpgradeRegistry::get, for the protocol the request asks for.
Registered(hdrs) == "upg" \in hdrs

\* decodeBase64Settings does not throw; without the header there is nothing to
\* decode.
SettingsDecoded(hdrs) == "badset" \notin hdrs

\* Mutant: onInput goes on after an upgrade whether there is more input or not.
TryUpgradeGoesOn(m, rest, s) ==
    /\ Registered(m.hdrs)
    /\ Send(s \o ConfirmUpgrade(m.first[1].id))
    /\ Upgrade
    /\ dangling' = TRUE
    /\ pc' = "idle"

\* tryUpgrade finds an upgrader.  The upgrade is confirmed before the new
\* transport is made, which may throw.  The value processInput returns after
\* success is true, so that onInput goes on if there is more input (rest): in a
\* destroyed object.  What the freed memory then makes of the input is undefined,
\* and the model follows the connection no further.
TryUpgrade(m, rest, s) ==
    /\ Registered(m.hdrs)
    /\ Send(s \o ConfirmUpgrade(m.first[1].id))
    /\ \/ /\ SettingsDecoded(m.hdrs)
          /\ Upgrade
          /\ dangling' = (rest # <<>>)
          /\ pc' = "idle"
       \/ /\ ~SettingsDecoded(m.hdrs)
          /\ Die
          /\ UNCHANGED <<parser, transport, isOpen, dangling, handled>>

\* handleMessage of m, rest what follows in the buffer, s sent before by Expect:
\* parse the request line (or throw), upgrade or dispatch, then close if asked.
HandleMessage(m, rest, s) ==
    \/ /\ ~WellFormed(m.first)
       /\ Die /\ Send(s)
       /\ UNCHANGED <<parser, transport, isOpen, dangling, handled>>
    \/ /\ WellFormed(m.first)
       /\ TryUpgrade(m, rest, s)
    \/ /\ WellFormed(m.first)
       /\ ~Registered(m.hdrs)
       /\ Send(s \o RoutesDispatch(m.first[1]))
       /\ handled' = Append(handled, [id |-> m.first[1].id, body |-> m.body])
       /\ ResetIncomingMessage
       /\ isOpen' = (isOpen /\ "close" \notin m.hdrs)
       /\ pc' = IF rest # <<>> THEN "parse" ELSE "idle"
       /\ UNCHANGED <<transport, alive, dangling>>

-----------------------------------------------------------------------------
\* One call of processInput, and the loop condition of onInput after it.

Continue(rest) == pc' = IF rest # <<>> THEN "parse" ELSE "idle"

\* readBody: with a transfer-encoding it throws; else readContent takes the
\* larger of the buffer and the length expected, and advance() throws when
\* that is more than the buffer holds.
ReadBody ==
    /\ pc = "parse" /\ buf # <<>>
    /\ msg.there /\ complete /\ ~IsComplete(msg.body, expected)
    /\ \/ /\ expected = -1 \/ Len(buf) < expected
          /\ Die
          /\ UNCHANGED <<buf, parser, transport, isOpen, dangling, handled, out>>
       \/ /\ expected # -1 /\ Len(buf) >= expected
          /\ buf' = <<>>
          /\ LET m == [msg EXCEPT !.body = @ \o buf] IN
             \/ IsComplete(m.body, expected) /\ HandleMessage(m, <<>>, <<>>)
             \/ /\ ~IsComplete(m.body, expected)
                /\ msg' = m /\ pc' = "idle"
                /\ UNCHANGED <<complete, expected, last, transport, isOpen, alive,
                               dangling, handled, out>>
    /\ UNCHANGED <<net, sent>>

InHeaders == ~(msg.there /\ complete /\ ~IsComplete(msg.body, expected))

\* No whole line in the buffer: wait for more.
IncompleteLine ==
    /\ pc = "parse" /\ InHeaders /\ NewLines(buf) = {}
    /\ pc' = "idle"
    /\ UNCHANGED <<net, sent, buf, parser, transport, isOpen, alive, dangling,
                   handled, out>>

FirstLine ==
    /\ pc = "parse" /\ InHeaders /\ NewLines(buf) # {} /\ ~msg.there
    /\ buf' = RestAfterLine(buf)
    /\ msg' = [NoMsg EXCEPT !.first = Line(buf), !.there = TRUE]
    /\ complete' = FALSE
    /\ Continue(buf')
    /\ UNCHANGED <<net, sent, expected, last, transport, isOpen, alive, dangling,
                   handled, out>>

\* What handleExpect sends.
HandleExpect(hdrs, id) == <<<<IF "exp" \in hdrs THEN 100 ELSE 417, id>>>>

\* onEndOfMessageHeaders: a request with an Expect header is answered at once,
\* and goes on as if it had not been.
OnEndOfMessageHeaders(hdrs, id) ==
    IF {"exp", "expother"} \cap hdrs # {} THEN HandleExpect(hdrs, id) ELSE <<>>

\* Mutant: a message with headers only is left for the next input.
EndOfHeadersLazy ==
    /\ pc = "parse" /\ InHeaders /\ NewLines(buf) # {} /\ msg.there
    /\ Line(buf) = <<>>
    /\ buf' = RestAfterLine(buf)
    /\ msg' = msg /\ complete' = TRUE /\ expected' = ContentLength(msg.hdrs)
    /\ Send(OnEndOfMessageHeaders(msg.hdrs, buf[1].id)) /\ pc' = "idle"
    /\ UNCHANGED <<net, sent, last, transport, isOpen, alive, dangling, handled>>

\* The empty line: markHeadersComplete, which throws if the content-length cannot
\* be read, and the message is handled now if it has no body.  Otherwise
\* processInput returns false, whatever is in the buffer.
EndOfHeaders ==
    /\ pc = "parse" /\ InHeaders /\ NewLines(buf) # {} /\ msg.there
    /\ Line(buf) = <<>>
    /\ buf' = RestAfterLine(buf)
    /\ LET len == ContentLength(msg.hdrs)
           reply == OnEndOfMessageHeaders(msg.hdrs, buf[1].id)
       IN  \/ /\ ~LengthReadable(msg.hdrs)
              /\ complete' = TRUE /\ Die
              /\ UNCHANGED <<msg, expected, last, transport, isOpen, dangling,
                             handled, out>>
           \/ /\ LengthReadable(msg.hdrs) /\ IsComplete(msg.body, len)
              /\ HandleMessage(msg, buf', reply)
           \/ /\ LengthReadable(msg.hdrs) /\ ~IsComplete(msg.body, len)
              /\ complete' = TRUE /\ expected' = len
              /\ Send(reply) /\ pc' = "idle"
              /\ UNCHANGED <<msg, last, transport, isOpen, alive, dangling, handled>>
    /\ UNCHANGED <<net, sent>>

\* headerLine and headerContinuation, which throw on a line without a colon and
\* on a continuation of nothing.
HeaderLine ==
    /\ pc = "parse" /\ InHeaders /\ NewLines(buf) # {} /\ msg.there
    /\ Line(buf) # <<>>
    /\ buf' = RestAfterLine(buf)
    /\ LET h == Line(buf)[1].c IN
       \/ /\ h \in FirstLines \cup {"nocolon", "b"} \/ (h = "fold" /\ last = "")
          /\ Die
          /\ UNCHANGED <<parser>>
       \/ /\ h = "fold" /\ last # ""
          /\ msg' = [msg EXCEPT !.hdrs = Folded(@, last)]
          /\ Continue(buf')
          /\ UNCHANGED <<complete, expected, last, alive>>
       \/ /\ h \in Fields
          /\ msg' = [msg EXCEPT !.hdrs = @ \cup {h}]
          /\ last' = h
          /\ Continue(buf')
          /\ UNCHANGED <<complete, expected, alive>>
    /\ UNCHANGED <<net, sent, transport, isOpen, dangling, handled, out>>

ProcessInput == ReadBody \/ IncompleteLine \/ FirstLine \/ EndOfHeaders \/ HeaderLine

Next ==
    \/ \E m \in Messages : ClientSends(m)
    \/ \E n \in 1..Len(net) : OnPollIn(n)
    \/ ProcessInput

Spec == Init /\ [][Next]_vars

-----------------------------------------------------------------------------
Lexeme == [c : Content, id : Nat, at : Nat]

TypeOK ==
    /\ net \in Seq(Lexeme) /\ buf \in Seq(Lexeme) /\ sent \in Seq(Messages)
    /\ pc \in {"idle", "parse"} /\ (pc = "parse" => buf # <<>>)
    /\ msg \in [first : Seq(Lexeme), hdrs : SUBSET (Fields \cup {"expother"}),
                body : Seq(Lexeme), there : BOOLEAN]
    /\ expected \in {-1, 0, BodyLen} /\ last \in Fields \cup {""}
    /\ transport \in {"http1", "http2"}
    /\ complete \in BOOLEAN /\ isOpen \in BOOLEAN /\ alive \in BOOLEAN /\ dangling \in BOOLEAN
    /\ handled \in Seq([id : Nat, body : Seq(Lexeme)])
    /\ out \in Seq({100, 101, 200, 417} \X Nat)

\* Requests are dispatched in the order they were sent, none skipped and none
\* twice, wherever the input was cut and whatever was pipelined.
DispatchedInOrder == \A i \in 1..Len(handled) : handled[i].id = i

\* A request is dispatched with its own body, all of it and nothing else: not with
\* bytes of the request behind it in the buffer (Transport.cpp:101-111).
OwnBody ==
    \A i \in 1..Len(handled) :
        LET body == handled[i].body
            head == Len(sent[i]) - Len(body)
        IN  /\ Len(body) = Cardinality({k \in 1..Len(sent[i]) : sent[i][k] = "b"})
            /\ \A k \in 1..Len(body) : body[k] = Lexemes(sent[i], i)[head + k]

\* A request that has a route, and one that the handler has answered.
Routed(i) == sent[i][1] = "req"
Answered(i) == \E k \in 1..Len(out) : out[k] = <<200, i>>

\* The handler's answers follow the requests: one for each request dispatched that
\* has a route, up to the one that closed the connection, in the order of the
\* requests; no reply to a later request overtakes them and nothing follows the
\* handler's answer to a request.  (A request whose expectation is refused gets both
\* a 417 and the handler's answer: ServerTransport.cpp:138 does not stop the
\* message.  One that has no route gets no answer: Routes.cpp:26.)
OneFinalResponse ==
    /\ \A k \in 1..Len(out) :
          out[k][1] = 200 => out[k][2] \in 1..Len(handled) /\ Routed(out[k][2])
    /\ \A j, k \in 1..Len(out) : j < k =>
          out[j][2] <= out[k][2] /\ (out[j][1] = 200 => out[j][2] < out[k][2])
    /\ \A i, j \in 1..Len(handled) :
          Routed(i) /\ (isOpen \/ (i < j /\ Answered(j))) => Answered(i)

\* Only a body can be left behind: once all input is read and the parser is at
\* rest on an open connection, every request sent has been dispatched up to the
\* first that has a body (Transport.cpp:76 does not go on to read it).  Which of
\* those dispatched are answered is OneFinalResponse's matter.
NoneForgotten ==
    pc = "idle" /\ net = <<>> /\ isOpen /\ alive /\ transport = "http1"
        /\ Len(handled) < Len(sent)
        => \E k \in DOMAIN sent[Len(handled) + 1] : sent[Len(handled) + 1][k] = "b"

\* The transport an upgrade has destroyed is used again only for input that the
\* client sent behind the upgrade request without waiting for 101: however the
\* request was cut, a client that waits never brings it about.
ReusedOnlyIfPipelined == dangling => Len(handled) + 1 < Len(sent)

\* Transport.cpp:139: "`this` has been replaced by an upgraded transport.
\* Return all stack frames immediately": the old transport is not used again.
OldTransportUnused == ~dangling

\* ServerTransport.cpp:66: upgrade() "replaces `this` as this connection's
\* Transport, then invokes the request handler with the pre-upgrade request".
UpgradeReachesHandler ==
    [][transport' # transport => Len(handled') = Len(handled) + 1]_vars

\* Transport.cpp:33: the return code "is whether there might be more data in
\* the input buffer that this function should be invoked again to process": at
\* rest the buffer does not hold the whole body the parser is waiting for.
BodyNotLeftBehind ==
    pc = "idle" /\ alive /\ isOpen /\ msg.there /\ complete /\ expected > 0
        => Len(buf) < expected - Len(msg.body)
=============================================================================
