----------------------------- MODULE MessageWire -----------------------------
(***************************************************************************)
(* An HTTP/1 message on the wire: what a handler gives this program to     *)
(* send, or what a peer sends, is written (MessageText), arrives in        *)
(* pieces, is read line by line, then its body, and may be sent on by the  *)
(* proxy.                                                                  *)
(***************************************************************************)
EXTENDS MessageText

CONSTANTS
    Firsts,      \* requests and responses without their headers
    TextNames,   \* names of headers
    TextValues,  \* values of headers
    Folds,       \* continuation lines
    Bodies,      \* bodies of messages
    MaxFields,   \* bound: headers a message is given
    MaxPieces    \* bound: pieces the headers of a message arrive in

ASSUME ItemAssumption ==
    /\ MaxFields \in Nat /\ MaxPieces \in Nat \ {0}
    /\ LET word == Seq(Char \ {"SP", "LF"}) IN
       Firsts \subseteq [kind : {"request"}, method : word, path : word]
                          \cup [kind : {"response"}, code : 100..999]
    /\ \E f \in Firsts : f.kind = "request"
    /\ TextNames \subseteq Seq(Char \ (White \cup {":", "LF"})) \ {<<>>}
    /\ TextValues \subseteq Seq(Char \ {"LF"})
    /\ Folds \subseteq Seq(Char \ {"LF"}) /\ \A f \in Folds \ {<<>>} : f[1] \in White
    /\ Bodies \subseteq Seq(Char)

VARIABLES
    message,  \* what is sent
    text,     \* its text, or <<>>
    arrival,  \* how far the text has arrived and has been read, or <<>>
    read      \* what is made of it at the other end, or <<>>

messageVars == <<message, text, arrival, read>>

\* One first line for messages of many headers.
HasFirstLine(f) == f.kind = "response" => HasStatusString(f.code)
SomeFirst == CHOOSE f \in Firsts : f.kind = "request"

\* What a handler gives this program to send: a sequence of calls on Headers.
Calls == [op : {"add", "set", "string"}, name : TextNames, value : TextValues]
           \cup [op : {"remove"}, name : TextNames, value : {<<>>}]
Messages ==
    [first : {f \in Firsts : HasFirstLine(f)}, ops : SeqOf(Calls, 1), body : Bodies] \cup
    [first : {SomeFirst}, ops : SeqOf({c \in Calls : c.op # "string"}, MaxFields), body : {<<>>}]

\* What a peer sends: lines with or without a space behind the colon (a value
\* right behind the colon does not begin with one), and at the end perhaps a
\* continuation.
Lines ==
    [name : TextNames, sep : {<<":", "SP">>}, value : TextValues] \cup
    [name : TextNames, sep : {<<":">>}, value : {v \in TextValues : v = <<>> \/ v[1] # "SP"}]
Texts ==
    [first : Firsts, fields : SeqOf(Lines, 1), fold : {<<>>}, body : Bodies] \cup
    [first : {SomeFirst}, fields : SeqOf(Lines, MaxFields) \ {<<>>}, fold : Folds,
     body : {<<>>}]

MessageInit ==
    /\ message \in [kind : {"message"}, of : Messages] \cup [kind : {"text"}, of : Texts]
    /\ text = <<>> /\ arrival = <<>> /\ read = <<>>

-----------------------------------------------------------------------------
\* The text of a message.

Apply(kv, call) ==
    CASE call.op = "add" -> HeadersAdd(kv, call.name, call.value)
      [] call.op = "set" -> HeadersSet(kv, call.name, call.value)
      [] call.op = "remove" -> HeadersRemove(kv, call.name)
      [] call.op = "string" ->
           LET f == FromString(call.name, call.value) IN HeadersAdd(kv, f.name, f.value)

\* The headers after all calls.
Applied(ops) ==
    LET kv[i \in 0..Len(ops)] == IF i = 0 THEN <<>> ELSE Apply(kv[i - 1], ops[i])
    IN  kv[Len(ops)]

FirstLineOf(f) == IF f.kind = "request" THEN RequestLine(f) ELSE StatusLine(f.code)

\* confirmUpgrade is the one user of sendHeaders.
IsUpgrade(first) == first.kind = "response" /\ first.code = 101
OutgoingOrders(first, kv, body) ==
    Orders(IF IsUpgrade(first) THEN HeadersToSend(kv) ELSE OutgoingHeaders(kv, body))
Outgoing(first, kv, body, p) ==
    IF IsUpgrade(first) THEN SendHeaders(FirstLineOf(first), kv, p)
    ELSE SendMessage(FirstLineOf(first), kv, body, p)

PeerText(t) ==
    FirstLineOf(t.first) \o CRLF
      \o FlattenSeq([i \in DOMAIN t.fields |->
                        t.fields[i].name \o t.fields[i].sep \o t.fields[i].value \o CRLF])
      \o (IF t.fold = <<>> THEN <<>> ELSE t.fold \o CRLF) \o CRLF \o t.body

NothingRead == [state |-> "first", line |-> <<>>, headers |-> <<>>, last |-> <<>>,
                length |-> 0, first |-> MalformedLine, body |-> <<>>]

\* Of a text that has just been written: the headers and the body it was made of
\* where the proxy has sent it on, the order of its fields, and how much of it has
\* arrived, in how many pieces, and has been read.
NothingArrived(before, order) ==
    [before |-> before, order |-> order, arrived |-> 0, pieces |-> 0, at |-> 0]

Unread == SubSeq(text, arrival.at + 1, arrival.arrived)

\* onPollIn: some more of the text, once nothing can be made of what is there.
Arrive(n) ==
    /\ arrival # <<>> /\ read.state \in {"first", "headers"}
    /\ LineLength(Unread) = 0
    /\ n \in 1..(Len(text) - arrival.arrived)
    /\ n = Len(text) - arrival.arrived \/ arrival.pieces + 1 < MaxPieces
    /\ arrival' = [arrival EXCEPT !.arrived = @ + n, !.pieces = @ + 1]
    /\ UNCHANGED <<message, text, read>>

\* handleMessage: parseRequestLine or parseStatusLine.
Handled(m) ==
    LET first == IF message.of.first.kind = "request" THEN ParseRequestLine(m.line)
                 ELSE ParseStatusLine(m.line)
    IN  [m EXCEPT !.state = IF first = MalformedLine THEN "threw" ELSE "done", !.first = first]

\* markHeadersComplete: without a body the message is complete.
EndOfHeaders(m) ==
    {IF n = Throws THEN [m EXCEPT !.state = "threw"]
     ELSE IF n = 0 THEN Handled(m)
     ELSE [m EXCEPT !.state = "body", !.length = n] : n \in GetContentLength(m.headers)}

\* headerContinuation: the line goes to a field of the name read last.
Continued(m, line) ==
    IF m.last = <<>> THEN {[m EXCEPT !.state = "threw"]}
    ELSE {[m EXCEPT !.headers[i].value = @ \o line] : i \in Find(m.headers, m.last)}

\* headerLine
WithHeader(m, line) ==
    IF ~Contains(line, ":") THEN [m EXCEPT !.state = "threw"]
    ELSE LET h == HeaderLine(line)
         IN  [m EXCEPT !.last = h.name, !.headers = HeadersAdd(@, h.name, h.value)]

\* processInput, with a line
ReadLine ==
    /\ arrival # <<>> /\ read.state \in {"first", "headers"}
    /\ LineLength(Unread) # 0
    /\ LET line == GetLine(Unread) IN
       read' \in CASE read.state = "first" -> {[read EXCEPT !.state = "headers", !.line = line]}
                   [] read.state = "headers" /\ line = <<>> -> EndOfHeaders(read)
                   [] read.state = "headers" /\ line # <<>> /\ line[1] \in White ->
                        Continued(read, line)
                   [] OTHER -> {WithHeader(read, line)}
    /\ arrival' = [arrival EXCEPT !.at = @ + LineLength(Unread)]
    /\ UNCHANGED <<message, text>>

\* readBody, once more of the text has arrived (what came with the headers waits
\* till then): readChunked throws; readContent takes all there is, throws for less
\* than the length, and with more the message is never complete.
ReadBody(n) ==
    /\ arrival # <<>> /\ read.state = "body"
    /\ n \in 1..(Len(text) - arrival.arrived)
    /\ LET content == SubSeq(text, arrival.at + 1, arrival.arrived + n)
           with == [read EXCEPT !.body = content]
       IN  \/ read.length = -1 /\ read' = [read EXCEPT !.state = "threw"]
           \/ read.length > Len(content) /\ read' = [read EXCEPT !.state = "threw"]
           \/ read.length \in 0..(Len(content) - 1) /\ read' = [with EXCEPT !.state = "overfull"]
           \/ read.length = Len(content) /\ read' = Handled(with)
    /\ arrival' = [arrival EXCEPT !.arrived = @ + n, !.at = arrival.arrived + n]
    /\ UNCHANGED <<message, text>>

\* The proxy sends on what it has read: a request to a backend (sendRequest), a
\* response to the client (sendResponse, whose statusLine may throw).
Relay ==
    /\ message.kind = "text" /\ arrival # <<>> /\ arrival.before = <<>> /\ read.state = "done"
    /\ \/ /\ ~HasFirstLine(read.first)
          /\ read' = [read EXCEPT !.state = "threw"]
          /\ UNCHANGED <<text, arrival>>
       \/ /\ HasFirstLine(read.first)
          /\ \E p \in Orders(OutgoingHeaders(read.headers, read.body)) :
                /\ text' = SendMessage(FirstLineOf(read.first), read.headers, read.body, p)
                /\ arrival' = NothingArrived(<<read.headers, read.body>>, p)
          /\ read' = NothingRead
    /\ UNCHANGED message

WriteMessage ==
    /\ arrival = <<>>
    /\ LET of == message.of IN
       \/ /\ message.kind = "text"
          /\ text' = PeerText(of)
          /\ arrival' = NothingArrived(<<>>, [i \in DOMAIN of.fields |-> i])
       \/ /\ message.kind = "message"
          /\ LET kv == Applied(of.ops) IN
             \E p \in OutgoingOrders(of.first, kv, of.body) :
                /\ text' = Outgoing(of.first, kv, of.body, p)
                /\ arrival' = NothingArrived(<<>>, p)
    /\ read' = NothingRead
    /\ UNCHANGED message

MessageNext ==
    \/ WriteMessage \/ ReadLine \/ Relay
    \/ \E n \in 1..Len(text) : Arrive(n) \/ ReadBody(n)

MessageSpec == MessageInit /\ [][MessageNext]_messageVars

-----------------------------------------------------------------------------
\* The fields that should be on the wire: of a handler's calls those that no
\* later set or remove of the name has undone, of a message sent on those that
\* were read; and what this program adds to either.
Kept(ops) ==
    LET gone(i) == \E j \in DOMAIN ops :
                       /\ j > i /\ ops[j].op \in {"set", "remove"}
                       /\ AsciiLower(ops[j].name) = AsciiLower(ops[i].name)
    IN  Selected(ops, {i \in DOMAIN ops : ops[i].op # "remove" /\ ~gone(i)})
Added(kv, body) ==
    LET own == <<Field(<<"date">>, <<"now">>), Field(<<"server">>, <<"Shitty">>)>> \o body
    IN  Selected(own, {j \in DOMAIN own :
                           \A i \in DOMAIN kv : AsciiLower(kv[i].name) # own[j].name})
OwnLength(body) == <<Field(<<"content-length">>, Decimal[Len(body)])>>
BodySent ==
    IF arrival.before # <<>> THEN arrival.before[2]
    ELSE IF message.kind = "message" /\ IsUpgrade(message.of.first) THEN <<>>
    ELSE message.of.body
FieldsSent ==
    IF arrival.before # <<>>
    THEN arrival.before[1] \o Added(arrival.before[1], OwnLength(BodySent))
    ELSE IF message.kind = "text" THEN message.of.fields
    ELSE LET k == Kept(message.of.ops) IN
         k \o Added(k, IF IsUpgrade(message.of.first) THEN <<>> ELSE OwnLength(BodySent))
Sent == Listed(FieldsSent, arrival.order)
Tight(f) == "sep" \in DOMAIN f /\ f.sep = <<":">>

\* What is read of a field: its value without white space around it.  Behind a
\* colon without a space the colon is read too, and where white space follows the
\* value its last characters may be lost (StringUtils-inl.h:21).
ReadAs(f, value) ==
    LET other == {i \in DOMAIN f.value : f.value[i] \notin White}
        core == IF other = {} THEN <<>> ELSE SubSeq(f.value, Min(other), Max(other))
    IN  IF Tight(f) THEN IsPrefix(value, <<":">> \o f.value)
        ELSE IF f.value = <<>> \/ Last(f.value) \notin White THEN value = core
        ELSE IsPrefix(value, core)

\* However a message is cut on its way, and also when the proxy sends it on, the
\* headers read are the ones sent, in number, name and value (ReadAs) and in the
\* order in which the sender's map listed them; a continuation goes to a field of
\* the name it continues; date, server and content-length are there once even if
\* the sender spelt its own in capitals.  Of a message that is read to its end the
\* body is a beginning of the one sent: nothing without a content-length, and all
\* of it if the length announced was its own.
MessageRoundTrip ==
    arrival # <<>> /\ read.state = "done" =>
        LET fold == IF message.kind = "text" /\ arrival.before = <<>> THEN message.of.fold ELSE <<>>
            n == Len(Sent)
            own == {i \in 1..n : AsciiLower(Sent[i].name) = <<"content-length">>}
        IN  /\ read.first = message.of.first
            /\ Len(read.headers) = n
            /\ \A i \in 1..n : read.headers[i].name = AsciiLower(Sent[i].name)
            /\ n > 0 => \E k \in 1..n :
                  /\ AsciiLower(Sent[k].name) = AsciiLower(Sent[n].name)
                  /\ \A i \in 1..n : i # k => ReadAs(Sent[i], read.headers[i].value)
                  /\ \E v \in {SubSeq(read.headers[k].value, 1, m) :
                               m \in 0..Len(read.headers[k].value)} :
                        read.headers[k].value = v \o fold /\ ReadAs(Sent[k], v)
            /\ IsPrefix(read.body, BodySent)
            /\ own = {} => read.body = <<>>
            /\ \A i \in own :
                  own = {i} /\ ~Tight(Sent[i]) /\ Sent[i].value = OwnLength(BodySent)[1].value
                    => read.body = BodySent
=============================================================================
