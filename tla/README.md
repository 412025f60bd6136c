# TLA+ models of the shitty web server

These modules model the server in `src/` (a single-threaded, epoll-driven
HTTP/1.1 and HTTP/2 server and reverse proxy in C++), check the models with TLC on
small instances, and prove the central safety properties with TLAPS for every
instance. File names below are relative to `src/` of the repository.

## The system

| Component | State | Operations | Talks to |
|---|---|---|---|
| Event loop (`Server.cpp`) | `clients_`, `remove_clients_`, `keep_running_`, the batch of fetched events | `loop`, `dispatch`, `accept`, `remove_dead_clients`, `cleanup` | epoll by raw pointers, connections by callbacks |
| Connection (`Connection.cpp`) | `fd_`, `incoming_`, `outgoing_`, epoll subscription, transport | `onPollIn`, `onPollOut`, `send`, `close` | manager (`removeConnection`), transport (`onInput`) |
| Signals (`SignalSource.cpp`, `SignalReceiver.cpp`) | the self-pipe | signal handler, `onPollIn` | event loop |
| StreamBuf, Payload | bytes in use, capacity | `grow`, `write`, `advance`, `flush` | connection, transports |
| SwitchTransport | the input so far | `onInput` | replaces itself by an HTTP/1 or HTTP/2 transport |
| HTTP/1 transport (`http1/`) | message being parsed, body length expected | `processInput`, `handleMessage`, Expect, upgrade | routes, connection, HTTP/2 transport |
| Proxy (`ProxyHandler.cpp`, `http1/ClientTransport*.cpp`) | handlers, pool of backend connections, responders | dispatch, `onBackendResponse`, `putTransport` | two connections per request |
| HTTP/2 transport (`http2/`) | preface flag, current frame header, streams, windows | the framing loop, one handler per frame type | HPACK decoder, connection |
| Messages (`Headers.cpp`, `http1/HTTP1.cpp`, `StringUtils-inl.h`, `Stream.cpp`, `StatusStrings.cpp`) | the fields of a message | `add`, `set`, `remove`, rendering, parsing of lines | HTTP/1 transports |
| Frame and settings codec (`http2/Frame.cpp`, `Settings.cpp`) | none | write, read | HTTP/2 transport |
| HPACK (`dependencies/hpack/`) | dynamic table | integers, Huffman strings, representations | HTTP/2 transport |

There is one thread. What makes the system hard is what happens *between*
callbacks: events already fetched when a connection is closed, descriptor numbers
the kernel hands out again, edge-triggered readiness, input cut at any byte,
partial sends, backends and clients that disappear in any order, signals at any
moment; and the arithmetic of the codecs at the edges of their types.
`PROJECT.json` lists these hazards at the lines where they bite.

## Modules

| Module | Models | Run |
|---|---|---|
| `EventLoop` | the loop, connections' life cycle, descriptors, epoll, SIGINT | `event_loop_safety`, `event_loop_liveness` |
| `OutputPath`, `ByteStream` | Payload, `send`, `onPollOut`; the stream it promises | `output_path`, `output_stuck` |
| `StreamBuf` | sizes and growth of the buffers | `stream_buf` |
| `SwitchTransport` | choice between HTTP/1 and HTTP/2 | `switch` |
| `Http1Transport` | incremental parser, bodies, Expect, upgrade, routes | `http1`, `http1_body_stall` |
| `Proxy`, `BackendPool` | per-request handlers, backend pool, responders; the pool it promises | `proxy` |
| `Http2Transport` | preface, framing, frame handlers, flow control | `http2` |
| `FrameCodec`, `FrameWire` | the octets of frame headers and settings; one end writes them, the other reads | `wire_formats` |
| `HpackNumber`, `NumberWire` | HPACK integers; written and read | `wire_formats` |
| `BitBuf`, `BitReader` | the bit reader of the Huffman decoder; at work on any input | `wire_formats` |
| `Huffy`, `StringWire` (use `HpackNumber`, `BitBuf`) | HPACK strings: encoder, decoder, the choice of the form; written and read | `wire_formats` |
| `MessageText`, `MessageWire` | the text of HTTP/1 messages; written, cut, read and sent on | `wire_formats` |
| `WireFormats` | the five formats together, one at a time | `wire_formats` |
| `HpackDecoder` (uses `HpackNumber`) | header decoder against the peer's table | `hpack_decoder` |
| `EventLoop_proofs`, `SwitchTransport_proofs`, `OutputPath_proofs`, `Proxy_proofs`, `Http1Transport_proofs`, `Http2Transport_proofs`, `Http1Wire_proofs`, `Http2Wire_proofs` | theorems | |

`MC*` modules hold the constants of the instances. Definitions named "Mutant" in a
comment are faulty variants of the definition after them; they are no part of any
specification and serve to show that a property can fail.

### How state and actions correspond to the code

**EventLoop.** `pc` is where the thread is (`wait` in `epoll_wait`, `dispatch`,
`accept`, `read` and `input` in a connection's `onPollIn`, `reap` in
`remove_dead_clients`, `cleanup`). Addresses of objects (`Conn`) and descriptor
numbers (`Fd`) are both reused. `batch` is the set of receivers fetched and not
yet dispatched: the raw pointers in `events[]`. The kernel is external: `open`,
`reg` (the pointer given to `epoll_ctl`), `ready` with the order `aged` that epoll
keeps among events left behind when the array of ten is full. A peer sends whenever the
socket's buffer has room, as often as it likes; one that is never slower than the thread
keeps `onPollIn` reading for ever (`HeldByPeer`). A transport is
reduced to what it can do to the loop: close any connection, open a backend
connection, throw, return. The signal pipe holds `PipeCap` signals; one more blocks
the handler, and with it the only thread (`blocked`). EPOLLERR calls an empty function and EPOLLOUT is
treated in `OutputPath`.

**OutputPath.** Bytes are numbered. `SendSome` keeps the length argument of
`send_immediate` as it is in the code (`len + total_sent`), so that a second round
may send bytes behind the buffer (`Junk`). `EveryByteOnce` and the refinement of
`ByteStream` speak about the callers' bytes, `OverreadBounded` about how far behind.

**StreamBuf.** Sizes only; 4096 and `SIZE_MAX` are constants. That no more bytes are in
use than memory has addresses is the bound `Addressable`, not a check of the code.

**SwitchTransport.** The whole stream is chosen in `Init`, its cuts by `OnPollIn`.

**Http1Transport.** Input is a sequence of lexemes (a line's content, a line end, a
body byte), each with the number of its request and its place in it; no guard looks at
these. Requests keep to the grammar of `MessagesAssumption`: a first line and header
lines, any of which may be malformed, an empty line, and the body the headers
announce. One action per path through `processInput`, including the loop of
`onInput` after it; every throw ends in `alive = FALSE`, because nothing between a
handler and `main` catches it. `TryUpgrade` looks the token up (`Registered`), sends
the 101 and then decodes HTTP2-Settings (`SettingsDecoded`), which may fail.

**Proxy.** A client is an address with a generation, so that a response given to a
destroyed client's transport is told apart from one given to the next client at
that address. A backend's response goes through the parser of `http1::Transport`, as
a client's request does: without a body it is handled with its last line; the part of a
body that comes with the headers stays in the buffer until there is more (`buffered`); a
body in pieces, a transfer-encoding or a malformed line ends the server; more than the
body stalls the parser (`stuck`). A client's connection is closed first (`FrontCloses`, also by its own
`connection: close`) and destroyed later (`FrontDestroyed`, by the loop). Backends may close, fail to take a request, answer unasked, send
interim responses. `BackendPool` says what a request may expect of the pool: it
takes a transport nobody holds, keeps it until it is answered, and gives it back.
`PoolSpec` is the refinement.

**Http2Transport.** Input is a sequence of octets labelled with frame and position.
A frame has a length and a stream identifier as they were sent (`len`, `sid`) and as
`readFrameHeader` reads them (`length`, `streamId`): with a signed `char` an octet of 128
or more fills those above it. The parser works with the latter two.
A connection enters through `SwitchTransport`, with its whole preface, or through an
upgrade, where the preface may arrive in pieces (`entry`). `FinishFrame` is the end of
`processFrameBody`. Windows keep their widths through
`Signed` and `Unsigned`. Once an octet that is no frame header is read as one the
transport is not followed further (`lost`).

**FrameWire, NumberWire, StringWire.** The codecs are operators (`FrameCodec`,
`HpackNumber`, `BitBuf`, `Huffy`); beside each stands a module in which one end writes
and the other reads. The number of values of an octet (`Base`), the bits of an octet
(`HuffBits`) and of a digit of a number (`ContBits`) are constants; fields keep their
number of octets. `signed` is whether the build's `char` is signed. A number is written
behind any bits of its caller's and before any octets that follow. The encoder of strings
takes one symbol per step and the decoder makes one lookup per step. `hoisted` is whether
the compiler uses the licence of `__attribute__((const))` on `bb_eos` to call it once. A
lookup finds the symbol whose code ends in the octet shown: the contents of the lookup
tables of `decode.c`, 1500 lines, are taken for those of `etable` and not checked. How many
bits each branch of `huffman_decode` discards after a lookup (`Discard`) is modelled; most
take the length modulo an octet, which is wrong for a code that fills its last octet unless
it is found in the first octet or behind two of ones. HPACK's 8-bit and 24-bit codes are
(`Discardable`). A coding that fills the buffer makes `memmove` write past its end
(`encode.c:117-118`) when its length takes several octets; what then happens is left open
(`Overrun`).

**BitReader.** `reader` is the `bb_reader`; an octet is the function of its bits.
`discarded` is history.

**MessageWire.** A message is text: the characters the parser looks at, and one character
for a word it never looks into. A handler's calls on `Headers` or a peer's lines become
text (`WriteMessage`), which arrives in pieces (`Arrive`), is read line by line (`ReadLine`,
the part of `processInput` that deals with lines), then its body (`ReadBody`: what came
with the headers waits for more; `readContent` takes all there is), and, if it is a
peer's, what was read is sent on and read again as the proxy does (`Relay`). The headers
are an unordered multimap: they may be listed in any order (`Orders`), also those of one
name, and which of several fields of a name `find` returns is open.

**HpackDecoder.** The decoder's dynamic table next to the encoder's (external, as
RFC 7541 has it). Numbers are decoded as a `uintmax_t` and narrowed to an `unsigned`
(`Unsigned`), in which `insert` also adds up sizes (`Left`); `narrowed` records that one
did not fit, and the peer is followed no further then. `debug` is whether `assert` is compiled in: both presets exist.

## What the runs check

All runs finish within three minutes on two workers.

* `event_loop_safety` (574 thousand states; 3 objects, 2 descriptors, 2 events per
  batch, 2 waiting clients, 1 backend): `TargetsExist`, `OwnDescriptor`,
  `RemovalsSound`, `NothingLost`, `DestroyedOnlyWhenIdle`. Two descriptors and three
  objects are enough for a number or an address to be reused while an event of its
  former owner is still in the batch; the proofs below cover all sizes. Addresses and
  numbers are symmetric (no liveness in this run).
* `event_loop_liveness` (22 thousand states; 2 objects, 1 descriptor, 1 event per batch,
  receive buffers of 3 chunks, 2 signals, no symmetry): `InputConsumed`,
  `BacklogAccepted`, `ClosedReleased`, `SigIntStops`. One event per batch makes events
  queue up; a third signal meets a full pipe. Peers may send without end: all four
  properties except the one case in which that holds the thread (`HeldByPeer`); without the
  exception `InputConsumed`, `BacklogAccepted` and `SigIntStops` fail. The same run with
  two descriptors (buffers of 1 chunk, 1 waiting client, 1 signal; 174 thousand states)
  passes too.
* `output_path` (payload of 3, kernel buffer of 3, writes up to 4, 9 bytes in all):
  the payload overflows, single writes exceed it, and the kernel buffer fills several
  times. `EveryByteOnce`, `OverreadBounded` and the refinement `StreamSpec`.
* `stream_buf` (`MinCap` 8, `SizeMax` 63): all capacities up to the saturated one.
* `switch`: all streams up to five bytes over a three-byte preface with a repeated
  letter, and all ways to cut them.
* `http1` (404 thousand states): up to three requests of sixteen kinds (plain,
  unrouted, closing, folded, upgrading well, badly and in a folded header, expecting,
  refused, with a body, with an unreadable length, chunked, malformed in three ways, a
  stray newline), pipelined and cut anywhere. The transport an upgrade destroyed *is* used
  again (`Http1UpgradeReuse.cfg` below); `ReusedOnlyIfPipelined` says that this takes a
  client that sends more without waiting for the answer, however its input is cut.
* `proxy` (987 thousand states): two client addresses, one used twice, two backends, two
  requests, responses without a body and with one of two bytes in pieces. `Answered`
  excepts the parser that is stalled on a response's body (`Stalled`).
  `AnswersReachTheirClient` holds for every client whose transport was not
  destroyed while an answer was outstanding; `PoolSpec` is the refinement of
  `BackendPool`.
* `http2` (1.6 million states): up to three frames of twenty-one kinds, one with a misread
  length and one with a misread stream, after a good or a bad preface, through either
  entry, with `IntMax` 7 so that windows reach their edge.
  `FramingKept` says that only a PING, a preface in pieces and a frame handled with a
  misread length lose the framing; `NoFrameLeft` has one exception more, a misread length
  the parser still waits for; `AnsweredAndReleased` says that each request handled has its
  answer, on the stream that was read, and no stream is left.
* `wire_formats` (918 thousand states; octets of three bits), one item in one format at a
  time. There is one run for all formats because they share constants; the other formats
  rest in `WireFormats` and add no states.
  * Frames: every length and every stream identifier, with and without the reserved bit;
    settings with known and unknown numbers and numbers that differ from a known one only
    above it or in a top bit; signed and unsigned `char`. `HeaderRoundTrip`,
    `LastSettingWins`.
  * Numbers (digits of two bits, numbers of seven): every number, prefix, bits above it,
    room, and three kinds of octets behind it. `NumberRoundTrip`.
  * Bits: every input of up to three octets, read in every way, up to four bits past its
    end. `ReaderInStep`.
  * Strings: every string of up to four of nine symbols, with codes inside an octet, of a
    whole one, over two and three octets, and of three whole ones; two long codes at every
    place of an octet; strings too long for a length prefix; codings that overrun the buffer. `StringRoundTrip`.
  * Messages of up to two headers, with names this program adds itself, in two spellings,
    and values with white space around and inside them; each is cut once, at every place,
    on each of its two ways, with an empty body and one of twelve characters, and with
    lengths announced that are its own, another one, none, unreadable, or chunked. Fields of
    one name are listed in any order; different names change places only in the proof
    (`AnyOrder`). `MessageRoundTrip`.
* `hpack_decoder` (5 thousand states): a static table of two entries and a dynamic table
  for three, with fields larger than the table. With `UnsignedBits` 8 a size of 300 does
  not fit, nor does the sum of a table of 150 octets and a large field.

`CHECK_DEADLOCK FALSE` stands where the system may stop: bounded input is used up.
The event loop's runs check deadlock; there a server that has ended stutters.

### Fairness

`EventLoop!FairSpec`: weak fairness of the thread's own steps only (a thread that
has something to do goes on, and handlers return). Peers and signals need not do
anything, and may interfere for ever.
`Proxy!FairSpec`: a backend goes on answering what it has received, in one piece or
with a body in several; that its answer is *handled* is the parser's matter and not
assumed. No fairness for clients. `OutputPath!EventSpec`: calls in progress
finish, the caller of a Payload sends it, the peer acknowledges, and epoll reports
what is subscribed.

### Disagreements between code and comments

Two are listed as runs that must fail:

* `output_stuck`: what is queued after EAGAIN is sent only when another message
  follows; no path subscribes to EPOLLOUT while something is queued.
* `http1_body_stall`: a body that arrives with its headers stays in the buffer until
  the next input.

Seven more are stated as properties with configurations of their own; each of them
fails, and the other properties are stated so that they hold beside them:

| Configuration, module | Property | Code | Says otherwise |
|---|---|---|---|
| `OutputOverread.cfg`, `MCOutputPath` | `OnlyCallersBytes` | `Connection.cpp:169` | `Connection.h:47` |
| `Http1UpgradeReuse.cfg`, `MCHttp1Transport` | `OldTransportUnused` | `http1/Transport.cpp:30` | `http1/Transport.cpp:139-140` |
| `Http1UpgradeHandler.cfg`, `MCHttp1Transport` | `UpgradeReachesHandler` | `http2/ServerStream.cpp:22-25` | `http1/ServerTransport.cpp:66-67` |
| `ProxyDangling.cfg`, `MCProxy` | `ResponderValid` | `ProxyHandler.cpp:21-23` | `Responder.h:22` |
| `Http2Ping.cfg`, `MCHttp2Transport` | `AtFrameBoundary` | `http2/ServerTransport.cpp:340`, `294` | `http2/ServerTransport.cpp:295` |
| `Http2Preface.cfg`, `MCHttp2Transport` | `PrefaceFirst` | `http2/ServerTransport.cpp:186` | `http2/ServerTransport.cpp:212-213` |
| `Http2Window.cfg`, `MCHttp2Transport` | `ConnectionWindowGrows` | `http2/ServerTransport.cpp:374-375`, `522` | `http2/FlowControl.h:16-18` |

Further observations recorded in the models, and one beside them (`Header::value_encoded`
encodes the name in place of the value, `header.cpp:269`; nothing calls it, and it is not
modelled): a SETTINGS frame starts from the
defaults, not from the settings before it (`Settings.cpp:13`); with a signed `char`
octets above 127 in lengths and stream identifiers are misread (`Frame.cpp:40-51`), so that
a frame of 128 octets is waited for at nearly 16 MB; a request whose expectation is refused
is handled all the same (`http1/ServerTransport.cpp:138`); `huffman_encode` may write past
its buffer (`encode.c:118`); table sizes are narrowed to 32 bits (`header.h:80`); the HPACK size update tests bit
`0x02` instead of `0x20` (`header.cpp:527`), a smaller table size is not remembered
(`header.cpp:332-350`) and its assertion is inverted (`header.cpp:345`); a path
without a route gets no answer (`Routes.cpp:26`). A header's value that follows its
colon without a space is read with the colon (`http1/Transport.cpp:161-165`), so that
`content-length:5` ends the server; white space behind a value takes its last
character along (`StringUtils-inl.h:21`), so that `12 ` is a length of 1; a status
line without a reason, or a status from 600 on, ends the proxy
(`http1/HTTP1.cpp:157-204`, `StatusStrings.cpp:21`). CONTINUATION frames and the flags
of HEADERS are ignored (`http2/ServerTransport.cpp:288`, `452`): `HpackDecoder` follows
header blocks of one frame.

## What is proved

With TLAPS, for all values of the constants that satisfy the modules' `ASSUME`s
(distinct model values, positive bounds; nothing about the number of connections,
descriptors or events):

* `EventLoop_proofs`: `LoopTypes`, `NoUseAfterFree` (`TargetsExist`),
  `DescriptorOwnership` (`OwnDescriptor`, and `NoFdClash`: the exception
  "Accepted new connection with existing fd" is never thrown), `Removal`
  (`RemovalsSound`), `NoneEscapes` (`NothingLost`), `DeferredDeletion`
  (`DestroyedOnlyWhenIdle`).

  None of these is inductive alone. `IInv` conjoins them with `Bookkeeping`: a
  registration's object has that descriptor; a ready descriptor is registered;
  `clients_` is injective, its keys are open, and its values are clients whose
  descriptor is the key or -1; and no fetched event is left outside a batch. The
  argument: closing a connection removes the registration but neither the object nor
  the key, so pointers in the batch stay valid and the number stays taken; the
  object is destroyed only by `remove_dead_clients`, where the batch is empty, and
  its number is freed in the same round as its key. There is a lemma per action;
  `FrameInv` handles the actions that leave objects and descriptors alone,
  `ConstructInv` and `CloseInv` are shared by accept, proxy, read and handler steps.
  `DeferredDeletion` is an action property that follows from `IInv`.
* `Http1Wire_proofs`, the buffer: `StreamBufSafe` (`FitsAllocation`) and `ReadHasRoom`
  (`RoomToRead`), for every first allocation and `SIZE_MAX`.
* `SwitchTransport_proofs`: `ProtocolChoice` (`RightProtocol`) and `ChoiceIsEarly`
  (`Decisive`), for every preface, alphabet and stream.
* `OutputPath_proofs`, for every payload capacity, kernel buffer and sequence of
  writes: `OutputTypes`, `BytesInOrder` (`EveryByteOnce`), `OverreadIsBounded`
  (`OverreadBounded`), and the refinement `ImplementsByteStream` (`StreamSpec`).

  `IInv` says that the callers' bytes on the wire, those of the send in progress,
  those queued and those in the Payload are consecutive runs of the numbers handed out
  so far (`Partition`), and how the pieces lie to one another while a call is in
  progress (`Orderly`). A partial send moves the border between two runs. The bytes on
  the wire are picked out by the recursive function `Kept`; what it does to an appended
  piece is proved by induction, see below.
* `Proxy_proofs`, for any number of clients, backends and requests: `ProxyTypes`,
  `TransportsOwnedOnce` (`OwnedOnce`), `CallbacksReachTheirHandler`
  (`CallbacksPaired`), the refinement `ProxyImplementsPool` (`PoolSpec`), and
  `AnswersDelivered` (`AnswersReachTheirClient`).

  `OwnedOnce`, `CallbacksPaired` and the types are inductive together (`Paired`): the
  map `inUse`, the callbacks of the transports and `via` of the handlers are three
  records of one pairing, and every step changes them together. `AnswersDelivered` needs
  more (`AnswerInv`): each live handler's request is awaited once by its backend, an
  answered request has no handler any more, and the clients of live handlers are there
  as long as none was deserted.
* `Http1Transport_proofs`, for any set of requests that keep to the grammar, any number
  of them pipelined and every cut of the input: `Http1Types`, `DispatchOrder`
  (`DispatchedInOrder`), `BodiesOwn` (`OwnBody`), `FinalResponses`
  (`OneFinalResponse`), `NothingForgotten` (`NoneForgotten`) and `ReuseNeedsPipelining`
  (`ReusedOnlyIfPipelined`).

  `IInv` follows the parser's place as `FInv` does below. `Framed` says that buffer and
  network together are the end of the stream of requests. While the transport works
  (`Place`) the parser is behind the last request dispatched, in the headers of the next
  at the start of a line (`ReadsAt`), before its body (`AwaitsAt`), or has read more than
  its body and waits for ever (`SwampedAt`). In the headers it has seen exactly the
  lengths that the lines so far announce (`Seen`), so that at the empty line it expects
  the body that the grammar promises (`Announced`). Only a request whose headers are
  complete may have had an interim reply (`Replies`). A destroyed transport is used only
  with input behind the upgrade request, which `Framed` makes another request of the
  client's (`Reuse`). `HandleI` is the one lemma about
  `handleMessage`, for requests with and without a body; `NothingForgotten` follows from
  `Framed`, which puts the next request's empty line into the buffer, and `AtRest`.
* `Http2Transport_proofs`, for any set of frames, lengths of header and preface, widths
  of the integers and cuts of the input: `TransportTypes`, `FrameOrder`
  (`FramesInOrder`), `FramingHolds` (`FramingKept`), `NoneLeft` (`NoFrameLeft`),
  `AnswersInOrder` (`AnsweredAndReleased`) and `WindowsGrow` (`StreamWindowGrows`).
  Of the frames it is assumed that they have their types, that misreading a header only
  adds bits, and that a PING read as well-formed is shorter than a frame header
  (`FramesAssumption`; 8 and 9 octets in the code).

  `FInv` follows the place of the parser in the client's stream. Buffer and network
  together (`Input`) are always the end of the stream of the frames sent (`Framed`: each
  octet is followed by the rest of its frame and then by the next frame), whatever was
  cut. As long as the transport works it is before the preface, in step (behind the
  last frame handled or behind a header, `InPlace`), or, after a PING, inside the header
  of the next frame (`OutOfPlace`); once it has stopped, `FramingKept` itself is kept. That much is `SInv`. Once a frame was
  handled whose length had been misread the parser may be anywhere (`MInv`), and the
  properties say no more of what follows.
  Dropping octets (`AtDropped`) and sending a frame (`AtExtended`) move or keep the
  place; `HandlerEnds` reduces the seven handlers to three ways to end. `NoneLeft`
  follows because at rest the parser waits for more than the buffer holds (`AtRest`),
  while `Framed` promises that the frame is there. `WInv` bounds the windows; `AInv`
  equates the replies with the answers of the frames handled, flattened.

* `Http2Wire_proofs`, the HPACK decoder, for any static table, field lengths, overhead and
  table sizes that a `uintmax_t` holds, and an `unsigned` of any width: `DecoderTypes`,
  `TablesStayTogether` (`TablesAgree`) and `FieldsAsMeant` (`DecodedAsMeant`). The latter two
  hold as long as every size, index and sum of sizes fits the `unsigned` (`Narrowing`); what
  the tables are after that is not claimed, and they do differ. That an index or a size survives
  its coding is not assumed: it follows from the lemmas about numbers below.

  `IInv` adds to the two properties that, while nothing was thrown, the peer's limit is
  at most `size_octets_`: a smaller limit is never noted by `resize`, a larger one
  always. `Evicted` keeps the longest beginning of a table that fits (`Fitting`,
  `EvictedFits`), and so does `insert`, although it evicts before it puts the field in
  front and the peer after (`InsertedFits`). Of two tables, one a beginning of the
  other, what fits the smaller limit begins what fits the larger (`EvictedTogether`).

* `Http2Wire_proofs`, numbers, for digits and numbers of any width and every prefix:
  `NumbersSurvive` (`NumberRoundTrip`). `MAX_OCTETS` must be enough for the largest number
  (`NumberAssumption`; 10 octets for 64 bits in the code).

  The least significant digits of a number add up to its remainder (`Accumulated` by
  induction over the digits), the encoder marks all digits but the last, so that the
  decoder stops where the encoder did, and the test of `mult` for an overflow does not
  fire before the last digit of a number that fits. `NumberInv` keeps what is on the wire;
  the round trip is not inductive without it.
* `Http2Wire_proofs`, frames, for octets of any even number of values, any headers and any
  settings: `HeadersSurvive` (`HeaderRoundTrip`) and `SettingsSurvive` (`LastSettingWins`).

  A word is the sum of its octets (`OctetOf` by division). A sign-extended octet covers
  those above it with ones, so that a number it turns up in is at least `Half` and no
  setting's (`LastName + 1 < Half`; six settings and 128 in the code). The loop of
  `createFromBuffer` is followed by induction over the entries (`LastOf`). `FrameInv`
  keeps what is on the wire.
* `Http2Wire_proofs`, the bit reader, for octets of any width and every input:
  `ReaderKeepsStep` (`ReaderInStep`).

  `ReaderInStep` says nothing of `next`, `nextBits` and `pos`. `InStep` does: `next`
  holds, from the left, the `nextBits` input bits behind the octet shown and zeros behind
  them, `pos` is the octet where they end, and `eos`, once set, is the number of bits left.
  One lemma (`LoadInStep`) covers `bb_load_next` for every number of bits discarded, and
  serves `bb_reader_init` and the decoder too.
* `Http2Wire_proofs`, strings, for every prefix code that the discards allow, every width and
  string: `StringsSurvive` (`StringRoundTrip`). It is assumed that no code begins another or
  the end of the string, which is all ones, that a code which fills its last octet is one
  the decoder discards in full (`Discardable`; both in `CodeAssumption`), that a lookup
  finds what the code table holds, and that the room made for a string is within a
  `uintmax_t` (`StringAssumption`).

  The encoder's state is the bits written so far: `Codes` says that the code of the
  string's symbol i stands at the mark `g[i]`, the sum of the lengths before it, and
  `EncodeSymbol` appends one code whatever its place in the octets. With the padding the
  body `Spells` the string: codes at the marks, then at most an octet of ones. The decoder
  (`Decoding`) is always at a mark plus the bits `seen` of the next code, with the reader
  `InStep` there. Since no code begins another, a lookup finds exactly the symbol that was
  written, and what is discarded after it is what is left of its code (`DiscardIs`); in the ones behind the last code it finds none, and `bb_eos`, asked at each
  round or only at the start, or the code of the end stops it. No code is shorter than
  `MinBits`, so that the room made is not full before.
* `Http1Wire_proofs`, messages, for all characters, names, values, continuations and
  bodies, any number of headers and any cutting into pieces: `MessagesSurvive`
  (`MessageRoundTrip`). It is assumed that a name is not empty and has no white space,
  colon or line feed in it, that values, continuations and first lines have no line feed,
  that status codes have three digits (`ItemAssumption`), and that `tolower` makes
  characters a name may have and changes them no further (`TextAssumption`).

  Three arguments meet in the invariant. *Written*: the headers after a handler's calls
  are the fields of the calls that still stand (`AppliedIs`, by induction over the calls
  with the set `Standing`), what is added to them is what is missing (`OwnAdded`), the map
  lists all of them in some order (`ListedCarries`), and the
  text is a first line, one line per field, an empty line and the body (`Layout`;
  `SendLaid`, `PeerLaid`), with `r[k]` the text behind k of the lines (`Tails`). *Read*:
  each of these lines is read as its field (`Carried`), through `headerLine`'s two places
  to cut and `trimTrailingLWS`'s cut before instead of behind the place it found; the
  first line is read as itself (`StatusRead`, `RequestRead`), and `std::stoul` gives back
  the number `std::to_string` wrote, with a continuation behind it or not (`StoulIs`).
  *On the way*: a line is taken exactly when its line feed has arrived (`LineCut`,
  `LineRead`). `Reading` keeps them together: after k lines what has been read is their
  fields, and what is unread is `r[k]`; after all of them it is the body, of which
  `readContent` takes a beginning, and all of it if its length was announced. `MessageRoundTrip` speaks of a finished message
  only and is not inductive without it. The proxy's sending on begins the same argument
  again with the fields it read (`RelayBrings`).

The inductive invariants (`IInv` of each module, `Paired`, `AnswerInv`, `FInv`, `WInv`,
`AInv`, and `InStep`) were checked with TLC on the instances of the runs before they were
proved. The library's induction theorems take an operator, which the provers cannot
instantiate; `OutputPath_proofs`, `Http2Transport_proofs`, `Http1Wire_proofs` and `Http2Wire_proofs` derive
induction over a *set* of naturals from the theorem that such a set has a least element
(`LeastNat`, `Induction`), which is enough for recursive functions: a function that
satisfies the recursion exists and is unique up to any length (`KeptIs`, `FlattenIs`,
`SizeIs`), so that the definition may be unfolded at its end (`KeptOfAppend`,
`FlattenOfAppend`, `SizeGrows`).

Only model-checked: the liveness properties of `EventLoop` and `Answered` of the proxy
(fairness is out of the prover's reach). Every invariant of a passing run is proved.
`Reading`, like the marks `g` of the strings, quantifies over lines and texts that TLC
cannot enumerate; it was not checked with TLC before it was proved.

## Not modelled

The digits of a date (`Date.cpp` formats the clock's answer; here it is one word), a
reason phrase, signs in a content length; padding and priority of HEADERS and DATA,
which no code path fills or, for DATA, reaches (a stream is never `Open`, so that
`receiveData` always throws); the parts of HPACK nothing calls (`getIndex`); base64
decoding of HTTP2-Settings (it succeeds or throws); the message-handler interfaces, the
example programs, benchmarks and unused code. `PROJECT.json` gives the reason for each.

## Possible extensions

* Compositions: the proxy's connections on `EventLoop`'s, so that closing and destruction
  are those of the loop.
