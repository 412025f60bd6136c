---------------------------- MODULE Http2Transport ----------------------------
(***************************************************************************)
(* The HTTP/2 server transport of one connection (http2/ServerTransport.   *)
(* cpp, ServerStream, FlowControl.h): the connection preface, the framing  *)
(* loop and the handlers of the frame types, fed by Connection::onPollIn   *)
(* with input cut anywhere.                                                *)
(*                                                                         *)
(* Input is a sequence of octets [f, k]: octet k of frame f, the header's  *)
(* HdrLen octets first; f = 0 is the client's connection preface.          *)
(* A frame is a record:                                                    *)
(*   type     headers, data, ping, rst, settings, window, other            *)
(*   sid      stream identifier                                            *)
(*   len      length of the body, in octets                                *)
(*   streamId, length   what readFrameHeader makes of the two              *)
(*   ack      the ACK flag (ping, settings)                                *)
(*   val      initial window size in SETTINGS, increment in WINDOW_UPDATE, *)
(*            as they are read                                             *)
(*   bad      malformed as it is read: wrong size or stream for its type,  *)
(*            bad HPACK                                                    *)
(* Where char is signed an octet of 128 or more in a header is extended    *)
(* into the octets above it, so that length and streamId may have more     *)
(* bits than what was sent (module FrameCodec has the conversion).         *)
(***************************************************************************)
EXTENDS Integers, Sequences, SequencesExt

CONSTANTS
    Frames,      \* frames the client may send
    MaxFrames,   \* bound: number of frames
    HdrLen,      \* FrameHeader::SIZE, 9 in the code
    PrefaceLen,  \* CLIENT_PREFACE.size(), 24 in the code
    IntMax,      \* std::numeric_limits<int32_t>::max()
    InitWindow   \* initial window, 65535 in the code

ASSUME SizeAssumption ==
    /\ {HdrLen, PrefaceLen, IntMax, InitWindow} \subseteq Nat \ {0}
    /\ MaxFrames \in Nat /\ InitWindow <= IntMax
    /\ HdrLen <= PrefaceLen

\* A misreading only adds bits.  A PING that is not malformed is read as one of 8
\* octets (receivePing checks it), fewer than a frame header has.
ASSUME FramesAssumption ==
    /\ Frames \subseteq
           [type : {"headers", "data", "ping", "rst", "settings", "window", "other"},
            sid : Nat, len : Nat, streamId : Nat, length : Nat,
            ack : BOOLEAN, val : 0..(2 * IntMax + 1), bad : BOOLEAN]
    /\ \A f \in Frames : f.streamId >= f.sid /\ f.length >= f.len
    /\ \A f \in Frames : f.type = "ping" /\ ~f.ack /\ ~f.bad => f.length < HdrLen

VARIABLES
    entry,     \* how the connection came to HTTP/2: switch or upgrade
    net,       \* octets sent by the client and not yet read
    sent,      \* frames sent
    pc,        \* idle, input (at the start of onInput) or frames (receiveFrames)
    buf,       \* the connection's incoming_
    preface,   \* prefaceReceived_
    cur,       \* currentFrameHeader_: the frame, or 0 for none
    streams,   \* identifiers of streams_
    win,       \* windowSize_ of each stream, an int32_t
    connWin,   \* windowSize_ of the connection, a uint32_t
    updated,   \* windowUpdateReceived_
    done,      \* frames handled, in order
    replies,   \* frames sent by the server: <<type, stream>>
    alive,     \* no exception has left the event loop
    lost       \* octets that are no frame header were read as one

vars == <<entry, net, sent, pc, buf, preface, cur, streams, win, connWin, updated, done,
          replies, alive, lost>>
windows == <<streams, win, connWin, updated>>

StreamIds == {f.streamId : f \in Frames} \cup {1}
ClientPreface == [i \in 1..PrefaceLen |-> [f |-> 0, k |-> i]]
NoPreface == [i \in 1..PrefaceLen |-> [f |-> 0, k |-> 0]]

\* sendPreface
SendPreface == <<<<"settings", 0>>>>

\* initialize(): stream 1 exists from the start.  SwitchTransport chooses HTTP/2
\* once it has the whole client preface; after an upgrade the preface is still to
\* come, whatever the client makes of it, and stream 1 has answered the request
\* that asked for the upgrade.
Init ==
    /\ \/ entry = "switch" /\ net = ClientPreface /\ replies = SendPreface
       \/ /\ entry = "upgrade" /\ net \in {ClientPreface, NoPreface}
          /\ replies = SendPreface \o <<<<"headers", 1>>>>
    /\ sent = <<>> /\ pc = "idle" /\ buf = <<>>
    /\ preface = FALSE /\ cur = 0
    /\ streams = {1} /\ win = [s \in StreamIds |-> InitWindow]
    /\ connWin = InitWindow /\ updated = FALSE
    /\ done = <<>> /\ alive = TRUE /\ lost = FALSE

-----------------------------------------------------------------------------
\* Flow control (FlowControl.h).  uint32_t and int32_t have the same size.

Modulus == 2 * (IntMax + 1)
Signed(u) == IF u > IntMax THEN u - Modulus ELSE u
Unsigned(i) == i % Modulus

\* Mutant: no check for an overflow, which wraps around.
WindowAddableAlways(existing, inc) == inc >= 1

\* addWindowSize(existing, inc) does not throw; the sum is then existing + inc.
WindowAddable(existing, inc) ==
    /\ inc >= 1
    /\ existing < 0 \/ inc <= IntMax - existing

-----------------------------------------------------------------------------
\* The client, and Connection::onPollIn.

ClientSends(frame) ==
    /\ Len(sent) < MaxFrames
    /\ sent' = Append(sent, frame)
    /\ net' = net \o [k \in 1..(HdrLen + frame.len) |-> [f |-> Len(sent) + 1, k |-> k]]
    /\ UNCHANGED <<entry, pc, buf, preface, cur, windows, done, replies, alive, lost>>

\* SwitchTransport calls onInput first with what it has: the whole preface.
OnPollIn(n) ==
    /\ pc = "idle" /\ alive /\ ~lost
    /\ entry = "switch" /\ ~preface => n >= PrefaceLen
    /\ buf' = buf \o SubSeq(net, 1, n)
    /\ net' = SubSeq(net, n + 1, Len(net))
    /\ pc' = "input"
    /\ UNCHANGED <<entry, sent, preface, cur, windows, done, replies, alive, lost>>

Drop(n) == SubSeq(buf, n + 1, Len(buf))

\* receivePreface, or its absence.  A preface that is not all there yet is left
\* in the buffer, and onInput goes on to receiveFrames with it.  (The call of
\* receiveFrames inside receivePreface and the one after it act as one loop.)
ReceivePreface ==
    /\ pc = "input"
    /\ \/ /\ preface \/ Len(buf) < PrefaceLen
          /\ pc' = "frames"
          /\ UNCHANGED <<preface, buf, alive>>
       \/ /\ ~preface /\ Len(buf) >= PrefaceLen
          /\ \A i \in 1..PrefaceLen : buf[i] = [f |-> 0, k |-> i]
          /\ preface' = TRUE
          /\ buf' = Drop(PrefaceLen)
          /\ pc' = "frames"
          /\ UNCHANGED alive
       \/ /\ ~preface /\ Len(buf) >= PrefaceLen
          /\ \E i \in 1..PrefaceLen : buf[i] # [f |-> 0, k |-> i]
          /\ alive' = FALSE
          /\ pc' = "idle"
          /\ UNCHANGED <<preface, buf>>
    /\ UNCHANGED <<entry, net, sent, cur, windows, done, replies, lost>>

-----------------------------------------------------------------------------
\* receiveFrames

\* Not a whole header, or not a whole body: wait for more input.
AwaitMore ==
    /\ pc = "frames"
    /\ \/ cur = 0 /\ Len(buf) < HdrLen
       \/ cur # 0 /\ Len(buf) < sent[cur].length
    /\ pc' = "idle"
    /\ UNCHANGED <<entry, net, sent, buf, preface, cur, windows, done, replies, alive, lost>>

\* receiveFrameHeader.  What a header read off a frame boundary contains is not
\* followed further; a misread length is: if the body it promises ever comes, it
\* has taken in some of the frames that follow.
ReceiveFrameHeader ==
    /\ pc = "frames" /\ cur = 0 /\ Len(buf) >= HdrLen
    /\ LET f == buf[1].f
           header == f \in DOMAIN sent /\ \A k \in 1..HdrLen : buf[k] = [f |-> f, k |-> k]
       IN  \/ header /\ cur' = f /\ UNCHANGED <<lost, pc>>
           \/ ~header /\ lost' = TRUE /\ pc' = "idle" /\ UNCHANGED cur
    /\ buf' = Drop(HdrLen)
    /\ UNCHANGED <<entry, net, sent, preface, windows, done, replies, alive>>

\* The frame whose body is handled now.
Ready(type) ==
    /\ pc = "frames" /\ cur # 0
    /\ Len(buf) >= sent[cur].length
    /\ sent[cur].type = type

\* Mutant: the frame header is kept.
FinishFrameKeepsHeader(n) ==
    /\ done' = Append(done, cur)
    /\ buf' = Drop(sent[cur].length + n)
    /\ UNCHANGED <<entry, net, sent, pc, preface, cur, alive, lost>>

\* Mutant: one frame for each input.
FinishFrameReturns(n) ==
    /\ done' = Append(done, cur)
    /\ cur' = 0
    /\ buf' = Drop(sent[cur].length + n)
    /\ pc' = "idle"
    /\ UNCHANGED <<entry, net, sent, preface, alive, lost>>

\* The rest of processFrameBody after a handler consumed n octets itself:
\* advance by the length, which throws if there is less, and go on.
FinishFrame(n) ==
    LET len == sent[cur].length + n IN
    /\ done' = Append(done, cur)
    /\ cur' = 0
    /\ \/ /\ Len(buf) >= len
          /\ buf' = Drop(len)
          /\ pc' = IF buf' = <<>> THEN "idle" ELSE "frames"
          /\ UNCHANGED alive
       \/ /\ Len(buf) < len
          /\ alive' = FALSE /\ pc' = "idle"
          /\ UNCHANGED buf
    /\ UNCHANGED <<entry, net, sent, preface, lost>>

\* A handler throws.
Die ==
    /\ alive' = FALSE /\ pc' = "idle"
    /\ UNCHANGED <<entry, net, sent, buf, preface, cur, windows, done, replies, lost>>

Reply(type, s) == replies' = Append(replies, <<type, s>>)

\* ServerStream::onRequest answers 200 itself.
OnRequest(s) == Reply("headers", s)

\* endStream: the stream is forgotten; one made later for the same identifier
\* has a new window.
EndStream(s) ==
    /\ streams' = streams \ {s}
    /\ win' = [win EXCEPT ![s] = InitWindow]

\* receiveData: whatever the stream, it is not Open (no code sets its state).
ReceiveData == Ready("data") /\ Die

\* Mutant: the stream stays after its response.
ReceiveHeadersNoEnd ==
    /\ Ready("headers")
    /\ \/ sent[cur].bad /\ Die
       \/ /\ ~sent[cur].bad
          /\ OnRequest(sent[cur].streamId)
          /\ streams' = streams \cup {sent[cur].streamId}
          /\ FinishFrame(0)
          /\ UNCHANGED <<win, connWin, updated>>

\* Mutant: the header block is consumed where it is read, as a PING's payload is.
ReceiveHeadersConsumes ==
    /\ Ready("headers")
    /\ \/ sent[cur].bad /\ Die
       \/ /\ ~sent[cur].bad
          /\ OnRequest(sent[cur].streamId)
          /\ EndStream(sent[cur].streamId)
          /\ FinishFrame(sent[cur].length)
          /\ UNCHANGED <<connWin, updated>>

\* receiveHeaders: find or create the stream, respond, endStream.
ReceiveHeaders ==
    /\ Ready("headers")
    /\ \/ sent[cur].bad /\ Die
       \/ /\ ~sent[cur].bad
          /\ OnRequest(sent[cur].streamId)
          /\ EndStream(sent[cur].streamId)
          /\ FinishFrame(0)
          /\ UNCHANGED <<connWin, updated>>

\* receivePing: a valid PING is answered and its payload consumed, once here and
\* once more by processFrameBody.
ReceivePing ==
    /\ Ready("ping")
    /\ \/ sent[cur].ack /\ FinishFrame(0) /\ UNCHANGED <<windows, replies>>
       \/ ~sent[cur].ack /\ sent[cur].bad /\ Die
       \/ /\ ~sent[cur].ack /\ ~sent[cur].bad
          /\ Reply("ping", 0)
          /\ FinishFrame(sent[cur].length)
          /\ UNCHANGED windows

ReceiveResetStream ==
    /\ Ready("rst")
    /\ \/ sent[cur].bad /\ Die
       \/ /\ ~sent[cur].bad
          /\ EndStream(sent[cur].streamId)
          /\ FinishFrame(0)
          /\ UNCHANGED <<connWin, updated, replies>>

\* receiveSettings: until a WINDOW_UPDATE of the connection the initial window
\* size replaces the connection's window, however large it is.
ReceiveSettings ==
    /\ Ready("settings")
    /\ \/ sent[cur].ack /\ FinishFrame(0) /\ UNCHANGED <<windows, replies>>
       \/ ~sent[cur].ack /\ sent[cur].bad /\ Die
       \/ /\ ~sent[cur].ack /\ ~sent[cur].bad
          /\ connWin' = IF updated THEN connWin ELSE sent[cur].val
          /\ Reply("settings", 0)
          /\ FinishFrame(0)
          /\ UNCHANGED <<streams, win, updated>>

AddConnectionWindowSize(inc) ==
    \/ ~WindowAddable(Signed(connWin), inc) /\ Die
    \/ /\ WindowAddable(Signed(connWin), inc)
       /\ connWin' = Unsigned(Signed(connWin) + inc)
       /\ updated' = TRUE
       /\ FinishFrame(0)
       /\ UNCHANGED <<streams, win, replies>>

\* A window update for a stream that is not there is ignored.
AddStreamWindowSize(s, inc) ==
    \/ s \in streams /\ ~WindowAddable(win[s], inc) /\ Die
    \/ /\ s \notin streams \/ WindowAddable(win[s], inc)
       /\ win' = IF s \in streams
                 THEN [win EXCEPT ![s] = Signed(Unsigned(@ + inc))] ELSE win
       /\ FinishFrame(0)
       /\ UNCHANGED <<streams, connWin, updated, replies>>

ReceiveWindowUpdate ==
    /\ Ready("window")
    /\ \/ sent[cur].bad /\ Die
       \/ ~sent[cur].bad /\ sent[cur].streamId = 0 /\ AddConnectionWindowSize(sent[cur].val)
       \/ /\ ~sent[cur].bad /\ sent[cur].streamId # 0
          /\ AddStreamWindowSize(sent[cur].streamId, sent[cur].val)

IgnoreFrame == Ready("other") /\ FinishFrame(0) /\ UNCHANGED <<windows, replies>>

ReceiveFrame ==
    \/ AwaitMore \/ ReceiveFrameHeader
    \/ ReceiveData \/ ReceiveHeaders \/ ReceivePing \/ ReceiveResetStream
    \/ ReceiveSettings \/ ReceiveWindowUpdate \/ IgnoreFrame

Next ==
    \/ \E frame \in Frames : ClientSends(frame)
    \/ \E n \in 1..Len(net) : OnPollIn(n)
    \/ ReceivePreface
    \/ ReceiveFrame

Spec == Init /\ [][Next]_vars

-----------------------------------------------------------------------------
Octet == [f : Nat, k : Nat]
Answer == {"settings", "headers", "ping"} \X Nat

TypeOK ==
    /\ entry \in {"switch", "upgrade"} /\ pc \in {"idle", "input", "frames"}
    /\ buf \in Seq(Octet) /\ net \in Seq(Octet) /\ sent \in Seq(Frames) /\ done \in Seq(Nat)
    /\ cur \in 0..Len(sent) /\ replies \in Seq(Answer)
    /\ {preface, updated, alive, lost} \subseteq BOOLEAN
    /\ streams \subseteq StreamIds /\ win \in [StreamIds -> -IntMax..IntMax]
    /\ connWin \in 0..(Modulus - 1)

\* readFrameHeader made another length of the frame's: a sign was extended
\* (Frame.cpp:40-43).
Misread(f) == sent[f].length # sent[f].len

\* Frames are handled in the order they were sent, none skipped and none twice,
\* wherever the input was cut, up to one whose length was misread.
FramesInOrder ==
    \A i \in 1..Len(done) : done[i] = i \/ \E j \in 1..(i - 1) : Misread(done[j])

\* The parser is between two frames, or inside one.
InStep == ~lost /\ (cur # 0 \/ buf = <<>> \/ buf[1].k = 1)

\* What makes it lose its place: a PING, whose payload is consumed twice
\* (ServerTransport.cpp:340), after an upgrade a preface that comes in pieces
\* (ServerTransport.cpp:213), and a frame whose length was misread.
PingHandled == \E i \in DOMAIN done : sent[done[i]].type = "ping" /\ ~sent[done[i]].ack
PrefaceCut == entry = "upgrade" /\ ~preface
MisreadHandled == \E i \in DOMAIN done : Misread(done[i])

\* Framing is kept wherever the input is cut and whatever other frames follow one
\* another: what is taken for a frame header is one, and after a frame the buffer
\* goes on with the header of the next (ServerTransport.cpp:295), but for those
\* three cases.  A connection that came through SwitchTransport never takes a part
\* of the preface for a frame.
FramingKept == InStep \/ PingHandled \/ PrefaceCut \/ MisreadHandled

\* No frame is left in the buffer: with all input read and the parser at rest,
\* every frame sent has been handled, but for the same three cases and behind a
\* header whose misread length the parser still waits for.
NoFrameLeft ==
    pc = "idle" /\ net = <<>> /\ alive /\ ~PingHandled /\ ~PrefaceCut /\ ~MisreadHandled
        => Len(done) = Len(sent) \/ (cur # 0 /\ Misread(cur))

\* What a frame calls for: the response, or an acknowledgement.  The response is on
\* the stream that was read, which is another than the client's if an octet of the
\* identifier was sign-extended (Frame.cpp:47-54).
AnswerTo(f) ==
    IF f.type = "headers" THEN <<<<"headers", f.streamId>>>>
    ELSE IF f.type \in {"ping", "settings"} /\ ~f.ack THEN <<<<f.type, 0>>>>
    ELSE <<>>

\* After the server's preface (and, after an upgrade, the response to the request
\* that asked for it) each frame handled that calls for an answer has got exactly
\* one, in the order of the frames; and apart from stream 1, made for the upgrade,
\* no stream outlives its answer, so that a long connection does not fill streams_.
AnsweredAndReleased ==
    /\ replies = SendPreface
                 \o (IF entry = "upgrade" THEN <<<<"headers", 1>>>> ELSE <<>>)
                 \o FlattenSeq([i \in DOMAIN done |-> AnswerTo(sent[done[i]])])
    /\ streams \subseteq {1}

\* FlowControl.h:11-18: an update never lowers a stream's window, as a wrapped
\* sum would; the error ends the server instead.
StreamWindowGrows ==
    [][\A s \in streams \cap streams' : win'[s] >= win[s]]_vars

\* FlowControl.h:16 "Throws on invalid inputs (eg. negative update or overflow)":
\* an update of the connection's window never lowers it.
ConnectionWindowGrows == [][updated' => connWin' >= connWin]_vars

\* ServerTransport.cpp:212-213 "come back later": nothing is taken for a frame
\* before the preface has been received.
PrefaceFirst == lost => preface

\* ServerTransport.cpp:295 "Prepare to read next frame header": after a frame
\* the buffer continues with the header of the next.
AtFrameBoundary ==
    alive /\ preface /\ cur = 0 /\ buf # <<>> /\ ~lost => buf[1].k = 1
=============================================================================
