------------------------------ MODULE OutputPath ------------------------------
(***************************************************************************)
(* How a response leaves the server: a Payload collects it (Payload-inl.h) *)
(* and spills into the connection's outgoing_ StreamBuf, Connection::send  *)
(* hands it to the kernel or queues the rest, Connection::onPollOut sends  *)
(* what is queued (Connection.cpp).  The kernel's send buffer holds        *)
(* SockBuf bytes and drains as the peer acknowledges.                      *)
(*                                                                         *)
(* Bytes are numbered as they are written; memory beyond a buffer reads as *)
(* the byte Junk.                                                          *)
(***************************************************************************)
EXTENDS Naturals, Sequences

CONSTANTS
    PayloadCap,   \* Payload::capacity_
    SockBuf,      \* size of the kernel's send buffer
    MaxWrite,     \* bound: bytes in one Payload::write
    MaxBytes      \* bound: bytes written to the connection

ASSUME SizeAssumption == {PayloadCap, SockBuf, MaxWrite, MaxBytes} \subseteq Nat \ {0}

VARIABLES
    pc,        \* idle, immediate (in send_immediate) or pollout (in onPollOut)
    filling,   \* a caller has a Payload with a message in progress
    payload,   \* that Payload
    data,      \* the argument of send_immediate
    total,     \* total_sent of send_immediate
    outgoing,  \* outgoing_
    epollout,  \* EPOLLOUT is in the connection's epoll subscription
    isOpen,    \* fd_ # -1
    written,   \* number of bytes written so far
    wire,      \* bytes accepted by ::send
    queued     \* bytes in the kernel's buffer

vars == <<pc, filling, payload, data, total, outgoing, epollout, isOpen, written, wire,
          queued>>

Junk == 0
Byte == Nat \ {Junk}

Lesser(m, n) == IF m < n THEN m ELSE n
Space == SockBuf - queued

\* ::send(fd, p, n): the kernel takes what fits.
Accepted(n) == Lesser(n, Space)

Init ==
    /\ pc = "idle" /\ filling = FALSE /\ payload = <<>> /\ data = <<>> /\ total = 0
    /\ outgoing = <<>> /\ epollout = FALSE /\ isOpen = TRUE
    /\ written = 0 /\ wire = <<>> /\ queued = 0

-----------------------------------------------------------------------------
\* Payload::write: what does not fit flushes the Payload into outgoing_; a
\* write larger than a whole Payload follows it there.
PayloadWrite(n) ==
    /\ pc = "idle" /\ written + n <= MaxBytes
    /\ LET buf == [i \in 1..n |-> written + i] IN
       \/ /\ Len(payload) + n <= PayloadCap
          /\ payload' = payload \o buf
          /\ UNCHANGED outgoing
       \/ /\ Len(payload) + n > PayloadCap /\ n <= PayloadCap
          /\ outgoing' = outgoing \o payload
          /\ payload' = buf
       \/ /\ Len(payload) + n > PayloadCap /\ n > PayloadCap
          /\ outgoing' = outgoing \o payload \o buf
          /\ payload' = <<>>
    /\ written' = written + n /\ filling' = TRUE
    /\ UNCHANGED <<pc, data, total, epollout, isOpen, wire, queued>>

\* Mutant: the new data overtakes what is queued.
ConnectionSendDirect ==
    /\ pc = "idle" /\ filling
    /\ payload' = <<>> /\ filling' = FALSE
    /\ pc' = "immediate" /\ data' = payload /\ total' = 0
    /\ UNCHANGED <<outgoing, epollout, isOpen, written, wire, queued>>

\* Connection::send(payload), after which the Payload is gone: send_immediate
\* when nothing is queued, else queue_and_send.
ConnectionSend ==
    /\ pc = "idle" /\ filling
    /\ payload' = <<>> /\ filling' = FALSE
    /\ \/ /\ outgoing = <<>>
          /\ pc' = "immediate" /\ data' = payload /\ total' = 0
          /\ UNCHANGED outgoing
       \/ /\ outgoing # <<>>
          /\ outgoing' = outgoing \o payload
          /\ pc' = "pollout"
          /\ UNCHANGED <<data, total>>
    /\ UNCHANGED <<epollout, isOpen, written, wire, queued>>

-----------------------------------------------------------------------------
\* send_immediate

\* Mutant: the loop goes on for as long as the kernel takes something.
SendSomeMore ==
    /\ pc = "immediate" /\ isOpen /\ Space > 0
    /\ LET n == Accepted(Len(data) + total) IN
       /\ wire' = wire \o [i \in 1..n |-> IF total + i <= Len(data)
                                          THEN data[total + i] ELSE Junk]
       /\ queued' = queued + n
       /\ total' = total + n
    /\ UNCHANGED <<pc, filling, payload, data, outgoing, epollout, isOpen, written>>

\* One ::send(fd_, data + total_sent, len + total_sent): the length grows with
\* what was sent instead of shrinking, so a second call reads past the data.
SendSome ==
    /\ pc = "immediate" /\ isOpen /\ Space > 0
    /\ LET n == Accepted(Len(data) + total) IN
       /\ wire' = wire \o [i \in 1..n |-> IF total + i <= Len(data)
                                          THEN data[total + i] ELSE Junk]
       /\ queued' = queued + n
       /\ total' = total + n
       /\ pc' = IF total + n < Len(data) THEN "immediate" ELSE "idle"
    /\ UNCHANGED <<filling, payload, data, outgoing, epollout, isOpen, written>>

\* Mutant: the whole argument is queued, not only the rest.
SendAgainAll ==
    /\ pc = "immediate" /\ isOpen /\ Space = 0
    /\ outgoing' = outgoing \o data
    /\ pc' = "idle"
    /\ UNCHANGED <<filling, payload, data, total, epollout, isOpen, written, wire, queued>>

\* EAGAIN: the rest is queued.  Nothing asks epoll for EPOLLOUT.
SendAgain ==
    /\ pc = "immediate" /\ isOpen /\ Space = 0
    /\ outgoing' = outgoing \o SubSeq(data, total + 1, Len(data))
    /\ pc' = "idle"
    /\ UNCHANGED <<filling, payload, data, total, epollout, isOpen, written, wire, queued>>

-----------------------------------------------------------------------------
\* onPollOut

\* updateSubscription(): EPOLLOUT is wanted iff something is queued.
UpdateSubscription(q) == epollout' = (q # <<>>)

\* Send and advance until the buffer is empty.
PollOutSome ==
    /\ pc = "pollout" /\ isOpen /\ Space > 0
    /\ LET n == Accepted(Len(outgoing))
           rest == SubSeq(outgoing, n + 1, Len(outgoing))
       IN  /\ wire' = wire \o SubSeq(outgoing, 1, n)
           /\ queued' = queued + n
           /\ outgoing' = rest
           /\ \/ rest # <<>> /\ pc' = "pollout" /\ UNCHANGED epollout
              \/ rest = <<>> /\ pc' = "idle" /\ UpdateSubscription(rest)
    /\ UNCHANGED <<filling, payload, data, total, isOpen, written>>

\* EAGAIN: the subscription stays as it is.
PollOutAgain ==
    /\ pc = "pollout" /\ isOpen /\ Space = 0
    /\ pc' = "idle"
    /\ UNCHANGED <<filling, payload, data, total, outgoing, epollout, isOpen, written,
                   wire, queued>>

\* An error of ::send on either path closes the connection; on a connection
\* closed before, ::send(-1) fails and close() has nothing to do.
SendFails ==
    /\ pc \in {"immediate", "pollout"}
    /\ isOpen' = FALSE
    /\ pc' = "idle"
    /\ UNCHANGED <<filling, payload, data, total, outgoing, epollout, written, wire, queued>>

-----------------------------------------------------------------------------
\* The read side closes the connection at the end of input or on an error;
\* what is queued is dropped with it.
CloseOnInput ==
    /\ pc = "idle" /\ ~filling /\ isOpen
    /\ isOpen' = FALSE
    /\ UNCHANGED <<pc, filling, payload, data, total, outgoing, epollout, written, wire,
                   queued>>

\* The peer acknowledges, at any time.
Drain ==
    /\ queued > 0
    /\ \E n \in 1..queued : queued' = queued - n
    /\ UNCHANGED <<pc, filling, payload, data, total, outgoing, epollout, isOpen, written,
                   wire>>

Next ==
    \/ \E n \in 1..MaxWrite : PayloadWrite(n)
    \/ ConnectionSend
    \/ SendSome \/ SendAgain
    \/ PollOutSome \/ PollOutAgain
    \/ SendFails \/ CloseOnInput
    \/ Drain

Spec == Init /\ [][Next]_vars

\* EPOLLOUT for a subscribed connection with room: dispatch calls onPollOut.
\* No step of Next ever subscribes, so this is no part of it.
EpollOut ==
    /\ pc = "idle" /\ isOpen /\ epollout /\ Space > 0 /\ outgoing # <<>>
    /\ pc' = "pollout"
    /\ UNCHANGED <<filling, payload, data, total, outgoing, epollout, isOpen, written,
                   wire, queued>>

\* Calls in progress finish, the peer keeps acknowledging, and epoll's events
\* are dispatched.
EventSpec ==
    /\ Init /\ [][Next \/ EpollOut]_vars
    /\ WF_vars(SendSome \/ SendAgain \/ PollOutSome \/ PollOutAgain \/ SendFails)
    /\ WF_vars(ConnectionSend)
    /\ WF_vars(Drain)
    /\ WF_vars(EpollOut)

-----------------------------------------------------------------------------
TypeOK ==
    /\ pc \in {"idle", "immediate", "pollout"}
    /\ {payload, data, outgoing} \subseteq Seq(Byte) /\ Len(payload) <= PayloadCap
    /\ wire \in Seq(Byte \cup {Junk})
    /\ total \in Nat /\ queued \in 0..SockBuf /\ written \in 0..MaxBytes
    /\ filling \in BOOLEAN /\ epollout \in BOOLEAN /\ isOpen \in BOOLEAN

\* The bytes of send_immediate's argument not yet given to the kernel.
Unsent == IF pc = "immediate" THEN SubSeq(data, total + 1, Len(data)) ELSE <<>>

\* The bytes of s without the Junk among them.
Kept(s) ==
    LET kept[i \in 0..Len(s)] ==
            IF i = 0 THEN <<>>
            ELSE IF s[i] = Junk THEN kept[i - 1] ELSE Append(kept[i - 1], s[i])
    IN  kept[Len(s)]

\* What the callers wrote of what is on the wire.
CallersBytes == Kept(wire)

\* While the connection is open each byte written is in exactly one place and
\* in order: on the wire, in the call in progress, in outgoing_ or in the
\* Payload (Payload.h: flush on overflow; Connection.cpp:153 chooses the path),
\* however partial sends, EAGAIN and the peer's acknowledgements interleave.
\* (Bytes nobody wrote may come between them: see OnlyCallersBytes.)
EveryByteOnce ==
    isOpen => CallersBytes \o Unsent \o outgoing \o payload = [i \in 1..written |-> i]

\* The output path implements the byte stream (Connection.h:47), looking only at
\* the callers' bytes.
Stream == INSTANCE ByteStream WITH wire <- CallersBytes
StreamSpec == Stream!Spec

\* How far a repeated ::send reads behind the caller's buffer (Connection.cpp:169):
\* however often the kernel takes a part, the loop ends with the call that sends
\* the last of the caller's bytes, and so less than twice the buffer's length is
\* read behind its end.
OverreadBounded ==
    /\ pc = "immediate" => total < Len(data)
    /\ data # <<>> => total - Len(data) <= 2 * (Len(data) - 1)

\* Connection.h:47 "Send a buffer": nothing but the caller's bytes is sent.
OnlyCallersBytes == \A i \in 1..Len(wire) : wire[i] # Junk

\* Payload.h:42 "Proper use of a Payload *requires* calling send() on the
\* destination connection; the StreamBuf target [...] doesn't handle
\* notification that the socket needs to be written to": after send(), what was
\* queued leaves as soon as the peer makes room, unless the connection closes.
QueuedIsSent ==
    pc = "idle" /\ ~filling /\ outgoing # <<>> ~> outgoing = <<>> \/ ~isOpen
=============================================================================
