--------------------------- MODULE SwitchTransport ---------------------------
(***************************************************************************)
(* The first transport of every accepted connection (SwitchTransport.cpp): *)
(* it waits until the input shows whether the client speaks HTTP/2 with    *)
(* prior knowledge (the connection preface) or HTTP/1, replaces itself by  *)
(* that transport and hands the input over.  Connection::onPollIn delivers *)
(* the client's stream in pieces of any size.                              *)
(***************************************************************************)
EXTENDS Naturals

CONSTANTS
    Byte,        \* the alphabet
    PrefaceLen,  \* CLIENT_PREFACE.size(), 24 in the code
    Preface,     \* CLIENT_PREFACE
    MaxLen       \* bound: bytes a client sends

ASSUME PrefaceAssumption ==
    /\ PrefaceLen \in Nat \ {0} /\ MaxLen \in Nat
    /\ Preface \in [1..PrefaceLen -> Byte]

VARIABLES
    total,      \* how many bytes the client sends in all
    stream,     \* and which ones
    n,          \* bytes read by the connection so far
    transport   \* the connection's transport: switch, http1 or http2

vars == <<total, stream, n, transport>>

Init ==
    /\ total \in 0..MaxLen /\ stream \in [1..total -> Byte]
    /\ n = 0 /\ transport = "switch"

\* memcmp of the first k bytes read with those of the preface.
Matches(k) == \A i \in 1..k : stream[i] = Preface[i]

\* Mutant: a short input decides at once.
ChosenEarly(size) ==
    IF size < PrefaceLen THEN "http1"
    ELSE IF Matches(PrefaceLen) THEN "http2" ELSE "http1"

\* Mutant: a short input never decides.
ChosenLate(size) ==
    IF size < PrefaceLen THEN "switch"
    ELSE IF Matches(PrefaceLen) THEN "http2" ELSE "http1"

\* The transport after onInput of a buffer with `size' bytes.
Chosen(size) ==
    IF size < PrefaceLen
    THEN IF Matches(size) THEN "switch" ELSE "http1"
    ELSE IF Matches(PrefaceLen) THEN "http2" ELSE "http1"

\* onInput: as the switch consumes nothing, the buffer holds all n + k bytes
\* when the k new ones arrive.  The transport chosen is called with that buffer
\* at once; what it does with it is Http1Transport's and Http2Transport's matter.
OnInput(k) ==
    /\ n' = n + k
    /\ transport = "switch"
    /\ transport' = Chosen(n + k)

\* Input for the transport that took over.
OnInputLater(k) ==
    /\ n' = n + k
    /\ transport # "switch"
    /\ UNCHANGED transport

OnPollIn(k) ==
    /\ n + k <= total
    /\ OnInput(k) \/ OnInputLater(k)
    /\ UNCHANGED <<total, stream>>

Next == \E k \in 1..MaxLen : OnPollIn(k)

Spec == Init /\ [][Next]_vars

-----------------------------------------------------------------------------
TypeOK ==
    /\ total \in 0..MaxLen /\ stream \in [1..total -> Byte]
    /\ n \in 0..total /\ transport \in {"switch", "http1", "http2"}

\* The choice depends on what the client sends and never on how the stream was
\* cut: HTTP/2 exactly for a stream that starts with the whole preface.
RightProtocol ==
    transport # "switch" =>
        (transport = "http2" <=> total >= PrefaceLen /\ Matches(PrefaceLen))

\* SwitchTransport.cpp:20 "Permit short requests [...] that are shorter than the
\* HTTP/2 client preface. As soon as a request like that is received, it should
\* switch to HTTP/1 handling": the switch only waits while the input is a proper
\* part of the preface.
Decisive == transport = "switch" => n < PrefaceLen /\ Matches(n)
=============================================================================
