------------------------ MODULE Http2Transport_proofs ------------------------
(***************************************************************************)
(* The HTTP/2 transport for every set of frames, any header and preface    *)
(* length and every way the input is cut: framing, order, answers and the  *)
(* windows of the streams.                                                 *)
(***************************************************************************)
EXTENDS Http2Transport, SequenceTheorems, WellFoundedInduction, TLAPS

-----------------------------------------------------------------------------
\* The invariant.

\* What the server has still to handle of the client's octets.
Input == buf \o net

\* Length of frame f of q; frame 0 is the preface.
FrameLen(q, f) == IF f = 0 THEN PrefaceLen ELSE HdrLen + q[f].len

\* The rest of its frame follows the octet at i, and then the next frame of q.
Whole(s, q, i) ==
    LET f == s[i].f
        k == s[i].k
        r == FrameLen(q, f) - k
    IN  /\ f \in 0..Len(q) /\ k \in 1..FrameLen(q, f)
        /\ i + r <= Len(s)
        /\ \A j \in 0..r : s[i + j] = [f |-> f, k |-> k + j]
        /\ f < Len(q) => i + r < Len(s) /\ s[(i + r) + 1] = [f |-> f + 1, k |-> 1]
        /\ f = Len(q) => Len(s) = i + r

\* s is the end of the stream of octets of the frames q.
Framed(s, q) == \A i \in 1..Len(s) : Whole(s, q, i)

\* The next octet of s is octet k of frame f, or the frame has k - 1 octets and
\* what follows it is next.
At(s, q, f, k) ==
    /\ f \in 0..Len(q) /\ k \in 1..(FrameLen(q, f) + 1)
    /\ k <= FrameLen(q, f) => s # <<>> /\ s[1] = [f |-> f, k |-> k]
    /\ k > FrameLen(q, f) =>
          IF f < Len(q) THEN s # <<>> /\ s[1] = [f |-> f + 1, k |-> 1] ELSE s = <<>>

\* Before the preface: the input starts with it, or an upgraded client sends
\* something else.
BeforePreface ==
    /\ ~preface /\ cur = 0 /\ done = <<>> /\ Input # <<>>
    /\ \/ Framed(Input, sent) /\ At(Input, sent, 0, 1)
       \/ entry = "upgrade" /\ Input[1] = [f |-> 0, k |-> 0]

\* In step: behind the last frame handled, or behind the header of the next.
InPlace ==
    /\ preface /\ Framed(Input, sent)
    /\ cur = 0 => At(Input, sent, Len(done), FrameLen(sent, Len(done)) + 1)
    /\ cur # 0 => At(Input, sent, cur, HdrLen + 1)

\* Out of step after a PING: inside the header of the next frame.
OutOfPlace ==
    /\ preface /\ Framed(Input, sent)
    /\ cur = 0 /\ Input # <<>> /\ Input[1].k # 1 /\ PingHandled

Place == alive /\ ~lost => BeforePreface \/ InPlace \/ OutOfPlace

\* Frames are handled one after the other.
Ordered == \A i \in 1..Len(done) : done[i] = i

InOrder ==
    /\ Ordered /\ Len(done) <= Len(sent)
    /\ cur # 0 => cur = Len(done) + 1

\* A connection that came through SwitchTransport gets the whole preface first.
SwitchStart ==
    entry = "switch" /\ ~preface =>
        /\ alive /\ ~lost /\ pc # "frames"
        /\ pc = "idle" => buf = <<>>
        /\ pc = "input" => Len(buf) >= PrefaceLen

\* At rest the parser waits for more than the buffer holds.
AtRest ==
    /\ pc # "idle" => alive /\ ~lost
    /\ pc = "idle" /\ alive /\ ~lost /\ preface =>
          \/ cur = 0 /\ Len(buf) < HdrLen
          \/ cur # 0 /\ Len(buf) < sent[cur].length

\* The types of what the framing depends on.
FrameTypes ==
    /\ entry \in {"switch", "upgrade"} /\ pc \in {"idle", "input", "frames"}
    /\ buf \in Seq(Octet) /\ net \in Seq(Octet) /\ sent \in Seq(Frames) /\ done \in Seq(Nat)
    /\ cur \in 0..Len(sent) /\ preface \in BOOLEAN /\ alive \in BOOLEAN /\ lost \in BOOLEAN

\* How the transport came to stop (while it works, Place says more).
Kept == InStep \/ PingHandled \/ PrefaceCut

Stopped == ~alive \/ lost => Kept

\* Until a frame was handled whose length had been misread.
SInv == FrameTypes /\ InOrder /\ Place /\ SwitchStart /\ AtRest /\ Stopped

\* From then on: the parser may be anywhere in the input.
MInv ==
    /\ FrameTypes /\ preface /\ AtRest /\ FramesInOrder /\ MisreadHandled
    /\ \A i \in 1..Len(done) : done[i] \in 1..Len(sent)

FInv == SInv \/ MInv

-----------------------------------------------------------------------------
\* The stream of octets.

LEMMA FrameLens ==
    ASSUME NEW q \in Seq(Frames), NEW f \in 0..Len(q)
    PROVE  /\ FrameLen(q, f) \in Nat /\ FrameLen(q, f) >= 1 /\ FrameLen(q, f) >= HdrLen
           /\ HdrLen \in Nat /\ HdrLen >= 1
           /\ f # 0 => FrameLen(q, f) = HdrLen + q[f].len /\ q[f].len \in Nat /\ q[f] \in Frames
<1>1. HdrLen \in Nat /\ HdrLen >= 1 /\ PrefaceLen \in Nat /\ PrefaceLen >= HdrLen
  BY SizeAssumption
<1>2. f # 0 => q[f] \in Frames
  OBVIOUS
<1>3. f # 0 => q[f].len \in Nat
  BY <1>2, FramesAssumption
<1> QED
  BY <1>1, <1>2, <1>3 DEF FrameLen

\* t is s without its first n octets.
Dropped(t, s, n) ==
    /\ t \in Seq(Octet) /\ s \in Seq(Octet) /\ n \in 0..Len(s)
    /\ Len(t) = Len(s) - n
    /\ \A i \in 1..Len(t) : t[i] = s[n + i]

LEMMA FramedDropped ==
    ASSUME NEW q \in Seq(Frames), NEW s, NEW t, NEW n, Dropped(t, s, n), Framed(s, q)
    PROVE  Framed(t, q)
<1> SUFFICES ASSUME NEW i \in 1..Len(t) PROVE Whole(t, q, i)
  BY DEF Framed
<1>1. /\ n \in Nat /\ n <= Len(s) /\ Len(t) = Len(s) - n /\ Len(s) \in Nat /\ Len(t) \in Nat
      /\ i \in Nat /\ n + i \in 1..Len(s) /\ t[i] = s[n + i]
  BY DEF Dropped
<1> DEFINE f == t[i].f
           k == t[i].k
           r == FrameLen(q, f) - k
<1>2. /\ f \in 0..Len(q) /\ k \in 1..FrameLen(q, f)
      /\ (n + i) + r <= Len(s)
      /\ \A j \in 0..r : s[(n + i) + j] = [f |-> f, k |-> k + j]
      /\ f < Len(q) => (n + i) + r < Len(s) /\ s[((n + i) + r) + 1] = [f |-> f + 1, k |-> 1]
      /\ f = Len(q) => Len(s) = (n + i) + r
  BY <1>1 DEF Framed, Whole
<1> HIDE DEF f, k
<1>3. FrameLen(q, f) \in Nat /\ r \in Nat
  BY <1>2, FrameLens
<1> HIDE DEF r
<1>4. i + r <= Len(t) /\ (f = Len(q) => Len(t) = i + r) /\ (f < Len(q) => i + r < Len(t))
  <2>1. /\ (n + i) + r <= Len(s)
        /\ f < Len(q) => (n + i) + r < Len(s)
        /\ f = Len(q) => Len(s) = (n + i) + r
    BY <1>2
  <2> QED
    BY <1>1, <1>3, <2>1
<1>5. ASSUME NEW j \in 0..r PROVE t[i + j] = [f |-> f, k |-> k + j]
  <2>1. i + j \in 1..Len(t) /\ n + (i + j) = (n + i) + j
    BY <1>1, <1>3, <1>4
  <2>2. t[i + j] = s[n + (i + j)]
    BY <2>1 DEF Dropped
  <2> QED
    BY <1>2, <2>1, <2>2
<1>6. ASSUME f < Len(q) PROVE t[(i + r) + 1] = [f |-> f + 1, k |-> 1]
  <2>1. (i + r) + 1 \in 1..Len(t) /\ n + ((i + r) + 1) = ((n + i) + r) + 1
    BY <1>1, <1>3, <1>4, <1>6
  <2>2. t[(i + r) + 1] = s[n + ((i + r) + 1)]
    BY <2>1 DEF Dropped
  <2> QED
    BY <1>2, <1>6, <2>1, <2>2
<1> QED
  BY <1>2, <1>4, <1>5, <1>6 DEF Whole, f, k, r

\* t is s and then the octets of the frame after those of q.
Extended(t, s, q, n) ==
    /\ t \in Seq(Octet) /\ s \in Seq(Octet) /\ n \in Nat /\ Len(t) = Len(s) + n
    /\ \A i \in 1..Len(s) : t[i] = s[i]
    /\ \A k \in 1..n : t[Len(s) + k] = [f |-> Len(q) + 1, k |-> k]

LEMMA AppendedFrame ==
    ASSUME NEW q \in Seq(Frames), NEW frame \in Frames
    PROVE  /\ Append(q, frame) \in Seq(Frames) /\ Len(Append(q, frame)) = Len(q) + 1
           /\ \A f \in 0..Len(q) : FrameLen(Append(q, frame), f) = FrameLen(q, f)
           /\ FrameLen(Append(q, frame), Len(q) + 1) = HdrLen + frame.len
           /\ \A f \in 1..Len(q) : Append(q, frame)[f] = q[f]
           /\ frame.len \in Nat
<1>1. /\ Append(q, frame) \in Seq(Frames) /\ Len(Append(q, frame)) = Len(q) + 1
      /\ \A f \in 1..Len(q) : Append(q, frame)[f] = q[f]
      /\ Append(q, frame)[Len(q) + 1] = frame /\ Len(q) \in Nat
  BY AppendProperties
<1>2. frame.len \in Nat
  BY FramesAssumption
<1> QED
  BY <1>1, <1>2 DEF FrameLen

LEMMA FramedExtended ==
    ASSUME NEW q \in Seq(Frames), NEW frame \in Frames, NEW s, NEW t,
           Extended(t, s, q, HdrLen + frame.len), Framed(s, q)
    PROVE  Framed(t, Append(q, frame))
<1> DEFINE p == Append(q, frame)
           m == HdrLen + frame.len
<1>1. /\ p \in Seq(Frames) /\ Len(p) = Len(q) + 1 /\ FrameLen(p, Len(q) + 1) = m
      /\ \A f \in 0..Len(q) : FrameLen(p, f) = FrameLen(q, f)
  BY AppendedFrame
<1>2. m \in Nat /\ m >= 1
  BY AppendedFrame, SizeAssumption
<1>3. /\ Len(t) = Len(s) + m /\ Len(s) \in Nat /\ Len(t) \in Nat /\ Len(q) \in Nat
      /\ \A i \in 1..Len(s) : t[i] = s[i]
      /\ \A k \in 1..m : t[Len(s) + k] = [f |-> Len(q) + 1, k |-> k]
  BY DEF Extended
<1> HIDE DEF p, m
<1> SUFFICES ASSUME NEW i \in 1..Len(t) PROVE Whole(t, p, i)
  BY DEF Framed, p
<1>4. CASE i <= Len(s)
  <2> DEFINE f == s[i].f
             k == s[i].k
             r == FrameLen(q, f) - k
  <2>1. /\ f \in 0..Len(q) /\ k \in 1..FrameLen(q, f) /\ i + r <= Len(s)
        /\ \A j \in 0..r : s[i + j] = [f |-> f, k |-> k + j]
        /\ f < Len(q) => i + r < Len(s) /\ s[(i + r) + 1] = [f |-> f + 1, k |-> 1]
        /\ f = Len(q) => Len(s) = i + r
    BY <1>3, <1>4 DEF Framed, Whole
  <2>2. t[i] = s[i] /\ t[i].f = f /\ t[i].k = k /\ i \in Nat /\ i >= 1
    BY <1>3, <1>4
  <2> HIDE DEF f, k
  <2>3. FrameLen(q, f) \in Nat /\ r \in Nat /\ FrameLen(p, f) = FrameLen(q, f)
    <3>1. FrameLen(q, f) \in Nat
      BY <2>1, FrameLens
    <3> QED
      BY <1>1, <2>1, <3>1
  <2> HIDE DEF r
  <2>4. ASSUME NEW j \in 0..r PROVE t[i + j] = [f |-> f, k |-> k + j]
    <3>1. i + j \in 1..Len(s)
      BY <1>3, <2>1, <2>2, <2>3
    <3> QED
      BY <1>3, <2>1, <3>1
  <2>5. (i + r) < Len(t) /\ i + r <= Len(t)
    BY <1>2, <1>3, <2>1, <2>2, <2>3
  <2>6. t[(i + r) + 1] = [f |-> f + 1, k |-> 1]
    <3>1. CASE f < Len(q)
      <4>1. (i + r) + 1 \in 1..Len(s)
        BY <1>3, <2>1, <2>2, <2>3, <3>1
      <4> QED
        BY <1>3, <2>1, <3>1, <4>1
    <3>2. CASE f = Len(q)
      <4>1. (i + r) + 1 = Len(s) + 1 /\ 1 \in 1..m
        BY <1>2, <1>3, <2>1, <3>2
      <4> QED
        BY <1>3, <3>2, <4>1
    <3> QED
      BY <1>3, <2>1, <3>1, <3>2
  <2>7. f \in 0..Len(p) /\ f < Len(p) /\ f # Len(p) /\ k \in 1..FrameLen(p, f)
    BY <1>1, <1>3, <2>1, <2>3
  <2>8. r = FrameLen(p, t[i].f) - t[i].k
    BY <2>2, <2>3 DEF r
  <2> QED
    BY <2>2, <2>4, <2>5, <2>6, <2>7, <2>8 DEF Whole
<1>5. CASE i > Len(s)
  <2> DEFINE k == i - Len(s)
             r == m - k
  <2>1. k \in 1..m /\ i = Len(s) + k /\ r \in Nat /\ i + r = Len(t)
    BY <1>2, <1>3, <1>5
  <2>2. t[i] = [f |-> Len(q) + 1, k |-> k]
    BY <1>3, <2>1
  <2>3. ASSUME NEW j \in 0..r PROVE t[i + j] = [f |-> Len(q) + 1, k |-> k + j]
    <3>1. k + j \in 1..m /\ i + j = Len(s) + (k + j)
      BY <1>2, <1>3, <2>1
    <3> QED
      BY <1>3, <3>1
  <2> HIDE DEF k, r
  <2>4. t[i].f = Len(q) + 1 /\ t[i].k = k
    BY <2>2
  <2>5. r = FrameLen(p, Len(q) + 1) - k
    BY <1>1 DEF r
  <2>6. /\ Len(q) + 1 \in 0..Len(p) /\ ~(Len(q) + 1 < Len(p)) /\ k \in 1..FrameLen(p, Len(q) + 1)
        /\ i + r <= Len(t) /\ Len(t) = i + r
    BY <1>1, <1>3, <2>1
  <2> QED
    BY <2>3, <2>4, <2>5, <2>6 DEF Whole
<1> QED
  BY <1>3, <1>4, <1>5

\* The next n octets of s are those of frame f from k, and dropping them moves on.
Ahead(s, q, f, k, n) ==
    /\ n <= Len(s)
    /\ \A j \in 0..(n - 1) : s[1 + j] = [f |-> f, k |-> k + j]
    /\ \A t : Dropped(t, s, n) => At(t, q, f, k + n)

LEMMA AtDropped ==
    ASSUME NEW q \in Seq(Frames), NEW s \in Seq(Octet), NEW f, NEW k, NEW n \in Nat,
           Framed(s, q), At(s, q, f, k), k + n <= FrameLen(q, f) + 1
    PROVE  Ahead(s, q, f, k, n)
<1> DEFINE L == FrameLen(q, f)
<1>1. f \in 0..Len(q) /\ k \in 1..(L + 1) /\ L \in Nat /\ L >= 1 /\ Len(s) \in Nat /\ Len(q) \in Nat
  BY FrameLens DEF At
<1>2. k \in Nat /\ k >= 1 /\ k + n \in 1..(L + 1)
  BY <1>1
<1>3. /\ k <= L => s # <<>> /\ s[1] = [f |-> f, k |-> k]
      /\ k > L => IF f < Len(q) THEN s # <<>> /\ s[1] = [f |-> f + 1, k |-> 1] ELSE s = <<>>
  BY DEF At
<1> HIDE DEF L
<1>4. CASE n = 0
  <2>1. ASSUME NEW t, Dropped(t, s, n) PROVE At(t, q, f, k + n)
    <3>1. t \in Seq(Octet) /\ Len(t) = Len(s) /\ (\A i \in 1..Len(t) : t[i] = s[i]) /\ k + n = k
      BY <1>1, <1>2, <1>4, <2>1 DEF Dropped
    <3>2. t = s
      BY <3>1, SeqEqual
    <3> QED
      BY <3>1, <3>2
  <2>2. 0..(n - 1) = {} /\ n <= Len(s)
    BY <1>1, <1>4
  <2> QED
    BY <2>1, <2>2 DEF Ahead
<1>5. CASE n # 0
  <2> DEFINE r == L - k
  <2>1. k <= L /\ r \in Nat /\ n <= r + 1
    BY <1>1, <1>2, <1>5 DEF L
  <2>2. s # <<>> /\ s[1] = [f |-> f, k |-> k]
    BY <1>3, <2>1
  <2>3. 1 \in 1..Len(s) /\ s[1].f = f /\ s[1].k = k
    BY <1>1, <2>2, EmptySeq
  <2>4. /\ 1 + r <= Len(s)
        /\ \A j \in 0..r : s[1 + j] = [f |-> f, k |-> k + j]
        /\ f < Len(q) => 1 + r < Len(s) /\ s[(1 + r) + 1] = [f |-> f + 1, k |-> 1]
        /\ f = Len(q) => Len(s) = 1 + r
    BY <2>3 DEF Framed, Whole, L
  <2> HIDE DEF r
  <2>5. n <= Len(s)
    BY <1>1, <2>1, <2>4
  <2>6. \A j \in 0..(n - 1) : s[1 + j] = [f |-> f, k |-> k + j]
    BY <2>1, <2>4
  <2>7. ASSUME NEW t, Dropped(t, s, n) PROVE At(t, q, f, k + n)
    <3>1. t \in Seq(Octet) /\ Len(t) = Len(s) - n /\ \A i \in 1..Len(t) : t[i] = s[n + i]
      BY <2>7 DEF Dropped
    <3>2. CASE k + n <= L
      <4>1. n \in 0..r /\ Len(t) >= 1 /\ 1 \in 1..Len(t) /\ n + 1 = 1 + n
        BY <1>1, <1>2, <2>1, <2>4, <3>1, <3>2 DEF r
      <4>2. t[1] = [f |-> f, k |-> k + n]
        BY <2>4, <3>1, <4>1
      <4>3. t # <<>>
        BY <3>1, <4>1
      <4>4. k + n <= FrameLen(q, f) /\ ~(k + n > FrameLen(q, f))
        BY <1>1, <1>2, <3>2 DEF L
      <4> QED
        BY <1>1, <1>2, <4>2, <4>3, <4>4 DEF At, L
    <3>3. CASE k + n > L
      <4>1. n = r + 1 /\ n + 1 = (1 + r) + 1
        BY <1>1, <1>2, <2>1, <3>3 DEF r
      <4>2. ASSUME f < Len(q) PROVE t # <<>> /\ t[1] = [f |-> f + 1, k |-> 1]
        <5>1. Len(t) >= 1 /\ 1 \in 1..Len(t)
          BY <1>1, <2>1, <2>4, <3>1, <4>1, <4>2
        <5>2. t[1] = s[n + 1]
          BY <3>1, <5>1
        <5> QED
          BY <2>4, <3>1, <4>1, <4>2, <5>1, <5>2
      <4>3. ASSUME ~(f < Len(q)) PROVE t = <<>>
        <5>1. f = Len(q)
          BY <1>1, <4>3
        <5>2. Len(t) = 0
          BY <1>1, <2>1, <2>4, <3>1, <4>1, <5>1
        <5> QED
          BY <3>1, <5>2, EmptySeq
      <4>4. ~(k + n <= FrameLen(q, f))
        BY <1>1, <1>2, <3>3 DEF L
      <4> QED
        BY <1>1, <1>2, <4>2, <4>3, <4>4 DEF At, L
    <3> QED
      BY <1>1, <1>2, <3>2, <3>3
  <2> QED
    BY <2>5, <2>6, <2>7 DEF Ahead
<1> QED
  BY <1>4, <1>5

LEMMA AtExtended ==
    ASSUME NEW q \in Seq(Frames), NEW frame \in Frames, NEW s, NEW t, NEW f, NEW k,
           Extended(t, s, q, HdrLen + frame.len), At(s, q, f, k)
    PROVE  At(t, Append(q, frame), f, k)
<1> DEFINE p == Append(q, frame)
           m == HdrLen + frame.len
           L == FrameLen(q, f)
<1>1. f \in 0..Len(q) /\ k \in 1..(L + 1) /\ L \in Nat /\ L >= 1 /\ Len(q) \in Nat
  BY FrameLens DEF At
<1>2. Len(p) = Len(q) + 1 /\ FrameLen(p, f) = L /\ m \in Nat /\ m >= 1
  BY <1>1, AppendedFrame, SizeAssumption
<1>3. /\ s \in Seq(Octet) /\ t \in Seq(Octet) /\ Len(t) = Len(s) + m /\ Len(s) \in Nat
      /\ \A i \in 1..Len(s) : t[i] = s[i]
      /\ \A i \in 1..m : t[Len(s) + i] = [f |-> Len(q) + 1, k |-> i]
  BY DEF Extended
<1>4. /\ k <= L => s # <<>> /\ s[1] = [f |-> f, k |-> k]
      /\ k > L => IF f < Len(q) THEN s # <<>> /\ s[1] = [f |-> f + 1, k |-> 1] ELSE s = <<>>
  BY DEF At
<1> HIDE DEF p, m, L
<1>5. t # <<>>
  BY <1>2, <1>3
<1>6. s # <<>> => t[1] = s[1]
  <2> SUFFICES ASSUME s # <<>> PROVE t[1] = s[1]
    OBVIOUS
  <2>1. 1 \in 1..Len(s)
    BY <1>3, EmptySeq
  <2> QED
    BY <1>3, <2>1
<1>7. s = <<>> => t[1] = [f |-> Len(q) + 1, k |-> 1]
  <2> SUFFICES ASSUME s = <<>> PROVE t[1] = [f |-> Len(q) + 1, k |-> 1]
    OBVIOUS
  <2>1. Len(s) = 0 /\ 1 \in 1..m /\ Len(s) + 1 = 1
    BY <1>2, <1>3
  <2> QED
    BY <1>3, <2>1
<1>8. f \in 0..Len(p) /\ f < Len(p) /\ (~(f < Len(q)) => f = Len(q))
  BY <1>1, <1>2
<1>9. k <= L => t[1] = [f |-> f, k |-> k]
  BY <1>4, <1>6
<1>10. k > L => t[1] = [f |-> f + 1, k |-> 1]
  BY <1>4, <1>6, <1>7, <1>8
<1>11. At(t, p, f, k)
  BY <1>1, <1>2, <1>5, <1>8, <1>9, <1>10 DEF At
<1> QED
  BY <1>11 DEF p

-----------------------------------------------------------------------------
\* The buffer and the network hold one stream.

LEMMA Regroup ==
    ASSUME NEW S, NEW a \in Seq(S), NEW b \in Seq(S), NEW c \in Seq(S)
    PROVE  a \o (b \o c) = (a \o b) \o c
BY ConcatAssociative

LEMMA Joined ==
    ASSUME NEW a \in Seq(Octet), NEW b \in Seq(Octet)
    PROVE  /\ a \o b \in Seq(Octet) /\ Len(a \o b) = Len(a) + Len(b)
           /\ Len(a) \in Nat /\ Len(b) \in Nat
           /\ \A i \in 1..Len(a) : (a \o b)[i] = a[i]
           /\ \A i \in 1..Len(b) : (a \o b)[Len(a) + i] = b[i]
<1>1. /\ a \o b \in Seq(Octet) /\ Len(a \o b) = Len(a) + Len(b)
      /\ \A i \in 1..(Len(a) + Len(b)) :
            (a \o b)[i] = IF i <= Len(a) THEN a[i] ELSE b[i - Len(a)]
  BY ConcatProperties
<1>2. Len(a) \in Nat /\ Len(b) \in Nat
  OBVIOUS
<1>3. ASSUME NEW i \in 1..Len(a) PROVE (a \o b)[i] = a[i]
  <2>1. i \in 1..(Len(a) + Len(b)) /\ i <= Len(a)
    BY <1>2
  <2> QED
    BY <1>1, <2>1
<1>4. ASSUME NEW i \in 1..Len(b) PROVE (a \o b)[Len(a) + i] = b[i]
  <2>1. Len(a) + i \in 1..(Len(a) + Len(b)) /\ ~(Len(a) + i <= Len(a)) /\ (Len(a) + i) - Len(a) = i
    BY <1>2
  <2> QED
    BY <1>1, <2>1
<1> QED
  BY <1>1, <1>2, <1>3, <1>4

LEMMA Rest ==
    ASSUME NEW s \in Seq(Octet), NEW n \in 0..Len(s)
    PROVE  Dropped(SubSeq(s, n + 1, Len(s)), s, n)
<1> DEFINE a == n + 1
           b == Len(s)
<1>1. /\ a \in Int /\ b \in Int /\ \A i \in a..b : s[i] \in Octet
      /\ (IF a <= b THEN b - a + 1 ELSE 0) = Len(s) - n /\ b - a + 1 = Len(s) - n
      /\ \A i \in 1..(Len(s) - n) : a + i - 1 = n + i
  OBVIOUS
<1> HIDE DEF a, b
<1>2. /\ SubSeq(s, a, b) \in Seq(Octet) /\ Len(SubSeq(s, a, b)) = Len(s) - n
      /\ \A i \in 1..(Len(s) - n) : SubSeq(s, a, b)[i] = s[a + i - 1]
  BY <1>1, SubSeqProperties
<1> DEFINE t == SubSeq(s, a, b)
<1>3. t \in Seq(Octet) /\ Len(t) = Len(s) - n /\ \A i \in 1..(Len(s) - n) : t[i] = s[n + i]
  BY <1>1, <1>2
<1> HIDE DEF t
<1>4. Dropped(t, s, n)
  BY <1>3 DEF Dropped
<1> QED
  BY <1>4 DEF a, b, t

\* Dropping octets of the buffer drops them of the stream.
LEMMA JoinedDrop ==
    ASSUME NEW a \in Seq(Octet), NEW b \in Seq(Octet), NEW c, NEW n, Dropped(c, a, n)
    PROVE  Dropped(c \o b, a \o b, n)
<1>1. /\ c \in Seq(Octet) /\ Len(c) = Len(a) - n /\ (\A i \in 1..Len(c) : c[i] = a[n + i])
      /\ n \in Nat /\ n <= Len(a)
  BY DEF Dropped
<1>2. /\ a \o b \in Seq(Octet) /\ Len(a \o b) = Len(a) + Len(b)
      /\ Len(a) \in Nat /\ Len(b) \in Nat
      /\ \A i \in 1..Len(a) : (a \o b)[i] = a[i]
      /\ \A i \in 1..Len(b) : (a \o b)[Len(a) + i] = b[i]
  BY Joined
<1>3. /\ c \o b \in Seq(Octet) /\ Len(c \o b) = Len(c) + Len(b)
      /\ Len(c) \in Nat
      /\ \A i \in 1..Len(c) : (c \o b)[i] = c[i]
      /\ \A i \in 1..Len(b) : (c \o b)[Len(c) + i] = b[i]
  BY <1>1, Joined
<1> DEFINE s == a \o b
           t == c \o b
<1> HIDE DEF s, t
<1>4. ASSUME NEW i \in 1..Len(t) PROVE t[i] = s[n + i]
  <2>1. CASE i <= Len(c)
    <3>1. i \in 1..Len(c) /\ n + i \in 1..Len(a)
      BY <1>1, <1>2, <1>3, <2>1
    <3> QED
      BY <1>1, <1>2, <1>3, <3>1 DEF s, t
  <2>2. CASE i > Len(c)
    <3> DEFINE j == i - Len(c)
    <3>1. /\ Len(t) = Len(c) + Len(b) /\ Len(c) \in Nat /\ Len(b) \in Nat /\ Len(a) \in Nat
          /\ Len(c) = Len(a) - n /\ n \in Nat
      BY <1>1, <1>2, <1>3 DEF t
    <3>2. j \in 1..Len(b) /\ i = Len(c) + j /\ n + i = Len(a) + j
      BY <2>2, <3>1
    <3> HIDE DEF j
    <3>3. t[Len(c) + j] = b[j] /\ s[Len(a) + j] = b[j]
      BY <1>2, <1>3, <3>2 DEF s, t
    <3> QED
      BY <3>2, <3>3
  <2> QED
    BY <1>2, <1>3, <2>1, <2>2 DEF t
<1>5. n \in 0..Len(s) /\ Len(t) = Len(s) - n
  BY <1>1, <1>2, <1>3 DEF s, t
<1> QED
  BY <1>2, <1>3, <1>4, <1>5 DEF Dropped, s, t

LEMMA Split ==
    ASSUME NEW b \in Seq(Octet), NEW n \in 1..Len(b)
    PROVE  /\ SubSeq(b, 1, n) \in Seq(Octet) /\ Len(SubSeq(b, 1, n)) = n
           /\ SubSeq(b, n + 1, Len(b)) \in Seq(Octet)
           /\ SubSeq(b, 1, n) \o SubSeq(b, n + 1, Len(b)) = b
<1>1. /\ Len(b) \in Nat /\ n \in Nat /\ 1 \in Int /\ n \in Int /\ n - 1 + 1 = n /\ 1 <= n
      /\ n \in 0..Len(b)
  OBVIOUS
<1>2. \A i \in 1..n : b[i] \in Octet
  OBVIOUS
<1>3. SubSeq(b, 1, n) \in Seq(Octet) /\ Len(SubSeq(b, 1, n)) = IF 1 <= n THEN n - 1 + 1 ELSE 0
  BY <1>1, <1>2, SubSeqProperties
<1>4. SubSeq(b, n + 1, Len(b)) \in Seq(Octet)
  BY <1>1, Rest DEF Dropped
<1>5. 1 \in 1..(Len(b) + 1) /\ n \in (1 - 1)..Len(b) /\ Len(b) \in n..Len(b)
  OBVIOUS
<1>6. SubSeq(b, 1, n) \o SubSeq(b, n + 1, Len(b)) = SubSeq(b, 1, Len(b))
  BY <1>5, ConcatAdjacentSubSeq
<1> QED
  BY <1>1, <1>3, <1>4, <1>6, SubSeqFull

\* A frame of the client extends the stream.
LEMMA JoinedSend ==
    ASSUME NEW a \in Seq(Octet), NEW b \in Seq(Octet), NEW q \in Seq(Frames), NEW n \in Nat,
           NEW e \in Seq(Octet), Len(e) = n, \A k \in 1..n : e[k] = [f |-> Len(q) + 1, k |-> k]
    PROVE  Extended(a \o (b \o e), a \o b, q, n)
<1> DEFINE s == a \o b
<1>1. a \o (b \o e) = s \o e
  BY Regroup
<1>2. s \in Seq(Octet)
  BY Joined
<1> HIDE DEF s
<1>3. /\ s \o e \in Seq(Octet) /\ Len(s \o e) = Len(s) + Len(e)
      /\ \A i \in 1..Len(s) : (s \o e)[i] = s[i]
      /\ \A i \in 1..Len(e) : (s \o e)[Len(s) + i] = e[i]
  BY <1>2, Joined
<1>4. Extended(s \o e, s, q, n)
  BY <1>2, <1>3 DEF Extended
<1> QED
  BY <1>1, <1>4 DEF s

-----------------------------------------------------------------------------
\* Framing: every action preserves SInv, up to the end of a frame with a misread length.

LEMMA Typed ==
    ASSUME FrameTypes
    PROVE  /\ buf \in Seq(Octet) /\ net \in Seq(Octet) /\ sent \in Seq(Frames) /\ done \in Seq(Nat)
           /\ Len(buf) \in Nat /\ Len(net) \in Nat /\ Len(sent) \in Nat /\ Len(done) \in Nat
           /\ Input \in Seq(Octet) /\ Len(Input) = Len(buf) + Len(net)
           /\ \A i \in 1..Len(buf) : Input[i] = buf[i]
           /\ buf # <<>> => Input # <<>> /\ Input[1] = buf[1] /\ Len(buf) >= 1
           /\ HdrLen \in Nat /\ HdrLen >= 1 /\ PrefaceLen \in Nat /\ PrefaceLen >= 1
<1>1. /\ buf \in Seq(Octet) /\ net \in Seq(Octet) /\ sent \in Seq(Frames) /\ done \in Seq(Nat)
      /\ Len(buf) \in Nat /\ Len(net) \in Nat /\ Len(sent) \in Nat /\ Len(done) \in Nat
  BY DEF FrameTypes
<1>2. /\ Input \in Seq(Octet) /\ Len(Input) = Len(buf) + Len(net)
      /\ \A i \in 1..Len(buf) : Input[i] = buf[i]
  BY <1>1, Joined DEF Input
<1>3. ASSUME buf # <<>> PROVE Input # <<>> /\ Input[1] = buf[1] /\ Len(buf) >= 1
  <2>1. Len(buf) >= 1
    BY <1>1, <1>3, EmptySeq
  <2>2. 1 \in 1..Len(buf) /\ Len(Input) >= 1
    BY <1>1, <1>2, <2>1
  <2> QED
    BY <1>2, <2>1, <2>2
<1>4. HdrLen \in Nat /\ HdrLen >= 1 /\ PrefaceLen \in Nat /\ PrefaceLen >= 1
  BY SizeAssumption
<1> QED
  BY <1>1, <1>2, <1>3, <1>4

\* While the transport works, Kept follows from the place in the stream.
LEMMA FramingFromPlace ==
    ASSUME FrameTypes, InOrder, Place, alive, ~lost
    PROVE  Kept
<1>1. CASE BeforePreface
  <2>1. CASE entry = "upgrade"
    BY <1>1, <2>1 DEF BeforePreface, Kept, PrefaceCut
  <2>2. CASE entry # "upgrade"
    <3>1. At(Input, sent, 0, 1)
      BY <1>1, <2>2 DEF BeforePreface
    <3>2. 1 <= FrameLen(sent, 0)
      BY Typed DEF FrameLen
    <3>3. Input[1] = [f |-> 0, k |-> 1]
      BY <3>1, <3>2 DEF At
    <3>4. buf = <<>> \/ buf[1].k = 1
      BY <3>3, Typed
    <3> QED
      BY <3>4 DEF Kept, InStep
  <2> QED
    BY <2>1, <2>2
<1>2. CASE InPlace
  <2>1. CASE cur # 0
    BY <2>1 DEF Kept, InStep
  <2>2. CASE cur = 0
    <3> DEFINE f == Len(done)
               k == FrameLen(sent, f) + 1
    <3>1. At(Input, sent, f, k)
      BY <1>2, <2>2 DEF InPlace
    <3>2. k > FrameLen(sent, f)
      <4>1. f \in 0..Len(sent)
        BY <3>1 DEF At
      <4>2. FrameLen(sent, f) \in Nat
        BY <4>1, Typed, FrameLens
      <4> QED
        BY <4>2
    <3> HIDE DEF f, k
    <3>3. Input = <<>> \/ Input[1].k = 1
      BY <3>1, <3>2 DEF At
    <3>4. buf = <<>> \/ buf[1].k = 1
      BY <3>3, Typed
    <3> QED
      BY <3>4 DEF Kept, InStep
  <2> QED
    BY <2>1, <2>2
<1>3. CASE OutOfPlace
  BY <1>3 DEF OutOfPlace, Kept
<1> QED
  BY <1>1, <1>2, <1>3 DEF Place

LEMMA InitF == Init => SInv
<1> SUFFICES ASSUME Init PROVE SInv
  OBVIOUS
<1>1. /\ entry \in {"switch", "upgrade"} /\ net \in {ClientPreface, NoPreface}
      /\ entry = "switch" => net = ClientPreface
      /\ sent = <<>> /\ pc = "idle" /\ buf = <<>> /\ preface = FALSE /\ cur = 0
      /\ done = <<>> /\ alive = TRUE /\ lost = FALSE
  BY DEF Init
<1>2. /\ PrefaceLen \in Nat /\ PrefaceLen >= 1
      /\ net \in Seq(Octet) /\ Len(net) = PrefaceLen
      /\ net = ClientPreface => \A i \in 1..PrefaceLen : net[i] = [f |-> 0, k |-> i]
      /\ net = NoPreface => net[1] = [f |-> 0, k |-> 0]
  <2>1. PrefaceLen \in Nat /\ PrefaceLen >= 1 /\ 1 \in 1..PrefaceLen
    BY SizeAssumption
  <2>2. [f |-> 0, k |-> 0] \in Octet /\ \A i \in 1..PrefaceLen : [f |-> 0, k |-> i] \in Octet
    BY DEF Octet
  <2>3. ClientPreface \in Seq(Octet) /\ Len(ClientPreface) = PrefaceLen
    BY <2>1, <2>2 DEF ClientPreface
  <2>4. NoPreface \in Seq(Octet) /\ Len(NoPreface) = PrefaceLen
    <3> DEFINE o == [f |-> 0, k |-> 0]
    <3>1. o \in Octet /\ NoPreface = [i \in 1..PrefaceLen |-> o]
      BY <2>2 DEF NoPreface
    <3> HIDE DEF o
    <3> QED
      BY <2>1, <3>1
  <2>5. net = ClientPreface => \A i \in 1..PrefaceLen : net[i] = [f |-> 0, k |-> i]
    BY DEF ClientPreface
  <2>6. net = NoPreface => net[1] = [f |-> 0, k |-> 0]
    BY <2>1 DEF NoPreface
  <2> QED
    BY <1>1, <2>1, <2>3, <2>4, <2>5, <2>6
<1>3. FrameTypes
  <2>1. <<>> \in Seq(Octet) /\ <<>> \in Seq(Frames) /\ <<>> \in Seq(Nat) /\ Len(sent) = 0
    BY <1>1, EmptySeq
  <2>2. preface \in BOOLEAN /\ alive \in BOOLEAN /\ lost \in BOOLEAN
    BY <1>1
  <2>3. cur \in 0..Len(sent)
    BY <1>1, <2>1
  <2> QED
    BY <1>1, <1>2, <2>1, <2>2, <2>3 DEF FrameTypes
<1>4. InOrder /\ SwitchStart /\ AtRest
  BY <1>1 DEF InOrder, Ordered, SwitchStart, AtRest
<1>5. Input = net
  BY <1>1, <1>2, ConcatEmptySeq DEF Input
<1>6. Input # <<>>
  BY <1>2, <1>5
<1>7. ASSUME net = ClientPreface PROVE BeforePreface
  <2>1. FrameLen(sent, 0) = PrefaceLen /\ Len(sent) = 0
    BY <1>1 DEF FrameLen
  <2>2. At(Input, sent, 0, 1)
    BY <1>2, <1>5, <1>6, <1>7, <2>1 DEF At
  <2>3. ASSUME NEW i \in 1..Len(net) PROVE Whole(net, sent, i)
    <3>1. net[i] = [f |-> 0, k |-> i] /\ i \in 1..PrefaceLen
      BY <1>2, <1>7
    <3>2. ASSUME NEW j \in 0..(PrefaceLen - i) PROVE net[i + j] = [f |-> 0, k |-> i + j]
      <4>1. i + j \in 1..PrefaceLen
        BY <1>2, <3>1
      <4> QED
        BY <1>2, <1>7, <4>1
    <3>3. i + (PrefaceLen - i) = Len(net) /\ i + (PrefaceLen - i) <= Len(net)
      BY <1>2, <3>1
    <3>4. net[i].f = 0 /\ net[i].k = i
      BY <3>1
    <3>5. 0 \in 0..Len(sent) /\ ~(0 < Len(sent))
      BY <2>1
    <3> QED
      BY <2>1, <3>1, <3>2, <3>3, <3>4, <3>5 DEF Whole
  <2> QED
    BY <1>1, <1>5, <1>6, <2>2, <2>3 DEF BeforePreface, Framed
<1>8. ASSUME net = NoPreface, entry = "upgrade" PROVE BeforePreface
  BY <1>1, <1>2, <1>5, <1>6, <1>8 DEF BeforePreface
<1>9. Place
  BY <1>1, <1>7, <1>8 DEF Place
<1> QED
  BY <1>1, <1>3, <1>4, <1>9 DEF SInv, Stopped

LEMMA PingStays ==
    ASSUME FrameTypes, InOrder, NEW frame \in Frames, sent' = Append(sent, frame), done' = done,
           PingHandled
    PROVE  PingHandled'
<1>1. PICK i \in DOMAIN done : sent[done[i]].type = "ping" /\ ~sent[done[i]].ack
  BY DEF PingHandled
<1>2. i \in 1..Len(done) /\ done[i] = i /\ i \in 1..Len(sent)
  <2>1. DOMAIN done = 1..Len(done) /\ Len(done) \in Nat /\ Len(sent) \in Nat
    BY Typed
  <2>2. i \in 1..Len(done)
    BY <2>1
  <2>3. done[i] = i /\ Len(done) <= Len(sent)
    BY <2>2 DEF InOrder, Ordered
  <2> QED
    BY <2>1, <2>2, <2>3
<1>3. sent'[i] = sent[i]
  BY <1>2, Typed, AppendedFrame
<1> QED
  BY <1>1, <1>2, <1>3 DEF PingHandled

LEMMA ClientSendsF ==
    ASSUME SInv, NEW frame \in Frames, ClientSends(frame)
    PROVE  SInv'
<1> DEFINE n == HdrLen + frame.len
           e == [k \in 1..n |-> [f |-> Len(sent) + 1, k |-> k]]
<1>1. /\ sent' = Append(sent, frame) /\ net' = net \o e /\ entry' = entry /\ pc' = pc /\ buf' = buf
      /\ preface' = preface /\ cur' = cur /\ done' = done /\ alive' = alive /\ lost' = lost
  BY DEF ClientSends
<1>2. FrameTypes
  BY DEF SInv
<1>3. n \in Nat /\ Len(sent') = Len(sent) + 1 /\ sent' \in Seq(Frames)
  BY <1>1, <1>2, Typed, AppendedFrame
<1>4. e \in Seq(Octet) /\ Len(e) = n /\ \A k \in 1..n : e[k] = [f |-> Len(sent) + 1, k |-> k]
  <2> HIDE DEF n
  <2>1. \A k \in 1..n : [f |-> Len(sent) + 1, k |-> k] \in Octet
    BY <1>2, <1>3, Typed DEF Octet
  <2> QED
    BY <1>3, <2>1
<1> HIDE DEF e, n
<1>5. net' \in Seq(Octet) /\ Extended(Input', Input, sent, n)
  <2>1. net \o e \in Seq(Octet)
    BY <1>2, <1>4, Typed, Joined
  <2>2. Extended(buf \o (net \o e), buf \o net, sent, n)
    BY <1>2, <1>3, <1>4, Typed, JoinedSend
  <2> QED
    BY <1>1, <2>1, <2>2 DEF Input
<1>6. FrameTypes'
  <2>1. cur' \in 0..Len(sent')
    BY <1>1, <1>2, <1>3, Typed DEF FrameTypes
  <2> QED
    BY <1>1, <1>3, <1>5, <2>1 DEF SInv, FrameTypes
<1>7. InOrder'
  BY <1>1, <1>2, <1>3, Typed DEF SInv, InOrder, Ordered
<1>8. SwitchStart'
  BY <1>1 DEF SInv, SwitchStart
<1>9. \A f \in 1..Len(sent) : sent'[f] = sent[f]
  BY <1>1, <1>2, Typed, AppendedFrame
<1>10. AtRest'
  <2>1. cur # 0 => sent'[cur] = sent[cur]
    BY <1>2, <1>9 DEF FrameTypes
  <2> QED
    BY <1>1, <2>1 DEF SInv, AtRest
<1>11. Stopped'
  BY <1>1, PingStays DEF SInv, Stopped, Kept, InStep, PrefaceCut
<1>12. Framed(Input, sent) => Framed(Input', sent')
  BY <1>1, <1>2, <1>5, Typed, FramedExtended DEF n
<1>13. ASSUME NEW f, NEW k, At(Input, sent, f, k) PROVE At(Input', sent', f, k)
  BY <1>1, <1>2, <1>5, <1>13, Typed, AtExtended DEF n
<1>14. Input # <<>> => Input' # <<>> /\ Input'[1] = Input[1]
  <2> SUFFICES ASSUME Input # <<>> PROVE Input' # <<>> /\ Input'[1] = Input[1]
    OBVIOUS
  <2>1. /\ Input' \in Seq(Octet) /\ Len(Input') = Len(Input) + n
        /\ \A i \in 1..Len(Input) : Input'[i] = Input[i]
    BY <1>5 DEF Extended
  <2>2. Input \in Seq(Octet) /\ Len(Input) \in Nat /\ Len(Input) # 0
    BY <1>2, Typed, EmptySeq
  <2>3. 1 \in 1..Len(Input) /\ Len(Input') # 0
    BY <1>3, <2>1, <2>2
  <2> QED
    BY <2>1, <2>3
<1>15. BeforePreface => BeforePreface'
  BY <1>1, <1>12, <1>13, <1>14 DEF BeforePreface
<1>16. InPlace => InPlace'
  <2> SUFFICES ASSUME InPlace PROVE InPlace'
    OBVIOUS
  <2>1. FrameLen(sent', Len(done)) = FrameLen(sent, Len(done))
    BY <1>1, <1>2, Typed, AppendedFrame DEF SInv, InOrder
  <2> QED
    BY <1>1, <1>12, <1>13, <2>1 DEF InPlace
<1>17. OutOfPlace => OutOfPlace'
  BY <1>1, <1>2, <1>12, <1>14, PingStays DEF OutOfPlace, SInv
<1>18. Place'
  BY <1>1, <1>15, <1>16, <1>17 DEF SInv, Place
<1> QED
  BY <1>6, <1>7, <1>8, <1>10, <1>11, <1>18 DEF SInv

LEMMA OnPollInF ==
    ASSUME SInv, NEW n \in 1..Len(net), OnPollIn(n)
    PROVE  SInv'
<1>1. /\ pc = "idle" /\ alive /\ ~lost /\ (entry = "switch" /\ ~preface => n >= PrefaceLen)
      /\ buf' = buf \o SubSeq(net, 1, n) /\ net' = SubSeq(net, n + 1, Len(net)) /\ pc' = "input"
      /\ entry' = entry /\ sent' = sent /\ preface' = preface /\ cur' = cur /\ done' = done
      /\ alive' = alive /\ lost' = lost
  BY DEF OnPollIn
<1>2. FrameTypes
  BY DEF SInv
<1> DEFINE e == SubSeq(net, 1, n)
           d == SubSeq(net, n + 1, Len(net))
<1>3. e \in Seq(Octet) /\ Len(e) = n /\ d \in Seq(Octet) /\ e \o d = net
  BY <1>2, Typed, Split
<1> HIDE DEF e, d
<1>4. buf \o e \in Seq(Octet) /\ Len(buf \o e) = Len(buf) + n
  BY <1>2, <1>3, Typed, Joined
<1>5. Input' = Input
  <2>1. buf \o (e \o d) = (buf \o e) \o d
    <3>1. buf \in Seq(Octet) /\ e \in Seq(Octet) /\ d \in Seq(Octet)
      BY <1>2, <1>3, Typed
    <3> QED
      BY <3>1, Regroup
  <2> QED
    BY <1>1, <1>3, <2>1 DEF Input, e, d
<1>6. FrameTypes'
  BY <1>1, <1>3, <1>4 DEF SInv, FrameTypes, e, d
<1>7. InOrder'
  BY <1>1 DEF SInv, InOrder, Ordered
<1>8. Place'
  BY <1>1, <1>5 DEF SInv, Place, BeforePreface, InPlace, OutOfPlace, PingHandled
<1>9. SwitchStart'
  <2>1. Len(buf') >= n
    BY <1>1, <1>2, <1>4, Typed DEF e
  <2>2. entry = "switch" /\ ~preface => Len(buf') >= PrefaceLen
    BY <1>1, <1>2, <1>4, <2>1, Typed DEF e
  <2> QED
    BY <1>1, <2>2 DEF SwitchStart
<1>10. AtRest'
  BY <1>1 DEF AtRest
<1>11. Stopped'
  BY <1>1 DEF Stopped
<1> QED
  BY <1>6, <1>7, <1>8, <1>9, <1>10, <1>11 DEF SInv

LEMMA ReceivePrefaceF ==
    ASSUME SInv, ReceivePreface
    PROVE  SInv'
<1>1. /\ pc = "input" /\ entry' = entry /\ net' = net /\ sent' = sent /\ cur' = cur
      /\ done' = done /\ lost' = lost
  BY DEF ReceivePreface
<1>2. FrameTypes /\ alive /\ ~lost
  BY <1>1 DEF SInv, AtRest
<1>3. InOrder'
  BY <1>1 DEF SInv, InOrder, Ordered
<1>4. CASE (preface \/ Len(buf) < PrefaceLen) /\ pc' = "frames" /\ UNCHANGED <<preface, buf, alive>>
  <2>1. Input' = Input /\ FrameTypes'
    BY <1>1, <1>4 DEF SInv, FrameTypes, Input
  <2>2. Place'
    BY <1>1, <1>4, <2>1 DEF SInv, Place, BeforePreface, InPlace, OutOfPlace, PingHandled
  <2>3. ~(entry = "switch" /\ ~preface)
    <3>1. entry = "switch" /\ ~preface => Len(buf) >= PrefaceLen
      BY <1>1 DEF SInv, SwitchStart
    <3> QED
      BY <1>2, <1>4, <3>1, Typed
  <2>4. SwitchStart' /\ AtRest' /\ Stopped'
    BY <1>1, <1>2, <1>4, <2>3 DEF SwitchStart, AtRest, Stopped
  <2> QED
    BY <1>3, <2>1, <2>2, <2>4 DEF SInv
<1>5. ASSUME ~preface PROVE BeforePreface
  BY <1>2, <1>5 DEF SInv, Place, InPlace, OutOfPlace
<1>6. ASSUME ~preface, Framed(Input, sent) /\ At(Input, sent, 0, 1)
      PROVE  /\ \A i \in 1..PrefaceLen : Input[i] = [f |-> 0, k |-> i]
             /\ \A t : Dropped(t, Input, PrefaceLen) => At(t, sent, 0, PrefaceLen + 1)
  <2>1. /\ FrameLen(sent, 0) = PrefaceLen /\ PrefaceLen \in Nat
        /\ 1 + PrefaceLen <= FrameLen(sent, 0) + 1
    BY <1>2, Typed DEF FrameLen
  <2>2. /\ \A j \in 0..(PrefaceLen - 1) : Input[1 + j] = [f |-> 0, k |-> 1 + j]
        /\ \A t : Dropped(t, Input, PrefaceLen) => At(t, sent, 0, 1 + PrefaceLen)
    <3>1. sent \in Seq(Frames) /\ Input \in Seq(Octet)
      BY <1>2, Typed
    <3>2. Ahead(Input, sent, 0, 1, PrefaceLen)
      BY <1>6, <2>1, <3>1, AtDropped
    <3> QED
      BY <3>2 DEF Ahead
  <2>3. ASSUME NEW i \in 1..PrefaceLen PROVE Input[i] = [f |-> 0, k |-> i]
    <3>1. i - 1 \in 0..(PrefaceLen - 1) /\ 1 + (i - 1) = i
      BY <2>1
    <3> QED
      BY <2>2, <3>1
  <2>4. 1 + PrefaceLen = PrefaceLen + 1
    BY <2>1
  <2> QED
    BY <2>2, <2>3, <2>4
<1>7. CASE /\ ~preface /\ Len(buf) >= PrefaceLen
           /\ \A i \in 1..PrefaceLen : buf[i] = [f |-> 0, k |-> i]
           /\ preface' = TRUE /\ buf' = Drop(PrefaceLen) /\ pc' = "frames" /\ alive' = alive
  <2>1. buf[1] = [f |-> 0, k |-> 1] /\ 1 \in 1..Len(buf)
    BY <1>2, <1>7, Typed
  <2>2. Input[1] = [f |-> 0, k |-> 1]
    BY <1>2, <2>1, Typed
  <2>3. Framed(Input, sent) /\ At(Input, sent, 0, 1) /\ done = <<>> /\ cur = 0
    <3>1. Input[1] # [f |-> 0, k |-> 0]
      BY <2>2
    <3> QED
      BY <1>5, <1>7, <3>1 DEF BeforePreface
  <2>4. PrefaceLen \in 0..Len(buf)
    BY <1>2, <1>7, Typed
  <2>5. buf' \in Seq(Octet) /\ Dropped(Input', Input, PrefaceLen)
    <3>1. Dropped(buf', buf, PrefaceLen)
      BY <1>2, <1>7, <2>4, Typed, Rest DEF Drop
    <3>2. Dropped(buf' \o net, buf \o net, PrefaceLen)
      BY <1>2, <3>1, Typed, JoinedDrop
    <3> QED
      BY <1>1, <3>1, <3>2 DEF Input, Dropped
  <2>6. At(Input', sent, 0, PrefaceLen + 1)
    BY <1>6, <1>7, <2>3, <2>5
  <2>7. Framed(Input', sent)
    BY <1>2, <2>3, <2>5, Typed, FramedDropped
  <2>8. InPlace'
    <3>1. Len(done') = 0 /\ FrameLen(sent', 0) = PrefaceLen
      BY <1>1, <2>3 DEF FrameLen
    <3>2. At(Input', sent', Len(done'), FrameLen(sent', Len(done')) + 1)
      BY <1>1, <2>6, <3>1
    <3> QED
      BY <1>1, <1>7, <2>3, <2>7, <3>2 DEF InPlace
  <2>9. FrameTypes'
    BY <1>1, <1>7, <2>5 DEF SInv, FrameTypes
  <2>10. SwitchStart' /\ AtRest' /\ Stopped' /\ Place'
    BY <1>1, <1>2, <1>7, <2>8 DEF SwitchStart, AtRest, Stopped, Place
  <2> QED
    BY <1>3, <2>9, <2>10 DEF SInv
<1>8. CASE /\ ~preface /\ Len(buf) >= PrefaceLen
           /\ \E i \in 1..PrefaceLen : buf[i] # [f |-> 0, k |-> i]
           /\ alive' = FALSE /\ pc' = "idle" /\ UNCHANGED <<preface, buf>>
  <2>1. entry = "upgrade"
    <3> SUFFICES ASSUME entry # "upgrade" PROVE FALSE
      OBVIOUS
    <3>1. Framed(Input, sent) /\ At(Input, sent, 0, 1)
      BY <1>5, <1>8 DEF BeforePreface
    <3>2. \A i \in 1..PrefaceLen : Input[i] = [f |-> 0, k |-> i]
      BY <1>6, <1>8, <3>1
    <3>3. \A i \in 1..PrefaceLen : Input[i] = buf[i]
      BY <1>2, <1>8, Typed
    <3> QED
      BY <1>8, <3>2, <3>3
  <2>2. FrameTypes'
    BY <1>1, <1>8 DEF SInv, FrameTypes
  <2>3. Place' /\ SwitchStart' /\ AtRest'
    BY <1>1, <1>8, <2>1 DEF Place, SwitchStart, AtRest
  <2>4. Stopped'
    BY <1>1, <1>8, <2>1 DEF Stopped, Kept, PrefaceCut
  <2> QED
    BY <1>3, <2>2, <2>3, <2>4 DEF SInv
<1> QED
  BY <1>4, <1>7, <1>8 DEF ReceivePreface

LEMMA AwaitMoreF ==
    ASSUME SInv, AwaitMore
    PROVE  SInv'
<1>1. /\ pc = "frames" /\ pc' = "idle" /\ entry' = entry /\ net' = net /\ sent' = sent
      /\ buf' = buf /\ preface' = preface /\ cur' = cur /\ done' = done /\ alive' = alive
      /\ lost' = lost
      /\ (cur = 0 /\ Len(buf) < HdrLen) \/ (cur # 0 /\ Len(buf) < sent[cur].length)
  BY DEF AwaitMore
<1>2. FrameTypes' /\ Input' = Input
  BY <1>1 DEF SInv, FrameTypes, Input
<1>3. InOrder' /\ Stopped'
  BY <1>1 DEF SInv, InOrder, Ordered, Stopped, AtRest
<1>4. Place'
  BY <1>1, <1>2 DEF SInv, Place, BeforePreface, InPlace, OutOfPlace, PingHandled
<1>5. SwitchStart' /\ AtRest'
  BY <1>1 DEF SInv, SwitchStart, AtRest
<1> QED
  BY <1>2, <1>3, <1>4, <1>5 DEF SInv

\* Dropping octets of the buffer.
LEMMA InputDropped ==
    ASSUME FrameTypes, NEW n \in Nat, n <= Len(buf), buf' = Drop(n), net' = net
    PROVE  buf' \in Seq(Octet) /\ Dropped(Input', Input, n) /\ Len(buf') = Len(buf) - n
<1>1. n \in 0..Len(buf) /\ buf \in Seq(Octet) /\ net \in Seq(Octet)
  BY Typed
<1>2. Dropped(buf', buf, n)
  BY <1>1, Rest DEF Drop
<1>3. Dropped(buf' \o net, buf \o net, n)
  BY <1>1, <1>2, JoinedDrop
<1> QED
  BY <1>2, <1>3 DEF Input, Dropped

LEMMA ReceiveFrameHeaderF ==
    ASSUME SInv, ReceiveFrameHeader
    PROVE  SInv'
<1> DEFINE f == buf[1].f
           header == f \in DOMAIN sent /\ \A k \in 1..HdrLen : buf[k] = [f |-> f, k |-> k]
<1>1. /\ pc = "frames" /\ cur = 0 /\ Len(buf) >= HdrLen /\ buf' = Drop(HdrLen)
      /\ entry' = entry /\ net' = net /\ sent' = sent /\ preface' = preface /\ done' = done
      /\ alive' = alive
      /\ \/ header /\ cur' = f /\ lost' = lost /\ pc' = pc
         \/ ~header /\ lost' = TRUE /\ pc' = "idle" /\ cur' = cur
  BY DEF ReceiveFrameHeader
<1>2. FrameTypes /\ alive /\ ~lost /\ ~(entry = "switch" /\ ~preface)
  BY <1>1 DEF SInv, AtRest, SwitchStart
<1>3. HdrLen \in Nat /\ HdrLen >= 1 /\ 1 \in 1..HdrLen /\ buf # <<>> /\ HdrLen <= Len(buf)
  BY <1>1, <1>2, Typed
<1>4. Input # <<>> /\ Input[1] = buf[1]
  BY <1>2, <1>3, Typed
<1>5. buf' \in Seq(Octet) /\ Dropped(Input', Input, HdrLen)
  BY <1>1, <1>2, <1>3, InputDropped
<1>6. ASSUME ~header, PrefaceCut \/ PingHandled PROVE SInv'
  <2>1. lost' = TRUE /\ pc' = "idle" /\ cur' = cur
    BY <1>1, <1>6
  <2> HIDE DEF header, f
  <2>2. FrameTypes'
    BY <1>1, <1>5, <2>1 DEF SInv, FrameTypes
  <2>3. InOrder'
    BY <1>1, <2>1 DEF SInv, InOrder, Ordered
  <2>4. Place' /\ SwitchStart' /\ AtRest'
    BY <1>1, <1>2, <2>1 DEF Place, SwitchStart, AtRest
  <2>5. Stopped'
    BY <1>1, <1>6, <2>1 DEF Stopped, Kept, PrefaceCut, PingHandled
  <2> QED
    BY <2>2, <2>3, <2>4, <2>5 DEF SInv
<1>7. CASE BeforePreface
  <2>1. PrefaceCut
    BY <1>2, <1>7 DEF PrefaceCut, BeforePreface, FrameTypes
  <2>2. Input[1].f = 0
    <3>1. At(Input, sent, 0, 1) => Input[1] = [f |-> 0, k |-> 1]
      BY <1>2, Typed DEF At, FrameLen
    <3> QED
      BY <1>7, <3>1 DEF BeforePreface
  <2>3. ~header
    <3>1. DOMAIN sent = 1..Len(sent)
      BY <1>2, Typed
    <3> QED
      BY <1>4, <2>2, <3>1
  <2> QED
    BY <1>6, <2>1, <2>3
<1>8. CASE OutOfPlace
  <2>1. buf[1].k # 1 /\ PingHandled
    BY <1>4, <1>8 DEF OutOfPlace
  <2>2. ~header
    <3> SUFFICES ASSUME header PROVE FALSE
      OBVIOUS
    <3>1. buf[1] = [f |-> f, k |-> 1]
      BY <1>3
    <3> HIDE DEF f
    <3> QED
      BY <2>1, <3>1
  <2> QED
    BY <1>6, <2>1, <2>2
<1>9. CASE InPlace
  <2> DEFINE d == Len(done)
  <2>1. At(Input, sent, d, FrameLen(sent, d) + 1) /\ Framed(Input, sent) /\ preface
    BY <1>1, <1>9 DEF InPlace
  <2>2. d \in 0..Len(sent) /\ FrameLen(sent, d) + 1 > FrameLen(sent, d) /\ d \in Nat
    <3>1. d \in 0..Len(sent)
      BY <2>1 DEF At
    <3>2. FrameLen(sent, d) \in Nat
      BY <1>2, <3>1, Typed, FrameLens
    <3> QED
      BY <1>2, <3>1, <3>2, Typed
  <2>3. d < Len(sent) /\ Input[1] = [f |-> d + 1, k |-> 1]
    BY <1>4, <2>1, <2>2 DEF At
  <2>4. f = d + 1 /\ f \in 1..Len(sent) /\ f # 0 /\ f \in 0..Len(sent)
    <3>1. f = d + 1
      BY <1>4, <2>3
    <3> HIDE DEF f, d
    <3> QED
      BY <1>2, <2>2, <2>3, <3>1, Typed
  <2> HIDE DEF d
  <2>5. /\ FrameLen(sent, f) \in Nat /\ FrameLen(sent, f) >= HdrLen
        /\ 1 \in 1..(FrameLen(sent, f) + 1) /\ 1 <= FrameLen(sent, f) /\ ~(1 > FrameLen(sent, f))
        /\ 1 + HdrLen <= FrameLen(sent, f) + 1
    <3>1. FrameLen(sent, f) \in Nat /\ FrameLen(sent, f) >= HdrLen
      BY <1>2, <2>4, Typed, FrameLens
    <3> HIDE DEF f
    <3> QED
      BY <1>3, <3>1
  <2>6. At(Input, sent, f, 1)
    <3>1. Input[1] = [f |-> f, k |-> 1]
      BY <2>3, <2>4
    <3> HIDE DEF f
    <3> QED
      BY <1>4, <2>4, <2>5, <3>1 DEF At
  <2>7. Ahead(Input, sent, f, 1, HdrLen)
    <3>1. sent \in Seq(Frames) /\ Input \in Seq(Octet)
      BY <1>2, Typed
    <3> HIDE DEF f
    <3> QED
      BY <1>3, <2>1, <2>5, <2>6, <3>1, AtDropped
  <2>8. header
    <3>1. ASSUME NEW k \in 1..HdrLen PROVE buf[k] = [f |-> f, k |-> k]
      <4>1. k - 1 \in 0..(HdrLen - 1) /\ 1 + (k - 1) = k /\ k \in 1..Len(buf)
        BY <1>2, <1>3, Typed
      <4> HIDE DEF f
      <4>2. Input[1 + (k - 1)] = [f |-> f, k |-> 1 + (k - 1)]
        BY <2>7, <4>1 DEF Ahead
      <4>3. Input[k] = buf[k]
        BY <1>2, <4>1, Typed
      <4> QED
        BY <4>1, <4>2, <4>3
    <3>2. f \in DOMAIN sent
      BY <1>2, <2>4, Typed
    <3> QED
      BY <3>1, <3>2
  <2>9. cur' = f /\ lost' = lost /\ pc' = pc
    BY <1>1, <2>8
  <2> HIDE DEF f, header
  <2>10. At(Input', sent, f, HdrLen + 1)
    <3>1. At(Input', sent, f, 1 + HdrLen)
      BY <1>5, <2>7 DEF Ahead
    <3>2. 1 + HdrLen = HdrLen + 1
      BY <1>3
    <3> QED
      BY <3>1, <3>2
  <2>11. Framed(Input', sent)
    BY <1>2, <1>5, <2>1, Typed, FramedDropped
  <2>12. Place'
    BY <1>1, <2>1, <2>4, <2>9, <2>10, <2>11 DEF Place, InPlace
  <2>13. FrameTypes'
    BY <1>1, <1>5, <2>4, <2>9 DEF SInv, FrameTypes
  <2>14. InOrder'
    BY <1>1, <2>4, <2>9 DEF SInv, InOrder, Ordered, d
  <2>15. SwitchStart' /\ AtRest' /\ Stopped'
    BY <1>1, <1>2, <2>9 DEF SwitchStart, AtRest, Stopped
  <2> QED
    BY <2>12, <2>13, <2>14, <2>15 DEF SInv
<1> QED
  BY <1>2, <1>7, <1>8, <1>9 DEF SInv, Place

\* A frame's body is there.
Handling == pc = "frames" /\ cur # 0 /\ Len(buf) >= sent[cur].length

LEMMA DieF ==
    ASSUME SInv, Handling, Die
    PROVE  SInv'
<1>1. /\ alive' = FALSE /\ pc' = "idle" /\ entry' = entry /\ net' = net /\ sent' = sent
      /\ buf' = buf /\ preface' = preface /\ cur' = cur /\ done' = done /\ lost' = lost
      /\ pc = "frames" /\ cur # 0
  BY DEF Die, Handling
<1>2. FrameTypes'
  BY <1>1 DEF SInv, FrameTypes
<1>3. InOrder'
  BY <1>1 DEF SInv, InOrder, Ordered
<1>4. Place' /\ SwitchStart' /\ AtRest'
  BY <1>1 DEF SInv, Place, SwitchStart, AtRest
<1>5. Stopped'
  BY <1>1 DEF SInv, AtRest, Stopped, Kept, InStep
<1> QED
  BY <1>2, <1>3, <1>4, <1>5 DEF SInv

\* The frame handled now, when its handler consumes n octets itself.
GoodPing == sent[cur].type = "ping" /\ ~sent[cur].ack /\ ~sent[cur].bad

Consumes(n) == n = 0 \/ (n = sent[cur].length /\ GoodPing)

LEMMA FinishF ==
    ASSUME SInv, Handling, ~Misread(cur), NEW n, Consumes(n), FinishFrame(n)
    PROVE  SInv'
<1>0. n = 0 \/ (n = sent[cur].length /\ GoodPing)
  BY DEF Consumes
<1> DEFINE L == sent[cur].length
           F == FrameLen(sent, cur)
<1>1. /\ done' = Append(done, cur) /\ cur' = 0 /\ entry' = entry /\ net' = net /\ sent' = sent
      /\ preface' = preface /\ lost' = lost /\ pc = "frames" /\ cur # 0 /\ Len(buf) >= L
      /\ \/ /\ Len(buf) >= L + n /\ buf' = Drop(L + n) /\ alive' = alive
            /\ pc' = IF buf' = <<>> THEN "idle" ELSE "frames"
         \/ /\ Len(buf) < L + n /\ alive' = FALSE /\ pc' = "idle" /\ buf' = buf
  BY DEF FinishFrame, Handling
<1>2. FrameTypes /\ alive /\ ~lost /\ cur \in 1..Len(sent) /\ cur = Len(done) + 1 /\ cur \in Nat
  <2>1. FrameTypes /\ alive /\ ~lost /\ cur \in 0..Len(sent) /\ cur = Len(done) + 1
    BY <1>1 DEF SInv, AtRest, FrameTypes, InOrder
  <2> QED
    BY <1>1, <2>1, Typed
<1>3. /\ F = HdrLen + L /\ L \in Nat /\ HdrLen \in Nat /\ HdrLen >= 1 /\ sent[cur] \in Frames
      /\ F \in Nat /\ n \in Nat /\ HdrLen + 1 + L <= F + 1 /\ (HdrLen + 1) + L = F + 1
  <2>1. cur \in 0..Len(sent) /\ sent \in Seq(Frames)
    BY <1>2, Typed
  <2>2. F = HdrLen + L /\ L \in Nat /\ HdrLen \in Nat /\ HdrLen >= 1 /\ sent[cur] \in Frames
    <3>1. /\ F = HdrLen + sent[cur].len /\ sent[cur].len \in Nat /\ HdrLen \in Nat /\ HdrLen >= 1
          /\ sent[cur] \in Frames
      BY <1>1, <2>1, FrameLens
    <3> QED
      BY <3>1 DEF Misread
  <2> HIDE DEF L, F
  <2> QED
    BY <1>0, <2>2 DEF L
<1> HIDE DEF L, F
<1>4. InPlace /\ preface /\ Framed(Input, sent) /\ At(Input, sent, cur, HdrLen + 1)
  BY <1>1, <1>2 DEF SInv, Place, BeforePreface, OutOfPlace, InPlace
<1>5. sent \in Seq(Frames) /\ Input \in Seq(Octet) /\ done \in Seq(Nat) /\ Len(done) \in Nat
  BY <1>2, Typed
<1>6. Ahead(Input, sent, cur, HdrLen + 1, L)
  <2>1. (HdrLen + 1) + L <= FrameLen(sent, cur) + 1
    BY <1>3 DEF F
  <2> QED
    BY <1>3, <1>4, <1>5, <2>1, AtDropped
<1>7. /\ done' \in Seq(Nat) /\ Len(done') = cur /\ done'[cur] = cur
      /\ \A i \in 1..Len(done) : done'[i] = done[i]
  <2>1. /\ Append(done, cur) \in Seq(Nat) /\ Len(Append(done, cur)) = Len(done) + 1
        /\ Append(done, cur)[Len(done) + 1] = cur
        /\ \A i \in 1..Len(done) : Append(done, cur)[i] = done[i]
    BY <1>2, <1>5, AppendProperties
  <2> QED
    BY <1>1, <1>2, <2>1
<1>8. InOrder'
  <2>1. ASSUME NEW i \in 1..Len(done') PROVE done'[i] = i
    <3>1. i \in 1..Len(done) \/ i = cur
      BY <1>2, <1>5, <1>7
    <3> QED
      BY <1>7, <3>1 DEF SInv, InOrder, Ordered
  <2>2. Len(done') <= Len(sent')
    BY <1>1, <1>2, <1>5, <1>7
  <2> QED
    BY <1>1, <2>1, <2>2 DEF InOrder, Ordered
<1>9. GoodPing => PingHandled'
  <2>1. cur \in DOMAIN done'
    BY <1>2, <1>7
  <2> QED
    BY <1>1, <1>7, <2>1 DEF GoodPing, PingHandled
<1>10. SwitchStart'
  BY <1>1, <1>4 DEF SwitchStart
<1>11. CASE /\ Len(buf) >= L + n /\ buf' = Drop(L + n) /\ alive' = alive
            /\ pc' = IF buf' = <<>> THEN "idle" ELSE "frames"
  <2>1. L + n \in Nat /\ L + n <= Len(buf)
    BY <1>2, <1>3, <1>11, Typed
  <2>2. buf' \in Seq(Octet) /\ Dropped(Input', Input, L + n)
    BY <1>1, <1>2, <1>11, <2>1, InputDropped
  <2>3. FrameTypes'
    <3>1. cur' \in 0..Len(sent') /\ pc' \in {"idle", "input", "frames"}
      BY <1>1, <1>2, <1>11, Typed
    <3> QED
      BY <1>1, <1>7, <1>11, <2>2, <3>1 DEF SInv, FrameTypes
  <2>4. AtRest' /\ Stopped'
    <3>1. buf' = <<>> => Len(buf') < HdrLen
      BY <1>3
    <3> QED
      BY <1>1, <1>2, <1>11, <3>1 DEF AtRest, Stopped
  <2>5. Framed(Input', sent)
    BY <1>4, <1>5, <2>2, FramedDropped
  <2>6. Place'
    <3>1. CASE n = 0
      <4>1. Dropped(Input', Input, L)
        BY <1>3, <2>2, <3>1
      <4>2. At(Input', sent, cur, (HdrLen + 1) + L)
        BY <1>6, <4>1 DEF Ahead
      <4>3. At(Input', sent, cur, FrameLen(sent, cur) + 1)
        BY <1>3, <4>2 DEF F
      <4> QED
        BY <1>1, <1>4, <1>7, <2>5, <4>3 DEF Place, InPlace
    <3>2. CASE n # 0
      <4>1. n = L /\ GoodPing /\ L >= 1
        BY <1>0, <1>3, <3>2 DEF L
      <4>2. L < HdrLen
        <5>1. sent[cur].length < HdrLen
          BY <1>3, <4>1, FramesAssumption DEF GoodPing
        <5> QED
          BY <5>1 DEF L
      <4> DEFINE t == SubSeq(Input, L + 1, Len(Input))
      <4>3. L \in 0..Len(Input) /\ Len(Input) >= L + L /\ Len(Input) \in Nat
        BY <1>2, <1>3, <2>1, <4>1, Typed
      <4>4. Dropped(t, Input, L)
        BY <1>5, <4>3, Rest
      <4> HIDE DEF t
      <4>5. At(t, sent, cur, F + 1)
        <5>1. At(t, sent, cur, (HdrLen + 1) + L)
          BY <1>6, <4>4 DEF Ahead
        <5> QED
          BY <1>3, <5>1
      <4>6. /\ t \in Seq(Octet) /\ Len(t) = Len(Input) - L /\ Len(t) >= 1 /\ t # <<>>
            /\ t[1] = Input[L + 1]
        <5>1. t \in Seq(Octet) /\ Len(t) = Len(Input) - L
          BY <4>4 DEF Dropped
        <5>2. Len(t) >= 1 /\ 1 \in 1..Len(t)
          BY <1>3, <4>1, <4>3, <5>1
        <5> QED
          BY <4>4, <5>1, <5>2 DEF Dropped
      <4>7. cur < Len(sent) /\ Input[L + 1] = [f |-> cur + 1, k |-> 1]
        <5>1. F + 1 > F
          BY <1>3
        <5> QED
          BY <4>5, <4>6, <5>1 DEF At, F
      <4> DEFINE i == L + 1
                 g == cur + 1
                 r == FrameLen(sent, g) - 1
      <4>8. i \in 1..Len(Input) /\ Input[i].f = g /\ Input[i].k = 1
        <5>1. L + 1 \in 1..Len(Input)
          BY <1>3, <4>1, <4>3
        <5>2. Input[L + 1].f = cur + 1 /\ Input[L + 1].k = 1
          <6> DEFINE o == Input[L + 1]
          <6>1. o = [f |-> cur + 1, k |-> 1]
            BY <4>7
          <6> HIDE DEF o
          <6>2. o.f = cur + 1 /\ o.k = 1
            BY <6>1
          <6> QED
            BY <6>2 DEF o
        <5> QED
          BY <5>1, <5>2
      <4>9. g \in 0..Len(sent) /\ FrameLen(sent, g) \in Nat /\ FrameLen(sent, g) >= HdrLen
        <5>1. g \in 0..Len(sent)
          BY <1>2, <4>7, Typed
        <5> HIDE DEF g
        <5> QED
          BY <1>5, <5>1, FrameLens
      <4>10. i + r <= Len(Input) /\ \A j \in 0..r : Input[i + j] = [f |-> g, k |-> 1 + j]
        <5>1. Whole(Input, sent, i)
          BY <1>4, <4>8 DEF Framed
        <5> HIDE DEF i, g
        <5> QED
          BY <4>8, <5>1 DEF Whole
      <4>11. L \in 0..r /\ i + L <= Len(Input)
        <5>1. i + r <= Len(Input) /\ FrameLen(sent, g) \in Nat /\ FrameLen(sent, g) >= HdrLen
          BY <4>9, <4>10
        <5>2. \A l \in Nat : l >= HdrLen => L \in 0..(l - 1) /\ (L + 1) + L <= (L + 1) + (l - 1)
          BY <1>3, <4>2
        <5> HIDE DEF g
        <5>3. L \in 0..r /\ i + L <= i + r
          BY <5>1, <5>2
        <5>4. i + L \in Nat /\ i + r \in Int
          BY <1>3, <5>1
        <5> HIDE DEF i, r
        <5> QED
          BY <4>3, <5>1, <5>3, <5>4
      <4>12. Input[i + L] = [f |-> g, k |-> 1 + L]
        BY <4>10, <4>11
      <4>13. Input' # <<>> /\ Input'[1] = Input[i + L]
        <5>1. /\ Input' \in Seq(Octet) /\ Len(Input') = Len(Input) - (L + n)
              /\ \A j \in 1..Len(Input') : Input'[j] = Input[(L + n) + j]
          BY <2>2 DEF Dropped
        <5>2. Len(Input') >= 1 /\ 1 \in 1..Len(Input') /\ (L + n) + 1 = i + L
          <6>1. /\ L \in Nat /\ n = L /\ Len(Input) \in Nat /\ (L + 1) + L <= Len(Input)
                /\ Len(Input') = Len(Input) - (L + n)
            BY <1>3, <4>1, <4>3, <4>11, <5>1
          <6> QED
            BY <6>1
        <5> QED
          BY <5>1, <5>2
      <4>14. Input'[1].k # 1
        <5>1. Input'[1].k = 1 + L
          BY <4>12, <4>13
        <5> QED
          BY <1>3, <4>1, <5>1
      <4> QED
        BY <1>1, <1>4, <1>9, <2>5, <4>1, <4>13, <4>14 DEF Place, OutOfPlace
    <3> QED
      BY <3>1, <3>2
  <2> QED
    BY <1>8, <1>10, <2>3, <2>4, <2>6 DEF SInv
<1>12. CASE Len(buf) < L + n /\ alive' = FALSE /\ pc' = "idle" /\ buf' = buf
  <2>1. GoodPing
    <3>1. Len(buf) \in Nat /\ L \in Nat /\ n \in Nat /\ Len(buf) >= L /\ Len(buf) < L + n
      BY <1>1, <1>2, <1>3, <1>12, Typed
    <3>2. n # 0
      BY <3>1
    <3> QED
      BY <1>0, <3>2
  <2>2. FrameTypes'
    <3>1. cur' \in 0..Len(sent')
      BY <1>1, <1>2, Typed
    <3> QED
      BY <1>1, <1>7, <1>12, <3>1 DEF SInv, FrameTypes
  <2>3. Place' /\ AtRest' /\ Stopped'
    BY <1>9, <1>12, <2>1 DEF Place, AtRest, Stopped, Kept
  <2> QED
    BY <1>8, <1>10, <2>2, <2>3 DEF SInv
<1> QED
  BY <1>1, <1>11, <1>12

\* Whatever its type, handling a frame ends in one of three ways.
Handler ==
    \/ ReceiveData \/ ReceiveHeaders \/ ReceivePing \/ ReceiveResetStream
    \/ ReceiveSettings \/ ReceiveWindowUpdate \/ IgnoreFrame

LEMMA HandlerEnds ==
    ASSUME Handler
    PROVE  Handling /\ (Die \/ FinishFrame(0) \/ (GoodPing /\ FinishFrame(sent[cur].length)))
<1> USE DEF Ready, Handling
<1>1. CASE ReceiveData
  BY <1>1 DEF ReceiveData
<1>2. CASE ReceiveHeaders
  BY <1>2 DEF ReceiveHeaders
<1>3. CASE ReceivePing
  BY <1>3 DEF ReceivePing, GoodPing
<1>4. CASE ReceiveResetStream
  BY <1>4 DEF ReceiveResetStream
<1>5. CASE ReceiveSettings
  BY <1>5 DEF ReceiveSettings
<1>6. CASE ReceiveWindowUpdate
  BY <1>6 DEF ReceiveWindowUpdate, AddConnectionWindowSize, AddStreamWindowSize
<1>7. CASE IgnoreFrame
  BY <1>7 DEF IgnoreFrame
<1> QED
  BY <1>1, <1>2, <1>3, <1>4, <1>5, <1>6, <1>7 DEF Handler

LEMMA NextIs ==
    ASSUME [Next]_vars
    PROVE  \/ \E frame \in Frames : ClientSends(frame)
           \/ \E n \in 1..Len(net) : OnPollIn(n)
           \/ ReceivePreface \/ AwaitMore \/ ReceiveFrameHeader \/ Handler \/ vars' = vars
BY DEF Next, ReceiveFrame, Handler

LEMMA SteadyNext ==
    ASSUME SInv, [Next]_vars, ~(cur # 0 /\ Misread(cur) /\ Handler /\ ~Die)
    PROVE  SInv'
<1>1. ASSUME NEW frame \in Frames, ClientSends(frame) PROVE SInv'
  BY <1>1, ClientSendsF
<1>2. ASSUME NEW n \in 1..Len(net), OnPollIn(n) PROVE SInv'
  BY <1>2, OnPollInF
<1>3. CASE ReceivePreface
  BY <1>3, ReceivePrefaceF
<1>4. CASE AwaitMore
  BY <1>4, AwaitMoreF
<1>5. CASE ReceiveFrameHeader
  BY <1>5, ReceiveFrameHeaderF
<1>6. CASE Handler
  <2>1. Handling /\ (Die \/ FinishFrame(0) \/ (GoodPing /\ FinishFrame(sent[cur].length)))
    BY <1>6, HandlerEnds
  <2>2. CASE Die
    BY <2>1, <2>2, DieF
  <2>3. ~Misread(cur) \/ Die
    BY <1>6, <2>1 DEF Handling
  <2>4. CASE FinishFrame(0) /\ ~Misread(cur)
    <3>1. Consumes(0)
      BY DEF Consumes
    <3> QED
      BY <2>1, <2>4, <3>1, FinishF
  <2>5. CASE GoodPing /\ FinishFrame(sent[cur].length) /\ ~Misread(cur)
    <3>1. Consumes(sent[cur].length)
      BY <2>5 DEF Consumes
    <3> QED
      BY <2>1, <2>5, <3>1, FinishF
  <2> QED
    BY <2>1, <2>2, <2>3, <2>4, <2>5
<1>7. CASE vars' = vars
  <2>1. /\ entry' = entry /\ net' = net /\ sent' = sent /\ pc' = pc /\ buf' = buf
        /\ preface' = preface /\ cur' = cur /\ done' = done /\ alive' = alive /\ lost' = lost
    BY <1>7 DEF vars
  <2>2. Input' = Input
    BY <2>1 DEF Input
  <2>3. FrameTypes' /\ InOrder' /\ SwitchStart' /\ AtRest'
    BY <2>1 DEF SInv, FrameTypes, InOrder, Ordered, SwitchStart, AtRest
  <2>4. Place'
    BY <2>1, <2>2 DEF SInv, Place, BeforePreface, InPlace, OutOfPlace, PingHandled
  <2>5. Stopped'
    BY <2>1 DEF SInv, Stopped, Kept, InStep, PingHandled, PrefaceCut
  <2> QED
    BY <2>3, <2>4, <2>5 DEF SInv
<1> QED
  BY <1>1, <1>2, <1>3, <1>4, <1>5, <1>6, <1>7, NextIs

-----------------------------------------------------------------------------
\* Behind a frame whose length was misread.

LEMMA CurrentFrame ==
    ASSUME FrameTypes, cur # 0
    PROVE  cur \in 1..Len(sent) /\ sent[cur] \in Frames /\ sent[cur].length \in Nat
<1>1. cur \in 0..Len(sent) /\ sent \in Seq(Frames) /\ Len(sent) \in Nat
  BY DEF FrameTypes
<1>2. cur \in 1..Len(sent) /\ sent[cur] \in Frames
  BY <1>1
<1>3. sent[cur].length \in Nat
  BY <1>2, FramesAssumption
<1> QED
  BY <1>2, <1>3

\* The end of a frame keeps the types, and the parser at rest only with an empty buffer.
LEMMA FinishTypes ==
    ASSUME FrameTypes, AtRest, Handling, NEW n \in Nat, FinishFrame(n)
    PROVE  /\ FrameTypes' /\ AtRest' /\ sent' = sent /\ preface' = preface
           /\ done' \in Seq(Nat) /\ Len(done') = Len(done) + 1 /\ done'[Len(done) + 1] = cur
           /\ \A i \in 1..Len(done) : done'[i] = done[i]
<1> DEFINE L == sent[cur].length + n
<1>1. /\ done' = Append(done, cur) /\ cur' = 0 /\ entry' = entry /\ net' = net /\ sent' = sent
      /\ preface' = preface /\ lost' = lost /\ pc = "frames" /\ cur # 0
      /\ \/ /\ Len(buf) >= L /\ buf' = Drop(L) /\ alive' = alive
            /\ pc' = IF buf' = <<>> THEN "idle" ELSE "frames"
         \/ /\ Len(buf) < L /\ alive' = FALSE /\ pc' = "idle" /\ buf' = buf
  BY DEF FinishFrame, Handling
<1>2. cur \in Nat /\ L \in Nat /\ Len(buf) \in Nat /\ alive /\ ~lost
  <2>1. cur \in 1..Len(sent) /\ sent[cur].length \in Nat /\ Len(sent) \in Nat /\ Len(buf) \in Nat
    BY <1>1, CurrentFrame, Typed
  <2>2. alive /\ ~lost
    BY <1>1 DEF AtRest
  <2> QED
    BY <2>1, <2>2
<1> HIDE DEF L
<1>3. /\ done' \in Seq(Nat) /\ Len(done') = Len(done) + 1 /\ done'[Len(done) + 1] = cur
      /\ \A i \in 1..Len(done) : done'[i] = done[i]
  BY <1>1, <1>2, Typed, AppendProperties
<1>4. buf' \in Seq(Octet)
  BY <1>1, <1>2, InputDropped, Typed
<1>5. FrameTypes'
  <2>1. cur' = 0 /\ Len(sent') \in Nat
    BY <1>1, Typed
  <2>2. cur' \in 0..Len(sent')
    BY <2>1
  <2>3. pc' \in {"idle", "input", "frames"}
    BY <1>1
  <2>4. alive' \in BOOLEAN
    BY <1>1 DEF FrameTypes
  <2> QED
    BY <1>1, <1>3, <1>4, <2>2, <2>3, <2>4 DEF FrameTypes
<1>6. AtRest'
  <2>1. buf' = <<>> => Len(buf') < HdrLen
    BY Typed
  <2> QED
    BY <1>1, <1>2, <2>1 DEF AtRest
<1> QED
  BY <1>1, <1>3, <1>5, <1>6

LEMMA OneMore ==
    ASSUME NEW a \in Nat, NEW b, b = a \/ b = a + 1
    PROVE  b \in Nat /\ b >= a
OBVIOUS

\* The frames handled stay in order up to the misread one, when one more follows.
LEMMA MisreadStays ==
    ASSUME FrameTypes, FramesInOrder, MisreadHandled,
           \A i \in 1..Len(done) : done[i] \in 1..Len(sent),
           \A i \in 1..Len(sent) : sent'[i] = sent[i],
           done' \in Seq(Nat), Len(done') \in {Len(done), Len(done) + 1},
           \A i \in 1..Len(done) : done'[i] = done[i]
    PROVE  MisreadHandled' /\ FramesInOrder'
<1>1. Len(done) \in Nat /\ DOMAIN done = 1..Len(done) /\ DOMAIN done' = 1..Len(done')
      /\ Len(done') \in Nat
  BY Typed
<1>2. ASSUME NEW i \in 1..Len(done)
      PROVE  i \in 1..Len(done') /\ (Misread(done[i])' <=> Misread(done[i]))
  <2>1. i \in 1..Len(done')
    <3>1. Len(done) \in Nat /\ Len(done') \in Nat /\ Len(done') >= Len(done)
      <4>1. Len(done) \in Nat /\ (Len(done') = Len(done) \/ Len(done') = Len(done) + 1)
        BY <1>1
      <4> QED
        BY <4>1, OneMore
    <3> QED
      BY <3>1
  <2>2. done'[i] = done[i] /\ done[i] \in 1..Len(sent) /\ sent'[done'[i]] = sent[done[i]]
    OBVIOUS
  <2> QED
    BY <2>1, <2>2 DEF Misread
<1>3. MisreadHandled'
  BY <1>1, <1>2 DEF MisreadHandled
<1>4. ASSUME NEW i \in 1..Len(done')
      PROVE  done'[i] = i \/ \E j \in 1..(i - 1) : Misread(done[j])'
  <2>1. CASE i \in 1..Len(done)
    <3>1. CASE done[i] = i
      BY <2>1, <3>1
    <3>2. CASE \E j \in 1..(i - 1) : Misread(done[j])
      <4>1. PICK j \in 1..(i - 1) : Misread(done[j])
        BY <3>2
      <4>2. j \in 1..Len(done)
        <5>1. i \in 1..Len(done) /\ j \in 1..(i - 1) /\ Len(done) \in Nat
          BY <1>1, <2>1
        <5> QED
          BY <5>1
      <4> QED
        BY <1>2, <4>1, <4>2
    <3> QED
      BY <2>1, <3>1, <3>2 DEF FramesInOrder
  <2>2. CASE i \notin 1..Len(done)
    <3>1. i - 1 = Len(done)
      <4>1. /\ i \in 1..Len(done') /\ i \notin 1..Len(done) /\ Len(done) \in Nat
            /\ Len(done') = Len(done) \/ Len(done') = Len(done) + 1
        BY <1>1, <2>2
      <4> QED
        BY <4>1
    <3>2. PICK j \in 1..Len(done) : Misread(done[j])
      BY <1>1 DEF MisreadHandled
    <3> QED
      BY <1>2, <3>1, <3>2
  <2> QED
    BY <2>1, <2>2
<1> QED
  BY <1>3, <1>4 DEF FramesInOrder

LEMMA MisreadBegins ==
    ASSUME SInv, Handling, Misread(cur), NEW n \in Nat, FinishFrame(n)
    PROVE  MInv'
<1>1. FrameTypes /\ AtRest /\ InOrder /\ pc = "frames" /\ cur # 0 /\ alive /\ ~lost
  BY DEF SInv, Handling, AtRest
<1>2. /\ FrameTypes' /\ AtRest' /\ sent' = sent /\ preface' = preface
      /\ done' \in Seq(Nat) /\ Len(done') = Len(done) + 1 /\ done'[Len(done) + 1] = cur
      /\ \A i \in 1..Len(done) : done'[i] = done[i]
  BY <1>1, FinishTypes
<1>3. preface
  BY <1>1 DEF SInv, Place, BeforePreface, OutOfPlace, InPlace
<1>4. cur = Len(done) + 1 /\ Len(done) \in Nat /\ cur \in 1..Len(sent)
      /\ \A i \in 1..Len(done) : done[i] = i
  BY <1>1, CurrentFrame, Typed DEF InOrder, Ordered
<1>5. ASSUME NEW i \in 1..Len(done') PROVE done'[i] = i /\ i \in 1..Len(sent)
  <2>1. i \in 1..Len(done) \/ i = cur
    BY <1>2, <1>4
  <2>2. Len(done) <= Len(sent) /\ Len(sent) \in Nat /\ i \in Nat /\ i >= 1
    BY <1>1, <1>2, <1>4, Typed DEF InOrder
  <2>3. CASE i \in 1..Len(done)
    BY <1>2, <1>4, <2>2, <2>3
  <2>4. CASE i = cur
    BY <1>2, <1>4, <2>4
  <2> QED
    BY <2>1, <2>3, <2>4
<1>6. MisreadHandled'
  <2>1. cur \in DOMAIN done' /\ done'[cur] = cur
    BY <1>2, <1>4
  <2> QED
    BY <1>2, <2>1 DEF MisreadHandled, Misread
<1> QED
  BY <1>2, <1>3, <1>5, <1>6 DEF MInv, FramesInOrder

LEMMA MisreadNext ==
    ASSUME MInv, [Next]_vars
    PROVE  MInv'
<1>0. FrameTypes /\ preface /\ AtRest
  BY DEF MInv
<1>1. ASSUME FrameTypes', AtRest', preface' = preface, sent' = sent, done' = done PROVE MInv'
  BY <1>1 DEF MInv, FramesInOrder, MisreadHandled, Misread
<1>2. ASSUME NEW frame \in Frames, ClientSends(frame) PROVE MInv'
  <2> DEFINE e == [k \in 1..(HdrLen + frame.len) |-> [f |-> Len(sent) + 1, k |-> k]]
  <2>1. /\ sent' = Append(sent, frame) /\ net' = net \o e /\ entry' = entry /\ pc' = pc
        /\ buf' = buf /\ preface' = preface /\ cur' = cur /\ done' = done /\ alive' = alive
        /\ lost' = lost
    BY <1>2 DEF ClientSends
  <2>2. /\ sent' \in Seq(Frames) /\ Len(sent') = Len(sent) + 1
        /\ \A i \in 1..Len(sent) : sent'[i] = sent[i]
    BY <1>0, <2>1, Typed, AppendedFrame
  <2>3. net' \in Seq(Octet)
    <3>1. HdrLen + frame.len \in Nat /\ Len(sent) \in Nat /\ net \in Seq(Octet)
      BY <1>0, Typed, AppendedFrame
    <3>2. \A k \in 1..(HdrLen + frame.len) : [f |-> Len(sent) + 1, k |-> k] \in Octet
      BY <3>1 DEF Octet
    <3>3. e \in Seq(Octet)
      BY <3>1, <3>2
    <3> HIDE DEF e
    <3> QED
      BY <2>1, <3>1, <3>3, Joined
  <2> HIDE DEF e
  <2>4. FrameTypes'
    <3>1. cur' \in 0..Len(sent')
      BY <1>0, <2>1, <2>2, Typed DEF FrameTypes
    <3> QED
      BY <1>0, <2>1, <2>2, <2>3, <3>1 DEF FrameTypes
  <2>5. AtRest'
    <3>1. cur # 0 => sent'[cur] = sent[cur]
      BY <1>0, <2>2, CurrentFrame
    <3> QED
      BY <1>0, <2>1, <3>1 DEF AtRest
  <2>6. \A i \in 1..Len(done') : done'[i] \in 1..Len(sent')
    <3>1. Len(sent) \in Nat /\ Len(sent') = Len(sent) + 1
          /\ \A i \in 1..Len(done) : done[i] \in 1..Len(sent)
      BY <1>0, <2>2, Typed DEF MInv
    <3>2. \A x \in 1..Len(sent) : x \in 1..Len(sent')
      BY <3>1
    <3> QED
      BY <2>1, <3>1, <3>2
  <2>7. MisreadHandled' /\ FramesInOrder'
    <3>1. done' \in Seq(Nat) /\ Len(done') \in {Len(done), Len(done) + 1}
      BY <1>0, <2>1, Typed
    <3> QED
      BY <1>0, <2>1, <2>2, <3>1, MisreadStays DEF MInv
  <2> QED
    BY <1>0, <2>1, <2>4, <2>5, <2>6, <2>7 DEF MInv
<1>3. ASSUME NEW n \in 1..Len(net), OnPollIn(n) PROVE MInv'
  <2>1. /\ buf' = buf \o SubSeq(net, 1, n) /\ net' = SubSeq(net, n + 1, Len(net)) /\ pc' = "input"
        /\ entry' = entry /\ sent' = sent /\ preface' = preface /\ cur' = cur /\ done' = done
        /\ alive' = alive /\ lost' = lost /\ alive /\ ~lost
    BY <1>3 DEF OnPollIn
  <2> DEFINE e == SubSeq(net, 1, n)
             d == SubSeq(net, n + 1, Len(net))
  <2>2. e \in Seq(Octet) /\ d \in Seq(Octet)
    BY <1>0, Typed, Split
  <2> HIDE DEF e, d
  <2>3. buf \o e \in Seq(Octet)
    BY <1>0, <2>2, Typed, Joined
  <2>4. FrameTypes'
    BY <1>0, <2>1, <2>2, <2>3 DEF FrameTypes, e, d
  <2>5. AtRest'
    BY <2>1 DEF AtRest
  <2> QED
    BY <1>1, <2>1, <2>4, <2>5
<1>4. CASE ReceivePreface
  <2>1. /\ pc = "input" /\ pc' = "frames" /\ entry' = entry /\ net' = net /\ sent' = sent
        /\ cur' = cur /\ done' = done /\ lost' = lost /\ UNCHANGED <<preface, buf, alive>>
    BY <1>0, <1>4 DEF ReceivePreface
  <2>2. FrameTypes' /\ AtRest'
    BY <1>0, <2>1 DEF FrameTypes, AtRest
  <2> QED
    BY <1>1, <2>1, <2>2
<1>5. CASE AwaitMore
  <2>1. /\ pc = "frames" /\ pc' = "idle" /\ entry' = entry /\ net' = net /\ sent' = sent
        /\ buf' = buf /\ preface' = preface /\ cur' = cur /\ done' = done /\ alive' = alive
        /\ lost' = lost
        /\ (cur = 0 /\ Len(buf) < HdrLen) \/ (cur # 0 /\ Len(buf) < sent[cur].length)
    BY <1>5 DEF AwaitMore
  <2>2. FrameTypes' /\ AtRest'
    BY <1>0, <2>1 DEF FrameTypes, AtRest
  <2> QED
    BY <1>1, <2>1, <2>2
<1>6. CASE ReceiveFrameHeader
  <2>1. /\ pc = "frames" /\ Len(buf) >= HdrLen /\ buf' = Drop(HdrLen)
        /\ entry' = entry /\ net' = net /\ sent' = sent /\ preface' = preface /\ done' = done
        /\ alive' = alive
        /\ \/ cur' \in DOMAIN sent /\ lost' = lost /\ pc' = pc
           \/ lost' = TRUE /\ pc' = "idle" /\ cur' = cur
    BY <1>6 DEF ReceiveFrameHeader
  <2>2. buf' \in Seq(Octet) /\ cur' \in 0..Len(sent')
    <3>1. HdrLen <= Len(buf) /\ HdrLen \in Nat /\ DOMAIN sent = 1..Len(sent)
      BY <1>0, <2>1, Typed
    <3> QED
      BY <1>0, <2>1, <3>1, InputDropped, Typed DEF FrameTypes
  <2>3. FrameTypes'
    <3>1. pc' \in {"idle", "input", "frames"} /\ lost' \in BOOLEAN
      BY <1>0, <2>1 DEF FrameTypes
    <3> QED
      BY <1>0, <2>1, <2>2, <3>1 DEF FrameTypes
  <2>4. AtRest'
    BY <1>0, <2>1 DEF AtRest
  <2> QED
    BY <1>1, <2>1, <2>3, <2>4
<1>7. CASE Handler
  <2>1. Handling /\ (Die \/ FinishFrame(0) \/ FinishFrame(sent[cur].length))
    BY <1>7, HandlerEnds
  <2>2. CASE Die
    <3>1. /\ alive' = FALSE /\ pc' = "idle" /\ entry' = entry /\ net' = net /\ sent' = sent
          /\ buf' = buf /\ preface' = preface /\ cur' = cur /\ done' = done /\ lost' = lost
      BY <2>2 DEF Die
    <3>2. FrameTypes' /\ AtRest'
      BY <1>0, <3>1 DEF FrameTypes, AtRest
    <3> QED
      BY <1>1, <3>1, <3>2
  <2>3. ASSUME NEW n \in Nat, FinishFrame(n) PROVE MInv'
    <3>1. /\ FrameTypes' /\ AtRest' /\ sent' = sent /\ preface' = preface
          /\ done' \in Seq(Nat) /\ Len(done') = Len(done) + 1 /\ done'[Len(done) + 1] = cur
          /\ \A i \in 1..Len(done) : done'[i] = done[i]
      BY <1>0, <2>1, <2>3, FinishTypes
    <3>2. cur \in 1..Len(sent)
      BY <1>0, <2>1, CurrentFrame DEF Handling
    <3>3. ASSUME NEW i \in 1..Len(done') PROVE done'[i] \in 1..Len(sent')
      <4>1. i \in 1..Len(done) \/ i = Len(done) + 1
        BY <1>0, <3>1, Typed
      <4> QED
        BY <3>1, <3>2, <4>1 DEF MInv
    <3>4. MisreadHandled' /\ FramesInOrder'
      BY <1>0, <3>1, MisreadStays DEF MInv
    <3> QED
      BY <1>0, <3>1, <3>3, <3>4 DEF MInv
  <2>4. sent[cur].length \in Nat
    BY <1>0, <2>1, CurrentFrame DEF Handling
  <2> QED
    BY <2>1, <2>2, <2>3, <2>4
<1>8. CASE vars' = vars
  <2>1. FrameTypes' /\ AtRest' /\ preface' = preface /\ sent' = sent /\ done' = done
    BY <1>0, <1>8 DEF vars, FrameTypes, AtRest
  <2> QED
    BY <1>1, <2>1
<1> QED
  BY <1>2, <1>3, <1>4, <1>5, <1>6, <1>7, <1>8, NextIs

LEMMA NextF == FInv /\ [Next]_vars => FInv'
<1> SUFFICES ASSUME FInv, [Next]_vars PROVE FInv'
  OBVIOUS
<1>1. CASE MInv
  BY <1>1, MisreadNext DEF FInv
<1>2. CASE SInv /\ ~(cur # 0 /\ Misread(cur) /\ Handler /\ ~Die)
  BY <1>2, SteadyNext DEF FInv
<1>3. CASE SInv /\ cur # 0 /\ Misread(cur) /\ Handler /\ ~Die
  <2>1. Handling /\ (FinishFrame(0) \/ FinishFrame(sent[cur].length))
    BY <1>3, HandlerEnds
  <2>2. sent[cur].length \in Nat
    BY <1>3, CurrentFrame DEF SInv
  <2>3. ASSUME NEW n \in Nat, FinishFrame(n) PROVE MInv'
    BY <1>3, <2>1, <2>3, MisreadBegins
  <2> QED
    BY <2>1, <2>2, <2>3 DEF FInv
<1> QED
  BY <1>1, <1>2, <1>3 DEF FInv

LEMMA InitFraming == Init => FInv
BY InitF DEF FInv

LEMMA FramingInvariant == Spec => []FInv
BY InitFraming, NextF, PTL DEF Spec

\* Frames are handled in the order the client sent them, none skipped and none twice, however
\* receiveFrames' input is cut, up to one whose length readFrameHeader misread.
THEOREM FrameOrder == Spec => []FramesInOrder
<1>1. FInv => FramesInOrder
  BY DEF FInv, SInv, MInv, InOrder, Ordered, FramesInOrder
<1> QED
  BY <1>1, FramingInvariant, PTL

\* What receiveFrameHeader takes for a frame header is one, but after a PING, whose payload is
\* consumed twice, after an upgrade before the preface, and behind a frame whose length
\* readFrameHeader misread.
THEOREM FramingHolds == Spec => []FramingKept
<1>1. FInv => FramingKept
  <2> SUFFICES ASSUME FInv PROVE FramingKept
    OBVIOUS
  <2>1. CASE SInv /\ (~alive \/ lost)
    BY <2>1 DEF SInv, Stopped, Kept, FramingKept
  <2>2. CASE SInv /\ alive /\ ~lost
    BY <2>2, FramingFromPlace DEF SInv, Kept, FramingKept
  <2>3. CASE MInv
    BY <2>3 DEF MInv, FramingKept
  <2> QED
    BY <2>1, <2>2, <2>3 DEF FInv
<1> QED
  BY <1>1, FramingInvariant, PTL

LEMMA EveryFrameHandled ==
    ASSUME SInv
    PROVE  NoFrameLeft
<1> SUFFICES ASSUME pc = "idle", net = <<>>, alive, ~PingHandled, ~PrefaceCut,
                    cur # 0 => ~Misread(cur)
             PROVE  Len(done) = Len(sent)
  BY DEF NoFrameLeft
<1>1. FrameTypes
  BY DEF SInv
<1>2. ~lost
  BY DEF SInv, Stopped, Kept, InStep
<1>3. Input = buf
  BY <1>1, Typed, ConcatEmptySeq DEF Input
<1>4. preface
  <2> SUFFICES ASSUME ~preface PROVE FALSE
    OBVIOUS
  <2>1. entry = "switch" /\ buf = <<>>
    BY <1>1 DEF SInv, FrameTypes, PrefaceCut, SwitchStart
  <2>2. BeforePreface
    BY <1>2 DEF SInv, Place, InPlace, OutOfPlace
  <2> QED
    BY <1>3, <2>1, <2>2 DEF BeforePreface
<1>5. InPlace
  BY <1>2, <1>4 DEF SInv, Place, BeforePreface, OutOfPlace
<1>6. sent \in Seq(Frames) /\ Input \in Seq(Octet) /\ Len(sent) \in Nat /\ Len(done) \in Nat
  BY <1>1, Typed
<1>7. CASE cur = 0
  <2> DEFINE d == Len(done)
             F == FrameLen(sent, d)
  <2>1. At(Input, sent, d, F + 1) /\ Framed(Input, sent) /\ Len(Input) < HdrLen
    BY <1>2, <1>3, <1>4, <1>5, <1>7 DEF InPlace, SInv, AtRest
  <2>2. d \in 0..Len(sent)
    BY <2>1 DEF At
  <2>3. F \in Nat /\ F + 1 > F
    <3>1. F \in Nat
      BY <1>6, <2>2, FrameLens
    <3> QED
      BY <3>1
  <2> HIDE DEF F
  <2>4. ASSUME d < Len(sent) PROVE FALSE
    <3>1. Input # <<>> /\ Input[1] = [f |-> d + 1, k |-> 1]
      BY <2>1, <2>3, <2>4 DEF At, F
    <3>2. d + 1 \in 0..Len(sent)
      BY <1>6, <2>4
    <3> DEFINE g == d + 1
    <3> HIDE DEF g
    <3>3. FrameLen(sent, g) \in Nat /\ FrameLen(sent, g) >= HdrLen /\ HdrLen \in Nat
      BY <1>6, <3>2, FrameLens DEF g
    <3>4. 1 \in 1..Len(Input) /\ Input[1].f = g /\ Input[1].k = 1
      <4>1. 1 \in 1..Len(Input)
        BY <1>6, <3>1, EmptySeq
      <4>2. Input[1] = [f |-> g, k |-> 1]
        BY <3>1 DEF g
      <4> QED
        BY <4>1, <4>2
    <3>5. Whole(Input, sent, 1)
      BY <2>1, <3>4 DEF Framed
    <3>6. 1 + (FrameLen(sent, g) - 1) <= Len(Input)
      BY <3>4, <3>5 DEF Whole
    <3> QED
      BY <1>6, <2>1, <3>3, <3>6
  <2> QED
    BY <1>6, <2>2, <2>4
<1>8. CASE cur # 0
  <2>1. At(Input, sent, cur, HdrLen + 1) /\ Framed(Input, sent) /\ Len(Input) < sent[cur].length
    BY <1>2, <1>3, <1>4, <1>5, <1>8 DEF InPlace, SInv, AtRest
  <2> DEFINE l == sent[cur].length
  <2>2. cur \in 0..Len(sent)
    BY <2>1 DEF At
  <2>3. FrameLen(sent, cur) = HdrLen + l /\ l \in Nat /\ HdrLen \in Nat
    <3>1. FrameLen(sent, cur) = HdrLen + sent[cur].len /\ sent[cur].len \in Nat /\ HdrLen \in Nat
      BY <1>6, <1>8, <2>2, FrameLens
    <3> QED
      BY <1>8, <3>1 DEF Misread
  <2> HIDE DEF l
  <2>4. (HdrLen + 1) + l <= FrameLen(sent, cur) + 1
    BY <2>3
  <2>5. Ahead(Input, sent, cur, HdrLen + 1, l)
    BY <1>6, <2>1, <2>3, <2>4, AtDropped
  <2>6. l <= Len(Input)
    BY <2>5 DEF Ahead
  <2> QED
    BY <1>6, <2>1, <2>3, <2>6 DEF l
<1> QED
  BY <1>7, <1>8

\* With all input read and the parser at rest, every frame has been handled, unless the parser
\* lost its place in one of the three ways or waits for the body a misread header promised.
THEOREM NoneLeft == Spec => []NoFrameLeft
<1>1. FInv => NoFrameLeft
  BY EveryFrameHandled DEF FInv, MInv, NoFrameLeft
<1> QED
  BY <1>1, FramingInvariant, PTL

-----------------------------------------------------------------------------
\* Windows and answers.

\* No stream outlives its answer but stream 1; no stream's window is negative.
WInv ==
    /\ updated \in BOOLEAN /\ streams \subseteq {1}
    /\ win \in [StreamIds -> 0..IntMax]
    /\ connWin \in 0..(Modulus - 1)
    /\ replies \in Seq(Answer)

LEMMA Wrapped ==
    /\ IntMax \in Nat /\ Modulus \in Nat /\ Modulus = 2 * (IntMax + 1) /\ IntMax < Modulus
    /\ \A x \in Int : x % Modulus \in 0..(Modulus - 1)
    /\ \A x \in 0..IntMax : x % Modulus = x /\ x >= x
<1>1. IntMax \in Nat
  BY SizeAssumption
<1>2. Modulus \in Nat /\ Modulus = 2 * (IntMax + 1) /\ IntMax < Modulus
  BY <1>1 DEF Modulus
<1> HIDE DEF Modulus
<1>3. \A x \in Int : x % Modulus \in 0..(Modulus - 1)
  BY <1>1, <1>2
<1>4. \A x \in 0..IntMax : x % Modulus = x /\ x >= x
  BY <1>1, <1>2
<1> QED
  BY <1>1, <1>2, <1>3, <1>4

LEMMA AReply ==
    ASSUME NEW type \in {"settings", "headers", "ping"}, NEW s \in Nat
    PROVE  <<<<type, s>>>> \in Seq(Answer)
<1> DEFINE r == <<type, s>>
<1>1. r \in Answer
  BY DEF Answer
<1> HIDE DEF r
<1>2. <<r>> \in Seq(Answer)
  BY <1>1
<1> QED
  BY <1>2 DEF r

LEMMA InitW == Init => WInv
<1> SUFFICES ASSUME Init PROVE WInv
  OBVIOUS
<1>1. /\ streams = {1} /\ win = [s \in StreamIds |-> InitWindow] /\ connWin = InitWindow
      /\ updated = FALSE
      /\ replies = SendPreface \/ replies = SendPreface \o <<<<"headers", 1>>>>
  BY DEF Init
<1>2. InitWindow \in 0..IntMax /\ InitWindow \in 0..(Modulus - 1)
  BY Wrapped, SizeAssumption
<1>3. replies \in Seq(Answer)
  <2>1. SendPreface \in Seq(Answer)
    BY AReply DEF SendPreface
  <2>2. <<<<"headers", 1>>>> \in Seq(Answer)
    BY AReply
  <2> QED
    BY <1>1, <2>1, <2>2, ConcatProperties
<1> QED
  BY <1>1, <1>2, <1>3 DEF WInv

\* What an action does to the windows and answers: nothing to the window of a stream that stays
\* but raise it.
WStep == WInv' /\ \A s \in streams \cap streams' : win'[s] >= win[s]

LEMMA GrownW ==
    ASSUME WInv, streams' = streams, win' = win, connWin' \in 0..(Modulus - 1),
           updated' \in BOOLEAN, replies' \in Seq(Answer)
    PROVE  WStep
<1>1. streams' = streams /\ win' = win
  OBVIOUS
<1>2. WInv'
  BY DEF WInv
<1>3. ASSUME NEW s \in streams PROVE win[s] >= win[s]
  <2>1. s \in StreamIds /\ win[s] \in 0..IntMax
    BY DEF WInv, StreamIds
  <2> QED
    BY <2>1, Wrapped
<1> QED
  BY <1>1, <1>2, <1>3 DEF WStep

LEMMA SameW ==
    ASSUME WInv, UNCHANGED windows, replies' = replies
    PROVE  WStep
<1>1. streams' = streams /\ win' = win /\ connWin' = connWin /\ updated' = updated
  BY DEF windows
<1>2. /\ connWin' \in 0..(Modulus - 1) /\ updated' \in BOOLEAN
      /\ replies' \in Seq(Answer)
  BY <1>1 DEF WInv
<1> QED
  BY <1>1, <1>2, GrownW

\* The frame being handled.
LEMMA Current ==
    ASSUME FInv, Handling
    PROVE  /\ sent[cur] \in Frames /\ sent[cur].streamId \in StreamIds /\ sent[cur].streamId \in Nat
           /\ sent[cur].val \in 0..(Modulus - 1)
<1>1. cur \in 1..Len(sent) /\ sent \in Seq(Frames)
  <2>1. cur \in 0..Len(sent) /\ sent \in Seq(Frames) /\ cur # 0 /\ Len(sent) \in Nat
    BY DEF FInv, SInv, MInv, FrameTypes, Handling
  <2> QED
    BY <2>1
<1>2. sent[cur] \in Frames
  BY <1>1
<1>3. sent[cur].streamId \in StreamIds
  BY <1>2 DEF StreamIds
<1>4. sent[cur].streamId \in Nat /\ sent[cur].val \in 0..(2 * IntMax + 1)
  BY <1>2, FramesAssumption
<1>5. 2 * IntMax + 1 = Modulus - 1
  BY Wrapped
<1> QED
  BY <1>2, <1>3, <1>4, <1>5

LEMMA ReplyW ==
    ASSUME WInv, NEW type \in {"settings", "headers", "ping"}, NEW s \in Nat, Reply(type, s)
    PROVE  replies' \in Seq(Answer)
<1>1. <<type, s>> \in Answer /\ replies \in Seq(Answer)
  BY DEF WInv, Answer
<1> QED
  BY <1>1, AppendProperties DEF Reply

LEMMA EndStreamW ==
    ASSUME WInv, NEW s \in StreamIds, EndStream(s), connWin' = connWin, updated' = updated,
           replies' \in Seq(Answer)
    PROVE  WStep
<1>1. streams' = streams \ {s} /\ win' = [win EXCEPT ![s] = InitWindow]
  BY DEF EndStream
<1>2. win \in [StreamIds -> 0..IntMax] /\ streams \subseteq {1} /\ InitWindow \in 0..IntMax
  BY SizeAssumption DEF WInv
<1>3. win' \in [StreamIds -> 0..IntMax]
  BY <1>1, <1>2
<1>4. WInv'
  BY <1>1, <1>2, <1>3 DEF WInv
<1>5. ASSUME NEW x \in streams \cap streams' PROVE win'[x] >= win[x]
  <2>1. x # s /\ x \in StreamIds
    BY <1>1, <1>2 DEF StreamIds
  <2>2. win'[x] = win[x] /\ win[x] \in 0..IntMax
    BY <1>1, <1>2, <2>1
  <2> QED
    BY <2>2, Wrapped
<1> QED
  BY <1>4, <1>5 DEF WStep

\* Window updates do not wrap around.
LEMMA AddStreamW ==
    ASSUME WInv, NEW s \in StreamIds, NEW inc \in 0..(Modulus - 1), AddStreamWindowSize(s, inc)
    PROVE  WStep
<1>1. CASE Die
  BY <1>1, SameW DEF Die
<1>2. CASE /\ s \notin streams \/ WindowAddable(win[s], inc)
           /\ win' = IF s \in streams
                     THEN [win EXCEPT ![s] = Signed(Unsigned(@ + inc))] ELSE win
           /\ UNCHANGED <<streams, connWin, updated, replies>>
  <2>1. streams' = streams /\ connWin' = connWin /\ updated' = updated /\ replies' = replies
    BY <1>2
  <2>2. win \in [StreamIds -> 0..IntMax] /\ streams \subseteq {1}
    BY DEF WInv
  <2>3. CASE s \notin streams
    <3>1. win' = win
      BY <1>2, <2>3
    <3> QED
      BY <2>1, <3>1, SameW DEF windows
  <2>4. CASE s \in streams
    <3> DEFINE w == win[s]
               v == Signed(Unsigned(w + inc))
    <3>1. w \in 0..IntMax /\ IntMax \in Nat
      BY <2>2, Wrapped
    <3>2. inc >= 1 /\ (w < 0 \/ inc <= IntMax - w)
      BY <1>2, <2>4 DEF WindowAddable
    <3>3. win' = [win EXCEPT ![s] = v]
      BY <1>2, <2>4
    <3>4. v = w + inc /\ w + inc \in 0..IntMax
      <4> HIDE DEF w
      <4>1. w + inc \in 0..IntMax
        BY <3>1, <3>2, Wrapped
      <4>2. Unsigned(w + inc) = w + inc
        BY <4>1, Wrapped DEF Unsigned
      <4>3. ~(w + inc > IntMax)
        BY <3>1, <4>1
      <4> QED
        BY <4>1, <4>2, <4>3 DEF Signed
    <3>5. v >= w
      <4> HIDE DEF w, v
      <4> QED
        BY <3>1, <3>2, <3>4, Wrapped
    <3> HIDE DEF v
    <3>6. win' \in [StreamIds -> 0..IntMax]
      BY <2>2, <3>3, <3>4
    <3>7. WInv'
      BY <2>1, <3>6 DEF WInv
    <3>8. ASSUME NEW x \in streams \cap streams' PROVE win'[x] >= win[x]
      <4>1. x \in StreamIds
        BY <2>2 DEF StreamIds
      <4>2. CASE x = s
        BY <2>2, <3>3, <3>5, <4>2
      <4>3. CASE x # s
        <5>1. win'[x] = win[x] /\ win[x] \in 0..IntMax
          BY <2>2, <3>3, <4>1, <4>3
        <5> QED
          BY <5>1, Wrapped
      <4> QED
        BY <4>2, <4>3
    <3> QED
      BY <3>7, <3>8 DEF WStep
  <2> QED
    BY <2>3, <2>4
<1> QED
  BY <1>1, <1>2 DEF AddStreamWindowSize

LEMMA AddConnectionW ==
    ASSUME WInv, NEW inc \in 0..(Modulus - 1), AddConnectionWindowSize(inc)
    PROVE  WStep
<1>1. CASE Die
  BY <1>1, SameW DEF Die
<1>2. CASE /\ connWin' = Unsigned(Signed(connWin) + inc) /\ updated' = TRUE
           /\ UNCHANGED <<streams, win, replies>>
  <2>1. /\ streams' = streams /\ win' = win /\ updated' \in BOOLEAN
        /\ replies' \in Seq(Answer)
    BY <1>2 DEF WInv
  <2>2. Signed(connWin) \in Int /\ inc \in Int
    BY Wrapped DEF WInv, Signed
  <2>3. Signed(connWin) + inc \in Int
    BY <2>2
  <2>4. connWin' \in 0..(Modulus - 1)
    BY <1>2, <2>3, Wrapped DEF Unsigned
  <2> QED
    BY <2>1, <2>4, GrownW
<1> QED
  BY <1>1, <1>2 DEF AddConnectionWindowSize

LEMMA HandlerW ==
    ASSUME FInv, WInv, Handler
    PROVE  WStep
<1> DEFINE f == sent[cur]
<1>0. Handling /\ f \in Frames /\ f.streamId \in StreamIds /\ f.streamId \in Nat /\ f.val \in 0..(Modulus - 1)
  BY HandlerEnds, Current
<1>1. CASE Die
  BY <1>1, SameW DEF Die
<1>2. CASE UNCHANGED <<windows, replies>>
  BY <1>2, SameW
<1>3. CASE ReceiveHeaders /\ ~Die
  <2>1. OnRequest(f.streamId) /\ EndStream(f.streamId) /\ connWin' = connWin /\ updated' = updated
    BY <1>3 DEF ReceiveHeaders
  <2>2. replies' \in Seq(Answer)
    BY <1>0, <2>1, ReplyW DEF OnRequest
  <2> HIDE DEF f
  <2> QED
    BY <1>0, <2>1, <2>2, EndStreamW
<1>4. CASE ReceivePing /\ ~Die /\ ~UNCHANGED <<windows, replies>>
  <2>1. Reply("ping", 0) /\ UNCHANGED windows
    BY <1>4 DEF ReceivePing
  <2>2. replies' \in Seq(Answer)
    BY <2>1, ReplyW
  <2>3. /\ streams' = streams /\ win' = win /\ connWin' \in 0..(Modulus - 1)
        /\ updated' \in BOOLEAN
    BY <2>1 DEF windows, WInv
  <2> QED
    BY <2>2, <2>3, GrownW
<1>5. CASE ReceiveResetStream /\ ~Die
  <2>1. EndStream(f.streamId) /\ connWin' = connWin /\ updated' = updated /\ replies' = replies
    BY <1>5 DEF ReceiveResetStream
  <2>2. replies' \in Seq(Answer)
    BY <2>1 DEF WInv
  <2> HIDE DEF f
  <2> QED
    BY <1>0, <2>1, <2>2, EndStreamW
<1>6. CASE ReceiveSettings /\ ~Die /\ ~UNCHANGED <<windows, replies>>
  <2>1. /\ connWin' = IF updated THEN connWin ELSE f.val
        /\ Reply("settings", 0) /\ streams' = streams /\ win' = win /\ updated' = updated
    BY <1>6 DEF ReceiveSettings
  <2>2. replies' \in Seq(Answer)
    BY <2>1, ReplyW
  <2>3. connWin' \in 0..(Modulus - 1) /\ updated' \in BOOLEAN
    BY <1>0, <2>1 DEF WInv
  <2> QED
    BY <2>1, <2>2, <2>3, GrownW
<1>7. CASE ReceiveWindowUpdate /\ ~Die
  <2>1. CASE AddConnectionWindowSize(f.val)
    BY <1>0, <2>1, AddConnectionW
  <2>2. CASE AddStreamWindowSize(f.streamId, f.val)
    <3> HIDE DEF f
    <3> QED
      BY <1>0, <2>2, AddStreamW
  <2> QED
    BY <1>7, <2>1, <2>2 DEF ReceiveWindowUpdate
<1>8. CASE ReceiveData \/ IgnoreFrame
  BY <1>1, <1>2, <1>8 DEF ReceiveData, IgnoreFrame
<1> QED
  BY <1>1, <1>2, <1>3, <1>4, <1>5, <1>6, <1>7, <1>8 DEF Handler

LEMMA NextW ==
    ASSUME FInv, WInv, [Next]_vars
    PROVE  WStep
<1>1. ASSUME NEW frame \in Frames, ClientSends(frame) PROVE WStep
  BY <1>1, SameW DEF ClientSends
<1>2. ASSUME NEW n \in 1..Len(net), OnPollIn(n) PROVE WStep
  BY <1>2, SameW DEF OnPollIn
<1>3. CASE ReceivePreface
  BY <1>3, SameW DEF ReceivePreface
<1>4. CASE AwaitMore
  BY <1>4, SameW DEF AwaitMore
<1>5. CASE ReceiveFrameHeader
  BY <1>5, SameW DEF ReceiveFrameHeader
<1>6. CASE Handler
  BY <1>6, HandlerW
<1>7. CASE vars' = vars
  BY <1>7, SameW DEF vars, windows
<1> QED
  BY <1>1, <1>2, <1>3, <1>4, <1>5, <1>6, <1>7, NextIs

LEMMA WindowInvariant == Spec => []WInv
<1>1. FInv /\ WInv /\ [Next]_vars => WInv'
  BY NextW DEF WStep
<1> QED
  BY <1>1, InitW, FramingInvariant, PTL DEF Spec

\* The state of the transport has its types; in particular no window leaves its integer type.
THEOREM TransportTypes == Spec => []TypeOK
<1>1. FInv /\ WInv => TypeOK
  <2> SUFFICES ASSUME FInv, WInv PROVE TypeOK
    OBVIOUS
  <2>1. streams \subseteq StreamIds
    BY DEF WInv, StreamIds
  <2>2. win \in [StreamIds -> -IntMax..IntMax]
    <3>1. 0..IntMax \subseteq -IntMax..IntMax
      BY Wrapped
    <3> QED
      BY <3>1 DEF WInv
  <2> QED
    BY <2>1, <2>2 DEF TypeOK, FInv, SInv, MInv, FrameTypes, WInv
<1> QED
  BY <1>1, FramingInvariant, WindowInvariant, PTL

\* addWindowSize never lowers a stream's window.
THEOREM WindowsGrow == Spec => StreamWindowGrows
<1>1. FInv /\ WInv /\ [Next]_vars => [\A s \in streams \cap streams' : win'[s] >= win[s]]_vars
  BY NextW DEF WStep
<1> QED
  BY <1>1, FramingInvariant, WindowInvariant, PTL DEF Spec, StreamWindowGrows

-----------------------------------------------------------------------------
\* Answers.  FlattenSeq is defined by recursion, so that what it does to an appended sequence
\* takes an induction; see module OutputPath_proofs.

LEMMA LeastNat ==
    ASSUME NEW T \in SUBSET Nat, T # {}
    PROVE  \E x \in T : \A y \in T : x <= y
<1>1. \E R : IsWellFoundedOn(R, Nat) /\ \A x, y \in Nat : <<y, x>> \in R <=> y < x
  <2>1. IsWellFoundedOn(OpToRel(<, Nat), Nat)
    BY NatLessThanWellFounded
  <2>2. \A x, y \in Nat : <<y, x>> \in OpToRel(<, Nat) <=> y < x
    BY DEF OpToRel
  <2> WITNESS OpToRel(<, Nat)
  <2> QED
    BY <2>1, <2>2
<1>2. PICK R : IsWellFoundedOn(R, Nat) /\ \A x, y \in Nat : <<y, x>> \in R <=> y < x
  BY <1>1
<1>3. PICK x \in T : \A y \in T : ~(<<y, x>> \in R)
  BY <1>2, WFMin
<1>4. ASSUME NEW y \in T PROVE x <= y
  <2>1. x \in Nat /\ y \in Nat /\ ~(y < x)
    BY <1>2, <1>3
  <2> QED
    BY <2>1
<1> QED
  BY <1>4

LEMMA Induction ==
    ASSUME NEW T, 0 \in T, \A n \in Nat : n \in T => n + 1 \in T
    PROVE  \A n \in Nat : n \in T
<1> SUFFICES ASSUME Nat \ T # {} PROVE FALSE
  OBVIOUS
<1>1. PICK x \in Nat \ T : \A y \in Nat \ T : x <= y
  BY LeastNat
<1>2. x - 1 \in Nat /\ x - 1 \notin Nat \ T
  BY <1>1
<1> QED
  BY <1>1, <1>2

-----------------------------------------------------------------------------

\* g follows the definition of FlattenSeq(q) up to n.
FlatTo(q, n, g) == g = [i \in 1..n |-> IF i = 1 THEN q[i] ELSE g[i - 1] \o q[i]]

LEMMA FlatExists ==
    ASSUME NEW q
    PROVE  \A n \in Nat : \E g : FlatTo(q, n, g)
<1> DEFINE T == {n \in Nat : \E g : FlatTo(q, n, g)}
<1>1. 0 \in T
  <2>1. FlatTo(q, 0, [i \in 1..0 |-> q])
    BY DEF FlatTo
  <2> QED
    BY <2>1
<1>2. ASSUME NEW n \in Nat, n \in T PROVE n + 1 \in T
  <2>1. PICK g : FlatTo(q, n, g)
    BY <1>2
  <2> DEFINE h == [i \in 1..(n + 1) |-> IF i <= n THEN g[i]
                                        ELSE IF i = 1 THEN q[i] ELSE g[n] \o q[i]]
  <2>2. ASSUME NEW i \in 1..(n + 1)
        PROVE  h[i] = IF i = 1 THEN q[i] ELSE h[i - 1] \o q[i]
    <3>1. CASE i = 1
      BY <2>1, <3>1 DEF FlatTo
    <3>2. CASE i # 1 /\ i <= n
      <4>1. i - 1 \in 1..n /\ h[i - 1] = g[i - 1] /\ h[i] = g[i] /\ i \in 1..n
        BY <3>2
      <4> QED
        BY <2>1, <3>2, <4>1 DEF FlatTo
    <3>3. CASE i # 1 /\ i = n + 1
      <4>1. h[i - 1] = g[n]
        BY <3>3
      <4>2. h[i] = g[n] \o q[i]
        <5>1. ~(i <= n)
          BY <3>3
        <5> QED
          BY <3>3, <5>1
      <4> HIDE DEF h
      <4> QED
        BY <3>3, <4>1, <4>2
    <3> QED
      BY <3>1, <3>2, <3>3
  <2>3. FlatTo(q, n + 1, h)
    BY <2>2 DEF FlatTo
  <2> QED
    BY <2>3
<1> HIDE DEF T
<1>3. \A n \in Nat : n \in T
  BY <1>1, <1>2, Induction
<1> QED
  BY <1>3 DEF T

LEMMA FlatNext ==
    ASSUME NEW q, NEW g, NEW n \in Nat, FlatTo(q, n, g), NEW i \in 1..n
    PROVE  g[i] = IF i = 1 THEN q[i] ELSE g[i - 1] \o q[i]
BY DEF FlatTo

\* q and p begin with the same n elements.
Agree(q, p, n) == \A i \in 1..n : q[i] = p[i]

LEMMA FlatUnique ==
    ASSUME NEW q, NEW p, NEW g, NEW h, NEW m \in Nat, NEW n \in Nat,
           FlatTo(q, m, g), FlatTo(p, n, h), n <= m, Agree(q, p, n)
    PROVE  Agree(g, h, n)
<1> DEFINE T == {i \in Nat : i \in 1..n => g[i] = h[i]}
<1>1. 0 \in T
  OBVIOUS
<1>2. ASSUME NEW i \in Nat, i \in T PROVE i + 1 \in T
  <2> SUFFICES ASSUME i + 1 \in 1..n PROVE g[i + 1] = h[i + 1]
    OBVIOUS
  <2>1. q[i + 1] = p[i + 1] /\ (i + 1) - 1 = i /\ i + 1 \in 1..m
    BY DEF Agree
  <2>2. g[i + 1] = IF i + 1 = 1 THEN q[i + 1] ELSE g[(i + 1) - 1] \o q[i + 1]
    BY <2>1, FlatNext
  <2>3. h[i + 1] = IF i + 1 = 1 THEN p[i + 1] ELSE h[(i + 1) - 1] \o p[i + 1]
    BY FlatNext
  <2>4. i + 1 # 1 => g[i] = h[i]
    BY <1>2
  <2> QED
    BY <2>1, <2>2, <2>3, <2>4
<1> HIDE DEF T
<1>3. \A i \in Nat : i \in T
  BY <1>1, <1>2, Induction
<1> QED
  BY <1>3 DEF T, Agree

LEMMA FlattenIs ==
    ASSUME NEW S, NEW q \in Seq(S), Len(q) # 0
    PROVE  \E g : FlatTo(q, Len(q), g) /\ FlattenSeq(q) = g[Len(q)]
<1>1. FlattenSeq(q) = (CHOOSE g : FlatTo(q, Len(q), g))[Len(q)]
  BY DEF FlattenSeq, FlatTo
<1>2. \E g : FlatTo(q, Len(q), g)
  <2>1. Len(q) \in Nat
    OBVIOUS
  <2> QED
    BY <2>1, FlatExists
<1> QED
  BY <1>1, <1>2

LEMMA FlattenOfEmpty == FlattenSeq(<<>>) = <<>>
BY DEF FlattenSeq

LEMMA FlattenOfAppend ==
    ASSUME NEW S, NEW q \in Seq(Seq(S)), NEW x \in Seq(S)
    PROVE  FlattenSeq(Append(q, x)) = FlattenSeq(q) \o x
<1> DEFINE p == Append(q, x)
           n == Len(q)
<1>1. /\ p \in Seq(Seq(S)) /\ Len(p) = n + 1 /\ p[n + 1] = x /\ n \in Nat
      /\ \A i \in 1..n : p[i] = q[i]
  BY AppendProperties
<1> HIDE DEF p
<1>2. PICK h : FlatTo(p, n + 1, h) /\ FlattenSeq(p) = h[n + 1]
  <2>1. Len(p) # 0
    BY <1>1
  <2> QED
    BY <1>1, <2>1, FlattenIs
<1>3. n + 1 \in Nat /\ n <= n + 1 /\ n + 1 \in 1..(n + 1) /\ (n + 1) - 1 = n
  BY <1>1
<1>4. h[n + 1] = IF n + 1 = 1 THEN p[n + 1] ELSE h[(n + 1) - 1] \o p[n + 1]
  BY <1>2, <1>3, FlatNext
<1>5. CASE n = 0
  <2>1. q = <<>>
    BY <1>5, EmptySeq
  <2>2. FlattenSeq(q) = <<>>
    BY <2>1, FlattenOfEmpty
  <2>3. <<>> \o x = x
    BY ConcatEmptySeq
  <2>4. FlattenSeq(p) = x
    BY <1>1, <1>2, <1>4, <1>5
  <2> QED
    BY <2>2, <2>3, <2>4 DEF p
<1>6. CASE n # 0
  <2>1. PICK g : FlatTo(q, n, g) /\ FlattenSeq(q) = g[n]
    BY <1>6, FlattenIs
  <2>2. n \in 1..n /\ n + 1 # 1
    BY <1>1, <1>6
  <2> HIDE DEF n
  <2>3. h[n] = g[n]
    <3> DEFINE m == n + 1
    <3>1. /\ m \in Nat /\ n \in Nat /\ n <= m /\ FlatTo(p, m, h) /\ FlatTo(q, n, g)
          /\ Agree(p, q, n)
      BY <1>1, <1>2, <1>3, <2>1 DEF Agree
    <3> HIDE DEF m
    <3>2. Agree(h, g, n)
      BY <3>1, FlatUnique
    <3> QED
      BY <2>2, <3>2 DEF Agree
  <2>4. FlattenSeq(p) = g[n] \o x
    BY <1>1, <1>2, <1>3, <1>4, <2>2, <2>3
  <2> QED
    BY <2>1, <2>4 DEF p
<1> QED
  BY <1>5, <1>6

\* By induction on the length the result is a sequence too.
LEMMA FlattenType ==
    ASSUME NEW S, NEW q \in Seq(Seq(S))
    PROVE  FlattenSeq(q) \in Seq(S)
<1>1. CASE Len(q) = 0
  BY <1>1, EmptySeq, FlattenOfEmpty
<1>2. CASE Len(q) # 0
  <2> DEFINE n == Len(q)
  <2>1. PICK g : FlatTo(q, n, g) /\ FlattenSeq(q) = g[n]
    BY <1>2, FlattenIs
  <2>2. n \in Nat /\ n \in 1..n /\ \A i \in 1..n : q[i] \in Seq(S)
    BY <1>2
  <2> DEFINE T == {i \in Nat : i \in 1..n => g[i] \in Seq(S)}
  <2> HIDE DEF n
  <2>3. 0 \in T
    OBVIOUS
  <2>4. ASSUME NEW i \in Nat, i \in T PROVE i + 1 \in T
    <3> SUFFICES ASSUME i + 1 \in 1..n PROVE g[i + 1] \in Seq(S)
      OBVIOUS
    <3>1. g[i + 1] = IF i + 1 = 1 THEN q[i + 1] ELSE g[(i + 1) - 1] \o q[i + 1]
      BY <2>1, <2>2, FlatNext
    <3>2. q[i + 1] \in Seq(S) /\ (i + 1) - 1 = i
      BY <2>2
    <3>3. CASE i = 0
      BY <3>1, <3>2, <3>3
    <3>4. CASE i # 0
      <4>1. i \in 1..n /\ i + 1 # 1
        BY <2>2, <3>4
      <4>2. g[i] \in Seq(S)
        BY <2>4, <4>1
      <4>3. g[i] \o q[i + 1] \in Seq(S)
        BY <3>2, <4>2, ConcatProperties
      <4> QED
        BY <3>1, <3>2, <4>1, <4>3
    <3> QED
      BY <3>3, <3>4
  <2> HIDE DEF T
  <2>5. \A i \in Nat : i \in T
    BY <2>3, <2>4, Induction
  <2> QED
    BY <2>1, <2>2, <2>5 DEF T
<1> QED
  BY <1>1, <1>2

\* The answers the frames d of q call for.
Answers(q, d) == [i \in DOMAIN d |-> AnswerTo(q[d[i]])]

\* What the server says before the client's first frame.
Greeting == SendPreface \o (IF entry = "upgrade" THEN <<<<"headers", 1>>>> ELSE <<>>)

AInv == replies = Greeting \o FlattenSeq(Answers(sent, done))

LEMMA AnswerType ==
    ASSUME NEW f \in Frames
    PROVE  AnswerTo(f) \in Seq(Answer)
<1>1. f.streamId \in Nat
  BY FramesAssumption
<1>2. CASE f.type = "headers"
  BY <1>1, <1>2, AReply DEF AnswerTo
<1>3. CASE f.type # "headers" /\ f.type \in {"ping", "settings"} /\ ~f.ack
  <2>1. f.type \in {"settings", "headers", "ping"} /\ 0 \in Nat
    BY <1>3
  <2>2. <<<<f.type, 0>>>> \in Seq(Answer)
    BY <2>1, AReply
  <2> QED
    BY <1>3, <2>2 DEF AnswerTo
<1>4. CASE f.type # "headers" /\ ~(f.type \in {"ping", "settings"} /\ ~f.ack)
  <2>1. AnswerTo(f) = <<>>
    BY <1>4 DEF AnswerTo
  <2> QED
    BY <2>1, EmptySeq
<1> QED
  BY <1>2, <1>3, <1>4

\* d names frames of q.
Naming(q, d) == d \in Seq(Nat) /\ \A i \in 1..Len(d) : d[i] \in 1..Len(q)

LEMMA AnswersIs ==
    ASSUME NEW q \in Seq(Frames), NEW d, Naming(q, d)
    PROVE  /\ Answers(q, d) \in Seq(Seq(Answer)) /\ Len(Answers(q, d)) = Len(d)
           /\ \A i \in 1..Len(d) : d[i] \in 1..Len(q) /\ Answers(q, d)[i] = AnswerTo(q[d[i]])
<1>1. d \in Seq(Nat) /\ DOMAIN d = 1..Len(d) /\ Len(d) \in Nat /\ Len(q) \in Nat
  BY DEF Naming
<1>2. ASSUME NEW i \in 1..Len(d)
      PROVE  d[i] \in 1..Len(q) /\ AnswerTo(q[d[i]]) \in Seq(Answer)
  <2>1. d[i] \in 1..Len(q)
    BY <1>1 DEF Naming
  <2>2. q[d[i]] \in Frames
    BY <2>1
  <2> QED
    BY <2>1, <2>2, AnswerType
<1> DEFINE n == Len(d)
           A(i) == AnswerTo(q[d[i]])
<1>3. Answers(q, d) = [i \in 1..n |-> A(i)] /\ \A i \in 1..n : A(i) \in Seq(Answer)
  BY <1>1, <1>2 DEF Answers
<1> DEFINE W == Seq(Answer)
           R == Answers(q, d)
<1> HIDE DEF n, A, W, R
<1>4. R = [i \in 1..n |-> A(i)] /\ (\A i \in 1..n : A(i) \in W) /\ n \in Nat
  BY <1>1, <1>3 DEF n, W, R
<1>5. R \in Seq(W) /\ Len(R) = n /\ \A i \in 1..n : R[i] = A(i)
  BY <1>4
<1> QED
  BY <1>2, <1>5 DEF n, A, W, R

\* The answers so far do not depend on frames to come.
LEMMA AnswersKept ==
    ASSUME NEW q \in Seq(Frames), NEW d, Naming(q, d), NEW frame \in Frames
    PROVE  Answers(Append(q, frame), d) = Answers(q, d)
<1> DEFINE p == Append(q, frame)
<1>1. p \in Seq(Frames) /\ Len(p) = Len(q) + 1 /\ \A i \in 1..Len(q) : p[i] = q[i]
  BY AppendedFrame
<1> HIDE DEF p
<1>2. DOMAIN d = 1..Len(d) /\ \A i \in 1..Len(d) : d[i] \in 1..Len(q)
  BY DEF Naming
<1>3. \A i \in DOMAIN d : AnswerTo(p[d[i]]) = AnswerTo(q[d[i]])
  BY <1>1, <1>2
<1> QED
  BY <1>3 DEF Answers, p

LEMMA AnswersOfAppend ==
    ASSUME NEW q \in Seq(Frames), NEW d, Naming(q, d), NEW c \in 1..Len(q)
    PROVE  /\ Answers(q, d) \in Seq(Seq(Answer)) /\ AnswerTo(q[c]) \in Seq(Answer)
           /\ Answers(q, Append(d, c)) = Append(Answers(q, d), AnswerTo(q[c]))
<1> DEFINE n == Len(d)
           e == Append(d, c)
<1>1. d \in Seq(Nat) /\ n \in Nat /\ Len(q) \in Nat /\ c \in Nat
      /\ (\A i \in 1..n : d[i] \in 1..Len(q))
  BY DEF Naming
<1>2. e \in Seq(Nat) /\ Len(e) = n + 1 /\ e[n + 1] = c /\ \A i \in 1..n : e[i] = d[i]
  BY <1>1, AppendProperties
<1> HIDE DEF e
<1>3. \A i \in 1..(n + 1) : i \in 1..n \/ i = n + 1
  BY <1>1
<1>4. Naming(q, e)
  BY <1>1, <1>2, <1>3 DEF Naming
<1>5. q[c] \in Frames
  BY <1>1
<1>6. AnswerTo(q[c]) \in Seq(Answer)
  BY <1>5, AnswerType
<1> DEFINE A == Answers(q, e)
           B == Answers(q, d)
           x == AnswerTo(q[c])
           W == Seq(Answer)
<1>7. A \in Seq(W) /\ Len(A) = n + 1 /\ \A i \in 1..(n + 1) : A[i] = AnswerTo(q[e[i]])
  BY <1>2, <1>4, AnswersIs
<1>8. B \in Seq(W) /\ Len(B) = n /\ \A i \in 1..n : B[i] = AnswerTo(q[d[i]])
  BY AnswersIs
<1> HIDE DEF A, B, W
<1>9. /\ Append(B, x) \in Seq(W) /\ Len(Append(B, x)) = n + 1 /\ Append(B, x)[n + 1] = x
      /\ \A i \in 1..n : Append(B, x)[i] = B[i]
  <2>1. x \in W
    BY <1>6 DEF W
  <2> HIDE DEF x
  <2> QED
    BY <1>8, <2>1, AppendProperties
<1>10. ASSUME NEW i \in 1..(n + 1) PROVE A[i] = Append(B, x)[i]
  <2>1. CASE i \in 1..n
    BY <1>2, <1>7, <1>8, <1>9, <2>1
  <2>2. CASE i = n + 1
    BY <1>2, <1>7, <1>9, <2>2
  <2> QED
    BY <1>3, <2>1, <2>2
<1>11. A = Append(B, x)
  <2> DEFINE C == Append(B, x)
  <2> HIDE DEF C, n, x
  <2>1. A \in Seq(W) /\ C \in Seq(W) /\ Len(A) = Len(C) /\ \A i \in 1..Len(A) : A[i] = C[i]
    BY <1>7, <1>9, <1>10 DEF C
  <2>2. A = C
    BY <2>1, SeqEqual
  <2> QED
    BY <2>2 DEF C
<1> QED
  BY <1>6, <1>8, <1>11 DEF A, B, W, e

\* A handler that finishes its frame has answered it as the frame calls for.
Answered ==
    /\ done' = Append(done, cur) /\ sent' = sent /\ entry' = entry
    /\ replies' = replies \o AnswerTo(sent[cur])

LEMMA AppendReply ==
    ASSUME WInv, NEW type \in {"settings", "headers", "ping"}, NEW s \in Nat, Reply(type, s)
    PROVE  replies' = replies \o <<<<type, s>>>>
<1> DEFINE r == <<type, s>>
<1>1. r \in Answer /\ replies \in Seq(Answer) /\ replies' = Append(replies, r)
  BY DEF WInv, Answer, Reply
<1> HIDE DEF r
<1>2. replies' = replies \o <<r>>
  BY <1>1, AppendIsConcat
<1> QED
  BY <1>2 DEF r

LEMMA HandlerAnswers ==
    ASSUME FInv, WInv, Handler, ~Die
    PROVE  Answered
<1> DEFINE f == sent[cur]
<1>0. Handling /\ f \in Frames /\ f.streamId \in Nat
  BY HandlerEnds, Current
<1>1. done' = Append(done, cur) /\ sent' = sent /\ entry' = entry
  BY HandlerEnds DEF FinishFrame
<1>2. replies \o <<>> = replies
  BY ConcatEmptySeq DEF WInv
<1>3. CASE ReceiveHeaders
  <2>1. OnRequest(f.streamId) /\ f.type = "headers"
    BY <1>3 DEF ReceiveHeaders, Ready
  <2>2. replies' = replies \o <<<<"headers", f.streamId>>>>
    BY <1>0, <2>1, AppendReply DEF OnRequest
  <2> QED
    BY <1>1, <2>1, <2>2 DEF Answered, AnswerTo
<1>4. CASE ReceivePing
  <2>1. f.type = "ping"
    BY <1>4 DEF ReceivePing, Ready
  <2>2. CASE f.ack
    BY <1>1, <1>2, <1>4, <2>1, <2>2 DEF ReceivePing, Answered, AnswerTo
  <2>3. CASE ~f.ack
    <3>1. Reply("ping", 0)
      BY <1>4, <2>3 DEF ReceivePing
    <3>2. replies' = replies \o <<<<"ping", 0>>>>
      BY <3>1, AppendReply
    <3> QED
      BY <1>1, <2>1, <2>3, <3>2 DEF Answered, AnswerTo
  <2> QED
    BY <2>2, <2>3
<1>5. CASE ReceiveSettings
  <2>1. f.type = "settings"
    BY <1>5 DEF ReceiveSettings, Ready
  <2>2. CASE f.ack
    BY <1>1, <1>2, <1>5, <2>1, <2>2 DEF ReceiveSettings, Answered, AnswerTo
  <2>3. CASE ~f.ack
    <3>1. Reply("settings", 0)
      BY <1>5, <2>3 DEF ReceiveSettings
    <3>2. replies' = replies \o <<<<"settings", 0>>>>
      BY <3>1, AppendReply
    <3> QED
      BY <1>1, <2>1, <2>3, <3>2 DEF Answered, AnswerTo
  <2> QED
    BY <2>2, <2>3
<1>6. CASE ReceiveResetStream \/ ReceiveWindowUpdate \/ IgnoreFrame
  <2>1. f.type \in {"rst", "window", "other"}
    BY <1>6 DEF ReceiveResetStream, ReceiveWindowUpdate, IgnoreFrame, Ready
  <2>2. replies' = replies
    BY <1>6 DEF ReceiveResetStream, ReceiveWindowUpdate, IgnoreFrame, AddConnectionWindowSize,
                AddStreamWindowSize
  <2> QED
    BY <1>1, <1>2, <2>1, <2>2 DEF Answered, AnswerTo
<1> QED
  BY <1>3, <1>4, <1>5, <1>6 DEF Handler, ReceiveData

LEMMA DoneNames ==
    ASSUME FInv
    PROVE  sent \in Seq(Frames) /\ Naming(sent, done)
<1>1. FrameTypes /\ sent \in Seq(Frames) /\ done \in Seq(Nat)
  BY DEF FInv, SInv, MInv, FrameTypes
<1>2. SInv => \A i \in 1..Len(done) : done[i] \in 1..Len(sent)
  <2> SUFFICES ASSUME SInv, NEW i \in 1..Len(done) PROVE done[i] \in 1..Len(sent)
    OBVIOUS
  <2>1. done[i] = i /\ Len(done) <= Len(sent) /\ Len(done) \in Nat /\ Len(sent) \in Nat
    BY <1>1, Typed DEF SInv, InOrder, Ordered
  <2> QED
    BY <2>1
<1> QED
  BY <1>1, <1>2 DEF FInv, MInv, Naming

LEMMA GreetingType == FInv => Greeting \in Seq(Answer)
<1>1. SendPreface \in Seq(Answer)
  BY AReply DEF SendPreface
<1>2. <<<<"headers", 1>>>> \in Seq(Answer)
  BY AReply
<1>3. <<>> \in Seq(Answer)
  BY EmptySeq
<1> DEFINE g == IF entry = "upgrade" THEN <<<<"headers", 1>>>> ELSE <<>>
<1>4. g \in Seq(Answer)
  BY <1>2, <1>3
<1> HIDE DEF g
<1>5. SendPreface \o g \in Seq(Answer)
  BY <1>1, <1>4, ConcatProperties
<1> QED
  BY <1>5 DEF Greeting, g

LEMMA AnsweredA ==
    ASSUME FInv, WInv, AInv, Handling, Answered
    PROVE  AInv'
<1> DEFINE A == Answers(sent, done)
           x == AnswerTo(sent[cur])
<1>1. sent \in Seq(Frames) /\ Naming(sent, done)
  BY DoneNames
<1>2. cur \in 1..Len(sent)
  BY CurrentFrame DEF FInv, SInv, MInv, Handling
<1>3. A \in Seq(Seq(Answer)) /\ x \in Seq(Answer) /\ Answers(sent, Append(done, cur)) = Append(A, x)
  BY <1>1, <1>2, AnswersOfAppend
<1> HIDE DEF A, x
<1>4. FlattenSeq(Append(A, x)) = FlattenSeq(A) \o x /\ FlattenSeq(A) \in Seq(Answer)
  BY <1>3, FlattenOfAppend, FlattenType
<1>5. Greeting \in Seq(Answer) /\ Greeting' = Greeting
  BY GreetingType DEF Answered, Greeting
<1>6. replies' = (Greeting \o FlattenSeq(A)) \o x
  BY DEF AInv, Answered, A, x
<1>7. Greeting \o (FlattenSeq(A) \o x) = (Greeting \o FlattenSeq(A)) \o x
  BY <1>3, <1>4, <1>5, Regroup
<1>8. Answers(sent', done') = Append(A, x)
  BY <1>3 DEF Answered
<1>9. Answers(sent, done)' = Answers(sent', done')
  BY DEF Answers
<1> QED
  BY <1>4, <1>5, <1>6, <1>7, <1>8, <1>9 DEF AInv

LEMMA SameA ==
    ASSUME AInv, replies' = replies, entry' = entry, Answers(sent', done') = Answers(sent, done)
    PROVE  AInv'
<1>1. Answers(sent, done)' = Answers(sent', done') /\ Greeting' = Greeting
  BY DEF Answers, Greeting
<1> QED
  BY <1>1 DEF AInv

LEMMA InitA == Init => AInv
<1> SUFFICES ASSUME Init PROVE AInv
  OBVIOUS
<1>1. sent = <<>> /\ done = <<>> /\ FInv /\ WInv
  BY InitFraming, InitW DEF Init
<1>2. Answers(sent, done) = <<>>
  <2>1. sent \in Seq(Frames) /\ Naming(sent, done) /\ Len(done) = 0
    BY <1>1, DoneNames
  <2> DEFINE A == Answers(sent, done)
  <2>2. A \in Seq(Seq(Answer)) /\ Len(A) = 0
    BY <2>1, AnswersIs
  <2> HIDE DEF A
  <2>3. A = <<>>
    BY <2>2, EmptySeq
  <2> QED
    BY <2>3 DEF A
<1>3. FlattenSeq(Answers(sent, done)) = <<>>
  BY <1>2, FlattenOfEmpty
<1>4. Greeting \o <<>> = Greeting
  BY <1>1, GreetingType, ConcatEmptySeq
<1>5. replies = Greeting
  <2>1. CASE entry = "switch"
    <3>1. replies = SendPreface /\ Greeting = SendPreface \o <<>>
      BY <2>1 DEF Init, Greeting
    <3>2. SendPreface \in Seq(Answer)
      BY AReply DEF SendPreface
    <3> QED
      BY <3>1, <3>2, ConcatEmptySeq
  <2>2. CASE entry = "upgrade"
    BY <2>2 DEF Init, Greeting
  <2> QED
    BY <2>1, <2>2 DEF Init
<1> QED
  BY <1>3, <1>4, <1>5 DEF AInv

LEMMA NextA ==
    ASSUME FInv, WInv, AInv, [Next]_vars
    PROVE  AInv'
<1>1. ASSUME NEW frame \in Frames, ClientSends(frame) PROVE AInv'
  <2>1. sent' = Append(sent, frame) /\ done' = done /\ replies' = replies /\ entry' = entry
    BY <1>1 DEF ClientSends
  <2>2. Answers(Append(sent, frame), done) = Answers(sent, done)
    BY DoneNames, AnswersKept
  <2> QED
    BY <2>1, <2>2, SameA
<1>2. ASSUME sent' = sent, done' = done, replies' = replies, entry' = entry PROVE AInv'
  BY <1>2, SameA
<1>3. ASSUME NEW n \in 1..Len(net), OnPollIn(n) PROVE AInv'
  BY <1>2, <1>3 DEF OnPollIn
<1>4. CASE ReceivePreface
  BY <1>2, <1>4 DEF ReceivePreface
<1>5. CASE AwaitMore
  BY <1>2, <1>5 DEF AwaitMore
<1>6. CASE ReceiveFrameHeader
  BY <1>2, <1>6 DEF ReceiveFrameHeader
<1>7. CASE Handler
  <2>1. CASE Die
    BY <1>2, <2>1 DEF Die
  <2>2. CASE ~Die
    BY <1>7, <2>2, HandlerEnds, HandlerAnswers, AnsweredA
  <2> QED
    BY <2>1, <2>2
<1>8. CASE vars' = vars
  BY <1>2, <1>8 DEF vars
<1> QED
  BY <1>1, <1>3, <1>4, <1>5, <1>6, <1>7, <1>8, NextIs

\* Each frame handled has got the answer it calls for, once and in the order of the frames, after
\* the server's preface; and no stream but stream 1 outlives its answer (receiveHeaders,
\* endStream).
THEOREM AnswersInOrder == Spec => []AnsweredAndReleased
<1>1. FInv /\ WInv /\ AInv /\ [Next]_vars => AInv'
  BY NextA
<1>2. WInv /\ AInv => AnsweredAndReleased
  <2> SUFFICES ASSUME WInv, AInv PROVE AnsweredAndReleased
    OBVIOUS
  <2>1. streams \subseteq {1}
    BY DEF WInv
  <2>2. replies = Greeting \o FlattenSeq(Answers(sent, done))
    BY DEF AInv
  <2> QED
    BY <2>1, <2>2 DEF AnsweredAndReleased, Greeting, Answers
<1> QED
  BY <1>1, <1>2, InitA, FramingInvariant, WindowInvariant, PTL DEF Spec
=============================================================================
