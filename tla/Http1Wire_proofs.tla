--------------------------- MODULE Http1Wire_proofs ---------------------------
(***************************************************************************)
(* What arrives at an HTTP/1 transport: the buffer it is kept in           *)
(* (StreamBuf), for every initial capacity and size_t, and the messages    *)
(* read from it (MessageWire), for all characters, names, values, bodies   *)
(* and ways of cutting a text into pieces.                                 *)
(*                                                                         *)
(* The argument about messages: the lines that are written, one for each   *)
(* field and perhaps a continuation, make up the text (Layout), each is    *)
(* read as its field (Carried), and at every moment what has been read is  *)
(* the fields of the first k lines and what is left is the rest of the     *)
(* text behind them (Reading).                                             *)
(***************************************************************************)
EXTENDS StreamBuf, MessageWire, SequenceTheorems, FiniteSetTheorems, WellFoundedInduction, TLAPS

-----------------------------------------------------------------------------
\* The stream buffer.

\* What grow() returns: at least what was allocated, at most size_t's maximum,
\* and more than is in use (StreamBuf.cpp:23-40).
LEMMA GrowLeavesRoom ==
    ASSUME TypeOK, FitsAllocation, inUse < SizeMax
    PROVE  Grown \in cap..SizeMax /\ Grown > inUse
BY CapAssumption DEF TypeOK, FitsAllocation, Grown, Reserved

\* grow() never shrinks the buffer and never passes the maximum (StreamBuf.cpp:23).
LEMMA GrowType ==
    ASSUME TypeOK
    PROVE  Grown \in cap..SizeMax
BY CapAssumption DEF TypeOK, Grown, Reserved

\* The inductive invariant: the sizes keep their types and what is in use lies in
\* the allocation.
Inv == TypeOK /\ FitsAllocation

\* Every step of the buffer keeps it.
LEMMA SizesKept == Spec => []Inv
<1> USE CapAssumption DEF Inv
<1>1. Init => Inv
  BY DEF Init, TypeOK, FitsAllocation
<1>2. Inv /\ [Next]_vars => Inv'
  <2> SUFFICES ASSUME Inv, [Next]_vars PROVE Inv'
    OBVIOUS
  <2>1. ASSUME NEW n \in 1..SizeMax, Fill(n) PROVE Inv'
    BY <2>1, GrowType DEF Fill, TypeOK, FitsAllocation
  <2>2. ASSUME NEW n \in 1..SizeMax, Write(n) PROVE Inv'
    BY <2>2 DEF Write, Addressable, Reserved, TypeOK, FitsAllocation
  <2>3. ASSUME NEW n \in 1..SizeMax, Advance(n) PROVE Inv'
    BY <2>3 DEF Advance, TypeOK, FitsAllocation
  <2>4. CASE UNCHANGED vars
    BY <2>4 DEF vars, TypeOK, FitsAllocation
  <2> QED
    BY <2>1, <2>2, <2>3, <2>4 DEF Next
<1> HIDE DEF Inv
<1> QED
  BY <1>1, <1>2, PTL DEF Spec

\* No sequence of reads, writes and advances leaves the allocation
\* (StreamBuf.cpp:9-52).
THEOREM StreamBufSafe == Spec => []FitsAllocation
<1>1. Inv => FitsAllocation
  BY DEF Inv
<1> QED
  BY <1>1, SizesKept, PTL

\* After grow() ::read has room for at least a byte, up to size_t's maximum
\* (Connection.cpp:76-88, StreamBuf.cpp:23).
THEOREM ReadHasRoom == Spec => []RoomToRead
<1>1. Inv => RoomToRead
  BY GrowLeavesRoom DEF Inv, RoomToRead
<1> QED
  BY <1>1, SizesKept, PTL

-----------------------------------------------------------------------------
\* Numbers and texts.

\* A set of naturals has a least element.
LEMMA LeastNat ==
    ASSUME NEW T \in SUBSET Nat, T # {}
    PROVE  \E x \in T : \A y \in T : x <= y
<1>1. \E R : IsWellFoundedOn(R, Nat) /\ \A x, y \in Nat : <<y, x>> \in R <=> y < x
  <2>1. IsWellFoundedOn(OpToRel(<, Nat), Nat)
    BY NatLessThanWellFounded
  <2>2. \A x, y \in Nat : <<y, x>> \in OpToRel(<, Nat) <=> y < x
    BY DEF OpToRel
  <2> WITNESS OpToRel(<, Nat)
  <2> QED
    BY <2>1, <2>2
<1>2. PICK R : IsWellFoundedOn(R, Nat) /\ \A x, y \in Nat : <<y, x>> \in R <=> y < x
  BY <1>1
<1>3. PICK x \in T : \A y \in T : ~(<<y, x>> \in R)
  BY <1>2, WFMin
<1>4. ASSUME NEW y \in T PROVE x <= y
  <2>1. x \in Nat /\ y \in Nat /\ ~(y < x)
    BY <1>2, <1>3
  <2> QED
    BY <2>1
<1> QED
  BY <1>4

\* Induction over the naturals, for a set.
LEMMA Induction ==
    ASSUME NEW T, 0 \in T, \A n \in Nat : n \in T => n + 1 \in T
    PROVE  \A n \in Nat : n \in T
<1> SUFFICES ASSUME Nat \ T # {} PROVE FALSE
  OBVIOUS
<1>1. PICK x \in Nat \ T : \A y \in Nat \ T : x <= y
  BY LeastNat
<1>2. x - 1 \in Nat /\ x - 1 \notin Nat \ T
  BY <1>1
<1> QED
  BY <1>1, <1>2

\* A set of naturals with a bound has a largest element.
LEMMA Largest ==
    ASSUME NEW T \in SUBSET Nat, T # {}, NEW b \in Nat, \A x \in T : x <= b
    PROVE  Max(T) \in T /\ \A x \in T : x <= Max(T)
<1> DEFINE B == {u \in Nat : \A x \in T : x <= u}
<1>1. b \in B /\ B \in SUBSET Nat /\ B # {}
  OBVIOUS
<1>2. PICK u \in B : \A v \in B : u <= v
  <2> HIDE DEF B
  <2> QED
    BY <1>1, LeastNat
<1>3. u \in T
  <2> SUFFICES ASSUME u \notin T PROVE FALSE
    OBVIOUS
  <2>1. u \in Nat /\ \A x \in T : x \in Nat /\ x <= u /\ x # u
    BY <1>2
  <2>2. u # 0
    <3>1. PICK x \in T : TRUE
      OBVIOUS
    <3>2. x \in Nat /\ x <= u /\ x # u /\ u \in Nat
      BY <2>1
    <3> QED
      BY <3>2
  <2>3. u - 1 \in Nat /\ \A x \in T : x <= u - 1
    BY <2>1, <2>2
  <2>4. u - 1 \in B
    BY <2>3
  <2>5. u <= u - 1
    BY <1>2, <2>4
  <2> QED
    BY <2>1, <2>5
<1>4. \A x \in T : u >= x
  BY <1>2
<1>5. Max(T) \in T /\ \A x \in T : Max(T) >= x
  BY <1>3, <1>4 DEF Max
<1> QED
  BY <1>5

-----------------------------------------------------------------------------
\* Min of a set of naturals.
LEMMA Smallest ==
    ASSUME NEW T \in SUBSET Nat, T # {}
    PROVE  Min(T) \in T /\ \A x \in T : Min(T) <= x
<1>1. \E x \in T : \A y \in T : x <= y
  BY LeastNat
<1>2. Min(T) = CHOOSE x \in T : \A y \in T : x <= y
  BY DEF Min
<1> QED
  BY <1>1, <1>2

-----------------------------------------------------------------------------
\* Lines of text.

Text == Seq(Char)
Solid(s) == {k \in DOMAIN s : s[k] \notin White}

\* SubSeq of a text: its type, its length and its characters.
LEMMA PartOf ==
    ASSUME NEW s \in Text, NEW a \in Nat \ {0}, NEW b \in Nat, b <= Len(s)
    PROVE  /\ SubSeq(s, a, b) \in Text
           /\ Len(SubSeq(s, a, b)) = IF a <= b THEN (b - a) + 1 ELSE 0
           /\ \A i \in 1..Len(SubSeq(s, a, b)) : SubSeq(s, a, b)[i] = s[(a + i) - 1]
BY SubSeqProperties DEF Text

\* Two texts one behind the other.
LEMMA Both ==
    ASSUME NEW s \in Text, NEW t \in Text
    PROVE  /\ Len(s) \in Nat /\ Len(t) \in Nat
           /\ s \o t \in Text /\ Len(s \o t) = Len(s) + Len(t)
           /\ DOMAIN (s \o t) = 1..(Len(s) + Len(t))
           /\ \A i \in 1..Len(s) : (s \o t)[i] = s[i]
           /\ \A i \in 1..Len(t) : (s \o t)[Len(s) + i] = t[i]
<1>1. s \in Seq(Char) /\ t \in Seq(Char)
  BY DEF Text
<1>2. Len(s) \in Nat /\ Len(t) \in Nat
  BY <1>1, LenProperties
<1>3. s \o t \in Seq(Char) /\ Len(s \o t) = Len(s) + Len(t)
  BY <1>1, ConcatProperties
<1>4. \A i \in 1..(Len(s) + Len(t)) :
        (s \o t)[i] = IF i <= Len(s) THEN s[i] ELSE t[i - Len(s)]
  BY <1>1, ConcatProperties
<1>5. DOMAIN (s \o t) = 1..(Len(s) + Len(t))
  BY <1>3, LenProperties
<1>6. ASSUME NEW i \in 1..Len(s) PROVE (s \o t)[i] = s[i]
  BY <1>2, <1>4
<1>7. ASSUME NEW i \in 1..Len(t) PROVE (s \o t)[Len(s) + i] = t[i]
  <2>1. Len(s) + i \in 1..(Len(s) + Len(t)) /\ ~(Len(s) + i <= Len(s))
        /\ (Len(s) + i) - Len(s) = i
    BY <1>2
  <2> QED
    BY <1>4, <2>1
<1> QED
  BY <1>2, <1>3, <1>5, <1>6, <1>7 DEF Text

\* The characters the code looks for.
LEMMA SomeChars == {":", "SP", "HT", "CR", "LF", "HTTP/1.1", "reason"} \subseteq Char
BY TextAssumption DEF White, CRLF, Words, Range

\* A text of one character.
LEMMA OneChar ==
    ASSUME NEW c \in Char
    PROVE  <<c>> \in Text /\ Len(<<c>>) = 1 /\ <<c>>[1] = c
BY DEF Text

\* Two numbers neither of which is the larger.
LEMMA Squeezed ==
    ASSUME NEW a \in Nat, NEW b \in Nat, a <= b, b <= a
    PROVE  a = b
OBVIOUS

\* The first and the last character that is not white space.
LEMMA SolidEnds ==
    ASSUME NEW s \in Text, Solid(s) # {}
    PROVE  /\ Min(Solid(s)) \in Solid(s) /\ \A k \in Solid(s) : Min(Solid(s)) <= k
           /\ Max(Solid(s)) \in Solid(s) /\ \A k \in Solid(s) : k <= Max(Solid(s))
           /\ Min(Solid(s)) \in 1..Len(s) /\ Max(Solid(s)) \in 1..Len(s)
<1>1. Solid(s) \in SUBSET Nat /\ Len(s) \in Nat /\ \A k \in Solid(s) : k \in 1..Len(s)
  BY DEF Solid, Text
<1>2. Max(Solid(s)) \in Solid(s) /\ \A k \in Solid(s) : k <= Max(Solid(s))
  <2>1. \A k \in Solid(s) : k <= Len(s)
    BY <1>1
  <2> QED
    BY <1>1, <2>1, Largest
<1>3. Min(Solid(s)) \in Solid(s) /\ \A k \in Solid(s) : Min(Solid(s)) <= k
  BY <1>1, Smallest
<1> QED
  BY <1>1, <1>2, <1>3

\* What trimTrailingLWS leaves: all, or what is before the last character that is
\* no white space, or of white space alone, nothing or one character.
LEMMA TrailingTrimmed ==
    ASSUME NEW s \in Text
    PROVE  /\ Solid(s) = {} =>
                 \E t \in 0..Len(s) : TrimTrailingLWS(s) = SubSeq(s, 1, t)
           /\ Solid(s) # {} /\ s[Len(s)] \notin White => TrimTrailingLWS(s) = s
           /\ Solid(s) # {} /\ s[Len(s)] \in White =>
                 TrimTrailingLWS(s) = SubSeq(s, 1, Max(Solid(s)) - 1)
<1>1. Len(s) \in Nat /\ DOMAIN s = 1..Len(s) /\ SubSeq(s, 1, Len(s)) = s
  BY SubSeqFull DEF Text
<1>2. TrimTrailingLWS(s) =
        LET i == IF Solid(s) = {} THEN 0 ELSE Max(Solid(s)) - 1
        IN  IF i + 1 # Len(s) THEN SubSeq(s, 1, i) ELSE s
  BY DEF TrimTrailingLWS, Solid
<1>3. CASE Solid(s) = {}
  <2>1. TrimTrailingLWS(s) = SubSeq(s, 1, 0) \/ TrimTrailingLWS(s) = s
    BY <1>2, <1>3
  <2>2. 0 \in 0..Len(s) /\ Len(s) \in 0..Len(s)
    BY <1>1
  <2> QED
    BY <1>1, <1>3, <2>1, <2>2
<1>4. CASE Solid(s) # {}
  <2> DEFINE b == Max(Solid(s))
  <2>1. b \in Solid(s) /\ b \in 1..Len(s) /\ \A k \in Solid(s) : k <= b
    BY <1>4, SolidEnds
  <2>2. TrimTrailingLWS(s) = IF b - 1 + 1 # Len(s) THEN SubSeq(s, 1, b - 1) ELSE s
    BY <1>2, <1>4
  <2> HIDE DEF b
  <2>3. TrimTrailingLWS(s) = IF b # Len(s) THEN SubSeq(s, 1, b - 1) ELSE s
    <3>1. b - 1 + 1 = b
      BY <2>1
    <3> QED
      BY <2>2, <3>1
  <2>4. CASE s[Len(s)] \notin White
    <3>1. Len(s) \in Solid(s)
      BY <1>1, <2>1, <2>4 DEF Solid
    <3>2. b = Len(s)
      <4>1. Len(s) <= b /\ b <= Len(s) /\ b \in Nat
        BY <2>1, <3>1
      <4> QED
        BY <1>1, <4>1, Squeezed
    <3> QED
      BY <1>4, <2>3, <2>4, <3>2
  <2>5. CASE s[Len(s)] \in White
    <3>1. b # Len(s)
      BY <2>1, <2>5 DEF Solid
    <3> QED
      BY <1>4, <2>3, <2>5, <3>1 DEF b
  <2> QED
    BY <2>4, <2>5
<1> QED
  BY <1>3, <1>4

\* trimLWS, exactly: behind a value that white space follows, the value's last
\* character is lost.
LEMMA Trimmed ==
    ASSUME NEW s \in Text
    PROVE  /\ Solid(s) = {} => TrimLWS(s) = <<>>
           /\ Solid(s) # {} /\ s[Len(s)] \notin White =>
                 TrimLWS(s) = SubSeq(s, Min(Solid(s)), Len(s))
           /\ Solid(s) # {} /\ s[Len(s)] \in White =>
                 TrimLWS(s) = SubSeq(s, Min(Solid(s)), Max(Solid(s)) - 1)
<1>1. Len(s) \in Nat /\ DOMAIN s = 1..Len(s)
  BY DEF Text
<1>2. \A t : TrimLeadingLWS(t) =
               IF Solid(t) = {} THEN <<>> ELSE SubSeq(t, Min(Solid(t)), Len(t))
  BY DEF TrimLeadingLWS, Solid
<1>3. CASE Solid(s) = {}
  <2>1. PICK t \in 0..Len(s) : TrimTrailingLWS(s) = SubSeq(s, 1, t)
    BY <1>3, TrailingTrimmed
  <2> DEFINE u == SubSeq(s, 1, t)
  <2>2. u \in Text /\ Len(u) = t /\ \A i \in 1..t : u[i] = s[i]
    BY <1>1, <2>1, PartOf
  <2>3. DOMAIN u = 1..t
    BY <2>2 DEF Text
  <2> HIDE DEF u
  <2>4. Solid(u) = {}
    BY <1>1, <1>3, <2>1, <2>2, <2>3 DEF Solid
  <2> QED
    BY <1>2, <1>3, <2>1, <2>4 DEF TrimLWS, u
<1>4. CASE Solid(s) # {} /\ s[Len(s)] \notin White
  BY <1>2, <1>4, TrailingTrimmed DEF TrimLWS
<1>5. CASE Solid(s) # {} /\ s[Len(s)] \in White
  <2> DEFINE a == Min(Solid(s))
             b == Max(Solid(s))
             u == SubSeq(s, 1, b - 1)
  <2>1. /\ a \in Solid(s) /\ a \in 1..Len(s) /\ \A k \in Solid(s) : a <= k
        /\ b \in Solid(s) /\ b \in 1..Len(s) /\ \A k \in Solid(s) : k <= b
    BY <1>5, SolidEnds
  <2>2. TrimTrailingLWS(s) = u
    BY <1>5, TrailingTrimmed
  <2> HIDE DEF a, b
  <2>3. u \in Text /\ Len(u) = b - 1 /\ \A i \in 1..(b - 1) : u[i] = s[i]
    <3>1. b - 1 \in Nat /\ b - 1 <= Len(s)
      BY <1>1, <2>1
    <3> QED
      BY <2>1, <3>1, PartOf
  <2>4. DOMAIN u = 1..(b - 1)
    BY <2>3 DEF Text
  <2> HIDE DEF u
  <2>5. Solid(u) = {k \in Solid(s) : k < b}
    BY <1>1, <2>1, <2>3, <2>4 DEF Solid
  <2>6. CASE a = b
    <3>1. Solid(u) = {}
      <4>1. \A k \in Solid(s) : k \in Nat /\ b \in Nat /\ b <= k
        BY <1>1, <2>1, <2>6 DEF Solid
      <4> QED
        BY <2>5, <4>1
    <3>2. SubSeq(s, a, b - 1) = <<>>
      BY <1>1, <2>1, <2>6, SubSeqEmpty
    <3> QED
      BY <1>2, <1>5, <2>2, <3>1, <3>2 DEF TrimLWS, a, b
  <2>7. CASE a # b
    <3>1. a < b /\ a \in Solid(u)
      BY <1>1, <2>1, <2>5, <2>7
    <3>2. Min(Solid(u)) = a
      <4>1. Min(Solid(u)) \in Solid(u) /\ \A k \in Solid(u) : Min(Solid(u)) <= k
        BY <2>3, <3>1, SolidEnds
      <4>2. Min(Solid(u)) \in 1..Len(s) /\ Min(Solid(u)) <= a /\ a <= Min(Solid(u))
        BY <1>1, <2>1, <2>5, <3>1, <4>1 DEF Solid
      <4> QED
        BY <2>1, <4>2
    <3>3. TrimLWS(s) = SubSeq(u, a, b - 1)
      BY <1>2, <2>2, <2>3, <3>1, <3>2 DEF TrimLWS
    <3>4. SubSeq(u, a, b - 1) = SubSeq(s, a, b - 1)
      <4>1. a \in Nat \ {0} /\ b - 1 \in Nat /\ b - 1 <= Len(u) /\ b - 1 <= Len(s)
        BY <1>1, <2>1, <2>3
      <4> DEFINE v == SubSeq(u, a, b - 1)
                 w == SubSeq(s, a, b - 1)
      <4>2. /\ v \in Text /\ w \in Text /\ Len(v) = Len(w) /\ Len(v) = ((b - 1) - a) + 1
            /\ \A i \in 1..Len(v) : v[i] = u[(a + i) - 1] /\ w[i] = s[(a + i) - 1]
        <5>1. a <= b - 1
          BY <2>1, <3>1
        <5> QED
          BY <2>3, <4>1, <5>1, PartOf
      <4> HIDE DEF v, w
      <4>3. \A i \in 1..Len(v) : (a + i) - 1 \in 1..(b - 1)
        BY <2>1, <4>1, <4>2
      <4>4. \A i \in 1..Len(v) : v[i] = w[i]
        BY <2>3, <4>2, <4>3
      <4> QED
        BY <4>2, <4>4, SeqEqual DEF Text, v, w
    <3> QED
      BY <1>5, <3>3, <3>4 DEF a, b
  <2> QED
    BY <2>6, <2>7
<1> QED
  BY <1>3, <1>4, <1>5

\* d begins t.
LEMMA Beginning ==
    ASSUME NEW d \in Text, NEW t \in Text, Len(d) <= Len(t), \A i \in 1..Len(d) : d[i] = t[i]
    PROVE  IsPrefix(d, t)
<1>1. Len(d) \in Nat /\ Len(t) \in Nat /\ SubSeq(d, 1, Len(d)) = d
  BY SubSeqFull DEF Text
<1> DEFINE u == SubSeq(t, 1, Len(d))
<1>2. u \in Text /\ Len(u) = Len(d) /\ \A i \in 1..Len(u) : u[i] = t[i]
  <2>1. Len(d) \in Nat /\ (IF 1 <= Len(d) THEN (Len(d) - 1) + 1 ELSE 0) = Len(d)
    BY <1>1
  <2>2. \A i \in 1..Len(d) : (1 + i) - 1 = i
    BY <1>1
  <2> QED
    BY <1>1, <2>1, <2>2, PartOf
<1> HIDE DEF u
<1>3. d = u
  BY <1>1, <1>2, SeqEqual DEF Text
<1> QED
  BY <1>1, <1>3 DEF IsPrefix, u

\* HeaderLine finds the end of the name, as no colon is in it.
LEMMA LineSplit ==
    ASSUME NEW name \in Text, NEW rest \in Text, \A i \in 1..Len(name) : name[i] # ":"
    PROVE  LET line == name \o <<":">> \o rest
               tail == <<":">> \o rest
               start == IF rest # <<>> /\ rest[1] = "SP" THEN rest ELSE tail
           IN  HeaderLine(line) = Field(AsciiLower(name), TrimLWS(start))
<1> DEFINE line == name \o <<":">> \o rest
           n == Len(name)
           m == Len(rest)
           colons == {i \in DOMAIN line : line[i] = ":"}
           c == Min(colons)
<1>1. /\ n \in Nat /\ m \in Nat /\ line \in Text /\ Len(line) = n + 1 + m
      /\ DOMAIN line = 1..(n + 1 + m)
      /\ \A i \in 1..n : line[i] = name[i]
      /\ line[n + 1] = ":" /\ \A i \in 1..m : line[n + 1 + i] = rest[i]
  <2> DEFINE head == name \o <<":">>
  <2>1. <<":">> \in Text /\ Len(<<":">>) = 1 /\ <<":">>[1] = ":" /\ 1 \in 1..1
    BY OneChar, SomeChars
  <2>2. /\ n \in Nat /\ head \in Text /\ Len(head) = n + 1
        /\ \A i \in 1..n : head[i] = name[i]
        /\ head[n + 1] = ":"
    BY <2>1, Both
  <2>3. line = head \o rest
    OBVIOUS
  <2> HIDE DEF head
  <2>4. /\ m \in Nat /\ line \in Text /\ Len(line) = n + 1 + m
        /\ DOMAIN line = 1..(n + 1 + m)
        /\ \A i \in 1..(n + 1) : line[i] = head[i]
        /\ \A i \in 1..m : line[n + 1 + i] = rest[i]
    <3>1. /\ Len(rest) \in Nat /\ head \o rest \in Text
          /\ Len(head \o rest) = Len(head) + Len(rest)
          /\ DOMAIN (head \o rest) = 1..(Len(head) + Len(rest))
          /\ \A i \in 1..Len(head) : (head \o rest)[i] = head[i]
          /\ \A i \in 1..Len(rest) : (head \o rest)[Len(head) + i] = rest[i]
      BY <2>2, Both
    <3> HIDE DEF line
    <3> QED
      BY <2>2, <2>3, <3>1
  <2>5. n + 1 \in 1..(n + 1) /\ \A i \in 1..n : i \in 1..(n + 1)
    BY <2>2
  <2> QED
    BY <2>2, <2>4, <2>5
<1> HIDE DEF line, n, m
<1>2. c = n + 1
  <2>1. n + 1 \in colons /\ colons \in SUBSET Nat
    BY <1>1
  <2>2. c \in colons /\ \A i \in colons : c <= i
    <3> HIDE DEF colons
    <3> QED
      BY <2>1, Smallest
  <2>3. c \in 1..(n + 1 + m) /\ line[c] = ":" /\ c <= n + 1
    BY <1>1, <2>1, <2>2
  <2>4. c \notin 1..n
    BY <1>1, <2>3 DEF n
  <2> HIDE DEF c
  <2> QED
    BY <1>1, <2>3, <2>4
<1>3. SubSeq(line, 1, c - 1) = name
  <2>1. c - 1 = n
    BY <1>1, <1>2
  <2> DEFINE u == SubSeq(line, 1, n)
  <2>2. u \in Text /\ Len(u) = n /\ \A i \in 1..n : u[i] = line[i]
    BY <1>1, PartOf
  <2> HIDE DEF u
  <2>3. \A i \in 1..Len(u) : u[i] = name[i]
    BY <1>1, <2>2
  <2>4. u = name
    BY <2>2, <2>3, SeqEqual DEF Text, n
  <2> QED
    BY <2>1, <2>4 DEF u
<1>4. SubSeq(line, n + 1, Len(line)) = <<":">> \o rest
  <2> DEFINE u == SubSeq(line, n + 1, Len(line))
             v == <<":">> \o rest
  <2>1. u \in Text /\ Len(u) = m + 1 /\ \A i \in 1..(m + 1) : u[i] = line[(n + 1 + i) - 1]
    <3>1. n + 1 \in Nat \ {0} /\ Len(line) \in Nat /\ n + 1 <= Len(line)
      BY <1>1
    <3>2. (Len(line) - (n + 1)) + 1 = m + 1
      BY <1>1
    <3> QED
      BY <1>1, <3>1, <3>2, PartOf
  <2>2. v \in Text /\ Len(v) = m + 1 /\ v[1] = ":" /\ \A i \in 1..m : v[i + 1] = rest[i]
    <3>1. \A i \in 1..m : v[1 + i] = rest[i]
      BY OneChar, SomeChars, Both DEF m
    <3>2. \A i \in 1..m : 1 + i = i + 1
      BY <1>1
    <3>3. v \in Text /\ Len(v) = 1 + m /\ v[1] = ":"
      <4>1. 1 \in 1..1
        OBVIOUS
      <4> QED
        BY <4>1, OneChar, SomeChars, Both DEF m
    <3> HIDE DEF v
    <3> QED
      BY <1>1, <3>1, <3>2, <3>3
  <2> HIDE DEF u, v
  <2>3. ASSUME NEW i \in 1..(m + 1) PROVE u[i] = v[i]
    <3>1. CASE i = 1
      BY <1>1, <2>1, <2>2, <3>1
    <3>2. CASE i # 1
      <4>1. i - 1 \in 1..m /\ (n + 1 + i) - 1 = n + 1 + (i - 1) /\ (i - 1) + 1 = i
        BY <1>1, <3>2
      <4> QED
        <5>1. u[i] = line[n + 1 + (i - 1)]
          BY <2>1, <4>1
        <5>2. v[i] = rest[i - 1]
          BY <2>2, <4>1
        <5> QED
          BY <1>1, <4>1, <5>1, <5>2
    <3> QED
      BY <3>1, <3>2
  <2> QED
    BY <2>1, <2>2, <2>3, SeqEqual DEF Text, u, v
<1>5. SubSeq(line, n + 2, Len(line)) = rest
  <2> DEFINE u == SubSeq(line, n + 2, Len(line))
  <2>1. u \in Text /\ Len(u) = m /\ \A i \in 1..m : u[i] = line[(n + 2 + i) - 1]
    <3>1. n + 2 \in Nat \ {0} /\ Len(line) \in Nat
      BY <1>1
    <3>2. (IF n + 2 <= Len(line) THEN (Len(line) - (n + 2)) + 1 ELSE 0) = m
      BY <1>1
    <3> QED
      BY <1>1, <3>1, <3>2, PartOf
  <2> HIDE DEF u
  <2>2. \A i \in 1..m : (n + 2 + i) - 1 = n + 1 + i
    BY <1>1
  <2>3. \A i \in 1..Len(u) : u[i] = rest[i]
    BY <1>1, <2>1, <2>2
  <2> QED
    BY <2>1, <2>3, SeqEqual DEF Text, u, m
<1>6. c < Len(line) /\ line[c + 1] = "SP" <=> rest # <<>> /\ rest[1] = "SP"
  <2>1. rest # <<>> <=> m # 0
    BY DEF Text, m
  <2>2. m # 0 => 1 \in 1..m
    BY <1>1
  <2>3. c + 1 = n + 1 + 1 /\ (c < Len(line) <=> m # 0)
    BY <1>1, <1>2
  <2> QED
    BY <1>1, <2>1, <2>2, <2>3
<1>7. c + 1 = n + 2
  BY <1>1, <1>2
<1>8. HeaderLine(line) =
        LET start == IF c < Len(line) /\ line[c + 1] = "SP" THEN c + 1 ELSE c
        IN  Field(AsciiLower(SubSeq(line, 1, c - 1)), TrimLWS(SubSeq(line, start, Len(line))))
  BY DEF HeaderLine
<1> HIDE DEF c
<1>9. CASE rest # <<>> /\ rest[1] = "SP"
  BY <1>3, <1>5, <1>6, <1>7, <1>8, <1>9 DEF line
<1>10. CASE ~(rest # <<>> /\ rest[1] = "SP")
  BY <1>2, <1>3, <1>4, <1>6, <1>8, <1>10 DEF line
<1> QED
  BY <1>9, <1>10

\* Behind the separator and a space, or a value, its solid part is shifted.
LEMMA SolidShifted ==
    ASSUME NEW value \in Text, NEW c \in White
    PROVE  LET s == <<c>> \o value IN
           /\ s \in Text /\ Len(s) = Len(value) + 1
           /\ \A i \in 1..Len(value) : s[i + 1] = value[i]
           /\ Solid(s) = {i + 1 : i \in Solid(value)}
<1> DEFINE s == <<c>> \o value
           m == Len(value)
<1>1. c \in Char
  BY SomeChars DEF White
<1>2. <<c>> \in Text /\ Len(<<c>>) = 1 /\ <<c>>[1] = c
  BY <1>1, OneChar
<1>3. /\ m \in Nat /\ s \in Text /\ Len(s) = 1 + m /\ DOMAIN s = 1..(1 + m)
      /\ \A i \in 1..1 : s[i] = <<c>>[i]
      /\ \A i \in 1..m : s[1 + i] = value[i]
  BY <1>2, Both
<1>4. DOMAIN value = 1..m
  BY DEF Text
<1> HIDE DEF s, m
<1>5. s[1] = c /\ \A i \in 1..m : s[i + 1] = value[i]
  <2>1. 1 \in 1..1 /\ \A i \in 1..m : 1 + i = i + 1
    BY <1>3
  <2> QED
    BY <1>2, <1>3, <2>1
<1>6. ASSUME NEW k \in Solid(s) PROVE k \in {i + 1 : i \in Solid(value)}
  <2>1. k \in 1..(1 + m) /\ s[k] \notin White
    BY <1>3 DEF Solid
  <2>2. k # 1
    BY <1>5, <2>1
  <2>3. k - 1 \in 1..m /\ (k - 1) + 1 = k
    BY <1>3, <2>1, <2>2
  <2>4. k - 1 \in Solid(value)
    BY <1>4, <1>5, <2>1, <2>3 DEF Solid
  <2> QED
    BY <2>3, <2>4
<1>7. ASSUME NEW i \in Solid(value) PROVE i + 1 \in Solid(s)
  <2>1. i \in 1..m /\ value[i] \notin White
    BY <1>4 DEF Solid
  <2>2. i + 1 \in 1..(1 + m)
    BY <1>3, <2>1
  <2> QED
    BY <1>3, <1>5, <2>1, <2>2 DEF Solid
<1>8. Solid(s) = {i + 1 : i \in Solid(value)}
  BY <1>6, <1>7
<1>9. Len(s) = m + 1
  BY <1>3
<1> QED
  BY <1>3, <1>5, <1>8, <1>9 DEF s, m

\* A value behind the space that follows the colon.
LEMMA SpacedValue ==
    ASSUME NEW value \in Text
    PROVE  LET other == Solid(value)
               core == IF other = {} THEN <<>> ELSE SubSeq(value, Min(other), Max(other))
               got == TrimLWS(<<"SP">> \o value)
           IN  IF value = <<>> \/ Last(value) \notin White THEN got = core
               ELSE IsPrefix(got, core)
<1> DEFINE s == <<"SP">> \o value
           m == Len(value)
           a == Min(Solid(value))
           b == Max(Solid(value))
           core == IF Solid(value) = {} THEN <<>> ELSE SubSeq(value, a, b)
           got == TrimLWS(s)
<1>1. /\ s \in Text /\ Len(s) = m + 1 /\ m \in Nat /\ DOMAIN value = 1..m
      /\ \A i \in 1..m : s[i + 1] = value[i]
      /\ Solid(s) = {i + 1 : i \in Solid(value)}
  <2>1. "SP" \in White /\ Len(value) \in Nat /\ DOMAIN value = 1..Len(value)
    BY DEF White, Text
  <2> QED
    BY <2>1, SolidShifted
<1>2. value = <<>> <=> m = 0
  BY DEF Text
<1> HIDE DEF s, m
<1>3. CASE Solid(value) = {}
  <2>1. Solid(s) = {}
    BY <1>1, <1>3
  <2>2. got = <<>> /\ core = <<>>
    BY <1>1, <1>3, <2>1, Trimmed
  <2>3. IsPrefix(<<>>, <<>>)
    BY DEF IsPrefix
  <2> QED
    BY <2>2, <2>3 DEF s
<1>4. CASE Solid(value) # {}
  <2>1. /\ a \in Solid(value) /\ \A k \in Solid(value) : a <= k
        /\ b \in Solid(value) /\ \A k \in Solid(value) : k <= b
        /\ a \in 1..m /\ b \in 1..m
    BY <1>4, SolidEnds DEF m
  <2>2. m # 0 /\ \A k \in Solid(value) : k \in 1..m
    BY <1>1, <2>1 DEF Solid
  <2> HIDE DEF a, b
  <2>3. /\ Solid(s) # {} /\ Min(Solid(s)) \in Solid(s) /\ Max(Solid(s)) \in Solid(s)
        /\ \A k \in Solid(s) : Min(Solid(s)) <= k /\ k <= Max(Solid(s))
    <3>1. a + 1 \in Solid(s)
      BY <1>1, <2>1
    <3> QED
      BY <1>1, <3>1, SolidEnds
  <2>4. Min(Solid(s)) = a + 1
    <3>1. PICK i \in Solid(value) : Min(Solid(s)) = i + 1
      BY <1>1, <2>3
    <3>2. Min(Solid(s)) <= a + 1
      BY <1>1, <2>1, <2>3
    <3>3. i \in Nat /\ a \in Nat /\ a <= i /\ i + 1 <= a + 1
      BY <2>1, <2>2, <3>1, <3>2
    <3> QED
      BY <3>1, <3>3
  <2>5. Max(Solid(s)) = b + 1
    <3>1. PICK i \in Solid(value) : Max(Solid(s)) = i + 1
      BY <1>1, <2>3
    <3>2. b + 1 <= Max(Solid(s))
      BY <1>1, <2>1, <2>3
    <3>3. i \in Nat /\ b \in Nat /\ i <= b /\ b + 1 <= i + 1
      BY <2>1, <2>2, <3>1, <3>2
    <3> QED
      BY <3>1, <3>3
  <2>6. s[Len(s)] = value[m]
    BY <1>1, <2>2
  <2>7. a <= b /\ a \in Nat \ {0} /\ b \in Nat /\ b <= m
    BY <1>1, <2>1
  <2> DEFINE c == SubSeq(value, a, b)
  <2>8. c \in Text /\ Len(c) = (b - a) + 1 /\ \A i \in 1..Len(c) : c[i] = value[(a + i) - 1]
    BY <2>7, PartOf DEF m
  <2>9. core = c
    BY <1>4 DEF a, b
  <2>10. CASE value[m] \notin White
    <3>1. b = m
      <4>1. m \in Solid(value)
        BY <1>1, <2>2, <2>10 DEF Solid
      <4> QED
        BY <1>1, <2>1, <4>1, Squeezed
    <3>2. got = SubSeq(s, a + 1, m + 1)
      BY <1>1, <2>3, <2>4, <2>6, <2>10, Trimmed
    <3>3. SubSeq(s, a + 1, m + 1) = c
      <4> DEFINE d == SubSeq(s, a + 1, m + 1)
      <4>1. d \in Text /\ Len(d) = (b - a) + 1 /\ \A i \in 1..Len(d) : d[i] = s[(a + 1 + i) - 1]
        <5>1. a + 1 \in Nat \ {0} /\ m + 1 \in Nat /\ m + 1 <= Len(s)
          BY <1>1, <2>7
        <5>2. (IF a + 1 <= m + 1 THEN ((m + 1) - (a + 1)) + 1 ELSE 0) = (b - a) + 1
          BY <1>1, <2>7, <3>1
        <5> QED
          BY <1>1, <5>1, <5>2, PartOf
      <4> HIDE DEF c, d
      <4>2. ASSUME NEW i \in 1..Len(d) PROVE d[i] = c[i]
        <5>1. (a + i) - 1 \in 1..m /\ (a + 1 + i) - 1 = ((a + i) - 1) + 1
          BY <1>1, <2>7, <3>1, <4>1
        <5>2. d[i] = s[((a + i) - 1) + 1] /\ c[i] = value[(a + i) - 1]
          BY <2>8, <4>1, <5>1
        <5> QED
          BY <1>1, <5>1, <5>2
      <4> QED
        BY <2>8, <4>1, <4>2, SeqEqual DEF Text, d
    <3> HIDE DEF core, got, c
    <3>4. Last(value) \notin White /\ got = core
      BY <2>9, <2>10, <3>2, <3>3 DEF Last, m
    <3> QED
      BY <3>4 DEF core, got, a, b, s
  <2>11. CASE value[m] \in White
    <3>1. got = SubSeq(s, a + 1, b)
      <4>1. (b + 1) - 1 = b
        BY <2>7
      <4> QED
        BY <1>1, <2>3, <2>4, <2>5, <2>6, <2>11, <4>1, Trimmed
    <3> DEFINE d == SubSeq(s, a + 1, b)
    <3>2. d \in Text /\ Len(d) = b - a /\ \A i \in 1..Len(d) : d[i] = s[(a + 1 + i) - 1]
      <4>1. a + 1 \in Nat \ {0} /\ b <= Len(s)
        BY <1>1, <2>7
      <4>2. (IF a + 1 <= b THEN (b - (a + 1)) + 1 ELSE 0) = b - a
        BY <2>7
      <4> QED
        BY <1>1, <2>7, <4>1, <4>2, PartOf
    <3> HIDE DEF c, d
    <3>3. ASSUME NEW i \in 1..Len(d) PROVE d[i] = c[i]
      <4>1. (a + i) - 1 \in 1..m /\ (a + 1 + i) - 1 = ((a + i) - 1) + 1 /\ i \in 1..Len(c)
        BY <1>1, <2>7, <2>8, <3>2
      <4>2. d[i] = s[((a + i) - 1) + 1] /\ c[i] = value[(a + i) - 1]
        BY <2>8, <3>2, <4>1
      <4> QED
        BY <1>1, <4>1, <4>2
    <3>4. Len(d) \in Nat /\ Len(c) \in Nat /\ Len(d) <= Len(c)
      BY <2>7, <2>8, <3>2
    <3>5. IsPrefix(d, c)
      BY <2>8, <3>2, <3>3, <3>4, Beginning
    <3> HIDE DEF core, got
    <3>6. value # <<>> /\ Last(value) \in White /\ IsPrefix(got, core)
      BY <1>2, <2>2, <2>9, <2>11, <3>1, <3>5 DEF Last, m, d
    <3> QED
      BY <3>6 DEF core, got, a, b, s
  <2> QED
    BY <2>10, <2>11
<1> QED
  BY <1>3, <1>4

\* A part of a text has the characters of the text.
LEMMA PartIn ==
    ASSUME NEW C, NEW s \in Seq(C), NEW a \in Nat \ {0}, NEW b \in Nat, b <= Len(s)
    PROVE  SubSeq(s, a, b) \in Seq(C)
BY SubSeqProperties

\* A sequence of some of the characters is a text.
LEMMA InText ==
    ASSUME NEW C, C \subseteq Char, NEW s \in Seq(C)
    PROVE  s \in Text
BY SeqMonotonic DEF Text

\* trimLWS leaves characters out and adds none (StringUtils-inl.h:7-45).
LEMMA TrimmedIn ==
    ASSUME NEW C, C \subseteq Char, NEW s \in Seq(C)
    PROVE  TrimLWS(s) \in Seq(C)
<1>1. s \in Text /\ Len(s) \in Nat /\ <<>> \in Seq(C)
  BY InText
<1>2. CASE Solid(s) = {}
  BY <1>1, <1>2, Trimmed
<1>3. CASE Solid(s) # {}
  <2> DEFINE a == Min(Solid(s))
             b == Max(Solid(s))
  <2>1. a \in 1..Len(s) /\ b \in 1..Len(s)
    BY <1>1, <1>3, SolidEnds
  <2>2. TrimLWS(s) = SubSeq(s, a, Len(s)) \/ TrimLWS(s) = SubSeq(s, a, b - 1)
    BY <1>1, <1>3, Trimmed
  <2> HIDE DEF a, b
  <2>3. a \in Nat \ {0} /\ b - 1 \in Nat /\ b - 1 <= Len(s) /\ Len(s) <= Len(s)
    BY <1>1, <2>1
  <2> QED
    BY <1>1, <2>2, <2>3, PartIn
<1> QED
  BY <1>2, <1>3

\* A header line with a space behind its colon, and one without.
LEMMA SpacedLine ==
    ASSUME NEW name \in Text, NEW value \in Text, \A i \in 1..Len(name) : name[i] # ":"
    PROVE  HeaderLine(name \o <<":", "SP">> \o value)
             = Field(AsciiLower(name), TrimLWS(<<"SP">> \o value))
<1> DEFINE rest == <<"SP">> \o value
<1>1. <<"SP">> \in Text /\ <<":">> \in Text /\ Len(<<"SP">>) = 1 /\ <<"SP">>[1] = "SP"
  BY OneChar, SomeChars
<1>2. rest \in Text /\ Len(rest) = 1 + Len(value) /\ Len(value) \in Nat /\ rest[1] = "SP"
  <2>1. 1 \in 1..1
    OBVIOUS
  <2> QED
    BY <1>1, <2>1, Both
<1>3. rest # <<>>
  <2> HIDE DEF rest
  <2> QED
    BY <1>2
<1>4. name \o <<":", "SP">> \o value = name \o <<":">> \o rest
  <2>1. <<":", "SP">> = <<":">> \o <<"SP">>
    OBVIOUS
  <2>2. <<":">> \o <<"SP">> \in Text /\ name \o <<":">> \in Text
    BY <1>1, Both
  <2>3. name \o (<<":">> \o <<"SP">>) = (name \o <<":">>) \o <<"SP">>
    BY <1>1, ConcatAssociative DEF Text
  <2>4. ((name \o <<":">>) \o <<"SP">>) \o value = (name \o <<":">>) \o (<<"SP">> \o value)
    BY <1>1, <2>2, ConcatAssociative DEF Text
  <2> QED
    BY <2>1, <2>3, <2>4
<1> HIDE DEF rest
<1>5. HeaderLine(name \o <<":">> \o rest) = Field(AsciiLower(name), TrimLWS(rest))
  BY <1>2, <1>3, LineSplit
<1> QED
  BY <1>4, <1>5 DEF rest

\* A header line without a space behind the colon: the colon is read as part of the value
\* (http1/Transport.cpp, headerLine).
LEMMA TightLine ==
    ASSUME NEW name \in Text, NEW value \in Text, \A i \in 1..Len(name) : name[i] # ":",
           value = <<>> \/ value[1] # "SP"
    PROVE  /\ HeaderLine(name \o <<":">> \o value)
                = Field(AsciiLower(name), TrimLWS(<<":">> \o value))
           /\ IsPrefix(TrimLWS(<<":">> \o value), <<":">> \o value)
<1> DEFINE s == <<":">> \o value
           a == Min(Solid(s))
           b == Max(Solid(s))
<1>1. <<":">> \in Text /\ Len(<<":">>) = 1 /\ <<":">>[1] = ":" /\ 1 \in 1..1
  BY OneChar, SomeChars
<1>2. s \in Text /\ Len(s) = 1 + Len(value) /\ Len(value) \in Nat /\ s[1] = ":"
  BY <1>1, Both
<1>3. HeaderLine(name \o <<":">> \o value) = Field(AsciiLower(name), TrimLWS(s))
  <2>1. ~(value # <<>> /\ value[1] = "SP")
    OBVIOUS
  <2> QED
    BY <2>1, LineSplit
<1> HIDE DEF s
<1>4. 1 \in Solid(s) /\ DOMAIN s = 1..Len(s)
  <2>1. DOMAIN s = 1..Len(s)
    BY <1>2 DEF Text
  <2>2. 1 \in 1..Len(s) /\ ":" \notin White
    BY <1>2 DEF White
  <2> QED
    BY <1>2, <2>1, <2>2 DEF Solid
<1>5. a \in 1..Len(s) /\ b \in 1..Len(s) /\ a <= 1
  BY <1>2, <1>4, SolidEnds
<1>6. TrimLWS(s) = SubSeq(s, a, Len(s)) \/ TrimLWS(s) = SubSeq(s, a, b - 1)
  BY <1>2, <1>4, Trimmed
<1> HIDE DEF a, b
<1>7. a = 1 /\ Len(s) \in Nat /\ b - 1 \in Nat /\ b - 1 <= Len(s)
  BY <1>2, <1>5
<1>8. \A n \in Nat : n <= Len(s) => IsPrefix(SubSeq(s, 1, n), s)
  <2> SUFFICES ASSUME NEW n \in Nat, n <= Len(s) PROVE IsPrefix(SubSeq(s, 1, n), s)
    OBVIOUS
  <2> DEFINE d == SubSeq(s, 1, n)
  <2>1. d \in Text /\ Len(d) = n /\ \A i \in 1..Len(d) : d[i] = s[(1 + i) - 1]
    <3>1. (IF 1 <= n THEN (n - 1) + 1 ELSE 0) = n
      OBVIOUS
    <3> QED
      BY <1>2, <3>1, PartOf
  <2> HIDE DEF d
  <2>2. \A i \in 1..Len(d) : (1 + i) - 1 = i
    BY <2>1
  <2> QED
    BY <1>2, <2>1, <2>2, Beginning DEF d
<1>9. IsPrefix(TrimLWS(s), s)
  <2>1. Len(s) <= Len(s)
    BY <1>7
  <2>2. IsPrefix(SubSeq(s, 1, Len(s)), s) /\ IsPrefix(SubSeq(s, 1, b - 1), s)
    BY <1>7, <1>8, <2>1
  <2>3. TrimLWS(s) = SubSeq(s, 1, Len(s)) \/ TrimLWS(s) = SubSeq(s, 1, b - 1)
    BY <1>6, <1>7
  <2> QED
    BY <2>2, <2>3
<1> QED
  BY <1>3, <1>9 DEF s

-----------------------------------------------------------------------------
\* Lines in what has arrived.

NoLF == Char \ {"LF"}
Line == Seq(NoLF)

\* The end of a line.
LEMMA CRLFText == CRLF \in Text /\ Len(CRLF) = 2 /\ CRLF[1] = "CR" /\ CRLF[2] = "LF"
<1>1. "CR" \in Char /\ "LF" \in Char
  BY SomeChars
<1> QED
  BY <1>1 DEF CRLF, Text

\* removeTrailingChar takes off the character it is given.
LEMMA LastDropped ==
    ASSUME NEW s \in Text, NEW c \in Char
    PROVE  RemoveTrailingChar(s \o <<c>>, c) = s
<1> DEFINE t == s \o <<c>>
<1>1. <<c>> \in Text /\ Len(<<c>>) = 1 /\ <<c>>[1] = c /\ 1 \in 1..1
  BY OneChar
<1>2. /\ Len(s) \in Nat /\ t \in Text /\ Len(t) = Len(s) + 1
      /\ \A i \in 1..Len(s) : t[i] = s[i]
      /\ t[Len(s) + 1] = c
  BY <1>1, Both
<1> HIDE DEF t
<1>3. t # <<>> /\ Last(t) = c
  BY <1>2 DEF Last
<1>4. Front(t) = s
  <2> DEFINE u == SubSeq(t, 1, Len(s))
  <2>1. u \in Text /\ Len(u) = Len(s) /\ \A i \in 1..Len(u) : u[i] = t[(1 + i) - 1]
    <3>1. (IF 1 <= Len(s) THEN (Len(s) - 1) + 1 ELSE 0) = Len(s) /\ Len(s) <= Len(t)
      BY <1>2
    <3> QED
      BY <1>2, <3>1, PartOf
  <2>2. Len(t) - 1 = Len(s)
    BY <1>2
  <2> HIDE DEF u
  <2>3. \A i \in 1..Len(u) : u[i] = s[i]
    <3>1. \A i \in 1..Len(s) : (1 + i) - 1 = i
      BY <1>2
    <3> QED
      BY <1>2, <2>1, <3>1
  <2>4. u = s
    BY <2>1, <2>3, SeqEqual DEF Text
  <2> QED
    BY <2>2, <2>4 DEF Front, u
<1> QED
  BY <1>3, <1>4 DEF RemoveTrailingChar, t

\* trimNewline takes off the end of a line.
LEMMA NewlineTrimmed ==
    ASSUME NEW line \in Text
    PROVE  TrimNewline(line \o CRLF) = line
<1>1. "CR" \in Char /\ "LF" \in Char
  BY SomeChars
<1>2. <<"CR">> \in Text /\ <<"LF">> \in Text
  BY <1>1, OneChar
<1>3. line \o CRLF = (line \o <<"CR">>) \o <<"LF">>
  <2>1. CRLF = <<"CR">> \o <<"LF">>
    BY DEF CRLF
  <2> QED
    BY <1>2, <2>1, ConcatAssociative DEF Text
<1>4. line \o <<"CR">> \in Text
  BY <1>2, Both
<1> QED
  BY <1>1, <1>3, <1>4, LastDropped DEF TrimNewline

\* However much of a line and what follows it has arrived: there is no line as
\* long as its last character is missing, and then it is this one
\* (findEndOfLine, getLine).
LEMMA LineCut ==
    ASSUME NEW line \in Line, NEW rest \in Text, NEW n \in Nat,
           n <= Len((line \o CRLF) \o rest)
    PROVE  LET part == SubSeq((line \o CRLF) \o rest, 1, n) IN
           /\ n < Len(line) + 2 => LineLength(part) = 0
           /\ n >= Len(line) + 2 => LineLength(part) = Len(line) + 2 /\ GetLine(part) = line
<1> DEFINE whole == line \o CRLF
           all == whole \o rest
           part == SubSeq(all, 1, n)
           m == Len(line)
           ends == {i \in DOMAIN part : part[i] = "LF"}
<1>1. line \in Text /\ \A i \in 1..Len(line) : line[i] # "LF"
  <2>1. line \in Text
    BY InText DEF Line, NoLF
  <2> QED
    BY <2>1, ElementOfSeq DEF Line, NoLF
<1>2. /\ m \in Nat /\ whole \in Text /\ Len(whole) = m + 2
      /\ \A i \in 1..m : whole[i] = line[i]
      /\ whole[m + 1] = "CR" /\ whole[m + 2] = "LF"
  <2>1. 1 \in 1..2 /\ 2 \in 1..2
    OBVIOUS
  <2> QED
    <3>1. /\ Len(line) \in Nat /\ line \o CRLF \in Text
          /\ Len(line \o CRLF) = Len(line) + Len(CRLF)
          /\ \A i \in 1..Len(line) : (line \o CRLF)[i] = line[i]
          /\ \A i \in 1..Len(CRLF) : (line \o CRLF)[Len(line) + i] = CRLF[i]
      BY <1>1, CRLFText, Both
    <3>2. /\ (line \o CRLF)[Len(line) + 1] = CRLF[1]
          /\ (line \o CRLF)[Len(line) + 2] = CRLF[2]
      BY <2>1, <3>1, CRLFText
    <3> QED
      BY <3>1, <3>2, CRLFText
<1>3. TrimNewline(whole) = line
  BY <1>1, NewlineTrimmed
<1> HIDE DEF whole, m
<1>4. /\ Len(rest) \in Nat /\ all \in Text /\ Len(all) = m + 2 + Len(rest)
      /\ \A i \in 1..(m + 2) : all[i] = whole[i]
  <2>1. /\ Len(rest) \in Nat /\ whole \o rest \in Text
        /\ Len(whole \o rest) = Len(whole) + Len(rest)
        /\ \A i \in 1..Len(whole) : (whole \o rest)[i] = whole[i]
    BY <1>2, Both
  <2> QED
    BY <1>2, <2>1
<1>5. n <= Len(all)
  BY DEF whole
<1> HIDE DEF all
<1>6. part \in Text /\ Len(part) = n /\ \A i \in 1..n : part[i] = all[i]
  <2>1. (IF 1 <= n THEN (n - 1) + 1 ELSE 0) = n /\ \A i \in 1..n : (1 + i) - 1 = i
    OBVIOUS
  <2> QED
    BY <1>4, <1>5, <2>1, PartOf
<1>7. DOMAIN part = 1..n
  BY <1>6 DEF Text
<1>8. LineLength(part) = IF ends = {} THEN 0 ELSE Min(ends)
  BY DEF LineLength
<1> HIDE DEF part
<1>9. \A i \in 1..(m + 1) : whole[i] # "LF"
  <2> TAKE i \in 1..(m + 1)
  <2>1. CASE i \in 1..m
    BY <1>1, <1>2, <2>1 DEF m
  <2>2. CASE i = m + 1
    BY <1>2, <2>2
  <2> QED
    BY <1>2, <2>1, <2>2
<1>10. \A i \in ends : i \in 1..n /\ i >= m + 2
  <2> TAKE i \in ends
  <2>1. i \in 1..n /\ part[i] = "LF"
    BY <1>7
  <2>2. i \notin 1..(m + 1)
    <3> SUFFICES ASSUME i \in 1..(m + 1) PROVE FALSE
      OBVIOUS
    <3>1. i \in 1..(m + 2)
      BY <1>2
    <3> QED
      BY <1>4, <1>6, <1>9, <2>1, <3>1
  <2> QED
    BY <1>2, <2>1, <2>2
<1>11. CASE n < m + 2
  <2>1. ends = {}
    BY <1>2, <1>10, <1>11
  <2> QED
    BY <1>2, <1>8, <1>11, <2>1 DEF part, all, whole, m
<1>12. CASE n >= m + 2
  <2>1. m + 2 \in 1..n /\ m + 2 \in 1..(m + 2)
    BY <1>2, <1>12
  <2>2. m + 2 \in ends
    BY <1>2, <1>4, <1>6, <1>7, <2>1
  <2>3. ends \in SUBSET Nat
    BY <1>10
  <2>4. Min(ends) = m + 2
    <3>1. Min(ends) \in ends /\ Min(ends) <= m + 2
      <4> HIDE DEF ends
      <4> QED
        BY <2>2, <2>3, Smallest
    <3>2. Min(ends) \in Nat /\ Min(ends) >= m + 2
      BY <1>10, <2>3, <3>1
    <3> QED
      BY <1>2, <3>1, <3>2
  <2>5. LineLength(part) = m + 2
    BY <1>8, <2>2, <2>4
  <2>6. SubSeq(part, 1, m + 2) = whole
    <3> DEFINE u == SubSeq(part, 1, m + 2)
    <3>1. u \in Text /\ Len(u) = m + 2 /\ \A i \in 1..(m + 2) : u[i] = part[i]
      <4>1. /\ (IF 1 <= m + 2 THEN ((m + 2) - 1) + 1 ELSE 0) = m + 2
            /\ \A i \in 1..(m + 2) : (1 + i) - 1 = i
            /\ m + 2 \in Nat /\ m + 2 <= Len(part)
        BY <1>2, <1>6, <1>12
      <4> QED
        BY <1>6, <4>1, PartOf
    <3> HIDE DEF u
    <3>2. \A i \in 1..Len(u) : u[i] = whole[i]
      <4>1. \A i \in 1..(m + 2) : i \in 1..n
        BY <1>2, <1>12
      <4> QED
        BY <1>4, <1>6, <3>1, <4>1
    <3>3. u = whole
      BY <1>2, <3>1, <3>2, SeqEqual DEF Text
    <3> QED
      BY <3>3 DEF u
  <2>7. GetLine(part) = line
    BY <1>3, <2>5, <2>6 DEF GetLine
  <2> QED
    BY <1>2, <1>12, <2>5, <2>7 DEF part, all, whole, m
<1> QED
  BY <1>2, <1>11, <1>12

-----------------------------------------------------------------------------
\* Functions defined by recursion.

\* f begins with a and goes on with the steps g.
Follows(f, n, a, g) == f = [i \in 0..n |-> IF i = 0 THEN a ELSE g[i][f[i - 1]]]

\* A recursive function over 0..n exists.
LEMMA Recursion ==
    ASSUME NEW S, NEW a \in S, NEW n \in Nat, NEW g \in [1..n -> [S -> S]]
    PROVE  \E f \in [0..n -> S] : Follows(f, n, a, g)
<1> DEFINE T == {m \in Nat : m <= n => \E f \in [0..m -> S] : Follows(f, m, a, g)}
<1>1. 0 \in T
  <2>1. Follows([i \in 0..0 |-> a], 0, a, g)
    BY DEF Follows
  <2> QED
    BY <2>1
<1>2. ASSUME NEW m \in Nat, m \in T PROVE m + 1 \in T
  <2> SUFFICES ASSUME m + 1 <= n
               PROVE  \E f \in [0..(m + 1) -> S] : Follows(f, m + 1, a, g)
    OBVIOUS
  <2>1. PICK f \in [0..m -> S] : Follows(f, m, a, g)
    BY <1>2
  <2> DEFINE h == [i \in 0..(m + 1) |-> IF i <= m THEN f[i] ELSE g[i][f[m]]]
  <2>2. ASSUME NEW i \in 0..(m + 1)
        PROVE  h[i] \in S /\ h[i] = IF i = 0 THEN a ELSE g[i][h[i - 1]]
    <3>1. CASE i = 0
      BY <2>1, <3>1 DEF Follows
    <3>2. CASE i # 0 /\ i <= m
      <4>1. i - 1 \in 0..m /\ h[i - 1] = f[i - 1] /\ h[i] = f[i] /\ i \in 0..m
        BY <3>2
      <4> QED
        BY <2>1, <3>2, <4>1 DEF Follows
    <3>3. CASE i = m + 1
      <4>1. h[i - 1] = f[m] /\ i # 0 /\ f[m] \in S
        BY <2>1, <3>3
      <4>2. h[i] = g[i][f[m]] /\ g[i] \in [S -> S]
        <5>1. ~(i <= m) /\ i \in 1..n
          BY <3>3
        <5> QED
          BY <5>1
      <4> HIDE DEF h
      <4> QED
        BY <4>1, <4>2
    <3> QED
      BY <3>1, <3>2, <3>3
  <2>3. Follows(h, m + 1, a, g)
    BY <2>2 DEF Follows
  <2>4. h \in [0..(m + 1) -> S]
    BY <2>2
  <2> QED
    BY <2>3, <2>4
<1> HIDE DEF T
<1>3. n \in T
  BY <1>1, <1>2, Induction
<1> QED
  BY <1>3 DEF T

\* And what it is at each place.
LEMMA FollowsStep ==
    ASSUME NEW n \in Nat, NEW f, NEW a, NEW g, Follows(f, n, a, g)
    PROVE  /\ f[0] = a
           /\ \A i \in 1..n : f[i] = g[i][f[i - 1]]
           /\ \A i \in 0..(n - 1) : f[i + 1] = g[i + 1][f[i]]
<1>1. 0 \in 0..n /\ \A i \in 1..n : i \in 0..n /\ i # 0
  OBVIOUS
<1>2. f[0] = a /\ \A i \in 1..n : f[i] = g[i][f[i - 1]]
  BY <1>1 DEF Follows
<1>3. \A i \in 0..(n - 1) : i + 1 \in 1..n /\ (i + 1) - 1 = i
  OBVIOUS
<1> QED
  BY <1>2, <1>3

-----------------------------------------------------------------------------
\* Selected.

\* What Selected has taken at every place.
Taking(t, s, keep) ==
    /\ t[0] = <<>>
    /\ \A i \in 1..Len(s) : t[i] = IF i \in keep THEN Append(t[i - 1], s[i]) ELSE t[i - 1]

\* The recursive function within Selected.
LEMMA SelectedIs ==
    ASSUME NEW D, NEW s \in Seq(D), NEW keep
    PROVE  \E t \in [0..Len(s) -> Seq(D)] : Taking(t, s, keep) /\ Selected(s, keep) = t[Len(s)]
<1> DEFINE n == Len(s)
           g == [i \in 1..n |-> [x \in Seq(D) |-> IF i \in keep THEN Append(x, s[i]) ELSE x]]
           Def(f) == f = [i \in 0..n |->
                            IF i = 0 THEN <<>>
                            ELSE IF i \in keep THEN Append(f[i - 1], s[i]) ELSE f[i - 1]]
<1>1. n \in Nat /\ <<>> \in Seq(D) /\ \A i \in 1..n : s[i] \in D
  OBVIOUS
<1>2. g \in [1..n -> [Seq(D) -> Seq(D)]]
  BY <1>1
<1>3. Selected(s, keep) = (CHOOSE f : Def(f))[n]
  BY DEF Selected
<1>4. \E f : Def(f)
  <2>1. PICK f \in [0..n -> Seq(D)] : Follows(f, n, <<>>, g)
    <3> HIDE DEF g, n
    <3> QED
      BY <1>1, <1>2, Recursion
  <2>2. ASSUME NEW i \in 0..n
        PROVE  f[i] = IF i = 0 THEN <<>>
                      ELSE IF i \in keep THEN Append(f[i - 1], s[i]) ELSE f[i - 1]
    <3>1. CASE i = 0
      BY <2>1, <3>1, <1>1, FollowsStep
    <3>2. CASE i # 0
      <4>1. i \in 1..n /\ i - 1 \in 0..n /\ f[i - 1] \in Seq(D)
        <5> HIDE DEF n, g
        <5> QED
          BY <3>2, <1>1, <2>1
      <4>2. f[i] = g[i][f[i - 1]]
        <5> HIDE DEF g
        <5> QED
          BY <1>1, <2>1, <4>1, FollowsStep
      <4> QED
        BY <3>2, <4>1, <4>2
    <3> QED
      BY <3>1, <3>2
  <2>3. Def(f)
    BY <2>1, <2>2
  <2> QED
    BY <2>3
<1>5. PICK t : Def(t) /\ Selected(s, keep) = t[n]
  <2> HIDE DEF Def
  <2> QED
    BY <1>3, <1>4
<1>6. t[0] = <<>> /\ \A i \in 1..n : t[i] = IF i \in keep THEN Append(t[i - 1], s[i]) ELSE t[i - 1]
  <2>1. 0 \in 0..n /\ \A i \in 1..n : i \in 0..n /\ i # 0
    BY <1>1
  <2> QED
    BY <1>5, <2>1
<1> DEFINE T == {i \in Nat : i <= n => t[i] \in Seq(D)}
<1>7. 0 \in T
  BY <1>1, <1>6
<1>8. ASSUME NEW i \in Nat, i \in T PROVE i + 1 \in T
  <2> SUFFICES ASSUME i + 1 <= n PROVE t[i + 1] \in Seq(D)
    OBVIOUS
  <2>1. i + 1 \in 1..n /\ (i + 1) - 1 = i /\ t[i] \in Seq(D) /\ s[i + 1] \in D
    BY <1>8, <1>1
  <2>2. Append(t[i], s[i + 1]) \in Seq(D)
    BY <2>1, AppendProperties
  <2>3. t[i + 1] \in {Append(t[i], s[i + 1]), t[i]}
    BY <1>6, <2>1
  <2> QED
    BY <2>1, <2>2, <2>3
<1>9. \A i \in Nat : i \in T
  <2> HIDE DEF T
  <2> QED
    BY <1>7, <1>8, Induction
<1>10. DOMAIN t = 0..n /\ t = [i \in DOMAIN t |-> t[i]]
  BY <1>5
<1>11. t \in [0..n -> Seq(D)]
  BY <1>9, <1>10
<1> QED
  BY <1>5, <1>6, <1>11 DEF Taking

\* The same is taken of the first n elements of s and p.
Alike(s, p, keep, have, n) ==
    /\ Len(s) \in Nat /\ Len(p) \in Nat /\ n <= Len(s) /\ n <= Len(p)
    /\ \A i \in 1..n : s[i] = p[i] /\ (i \in keep <=> i \in have)

\* Two selections agree as far as their sequences and places do.
LEMMA TakingAgree ==
    ASSUME NEW s, NEW p, NEW t, NEW u, NEW keep, NEW have, NEW n \in Nat,
           Taking(t, s, keep), Taking(u, p, have), Alike(s, p, keep, have, n)
    PROVE  t[n] = u[n]
<1> DEFINE T == {i \in Nat : i <= n => t[i] = u[i]}
<1>1. 0 \in T
  BY DEF Taking
<1>2. ASSUME NEW i \in Nat, i \in T PROVE i + 1 \in T
  <2> SUFFICES ASSUME i + 1 <= n PROVE t[i + 1] = u[i + 1]
    OBVIOUS
  <2>1. /\ i + 1 \in 1..n /\ i + 1 \in 1..Len(s) /\ i + 1 \in 1..Len(p)
        /\ (i + 1) - 1 = i /\ t[i] = u[i] /\ s[i + 1] = p[i + 1]
        /\ (i + 1 \in keep <=> i + 1 \in have)
    BY <1>2 DEF Alike
  <2> QED
    BY <2>1 DEF Taking
<1> HIDE DEF T
<1>3. n \in T
  BY <1>1, <1>2, Induction
<1> QED
  BY <1>3 DEF T

\* Selected depends on the places within the sequence only.
LEMMA SelectedSame ==
    ASSUME NEW D, NEW s \in Seq(D), NEW keep, NEW have,
           \A i \in 1..Len(s) : i \in keep <=> i \in have
    PROVE  Selected(s, keep) = Selected(s, have)
<1>1. PICK t : Taking(t, s, keep) /\ Selected(s, keep) = t[Len(s)]
  BY SelectedIs
<1>2. PICK u : Taking(u, s, have) /\ Selected(s, have) = u[Len(s)]
  BY SelectedIs
<1>3. Len(s) \in Nat /\ Len(s) <= Len(s)
  OBVIOUS
<1> DEFINE n == Len(s)
<1>4. t[n] = u[n]
  <2>1. n \in Nat /\ Alike(s, s, keep, have, n)
    BY <1>3 DEF Alike
  <2> HIDE DEF n
  <2> QED
    BY <1>1, <1>2, <2>1, TakingAgree
<1> QED
  BY <1>1, <1>2, <1>4

\* The elements selected are elements of the sequence.
LEMMA SelectedType ==
    ASSUME NEW D, NEW s \in Seq(D), NEW keep
    PROVE  Selected(s, keep) \in Seq(D)
<1>1. Len(s) \in 0..Len(s)
  OBVIOUS
<1> QED
  BY <1>1, SelectedIs

\* Of nothing, nothing is selected.
LEMMA SelectedOfEmpty ==
    ASSUME NEW keep
    PROVE  Selected(<<>>, keep) = <<>>
<1>1. <<>> \in Seq({}) /\ Len(<<>>) = 0
  OBVIOUS
<1>2. PICK t : Taking(t, <<>>, keep) /\ Selected(<<>>, keep) = t[0]
  BY <1>1, SelectedIs
<1> QED
  BY <1>2 DEF Taking

\* Selecting from a sequence that is one longer.
LEMMA SelectedAppend ==
    ASSUME NEW D, NEW s \in Seq(D), NEW e \in D, NEW keep
    PROVE  Selected(Append(s, e), keep)
             = IF Len(s) + 1 \in keep THEN Append(Selected(s, keep), e) ELSE Selected(s, keep)
<1> DEFINE p == Append(s, e)
           n == Len(s)
<1>1. /\ p \in Seq(D) /\ Len(p) = n + 1 /\ p[n + 1] = e /\ n \in Nat
      /\ \A i \in 1..n : p[i] = s[i]
  BY AppendProperties
<1>2. PICK t : Taking(t, s, keep) /\ Selected(s, keep) = t[n]
  BY SelectedIs
<1> HIDE DEF p
<1>3. PICK u : Taking(u, p, keep) /\ Selected(p, keep) = u[n + 1]
  BY <1>1, SelectedIs
<1>4. u[n] = t[n]
  <2>1. n \in Nat /\ Alike(p, s, keep, keep, n)
    BY <1>1 DEF Alike
  <2> HIDE DEF n
  <2> QED
    BY <1>2, <1>3, <2>1, TakingAgree
<1>5. u[n + 1] = IF n + 1 \in keep THEN Append(u[n], e) ELSE u[n]
  <2>1. n + 1 \in 1..Len(p) /\ (n + 1) - 1 = n
    BY <1>1
  <2> QED
    BY <1>1, <1>3, <2>1 DEF Taking
<1> QED
  BY <1>2, <1>3, <1>4, <1>5 DEF p

-----------------------------------------------------------------------------
\* Filters and images of sequences.

\* The elements of q that are in P, and the images of the elements of q.
Filter(q, P) == Selected(q, {x \in DOMAIN q : q[x] \in P})
Image(W, q) == [x \in DOMAIN q |-> W[q[x]]]

\* Filtering a sequence that is one longer.
LEMMA FilterAppend ==
    ASSUME NEW D, NEW q \in Seq(D), NEW e \in D, NEW P
    PROVE  Filter(Append(q, e), P) = IF e \in P THEN Append(Filter(q, P), e) ELSE Filter(q, P)
<1> DEFINE p == Append(q, e)
           n == Len(q)
           keep == {x \in DOMAIN p : p[x] \in P}
           have == {x \in DOMAIN q : q[x] \in P}
<1>1. /\ p \in Seq(D) /\ Len(p) = n + 1 /\ p[n + 1] = e /\ n \in Nat
      /\ \A i \in 1..n : p[i] = q[i]
  BY AppendProperties
<1>2. DOMAIN p = 1..(n + 1) /\ DOMAIN q = 1..n
  BY <1>1
<1>3. \A i \in 1..n : i \in keep <=> i \in have
  <2> HIDE DEF p, n
  <2>1. \A i \in 1..n : i \in 1..(n + 1)
    BY <1>1
  <2> QED
    BY <1>1, <1>2, <2>1
<1>4. n + 1 \in keep <=> e \in P
  <2> HIDE DEF p, n
  <2>1. n + 1 \in 1..(n + 1)
    BY <1>1
  <2> QED
    BY <1>1, <1>2, <2>1
<1>5. Selected(p, keep) = IF n + 1 \in keep THEN Append(Selected(q, keep), e) ELSE Selected(q, keep)
  <2> HIDE DEF keep
  <2> QED
    BY SelectedAppend
<1>6. Selected(q, keep) = Selected(q, have)
  <2> HIDE DEF keep, have
  <2> QED
    BY <1>3, SelectedSame
<1> QED
  BY <1>4, <1>5, <1>6 DEF Filter

\* Of nothing, nothing is left.
LEMMA FilterOfEmpty ==
    ASSUME NEW P
    PROVE  Filter(<<>>, P) = <<>>
BY SelectedOfEmpty DEF Filter

\* A function applied to every element of a sequence.
LEMMA ImageIs ==
    ASSUME NEW W, NEW q \in Seq(DOMAIN W)
    PROVE  /\ Len(Image(W, q)) = Len(q) /\ DOMAIN Image(W, q) = 1..Len(q)
           /\ \A i \in 1..Len(q) : Image(W, q)[i] = W[q[i]]
BY DEF Image

\* The type of such a sequence.
LEMMA ImageType ==
    ASSUME NEW F, NEW W, \A c \in DOMAIN W : W[c] \in F, NEW q \in Seq(DOMAIN W)
    PROVE  Image(W, q) \in Seq(F)
<1>1. DOMAIN q = 1..Len(q) /\ Len(q) \in Nat /\ \A i \in 1..Len(q) : q[i] \in DOMAIN W
  OBVIOUS
<1>2. Image(W, q) \in [1..Len(q) -> F]
  BY <1>1 DEF Image
<1> QED
  BY <1>1, <1>2

\* The same, one element longer.
LEMMA ImageAppend ==
    ASSUME NEW W, NEW q \in Seq(DOMAIN W), NEW c \in DOMAIN W
    PROVE  Image(W, Append(q, c)) = Append(Image(W, q), W[c])
<1> DEFINE p == Append(q, c)
           n == Len(q)
           a == Image(W, p)
           b == Image(W, q)
           d == Append(b, W[c])
           F == {W[x] : x \in DOMAIN W}
<1>1. /\ p \in Seq(DOMAIN W) /\ Len(p) = n + 1 /\ p[n + 1] = c /\ n \in Nat
      /\ \A i \in 1..n : p[i] = q[i]
  BY AppendProperties
<1>2. W[c] \in F /\ \A x \in DOMAIN W : W[x] \in F
  OBVIOUS
<1> HIDE DEF F
<1>3. a \in Seq(F) /\ Len(a) = n + 1 /\ \A i \in 1..(n + 1) : a[i] = W[p[i]]
  <2> HIDE DEF p
  <2> QED
    BY <1>1, <1>2, ImageIs, ImageType
<1>4. b \in Seq(F) /\ Len(b) = n /\ \A i \in 1..n : b[i] = W[q[i]]
  BY <1>2, ImageIs, ImageType
<1> HIDE DEF a, b, p, n
<1>5. /\ d \in Seq(F) /\ Len(d) = n + 1 /\ d[n + 1] = W[c]
      /\ \A i \in 1..n : d[i] = b[i]
  BY <1>2, <1>4, AppendProperties
<1> HIDE DEF d
<1>6. \A i \in 1..Len(a) : a[i] = d[i]
  <2> TAKE i \in 1..Len(a)
  <2>1. i \in 1..n \/ i = n + 1
    BY <1>1, <1>3
  <2> QED
    BY <1>1, <1>3, <1>4, <1>5, <2>1
<1>7. a = d
  BY <1>3, <1>5, <1>6, SeqEqual
<1> QED
  BY <1>7 DEF a, b, d, p

\* What a filter leaves of the images is the image of what another leaves.
LEMMA Filtered ==
    ASSUME NEW W, NEW s \in Seq(DOMAIN W), NEW P, NEW keep
    PROVE  Filter(Image(W, Selected(s, keep)), P)
             = Image(W, Selected(s, {i \in keep \cap DOMAIN s : W[s[i]] \in P}))
<1> DEFINE n == Len(s)
           less == {i \in keep \cap DOMAIN s : W[s[i]] \in P}
<1>1. n \in Nat /\ DOMAIN s = 1..n /\ \A i \in 1..n : s[i] \in DOMAIN W
  OBVIOUS
<1>2. PICK t \in [0..n -> Seq(DOMAIN W)] : Taking(t, s, keep) /\ Selected(s, keep) = t[n]
  BY SelectedIs
<1>3. PICK u \in [0..n -> Seq(DOMAIN W)] : Taking(u, s, less) /\ Selected(s, less) = u[n]
  BY SelectedIs
<1> DEFINE T == {i \in Nat : i <= n => Filter(Image(W, t[i]), P) = Image(W, u[i])}
<1>4. 0 \in T
  <2>1. t[0] = <<>> /\ u[0] = <<>>
    BY <1>2, <1>3 DEF Taking
  <2>2. Image(W, <<>>) = <<>>
    BY DEF Image
  <2> QED
    BY <2>1, <2>2, FilterOfEmpty
<1>5. ASSUME NEW i \in Nat, i \in T PROVE i + 1 \in T
  <2> SUFFICES ASSUME i + 1 <= n
               PROVE  Filter(Image(W, t[i + 1]), P) = Image(W, u[i + 1])
    OBVIOUS
  <2>1. /\ i + 1 \in 1..n /\ (i + 1) - 1 = i /\ i \in 0..n
        /\ Filter(Image(W, t[i]), P) = Image(W, u[i])
    BY <1>1, <1>5
  <2> DEFINE e == s[i + 1]
  <2>2. e \in DOMAIN W /\ t[i] \in Seq(DOMAIN W) /\ u[i] \in Seq(DOMAIN W)
    BY <1>1, <2>1
  <2>3. t[i + 1] = IF i + 1 \in keep THEN Append(t[i], e) ELSE t[i]
    BY <1>2, <2>1 DEF Taking
  <2>4. u[i + 1] = IF i + 1 \in less THEN Append(u[i], e) ELSE u[i]
    BY <1>3, <2>1 DEF Taking
  <2>5. i + 1 \in less <=> i + 1 \in keep /\ W[e] \in P
    BY <1>1, <2>1
  <2>6. Image(W, Append(t[i], e)) = Append(Image(W, t[i]), W[e])
    <3> HIDE DEF e
    <3> QED
      BY <2>2, ImageAppend
  <2>7. Image(W, Append(u[i], e)) = Append(Image(W, u[i]), W[e])
    <3> HIDE DEF e
    <3> QED
      BY <2>2, ImageAppend
  <2>8. Filter(Append(Image(W, t[i]), W[e]), P)
          = IF W[e] \in P THEN Append(Image(W, u[i]), W[e]) ELSE Image(W, u[i])
    <3> DEFINE v == Image(W, t[i])
               x == W[e]
               F == {W[c] : c \in DOMAIN W}
    <3>1. v \in Seq(F) /\ x \in F
      BY <2>2, ImageType
    <3> HIDE DEF v, x, F
    <3>2. Filter(Append(v, x), P) = IF x \in P THEN Append(Filter(v, P), x) ELSE Filter(v, P)
      BY <3>1, FilterAppend
    <3> QED
      BY <2>1, <3>2 DEF v, x
  <2> HIDE DEF e, less
  <2> QED
    BY <2>1, <2>3, <2>4, <2>5, <2>6, <2>7, <2>8
<1>6. n \in T
  <2> HIDE DEF T
  <2> QED
    BY <1>1, <1>4, <1>5, Induction
<1> QED
  BY <1>1, <1>2, <1>3, <1>6

\* One element more, behind all the others.
LEMMA SelectedMore ==
    ASSUME NEW D, NEW s \in Seq(D), NEW j \in 0..(Len(s) - 1), NEW keep \in SUBSET (1..j)
    PROVE  Selected(s, keep \cup {j + 1}) = Append(Selected(s, keep), s[j + 1])
<1> DEFINE n == Len(s)
           more == keep \cup {j + 1}
<1>1. n \in Nat /\ j \in Nat /\ j + 1 \in 1..n /\ j <= n /\ (j + 1) - 1 = j
  OBVIOUS
<1>2. PICK t : Taking(t, s, keep) /\ Selected(s, keep) = t[n]
  BY SelectedIs
<1>3. PICK u : Taking(u, s, more) /\ Selected(s, more) = u[n]
  BY SelectedIs
<1>4. u[j] = t[j]
  <2>1. \A i \in 1..j : i # j + 1
    BY <1>1
  <2>2. Alike(s, s, more, keep, j)
    BY <1>1, <2>1 DEF Alike
  <2> HIDE DEF more
  <2> QED
    BY <1>1, <1>2, <1>3, <2>2, TakingAgree
<1>5. u[j + 1] = Append(t[j], s[j + 1])
  <2>1. j + 1 \in more
    OBVIOUS
  <2> HIDE DEF more
  <2> QED
    BY <1>1, <1>3, <1>4, <2>1 DEF Taking
<1>6. t[j + 1] = t[j]
  <2>1. j + 1 \notin keep
    BY <1>1
  <2> QED
    BY <1>1, <1>2, <2>1 DEF Taking
<1> DEFINE T == {i \in Nat : i + j + 1 <= n => u[i + j + 1] = u[j + 1] /\ t[i + j + 1] = t[j]}
<1>7. 0 \in T
  BY <1>1, <1>6
<1>8. ASSUME NEW i \in Nat, i \in T PROVE i + 1 \in T
  <2> SUFFICES ASSUME (i + 1) + j + 1 <= n
               PROVE  u[(i + 1) + j + 1] = u[j + 1] /\ t[(i + 1) + j + 1] = t[j]
    OBVIOUS
  <2> DEFINE k == (i + 1) + j + 1
  <2>1. k \in 1..n /\ k - 1 = i + j + 1 /\ i + j + 1 <= n /\ k > j + 1
    BY <1>1
  <2>2. k \notin more /\ k \notin keep
    BY <1>1, <2>1
  <2> HIDE DEF k, more
  <2>3. u[k] = u[k - 1] /\ t[k] = t[k - 1]
    BY <1>2, <1>3, <2>1, <2>2 DEF Taking
  <2>4. u[k] = u[j + 1] /\ t[k] = t[j]
    BY <1>8, <2>1, <2>3
  <2> QED
    BY <2>4 DEF k
<1>9. \A i \in Nat : i \in T
  <2> HIDE DEF T
  <2> QED
    BY <1>7, <1>8, Induction
<1>10. u[n] = u[j + 1] /\ t[n] = t[j]
  <2> DEFINE k == n - (j + 1)
  <2>1. k \in Nat /\ k + j + 1 = n /\ k + j + 1 <= n
    BY <1>1
  <2> HIDE DEF k, n
  <2>2. u[k + j + 1] = u[j + 1] /\ t[k + j + 1] = t[j]
    BY <1>9, <2>1
  <2> QED
    BY <2>1, <2>2
<1> QED
  BY <1>2, <1>3, <1>5, <1>10

-----------------------------------------------------------------------------
\* Names.

NameChar == Char \ (White \cup {":", "LF"})
Name == Seq(NameChar) \ {<<>>}
Fields == [name : Name, value : Line]

\* A line is a text without a line feed in it.
LEMMA LineText ==
    ASSUME NEW s \in Line
    PROVE  s \in Text /\ \A i \in 1..Len(s) : s[i] # "LF"
<1>1. s \in Text
  BY InText DEF Line, NoLF
<1> QED
  BY <1>1, ElementOfSeq DEF Line, NoLF

\* What is known of the characters of a name.
LEMMA NameIs ==
    ASSUME NEW s \in Name
    PROVE  /\ s \in Line /\ s \in Text /\ s # <<>> /\ Len(s) > 0 /\ Len(s) \in Nat
           /\ \A i \in 1..Len(s) : s[i] \in NameChar
           /\ \A i \in 1..Len(s) : s[i] # ":" /\ s[i] \notin White
<1>1. s \in Seq(NameChar) /\ s # <<>>
  BY DEF Name
<1>2. NameChar \subseteq NoLF /\ NameChar \subseteq Char
  BY DEF NameChar, NoLF
<1>3. s \in Line
  BY <1>1, <1>2, SeqMonotonic DEF Line
<1>4. s \in Text
  BY <1>1, <1>2, InText
<1>5. Len(s) \in Nat /\ Len(s) > 0
  BY <1>1
<1>6. \A i \in 1..Len(s) : s[i] \in NameChar
  BY <1>1
<1> QED
  BY <1>1, <1>3, <1>4, <1>5, <1>6 DEF NameChar

\* What tolower makes may stand in a name and stays as it is.
LEMMA LowerChar ==
    ASSUME NEW c \in DOMAIN Lower
    PROVE  Lower[c] \in NameChar /\ Lower[c] \notin DOMAIN Lower
<1>1. Lower[c] \in Range(Lower)
  BY DEF Range
<1>2. "LF" \in Range(CRLF)
  <2>1. DOMAIN CRLF = 1..2 /\ CRLF[2] = "LF"
    BY DEF CRLF
  <2> QED
    BY <2>1 DEF Range
<1> QED
  BY <1>1, <1>2, TextAssumption DEF NameChar

\* A name in lower case is a name, and lower case again changes nothing
\* (StringUtils-inl.h:47-51).
LEMMA LowerName ==
    ASSUME NEW s \in Name
    PROVE  AsciiLower(s) \in Name /\ AsciiLower(AsciiLower(s)) = AsciiLower(s)
<1> DEFINE a == AsciiLower(s)
<1>1. Len(s) \in Nat /\ Len(s) > 0 /\ DOMAIN s = 1..Len(s) /\ \A i \in 1..Len(s) : s[i] \in NameChar
  BY NameIs DEF Text
<1>2. \A i \in 1..Len(s) : a[i] \in NameChar /\ a[i] \notin DOMAIN Lower
  BY <1>1, LowerChar DEF AsciiLower
<1>3. a \in [1..Len(s) -> NameChar]
  BY <1>1, <1>2 DEF AsciiLower
<1>4. a \in Seq(NameChar) /\ Len(a) = Len(s) /\ DOMAIN a = 1..Len(s)
  BY <1>1, <1>3
<1>5. a \in Name
  BY <1>1, <1>4 DEF Name
<1> HIDE DEF a
<1>6. AsciiLower(a) = [i \in DOMAIN a |-> a[i]]
  BY <1>2, <1>4 DEF AsciiLower
<1>7. AsciiLower(a) = a
  BY <1>3, <1>4, <1>6
<1> QED
  BY <1>5, <1>7 DEF a

\* A name has no white space to lose.
LEMMA NameTrimmed ==
    ASSUME NEW s \in Name
    PROVE  TrimLWS(s) = s
<1>1. s \in Text /\ Len(s) \in Nat /\ Len(s) > 0 /\ \A i \in 1..Len(s) : s[i] \notin White
  BY NameIs
<1>2. DOMAIN s = 1..Len(s)
  BY <1>1 DEF Text
<1>3. Solid(s) = 1..Len(s)
  BY <1>1, <1>2 DEF Solid
<1>4. 1 \in Solid(s) /\ Len(s) \in 1..Len(s)
  BY <1>1, <1>3
<1>5. Min(Solid(s)) = 1
  <2>1. Min(Solid(s)) \in 1..Len(s) /\ Min(Solid(s)) <= 1
    BY <1>1, <1>4, SolidEnds
  <2> QED
    BY <1>1, <2>1
<1>6. TrimLWS(s) = SubSeq(s, 1, Len(s))
  BY <1>1, <1>4, <1>5, Trimmed
<1> QED
  BY <1>1, <1>6, SubSeqFull DEF Text

-----------------------------------------------------------------------------
\* The calls of a handler.

\* The name and the value in a call.
LEMMA CallIs ==
    ASSUME NEW c \in Calls
    PROVE  /\ c.name \in Name /\ c.value \in Line
           /\ c.op \in {"add", "set", "remove", "string"}
<1>1. TextNames \subseteq Name /\ TextValues \subseteq Line
  BY ItemAssumption DEF Name, NameChar, Line, NoLF
<1>2. <<>> \in Line
  BY DEF Line
<1> QED
  BY <1>1, <1>2 DEF Calls

\* The field a call adds.
OfCall == [c \in Calls |-> Field(c.name, IF c.op = "string" THEN TrimLWS(c.value) ELSE c.value)]

\* The field a call adds has the name that was given.
LEMMA OfCallIs ==
    ASSUME NEW c \in DOMAIN OfCall
    PROVE  OfCall[c] \in Fields /\ OfCall[c].name = c.name
<1>1. c \in Calls
  BY DEF OfCall
<1>2. NoLF \subseteq Char
  BY DEF NoLF
<1>3. c.name \in Name /\ c.value \in Line /\ TrimLWS(c.value) \in Line
  BY <1>1, <1>2, CallIs, TrimmedIn DEF Line
<1> QED
  BY <1>1, <1>3 DEF OfCall, Fields, Field

\* The other names.
Others(name) == {f \in Fields : AsciiLower(f.name) # AsciiLower(name)}

\* Headers::remove leaves the fields of other names (Headers.cpp).
LEMMA RemoveIs ==
    ASSUME NEW kv \in Seq(Fields), NEW name
    PROVE  HeadersRemove(kv, name) = Filter(kv, Others(name))
<1> DEFINE have == DOMAIN kv \ Find(kv, name)
           keep == {x \in DOMAIN kv : kv[x] \in Others(name)}
<1>1. \A i \in 1..Len(kv) : i \in have <=> i \in keep
  BY DEF Others, Find, SameName
<1> HIDE DEF have, keep
<1>2. Selected(kv, have) = Selected(kv, keep)
  BY <1>1, SelectedSame
<1> QED
  BY <1>2 DEF HeadersRemove, Filter, have, keep

\* Each call on Headers as an Append, a filter or both.
LEMMA ApplyIs ==
    ASSUME NEW kv \in Seq(Fields), NEW c \in Calls
    PROVE  Apply(kv, c) = CASE c.op \in {"add", "string"} -> Append(kv, OfCall[c])
                            [] c.op = "set" -> Append(Filter(kv, Others(c.name)), OfCall[c])
                            [] c.op = "remove" -> Filter(kv, Others(c.name))
<1>1. c.name \in Name /\ c.op \in {"add", "set", "remove", "string"}
  BY CallIs
<1>2. TrimLWS(c.name) = c.name
  BY <1>1, NameTrimmed
<1>3. HeadersRemove(kv, c.name) = Filter(kv, Others(c.name))
  BY RemoveIs
<1>4. CASE c.op = "add"
  BY <1>4 DEF Apply, HeadersAdd, OfCall
<1>5. CASE c.op = "string"
  BY <1>2, <1>5 DEF Apply, HeadersAdd, OfCall, FromString, Field
<1>6. CASE c.op = "set"
  BY <1>3, <1>6 DEF Apply, HeadersSet, HeadersAdd, OfCall
<1>7. CASE c.op = "remove"
  BY <1>3, <1>7 DEF Apply
<1> QED
  BY <1>1, <1>4, <1>5, <1>6, <1>7

\* What is left of a sequence has its type.
LEMMA FilterType ==
    ASSUME NEW D, NEW q \in Seq(D), NEW P
    PROVE  Filter(q, P) \in Seq(D)
BY SelectedType DEF Filter

\* A call keeps the fields fields.
LEMMA ApplyType ==
    ASSUME NEW kv \in Seq(Fields), NEW c \in Calls
    PROVE  Apply(kv, c) \in Seq(Fields)
<1>1. OfCall[c] \in Fields
  BY OfCallIs DEF OfCall
<1>2. Filter(kv, Others(c.name)) \in Seq(Fields)
  BY FilterType
<1>3. /\ Append(kv, OfCall[c]) \in Seq(Fields)
      /\ Append(Filter(kv, Others(c.name)), OfCall[c]) \in Seq(Fields)
  BY <1>1, <1>2, AppendProperties
<1>4. c.op \in {"add", "set", "remove", "string"}
  BY CallIs
<1> QED
  BY <1>2, <1>3, <1>4, ApplyIs

\* The recursive function within Applied.
LEMMA AppliedSteps ==
    ASSUME NEW ops \in Seq(Calls)
    PROVE  \E kv \in [0..Len(ops) -> Seq(Fields)] :
               /\ kv[0] = <<>> /\ Applied(ops) = kv[Len(ops)]
               /\ \A i \in 1..Len(ops) : kv[i] = Apply(kv[i - 1], ops[i])
<1> DEFINE n == Len(ops)
           g == [i \in 1..n |-> [x \in Seq(Fields) |-> Apply(x, ops[i])]]
           Def(f) == f = [i \in 0..n |-> IF i = 0 THEN <<>> ELSE Apply(f[i - 1], ops[i])]
<1>1. n \in Nat /\ <<>> \in Seq(Fields) /\ \A i \in 1..n : ops[i] \in Calls
  OBVIOUS
<1>2. g \in [1..n -> [Seq(Fields) -> Seq(Fields)]]
  BY <1>1, ApplyType
<1>3. Applied(ops) = (CHOOSE f : Def(f))[n]
  BY DEF Applied
<1>4. \E f : Def(f)
  <2>1. PICK f \in [0..n -> Seq(Fields)] : Follows(f, n, <<>>, g)
    <3> HIDE DEF g, n
    <3> QED
      BY <1>1, <1>2, Recursion
  <2>2. ASSUME NEW i \in 0..n
        PROVE  f[i] = IF i = 0 THEN <<>> ELSE Apply(f[i - 1], ops[i])
    <3>1. CASE i = 0
      BY <2>1, <3>1, <1>1, FollowsStep
    <3>2. CASE i # 0
      <4>1. i \in 1..n /\ i - 1 \in 0..n /\ f[i - 1] \in Seq(Fields)
        <5> HIDE DEF n, g
        <5> QED
          BY <3>2, <1>1, <2>1
      <4>2. f[i] = g[i][f[i - 1]]
        <5> HIDE DEF g, n
        <5>1. n \in Nat /\ Follows(f, n, <<>>, g)
          BY <1>1, <2>1
        <5>2. \A k \in 1..n : f[k] = g[k][f[k - 1]]
          <6>1. \A k \in 1..n : k \in 0..n /\ k # 0
            BY <5>1
          <6>2. f = [k \in 0..n |-> IF k = 0 THEN <<>> ELSE g[k][f[k - 1]]]
            BY <5>1 DEF Follows
          <6> QED
            BY <6>1, <6>2
        <5> QED
          BY <4>1, <5>2
      <4> QED
        BY <3>2, <4>1, <4>2
    <3> QED
      BY <3>1, <3>2
  <2>3. Def(f)
    BY <2>1, <2>2
  <2> QED
    BY <2>3
<1>5. PICK kv : Def(kv) /\ Applied(ops) = kv[n]
  <2> HIDE DEF Def
  <2> QED
    BY <1>3, <1>4
<1>6. kv[0] = <<>> /\ \A i \in 1..n : kv[i] = Apply(kv[i - 1], ops[i])
  <2>1. 0 \in 0..n /\ \A i \in 1..n : i \in 0..n /\ i # 0
    BY <1>1
  <2> QED
    BY <1>5, <2>1
<1> DEFINE T == {i \in Nat : i <= n => kv[i] \in Seq(Fields)}
<1>7. 0 \in T
  BY <1>1, <1>6
<1>8. ASSUME NEW i \in Nat, i \in T PROVE i + 1 \in T
  <2> SUFFICES ASSUME i + 1 <= n PROVE kv[i + 1] \in Seq(Fields)
    OBVIOUS
  <2>1. i + 1 \in 1..n /\ (i + 1) - 1 = i /\ kv[i] \in Seq(Fields) /\ ops[i + 1] \in Calls
    BY <1>8, <1>1
  <2>2. Apply(kv[i], ops[i + 1]) \in Seq(Fields)
    BY <2>1, ApplyType
  <2> QED
    BY <1>6, <2>1, <2>2
<1>9. \A i \in Nat : i \in T
  <2> HIDE DEF T
  <2> QED
    BY <1>7, <1>8, Induction
<1>10. DOMAIN kv = 0..n /\ kv = [i \in DOMAIN kv |-> kv[i]]
  BY <1>5
<1>11. kv \in [0..n -> Seq(Fields)]
  BY <1>9, <1>10
<1> QED
  BY <1>5, <1>6, <1>11

\* Call l takes back what call i has added.
Undoes(ops, l, i) ==
    l > i /\ ops[l].op \in {"set", "remove"} /\ AsciiLower(ops[l].name) = AsciiLower(ops[i].name)

\* The calls among the first j whose field is there after them.
Standing(ops, j) ==
    {i \in 1..j : ops[i].op # "remove" /\ ~(\E l \in 1..j : Undoes(ops, l, i))}

\* Which of the calls still stand after one more.
LEMMA StandingStep ==
    ASSUME NEW ops \in Seq(Calls), NEW j \in 0..(Len(ops) - 1)
    PROVE  LET c == ops[j + 1]
               less == {i \in Standing(ops, j) \cap DOMAIN ops : OfCall[ops[i]] \in Others(c.name)}
           IN  /\ c.op \in {"add", "string"} => Standing(ops, j + 1) = Standing(ops, j) \cup {j + 1}
               /\ c.op = "set" => Standing(ops, j + 1) = less \cup {j + 1}
               /\ c.op = "remove" => Standing(ops, j + 1) = less
<1> DEFINE c == ops[j + 1]
           less == {i \in Standing(ops, j) \cap DOMAIN ops : OfCall[ops[i]] \in Others(c.name)}
<1>1. j \in Nat /\ j + 1 \in 1..Len(ops) /\ DOMAIN ops = 1..Len(ops) /\ c \in Calls
  OBVIOUS
<1>2. \A i \in 1..j : i \in DOMAIN ops /\ ops[i] \in Calls
  BY <1>1
<1>3. \A i \in 1..j : OfCall[ops[i]] \in Others(c.name) <=> AsciiLower(ops[i].name) # AsciiLower(c.name)
  BY <1>2, OfCallIs DEF Others, OfCall
<1>4. \A i : i \in Standing(ops, j + 1) <=>
               /\ i \in 1..(j + 1) /\ ops[i].op # "remove"
               /\ ~(\E l \in 1..(j + 1) : Undoes(ops, l, i))
  BY DEF Standing
<1>5. \A i : i \in Standing(ops, j) <=>
               /\ i \in 1..j /\ ops[i].op # "remove" /\ ~(\E l \in 1..j : Undoes(ops, l, i))
  BY DEF Standing
<1>6. \A i \in 1..j : (\E l \in 1..(j + 1) : Undoes(ops, l, i))
                         <=> Undoes(ops, j + 1, i) \/ (\E l \in 1..j : Undoes(ops, l, i))
  <2>1. 1..(j + 1) = (1..j) \cup {j + 1}
    BY <1>1
  <2> QED
    BY <2>1
<1>7. ~(\E l \in 1..(j + 1) : Undoes(ops, l, j + 1))
  BY <1>1 DEF Undoes
<1>8. \A i \in 1..j : Undoes(ops, j + 1, i) <=>
                         /\ c.op \in {"set", "remove"}
                         /\ AsciiLower(c.name) = AsciiLower(ops[i].name)
  BY <1>1 DEF Undoes
<1>9. /\ j + 1 \in Standing(ops, j + 1) <=> c.op # "remove"
      /\ j + 1 \in 1..(j + 1) /\ j + 1 \notin 1..j
      /\ \A i \in 1..(j + 1) : i \in 1..j \/ i = j + 1
      /\ \A i \in 1..j : i \in 1..(j + 1)
  BY <1>1, <1>4, <1>7
<1>10. \A i \in 1..j : i \in Standing(ops, j + 1) <=> i \in Standing(ops, j) /\ ~Undoes(ops, j + 1, i)
  BY <1>4, <1>5, <1>6, <1>9
<1>11. \A i : i \in less <=> i \in Standing(ops, j) /\ AsciiLower(ops[i].name) # AsciiLower(c.name)
  BY <1>2, <1>3, <1>5
<1>12. Standing(ops, j + 1) \subseteq 1..(j + 1) /\ Standing(ops, j) \subseteq 1..j
  BY <1>4, <1>5
<1> HIDE DEF c, less
<1>13. ASSUME c.op \in {"add", "string"} PROVE Standing(ops, j + 1) = Standing(ops, j) \cup {j + 1}
  <2>1. \A i \in 1..j : i \in Standing(ops, j + 1) <=> i \in Standing(ops, j)
    BY <1>8, <1>10, <1>13
  <2> QED
    BY <1>9, <1>12, <1>13, <2>1
<1>14. \A i \in 1..j : c.op \in {"set", "remove"} =>
           (i \in Standing(ops, j + 1) <=> i \in less)
  BY <1>8, <1>10, <1>11
<1>15. less \subseteq 1..j
  BY <1>11, <1>12
<1>16. ASSUME c.op = "set" PROVE Standing(ops, j + 1) = less \cup {j + 1}
  BY <1>9, <1>12, <1>14, <1>15, <1>16
<1>17. ASSUME c.op = "remove" PROVE Standing(ops, j + 1) = less
  BY <1>9, <1>12, <1>14, <1>15, <1>17
<1> QED
  BY <1>13, <1>16, <1>17 DEF c, less

\* The headers are the fields of the calls that nothing has taken back.
LEMMA AppliedIs ==
    ASSUME NEW ops \in Seq(Calls)
    PROVE  Kept(ops) \in Seq(Calls) /\ Applied(ops) = Image(OfCall, Kept(ops))
<1> DEFINE n == Len(ops)
<1>1. n \in Nat /\ DOMAIN ops = 1..n /\ \A i \in 1..n : ops[i] \in Calls
  OBVIOUS
<1>2. DOMAIN OfCall = Calls
  BY DEF OfCall
<1>3. PICK kv \in [0..n -> Seq(Fields)] :
               /\ kv[0] = <<>> /\ Applied(ops) = kv[n]
               /\ \A i \in 1..n : kv[i] = Apply(kv[i - 1], ops[i])
  BY AppliedSteps
<1> DEFINE T == {j \in Nat : j <= n => kv[j] = Image(OfCall, Selected(ops, Standing(ops, j)))}
<1>4. 0 \in T
  <2>1. \A i \in 1..Len(ops) : i \in Standing(ops, 0) <=> i \in {}
    BY DEF Standing
  <2>2. Selected(ops, Standing(ops, 0)) = <<>>
    <3>1. PICK t : Taking(t, ops, {}) /\ Selected(ops, {}) = t[n]
      BY SelectedIs
    <3> DEFINE U == {i \in Nat : i <= n => t[i] = <<>>}
    <3>2. 0 \in U
      BY <3>1 DEF Taking
    <3>3. ASSUME NEW i \in Nat, i \in U PROVE i + 1 \in U
      <4> SUFFICES ASSUME i + 1 <= n PROVE t[i + 1] = <<>>
        OBVIOUS
      <4>1. i + 1 \in 1..n /\ (i + 1) - 1 = i /\ t[i] = <<>>
        BY <1>1, <3>3
      <4> QED
        BY <3>1, <4>1 DEF Taking
    <3>4. n \in U
      <4> HIDE DEF U
      <4> QED
        BY <1>1, <3>2, <3>3, Induction
    <3>5. Selected(ops, {}) = <<>>
      BY <1>1, <3>1, <3>4
    <3> QED
      BY <2>1, <3>5, SelectedSame
  <2>3. Image(OfCall, <<>>) = <<>>
    BY DEF Image
  <2> QED
    BY <1>3, <2>2, <2>3
<1>5. ASSUME NEW j \in Nat, j \in T PROVE j + 1 \in T
  <2> SUFFICES ASSUME j + 1 <= n
               PROVE  kv[j + 1] = Image(OfCall, Selected(ops, Standing(ops, j + 1)))
    OBVIOUS
  <2> DEFINE c == ops[j + 1]
             S == Standing(ops, j)
             less == {i \in S \cap DOMAIN ops : OfCall[ops[i]] \in Others(c.name)}
  <2>1. /\ j + 1 \in 1..n /\ (j + 1) - 1 = j /\ j \in 0..n /\ j \in 0..(n - 1)
        /\ kv[j] = Image(OfCall, Selected(ops, S))
    BY <1>1, <1>5
  <2>2. c \in Calls /\ kv[j] \in Seq(Fields) /\ kv[j + 1] = Apply(kv[j], c)
    BY <1>1, <1>3, <2>1
  <2>3. S \in SUBSET (1..j) /\ less \in SUBSET (1..j)
    BY DEF Standing
  <2>4. Filter(kv[j], Others(c.name)) = Image(OfCall, Selected(ops, less))
    <3> DEFINE P == Others(c.name)
    <3> HIDE DEF P, S
    <3>1. Filter(Image(OfCall, Selected(ops, S)), P)
             = Image(OfCall, Selected(ops, {i \in S \cap DOMAIN ops : OfCall[ops[i]] \in P}))
      BY <1>2, Filtered
    <3> QED
      BY <2>1, <3>1 DEF P
  <2>5. /\ c.op \in {"add", "string"} => Standing(ops, j + 1) = S \cup {j + 1}
        /\ c.op = "set" => Standing(ops, j + 1) = less \cup {j + 1}
        /\ c.op = "remove" => Standing(ops, j + 1) = less
    BY <2>1, StandingStep
  <2>6. c.op \in {"add", "set", "remove", "string"}
    BY <2>2, CallIs
  <2>7. Apply(kv[j], c) = CASE c.op \in {"add", "string"} -> Append(kv[j], OfCall[c])
                            [] c.op = "set" -> Append(Filter(kv[j], Others(c.name)), OfCall[c])
                            [] c.op = "remove" -> Filter(kv[j], Others(c.name))
    BY <2>2, ApplyIs
  <2>8. ASSUME NEW K \in SUBSET (1..j)
        PROVE  Image(OfCall, Selected(ops, K \cup {j + 1}))
                  = Append(Image(OfCall, Selected(ops, K)), OfCall[c])
    <3>1. Selected(ops, K \cup {j + 1}) = Append(Selected(ops, K), c)
      BY <2>1, SelectedMore
    <3>2. Selected(ops, K) \in Seq(DOMAIN OfCall) /\ c \in DOMAIN OfCall
      BY <1>2, <2>2, SelectedType
    <3> HIDE DEF c
    <3> QED
      BY <3>1, <3>2, ImageAppend
  <2> HIDE DEF c, S, less
  <2>9. CASE c.op \in {"add", "string"}
    <3>1. Apply(kv[j], c) = Append(kv[j], OfCall[c])
      BY <2>7, <2>9
    <3> QED
      BY <2>1, <2>2, <2>3, <2>5, <2>8, <2>9, <3>1
  <2>10. CASE c.op = "set"
    <3>1. Apply(kv[j], c) = Append(Filter(kv[j], Others(c.name)), OfCall[c])
      BY <2>7, <2>10
    <3> QED
      BY <2>2, <2>3, <2>4, <2>5, <2>8, <2>10, <3>1
  <2>11. CASE c.op = "remove"
    <3>1. Apply(kv[j], c) = Filter(kv[j], Others(c.name))
      BY <2>7, <2>11
    <3> QED
      BY <2>2, <2>4, <2>5, <2>11, <3>1
  <2> QED
    BY <2>6, <2>9, <2>10, <2>11
<1>6. n \in T
  <2> HIDE DEF T
  <2> QED
    BY <1>1, <1>4, <1>5, Induction
<1>7. Kept(ops) = Selected(ops, Standing(ops, n))
  BY <1>1 DEF Kept, Standing, Undoes
<1>8. Selected(ops, Standing(ops, n)) \in Seq(Calls)
  BY SelectedType
<1> QED
  BY <1>1, <1>3, <1>6, <1>7, <1>8

-----------------------------------------------------------------------------
\* Numbers in decimal.

Ten == Range(Digits10)

\* The ten digits and their values.
LEMMA DigitIs ==
    /\ \A i \in 1..10 : Digits10[i] \in Ten /\ DecimalValue(Digits10[i]) = i - 1
    /\ Ten \subseteq NoLF /\ Ten \cap White = {} /\ Ten \subseteq Char
    /\ \A c \in Ten : IsDigit(c)
<1>1. DOMAIN Digits10 = 1..10
  BY DEF Digits10
<1>2. Ten = {"0", "1", "2", "3", "4", "5", "6", "7", "8", "9"}
  BY DEF Ten, Range, Digits10
<1>3. \A i \in 1..10 : Digits10[i] \in Ten
  BY <1>1 DEF Ten, Range
<1>4. \A i, j \in 1..10 : Digits10[i] = Digits10[j] => i = j
  BY DEF Digits10
<1>5. \A i \in 1..10 : (CHOOSE j \in 1..10 : Digits10[j] = Digits10[i]) = i
  BY <1>4
<1>6. \A i \in 1..10 : DecimalValue(Digits10[i]) = i - 1
  BY <1>5 DEF DecimalValue
<1>7. Ten \subseteq Char
  BY TextAssumption DEF Ten
<1>8. "LF" \notin Ten /\ Ten \cap White = {}
  BY <1>2 DEF White
<1> QED
  BY <1>3, <1>6, <1>7, <1>8 DEF NoLF, IsDigit, Ten

\* A number, its tenth and its last digit.
LEMMA Division ==
    ASSUME NEW n \in Nat
    PROVE  /\ n \div 10 \in Nat /\ n % 10 \in 0..9 /\ n = 10 * (n \div 10) + (n % 10)
           /\ n >= 10 => n \div 10 < n
           /\ (n % 10) + 1 \in 1..10 /\ n < 10 => n + 1 \in 1..10
OBVIOUS

Digit(n) == <<Digits10[n + 1]>>

\* f is Decimal up to m.
DecimalTo(f, m) ==
    f = [n \in 0..m |-> IF n < 10 THEN Digit(n) ELSE f[n \div 10] \o Digit(n % 10)]

\* A function that follows the definition of Decimal up to m, at n.
LEMMA DecimalToStep ==
    ASSUME NEW m \in Nat, NEW f, DecimalTo(f, m), NEW n \in 0..m
    PROVE  f[n] = IF n < 10 THEN Digit(n) ELSE f[n \div 10] \o Digit(n % 10)
BY DEF DecimalTo

\* There is one for every m.
LEMMA DecimalToExists ==
    \A m \in Nat : \E f : DecimalTo(f, m)
<1> DEFINE T == {m \in Nat : \E f : DecimalTo(f, m)}
<1>1. 0 \in T
  <2>1. DecimalTo([n \in 0..0 |-> Digit(n)], 0)
    BY DEF DecimalTo
  <2> QED
    BY <2>1
<1>2. ASSUME NEW m \in Nat, m \in T PROVE m + 1 \in T
  <2>1. PICK f : DecimalTo(f, m)
    BY <1>2
  <2> DEFINE k == m + 1
             last == IF k < 10 THEN Digit(k) ELSE f[k \div 10] \o Digit(k % 10)
             h == [n \in 0..k |-> IF n <= m THEN f[n] ELSE last]
  <2>2. ASSUME NEW n \in 0..k
        PROVE  h[n] = IF n < 10 THEN Digit(n) ELSE h[n \div 10] \o Digit(n % 10)
    <3>1. n \in Nat /\ n \div 10 \in Nat /\ (n >= 10 => n \div 10 < n)
      BY Division
    <3>2. n >= 10 => n \div 10 \in 0..m /\ n \div 10 \in 0..k
      BY <3>1
    <3>3. n >= 10 => h[n \div 10] = f[n \div 10]
      BY <3>2
    <3>4. CASE n <= m
      <4>1. n \in 0..m /\ h[n] = f[n]
        BY <3>1, <3>4
      <4>2. f[n] = IF n < 10 THEN Digit(n) ELSE f[n \div 10] \o Digit(n % 10)
        BY <2>1, <4>1, DecimalToStep
      <4> HIDE DEF h, k
      <4> QED
        BY <3>1, <3>3, <4>1, <4>2
    <3>5. CASE n = k
      <4>1. h[n] = last
        BY <3>5
      <4> HIDE DEF h, k
      <4> QED
        BY <3>1, <3>3, <3>5, <4>1
    <3> QED
      BY <3>1, <3>4, <3>5
  <2>3. DecimalTo(h, k)
    BY <2>2 DEF DecimalTo
  <2> QED
    BY <2>3
<1> HIDE DEF T
<1>3. \A m \in Nat : m \in T
  BY <1>1, <1>2, Induction
<1> QED
  BY <1>3 DEF T

\* And it does not depend on m.
LEMMA DecimalToUnique ==
    ASSUME NEW m \in Nat, NEW k \in Nat, NEW f, NEW g, DecimalTo(f, m), DecimalTo(g, k)
    PROVE  \A n \in Nat : n <= m /\ n <= k => f[n] = g[n]
<1> DEFINE T == {b \in Nat : \A n \in 0..b : n <= m /\ n <= k => f[n] = g[n]}
<1>1. ASSUME NEW n \in Nat, n <= m, n <= k, n >= 10 => f[n \div 10] = g[n \div 10]
      PROVE  f[n] = g[n]
  <2>1. n \in 0..m /\ n \in 0..k
    BY <1>1
  <2>2. f[n] = IF n < 10 THEN Digit(n) ELSE f[n \div 10] \o Digit(n % 10)
    BY <2>1, DecimalToStep
  <2>3. g[n] = IF n < 10 THEN Digit(n) ELSE g[n \div 10] \o Digit(n % 10)
    BY <2>1, DecimalToStep
  <2> QED
    BY <1>1, <2>2, <2>3
<1>2. 0 \in T
  <2> SUFFICES ASSUME NEW n \in 0..0, n <= m, n <= k PROVE f[n] = g[n]
    OBVIOUS
  <2>1. n \in Nat /\ ~(n >= 10)
    OBVIOUS
  <2> QED
    BY <1>1, <2>1
<1>3. ASSUME NEW b \in Nat, b \in T PROVE b + 1 \in T
  <2> SUFFICES ASSUME NEW n \in 0..(b + 1), n <= m, n <= k PROVE f[n] = g[n]
    OBVIOUS
  <2>1. n \in Nat /\ n \div 10 \in Nat /\ (n >= 10 => n \div 10 < n)
    BY Division
  <2>2. n >= 10 => n \div 10 \in 0..b /\ n \div 10 <= m /\ n \div 10 <= k
    BY <2>1
  <2>3. n >= 10 => f[n \div 10] = g[n \div 10]
    BY <1>3, <2>2
  <2> QED
    BY <1>1, <2>1, <2>3
<1> HIDE DEF T
<1>4. \A b \in Nat : b \in T
  BY <1>2, <1>3, Induction
<1> QED
  BY <1>4 DEF T

\* Decimal satisfies its definition.
LEMMA DecimalIs ==
    \A n \in Nat : Decimal[n] = IF n < 10 THEN Digit(n) ELSE Decimal[n \div 10] \o Digit(n % 10)
<1> DEFINE Def(f) == f = [n \in Nat |-> IF n < 10 THEN <<Digits10[n + 1]>>
                                         ELSE f[n \div 10] \o <<Digits10[(n % 10) + 1]>>]
           H(m) == CHOOSE f : DecimalTo(f, m)
           d == [n \in Nat |-> H(n)[n]]
<1>1. Decimal = CHOOSE f : Def(f)
  BY DEF Decimal
<1>2. \A m \in Nat : DecimalTo(H(m), m)
  BY DecimalToExists
<1>3. ASSUME NEW n \in Nat
      PROVE  d[n] = IF n < 10 THEN Digit(n) ELSE d[n \div 10] \o Digit(n % 10)
  <2>1. d[n] = H(n)[n] /\ n \in 0..n
    OBVIOUS
  <2>2. H(n)[n] = IF n < 10 THEN Digit(n) ELSE H(n)[n \div 10] \o Digit(n % 10)
    <3> HIDE DEF H
    <3> QED
      BY <1>2, <2>1, DecimalToStep
  <2> DEFINE k == n \div 10
  <2>3. k \in Nat /\ k <= k /\ (n >= 10 => k <= n)
    BY Division
  <2>4. d[k] = H(k)[k]
    BY <2>3
  <2>5. n >= 10 => H(n)[k] = H(k)[k]
    <3> HIDE DEF H, k
    <3> QED
      BY <1>2, <2>3, DecimalToUnique
  <2> HIDE DEF d, H
  <2> QED
    BY <2>1, <2>2, <2>4, <2>5
<1>4. Def(d)
  <2> HIDE DEF H
  <2>1. DOMAIN d = Nat /\ d = [n \in Nat |-> d[n]]
    OBVIOUS
  <2> HIDE DEF d
  <2> QED
    BY <1>3, <2>1 DEF Digit
<1>5. Def(Decimal)
  <2> HIDE DEF Def, d
  <2> QED
    BY <1>1, <1>4
<1> QED
  BY <1>5 DEF Digit

\* A digit as a text.
LEMMA DigitText ==
    ASSUME NEW n \in 0..9
    PROVE  /\ Digit(n) \in Seq(Ten) /\ Digit(n) \in Text /\ Len(Digit(n)) = 1
           /\ Digit(n)[1] = Digits10[n + 1] /\ DecimalValue(Digit(n)[1]) = n
<1>1. n + 1 \in 1..10 /\ (n + 1) - 1 = n
  OBVIOUS
<1>2. Digits10[n + 1] \in Ten /\ Digits10[n + 1] \in Char /\ DecimalValue(Digits10[n + 1]) = n
  BY <1>1, DigitIs
<1> QED
  BY <1>2 DEF Digit, Text

\* A number of two digits or more.
LEMMA DecimalMore ==
    ASSUME NEW n \in Nat, n >= 10
    PROVE  Decimal[n] = Decimal[n \div 10] \o Digit(n % 10)
<1>1. ~(n < 10)
  OBVIOUS
<1>2. Decimal[n] = IF n < 10 THEN Digit(n) ELSE Decimal[n \div 10] \o Digit(n % 10)
  BY DecimalIs
<1> QED
  BY <1>1, <1>2

\* By induction: what is shown for a number from a tenth of it holds of all.
LEMMA DecimalType ==
    \A n \in Nat : Decimal[n] \in Seq(Ten) /\ Len(Decimal[n]) > 0
<1> DEFINE T == {b \in Nat : \A n \in 0..b : Decimal[n] \in Seq(Ten) /\ Len(Decimal[n]) > 0}
<1>1. ASSUME NEW n \in Nat, n < 10
      PROVE  Decimal[n] \in Seq(Ten) /\ Len(Decimal[n]) > 0
  <2>1. Decimal[n] = Digit(n) /\ n \in 0..9
    BY <1>1, DecimalIs
  <2> QED
    BY <2>1, DigitText
<1>2. ASSUME NEW n \in Nat, n >= 10, Decimal[n \div 10] \in Seq(Ten)
      PROVE  Decimal[n] \in Seq(Ten) /\ Len(Decimal[n]) > 0
  <2> DEFINE p == Decimal[n \div 10]
             q == Digit(n % 10)
  <2>1. Decimal[n] = p \o q
    BY <1>2, DecimalMore
  <2>2. q \in Seq(Ten) /\ Len(q) = 1
    BY Division, DigitText
  <2>3. p \in Seq(Ten)
    BY <1>2
  <2> HIDE DEF p, q
  <2>4. p \o q \in Seq(Ten) /\ Len(p \o q) = Len(p) + Len(q)
    BY <2>2, <2>3, ConcatProperties
  <2>5. Len(p) \in Nat
    BY <2>3
  <2> QED
    BY <2>1, <2>2, <2>4, <2>5
<1>3. 0 \in T
  BY <1>1
<1>4. ASSUME NEW b \in Nat, b \in T PROVE b + 1 \in T
  <2> SUFFICES ASSUME NEW n \in 0..(b + 1)
               PROVE  Decimal[n] \in Seq(Ten) /\ Len(Decimal[n]) > 0
    OBVIOUS
  <2>1. n \in Nat /\ n \div 10 \in Nat /\ (n >= 10 => n \div 10 < n)
    BY Division
  <2>2. CASE n < 10
    BY <1>1, <2>1, <2>2
  <2>3. CASE n >= 10
    <3>1. n \div 10 \in 0..b
      BY <2>1, <2>3
    <3>2. Decimal[n \div 10] \in Seq(Ten)
      BY <1>4, <3>1
    <3> QED
      BY <1>2, <2>1, <2>3, <3>2
  <2> QED
    BY <2>1, <2>2, <2>3
<1> HIDE DEF T
<1>5. \A b \in Nat : b \in T
  BY <1>3, <1>4, Induction
<1> QED
  BY <1>5 DEF T

\* v adds up the digits d.
Adds(v, d) == v[0] = 0 /\ \A k \in 1..Len(d) : v[k] = 10 * v[k - 1] + DecimalValue(d[k])

\* Adding up all digits but the last.
LEMMA AddsLess ==
    ASSUME NEW v, NEW p \in Seq(Ten), NEW q \in Seq(Ten), Len(q) = 1, Adds(v, p \o q)
    PROVE  /\ Adds(v, p) /\ Len(p \o q) = Len(p) + 1 /\ Len(p) \in Nat
           /\ v[Len(p) + 1] = 10 * v[Len(p)] + DecimalValue(q[1])
<1> DEFINE d == p \o q
<1>1. p \in Text /\ q \in Text
  BY DigitIs, InText
<1>2. /\ Len(p) \in Nat /\ Len(d) = Len(p) + 1
      /\ \A i \in 1..Len(p) : d[i] = p[i]
      /\ \A i \in 1..Len(q) : d[Len(p) + i] = q[i]
  <2>1. /\ Len(p) \in Nat /\ Len(q) \in Nat
        /\ p \o q \in Text /\ Len(p \o q) = Len(p) + Len(q)
        /\ \A i \in 1..Len(p) : (p \o q)[i] = p[i]
        /\ \A i \in 1..Len(q) : (p \o q)[Len(p) + i] = q[i]
    BY <1>1, Both
  <2> QED
    BY <2>1
<1>3. d[Len(p) + 1] = q[1] /\ Adds(v, d)
  BY <1>2
<1> HIDE DEF d
<1>4. Adds(v, p)
  <2>1. \A k \in 1..Len(p) : k \in 1..Len(d)
    BY <1>2
  <2> QED
    BY <1>2, <1>3, <2>1 DEF Adds
<1>5. v[Len(p) + 1] = 10 * v[Len(p)] + DecimalValue(q[1])
  <2>1. Len(p) + 1 \in 1..Len(d) /\ (Len(p) + 1) - 1 = Len(p)
    BY <1>2
  <2> QED
    BY <1>3, <2>1 DEF Adds
<1> QED
  BY <1>2, <1>4, <1>5 DEF d

\* The digits std::to_string writes add up to the number.
LEMMA DecimalAdds ==
    \A n \in Nat : \A v : Adds(v, Decimal[n]) => v[Len(Decimal[n])] = n
<1> DEFINE Good(n) == \A v : Adds(v, Decimal[n]) => v[Len(Decimal[n])] = n
           T == {b \in Nat : \A n \in 0..b : Good(n)}
<1>1. ASSUME NEW n \in Nat, n < 10 PROVE Good(n)
  <2> SUFFICES ASSUME NEW v, Adds(v, Decimal[n]) PROVE v[Len(Decimal[n])] = n
    OBVIOUS
  <2>1. Decimal[n] = Digit(n) /\ n \in 0..9
    BY <1>1, DecimalIs
  <2>2. Len(Digit(n)) = 1 /\ DecimalValue(Digit(n)[1]) = n
    BY <2>1, DigitText
  <2>3. v[0] = 0 /\ v[1] = 10 * v[1 - 1] + n
    BY <2>1, <2>2 DEF Adds
  <2> QED
    BY <2>1, <2>2, <2>3
<1>2. ASSUME NEW n \in Nat, n >= 10, Good(n \div 10) PROVE Good(n)
  <2> SUFFICES ASSUME NEW v, Adds(v, Decimal[n]) PROVE v[Len(Decimal[n])] = n
    OBVIOUS
  <2> DEFINE k == n \div 10
             p == Decimal[k]
             q == Digit(n % 10)
  <2>1. Decimal[n] = p \o q
    BY <1>2, DecimalMore
  <2>2. q \in Seq(Ten) /\ Len(q) = 1 /\ DecimalValue(q[1]) = n % 10
    BY Division, DigitText
  <2>3. p \in Seq(Ten)
    BY Division, DecimalType
  <2>4. n = 10 * k + (n % 10)
    BY Division
  <2>5. Adds(v, p) => v[Len(p)] = k
    BY <1>2
  <2>6. Adds(v, p \o q)
    BY <2>1
  <2> HIDE DEF p, q, k
  <2>7. /\ Adds(v, p) /\ Len(p \o q) = Len(p) + 1
        /\ v[Len(p) + 1] = 10 * v[Len(p)] + DecimalValue(q[1])
    BY <2>2, <2>3, <2>6, AddsLess
  <2> QED
    BY <2>1, <2>2, <2>4, <2>5, <2>7
<1>3. 0 \in T
  <2> HIDE DEF Good
  <2> QED
    BY <1>1
<1>4. ASSUME NEW b \in Nat, b \in T PROVE b + 1 \in T
  <2> HIDE DEF Good
  <2> SUFFICES ASSUME NEW n \in 0..(b + 1) PROVE Good(n)
    OBVIOUS
  <2>1. n \in Nat /\ n \div 10 \in Nat /\ (n >= 10 => n \div 10 < n)
    BY Division
  <2>2. CASE n < 10
    BY <1>1, <2>1, <2>2
  <2>3. CASE n >= 10
    <3>1. n \div 10 \in 0..b
      BY <2>1, <2>3
    <3>2. Good(n \div 10)
      BY <1>4, <3>1
    <3> QED
      BY <1>2, <2>1, <2>3, <3>2
  <2> QED
    BY <2>1, <2>2, <2>3
<1>5. \A b \in Nat : b \in T
  <2> HIDE DEF T
  <2> QED
    BY <1>3, <1>4, Induction
<1> QED
  BY <1>5

\* They are digits and at least one.
LEMMA DecimalLine ==
    ASSUME NEW n \in Nat
    PROVE  /\ Decimal[n] \in Seq(Ten) /\ Decimal[n] \in Line /\ Decimal[n] \in Text
           /\ Len(Decimal[n]) \in Nat /\ Len(Decimal[n]) > 0
           /\ \A i \in 1..Len(Decimal[n]) : Decimal[n][i] \in Ten
<1> DEFINE d == Decimal[n]
<1>1. d \in Seq(Ten) /\ Len(d) > 0
  BY DecimalType
<1> HIDE DEF d
<1>2. d \in Line /\ d \in Text
  BY <1>1, DigitIs, SeqMonotonic, InText DEF Line
<1> QED
  BY <1>1, <1>2 DEF d

\* A length this program has written is read as that number, also with a
\* continuation behind it (getContentLength).
LEMMA StoulIs ==
    ASSUME NEW n \in Nat, NEW fold \in Text, fold = <<>> \/ fold[1] \in White
    PROVE  Stoul(Decimal[n] \o fold) = n
<1> DEFINE d == Decimal[n]
           s == d \o fold
           m == Len(d)
           K == {k \in 0..Len(s) : \A i \in 1..k : IsDigit(s[i])}
           Def(f) == f = [k \in 0..m |-> IF k = 0 THEN 0 ELSE 10 * f[k - 1] + DecimalValue(s[k])]
<1>1. d \in Seq(Ten) /\ d \in Text /\ m \in Nat /\ m > 0 /\ \A i \in 1..m : d[i] \in Ten
  BY DecimalLine
<1>2. /\ Len(fold) \in Nat /\ s \in Text /\ Len(s) = m + Len(fold) /\ DOMAIN s = 1..Len(s)
      /\ \A i \in 1..m : s[i] = d[i]
      /\ \A i \in 1..Len(fold) : s[m + i] = fold[i]
  <2> HIDE DEF d
  <2>1. /\ Len(d) \in Nat /\ Len(fold) \in Nat
        /\ d \o fold \in Text /\ Len(d \o fold) = Len(d) + Len(fold)
        /\ DOMAIN (d \o fold) = 1..(Len(d) + Len(fold))
        /\ \A i \in 1..Len(d) : (d \o fold)[i] = d[i]
        /\ \A i \in 1..Len(fold) : (d \o fold)[Len(d) + i] = fold[i]
    BY <1>1, Both
  <2> QED
    BY <2>1
<1>3. \A v : Adds(v, d) => v[m] = n
  BY DecimalAdds
<1> HIDE DEF d, s, m
<1>4. \A i \in 1..m : s[i] \in Ten /\ s[i] \notin White /\ IsDigit(s[i])
  BY <1>1, <1>2, DigitIs
<1>5. TrimLeadingLWS(s) = s
  <2>1. 1 \in 1..m /\ 1 \in 1..Len(s)
    BY <1>1, <1>2
  <2>2. 1 \in Solid(s)
    BY <1>2, <1>4, <2>1 DEF Solid
  <2>3. Min(Solid(s)) = 1
    <3>1. Min(Solid(s)) \in 1..Len(s) /\ Min(Solid(s)) <= 1
      BY <1>2, <2>2, SolidEnds
    <3> QED
      BY <1>2, <3>1
  <2>4. TrimLeadingLWS(s) = SubSeq(s, 1, Len(s))
    BY <2>2, <2>3 DEF TrimLeadingLWS, Solid
  <2> QED
    BY <1>2, <2>4, SubSeqFull DEF Text
<1>6. m \in K
  BY <1>1, <1>2, <1>4
<1>7. \A k \in K : k \in Nat /\ k <= m
  <2> TAKE k \in K
  <2>1. k \in 0..Len(s) /\ \A i \in 1..k : IsDigit(s[i])
    OBVIOUS
  <2> SUFFICES ASSUME k > m PROVE FALSE
    BY <1>1, <1>2, <2>1
  <2>2. 1 \in 1..Len(fold) /\ m + 1 \in 1..k
    BY <1>1, <1>2, <2>1
  <2>3. fold # <<>> /\ fold[1] \in White
    BY <2>2
  <2>4. IsDigit(fold[1])
    BY <1>2, <2>1, <2>2
  <2> QED
    BY <2>3, <2>4, DigitIs DEF IsDigit, Ten
<1>8. Max(K) = m
  <2> HIDE DEF K
  <2>1. K \in SUBSET Nat /\ K # {}
    BY <1>6, <1>7
  <2>2. Max(K) \in K /\ m <= Max(K)
    BY <1>1, <1>6, <1>7, <2>1, Largest
  <2> QED
    BY <1>1, <1>7, <2>2
<1>9. Stoul(s) = (CHOOSE f : Def(f))[m]
  <2> DEFINE Over(t, b) ==
               LET value[k \in 0..b] ==
                       IF k = 0 THEN 0 ELSE 10 * value[k - 1] + DecimalValue(t[k])
               IN  IF b = 0 THEN -1 ELSE value[b]
             Run(t) == Max({k \in 0..Len(t) : \A i \in 1..k : IsDigit(t[i])})
  <2>1. Stoul(s) = Over(TrimLeadingLWS(s), Run(TrimLeadingLWS(s)))
    BY DEF Stoul
  <2>2. Run(s) = m
    BY <1>8
  <2>3. Over(s, m) = IF m = 0 THEN -1 ELSE (CHOOSE f : Def(f))[m]
    OBVIOUS
  <2> HIDE DEF Over, Run, Def
  <2> QED
    BY <1>1, <1>5, <2>1, <2>2, <2>3
<1>10. \E f : Def(f)
  <2> DEFINE g == [k \in 1..m |-> [x \in Nat |-> 10 * x + DecimalValue(s[k])]]
  <2>1. \A k \in 1..m : DecimalValue(s[k]) \in Nat
    <3> TAKE k \in 1..m
    <3>1. PICK i \in 1..10 : s[k] = Digits10[i]
      <4>1. s[k] \in Ten /\ DOMAIN Digits10 = 1..10
        BY <1>4 DEF Digits10
      <4> QED
        BY <4>1 DEF Ten, Range
    <3> QED
      BY <3>1, DigitIs
  <2>2. g \in [1..m -> [Nat -> Nat]]
    BY <2>1
  <2>3. PICK f \in [0..m -> Nat] : Follows(f, m, 0, g)
    <3> HIDE DEF g
    <3> QED
      BY <1>1, <2>2, Recursion
  <2>4. ASSUME NEW k \in 0..m
        PROVE  f[k] = IF k = 0 THEN 0 ELSE 10 * f[k - 1] + DecimalValue(s[k])
    <3>1. f[k] = IF k = 0 THEN 0 ELSE g[k][f[k - 1]]
      <4> HIDE DEF g
      <4> QED
        BY <2>3 DEF Follows
    <3>2. k # 0 => k \in 1..m /\ k - 1 \in 0..m /\ f[k - 1] \in Nat
      <4>1. k # 0 => k \in 1..m /\ k - 1 \in 0..m
        BY <1>1
      <4> HIDE DEF g
      <4> QED
        BY <2>3, <4>1
    <3>3. k # 0 => g[k][f[k - 1]] = 10 * f[k - 1] + DecimalValue(s[k])
      BY <3>2
    <3> HIDE DEF g
    <3> QED
      BY <3>1, <3>3
  <2>5. f = [k \in 0..m |-> f[k]]
    BY <2>3
  <2>6. Def(f)
    BY <2>4, <2>5
  <2> QED
    BY <2>6
<1>11. PICK f : Def(f) /\ Stoul(s) = f[m]
  <2> HIDE DEF Def
  <2> QED
    BY <1>9, <1>10
<1>12. Adds(f, d)
  <2>1. 0 \in 0..m /\ \A k \in 1..m : k \in 0..m /\ k # 0
    BY <1>1
  <2>2. f[0] = 0 /\ \A k \in 1..m : f[k] = 10 * f[k - 1] + DecimalValue(s[k])
    BY <1>11, <2>1
  <2> QED
    BY <1>2, <2>2 DEF Adds, m
<1> QED
  BY <1>3, <1>11, <1>12 DEF s, d

-----------------------------------------------------------------------------
\* First lines.

\* A set with two elements in it.
LEMMA TwoAtLeast ==
    ASSUME NEW n \in Nat, NEW S \in SUBSET (1..n), NEW i \in S, NEW j \in S, i # j
    PROVE  ~(Cardinality(S) < 2)
<1>1. IsFiniteSet(1..n)
  BY FS_Interval
<1>2. IsFiniteSet(S)
  BY <1>1, FS_Subset
<1>3. IsFiniteSet({}) /\ Cardinality({}) = 0
  BY FS_EmptySet
<1>4. IsFiniteSet({i}) /\ Cardinality({i}) = 1
  BY FS_Singleton
<1>5. IsFiniteSet({i} \cup {j}) /\ Cardinality({i} \cup {j}) = 2
  BY <1>4, FS_AddElement
<1>6. Cardinality({i} \cup {j}) <= Cardinality(S)
  <2>1. {i} \cup {j} \in SUBSET S
    OBVIOUS
  <2> QED
    BY <1>2, <2>1, FS_Subset
<1>7. Cardinality(S) \in Nat
  BY <1>2, FS_CardinalityType
<1> QED
  BY <1>5, <1>6, <1>7

\* The least element is Min.
LEMMA MinIs ==
    ASSUME NEW S \in SUBSET Nat, NEW a \in S, \A x \in S : a <= x
    PROVE  Min(S) = a
<1>1. Min(S) \in S /\ Min(S) <= a
  BY Smallest
<1>2. Min(S) \in Nat /\ a \in Nat /\ a <= Min(S)
  BY <1>1
<1> QED
  BY <1>1, <1>2, Squeezed

\* Two spaces, and no more.
LEMMA TwoSpaces ==
    ASSUME NEW s \in Text, NEW a \in 1..Len(s), NEW b \in 1..Len(s), a < b, Spaces(s) = {a, b}
    PROVE  /\ ~(Cardinality(Spaces(s)) < 2) /\ Min(Spaces(s)) = a
           /\ Min(Spaces(s) \ {Min(Spaces(s))}) = b
<1>1. Len(s) \in Nat /\ a \in Nat /\ b \in Nat /\ a # b
  BY DEF Text
<1>2. ~(Cardinality({a, b}) < 2)
  <2> DEFINE S == {a, b}
             n == Len(s)
  <2>1. S \in SUBSET (1..n) /\ a \in S /\ b \in S /\ n \in Nat
    BY <1>1
  <2> HIDE DEF S, n
  <2>2. ~(Cardinality(S) < 2)
    BY <1>1, <2>1, TwoAtLeast
  <2> QED
    BY <2>2 DEF S
<1>3. Min({a, b}) = a
  <2> DEFINE S == {a, b}
  <2>1. S \in SUBSET Nat /\ a \in S /\ \A x \in S : a <= x
    BY <1>1
  <2> HIDE DEF S
  <2>2. Min(S) = a
    BY <2>1, MinIs
  <2> QED
    BY <2>2 DEF S
<1>4. {a, b} \ {a} = {b}
  BY <1>1
<1>5. Min({b}) = b
  <2> DEFINE S == {b}
  <2>1. S \in SUBSET Nat /\ b \in S /\ \A x \in S : b <= x
    BY <1>1
  <2> HIDE DEF S
  <2>2. Min(S) = b
    BY <2>1, MinIs
  <2> QED
    BY <2>2 DEF S
<1> QED
  BY <1>2, <1>3, <1>4, <1>5

\* When a text is one text behind another.
LEMMA JoinIs ==
    ASSUME NEW s \in Text, NEW t \in Text, NEW w \in Text, Len(w) = Len(s) + Len(t),
           \A i \in 1..Len(s) : w[i] = s[i],
           \A i \in 1..Len(t) : w[Len(s) + i] = t[i]
    PROVE  s \o t = w
<1> DEFINE j == s \o t
<1>1. /\ Len(s) \in Nat /\ Len(t) \in Nat
      /\ s \o t \in Text /\ Len(s \o t) = Len(s) + Len(t)
      /\ \A i \in 1..Len(s) : (s \o t)[i] = s[i]
      /\ \A i \in 1..Len(t) : (s \o t)[Len(s) + i] = t[i]
  BY Both
<1>2. /\ j \in Text /\ Len(j) = Len(s) + Len(t)
      /\ \A i \in 1..Len(s) : j[i] = s[i]
      /\ \A i \in 1..Len(t) : j[Len(s) + i] = t[i]
  BY <1>1
<1> HIDE DEF j
<1>3. ASSUME NEW i \in 1..Len(j) PROVE j[i] = w[i]
  <2>1. CASE i \in 1..Len(s)
    BY <1>2, <2>1
  <2>2. CASE i \notin 1..Len(s)
    <3> DEFINE k == i - Len(s)
    <3>1. k \in 1..Len(t) /\ Len(s) + k = i
      BY <1>1, <1>2, <2>2
    <3> HIDE DEF k
    <3>2. j[Len(s) + k] = t[k] /\ w[Len(s) + k] = t[k]
      BY <1>2, <3>1
    <3> QED
      BY <3>1, <3>2
  <2> QED
    BY <2>1, <2>2
<1>4. j = w
  BY <1>1, <1>2, <1>3, SeqEqual DEF Text
<1> QED
  BY <1>4 DEF j

\* When a text is a part of another.
LEMMA PartIs ==
    ASSUME NEW s \in Text, NEW w \in Text, NEW a \in Nat \ {0}, NEW b \in Nat, b <= Len(s),
           Len(w) = (b + 1) - a, \A i \in 1..Len(w) : w[i] = s[(a + i) - 1]
    PROVE  SubSeq(s, a, b) = w
<1> DEFINE u == SubSeq(s, a, b)
<1>1. Len(w) \in Nat
  BY DEF Text
<1>2. /\ u \in Text /\ Len(u) = IF a <= b THEN (b - a) + 1 ELSE 0
      /\ \A i \in 1..Len(u) : u[i] = s[(a + i) - 1]
  BY PartOf
<1> HIDE DEF u
<1>3. Len(u) = Len(w)
  BY <1>1, <1>2
<1>4. u = w
  BY <1>2, <1>3, SeqEqual DEF Text
<1> QED
  BY <1>4 DEF u

\* The three digits of a status code.
LEMMA ThreeDigits ==
    ASSUME NEW code \in 100..999
    PROVE  \E a, b, c \in 0..9 :
              /\ code = a * 100 + b * 10 + c
              /\ Decimal[code] = <<Digits10[a + 1], Digits10[b + 1], Digits10[c + 1]>>
<1> DEFINE n == code \div 10
           a == n \div 10
           b == n % 10
           c == code % 10
<1>1. /\ code \in Nat /\ code >= 10 /\ n \in Nat /\ c \in 0..9 /\ code = 10 * n + c
  BY Division
<1>2. n >= 10 /\ n <= 99
  BY <1>1
<1>3. a \in Nat /\ b \in 0..9 /\ n = 10 * a + b
  BY <1>1, Division
<1>4. a \in 0..9
  BY <1>2, <1>3
<1>5. code = a * 100 + b * 10 + c
  BY <1>1, <1>3
<1>6. Decimal[code] = Decimal[n] \o Digit(c)
  BY <1>1, DecimalMore
<1>7. Decimal[n] = Decimal[a] \o Digit(b)
  BY <1>1, <1>2, DecimalMore
<1>8. Decimal[a] = Digit(a)
  BY <1>4, DecimalIs
<1> HIDE DEF n, a, b, c
<1>9. Decimal[code] = <<Digits10[a + 1], Digits10[b + 1], Digits10[c + 1]>>
  <2> DEFINE x == Digits10[a + 1]
             y == Digits10[b + 1]
             z == Digits10[c + 1]
  <2>1. x \in Char /\ y \in Char /\ z \in Char
    <3>1. \A i \in 0..9 : i + 1 \in 1..10
      OBVIOUS
    <3> QED
      BY <1>1, <1>3, <1>4, <3>1, DigitIs
  <2> HIDE DEF x, y, z
  <2> DEFINE xy == <<x, y>>
             xyz == <<x, y, z>>
  <2>2. xy \in Text /\ xyz \in Text /\ Len(xy) = 2 /\ Len(xyz) = 3 /\ xy[1] = x /\ xy[2] = y
        /\ xyz[1] = x /\ xyz[2] = y /\ xyz[3] = z
    BY <2>1 DEF Text
  <2>3. <<x>> \in Text /\ <<y>> \in Text /\ <<z>> \in Text
        /\ Len(<<x>>) = 1 /\ Len(<<y>>) = 1 /\ Len(<<z>>) = 1
        /\ <<x>>[1] = x /\ <<y>>[1] = y /\ <<z>>[1] = z
    BY <2>1, OneChar
  <2> DEFINE ox == <<x>>
             oy == <<y>>
             oz == <<z>>
  <2>4. /\ ox \in Text /\ oy \in Text /\ oz \in Text /\ Len(ox) = 1 /\ Len(oy) = 1 /\ Len(oz) = 1
        /\ ox[1] = x /\ oy[1] = y /\ oz[1] = z
    BY <2>3
  <2>5. Decimal[code] = (ox \o oy) \o oz
    BY <1>6, <1>7, <1>8 DEF Digit, x, y, z
  <2> HIDE DEF xy, xyz, ox, oy, oz
  <2>6. ox \o oy = xy
    <3>1. /\ Len(xy) = Len(ox) + Len(oy) /\ \A i \in 1..Len(ox) : xy[i] = ox[i]
          /\ \A i \in 1..Len(oy) : xy[Len(ox) + i] = oy[i]
      BY <2>2, <2>4
    <3> QED
      BY <2>2, <2>4, <3>1, JoinIs
  <2>7. xy \o oz = xyz
    <3>1. /\ Len(xyz) = Len(xy) + Len(oz) /\ \A i \in 1..Len(xy) : xyz[i] = xy[i]
          /\ \A i \in 1..Len(oz) : xyz[Len(xy) + i] = oz[i]
      BY <2>2, <2>4
    <3> QED
      BY <2>2, <2>4, <3>1, JoinIs
  <2> QED
    BY <2>5, <2>6, <2>7 DEF xyz, x, y, z
<1> QED
  BY <1>1, <1>3, <1>4, <1>5, <1>9

\* A status line is read as the code it was written for (statusLine,
\* parseStatusLine).
LEMMA StatusRead ==
    ASSUME NEW code \in 100..999
    PROVE  /\ StatusLine(code) \in Line
           /\ ParseStatusLine(StatusLine(code)) = [kind |-> "response", code |-> code]
<1>1. PICK a, b, c \in 0..9 :
              /\ code = a * 100 + b * 10 + c
              /\ Decimal[code] = <<Digits10[a + 1], Digits10[b + 1], Digits10[c + 1]>>
  BY ThreeDigits
<1> DEFINE x == Digits10[a + 1]
           y == Digits10[b + 1]
           z == Digits10[c + 1]
           s == <<"HTTP/1.1", "SP", x, y, z, "SP", "reason">>
<1>2. /\ x \in Ten /\ y \in Ten /\ z \in Ten
      /\ DecimalValue(x) = a /\ DecimalValue(y) = b /\ DecimalValue(z) = c
  <2>1. \A i \in 0..9 : i + 1 \in 1..10 /\ (i + 1) - 1 = i
    OBVIOUS
  <2> QED
    BY <2>1, DigitIs
<1>3. /\ x \in NoLF /\ y \in NoLF /\ z \in NoLF
      /\ x # "SP" /\ y # "SP" /\ z # "SP"
      /\ IsDigit(x) /\ IsDigit(y) /\ IsDigit(z)
  BY <1>2, DigitIs DEF White
<1>4. {"HTTP/1.1", "SP", "reason"} \subseteq NoLF
  BY SomeChars DEF NoLF
<1> HIDE DEF x, y, z
<1>5. s \in Line
  BY <1>3, <1>4 DEF Line
<1>6. s \in Text
  BY <1>5, LineText
<1> DEFINE h == <<"HTTP/1.1", "SP">>
           d == <<x, y, z>>
           e == <<"SP", "reason">>
           m == <<"HTTP/1.1", "SP", x, y, z>>
<1>7. /\ Len(s) = 7 /\ s[1] = "HTTP/1.1" /\ s[2] = "SP" /\ s[3] = x /\ s[4] = y /\ s[5] = z
      /\ s[6] = "SP" /\ s[7] = "reason"
  OBVIOUS
<1>8. /\ h \in Text /\ d \in Text /\ e \in Text /\ m \in Text
      /\ Len(h) = 2 /\ Len(d) = 3 /\ Len(e) = 2 /\ Len(m) = 5
      /\ h[1] = "HTTP/1.1" /\ h[2] = "SP" /\ d[1] = x /\ d[2] = y /\ d[3] = z
      /\ e[1] = "SP" /\ e[2] = "reason"
      /\ m[1] = "HTTP/1.1" /\ m[2] = "SP" /\ m[3] = x /\ m[4] = y /\ m[5] = z
  BY <1>3, <1>4 DEF Text, NoLF
<1>9. StatusLine(code) = (h \o d) \o e
  BY <1>1 DEF StatusLine, x, y, z
<1>10. Spaces(s) = {2, 6}
  BY <1>3 DEF Spaces
<1> HIDE DEF s, h, d, e, m
<1>11. StatusLine(code) = s
  <2>1. h \o d = m
    <3>1. /\ Len(m) = Len(h) + Len(d) /\ \A i \in 1..Len(h) : m[i] = h[i]
          /\ \A i \in 1..Len(d) : m[Len(h) + i] = d[i]
      BY <1>8
    <3> QED
      BY <1>8, <3>1, JoinIs
  <2>2. m \o e = s
    <3>1. /\ Len(s) = Len(m) + Len(e) /\ \A i \in 1..Len(m) : s[i] = m[i]
          /\ \A i \in 1..Len(e) : s[Len(m) + i] = e[i]
      BY <1>7, <1>8
    <3> QED
      BY <1>6, <1>8, <3>1, JoinIs
  <2> QED
    BY <1>9, <2>1, <2>2
<1>12. ~(Cardinality(Spaces(s)) < 2) /\ Min(Spaces(s)) = 2 /\ Min(Spaces(s) \ {Min(Spaces(s))}) = 6
  <2> DEFINE p == 2
             q == 6
  <2>1. p \in 1..Len(s) /\ q \in 1..Len(s) /\ p < q /\ Spaces(s) = {p, q}
    BY <1>7, <1>10
  <2> HIDE DEF p, q
  <2>2. ~(Cardinality(Spaces(s)) < 2) /\ Min(Spaces(s)) = p /\ Min(Spaces(s) \ {Min(Spaces(s))}) = q
    BY <1>6, <2>1, TwoSpaces
  <2> QED
    BY <2>2 DEF p, q
<1>13. SubSeq(s, 2 + 1, 6 - 1) = d
  <2> DEFINE p == 3
             q == 5
  <2>1. /\ p \in Nat \ {0} /\ q \in Nat /\ q <= Len(s) /\ Len(d) = (q + 1) - p
        /\ \A i \in 1..Len(d) : d[i] = s[(p + i) - 1]
    BY <1>7, <1>8
  <2>2. s \in Text /\ d \in Text
    BY <1>6, <1>8
  <2> HIDE DEF p, q
  <2>3. SubSeq(s, p, q) = d
    BY <2>1, <2>2, PartIs
  <2>4. p = 2 + 1 /\ q = 6 - 1
    BY DEF p, q
  <2> QED
    BY <2>3, <2>4
<1>14. ParseStatusLine(s) = [kind |-> "response", code |-> a * 100 + b * 10 + c]
  <2>1. \A i \in DOMAIN d : IsDigit(d[i])
    <3>1. DOMAIN d = 1..3
      BY <1>8 DEF Text
    <3> QED
      BY <1>3, <1>8, <3>1
  <2> QED
    BY <1>2, <1>8, <1>12, <1>13, <2>1 DEF ParseStatusLine
<1> QED
  BY <1>1, <1>5, <1>11, <1>14

\* A request line is read as the request it was written for (parseRequestLine).
LEMMA RequestRead ==
    ASSUME NEW r, NEW word, word = Seq(Char \ {"SP", "LF"}), r.method \in word, r.path \in word
    PROVE  /\ RequestLine(r) \in Line
           /\ ParseRequestLine(RequestLine(r))
                = [kind |-> "request", method |-> r.method, path |-> r.path]
<1> DEFINE u == r.method
           v == r.path
           a == Len(u)
           b == Len(v)
           one == <<"SP">>
           e == <<"SP", "HTTP/1.1">>
           us == u \o one
           usv == us \o v
           s == usv \o e
<1>1. /\ u \in Line /\ v \in Line
      /\ \A i \in 1..a : u[i] # "SP"
      /\ \A i \in 1..b : v[i] # "SP"
  <2>1. Char \ {"SP", "LF"} \subseteq NoLF
    BY DEF NoLF
  <2>2. u \in Line /\ v \in Line
    BY <2>1, SeqMonotonic DEF Line
  <2> QED
    BY <2>2
<1>2. one \in Line /\ e \in Line /\ Len(one) = 1 /\ one[1] = "SP"
      /\ Len(e) = 2 /\ e[1] = "SP" /\ e[2] = "HTTP/1.1"
  BY SomeChars DEF Line, NoLF
<1>3. s = RequestLine(r)
  BY DEF RequestLine
<1> HIDE DEF u, v, one, e
<1>4. us \in Line /\ usv \in Line /\ s \in Line
  BY <1>1, <1>2, ConcatProperties DEF Line
<1>5. u \in Text /\ v \in Text /\ one \in Text /\ e \in Text /\ us \in Text /\ usv \in Text /\ s \in Text
  BY <1>1, <1>2, <1>4, LineText
<1>6. /\ a \in Nat /\ b \in Nat /\ Len(us) = a + 1
      /\ \A i \in 1..a : us[i] = u[i]
      /\ us[a + 1] = "SP"
  <2>1. /\ Len(u) \in Nat /\ Len(one) \in Nat
        /\ u \o one \in Text /\ Len(u \o one) = Len(u) + Len(one)
        /\ \A i \in 1..Len(u) : (u \o one)[i] = u[i]
        /\ \A i \in 1..Len(one) : (u \o one)[Len(u) + i] = one[i]
    BY <1>5, Both
  <2>2. b \in Nat /\ 1 \in 1..Len(one)
    BY <1>2, <1>5 DEF Text
  <2> QED
    BY <1>2, <2>1, <2>2
<1> HIDE DEF us
<1>7. /\ Len(usv) = a + 1 + b
      /\ \A i \in 1..a : usv[i] = u[i]
      /\ usv[a + 1] = "SP"
      /\ \A i \in 1..b : usv[a + 1 + i] = v[i]
  <2>1. /\ us \o v \in Text /\ Len(us \o v) = Len(us) + Len(v)
        /\ \A i \in 1..Len(us) : (us \o v)[i] = us[i]
        /\ \A i \in 1..Len(v) : (us \o v)[Len(us) + i] = v[i]
    BY <1>5, Both
  <2>2. a + 1 \in 1..Len(us) /\ \A i \in 1..a : i \in 1..Len(us)
    BY <1>6
  <2> QED
    BY <1>6, <2>1, <2>2
<1> HIDE DEF usv
<1>8. /\ Len(s) = a + b + 3
      /\ \A i \in 1..a : s[i] = u[i]
      /\ s[a + 1] = "SP"
      /\ \A i \in 1..b : s[a + 1 + i] = v[i]
      /\ s[a + b + 2] = "SP" /\ s[a + b + 3] = "HTTP/1.1"
  <2>1. /\ usv \o e \in Text /\ Len(usv \o e) = Len(usv) + Len(e)
        /\ \A i \in 1..Len(usv) : (usv \o e)[i] = usv[i]
        /\ \A i \in 1..Len(e) : (usv \o e)[Len(usv) + i] = e[i]
    BY <1>5, Both
  <2>2. /\ a + 1 \in 1..Len(usv) /\ \A i \in 1..a : i \in 1..Len(usv)
        /\ \A i \in 1..b : a + 1 + i \in 1..Len(usv)
        /\ 1 \in 1..Len(e) /\ 2 \in 1..Len(e)
        /\ Len(usv) + 1 = a + b + 2 /\ Len(usv) + 2 = a + b + 3
    BY <1>2, <1>6, <1>7
  <2>3. s[Len(usv) + 1] = e[1] /\ s[Len(usv) + 2] = e[2]
    BY <2>1, <2>2
  <2>4. Len(s) = a + b + 3
    BY <1>2, <1>6, <1>7, <2>1
  <2>5. /\ \A i \in 1..a : s[i] = u[i]
        /\ s[a + 1] = "SP"
        /\ \A i \in 1..b : s[a + 1 + i] = v[i]
    BY <1>7, <2>1, <2>2
  <2> QED
    BY <1>2, <2>2, <2>3, <2>4, <2>5
<1> HIDE DEF s, a, b
<1> DEFINE p == a + 1
           q == a + b + 2
<1>9. DOMAIN s = 1..(a + b + 3)
  BY <1>5, <1>8 DEF Text
<1>10. Spaces(s) = {p, q}
  <2>1. p \in Spaces(s) /\ q \in Spaces(s)
    BY <1>6, <1>8, <1>9 DEF Spaces
  <2>2. ASSUME NEW i \in Spaces(s) PROVE i = p \/ i = q
    <3>1. i \in 1..(a + b + 3) /\ s[i] = "SP"
      BY <1>9 DEF Spaces
    <3>2. CASE i \in 1..a
      BY <1>1, <1>8, <3>1, <3>2 DEF a
    <3>3. CASE i > a + 1 /\ i < a + b + 2
      <4> DEFINE k == i - (a + 1)
      <4>1. k \in 1..b /\ a + 1 + k = i
        BY <1>6, <3>1, <3>3
      <4> HIDE DEF k
      <4>2. s[a + 1 + k] = v[k] /\ v[k] # "SP"
        BY <1>1, <1>8, <4>1 DEF b
      <4> QED
        BY <3>1, <4>1, <4>2
    <3>4. CASE i = a + b + 3
      BY <1>8, <3>1, <3>4
    <3> QED
      BY <1>6, <3>1, <3>2, <3>3, <3>4
  <2> QED
    BY <2>1, <2>2
<1>11. p \in 1..Len(s) /\ q \in 1..Len(s) /\ p < q
  BY <1>6, <1>8
<1>12. SubSeq(s, 1, p - 1) = u
  <2>1. /\ 1 \in Nat \ {0} /\ p - 1 \in Nat /\ p - 1 <= Len(s) /\ Len(u) = ((p - 1) + 1) - 1
        /\ \A i \in 1..Len(u) : u[i] = s[(1 + i) - 1]
    BY <1>6, <1>8 DEF a
  <2> HIDE DEF p
  <2> QED
    BY <1>5, <2>1, PartIs
<1>13. SubSeq(s, p + 1, q - 1) = v
  <2>1. p + 1 \in Nat \ {0} /\ q - 1 \in Nat /\ q - 1 <= Len(s) /\ Len(v) = ((q - 1) + 1) - (p + 1)
    BY <1>6, <1>8 DEF b
  <2>2. \A i \in 1..Len(v) : v[i] = s[((p + 1) + i) - 1]
    <3> TAKE i \in 1..Len(v)
    <3>1. i \in 1..b /\ ((p + 1) + i) - 1 = a + 1 + i
      BY <1>6 DEF b
    <3> QED
      BY <1>8, <3>1
  <2> HIDE DEF p, q
  <2> QED
    BY <1>5, <2>1, <2>2, PartIs
<1>14. ~(Cardinality(Spaces(s)) < 2) /\ Min(Spaces(s)) = p /\ Min(Spaces(s) \ {Min(Spaces(s))}) = q
  <2> HIDE DEF p, q
  <2> QED
    BY <1>5, <1>10, <1>11, TwoSpaces
<1>15. ParseRequestLine(s) = [kind |-> "request", method |-> u, path |-> v]
  <2> HIDE DEF p, q
  <2> QED
    BY <1>12, <1>13, <1>14 DEF ParseRequestLine
<1> QED
  BY <1>3, <1>4, <1>15 DEF u, v

-----------------------------------------------------------------------------
\* The fields this program adds.

\* The names this program writes are in lower case.
LEMMA OwnName ==
    ASSUME NEW c \in OwnNames
    PROVE  <<c>> \in Name /\ AsciiLower(<<c>>) = <<c>>
<1>1. c \in Char /\ c \notin DOMAIN Lower
  BY TextAssumption
<1>2. c \in NameChar
  BY <1>1 DEF OwnNames, NameChar, White
<1>3. <<c>> \in Name
  BY <1>2 DEF Name
<1>4. DOMAIN <<c>> = 1..1 /\ <<c>>[1] = c
  OBVIOUS
<1>5. AsciiLower(<<c>>) = [i \in 1..1 |-> c]
  BY <1>1, <1>4 DEF AsciiLower
<1>6. <<c>> = [i \in 1..1 |-> c]
  OBVIOUS
<1> QED
  BY <1>3, <1>5, <1>6

\* No field of q has this name.
Absent(q, name) == \A i \in DOMAIN q : AsciiLower(q[i].name) # name

\* Two sequences one behind the other.
LEMMA JoinedFields ==
    ASSUME NEW D, NEW u \in Seq(D), NEW v \in Seq(D)
    PROVE  /\ Len(u) \in Nat /\ Len(v) \in Nat
           /\ u \o v \in Seq(D) /\ Len(u \o v) = Len(u) + Len(v)
           /\ DOMAIN (u \o v) = 1..(Len(u) + Len(v))
           /\ \A i \in 1..Len(u) : (u \o v)[i] = u[i]
           /\ \A i \in 1..Len(v) : (u \o v)[Len(u) + i] = v[i]
<1>1. Len(u) \in Nat /\ Len(v) \in Nat
  OBVIOUS
<1>2. /\ u \o v \in Seq(D) /\ Len(u \o v) = Len(u) + Len(v)
      /\ \A i \in 1..(Len(u) + Len(v)) :
            (u \o v)[i] = IF i <= Len(u) THEN u[i] ELSE v[i - Len(u)]
  BY ConcatProperties
<1>3. DOMAIN (u \o v) = 1..(Len(u) + Len(v))
  BY <1>2
<1>4. ASSUME NEW i \in 1..Len(u) PROVE (u \o v)[i] = u[i]
  BY <1>1, <1>2
<1>5. ASSUME NEW i \in 1..Len(v) PROVE (u \o v)[Len(u) + i] = v[i]
  <2>1. /\ Len(u) + i \in 1..(Len(u) + Len(v)) /\ ~(Len(u) + i <= Len(u))
        /\ (Len(u) + i) - Len(u) = i
    BY <1>1
  <2> QED
    BY <1>2, <2>1
<1> QED
  BY <1>1, <1>2, <1>3, <1>4, <1>5

\* A name neither of them has.
LEMMA AbsentJoined ==
    ASSUME NEW u \in Seq(Fields), NEW v \in Seq(Fields), NEW name
    PROVE  Absent(u \o v, name) <=> Absent(u, name) /\ Absent(v, name)
<1> DEFINE w == u \o v
<1>1. /\ Len(u) \in Nat /\ Len(v) \in Nat
      /\ DOMAIN w = 1..(Len(u) + Len(v)) /\ DOMAIN u = 1..Len(u) /\ DOMAIN v = 1..Len(v)
      /\ \A i \in 1..Len(u) : w[i] = u[i]
      /\ \A i \in 1..Len(v) : w[Len(u) + i] = v[i]
  BY JoinedFields
<1> HIDE DEF w
<1>2. ASSUME Absent(w, name) PROVE Absent(u, name) /\ Absent(v, name)
  <2>1. /\ \A i \in 1..Len(u) : i \in 1..(Len(u) + Len(v))
        /\ \A i \in 1..Len(v) : Len(u) + i \in 1..(Len(u) + Len(v))
    BY <1>1
  <2> QED
    BY <1>1, <1>2, <2>1 DEF Absent
<1>3. ASSUME Absent(u, name), Absent(v, name) PROVE Absent(w, name)
  <2> SUFFICES ASSUME NEW i \in 1..(Len(u) + Len(v)) PROVE AsciiLower(w[i].name) # name
    BY <1>1 DEF Absent
  <2>1. CASE i \in 1..Len(u)
    BY <1>1, <1>3, <2>1 DEF Absent
  <2>2. CASE i \notin 1..Len(u)
    <3> DEFINE k == i - Len(u)
    <3>1. k \in 1..Len(v) /\ Len(u) + k = i
      BY <1>1, <2>2
    <3> HIDE DEF k
    <3>2. w[Len(u) + k] = v[k]
      BY <1>1, <3>1
    <3> QED
      BY <1>1, <1>3, <3>1, <3>2 DEF Absent
  <2> QED
    BY <2>1, <2>2
<1> QED
  BY <1>2, <1>3 DEF w

\* setDateHeader and its like, behind what was added before (Stream.cpp).
LEMMA AddStep ==
    ASSUME NEW kv \in Seq(Fields), NEW t \in Seq(Fields), NEW c \in OwnNames, NEW value \in Line,
           Absent(t, <<c>>)
    PROVE  /\ Field(<<c>>, value) \in Fields
           /\ SetIfAbsent(kv \o t, <<c>>, value)
                = kv \o (IF Absent(kv, <<c>>) THEN Append(t, Field(<<c>>, value)) ELSE t)
<1> DEFINE f == Field(<<c>>, value)
           all == kv \o t
<1>1. f \in Fields
  BY OwnName DEF Fields, Field
<1>2. all \in Seq(Fields)
  BY JoinedFields
<1>3. Find(all, <<c>>) = {} <=> Absent(all, <<c>>)
  BY OwnName DEF Find, SameName, Absent
<1>4. Absent(all, <<c>>) <=> Absent(kv, <<c>>)
  BY AbsentJoined
<1>5. Append(all, f) = kv \o Append(t, f)
  <2> HIDE DEF f, all
  <2>1. Append(all, f) = all \o <<f>>
    BY <1>1, <1>2, AppendIsConcat
  <2>2. Append(t, f) = t \o <<f>>
    BY <1>1, AppendIsConcat
  <2>3. <<f>> \in Seq(Fields)
    BY <1>1
  <2>4. (kv \o t) \o <<f>> = kv \o (t \o <<f>>)
    BY <2>3, ConcatAssociative
  <2> QED
    BY <2>1, <2>2, <2>4 DEF all
<1>6. SetIfAbsent(all, <<c>>, value) = IF Find(all, <<c>>) = {} THEN Append(all, f) ELSE all
  BY DEF SetIfAbsent, HeadersAdd
<1> HIDE DEF f, all
<1>7. SetIfAbsent(all, <<c>>, value) = IF Absent(kv, <<c>>) THEN kv \o Append(t, f) ELSE all
  BY <1>3, <1>4, <1>5, <1>6
<1> QED
  BY <1>1, <1>7 DEF f, all

\* What is added to the fields kv is what Added names (setGeneralServerHeaders,
\* setContentLength).
LEMMA OwnAdded ==
    ASSUME NEW kv \in Seq(Fields), NEW k, DOMAIN k = DOMAIN kv,
           \A i \in DOMAIN kv : k[i].name = kv[i].name, NEW body \in Text
    PROVE  /\ Added(k, <<>>) \in Seq(Fields) /\ Added(k, OwnLength(body)) \in Seq(Fields)
           /\ SetGeneralServerHeaders(kv) = kv \o Added(k, <<>>)
           /\ SetIfAbsent(SetGeneralServerHeaders(kv), <<"content-length">>, Decimal[Len(body)])
                = kv \o Added(k, OwnLength(body))
<1> DEFINE a == Field(<<"date">>, <<"now">>)
           b == Field(<<"server">>, <<"Shitty">>)
           c == Field(<<"content-length">>, Decimal[Len(body)])
           two == <<a, b>> \o <<>>
           three == <<a, b>> \o <<c>>
           keep(own) == {j \in DOMAIN own : \A i \in DOMAIN k : AsciiLower(k[i].name) # own[j].name}
<1>1. \A name : Absent(k, name) <=> Absent(kv, name)
  BY DEF Absent
<1>2. /\ "date" \in OwnNames /\ "server" \in OwnNames /\ "content-length" \in OwnNames
      /\ <<"now">> \in Line /\ <<"Shitty">> \in Line /\ Decimal[Len(body)] \in Line
  <2>1. Len(body) \in Nat
    BY DEF Text
  <2>2. {"now", "Shitty"} \subseteq NoLF
    BY TextAssumption DEF Words, NoLF
  <2> QED
    BY <2>1, <2>2, DecimalLine DEF OwnNames, Line
<1>3. a \in Fields /\ b \in Fields /\ c \in Fields
  BY <1>2, OwnName DEF Fields, Field
<1>4. a.name = <<"date">> /\ b.name = <<"server">> /\ c.name = <<"content-length">>
  BY DEF Field
<1>5. /\ AsciiLower(<<"date">>) = <<"date">> /\ AsciiLower(<<"server">>) = <<"server">>
      /\ <<"date">> # <<"server">> /\ <<"date">> # <<"content-length">>
      /\ <<"server">> # <<"content-length">>
  <2>1. /\ <<"date">>[1] = "date" /\ <<"server">>[1] = "server"
        /\ <<"content-length">>[1] = "content-length"
    OBVIOUS
  <2> QED
    BY <1>2, <2>1, OwnName
<1>6. Added(k, <<>>) = Selected(two, keep(two)) /\ Added(k, OwnLength(body)) = Selected(three, keep(three))
  BY DEF Added, OwnLength
<1>7. \A own : \A j \in DOMAIN own : j \in keep(own) <=> Absent(k, own[j].name)
  BY DEF Absent
<1> HIDE DEF keep
<1> DEFINE ab == <<a, b>>
           one == <<c>>
<1>8. /\ two \in Seq(Fields) /\ Len(two) = 2 /\ two[1] = a /\ two[2] = b /\ DOMAIN two = 1..2
      /\ three \in Seq(Fields) /\ Len(three) = 3 /\ three[1] = a /\ three[2] = b /\ three[3] = c
      /\ DOMAIN three = 1..3
  <2> HIDE DEF a, b, c
  <2>1. /\ ab \in Seq(Fields) /\ Len(ab) = 2 /\ ab[1] = a /\ ab[2] = b
        /\ one \in Seq(Fields) /\ Len(one) = 1 /\ one[1] = c
    BY <1>3
  <2>2. two = ab \o <<>> /\ three = ab \o one
    OBVIOUS
  <2> HIDE DEF ab, one, two, three
  <2>3. two = ab
    BY <2>1, <2>2, ConcatEmptySeq
  <2>4. /\ ab \o one \in Seq(Fields) /\ Len(ab \o one) = Len(ab) + Len(one)
        /\ DOMAIN (ab \o one) = 1..(Len(ab) + Len(one))
        /\ \A i \in 1..Len(ab) : (ab \o one)[i] = ab[i]
        /\ \A i \in 1..Len(one) : (ab \o one)[Len(ab) + i] = one[i]
    <3>1. ab \in Seq(Fields) /\ one \in Seq(Fields)
      BY <2>1
    <3> QED
      BY <3>1, JoinedFields
  <2>5. 1 \in 1..2 /\ 2 \in 1..2 /\ 1 \in 1..1 /\ 2 + 1 = 3
    OBVIOUS
  <2>6. three[1] = a /\ three[2] = b /\ three[2 + 1] = c
    BY <2>1, <2>2, <2>4, <2>5
  <2>7. three \in Seq(Fields) /\ Len(three) = 3 /\ DOMAIN three = 1..3
    BY <2>1, <2>2, <2>4
  <2>8. two \in Seq(Fields) /\ Len(two) = 2 /\ two[1] = a /\ two[2] = b /\ DOMAIN two = 1..2
    BY <2>1, <2>3
  <2> QED
    BY <2>5, <2>6, <2>7, <2>8
<1> HIDE DEF two, three
<1>9. /\ 1 \in keep(two) <=> Absent(kv, <<"date">>)
      /\ 2 \in keep(two) <=> Absent(kv, <<"server">>)
      /\ 1 \in keep(three) <=> Absent(kv, <<"date">>)
      /\ 2 \in keep(three) <=> Absent(kv, <<"server">>)
      /\ 3 \in keep(three) <=> Absent(kv, <<"content-length">>)
  <2> HIDE DEF a, b, c
  <2>1. 1 \in 1..2 /\ 2 \in 1..2 /\ 1 \in 1..3 /\ 2 \in 1..3 /\ 3 \in 1..3
    OBVIOUS
  <2>2. /\ 1 \in keep(two) <=> Absent(k, a.name)
        /\ 2 \in keep(two) <=> Absent(k, b.name)
        /\ 1 \in keep(three) <=> Absent(k, a.name)
        /\ 2 \in keep(three) <=> Absent(k, b.name)
        /\ 3 \in keep(three) <=> Absent(k, c.name)
    BY <1>7, <1>8, <2>1
  <2> QED
    BY <1>1, <1>4, <2>2
<1>10. PICK t : Taking(t, two, keep(two)) /\ Selected(two, keep(two)) = t[2]
  <2>1. PICK t : Taking(t, two, keep(two)) /\ Selected(two, keep(two)) = t[Len(two)]
    BY <1>8, SelectedIs
  <2> QED
    BY <1>8, <2>1
<1>11. PICK u : Taking(u, three, keep(three)) /\ Selected(three, keep(three)) = u[3]
  <2>1. PICK u : Taking(u, three, keep(three)) /\ Selected(three, keep(three)) = u[Len(three)]
    BY <1>8, SelectedIs
  <2> QED
    BY <1>8, <2>1
<1> DEFINE t1 == IF Absent(kv, <<"date">>) THEN Append(<<>>, a) ELSE <<>>
           t2 == IF Absent(kv, <<"server">>) THEN Append(t1, b) ELSE t1
           t3 == IF Absent(kv, <<"content-length">>) THEN Append(t2, c) ELSE t2
<1>12. t[2] = t2
  <2>1. 1 \in 1..2 /\ 2 \in 1..2 /\ 1 - 1 = 0 /\ 2 - 1 = 1
    OBVIOUS
  <2>2. t[0] = <<>> /\ t[1] = t1
    BY <1>8, <1>9, <1>10, <2>1 DEF Taking
  <2> HIDE DEF t1
  <2> QED
    BY <1>8, <1>9, <1>10, <2>1, <2>2 DEF Taking
<1>13. u[3] = t3
  <2>1. 1 \in 1..3 /\ 2 \in 1..3 /\ 3 \in 1..3 /\ 1 - 1 = 0 /\ 2 - 1 = 1 /\ 3 - 1 = 2
    OBVIOUS
  <2>2. u[0] = <<>> /\ u[1] = t1
    BY <1>8, <1>9, <1>11, <2>1 DEF Taking
  <2> HIDE DEF t1
  <2>3. u[2] = t2
    BY <1>8, <1>9, <1>11, <2>1, <2>2 DEF Taking
  <2> HIDE DEF t2
  <2> QED
    BY <1>8, <1>9, <1>11, <2>1, <2>3 DEF Taking
<1>14. t1 \in Seq(Fields) /\ t1 \in Seq({a})
  <2> HIDE DEF a
  <2>1. <<>> \in Seq(Fields) /\ <<>> \in Seq({a}) /\ a \in {a}
    OBVIOUS
  <2>2. Append(<<>>, a) \in Seq(Fields)
    BY <1>3, <2>1, AppendProperties
  <2>3. Append(<<>>, a) \in Seq({a})
    BY <2>1, AppendProperties
  <2> QED
    BY <2>1, <2>2, <2>3
<1> HIDE DEF t1
<1>15. t2 \in Seq(Fields) /\ t2 \in Seq({a, b})
  <2>1. Append(t1, b) \in Seq(Fields)
    BY <1>3, <1>14, AppendProperties
  <2>2. t1 \in Seq({a, b})
    BY <1>14, SeqMonotonic
  <2>3. Append(t1, b) \in Seq({a, b})
    BY <2>2, AppendProperties
  <2> QED
    BY <1>14, <2>1, <2>2, <2>3
<1> HIDE DEF t2
<1>16. t3 \in Seq(Fields)
  BY <1>3, <1>15, AppendProperties
<1> HIDE DEF a, b, c
<1>17. Absent(<<>>, <<"date">>) /\ Absent(t1, <<"server">>) /\ Absent(t2, <<"content-length">>)
  <2>1. \A i \in DOMAIN t1 : t1[i] = a
    BY <1>14
  <2>2. \A i \in DOMAIN t2 : t2[i] = a \/ t2[i] = b
    BY <1>15
  <2> QED
    BY <1>4, <1>5, <2>1, <2>2 DEF Absent
<1>18. SetIfAbsent(kv, <<"date">>, <<"now">>) = kv \o t1
  <2>1. kv \o <<>> = kv /\ <<>> \in Seq(Fields)
    BY ConcatEmptySeq
  <2>2. SetIfAbsent(kv \o <<>>, <<"date">>, <<"now">>)
          = kv \o (IF Absent(kv, <<"date">>) THEN Append(<<>>, Field(<<"date">>, <<"now">>)) ELSE <<>>)
    BY <1>2, <1>17, <2>1, AddStep
  <2> QED
    BY <2>1, <2>2 DEF t1, a
<1>19. SetGeneralServerHeaders(kv) = kv \o t2
  <2>1. SetIfAbsent(kv \o t1, <<"server">>, <<"Shitty">>)
          = kv \o (IF Absent(kv, <<"server">>) THEN Append(t1, Field(<<"server">>, <<"Shitty">>)) ELSE t1)
    BY <1>2, <1>14, <1>17, AddStep
  <2> QED
    BY <1>18, <2>1 DEF SetGeneralServerHeaders, t2, b
<1>20. SetIfAbsent(kv \o t2, <<"content-length">>, Decimal[Len(body)]) = kv \o t3
  <2>1. SetIfAbsent(kv \o t2, <<"content-length">>, Decimal[Len(body)])
          = kv \o (IF Absent(kv, <<"content-length">>)
                   THEN Append(t2, Field(<<"content-length">>, Decimal[Len(body)])) ELSE t2)
    BY <1>2, <1>15, <1>17, AddStep
  <2> QED
    BY <2>1 DEF t3, c
<1> QED
  BY <1>6, <1>10, <1>11, <1>12, <1>13, <1>15, <1>16, <1>19, <1>20

-----------------------------------------------------------------------------
\* The lines of a text.

\* g follows the definition of FlattenSeq(q) up to n.
FlatTo(q, n, g) == g = [i \in 1..n |-> IF i = 1 THEN q[i] ELSE g[i - 1] \o q[i]]

\* A function that follows the definition of FlattenSeq exists.
LEMMA FlatExists ==
    ASSUME NEW q
    PROVE  \A n \in Nat : \E g : FlatTo(q, n, g)
<1> DEFINE T == {n \in Nat : \E g : FlatTo(q, n, g)}
<1>1. 0 \in T
  <2>1. FlatTo(q, 0, [i \in 1..0 |-> q])
    BY DEF FlatTo
  <2> QED
    BY <2>1
<1>2. ASSUME NEW n \in Nat, n \in T PROVE n + 1 \in T
  <2>1. PICK g : FlatTo(q, n, g)
    BY <1>2
  <2> DEFINE h == [i \in 1..(n + 1) |-> IF i <= n THEN g[i]
                                        ELSE IF i = 1 THEN q[i] ELSE g[n] \o q[i]]
  <2>2. ASSUME NEW i \in 1..(n + 1)
        PROVE  h[i] = IF i = 1 THEN q[i] ELSE h[i - 1] \o q[i]
    <3>1. CASE i = 1
      BY <2>1, <3>1 DEF FlatTo
    <3>2. CASE i # 1 /\ i <= n
      <4>1. i - 1 \in 1..n /\ h[i - 1] = g[i - 1] /\ h[i] = g[i] /\ i \in 1..n
        BY <3>2
      <4> QED
        BY <2>1, <3>2, <4>1 DEF FlatTo
    <3>3. CASE i # 1 /\ i = n + 1
      <4>1. h[i - 1] = g[n]
        BY <3>3
      <4>2. h[i] = g[n] \o q[i]
        <5>1. ~(i <= n)
          BY <3>3
        <5> QED
          BY <3>3, <5>1
      <4> HIDE DEF h
      <4> QED
        BY <3>3, <4>1, <4>2
    <3> QED
      BY <3>1, <3>2, <3>3
  <2>3. FlatTo(q, n + 1, h)
    BY <2>2 DEF FlatTo
  <2> QED
    BY <2>3
<1> HIDE DEF T
<1>3. \A n \in Nat : n \in T
  BY <1>1, <1>2, Induction
<1> QED
  BY <1>3 DEF T

\* And what it is at each place.
LEMMA FlatNext ==
    ASSUME NEW q, NEW g, NEW n \in Nat, FlatTo(q, n, g), NEW i \in 1..n
    PROVE  g[i] = IF i = 1 THEN q[i] ELSE g[i - 1] \o q[i]
BY DEF FlatTo

\* FlattenSeq is its last value.
LEMMA FlattenIs ==
    ASSUME NEW S, NEW q \in Seq(S), Len(q) # 0
    PROVE  \E g : FlatTo(q, Len(q), g) /\ FlattenSeq(q) = g[Len(q)]
<1>1. FlattenSeq(q) = (CHOOSE g : FlatTo(q, Len(q), g))[Len(q)]
  BY DEF FlattenSeq, FlatTo
<1>2. \E g : FlatTo(q, Len(q), g)
  <2>1. Len(q) \in Nat
    OBVIOUS
  <2> QED
    BY <2>1, FlatExists
<1> QED
  BY <1>1, <1>2

\* r[k] is what follows the first k lines of L, with tail behind them all.
Tails(r, L, tail) ==
    /\ r \in [0..Len(L) -> Text] /\ r[Len(L)] = tail
    /\ \A k \in 0..(Len(L) - 1) : r[k] = (L[k + 1] \o CRLF) \o r[k + 1]

\* Concatenation is associative.
LEMMA Regrouped ==
    ASSUME NEW a \in Text, NEW b \in Text, NEW c \in Text
    PROVE  (a \o b) \o c = a \o (b \o c)
BY ConcatAssociative DEF Text

\* A line with its end is a text.
LEMMA LineEnded ==
    ASSUME NEW line \in Line
    PROVE  line \in Text /\ line \o CRLF \in Text
BY LineText, CRLFText, Both

\* There is a sequence of the texts that follow the lines.
LEMMA TailsExist ==
    ASSUME NEW L \in Seq(Line), NEW tail \in Text
    PROVE  \E r : Tails(r, L, tail)
<1> DEFINE n == Len(L)
           g == [j \in 1..n |-> [x \in Text |-> (L[(n + 1) - j] \o CRLF) \o x]]
<1>1. n \in Nat /\ \A i \in 1..n : L[i] \in Line
  OBVIOUS
<1>2. g \in [1..n -> [Text -> Text]]
  <2>1. ASSUME NEW j \in 1..n, NEW x \in Text PROVE (L[(n + 1) - j] \o CRLF) \o x \in Text
    <3>1. (n + 1) - j \in 1..n
      BY <1>1
    <3>2. L[(n + 1) - j] \o CRLF \in Text
      BY <1>1, <3>1, LineEnded
    <3> QED
      BY <3>2, Both
  <2> QED
    BY <2>1
<1>3. PICK f \in [0..n -> Text] : Follows(f, n, tail, g)
  <2> HIDE DEF g, n
  <2> QED
    BY <1>1, <1>2, Recursion
<1>4. f[0] = tail /\ \A j \in 1..n : f[j] = g[j][f[j - 1]]
  <2> HIDE DEF g, n
  <2>1. 0 \in 0..n /\ \A j \in 1..n : j \in 0..n /\ j # 0
    BY <1>1
  <2>2. f = [j \in 0..n |-> IF j = 0 THEN tail ELSE g[j][f[j - 1]]]
    BY <1>3 DEF Follows
  <2> QED
    BY <2>1, <2>2
<1> DEFINE r == [k \in 0..n |-> f[n - k]]
<1>5. r \in [0..n -> Text]
  <2>1. \A k \in 0..n : n - k \in 0..n
    BY <1>1
  <2> HIDE DEF n
  <2> QED
    BY <1>3, <2>1
<1>6. r[n] = tail
  <2>1. n \in 0..n /\ n - n = 0
    BY <1>1
  <2> HIDE DEF n
  <2> QED
    BY <1>4, <2>1
<1>7. ASSUME NEW k \in 0..(n - 1) PROVE r[k] = (L[k + 1] \o CRLF) \o r[k + 1]
  <2> DEFINE j == n - k
  <2>1. /\ j \in 1..n /\ j - 1 = n - (k + 1) /\ k \in 0..n /\ k + 1 \in 0..n
        /\ (n + 1) - j = k + 1 /\ j - 1 \in 0..n
    BY <1>1
  <2>2. f[j - 1] \in Text
    <3> HIDE DEF n, j
    <3> QED
      BY <1>3, <2>1
  <2>3. g[j][f[j - 1]] = (L[(n + 1) - j] \o CRLF) \o f[j - 1]
    <3> HIDE DEF j, n
    <3> QED
      BY <2>1, <2>2
  <2>4. f[j] = (L[k + 1] \o CRLF) \o f[j - 1]
    <3> HIDE DEF g, j, n
    <3> QED
      BY <1>4, <2>1, <2>3
  <2>5. r[k] = f[j] /\ r[k + 1] = f[n - (k + 1)]
    <3> HIDE DEF n
    <3> QED
      BY <2>1
  <2> HIDE DEF r, j, n
  <2> QED
    BY <2>1, <2>4, <2>5
<1> HIDE DEF r
<1>8. Tails(r, L, tail)
  BY <1>5, <1>6, <1>7 DEF Tails
<1> QED
  BY <1>8

\* The lines, one after the other, and what follows them.
LEMMA Flattened ==
    ASSUME NEW L \in Seq(Line), NEW tail \in Text, NEW r, Tails(r, L, tail),
           NEW q \in Seq(Text), Len(q) = Len(L), \A i \in 1..Len(L) : q[i] = L[i] \o CRLF
    PROVE  FlattenSeq(q) \o tail = r[0] /\ FlattenSeq(q) \in Text
<1> DEFINE n == Len(L)
<1>1. n \in Nat /\ Len(q) = n /\ \A i \in 1..n : q[i] \in Text
  OBVIOUS
<1>2. /\ r \in [0..n -> Text] /\ r[n] = tail
      /\ \A k \in 0..(n - 1) : r[k] = q[k + 1] \o r[k + 1]
  <2>1. \A k \in 0..(n - 1) : k + 1 \in 1..n
    BY <1>1
  <2> QED
    BY <2>1 DEF Tails
<1>3. CASE n = 0
  <2>1. q = <<>>
    BY <1>1, <1>3, EmptySeq
  <2>2. FlattenSeq(q) = <<>>
    BY <2>1 DEF FlattenSeq
  <2>3. <<>> \o tail = tail /\ <<>> \in Text
    BY ConcatEmptySeq DEF Text
  <2> QED
    BY <1>2, <1>3, <2>2, <2>3
<1>4. CASE n # 0
  <2>1. PICK g : FlatTo(q, n, g) /\ FlattenSeq(q) = g[n]
    BY <1>1, <1>4, FlattenIs
  <2> HIDE DEF n
  <2> DEFINE Good(j) == j <= n => g[j] \in Text /\ g[j] \o r[j] = r[0]
             T == {i \in Nat : Good(i + 1)}
  <2>2. 0 \in T
    <3>1. 1 \in 1..n /\ 0 \in 0..(n - 1) /\ 0 + 1 = 1
      BY <1>1, <1>4
    <3>2. g[1] = q[1]
      BY <1>1, <2>1, <3>1, FlatNext
    <3>3. r[0] = q[1] \o r[1]
      BY <1>2, <3>1
    <3> QED
      BY <1>1, <3>1, <3>2, <3>3
  <2>3. ASSUME NEW i \in Nat, i \in T PROVE i + 1 \in T
    <3> DEFINE j == i + 1
    <3>0. Good(j)
      BY <2>3
    <3> SUFFICES ASSUME j + 1 <= n
                 PROVE  g[j + 1] \in Text /\ g[j + 1] \o r[j + 1] = r[0]
      <4>1. Good(j + 1) => i + 1 \in T
        <5> HIDE DEF Good
        <5> QED
          OBVIOUS
      <4> HIDE DEF T, j
      <4> QED
        BY <4>1
    <3>1. /\ j + 1 \in 1..n /\ j + 1 # 1 /\ (j + 1) - 1 = j /\ j \in 0..(n - 1) /\ j + 1 \in 0..n
          /\ j <= n
      BY <1>1
    <3>2. g[j] \in Text /\ g[j] \o r[j] = r[0]
      BY <3>0, <3>1
    <3> HIDE DEF j
    <3>3. g[j + 1] = g[j] \o q[j + 1]
      <4>1. g[j + 1] = IF j + 1 = 1 THEN q[j + 1] ELSE g[(j + 1) - 1] \o q[j + 1]
        BY <1>1, <2>1, <3>1, FlatNext
      <4> QED
        BY <3>1, <4>1
    <3>4. r[j] = q[j + 1] \o r[j + 1] /\ q[j + 1] \in Text /\ r[j + 1] \in Text
      BY <1>1, <1>2, <3>1
    <3>5. (g[j] \o q[j + 1]) \o r[j + 1] = g[j] \o (q[j + 1] \o r[j + 1])
      BY <3>2, <3>4, Regrouped
    <3>6. g[j] \o q[j + 1] \in Text
      BY <3>2, <3>4, Both
    <3> QED
      BY <3>2, <3>3, <3>4, <3>5, <3>6
  <2>4. \A i \in Nat : i \in T
    <3> HIDE DEF T
    <3> QED
      BY <2>2, <2>3, Induction
  <2>5. g[n] \in Text /\ g[n] \o r[n] = r[0]
    <3> DEFINE i == n - 1
    <3>1. i \in Nat /\ i + 1 = n /\ i + 1 <= n
      BY <1>1, <1>4
    <3> HIDE DEF i
    <3>2. g[i + 1] \in Text /\ g[i + 1] \o r[i + 1] = r[0]
      BY <2>4, <3>1
    <3> QED
      BY <3>1, <3>2
  <2> QED
    BY <1>2, <2>1, <2>5
<1> QED
  BY <1>3, <1>4

\* One line more.
LEMMA TailsMore ==
    ASSUME NEW L \in Seq(Line), NEW x \in Line, NEW tail \in Text, NEW r,
           Tails(r, L, (x \o CRLF) \o tail)
    PROVE  \E u : Tails(u, Append(L, x), tail) /\ u[0] = r[0]
<1> DEFINE n == Len(L)
           M == Append(L, x)
           u == [k \in 0..(n + 1) |-> IF k <= n THEN r[k] ELSE tail]
<1>1. /\ n \in Nat /\ M \in Seq(Line) /\ Len(M) = n + 1 /\ M[n + 1] = x
      /\ \A i \in 1..n : M[i] = L[i]
  BY AppendProperties
<1>2. /\ r \in [0..n -> Text] /\ r[n] = (x \o CRLF) \o tail
      /\ \A k \in 0..(n - 1) : r[k] = (L[k + 1] \o CRLF) \o r[k + 1]
  BY DEF Tails
<1> HIDE DEF M, n
<1>3. u \in [0..(n + 1) -> Text]
  <2>1. \A k \in 0..(n + 1) : k <= n => k \in 0..n
    BY <1>1
  <2> QED
    BY <1>2, <2>1
<1>4. u[n + 1] = tail /\ \A k \in 0..n : u[k] = r[k]
  <2>1. n + 1 \in 0..(n + 1) /\ ~(n + 1 <= n) /\ \A k \in 0..n : k \in 0..(n + 1) /\ k <= n
    BY <1>1
  <2> QED
    BY <2>1
<1> HIDE DEF u
<1>5. ASSUME NEW k \in 0..n PROVE u[k] = (M[k + 1] \o CRLF) \o u[k + 1]
  <2>1. CASE k = n
    <3>1. n \in 0..n
      BY <1>1
    <3> QED
      BY <1>1, <1>2, <1>4, <2>1, <3>1
  <2>2. CASE k # n
    <3>1. k \in 0..(n - 1) /\ k + 1 \in 1..n /\ k + 1 \in 0..n
      BY <1>1, <2>2
    <3> QED
      BY <1>1, <1>2, <1>4, <3>1
  <2> QED
    BY <2>1, <2>2
<1>6. Tails(u, M, tail)
  <2>1. (n + 1) - 1 = n
    BY <1>1
  <2> QED
    BY <1>1, <1>3, <1>4, <1>5, <2>1 DEF Tails
<1>7. u[0] = r[0]
  <2>1. 0 \in 0..n
    BY <1>1
  <2> QED
    BY <1>4, <2>1
<1> QED
  BY <1>6, <1>7 DEF M

\* txt is a first line, the lines L, an empty line and a body.
Layout(first, L, body, txt) ==
    \E r : Tails(r, L, CRLF \o body) /\ txt = (first \o CRLF) \o r[0]

\* A first line, the lines one behind the other and a tail.
LEMMA Laid ==
    ASSUME NEW first \in Line, NEW L \in Seq(Line), NEW tail \in Text,
           NEW q \in Seq(Text), Len(q) = Len(L), \A i \in 1..Len(L) : q[i] = L[i] \o CRLF
    PROVE  \E r : Tails(r, L, tail) /\ ((first \o CRLF) \o FlattenSeq(q)) \o tail = (first \o CRLF) \o r[0]
<1>1. PICK r : Tails(r, L, tail)
  BY TailsExist
<1>2. FlattenSeq(q) \o tail = r[0] /\ FlattenSeq(q) \in Text
  BY <1>1, Flattened
<1> DEFINE a == first \o CRLF
<1>3. a \in Text
  BY LineEnded
<1> HIDE DEF a
<1>4. (a \o FlattenSeq(q)) \o tail = a \o (FlattenSeq(q) \o tail)
  BY <1>2, <1>3, Regrouped
<1>5. (a \o FlattenSeq(q)) \o tail = a \o r[0]
  BY <1>2, <1>4
<1> QED
  BY <1>1, <1>5 DEF a

LinesOf(kv) == [i \in DOMAIN kv |-> kv[i].name \o <<":", "SP">> \o kv[i].value]

\* What stands between a name and its value.
LEMMA SepText ==
    /\ <<":", "SP">> \in Line /\ <<":">> \in Line /\ Len(<<":", "SP">>) = 2 /\ Len(<<":">>) = 1
    /\ <<":", "SP">>[1] = ":" /\ <<":", "SP">>[2] = "SP" /\ <<":">>[1] = ":"
BY SomeChars DEF Line, NoLF

\* Three pieces without a line feed.
LEMMA LineJoined ==
    ASSUME NEW a \in Line, NEW b \in Line, NEW c \in Line
    PROVE  (a \o b) \o c \in Line
<1>1. a \o b \in Line
  BY ConcatProperties DEF Line
<1> QED
  BY <1>1, ConcatProperties DEF Line

\* One line for every field.
LEMMA LinesOfType ==
    ASSUME NEW kv \in Seq(Fields)
    PROVE  LinesOf(kv) \in Seq(Line) /\ Len(LinesOf(kv)) = Len(kv)
<1>1. DOMAIN kv = 1..Len(kv) /\ Len(kv) \in Nat
  OBVIOUS
<1>2. ASSUME NEW i \in 1..Len(kv) PROVE kv[i].name \o <<":", "SP">> \o kv[i].value \in Line
  <2>0. kv[i] \in Fields
    BY <1>1
  <2>1. kv[i].name \in Line /\ kv[i].value \in Line
    <3>1. kv[i].name \in Name /\ kv[i].value \in Line
      BY <2>0 DEF Fields
    <3> QED
      BY <3>1, NameIs
  <2>2. <<":", "SP">> \in Line
    BY SepText
  <2> QED
    BY <2>1, <2>2, LineJoined
<1>3. LinesOf(kv) \in [1..Len(kv) -> Line]
  BY <1>1, <1>2 DEF LinesOf
<1> QED
  BY <1>1, <1>3

\* renderHeaders writes one line for each field and an empty one (HTTP1.cpp).
LEMMA Rendered ==
    ASSUME NEW kv \in Seq(Fields), NEW first \in Line, NEW body \in Text
    PROVE  /\ Layout(first, LinesOf(kv), body, ((first \o CRLF) \o RenderHeaders(kv)) \o body)
           /\ (first \o CRLF) \o RenderHeaders(kv) \in Text
<1> DEFINE L == LinesOf(kv)
           q == [i \in DOMAIN kv |-> kv[i].name \o <<":", "SP">> \o kv[i].value \o CRLF]
           a == first \o CRLF
           F == FlattenSeq(q)
           tail == CRLF \o body
<1>1. L \in Seq(Line) /\ Len(L) = Len(kv) /\ Len(kv) \in Nat /\ DOMAIN kv = 1..Len(kv)
  BY LinesOfType
<1>2. \A i \in 1..Len(L) : q[i] = L[i] \o CRLF
  BY <1>1 DEF LinesOf
<1>3. \A i \in 1..Len(L) : L[i] \o CRLF \in Text
  <2> HIDE DEF L
  <2> QED
    BY <1>1, LineEnded
<1>4. q \in [1..Len(kv) -> Text]
  <2>1. \A i \in 1..Len(kv) : kv[i].name \o <<":", "SP">> \o kv[i].value \o CRLF \in Text
    BY <1>1, <1>2, <1>3
  <2> QED
    BY <1>1, <2>1
<1>5. q \in Seq(Text) /\ Len(q) = Len(L)
  BY <1>1, <1>4
<1>6. RenderHeaders(kv) = F \o CRLF
  BY DEF RenderHeaders
<1> HIDE DEF q, L
<1>7. tail \in Text /\ a \in Text /\ CRLF \in Text
  BY CRLFText, Both, LineEnded
<1>8. PICK r : Tails(r, L, tail) /\ ((first \o CRLF) \o FlattenSeq(q)) \o tail = (first \o CRLF) \o r[0]
  <2> HIDE DEF tail
  <2> QED
    BY <1>1, <1>2, <1>5, <1>7, Laid
<1>9. F \in Text
  <2> HIDE DEF tail
  <2> QED
    BY <1>1, <1>2, <1>5, <1>7, <1>8, Flattened
<1> HIDE DEF F, a
<1>10. (a \o (F \o CRLF)) \o body = (a \o F) \o tail
  <2>1. F \o CRLF \in Text /\ a \o F \in Text
    BY <1>7, <1>9, Both
  <2>2. a \o (F \o CRLF) = (a \o F) \o CRLF
    BY <1>7, <1>9, Regrouped
  <2>3. ((a \o F) \o CRLF) \o body = (a \o F) \o (CRLF \o body)
    <3> DEFINE b == a \o F
    <3>1. b \in Text /\ CRLF \in Text
      BY <1>7, <2>1
    <3> HIDE DEF b
    <3>2. (b \o CRLF) \o body = b \o (CRLF \o body)
      BY <3>1, Regrouped
    <3> QED
      BY <3>2 DEF b
  <2> QED
    BY <2>2, <2>3
<1>11. a \o RenderHeaders(kv) \in Text
  <2>1. F \o CRLF \in Text
    BY <1>7, <1>9, Both
  <2> QED
    BY <1>6, <1>7, <2>1, Both
<1>12. (a \o RenderHeaders(kv)) \o body = (first \o CRLF) \o r[0]
  BY <1>6, <1>8, <1>10 DEF F, a
<1> QED
  BY <1>8, <1>11, <1>12 DEF Layout, L, a, tail

\* In whatever order the map lists its fields, they are as many.
LEMMA ListedIs ==
    ASSUME NEW kv \in Seq(Fields), NEW p \in Orders(kv)
    PROVE  /\ DOMAIN kv = 1..Len(kv) /\ Len(kv) \in Nat /\ p \in [1..Len(kv) -> 1..Len(kv)]
           /\ Listed(kv, p) \in Seq(Fields) /\ Len(Listed(kv, p)) = Len(kv)
           /\ \A i \in 1..Len(kv) : Listed(kv, p)[i] = kv[p[i]]
<1> DEFINE n == Len(kv)
<1>1. DOMAIN kv = 1..n /\ n \in Nat
  OBVIOUS
<1>2. p \in [1..n -> 1..n]
  BY <1>1 DEF Orders
<1>3. Listed(kv, p) = [i \in 1..n |-> kv[p[i]]]
  BY <1>1 DEF Listed
<1>4. \A i \in 1..n : kv[p[i]] \in Fields
  BY <1>1, <1>2
<1> HIDE DEF n
<1>5. Listed(kv, p) \in [1..n -> Fields]
  BY <1>3, <1>4
<1>6. Listed(kv, p) \in Seq(Fields) /\ Len(Listed(kv, p)) = n
  BY <1>1, <1>5
<1> QED
  BY <1>1, <1>2, <1>3, <1>6 DEF n

\* What this program sends (sendMessage, sendHeaders), in any order of its fields.
LEMMA SendLaid ==
    ASSUME NEW kv \in Seq(Fields), NEW k, DOMAIN k = DOMAIN kv,
           \A i \in DOMAIN kv : k[i].name = kv[i].name, NEW body \in Text, NEW first \in Line
    PROVE  LET with == kv \o Added(k, OwnLength(body))
               bare == kv \o Added(k, <<>>)
           IN  /\ with \in Seq(Fields) /\ bare \in Seq(Fields)
               /\ OutgoingHeaders(kv, body) = with /\ HeadersToSend(kv) = bare
               /\ \A p \in Orders(with) :
                     Layout(first, LinesOf(Listed(with, p)), body, SendMessage(first, kv, body, p))
               /\ \A p \in Orders(bare) :
                     Layout(first, LinesOf(Listed(bare, p)), <<>>, SendHeaders(first, kv, p))
<1> DEFINE with == kv \o Added(k, OwnLength(body))
           bare == kv \o Added(k, <<>>)
<1>1. /\ Added(k, <<>>) \in Seq(Fields) /\ Added(k, OwnLength(body)) \in Seq(Fields)
      /\ SetGeneralServerHeaders(kv) = bare
      /\ SetIfAbsent(SetGeneralServerHeaders(kv), <<"content-length">>, Decimal[Len(body)]) = with
  BY OwnAdded
<1>2. with \in Seq(Fields) /\ bare \in Seq(Fields)
  BY <1>1, JoinedFields
<1> HIDE DEF with, bare
<1>3. OutgoingHeaders(kv, body) = with /\ HeadersToSend(kv) = bare
  BY <1>1 DEF OutgoingHeaders, HeadersToSend, SetContentLength
<1>4. ASSUME NEW p \in Orders(with)
      PROVE  Layout(first, LinesOf(Listed(with, p)), body, SendMessage(first, kv, body, p))
  <2>1. SendMessage(first, kv, body, p) = ((first \o CRLF) \o RenderHeaders(Listed(with, p))) \o body
    BY <1>3 DEF SendMessage
  <2>2. Listed(with, p) \in Seq(Fields)
    BY <1>2, ListedIs
  <2> QED
    BY <2>1, <2>2, Rendered
<1>5. ASSUME NEW p \in Orders(bare)
      PROVE  Layout(first, LinesOf(Listed(bare, p)), <<>>, SendHeaders(first, kv, p))
  <2> DEFINE q == Listed(bare, p)
             t == (first \o CRLF) \o RenderHeaders(q)
  <2>1. <<>> \in Text
    BY DEF Text
  <2>2. q \in Seq(Fields)
    BY <1>2, ListedIs
  <2>3. SendHeaders(first, kv, p) = t
    BY <1>3 DEF SendHeaders
  <2> HIDE DEF q
  <2>4. Layout(first, LinesOf(q), <<>>, ((first \o CRLF) \o RenderHeaders(q)) \o <<>>) /\ t \in Text
    BY <2>1, <2>2, Rendered
  <2>5. t \o <<>> = t
    <3> HIDE DEF t
    <3> QED
      BY <2>4, ConcatEmptySeq DEF Text
  <2> QED
    BY <2>3, <2>4, <2>5 DEF q
<1> QED
  BY <1>2, <1>3, <1>4, <1>5 DEF with, bare

\* What a peer sends.
OwnLines(t) == [i \in DOMAIN t.fields |-> t.fields[i].name \o t.fields[i].sep \o t.fields[i].value]
PeerLines(t) == IF t.fold = <<>> THEN OwnLines(t) ELSE Append(OwnLines(t), t.fold)

\* The lines of a peer's text, its continuation among them.
LEMMA PeerLaid ==
    ASSUME NEW t, NEW D, t.fields \in Seq(D), OwnLines(t) \in Seq(Line), t.fold \in Line,
           t.body \in Text, FirstLineOf(t.first) \in Line
    PROVE  /\ PeerLines(t) \in Seq(Line)
           /\ Layout(FirstLineOf(t.first), PeerLines(t), t.body, PeerText(t))
<1> DEFINE fs == t.fields
           L == OwnLines(t)
           q == [i \in DOMAIN fs |-> fs[i].name \o fs[i].sep \o fs[i].value \o CRLF]
           first == FirstLineOf(t.first)
           fold == t.fold
           body == t.body
           a == first \o CRLF
           F == FlattenSeq(q)
           tail == CRLF \o body
           end == IF fold = <<>> THEN <<>> ELSE fold \o CRLF
<1>1. /\ fs \in Seq(D) /\ L \in Seq(Line) /\ fold \in Line /\ body \in Text /\ first \in Line
      /\ L = [i \in DOMAIN fs |-> fs[i].name \o fs[i].sep \o fs[i].value]
      /\ PeerText(t) = (((a \o F) \o end) \o CRLF) \o body
      /\ PeerLines(t) = IF fold = <<>> THEN L ELSE Append(L, fold)
  BY DEF OwnLines, PeerLines, PeerText
<1> HIDE DEF fs, L, first, fold, body
<1>2. Len(fs) \in Nat /\ DOMAIN fs = 1..Len(fs) /\ DOMAIN L = 1..Len(L) /\ Len(L) \in Nat
  BY <1>1
<1>3. Len(L) = Len(fs)
  BY <1>1, <1>2
<1>4. \A i \in 1..Len(L) : q[i] = L[i] \o CRLF
  BY <1>1, <1>2, <1>3
<1>5. q \in [1..Len(fs) -> Text]
  <2>1. \A i \in 1..Len(L) : L[i] \o CRLF \in Text
    <3>1. \A i \in 1..Len(L) : L[i] \in Line
      BY <1>1, <1>2, ElementOfSeq
    <3> QED
      BY <3>1, LineEnded
  <2>2. \A i \in 1..Len(fs) : fs[i].name \o fs[i].sep \o fs[i].value \o CRLF \in Text
    BY <1>2, <1>3, <1>4, <2>1
  <2> QED
    BY <1>2, <2>2
<1>6. q \in Seq(Text) /\ Len(q) = Len(L)
  BY <1>2, <1>3, <1>5
<1> HIDE DEF q
<1>7. tail \in Text /\ a \in Text /\ CRLF \in Text /\ fold \o CRLF \in Text /\ end \in Text
  <2>1. <<>> \in Text
    BY DEF Text
  <2> QED
    BY <1>1, <2>1, CRLFText, Both, LineEnded
<1> DEFINE rest == end \o tail
<1>8. rest \in Text
  BY <1>7, Both
<1>9. PICK r : Tails(r, L, rest) /\ ((first \o CRLF) \o FlattenSeq(q)) \o rest = (first \o CRLF) \o r[0]
  <2> HIDE DEF rest
  <2> QED
    BY <1>1, <1>4, <1>6, <1>8, Laid
<1>10. F \in Text
  <2> HIDE DEF rest
  <2> QED
    BY <1>1, <1>4, <1>6, <1>8, <1>9, Flattened
<1> HIDE DEF F, a, end
<1>11. PeerText(t) = (a \o F) \o rest
  <2> DEFINE b == a \o F
  <2>1. b \in Text
    BY <1>7, <1>10, Both
  <2> HIDE DEF b
  <2>2. b \o end \in Text
    BY <1>7, <2>1, Both
  <2>3. ((b \o end) \o CRLF) \o body = (b \o end) \o (CRLF \o body)
    BY <1>1, <1>7, <2>2, Regrouped
  <2>4. (b \o end) \o tail = b \o (end \o tail)
    <3> HIDE DEF tail
    <3> QED
      BY <1>7, <2>1, Regrouped
  <2> QED
    BY <1>1, <2>3, <2>4 DEF b
<1>12. PeerText(t) = (first \o CRLF) \o r[0]
  BY <1>9, <1>11 DEF F, a
<1>13. CASE fold = <<>>
  <2>1. rest = tail
    <3>1. end = <<>>
      BY <1>13 DEF end
    <3> HIDE DEF tail
    <3> QED
      BY <1>7, <3>1, ConcatEmptySeq DEF Text
  <2>2. Tails(r, L, CRLF \o body)
    BY <1>9, <2>1
  <2> QED
    BY <1>1, <1>12, <1>13, <2>2 DEF Layout, first, body
<1>14. CASE fold # <<>>
  <2>1. rest = (fold \o CRLF) \o tail
    BY <1>14 DEF end
  <2>2. Tails(r, L, (fold \o CRLF) \o tail)
    BY <1>9, <2>1
  <2>3. PICK u : Tails(u, Append(L, fold), tail) /\ u[0] = r[0]
    <3> HIDE DEF tail
    <3> QED
      <4>1. L \in Seq(Line) /\ fold \in Line /\ tail \in Text
        BY <1>1, <1>7
      <4> QED
        BY <2>2, <4>1, TailsMore
  <2>4. Append(L, fold) \in Seq(Line)
    BY <1>1, AppendProperties
  <2>5. PeerText(t) = (first \o CRLF) \o u[0] /\ Tails(u, PeerLines(t), CRLF \o body)
    BY <1>1, <1>12, <1>14, <2>3
  <2> QED
    BY <1>1, <1>14, <2>4, <2>5 DEF Layout, first, body
<1> QED
  BY <1>13, <1>14

-----------------------------------------------------------------------------
\* Values on their way.

\* IsPrefix by characters.
LEMMA PrefixIs ==
    ASSUME NEW s \in Text, NEW t \in Text
    PROVE  IsPrefix(s, t) <=> Len(s) <= Len(t) /\ \A i \in 1..Len(s) : s[i] = t[i]
<1>1. ASSUME IsPrefix(s, t) PROVE Len(s) <= Len(t) /\ \A i \in 1..Len(s) : s[i] = t[i]
  <2>1. Len(s) <= Len(t) /\ SubSeq(s, 1, Len(s)) = SubSeq(t, 1, Len(s))
    BY <1>1 DEF IsPrefix
  <2>2. Len(s) \in Nat /\ Len(t) \in Nat /\ SubSeq(s, 1, Len(s)) = s
    BY SubSeqFull DEF Text
  <2> DEFINE n == Len(s)
             u == SubSeq(t, 1, n)
  <2>3. /\ Len(u) = IF 1 <= n THEN (n - 1) + 1 ELSE 0
        /\ \A i \in 1..Len(u) : u[i] = t[(1 + i) - 1]
    <3>1. 1 \in Nat \ {0} /\ n \in Nat /\ n <= Len(t)
      BY <2>1, <2>2
    <3> HIDE DEF n
    <3> QED
      BY <3>1, PartOf
  <2>4. \A i \in 1..n : (1 + i) - 1 = i
    OBVIOUS
  <2>5. s = u
    BY <2>1, <2>2
  <2> HIDE DEF u
  <2> QED
    BY <2>1, <2>2, <2>3, <2>4, <2>5
<1> QED
  BY <1>1, Beginning

\* IsPrefix is transitive.
LEMMA PrefixOfPrefix ==
    ASSUME NEW s \in Text, NEW t \in Text, NEW u \in Text, IsPrefix(s, t), IsPrefix(t, u)
    PROVE  IsPrefix(s, u)
<1>1. Len(s) \in Nat /\ Len(t) \in Nat /\ Len(u) \in Nat
  BY DEF Text
<1>2. Len(s) <= Len(t) /\ \A i \in 1..Len(s) : s[i] = t[i]
  BY PrefixIs
<1>3. Len(t) <= Len(u) /\ \A i \in 1..Len(t) : t[i] = u[i]
  BY PrefixIs
<1>4. Len(s) <= Len(u) /\ \A i \in 1..Len(s) : s[i] = u[i]
  <2>1. \A i \in 1..Len(s) : i \in 1..Len(t)
    BY <1>1, <1>2
  <2> QED
    BY <1>1, <1>2, <1>3, <2>1
<1> QED
  BY <1>4, Beginning

\* A value without the white space around it.
Core(v) == IF Solid(v) = {} THEN <<>> ELSE SubSeq(v, Min(Solid(v)), Max(Solid(v)))

\* Where a value has no white space at an end, nothing is taken off there.
LEMMA CoreIs ==
    ASSUME NEW v \in Text
    PROVE  /\ Core(v) \in Text
           /\ v = <<>> => Core(v) = <<>>
           /\ v = <<>> \/ v[1] \notin White => IsPrefix(Core(v), v)
           /\ v # <<>> /\ v[1] \notin White /\ Last(v) \notin White => Core(v) = v
<1> DEFINE n == Len(v)
           a == Min(Solid(v))
           b == Max(Solid(v))
<1>1. n \in Nat /\ DOMAIN v = 1..n /\ <<>> \in Text /\ Len(<<>>) = 0 /\ (v # <<>> => n > 0)
  BY DEF Text
<1>2. CASE Solid(v) = {}
  <2>1. Core(v) = <<>>
    BY <1>2 DEF Core
  <2>2. IsPrefix(<<>>, v)
    BY <1>1, PrefixIs
  <2>3. v # <<>> => v[1] \in White
    BY <1>1, <1>2 DEF Solid
  <2> QED
    BY <1>1, <2>1, <2>2, <2>3
<1>3. CASE Solid(v) # {}
  <2>1. a \in Solid(v) /\ b \in Solid(v) /\ a \in 1..n /\ b \in 1..n
        /\ \A k \in Solid(v) : a <= k /\ k <= b
    BY <1>3, SolidEnds
  <2>2. Core(v) = SubSeq(v, a, b)
    BY <1>3 DEF Core
  <2> HIDE DEF a, b
  <2>3. /\ SubSeq(v, a, b) \in Text /\ Len(SubSeq(v, a, b)) = IF a <= b THEN (b - a) + 1 ELSE 0
        /\ \A i \in 1..Len(SubSeq(v, a, b)) : SubSeq(v, a, b)[i] = v[(a + i) - 1]
    <3>1. a \in Nat \ {0} /\ b \in Nat /\ b <= Len(v)
      BY <1>1, <2>1
    <3> QED
      BY <3>1, PartOf
  <2>4. a <= b
    BY <2>1
  <2>5. v # <<>>
    BY <1>1, <2>1
  <2>6. ASSUME v[1] \notin White PROVE a = 1
    <3>1. 1 \in Solid(v)
      BY <1>1, <2>1, <2>6 DEF Solid
    <3> QED
      BY <2>1, <3>1
  <2>7. ASSUME v[1] \notin White PROVE IsPrefix(Core(v), v)
    <3> DEFINE u == SubSeq(v, a, b)
    <3>1. Len(u) <= Len(v)
      BY <1>1, <2>1, <2>3, <2>4
    <3>2. \A i \in 1..Len(u) : u[i] = v[i]
      <4>1. a = 1
        BY <2>6, <2>7
      <4>2. \A i \in 1..Len(u) : (a + i) - 1 = i
        BY <4>1
      <4> QED
        BY <2>3, <4>2
    <3>3. u \in Text
      BY <2>3
    <3> HIDE DEF u
    <3>4. IsPrefix(u, v)
      BY <3>1, <3>2, <3>3, Beginning
    <3> QED
      BY <2>2, <3>4 DEF u
  <2>8. ASSUME v[1] \notin White, Last(v) \notin White PROVE Core(v) = v
    <3>1. n \in Solid(v)
      BY <1>1, <2>1, <2>8 DEF Solid, Last
    <3>2. b = n
      <4>1. b \in Nat /\ n <= b
        BY <2>1, <3>1
      <4>2. b <= n
        BY <1>1, <2>1
      <4> QED
        BY <1>1, <4>1, <4>2, Squeezed
    <3>3. SubSeq(v, 1, Len(v)) = v
      BY SubSeqFull DEF Text
    <3> QED
      BY <2>2, <2>6, <2>8, <3>2, <3>3
  <2> QED
    BY <2>2, <2>3, <2>5, <2>7, <2>8
<1> QED
  BY <1>2, <1>3

\* The value of a field that has been trimmed before it was sent.
LEMMA TrimmedTwice ==
    ASSUME NEW w \in Text
    PROVE  LET got == TrimLWS(<<"SP">> \o TrimLWS(w)) IN
           IF w = <<>> \/ Last(w) \notin White THEN got = Core(w) ELSE IsPrefix(got, Core(w))
<1> DEFINE v == TrimLWS(w)
           got == TrimLWS(<<"SP">> \o v)
           n == Len(w)
           a == Min(Solid(w))
           b == Max(Solid(w))
<1>1. n \in Nat /\ DOMAIN w = 1..n /\ <<>> \in Text /\ Len(<<>>) = 0 /\ (w # <<>> => n > 0)
  BY DEF Text
<1>2. v \in Text
  BY TrimmedIn DEF Text
<1>3. IF v = <<>> \/ Last(v) \notin White THEN got = Core(v) ELSE IsPrefix(got, Core(v))
  <2> HIDE DEF v
  <2> QED
    BY <1>2, SpacedValue DEF Core
<1>4. got \in Text
  <2> HIDE DEF v
  <2>1. <<"SP">> \in Text
    BY SomeChars, OneChar
  <2>2. <<"SP">> \o v \in Text
    BY <1>2, <2>1, Both
  <2> QED
    BY <2>2, TrimmedIn DEF Text
<1>5. CASE Solid(w) = {}
  <2>1. v = <<>> /\ Core(w) = <<>>
    BY <1>5, Trimmed DEF Core
  <2>2. got = <<>>
    BY <1>1, <1>3, <2>1, CoreIs
  <2>3. IsPrefix(<<>>, <<>>)
    BY <1>1, PrefixIs
  <2> QED
    BY <2>1, <2>2, <2>3
<1>6. CASE Solid(w) # {}
  <2>1. a \in Solid(w) /\ b \in Solid(w) /\ a \in 1..n /\ b \in 1..n
        /\ \A k \in Solid(w) : a <= k /\ k <= b
    BY <1>6, SolidEnds
  <2>2. Core(w) = SubSeq(w, a, b) /\ w[a] \notin White
    BY <1>6, <2>1 DEF Core, Solid
  <2>3. CASE w[n] \notin White
    <3>1. v = SubSeq(w, a, n)
      BY <1>6, <2>3, Trimmed
    <3>2. n \in Solid(w)
      BY <1>1, <2>1, <2>3 DEF Solid
    <3>3. b = n
      BY <1>1, <2>1, <3>2
    <3>4. v = Core(w)
      BY <2>2, <3>1, <3>3
    <3> HIDE DEF a, b
    <3>5. Len(v) = (n - a) + 1 /\ \A i \in 1..Len(v) : v[i] = w[(a + i) - 1]
      <4>1. a \in Nat \ {0} /\ n \in Nat /\ n <= Len(w) /\ a <= n
        BY <1>1, <2>1
      <4>2. /\ Len(SubSeq(w, a, n)) = IF a <= n THEN (n - a) + 1 ELSE 0
            /\ \A i \in 1..Len(SubSeq(w, a, n)) : SubSeq(w, a, n)[i] = w[(a + i) - 1]
        <5> HIDE DEF n
        <5> QED
          BY <4>1, PartOf
      <4> QED
        BY <3>1, <4>1, <4>2
    <3> HIDE DEF v
    <3>6. /\ Len(v) \in Nat /\ 1 \in 1..Len(v) /\ Len(v) \in 1..Len(v)
          /\ (a + 1) - 1 = a /\ (a + Len(v)) - 1 = n
      BY <1>1, <2>1, <3>5
    <3>7. v[1] = w[a] /\ v[Len(v)] = w[n]
      BY <3>5, <3>6
    <3>8. v # <<>> /\ v[1] \notin White /\ Last(v) \notin White
      BY <1>1, <2>2, <2>3, <3>6, <3>7 DEF Last
    <3>9. Core(v) = v
      BY <1>2, <3>8, CoreIs
    <3>10. got = Core(w)
      BY <1>3, <3>4, <3>8, <3>9
    <3> QED
      BY <2>3, <3>10 DEF Last, v
  <2>4. CASE w[n] \in White
    <3>1. v = SubSeq(w, a, b - 1)
      BY <1>6, <2>4, Trimmed
    <3> HIDE DEF a, b
    <3>2. /\ Len(Core(w)) = (b - a) + 1 /\ Core(w) \in Text
          /\ \A i \in 1..Len(Core(w)) : Core(w)[i] = w[(a + i) - 1]
      <4>1. a \in Nat \ {0} /\ b \in Nat /\ b <= Len(w) /\ a <= b
        BY <1>1, <2>1
      <4>2. /\ SubSeq(w, a, b) \in Text /\ Len(SubSeq(w, a, b)) = IF a <= b THEN (b - a) + 1 ELSE 0
            /\ \A i \in 1..Len(SubSeq(w, a, b)) : SubSeq(w, a, b)[i] = w[(a + i) - 1]
        BY <4>1, PartOf
      <4> QED
        BY <2>2, <4>1, <4>2
    <3>3. /\ Len(v) = b - a /\ \A i \in 1..Len(v) : v[i] = w[(a + i) - 1]
      <4> DEFINE c == b - 1
      <4>1. a \in Nat \ {0} /\ c \in Nat /\ c <= Len(w) /\ (IF a <= c THEN (c - a) + 1 ELSE 0) = b - a
        BY <1>1, <2>1
      <4>2. v = SubSeq(w, a, c)
        BY <3>1
      <4> HIDE DEF c, v
      <4>3. /\ Len(SubSeq(w, a, c)) = IF a <= c THEN (c - a) + 1 ELSE 0
            /\ \A i \in 1..Len(SubSeq(w, a, c)) : SubSeq(w, a, c)[i] = w[(a + i) - 1]
        BY <4>1, PartOf
      <4> QED
        BY <4>1, <4>2, <4>3
    <3> HIDE DEF v
    <3>4. IsPrefix(v, Core(w))
      <4>1. Len(v) <= Len(Core(w)) /\ \A i \in 1..Len(v) : v[i] = Core(w)[i]
        <5>1. \A i \in 1..Len(v) : i \in 1..Len(Core(w))
          BY <2>1, <3>2, <3>3
        <5> QED
          BY <2>1, <3>2, <3>3, <5>1
      <4> QED
        BY <1>2, <3>2, <4>1, Beginning
    <3>5. v = <<>> \/ v[1] \notin White
      <4> SUFFICES ASSUME v # <<>> PROVE v[1] \notin White
        OBVIOUS
      <4>1. 1 \in 1..Len(v) /\ (a + 1) - 1 = a
        BY <1>2, <2>1 DEF Text
      <4> QED
        BY <2>2, <3>3, <4>1
    <3>6. IsPrefix(Core(v), v) /\ Core(v) \in Text
      BY <1>2, <3>5, CoreIs
    <3>7. IsPrefix(got, Core(v))
      <4>1. IsPrefix(Core(v), Core(v))
        BY <3>6, PrefixIs
      <4> QED
        BY <1>3, <4>1
    <3> HIDE DEF got
    <3>8. IsPrefix(got, v)
      BY <1>2, <1>4, <3>6, <3>7, PrefixOfPrefix
    <3>9. IsPrefix(got, Core(w))
      BY <1>2, <1>4, <3>2, <3>4, <3>8, PrefixOfPrefix
    <3>10. ~(w = <<>> \/ Last(w) \notin White)
      BY <1>1, <2>1, <2>4 DEF Last
    <3> QED
      BY <3>9, <3>10 DEF got, v
  <2> QED
    BY <2>3, <2>4
<1> QED
  BY <1>5, <1>6

\* The line is one that is read as the field f.
Carried(line, f) ==
    /\ line \in Line /\ line # <<>> /\ line[1] \notin White /\ Contains(line, ":")
    /\ f.name \in Name /\ HeaderLine(line) \in Fields
    /\ HeaderLine(line).name = AsciiLower(f.name) /\ ReadAs(f, HeaderLine(line).value)

\* ReadAs in terms of Core.
LEMMA ReadAsIs ==
    ASSUME NEW f, NEW value
    PROVE  /\ Tight(f) => (ReadAs(f, value) <=> IsPrefix(value, <<":">> \o f.value))
           /\ ~Tight(f) => (ReadAs(f, value) <=>
                              IF f.value = <<>> \/ Last(f.value) \notin White THEN value = Core(f.value)
                              ELSE IsPrefix(value, Core(f.value)))
BY DEF ReadAs, Core, Solid

\* A line of a name, a colon and more.
LEMMA NamedLine ==
    ASSUME NEW name \in Name, NEW sep \in Line, NEW value \in Line, Len(sep) > 0, sep[1] = ":"
    PROVE  LET line == name \o sep \o value IN
           line \in Line /\ line # <<>> /\ line[1] \notin White /\ Contains(line, ":")
<1> DEFINE n == Len(name)
           head == name \o sep
           line == head \o value
<1>1. /\ name \in Line /\ name \in Text /\ n \in Nat /\ n > 0
      /\ \A i \in 1..n : name[i] \notin White
  BY NameIs
<1>2. sep \in Text /\ value \in Text
  BY LineText
<1>3. line \in Line
  BY <1>1, LineJoined
<1>4. /\ head \in Text /\ Len(head) = n + Len(sep) /\ Len(sep) \in Nat
      /\ \A i \in 1..n : head[i] = name[i]
      /\ \A i \in 1..Len(sep) : head[n + i] = sep[i]
  <2>1. /\ Len(sep) \in Nat
        /\ name \o sep \in Text /\ Len(name \o sep) = Len(name) + Len(sep)
        /\ \A i \in 1..Len(name) : (name \o sep)[i] = name[i]
        /\ \A i \in 1..Len(sep) : (name \o sep)[Len(name) + i] = sep[i]
    BY <1>1, <1>2, Both
  <2> QED
    BY <2>1
<1>5. 1 \in 1..n /\ 1 \in 1..Len(sep) /\ n + 1 \in 1..Len(head) /\ 1 \in 1..Len(head)
  BY <1>1, <1>4
<1>6. head[1] \notin White /\ head[n + 1] = ":"
  BY <1>1, <1>4, <1>5
<1> HIDE DEF head, n
<1>7. /\ Len(value) \in Nat /\ Len(line) = Len(head) + Len(value)
      /\ \A i \in 1..Len(head) : line[i] = head[i]
  <2>1. /\ Len(head) \in Nat /\ Len(value) \in Nat
        /\ Len(head \o value) = Len(head) + Len(value)
        /\ \A i \in 1..Len(head) : (head \o value)[i] = head[i]
    BY <1>2, <1>4, Both
  <2> QED
    BY <2>1
<1>8. line[1] \notin White /\ line[n + 1] = ":"
  BY <1>5, <1>6, <1>7
<1>9. Len(line) > 0 /\ n + 1 \in 1..Len(line)
  BY <1>1, <1>4, <1>5, <1>7
<1> HIDE DEF line
<1>10. Contains(line, ":") /\ line # <<>>
  BY <1>8, <1>9 DEF Contains
<1> QED
  BY <1>3, <1>8, <1>10 DEF line, head

\* What is read of a line with a space behind the colon.
LEMMA SpacedCarried ==
    ASSUME NEW f, f.name \in Name, f.value \in Line, ~Tight(f), NEW value,
           value = f.value \/ value = TrimLWS(f.value)
    PROVE  Carried(f.name \o <<":", "SP">> \o value, f)
<1> DEFINE name == f.name
           w == f.value
           sep == <<":", "SP">>
           line == name \o sep \o value
           got == TrimLWS(<<"SP">> \o value)
<1>1. /\ name \in Name /\ name \in Text /\ \A i \in 1..Len(name) : name[i] # ":"
  BY NameIs
<1>2. NoLF \subseteq Char
  BY DEF NoLF
<1>3. w \in Line /\ w \in Text /\ value \in Line /\ value \in Text
  <2>1. w \in Line /\ w \in Text
    BY LineText
  <2>2. TrimLWS(w) \in Line
    BY <1>2, <2>1, TrimmedIn DEF Line
  <2> HIDE DEF w
  <2> QED
    BY <2>1, <2>2, LineText DEF w
<1>4. sep \in Line /\ Len(sep) > 0 /\ sep[1] = ":"
  BY SepText
<1>5. line \in Line /\ line # <<>> /\ line[1] \notin White /\ Contains(line, ":")
  <2> HIDE DEF name, sep
  <2> QED
    BY <1>1, <1>3, <1>4, NamedLine
<1>6. HeaderLine(line) = Field(AsciiLower(name), got)
  <2> HIDE DEF name
  <2> QED
    BY <1>1, <1>3, SpacedLine
<1>7. got \in Line
  <2>1. <<"SP">> \in Line
    BY SomeChars DEF Line, NoLF
  <2>2. <<"SP">> \o value \in Line
    BY <1>3, <2>1, ConcatProperties DEF Line
  <2> QED
    BY <1>2, <2>2, TrimmedIn DEF Line
<1>8. HeaderLine(line) \in Fields /\ HeaderLine(line).name = AsciiLower(name) /\ HeaderLine(line).value = got
  <2>1. AsciiLower(name) \in Name
    BY <1>1, LowerName
  <2> HIDE DEF line, got
  <2> QED
    BY <1>6, <1>7, <2>1 DEF Field, Fields
<1>9. IF w = <<>> \/ Last(w) \notin White THEN got = Core(w) ELSE IsPrefix(got, Core(w))
  <2>1. CASE value = w
    <3> HIDE DEF w
    <3> QED
      BY <1>3, <2>1, SpacedValue DEF Core
  <2>2. CASE value = TrimLWS(w)
    <3> HIDE DEF w
    <3> QED
      BY <1>3, <2>2, TrimmedTwice
  <2> QED
    BY <2>1, <2>2
<1>10. ReadAs(f, got)
  <2> HIDE DEF got
  <2> QED
    BY <1>9, ReadAsIs
<1> HIDE DEF got, line
<1> QED
  BY <1>5, <1>8, <1>10 DEF Carried, line

\* And of one without.
LEMMA TightCarried ==
    ASSUME NEW f, f.name \in Name, f.value \in Line, f.sep = <<":">>, Tight(f),
           f.value = <<>> \/ f.value[1] # "SP"
    PROVE  Carried(f.name \o f.sep \o f.value, f)
<1> DEFINE name == f.name
           w == f.value
           sep == <<":">>
           line == name \o sep \o w
           got == TrimLWS(<<":">> \o w)
<1>1. /\ name \in Name /\ name \in Text /\ \A i \in 1..Len(name) : name[i] # ":"
  BY NameIs
<1>2. NoLF \subseteq Char
  BY DEF NoLF
<1>3. w \in Line /\ w \in Text
  BY LineText
<1>4. sep \in Line /\ Len(sep) > 0 /\ sep[1] = ":"
  BY SepText
<1>5. line \in Line /\ line # <<>> /\ line[1] \notin White /\ Contains(line, ":")
  <2> HIDE DEF name, sep, w
  <2> QED
    BY <1>1, <1>3, <1>4, NamedLine
<1>6. HeaderLine(line) = Field(AsciiLower(name), got) /\ IsPrefix(got, <<":">> \o w)
  <2>1. w = <<>> \/ w[1] # "SP"
    OBVIOUS
  <2> HIDE DEF name, w
  <2> QED
    BY <1>1, <1>3, <2>1, TightLine
<1>7. got \in Line
  <2>2. <<":">> \o w \in Line
    BY <1>3, <1>4, ConcatProperties DEF Line
  <2> QED
    BY <1>2, <2>2, TrimmedIn DEF Line
<1>8. HeaderLine(line) \in Fields /\ HeaderLine(line).name = AsciiLower(name) /\ HeaderLine(line).value = got
  <2>1. AsciiLower(name) \in Name
    BY <1>1, LowerName
  <2> HIDE DEF line, got
  <2> QED
    BY <1>6, <1>7, <2>1 DEF Field, Fields
<1>9. ReadAs(f, got)
  <2> HIDE DEF got
  <2> QED
    BY <1>6, ReadAsIs
<1> HIDE DEF got, line
<1> QED
  BY <1>5, <1>8, <1>9 DEF Carried, line

-----------------------------------------------------------------------------
\* What is sent.

AllMessages == [kind : {"message"}, of : Messages] \cup [kind : {"text"}, of : Texts]

\* SeqOf gives sequences.
LEMMA SeqOfIs ==
    ASSUME NEW D, NEW n \in Nat, NEW s \in SeqOf(D, n)
    PROVE  s \in Seq(D)
BY DEF SeqOf

Word == Seq(Char \ {"SP", "LF"})
Requests == [kind : {"request"}, method : Word, path : Word]
Responses == [kind : {"response"}, code : 100..999]

\* First lines are those of requests and of responses.
LEMMA FirstsAre == Firsts \subseteq Requests \cup Responses
BY ItemAssumption DEF Word, Requests, Responses

\* There is a request among them.
LEMMA SomeFirstIs == SomeFirst \in Firsts
BY ItemAssumption DEF SomeFirst

\* The parts of a message.
LEMMA MessageIs ==
    ASSUME NEW m \in AllMessages
    PROVE  /\ m.kind \in {"message", "text"} /\ m.of.first \in Firsts /\ m.of.body \in Text
           /\ m.kind = "message" => m.of.ops \in Seq(Calls)
           /\ m.kind = "text" =>
                 /\ m.of.fields \in Seq(Lines) /\ m.of.fold \in Line
                 /\ m.of.fold # <<>> => m.of.fold[1] \in White /\ Len(m.of.fields) > 0
<1>1. /\ MaxFields \in Nat /\ 1 \in Nat /\ Bodies \subseteq Text /\ <<>> \in Text /\ <<>> \in Line
      /\ Folds \subseteq Line /\ \A f \in Folds : f # <<>> => f[1] \in White
  BY ItemAssumption DEF Text, Line, NoLF
<1>2. CASE m \in [kind : {"message"}, of : Messages]
  <2>1. m.kind = "message" /\ m.of \in Messages
    BY <1>2
  <2>2. m.of.first \in Firsts /\ m.of.body \in Text
    BY <1>1, <2>1, SomeFirstIs DEF Messages
  <2>3. m.of.ops \in SeqOf(Calls, 1) \/ m.of.ops \in SeqOf({c \in Calls : c.op # "string"}, MaxFields)
    BY <2>1 DEF Messages
  <2>4. m.of.ops \in Seq(Calls)
    <3>1. CASE m.of.ops \in SeqOf(Calls, 1)
      BY <1>1, <3>1, SeqOfIs
    <3>2. CASE m.of.ops \in SeqOf({c \in Calls : c.op # "string"}, MaxFields)
      <4> DEFINE D == {c \in Calls : c.op # "string"}
      <4>1. m.of.ops \in Seq(D)
        BY <1>1, <3>2, SeqOfIs
      <4>2. D \subseteq Calls
        OBVIOUS
      <4> HIDE DEF D
      <4> QED
        BY <4>1, <4>2
    <3> QED
      BY <2>3, <3>1, <3>2
  <2> QED
    BY <2>1, <2>2, <2>4
<1>3. CASE m \in [kind : {"text"}, of : Texts]
  <2>1. m.kind = "text" /\ m.of \in Texts
    BY <1>3
  <2>2. m.of.first \in Firsts /\ m.of.body \in Text /\ m.of.fold \in Line
        /\ (m.of.fold # <<>> => m.of.fold[1] \in White)
    BY <1>1, <2>1, SomeFirstIs DEF Texts
  <2>3. \/ m.of.fields \in SeqOf(Lines, 1) /\ m.of.fold = <<>>
        \/ m.of.fields \in SeqOf(Lines, MaxFields) /\ m.of.fields # <<>>
    BY <2>1 DEF Texts
  <2>4. m.of.fields \in Seq(Lines) /\ (m.of.fold # <<>> => m.of.fields # <<>>)
    BY <1>1, <2>3, SeqOfIs
  <2>5. m.of.fields # <<>> => Len(m.of.fields) > 0
    BY <2>4, EmptySeq
  <2> QED
    BY <2>1, <2>2, <2>4, <2>5
<1> QED
  BY <1>2, <1>3 DEF AllMessages

\* parseRequestLine and parseStatusLine give back what requestLine and statusLine wrote.
LEMMA FirstRead ==
    ASSUME NEW f \in Firsts
    PROVE  /\ FirstLineOf(f) \in Line
           /\ (IF f.kind = "request" THEN ParseRequestLine(FirstLineOf(f))
               ELSE ParseStatusLine(FirstLineOf(f))) = f
<1>1. CASE f \in Requests
  <2>1. f.kind = "request" /\ f = [kind |-> "request", method |-> f.method, path |-> f.path]
    BY <1>1 DEF Requests
  <2>2. RequestLine(f) \in Line /\ ParseRequestLine(RequestLine(f)) = [kind |-> "request", method |-> f.method, path |-> f.path]
    BY <1>1, RequestRead DEF Requests, Word
  <2> QED
    BY <2>1, <2>2 DEF FirstLineOf
<1>2. CASE f \in Responses
  <2>1. f.kind = "response" /\ f = [kind |-> "response", code |-> f.code] /\ f.code \in 100..999
    BY <1>2 DEF Responses
  <2>2. StatusLine(f.code) \in Line /\ ParseStatusLine(StatusLine(f.code)) = [kind |-> "response", code |-> f.code]
    BY <2>1, StatusRead
  <2>3. FirstLineOf(f) = StatusLine(f.code) /\ f.kind # "request"
    BY <2>1 DEF FirstLineOf
  <2> QED
    BY <2>1, <2>2, <2>3
<1> QED
  BY <1>1, <1>2, FirstsAre

\* The lines L are read as the fields S, the last of them continued by fold.
Carries(L, S, fold) ==
    /\ L \in Seq(Line) /\ Len(S) \in Nat /\ fold \in Line
    /\ \A i \in 1..Len(S) : Carried(L[i], S[i])
    /\ fold = <<>> => Len(L) = Len(S)
    /\ fold # <<>> => /\ fold[1] \in White /\ Len(S) > 0
                      /\ Len(L) = Len(S) + 1 /\ L[Len(S) + 1] = fold

\* A field sent on is read as itself.
LEMMA FieldCarried ==
    ASSUME NEW f \in Fields
    PROVE  Carried(f.name \o <<":", "SP">> \o f.value, f)
<1>1. f.name \in Name /\ f.value \in Line /\ ~Tight(f)
  BY DEF Fields, Tight
<1> QED
  BY <1>1, SpacedCarried

\* The field of a call is read as what the handler gave.
LEMMA CallCarried ==
    ASSUME NEW c \in Calls
    PROVE  Carried(OfCall[c].name \o <<":", "SP">> \o OfCall[c].value, c)
<1>1. c.name \in Name /\ c.value \in Line
  BY CallIs
<1>2. ~Tight(c)
  BY DEF Calls, Tight
<1>3. OfCall[c].name = c.name /\ (OfCall[c].value = c.value \/ OfCall[c].value = TrimLWS(c.value))
  BY DEF OfCall, Field
<1> QED
  BY <1>1, <1>2, <1>3, SpacedCarried

\* A peer's line is read as its field.
LEMMA LineCarried ==
    ASSUME NEW f \in Lines
    PROVE  Carried(f.name \o f.sep \o f.value, f)
<1>1. TextNames \subseteq Name /\ TextValues \subseteq Line
  BY ItemAssumption DEF Name, NameChar, Line, NoLF
<1>2. f.name \in Name /\ f.value \in Line
  BY <1>1 DEF Lines
<1>3. \/ f.sep = <<":", "SP">>
      \/ f.sep = <<":">> /\ "sep" \in DOMAIN f /\ (f.value = <<>> \/ f.value[1] # "SP")
  BY DEF Lines
<1>4. CASE f.sep = <<":", "SP">>
  <2>1. ~Tight(f)
    <3>1. <<":", "SP">> # <<":">>
      BY SepText
    <3> QED
      BY <1>4, <3>1 DEF Tight
  <2> QED
    BY <1>2, <1>4, <2>1, SpacedCarried
<1>5. CASE f.sep = <<":">> /\ "sep" \in DOMAIN f /\ (f.value = <<>> \/ f.value[1] # "SP")
  <2>1. Tight(f)
    BY <1>5 DEF Tight
  <2> QED
    BY <1>2, <1>5, <2>1, TightCarried
<1> QED
  BY <1>3, <1>4, <1>5

\* Fields this program sends, kv, of what it was given, k, and what it adds.
LEMMA OwnCarries ==
    ASSUME NEW kv \in Seq(Fields), NEW K, NEW k \in Seq(K), Len(k) = Len(kv), NEW A \in Seq(Fields),
           \A i \in 1..Len(kv) : Carried(kv[i].name \o <<":", "SP">> \o kv[i].value, k[i])
    PROVE  /\ Carries(LinesOf(kv \o A), k \o A, <<>>) /\ DOMAIN (k \o A) = 1..Len(kv \o A)
           /\ kv \o A \in Seq(Fields)
<1> DEFINE all == kv \o A
           S == k \o A
           L == LinesOf(all)
           n == Len(kv)
           a == Len(A)
<1>1. /\ n \in Nat /\ a \in Nat /\ all \in Seq(Fields) /\ Len(all) = n + a /\ DOMAIN all = 1..(n + a)
      /\ \A i \in 1..n : all[i] = kv[i]
      /\ \A i \in 1..a : all[n + i] = A[i]
  BY JoinedFields
<1>2. /\ Len(S) = n + a /\ DOMAIN S = 1..(n + a)
      /\ \A i \in 1..n : S[i] = k[i]
      /\ \A i \in 1..a : S[n + i] = A[i]
  <2>1. k \in Seq(K \cup Fields) /\ A \in Seq(K \cup Fields)
    OBVIOUS
  <2>2. Len(k \o A) = Len(k) + Len(A) /\ DOMAIN (k \o A) = 1..(Len(k) + Len(A))
    <3>1. k \o A \in Seq(K \cup Fields) /\ Len(k \o A) = Len(k) + Len(A)
      BY <2>1, ConcatProperties
    <3> QED
      BY <3>1, LenProperties
  <2>3. \A i \in 1..Len(k) : (k \o A)[i] = k[i]
    BY <2>1, ConcatProperties
  <2>4. \A i \in 1..Len(A) : (k \o A)[Len(k) + i] = A[i]
    BY <2>1, JoinedFields
  <2> QED
    BY <2>2, <2>3, <2>4
<1>3. L \in Seq(Line) /\ Len(L) = n + a
  <2> HIDE DEF all
  <2> QED
    BY <1>1, LinesOfType
<1>4. \A i \in 1..(n + a) : L[i] = all[i].name \o <<":", "SP">> \o all[i].value
  <2> HIDE DEF all
  <2> QED
    BY <1>1 DEF LinesOf
<1>5. ASSUME NEW i \in 1..(n + a) PROVE Carried(L[i], S[i])
  <2>1. CASE i \in 1..n
    <3>1. all[i] = kv[i] /\ S[i] = k[i]
      BY <1>1, <1>2, <2>1
    <3>2. L[i] = kv[i].name \o <<":", "SP">> \o kv[i].value
      BY <1>4, <3>1
    <3> HIDE DEF L, S, all
    <3> QED
      BY <2>1, <3>1, <3>2
  <2>2. CASE i \notin 1..n
    <3> DEFINE j == i - n
    <3>1. j \in 1..a /\ i = n + j
      BY <1>1, <2>2
    <3>2. all[i] = A[j] /\ S[i] = A[j]
      <4> HIDE DEF all, S
      <4> QED
        BY <1>1, <1>2, <3>1
    <3>3. A[j] \in Fields
      BY <3>1
    <3>4. L[i] = A[j].name \o <<":", "SP">> \o A[j].value
      BY <1>4, <3>2
    <3> HIDE DEF L, S, all, j
    <3> QED
      BY <3>2, <3>3, <3>4, FieldCarried
  <2> QED
    BY <2>1, <2>2
<1>6. <<>> \in Line
  BY DEF Line
<1> HIDE DEF L, S, n, a
<1>7. n + a \in Nat
  BY <1>1
<1>8. Carries(L, S, <<>>)
  BY <1>2, <1>3, <1>5, <1>6, <1>7 DEF Carries
<1> QED
  BY <1>1, <1>2, <1>8 DEF L, S, all

\* The fields in any order are read as what was given in that order.
LEMMA ListedCarries ==
    ASSUME NEW all \in Seq(Fields), NEW S, DOMAIN S = 1..Len(all),
           Carries(LinesOf(all), S, <<>>), NEW p \in Orders(all)
    PROVE  Carries(LinesOf(Listed(all, p)), Listed(S, p), <<>>)
<1> DEFINE n == Len(all)
           M == LinesOf(Listed(all, p))
           T == Listed(S, p)
<1>1. /\ DOMAIN all = 1..n /\ n \in Nat /\ p \in [1..n -> 1..n]
      /\ Listed(all, p) \in Seq(Fields) /\ Len(Listed(all, p)) = n
      /\ \A i \in 1..n : Listed(all, p)[i] = all[p[i]]
  BY ListedIs
<1>2. M \in Seq(Line) /\ Len(M) = n
  BY <1>1, LinesOfType
<1>3. T = [i \in 1..n |-> S[p[i]]]
  BY DEF Listed
<1>4. \A i \in 1..n : M[i] = LinesOf(all)[p[i]]
  <2>1. DOMAIN Listed(all, p) = 1..n
    BY <1>1 DEF Listed
  <2>2. \A i \in 1..n : M[i] = Listed(all, p)[i].name \o <<":", "SP">> \o Listed(all, p)[i].value
    BY <2>1 DEF LinesOf
  <2>3. \A i \in 1..n : p[i] \in DOMAIN all
    BY <1>1
  <2> QED
    BY <1>1, <2>2, <2>3 DEF LinesOf
<1>5. Len(S) = n
  <2>1. /\ Len(S) \in Nat /\ (<<>> = <<>> => Len(LinesOf(all)) = Len(S))
    BY DEF Carries
  <2>2. Len(LinesOf(all)) = n
    BY LinesOfType
  <2> QED
    BY <2>1, <2>2
<1>6. \A i \in 1..n : Carried(LinesOf(all)[i], S[i])
  BY <1>5 DEF Carries
<1> HIDE DEF n, M, T
<1>7. \A i \in 1..n : Carried(M[i], T[i])
  <2> SUFFICES ASSUME NEW i \in 1..n PROVE Carried(M[i], T[i])
    OBVIOUS
  <2>1. p[i] \in 1..n /\ M[i] = LinesOf(all)[p[i]] /\ T[i] = S[p[i]]
    BY <1>1, <1>3, <1>4
  <2> QED
    BY <1>6, <2>1
<1>8. Len(T) = n
  BY <1>1, <1>3
<1>9. <<>> \in Line
  BY DEF Line
<1> QED
  BY <1>1, <1>2, <1>7, <1>8, <1>9 DEF Carries, M, T

\* The text txt brings the fields S with a continuation fold behind a first line, and
\* a body.
Brings(first, S, fold, body, txt) ==
    \E L : /\ Carries(L, S, fold) /\ body \in Text
           /\ Layout(FirstLineOf(first), L, body, txt)

\* What a handler gives this program to send: sendMessage, and sendHeaders of an upgrade.
LEMMA HandlerBrings ==
    ASSUME NEW first \in Firsts, NEW ops \in Seq(Calls), NEW body \in Text
    PROVE  LET k == Kept(ops)
               S == k \o Added(k, IF IsUpgrade(first) THEN <<>> ELSE OwnLength(body))
           IN  \A p \in OutgoingOrders(first, Applied(ops), body) :
                  Brings(first, Listed(S, p), <<>>, IF IsUpgrade(first) THEN <<>> ELSE body,
                         Outgoing(first, Applied(ops), body, p))
<1> DEFINE k == Kept(ops)
           kv == Applied(ops)
<1>1. k \in Seq(Calls) /\ kv = Image(OfCall, k) /\ FirstLineOf(first) \in Line /\ <<>> \in Text
  BY AppliedIs, FirstRead DEF Text
<1> HIDE DEF k, kv
<1>2. DOMAIN OfCall = Calls
  BY DEF OfCall
<1>3. /\ Len(kv) = Len(k) /\ DOMAIN kv = 1..Len(k)
      /\ \A i \in 1..Len(k) : kv[i] = OfCall[k[i]]
  <2>1. k \in Seq(DOMAIN OfCall)
    BY <1>1, <1>2
  <2> QED
    BY <1>1, <2>1, ImageIs
<1>4. kv \in Seq(Fields)
  <2>1. \A c \in DOMAIN OfCall : OfCall[c] \in Fields
    BY OfCallIs
  <2>2. k \in Seq(DOMAIN OfCall)
    BY <1>1, <1>2
  <2> QED
    BY <1>1, <2>1, <2>2, ImageType
<1>5. \A i \in 1..Len(k) : k[i] \in Calls
  BY <1>1
<1>6. \A i \in 1..Len(kv) : Carried(kv[i].name \o <<":", "SP">> \o kv[i].value, k[i])
  BY <1>3, <1>5, CallCarried
<1>7. DOMAIN k = DOMAIN kv /\ \A i \in DOMAIN kv : k[i].name = kv[i].name
  <2>1. DOMAIN k = 1..Len(k)
    BY <1>1
  <2> QED
    BY <1>2, <1>3, <1>5, <2>1, OfCallIs
<1> DEFINE A == Added(k, OwnLength(body))
           B == Added(k, <<>>)
<1>8. A \in Seq(Fields) /\ B \in Seq(Fields)
  BY <1>4, <1>7, OwnAdded
<1>9. /\ kv \o A \in Seq(Fields) /\ kv \o B \in Seq(Fields)
      /\ OutgoingHeaders(kv, body) = kv \o A /\ HeadersToSend(kv) = kv \o B
      /\ \A p \in Orders(kv \o A) :
            Layout(FirstLineOf(first), LinesOf(Listed(kv \o A, p)), body,
                   SendMessage(FirstLineOf(first), kv, body, p))
      /\ \A p \in Orders(kv \o B) :
            Layout(FirstLineOf(first), LinesOf(Listed(kv \o B, p)), <<>>,
                   SendHeaders(FirstLineOf(first), kv, p))
  BY <1>1, <1>4, <1>7, SendLaid
<1> HIDE DEF A, B
<1>10. /\ Carries(LinesOf(kv \o A), k \o A, <<>>) /\ DOMAIN (k \o A) = 1..Len(kv \o A)
       /\ Carries(LinesOf(kv \o B), k \o B, <<>>) /\ DOMAIN (k \o B) = 1..Len(kv \o B)
  BY <1>1, <1>3, <1>4, <1>6, <1>8, OwnCarries
<1>11. CASE IsUpgrade(first)
  <2> SUFFICES ASSUME NEW p \in Orders(kv \o B)
               PROVE  Brings(first, Listed(k \o B, p), <<>>, <<>>, SendHeaders(FirstLineOf(first), kv, p))
    BY <1>9, <1>11 DEF OutgoingOrders, Outgoing, k, kv, B
  <2>1. Carries(LinesOf(Listed(kv \o B, p)), Listed(k \o B, p), <<>>)
    BY <1>9, <1>10, ListedCarries
  <2> QED
    BY <1>1, <1>9, <2>1 DEF Brings
<1>12. CASE ~IsUpgrade(first)
  <2> SUFFICES ASSUME NEW p \in Orders(kv \o A)
               PROVE  Brings(first, Listed(k \o A, p), <<>>, body, SendMessage(FirstLineOf(first), kv, body, p))
    BY <1>9, <1>12 DEF OutgoingOrders, Outgoing, k, kv, A
  <2>1. Carries(LinesOf(Listed(kv \o A, p)), Listed(k \o A, p), <<>>)
    BY <1>9, <1>10, ListedCarries
  <2> QED
    BY <1>9, <2>1 DEF Brings
<1> QED
  BY <1>11, <1>12

\* What the proxy sends on.
LEMMA RelayBrings ==
    ASSUME NEW first \in Firsts, NEW kv \in Seq(Fields), NEW body \in Text,
           NEW p \in Orders(OutgoingHeaders(kv, body))
    PROVE  Brings(first, Listed(kv \o Added(kv, OwnLength(body)), p), <<>>, body,
                  SendMessage(FirstLineOf(first), kv, body, p))
<1> DEFINE A == Added(kv, OwnLength(body))
<1>1. FirstLineOf(first) \in Line
  BY FirstRead
<1>2. A \in Seq(Fields)
  BY OwnAdded
<1>3. /\ kv \o A \in Seq(Fields) /\ OutgoingHeaders(kv, body) = kv \o A
      /\ \A q \in Orders(kv \o A) :
            Layout(FirstLineOf(first), LinesOf(Listed(kv \o A, q)), body,
                   SendMessage(FirstLineOf(first), kv, body, q))
  BY <1>1, SendLaid
<1> HIDE DEF A
<1>4. \A i \in 1..Len(kv) : kv[i] \in Fields
  OBVIOUS
<1>5. \A i \in 1..Len(kv) : Carried(kv[i].name \o <<":", "SP">> \o kv[i].value, kv[i])
  BY <1>4, FieldCarried
<1>6. Carries(LinesOf(kv \o A), kv \o A, <<>>) /\ DOMAIN (kv \o A) = 1..Len(kv \o A)
  BY <1>2, <1>5, OwnCarries
<1>7. p \in Orders(kv \o A)
  BY <1>3
<1>8. Carries(LinesOf(Listed(kv \o A, p)), Listed(kv \o A, p), <<>>)
  BY <1>3, <1>6, <1>7, ListedCarries
<1>9. Layout(FirstLineOf(first), LinesOf(Listed(kv \o A, p)), body,
             SendMessage(FirstLineOf(first), kv, body, p))
  BY <1>3, <1>7
<1> QED
  BY <1>8, <1>9 DEF Brings, A

\* What a peer sends.
LEMMA PeerBrings ==
    ASSUME NEW m \in AllMessages, m.kind = "text"
    PROVE  Brings(m.of.first, m.of.fields, m.of.fold, m.of.body, PeerText(m.of))
<1> DEFINE t == m.of
           S == t.fields
           n == Len(S)
           O == OwnLines(t)
           L == PeerLines(t)
<1>1. /\ t.first \in Firsts /\ t.body \in Text /\ t.fields \in Seq(Lines) /\ t.fold \in Line
      /\ t.fold # <<>> => t.fold[1] \in White /\ n > 0
  BY MessageIs
<1> HIDE DEF t
<1>2. n \in Nat /\ DOMAIN S = 1..n /\ \A i \in 1..n : S[i] \in Lines
  BY <1>1
<1>3. FirstLineOf(t.first) \in Line
  BY <1>1, FirstRead
<1>4. DOMAIN O = 1..n /\ \A i \in 1..n : O[i] = S[i].name \o S[i].sep \o S[i].value
  BY <1>2 DEF OwnLines
<1>5. \A i \in 1..n : Carried(O[i], S[i])
  BY <1>2, <1>4, LineCarried
<1>6. O \in Seq(Line) /\ Len(O) = n
  <2>1. \A i \in 1..n : O[i] \in Line
    BY <1>5 DEF Carried
  <2>2. O = [i \in 1..n |-> O[i]]
    BY <1>4 DEF OwnLines
  <2> HIDE DEF O
  <2> QED
    BY <1>2, <2>1, <2>2
<1>7. L \in Seq(Line) /\ Layout(FirstLineOf(t.first), L, t.body, PeerText(t))
  BY <1>1, <1>3, <1>6, PeerLaid
<1>8. Carries(L, S, t.fold)
  <2>1. CASE t.fold = <<>>
    <3>1. L = O
      BY <2>1 DEF PeerLines
    <3> HIDE DEF O, L, S
    <3> QED
      BY <1>1, <1>2, <1>5, <1>6, <2>1, <3>1 DEF Carries
  <2>2. CASE t.fold # <<>>
    <3>1. L = Append(O, t.fold)
      BY <2>2 DEF PeerLines
    <3> HIDE DEF O, L, S
    <3>2. /\ Len(L) = n + 1 /\ L[n + 1] = t.fold
          /\ \A i \in 1..n : L[i] = O[i]
      BY <1>1, <1>6, <3>1, AppendProperties
    <3>3. \A i \in 1..n : Carried(L[i], S[i])
      BY <1>5, <3>2
    <3> QED
      BY <1>1, <1>2, <1>7, <2>2, <3>2, <3>3 DEF Carries, S
  <2> QED
    BY <2>1, <2>2
<1> HIDE DEF L, S
<1>9. Brings(t.first, S, t.fold, t.body, PeerText(t))
  BY <1>1, <1>7, <1>8 DEF Brings
<1> QED
  BY <1>9 DEF t, S

-----------------------------------------------------------------------------
\* Reading.

\* s is what txt has behind its first n characters.
Rest(txt, n, s) ==
    /\ txt \in Text /\ s \in Text /\ n \in Nat /\ Len(txt) = n + Len(s)
    /\ \A i \in 1..Len(s) : txt[n + i] = s[i]

\* Behind nothing there is all of a text.
LEMMA RestOfAll ==
    ASSUME NEW txt \in Text
    PROVE  Rest(txt, 0, txt)
BY DEF Rest, Text

\* The unread part of a text is a beginning of its rest.
LEMMA RestPart ==
    ASSUME NEW txt, NEW at \in Nat, NEW s, Rest(txt, at, s), NEW m \in Nat, at <= m, m <= Len(txt)
    PROVE  m - at \in Nat /\ m - at <= Len(s) /\ SubSeq(txt, at + 1, m) = SubSeq(s, 1, m - at)
<1>1. /\ txt \in Text /\ s \in Text /\ at \in Nat /\ Len(txt) = at + Len(s) /\ Len(s) \in Nat
      /\ \A i \in 1..Len(s) : txt[at + i] = s[i]
  BY DEF Rest, Text
<1> DEFINE d == m - at
           w == SubSeq(s, 1, d)
           b == at + 1
<1>2. d \in Nat /\ d <= Len(s) /\ (IF 1 <= d THEN (d - 1) + 1 ELSE 0) = d
      /\ b \in Nat \ {0} /\ m <= Len(txt) /\ (m + 1) - b = d
  BY <1>1
<1> HIDE DEF d
<1>3. w \in Text /\ Len(w) = d /\ \A i \in 1..Len(w) : w[i] = s[(1 + i) - 1]
  <2>1. 1 \in Nat \ {0} /\ d \in Nat /\ d <= Len(s)
    BY <1>2
  <2>2. (d - 1) + 1 = d /\ (1 <= d \/ d = 0)
    BY <2>1
  <2>3. /\ w \in Text
        /\ Len(w) = IF 1 <= d THEN (d - 1) + 1 ELSE 0
        /\ \A i \in 1..Len(w) : w[i] = s[(1 + i) - 1]
    BY <1>1, <2>1, PartOf
  <2> HIDE DEF w
  <2> QED
    BY <2>2, <2>3
<1> HIDE DEF w
<1>4. \A i \in 1..Len(w) : w[i] = txt[(b + i) - 1]
  <2> SUFFICES ASSUME NEW i \in 1..Len(w) PROVE w[i] = txt[(b + i) - 1]
    OBVIOUS
  <2>1. (1 + i) - 1 = i /\ (b + i) - 1 = at + i /\ i \in 1..Len(s)
    BY <1>1, <1>2, <1>3
  <2> QED
    BY <1>1, <1>3, <2>1
<1> HIDE DEF b
<1>5. SubSeq(txt, b, m) = w
  <2>1. Len(w) = (m + 1) - b
    BY <1>2, <1>3
  <2> QED
    BY <1>1, <1>2, <1>3, <1>4, <2>1, PartIs
<1> QED
  BY <1>2, <1>5 DEF b, w, d

\* The rest behind a piece of the rest.
LEMMA RestNext ==
    ASSUME NEW txt, NEW at, NEW u \in Text, NEW s \in Text, Rest(txt, at, u \o s)
    PROVE  Rest(txt, at + Len(u), s)
<1>1. /\ txt \in Text /\ at \in Nat /\ Len(txt) = at + Len(u \o s)
      /\ \A i \in 1..Len(u \o s) : txt[at + i] = (u \o s)[i]
  BY DEF Rest
<1>2. /\ Len(u) \in Nat /\ Len(s) \in Nat /\ Len(u \o s) = Len(u) + Len(s)
      /\ \A i \in 1..Len(s) : (u \o s)[Len(u) + i] = s[i]
  BY Both
<1>3. ASSUME NEW i \in 1..Len(s) PROVE txt[(at + Len(u)) + i] = s[i]
  <2>1. Len(u) + i \in 1..Len(u \o s) /\ (at + Len(u)) + i = at + (Len(u) + i)
    BY <1>1, <1>2
  <2> QED
    BY <1>1, <1>2, <2>1
<1>4. at + Len(u) \in Nat /\ Len(txt) = (at + Len(u)) + Len(s)
  BY <1>1, <1>2
<1> QED
  BY <1>1, <1>3, <1>4 DEF Rest

\* A line is read only when it has all arrived.
LEMMA LineRead ==
    ASSUME NEW txt, NEW at, NEW line \in Line, NEW s \in Text, Rest(txt, at, (line \o CRLF) \o s),
           NEW m \in Nat, at <= m, m <= Len(txt), LineLength(SubSeq(txt, at + 1, m)) # 0
    PROVE  LET part == SubSeq(txt, at + 1, m) IN
           /\ GetLine(part) = line /\ LineLength(part) \in Nat /\ at + LineLength(part) <= m
           /\ Rest(txt, at + LineLength(part), s)
<1> DEFINE u == line \o CRLF
           all == u \o s
           d == m - at
           part == SubSeq(txt, at + 1, m)
<1>1. u \in Text /\ line \in Text /\ Len(u) = Len(line) + 2 /\ Len(line) \in Nat
  <2>1. line \in Text /\ CRLF \in Text /\ Len(CRLF) = 2
    BY LineText, CRLFText
  <2>2. Len(line) \in Nat /\ line \o CRLF \in Text /\ Len(line \o CRLF) = Len(line) + Len(CRLF)
    BY <2>1, Both
  <2> QED
    BY <2>1, <2>2
<1>2. at \in Nat /\ Rest(txt, at, all)
  BY DEF Rest
<1>3. d \in Nat /\ d <= Len(all) /\ part = SubSeq(all, 1, d)
  <2> HIDE DEF all
  <2>1. m - at \in Nat /\ m - at <= Len(all) /\ SubSeq(txt, at + 1, m) = SubSeq(all, 1, m - at)
    BY <1>2, RestPart
  <2> QED
    BY <2>1
<1>4. /\ d < Len(line) + 2 => LineLength(part) = 0
      /\ d >= Len(line) + 2 => LineLength(part) = Len(line) + 2 /\ GetLine(part) = line
  <2> HIDE DEF d, part
  <2>1. LET q == SubSeq((line \o CRLF) \o s, 1, d) IN
        /\ d < Len(line) + 2 => LineLength(q) = 0
        /\ d >= Len(line) + 2 => LineLength(q) = Len(line) + 2 /\ GetLine(q) = line
    BY <1>3, LineCut
  <2> QED
    BY <1>3, <2>1
<1>6. LineLength(part) # 0
  OBVIOUS
<1> HIDE DEF part
<1>7. d >= Len(line) + 2
  BY <1>1, <1>3, <1>4, <1>6
<1>8. LineLength(part) = Len(u) /\ GetLine(part) = line
  BY <1>1, <1>4, <1>7
<1> HIDE DEF u
<1>9. Rest(txt, at + Len(u), s)
  <2>1. Rest(txt, at, u \o s)
    BY <1>2
  <2> QED
    BY <1>1, <2>1, RestNext
<1>10. at + Len(u) <= m /\ Len(u) \in Nat
  BY <1>1, <1>2, <1>7
<1> QED
  BY <1>8, <1>9, <1>10 DEF part

\* The fields read after k of the lines.
SomeContinued(H, S, fold) ==
    \E t \in 1..Len(S) :
        /\ AsciiLower(S[t].name) = AsciiLower(S[Len(S)].name)
        /\ \A i \in 1..Len(S) : i # t => ReadAs(S[i], H[i].value)
        /\ \E v \in Line : H[t].value = v \o fold /\ ReadAs(S[t], v)

ReadSoFar(H, last, S, fold, k) ==
    /\ H \in Seq(Fields) /\ Len(S) \in Nat /\ k \in Nat
    /\ Len(H) = IF k <= Len(S) THEN k ELSE Len(S)
    /\ \A i \in 1..Len(H) : H[i].name = AsciiLower(S[i].name) /\ S[i].name \in Name
    /\ k = 0 => last = <<>>
    /\ k <= Len(S) => /\ \A i \in 1..k : ReadAs(S[i], H[i].value)
                      /\ k > 0 => last = AsciiLower(S[k].name)
    /\ k > Len(S) => SomeContinued(H, S, fold)

\* Before the first header nothing has been read.
LEMMA NothingSoFar ==
    ASSUME NEW S, Len(S) \in Nat, NEW fold
    PROVE  ReadSoFar(<<>>, <<>>, S, fold, 0)
BY DEF ReadSoFar

\* headerLine
LEMMA FieldRead ==
    ASSUME NEW H, NEW last, NEW S, NEW fold, NEW k, ReadSoFar(H, last, S, fold, k), k < Len(S),
           NEW line, Carried(line, S[k + 1])
    PROVE  LET h == HeaderLine(line) IN
           ReadSoFar(HeadersAdd(H, h.name, h.value), h.name, S, fold, k + 1)
<1> DEFINE h == HeaderLine(line)
           G == HeadersAdd(H, h.name, h.value)
<1>1. h \in Fields /\ h.name = AsciiLower(S[k + 1].name) /\ ReadAs(S[k + 1], h.value) /\ S[k + 1].name \in Name
  BY DEF Carried
<1> HIDE DEF h
<1>2. Field(h.name, h.value) = h
  BY <1>1 DEF Field, Fields
<1>3. /\ H \in Seq(Fields) /\ Len(S) \in Nat /\ k \in Nat /\ Len(H) = k
      /\ \A i \in 1..k : H[i].name = AsciiLower(S[i].name) /\ S[i].name \in Name /\ ReadAs(S[i], H[i].value)
  BY DEF ReadSoFar
<1>4. G = Append(H, h)
  BY <1>2 DEF HeadersAdd
<1> HIDE DEF G
<1>5. /\ G \in Seq(Fields) /\ Len(G) = k + 1 /\ G[k + 1] = h
      /\ \A i \in 1..k : G[i] = H[i]
  BY <1>1, <1>3, <1>4, AppendProperties
<1>6. \A i \in 1..(k + 1) : G[i].name = AsciiLower(S[i].name) /\ S[i].name \in Name /\ ReadAs(S[i], G[i].value)
  <2>1. \A i \in 1..(k + 1) : i \in 1..k \/ i = k + 1
    BY <1>3
  <2> QED
    BY <1>1, <1>3, <1>5, <2>1
<1>7. k + 1 \in Nat /\ k + 1 <= Len(S) /\ k + 1 # 0 /\ ~(k + 1 > Len(S))
  BY <1>3
<1>8. ReadSoFar(G, h.name, S, fold, k + 1)
  BY <1>1, <1>3, <1>5, <1>6, <1>7 DEF ReadSoFar
<1> QED
  BY <1>8 DEF G, h

\* headerContinuation: find may return any field of the name.
LEMMA FieldContinued ==
    ASSUME NEW H, NEW last, NEW S, NEW fold \in Line, ReadSoFar(H, last, S, fold, Len(S)), Len(S) > 0,
           NEW t \in Find(H, last), NEW K, K = [H EXCEPT ![t].value = @ \o fold]
    PROVE  ReadSoFar(K, last, S, fold, Len(S) + 1)
<1> DEFINE n == Len(S)
<1>1. /\ H \in Seq(Fields) /\ n \in Nat /\ Len(H) = n /\ n > 0
      /\ \A i \in 1..n : H[i].name = AsciiLower(S[i].name) /\ S[i].name \in Name /\ ReadAs(S[i], H[i].value)
      /\ last = AsciiLower(S[n].name)
  BY DEF ReadSoFar
<1> HIDE DEF n
<1>2. DOMAIN H = 1..n /\ t \in 1..n /\ n \in 1..n /\ AsciiLower(H[t].name) = AsciiLower(last)
  BY <1>1 DEF Find, SameName
<1>3. AsciiLower(S[t].name) = AsciiLower(S[n].name)
  BY <1>1, <1>2, LowerName
<1>4. \A i \in 1..n : H[i] \in Fields /\ H[i].value \in Line
  <2>1. \A i \in 1..n : H[i] \in Fields
    BY <1>1
  <2> QED
    BY <2>1 DEF Fields
<1> DEFINE v == H[t].value
           g == [H[t] EXCEPT !.value = v \o fold]
<1>5. v \o fold \in Line
  <2>1. v \in Line
    BY <1>2, <1>4
  <2> HIDE DEF v
  <2> QED
    BY <2>1, ConcatProperties DEF Line
<1>6. g \in Fields /\ g.name = H[t].name /\ g.value = v \o fold
  <2>1. H[t] \in Fields
    BY <1>2, <1>4
  <2> HIDE DEF v
  <2> QED
    BY <1>5, <2>1 DEF Fields
<1>7. K = [H EXCEPT ![t] = g]
  OBVIOUS
<1> HIDE DEF g
<1>8. /\ DOMAIN K = 1..n /\ K[t] = g /\ \A i \in 1..n : i # t => K[i] = H[i]
  BY <1>2, <1>7
<1>9. K \in Seq(Fields) /\ Len(K) = n
  <2>1. [H EXCEPT ![t] = g] \in Seq(Fields) /\ Len([H EXCEPT ![t] = g]) = Len(H)
    <3>1. t \in 1..Len(H)
      BY <1>1, <1>2
    <3> QED
      BY <1>1, <1>6, <3>1, ExceptSeq
  <2> QED
    BY <1>1, <1>7, <2>1
<1>10. \A i \in 1..n : K[i].name = AsciiLower(S[i].name) /\ S[i].name \in Name
  BY <1>1, <1>6, <1>8
<1>11. SomeContinued(K, S, fold)
  <2>1. \A i \in 1..n : i # t => ReadAs(S[i], K[i].value)
    BY <1>1, <1>8
  <2>2. K[t].value = v \o fold /\ ReadAs(S[t], v) /\ v \in Line
    BY <1>1, <1>2, <1>4, <1>6, <1>8
  <2> HIDE DEF v
  <2> QED
    BY <1>2, <1>3, <2>1, <2>2 DEF SomeContinued, n
<1>12. n + 1 \in Nat /\ ~(n + 1 <= n) /\ n + 1 > n /\ n + 1 # 0
  BY <1>1
<1> QED
  BY <1>1, <1>9, <1>10, <1>11, <1>12 DEF ReadSoFar, n

\* All lines have been read.
ReadAll(H, S, fold) ==
    /\ H \in Seq(Fields) /\ Len(S) \in Nat /\ Len(H) = Len(S)
    /\ \A i \in 1..Len(S) : H[i].name = AsciiLower(S[i].name) /\ S[i].name \in Name
    /\ Len(S) > 0 => SomeContinued(H, S, fold)
    /\ fold \in Line /\ (fold # <<>> => fold[1] \in White)

\* Once all lines are read so are all fields.
LEMMA AllRead ==
    ASSUME NEW L, NEW S, NEW fold, NEW H, NEW last, Carries(L, S, fold),
           ReadSoFar(H, last, S, fold, Len(L))
    PROVE  ReadAll(H, S, fold)
<1> DEFINE n == Len(S)
<1>1. /\ n \in Nat /\ fold \in Line
      /\ fold = <<>> => Len(L) = n
      /\ fold # <<>> => fold[1] \in White /\ n > 0 /\ Len(L) = n + 1
  BY DEF Carries
<1>2. /\ H \in Seq(Fields)
      /\ Len(H) = IF Len(L) <= n THEN Len(L) ELSE n
      /\ \A i \in 1..Len(H) : H[i].name = AsciiLower(S[i].name) /\ S[i].name \in Name
      /\ Len(L) <= n => \A i \in 1..Len(L) : ReadAs(S[i], H[i].value)
      /\ Len(L) > n => SomeContinued(H, S, fold)
  BY DEF ReadSoFar
<1> HIDE DEF n
<1>3. Len(H) = n
  BY <1>1, <1>2
<1>4. ASSUME n > 0 PROVE SomeContinued(H, S, fold)
  <2>1. CASE fold # <<>>
    <3>1. Len(L) > n
      BY <1>1, <2>1
    <3> QED
      BY <1>2, <3>1
  <2>2. CASE fold = <<>>
    <3>1. Len(L) = n /\ Len(L) <= n /\ n \in 1..n
      BY <1>1, <1>4, <2>2
    <3>2. \A i \in 1..n : ReadAs(S[i], H[i].value)
      BY <1>2, <3>1
    <3> DEFINE v == H[n].value
    <3>3. v \in Line
      <4>1. H[n] \in Fields
        BY <1>2, <1>3, <3>1
      <4> QED
        BY <4>1 DEF Fields
    <3>4. H[n].value = v \o fold
      <4>1. v \o <<>> = v
        <5> HIDE DEF v
        <5> QED
          BY <3>3, ConcatEmptySeq DEF Line
      <4> QED
        BY <2>2, <4>1
    <3>5. ReadAs(S[n], v)
      BY <3>1, <3>2
    <3> HIDE DEF v
    <3> QED
      BY <3>1, <3>2, <3>3, <3>4, <3>5 DEF SomeContinued, n
  <2> QED
    BY <2>1, <2>2
<1> QED
  BY <1>1, <1>2, <1>3, <1>4 DEF ReadAll, n

\* std::stoul of a length that is read, continued or not, is the length that was written.
LEMMA NumberValue ==
    ASSUME NEW n \in Nat, NEW f, ~Tight(f), f.value = Decimal[n], NEW v, ReadAs(f, v),
           NEW fold \in Line, fold # <<>> => fold[1] \in White
    PROVE  Stoul(v \o fold) = n
<1> DEFINE d == Decimal[n]
<1>1. d \in Text /\ Len(d) \in Nat /\ Len(d) > 0 /\ \A i \in 1..Len(d) : d[i] \in Ten
  BY DecimalLine
<1>2. Ten \cap White = {}
  BY DigitIs
<1> HIDE DEF d
<1>3. d # <<>> /\ d[1] \notin White /\ Last(d) \notin White
  <2>1. 1 \in 1..Len(d) /\ Len(d) \in 1..Len(d) /\ d # <<>>
    BY <1>1
  <2>2. d[1] \in Ten /\ d[Len(d)] \in Ten
    BY <1>1, <2>1
  <2> QED
    BY <1>2, <2>1, <2>2 DEF Last
<1>4. Core(d) = d
  BY <1>1, <1>3, CoreIs
<1>5. f.value = d
  BY DEF d
<1>6. v = d
  BY <1>3, <1>4, <1>5, ReadAsIs
<1>7. fold \in Text /\ (fold = <<>> \/ fold[1] \in White)
  BY LineText
<1> QED
  BY <1>6, <1>7, StoulIs DEF d

\* getContentLength of the headers read (HTTP1.cpp).
LEMMA LengthRead ==
    ASSUME NEW H, NEW S, NEW fold, ReadAll(H, S, fold), NEW body \in Text,
           NEW n \in GetContentLength(H), n # Throws
    PROVE  LET own == {i \in 1..Len(S) : AsciiLower(S[i].name) = <<"content-length">>} IN
           /\ own = {} => n \in {0, -1}
           /\ \A i \in own : own = {i} /\ ~Tight(S[i]) /\ S[i].value = Decimal[Len(body)]
                                 => n = Len(body)
<1> DEFINE name == <<"content-length">>
           found == Find(H, name)
           own == {i \in 1..Len(S) : AsciiLower(S[i].name) = name}
<1>1. /\ H \in Seq(Fields) /\ Len(S) \in Nat /\ Len(H) = Len(S) /\ DOMAIN H = 1..Len(S)
      /\ \A i \in 1..Len(S) : H[i].name = AsciiLower(S[i].name) /\ S[i].name \in Name
      /\ Len(S) > 0 => SomeContinued(H, S, fold)
      /\ fold \in Line /\ (fold # <<>> => fold[1] \in White)
  BY DEF ReadAll
<1>2. AsciiLower(name) = name
  BY OwnName DEF OwnNames
<1> HIDE DEF name
<1>3. found = own
  <2>1. \A i \in 1..Len(S) : AsciiLower(H[i].name) = AsciiLower(S[i].name)
    BY <1>1, LowerName
  <2> QED
    BY <1>1, <1>2, <2>1 DEF Find, SameName
<1>4. ASSUME own = {} PROVE n \in {0, -1}
  <2>1. Find(H, <<"content-length">>) = {}
    BY <1>3, <1>4 DEF name
  <2> QED
    BY <2>1 DEF GetContentLength
<1>5. ASSUME NEW i \in own, own = {i}, ~Tight(S[i]), S[i].value = Decimal[Len(body)]
      PROVE  n = Len(body)
  <2>1. Find(H, <<"content-length">>) = {i}
    BY <1>3, <1>5 DEF name
  <2>2. n = Stoul(H[i].value)
    BY <2>1 DEF GetContentLength
  <2>3. i \in 1..Len(S) /\ Len(S) > 0 /\ Len(body) \in Nat
    BY <1>1 DEF Text
  <2>4. PICK t \in 1..Len(S) :
          /\ \A j \in 1..Len(S) : j # t => ReadAs(S[j], H[j].value)
          /\ \E v \in Line : H[t].value = v \o fold /\ ReadAs(S[t], v)
    BY <1>1, <2>3 DEF SomeContinued
  <2>5. CASE i = t
    <3>1. PICK v \in Line : H[i].value = v \o fold /\ ReadAs(S[i], v)
      BY <2>4, <2>5
    <3>2. Stoul(v \o fold) = Len(body)
      BY <1>1, <1>5, <2>3, <3>1, NumberValue
    <3> QED
      BY <2>2, <3>1, <3>2
  <2>6. CASE i # t
    <3> DEFINE v == H[i].value
    <3>1. ReadAs(S[i], v)
      BY <2>3, <2>4, <2>6
    <3>2. v \in Line /\ <<>> \in Line
      <4>1. H[i] \in Fields
        BY <1>1, <2>3
      <4> QED
        BY <4>1 DEF Fields, Line
    <3> HIDE DEF v
    <3>3. Stoul(v \o <<>>) = Len(body)
      BY <1>5, <2>3, <3>1, <3>2, NumberValue
    <3>4. v \o <<>> = v
      BY <3>2, ConcatEmptySeq DEF Line
    <3> QED
      BY <2>2, <3>3, <3>4 DEF v
  <2> QED
    BY <2>5, <2>6
<1> QED
  BY <1>4, <1>5 DEF name

-----------------------------------------------------------------------------
\* The invariant: what has been read and what is left to read make up the text
\* of the fields that were sent.

Whole(m) == m = [state |-> m.state, line |-> m.line, headers |-> m.headers, last |-> m.last,
                 length |-> m.length, first |-> m.first, body |-> m.body]

\* All headers have been read, and the length of the body.
HeadersRead(m, S, fold) ==
    ReadAll(m.headers, S, fold) /\ m.length \in GetContentLength(m.headers) /\ m.length # Throws

\* m is what is made of the text txt up to at, which is that of the fields S with
\* the continuation fold.  L are the lines of the headers and r[k] what follows k of them.
Reading(L, r, body, S, fold, first, txt, at, m) ==
    /\ Whole(m) /\ first \in Firsts
    /\ Carries(L, S, fold) /\ body \in Text /\ Tails(r, L, CRLF \o body)
    /\ \/ m = NothingRead /\ Rest(txt, at, (FirstLineOf(first) \o CRLF) \o r[0])
       \/ /\ m.state = "headers" /\ m.line = FirstLineOf(first)
          /\ m.body = <<>> /\ m.length = 0
          /\ \E k \in 0..Len(L) : Rest(txt, at, r[k]) /\ ReadSoFar(m.headers, m.last, S, fold, k)
       \/ m.state \in {"threw", "overfull"}
       \/ /\ m.state = "body" /\ m.line = FirstLineOf(first) /\ Rest(txt, at, body)
          /\ HeadersRead(m, S, fold)
       \/ /\ m.state = "done" /\ m.first = first /\ HeadersRead(m, S, fold)
          /\ m.body \in Text /\ Len(m.body) = m.length /\ IsPrefix(m.body, body)

\* What processInput may make of a line of the headers.
HeaderOutcomes(m, line) ==
    CASE line = <<>> -> EndOfHeaders(m)
      [] line # <<>> /\ line[1] \in White -> Continued(m, line)
      [] OTHER -> {WithHeader(m, line)}

\* What follows k lines is a line and what follows k + 1 of them.
LEMMA TailStep ==
    ASSUME NEW L \in Seq(Line), NEW tail \in Text, NEW r, Tails(r, L, tail), NEW k \in 0..Len(L)
    PROVE  /\ r[k] \in Text /\ Len(L) \in Nat
           /\ k < Len(L) => /\ r[k] = (L[k + 1] \o CRLF) \o r[k + 1] /\ L[k + 1] \in Line
                            /\ k + 1 \in 0..Len(L) /\ r[k + 1] \in Text
           /\ k = Len(L) => r[k] = tail
<1>1. Len(L) \in Nat /\ \A i \in 1..Len(L) : L[i] \in Line
  OBVIOUS
<1>2. /\ \A i \in 0..Len(L) : r[i] \in Text
      /\ r[Len(L)] = tail
      /\ \A i \in 0..(Len(L) - 1) : r[i] = (L[i + 1] \o CRLF) \o r[i + 1]
  BY DEF Tails
<1>3. ASSUME k < Len(L) PROVE k \in 0..(Len(L) - 1) /\ k + 1 \in 0..Len(L) /\ k + 1 \in 1..Len(L)
  BY <1>1, <1>3
<1> QED
  BY <1>1, <1>2, <1>3

\* The first line.
LEMMA FirstLineStep ==
    ASSUME NEW L, NEW r, NEW body, NEW S, NEW fold, NEW first, NEW txt, NEW at \in Nat,
           Reading(L, r, body, S, fold, first, txt, at, NothingRead), NEW arrived \in Nat,
           at <= arrived, arrived <= Len(txt), NEW part, part = SubSeq(txt, at + 1, arrived),
           LineLength(part) # 0, NEW mm,
           mm = [NothingRead EXCEPT !.state = "headers", !.line = GetLine(part)]
    PROVE  /\ Reading(L, r, body, S, fold, first, txt, at + LineLength(part), mm)
           /\ LineLength(part) \in Nat /\ at + LineLength(part) <= arrived
<1>1. /\ first \in Firsts /\ Carries(L, S, fold) /\ body \in Text /\ Tails(r, L, CRLF \o body)
      /\ Rest(txt, at, (FirstLineOf(first) \o CRLF) \o r[0])
  BY DEF Reading, NothingRead
<1>2. CRLF \o body \in Text
  BY <1>1, CRLFText, Both
<1>3. L \in Seq(Line) /\ Len(L) \in Nat /\ Len(S) \in Nat
  BY <1>1 DEF Carries
<1>4. r[0] \in Text /\ 0 \in 0..Len(L)
  <2>1. 0 \in 0..Len(L)
    BY <1>3
  <2>2. r \in [0..Len(L) -> Text]
    BY <1>1 DEF Tails
  <2> QED
    BY <2>1, <2>2
<1>5. FirstLineOf(first) \in Line
  BY <1>1, FirstRead
<1>6. /\ GetLine(part) = FirstLineOf(first) /\ LineLength(part) \in Nat
      /\ at + LineLength(part) <= arrived /\ Rest(txt, at + LineLength(part), r[0])
  BY <1>1, <1>4, <1>5, LineRead
<1>7. /\ Whole(mm) /\ mm.state = "headers" /\ mm.line = FirstLineOf(first)
      /\ mm.headers = <<>> /\ mm.last = <<>> /\ mm.body = <<>> /\ mm.length = 0
  BY <1>6 DEF NothingRead, Whole
<1>8. ReadSoFar(mm.headers, mm.last, S, fold, 0)
  BY <1>3, <1>7, NothingSoFar
<1> QED
  BY <1>1, <1>4, <1>6, <1>7, <1>8 DEF Reading

\* A line of the headers.
LEMMA HeaderLineStep ==
    ASSUME NEW L, NEW r, NEW body, NEW S, NEW fold, NEW first, NEW txt, NEW at \in Nat, NEW m,
           Reading(L, r, body, S, fold, first, txt, at, m), m.state = "headers",
           NEW k \in 0..Len(L), Rest(txt, at, r[k]), ReadSoFar(m.headers, m.last, S, fold, k),
           k < Len(L), NEW arrived \in Nat,
           at <= arrived, arrived <= Len(txt), NEW part, part = SubSeq(txt, at + 1, arrived),
           LineLength(part) # 0, NEW line, line = GetLine(part), NEW mm,
           mm \in HeaderOutcomes(m, line)
    PROVE  /\ Reading(L, r, body, S, fold, first, txt, at + LineLength(part), mm)
           /\ LineLength(part) \in Nat /\ at + LineLength(part) <= arrived
<1>1. /\ first \in Firsts /\ Carries(L, S, fold) /\ body \in Text /\ Tails(r, L, CRLF \o body)
      /\ Whole(m) /\ m.line = FirstLineOf(first) /\ m.body = <<>> /\ m.length = 0
  BY DEF Reading, NothingRead
<1>2. CRLF \o body \in Text
  BY <1>1, CRLFText, Both
<1>3. /\ L \in Seq(Line) /\ Len(L) \in Nat /\ Len(S) \in Nat /\ fold \in Line
      /\ \A i \in 1..Len(S) : Carried(L[i], S[i])
      /\ fold = <<>> => Len(L) = Len(S)
      /\ fold # <<>> => /\ fold[1] \in White /\ Len(S) > 0
                        /\ Len(L) = Len(S) + 1 /\ L[Len(S) + 1] = fold
  BY <1>1 DEF Carries
<1>4. /\ r[k] = (L[k + 1] \o CRLF) \o r[k + 1] /\ L[k + 1] \in Line
      /\ k + 1 \in 0..Len(L) /\ r[k + 1] \in Text
  BY <1>1, <1>2, <1>3, TailStep
<1>5. /\ line = L[k + 1] /\ LineLength(part) \in Nat
      /\ at + LineLength(part) <= arrived /\ Rest(txt, at + LineLength(part), r[k + 1])
  <2> DEFINE now == L[k + 1]
             more == r[k + 1]
  <2>1. Rest(txt, at, (now \o CRLF) \o more) /\ now \in Line /\ more \in Text
    BY <1>4
  <2> HIDE DEF now, more
  <2>2. /\ GetLine(part) = now /\ LineLength(part) \in Nat
        /\ at + LineLength(part) <= arrived /\ Rest(txt, at + LineLength(part), more)
    BY <2>1, LineRead
  <2> QED
    BY <2>2 DEF now, more
<1>6. CASE k < Len(S)
  <2> DEFINE h == HeaderLine(line)
  <2>1. k + 1 \in 1..Len(S)
    BY <1>3, <1>6
  <2>2. Carried(line, S[k + 1])
    BY <1>3, <1>5, <2>1
  <2>3. line # <<>> /\ line[1] \notin White /\ Contains(line, ":")
    BY <2>2 DEF Carried
  <2>4. mm = WithHeader(m, line)
    BY <2>3 DEF HeaderOutcomes
  <2>5. mm = [m EXCEPT !.last = h.name, !.headers = HeadersAdd(@, h.name, h.value)]
    BY <2>3, <2>4 DEF WithHeader
  <2>6. ReadSoFar(HeadersAdd(m.headers, h.name, h.value), h.name, S, fold, k + 1)
    BY <1>6, <2>2, FieldRead
  <2> HIDE DEF h
  <2>7. /\ Whole(mm) /\ mm.state = "headers" /\ mm.line = m.line /\ mm.last = h.name
        /\ mm.body = m.body /\ mm.length = m.length
        /\ mm.headers = HeadersAdd(m.headers, h.name, h.value)
    BY <1>1, <2>5 DEF Whole
  <2> QED
    BY <1>1, <1>4, <1>5, <2>6, <2>7 DEF Reading
<1>7. CASE ~(k < Len(S))
  <2>1. k = Len(S) /\ fold # <<>> /\ line = fold /\ line[1] \in White /\ Len(S) > 0
    BY <1>3, <1>5, <1>7
  <2>2. mm \in Continued(m, fold)
    BY <2>1 DEF HeaderOutcomes
  <2>3. m.last # <<>>
    <3>1. /\ m.last = AsciiLower(S[k].name) /\ S[k].name \in Name
      BY <2>1 DEF ReadSoFar
    <3> QED
      BY <3>1, LowerName DEF Name
  <2>4. PICK t \in Find(m.headers, m.last) : mm = [m EXCEPT !.headers[t].value = @ \o fold]
    BY <2>2, <2>3 DEF Continued
  <2> DEFINE K == [m.headers EXCEPT ![t].value = @ \o fold]
  <2>5. ReadSoFar(K, m.last, S, fold, k + 1)
    BY <1>3, <2>1, FieldContinued
  <2>6. mm = [m EXCEPT !.headers = K]
    BY <2>4
  <2> HIDE DEF K
  <2>7. /\ Whole(mm) /\ mm.state = "headers" /\ mm.line = m.line /\ mm.last = m.last
        /\ mm.body = m.body /\ mm.length = m.length
        /\ mm.headers = K
    BY <1>1, <2>6 DEF Whole
  <2> QED
    BY <1>1, <1>4, <1>5, <2>5, <2>7 DEF Reading
<1> QED
  BY <1>5, <1>6, <1>7

\* Nothing begins every text.
LEMMA NothingBegins ==
    ASSUME NEW body \in Text
    PROVE  <<>> \in Text /\ Len(<<>>) = 0 /\ IsPrefix(<<>>, body)
<1>1. <<>> \in Text /\ Len(<<>>) = 0
  BY DEF Text
<1>2. Len(body) \in Nat
  BY DEF Text
<1>3. Len(<<>>) <= Len(body) /\ \A i \in 1..Len(<<>>) : <<>>[i] = body[i]
  BY <1>1, <1>2
<1> QED
  BY <1>1, <1>3, Beginning

\* handleMessage, of a message that is complete.
LEMMA HandledIs ==
    ASSUME NEW L, NEW r, NEW body, NEW S, NEW fold, NEW first, NEW txt, NEW at, NEW m,
           first \in Firsts, Carries(L, S, fold), body \in Text, Tails(r, L, CRLF \o body),
           first = message.of.first, Whole(m), m.line = FirstLineOf(first),
           HeadersRead(m, S, fold), m.body \in Text, Len(m.body) = m.length, IsPrefix(m.body, body)
    PROVE  Reading(L, r, body, S, fold, first, txt, at, Handled(m))
<1> DEFINE mm == Handled(m)
<1>1. (IF message.of.first.kind = "request" THEN ParseRequestLine(m.line)
       ELSE ParseStatusLine(m.line)) = first
  BY FirstRead
<1>2. mm = [m EXCEPT !.state = IF first = MalformedLine THEN "threw" ELSE "done", !.first = first]
  BY <1>1 DEF Handled
<1>3. /\ Whole(mm) /\ mm.state \in {"threw", "done"} /\ mm.first = first
      /\ mm.headers = m.headers /\ mm.length = m.length /\ mm.body = m.body
  BY <1>2 DEF Whole
<1> HIDE DEF mm
<1>4. HeadersRead(mm, S, fold)
  BY <1>3 DEF HeadersRead
<1>5. Reading(L, r, body, S, fold, first, txt, at, mm)
  BY <1>3, <1>4 DEF Reading
<1> QED
  BY <1>5 DEF mm

\* The empty line behind them.
LEMMA EmptyLineStep ==
    ASSUME NEW L, NEW r, NEW body, NEW S, NEW fold, NEW first, NEW txt, NEW at \in Nat, NEW m,
           Reading(L, r, body, S, fold, first, txt, at, m), m.state = "headers",
           first = message.of.first,
           NEW k \in 0..Len(L), Rest(txt, at, r[k]), ReadSoFar(m.headers, m.last, S, fold, k),
           ~(k < Len(L)), NEW arrived \in Nat,
           at <= arrived, arrived <= Len(txt), NEW part, part = SubSeq(txt, at + 1, arrived),
           LineLength(part) # 0, NEW line, line = GetLine(part), NEW mm,
           mm \in HeaderOutcomes(m, line)
    PROVE  /\ Reading(L, r, body, S, fold, first, txt, at + LineLength(part), mm)
           /\ LineLength(part) \in Nat /\ at + LineLength(part) <= arrived
<1>1. /\ first \in Firsts /\ Carries(L, S, fold) /\ body \in Text /\ Tails(r, L, CRLF \o body)
      /\ Whole(m) /\ m.line = FirstLineOf(first) /\ m.body = <<>> /\ m.length = 0
  BY DEF Reading, NothingRead
<1>2. CRLF \o body \in Text
  BY <1>1, CRLFText, Both
<1>3. L \in Seq(Line) /\ Len(L) \in Nat
  BY <1>1 DEF Carries
<1>4. k = Len(L) /\ r[k] = CRLF \o body
  <2>1. k = Len(L)
    BY <1>3
  <2> QED
    BY <1>1, <2>1 DEF Tails
<1>5. /\ line = <<>> /\ LineLength(part) \in Nat /\ at + LineLength(part) <= arrived
      /\ Rest(txt, at + LineLength(part), body)
  <2>1. <<>> \in Line /\ <<>> \o CRLF = CRLF
    BY CRLFText, ConcatEmptySeq DEF Line, Text
  <2>2. Rest(txt, at, (<<>> \o CRLF) \o body)
    BY <1>4, <2>1
  <2>3. LET q == SubSeq(txt, at + 1, arrived) IN
        /\ GetLine(q) = <<>> /\ LineLength(q) \in Nat /\ at + LineLength(q) <= arrived
        /\ Rest(txt, at + LineLength(q), body)
    BY <1>1, <2>1, <2>2, LineRead
  <2> QED
    BY <2>3
<1>6. mm \in EndOfHeaders(m)
  BY <1>5 DEF HeaderOutcomes
<1>7. PICK n \in GetContentLength(m.headers) :
         mm = IF n = Throws THEN [m EXCEPT !.state = "threw"]
              ELSE IF n = 0 THEN Handled(m)
              ELSE [m EXCEPT !.state = "body", !.length = n]
  BY <1>6 DEF EndOfHeaders
<1>8. ReadAll(m.headers, S, fold)
  BY <1>1, <1>4, AllRead
<1>9. CASE n = Throws
  <2>1. mm = [m EXCEPT !.state = "threw"]
    BY <1>7, <1>9
  <2>2. Whole(mm) /\ mm.state = "threw"
    BY <1>1, <2>1 DEF Whole
  <2> QED
    BY <1>1, <1>5, <2>2 DEF Reading
<1>10. CASE n # Throws /\ n = 0
  <2>1. mm = Handled(m)
    BY <1>7, <1>10
  <2>2. m.length = 0
    BY <1>1
  <2>3. HeadersRead(m, S, fold)
    BY <1>7, <1>8, <1>10, <2>2 DEF HeadersRead
  <2>4. <<>> \in Text /\ Len(<<>>) = 0 /\ IsPrefix(<<>>, body)
    BY <1>1, NothingBegins
  <2> QED
    BY <1>1, <1>5, <2>1, <2>2, <2>3, <2>4, HandledIs
<1>11. CASE n # Throws /\ n # 0
  <2>1. mm = [m EXCEPT !.state = "body", !.length = n]
    BY <1>7, <1>11
  <2>2. /\ Whole(mm) /\ mm.state = "body" /\ mm.line = FirstLineOf(first)
        /\ mm.headers = m.headers /\ mm.length = n
    BY <1>1, <2>1 DEF Whole
  <2>3. HeadersRead(mm, S, fold)
    BY <1>7, <1>8, <1>11, <2>2 DEF HeadersRead
  <2> QED
    BY <1>1, <1>5, <2>2, <2>3 DEF Reading
<1> QED
  BY <1>9, <1>10, <1>11

\* What has arrived once the body is read.
LEMMA BodyStep ==
    ASSUME NEW L, NEW r, NEW body, NEW S, NEW fold, NEW first, NEW txt, NEW at \in Nat, NEW m,
           Reading(L, r, body, S, fold, first, txt, at, m), m.state = "body",
           first = message.of.first, NEW arrived \in Nat, at <= arrived, arrived <= Len(txt),
           NEW content, content = SubSeq(txt, at + 1, arrived), NEW mm,
           \/ mm = [m EXCEPT !.state = "threw"]
           \/ mm = [m EXCEPT !.body = content, !.state = "overfull"]
           \/ m.length = Len(content) /\ mm = Handled([m EXCEPT !.body = content])
    PROVE  Reading(L, r, body, S, fold, first, txt, arrived, mm)
<1>1. /\ first \in Firsts /\ Carries(L, S, fold) /\ body \in Text /\ Tails(r, L, CRLF \o body)
      /\ Whole(m) /\ m.line = FirstLineOf(first) /\ Rest(txt, at, body) /\ HeadersRead(m, S, fold)
  BY DEF Reading, NothingRead
<1>2. content \in Text /\ IsPrefix(content, body)
  <2> DEFINE d == arrived - at
  <2>1. d \in Nat /\ d <= Len(body) /\ content = SubSeq(body, 1, d)
    BY <1>1, RestPart
  <2> HIDE DEF d
  <2>2. 1 \in Nat \ {0} /\ (IF 1 <= d THEN (d - 1) + 1 ELSE 0) = d /\ \A i \in 1..d : (1 + i) - 1 = i
    BY <2>1
  <2>3. content \in Text /\ Len(content) = d /\ \A i \in 1..d : content[i] = body[i]
    <3> DEFINE u == SubSeq(body, 1, d)
    <3>1. u \in Text /\ Len(u) = (IF 1 <= d THEN (d - 1) + 1 ELSE 0)
          /\ \A i \in 1..Len(u) : u[i] = body[(1 + i) - 1]
      BY <1>1, <2>1, <2>2, PartOf
    <3> HIDE DEF u
    <3>2. \A i \in 1..d : u[i] = body[i]
      BY <2>2, <3>1
    <3> QED
      BY <2>1, <2>2, <3>1, <3>2 DEF u
  <2> QED
    BY <1>1, <2>1, <2>3, Beginning
<1>3. CASE mm = [m EXCEPT !.state = "threw"] \/ mm = [m EXCEPT !.body = content, !.state = "overfull"]
  <2>1. Whole(mm) /\ mm.state \in {"threw", "overfull"}
    BY <1>1, <1>3 DEF Whole
  <2> QED
    BY <1>1, <2>1 DEF Reading
<1>4. CASE m.length = Len(content) /\ mm = Handled([m EXCEPT !.body = content])
  <2> DEFINE w == [m EXCEPT !.body = content]
  <2>1. /\ Whole(w) /\ w.line = m.line /\ w.headers = m.headers /\ w.length = m.length
        /\ w.body = content
    <3>1. \A a, b, c, e, f, g, h, x :
            [[state |-> a, line |-> b, headers |-> c, last |-> e, length |-> f, first |-> g,
              body |-> h] EXCEPT !.body = x]
              = [state |-> a, line |-> b, headers |-> c, last |-> e, length |-> f, first |-> g,
                 body |-> x]
      OBVIOUS
    <3>2. w = [state |-> m.state, line |-> m.line, headers |-> m.headers,
               last |-> m.last, length |-> m.length, first |-> m.first, body |-> content]
      <4>1. m = [state |-> m.state, line |-> m.line, headers |-> m.headers, last |-> m.last,
                 length |-> m.length, first |-> m.first, body |-> m.body]
        BY <1>1 DEF Whole
      <4>2. w = [[state |-> m.state, line |-> m.line, headers |-> m.headers, last |-> m.last,
                  length |-> m.length, first |-> m.first, body |-> m.body] EXCEPT !.body = content]
        BY <4>1
      <4> HIDE DEF w
      <4> QED
        BY <3>1, <4>2
    <3> HIDE DEF w
    <3> QED
      BY <3>2 DEF Whole
  <2>2. HeadersRead(w, S, fold)
    BY <1>1, <2>1 DEF HeadersRead
  <2>3. mm = Handled(w)
    BY <1>4
  <2> HIDE DEF w
  <2>4. w.body \in Text /\ Len(w.body) = w.length /\ IsPrefix(w.body, body) /\ w.line = FirstLineOf(first)
    BY <1>1, <1>2, <1>4, <2>1
  <2> QED
    BY <1>1, <2>1, <2>2, <2>3, <2>4, HandledIs
<1> QED
  BY <1>3, <1>4

FoldSent == IF message.kind = "text" /\ arrival.before = <<>> THEN message.of.fold ELSE <<>>

Befores == {<<>>} \cup {<<kv, b>> : kv \in Seq(Fields), b \in Text}

ArrivalOf(a) ==
    /\ a = [before |-> a.before, order |-> a.order, arrived |-> a.arrived, pieces |-> a.pieces,
            at |-> a.at]
    /\ a.before \in Befores /\ a.arrived \in Nat /\ a.pieces \in Nat /\ a.at \in Nat
    /\ a.at <= a.arrived /\ a.arrived <= Len(text) /\ text \in Text
    /\ a.before # <<>> => message.kind = "text"

ReadingNow ==
    \E L, r : Reading(L, r, BodySent, Sent, FoldSent, message.of.first, text, arrival.at, read)

MessageInv ==
    /\ message \in AllMessages
    /\ arrival # <<>> => ArrivalOf(arrival) /\ ReadingNow

\* A text that brings the fields, of which nothing has been read.
LEMMA ReadingBegins ==
    ASSUME NEW first \in Firsts, NEW S, NEW fold, NEW body, NEW txt, Brings(first, S, fold, body, txt)
    PROVE  /\ txt \in Text /\ body \in Text
           /\ \E L, r : Reading(L, r, body, S, fold, first, txt, 0, NothingRead)
<1>1. PICK L : /\ Carries(L, S, fold) /\ body \in Text
               /\ Layout(FirstLineOf(first), L, body, txt)
  BY DEF Brings
<1>2. PICK r : Tails(r, L, CRLF \o body) /\ txt = (FirstLineOf(first) \o CRLF) \o r[0]
  BY <1>1 DEF Layout
<1>3. r[0] \in Text
  <2>1. 0 \in 0..Len(L)
    BY <1>1 DEF Carries
  <2>2. r \in [0..Len(L) -> Text]
    BY <1>2 DEF Tails
  <2> QED
    BY <2>1, <2>2
<1>4. FirstLineOf(first) \o CRLF \in Text
  BY FirstRead, LineEnded
<1>5. txt \in Text
  BY <1>2, <1>3, <1>4, Both
<1>6. Rest(txt, 0, (FirstLineOf(first) \o CRLF) \o r[0])
  BY <1>2, <1>5, RestOfAll
<1>7. Whole(NothingRead)
  BY DEF Whole, NothingRead
<1>8. Reading(L, r, body, S, fold, first, txt, 0, NothingRead)
  BY <1>1, <1>2, <1>6, <1>7 DEF Reading
<1> QED
  BY <1>1, <1>5, <1>8

\* The state of a text of which nothing has arrived.
LEMMA NothingArrivedIs ==
    ASSUME NEW b, NEW order
    PROVE  LET a == NothingArrived(b, order) IN
           /\ a = [before |-> a.before, order |-> a.order, arrived |-> a.arrived,
                   pieces |-> a.pieces, at |-> a.at]
           /\ a.before = b /\ a.order = order /\ a.arrived = 0 /\ a.pieces = 0 /\ a.at = 0
           /\ a # <<>>
BY DEF NothingArrived

\* The invariant holds before anything is written.
LEMMA MessageInitially == MessageInit => MessageInv
BY DEF MessageInit, MessageInv, AllMessages

\* A text that has just been written.
LEMMA JustWritten ==
    ASSUME message \in AllMessages, message' = message, NEW b \in Befores, NEW p,
           arrival' = NothingArrived(b, p), b # <<>> => message.kind = "text", read' = NothingRead,
           Brings(message.of.first, Sent', FoldSent', BodySent', text')
    PROVE  MessageInv'
<1>1. message.of.first \in Firsts
  BY MessageIs
<1>2. /\ arrival' = [before |-> arrival'.before, order |-> arrival'.order,
                     arrived |-> arrival'.arrived, pieces |-> arrival'.pieces, at |-> arrival'.at]
      /\ arrival'.before = b /\ arrival'.arrived = 0 /\ arrival'.pieces = 0 /\ arrival'.at = 0
  BY NothingArrivedIs
<1>3. /\ text' \in Text
      /\ \E L, r : Reading(L, r, BodySent', Sent', FoldSent', message.of.first, text', 0, NothingRead)
  BY <1>1, ReadingBegins
<1>4. ReadingNow'
  BY <1>2, <1>3 DEF ReadingNow
<1>5. Len(text') \in Nat
  BY <1>3 DEF Text
<1>6. ArrivalOf(arrival)'
  BY <1>2, <1>3, <1>5 DEF ArrivalOf
<1> QED
  BY <1>4, <1>6 DEF MessageInv

\* Fields in the order they are in.
LEMMA ListedSame ==
    ASSUME NEW T, NEW s \in Seq(T)
    PROVE  Listed(s, [i \in DOMAIN s |-> i]) = s
<1>1. Listed(s, [i \in DOMAIN s |-> i]) = [i \in DOMAIN s |-> s[i]]
  BY DEF Listed
<1>2. s = [i \in DOMAIN s |-> s[i]]
  OBVIOUS
<1> QED
  BY <1>1, <1>2

\* Writing a message.
LEMMA WriteMessageKeeps == MessageInv /\ WriteMessage => MessageInv'
<1> SUFFICES ASSUME MessageInv, WriteMessage PROVE MessageInv'
  OBVIOUS
<1> DEFINE m == message
<1>1. m \in AllMessages /\ message' = message /\ read' = NothingRead
  BY DEF MessageInv, WriteMessage
<1>2. /\ m.of.first \in Firsts /\ m.of.body \in Text
      /\ m.kind = "message" => m.of.ops \in Seq(Calls)
      /\ m.kind = "text" => m.of.fields \in Seq(Lines)
  BY <1>1, MessageIs
<1>3. <<>> \in Befores
  BY DEF Befores
<1>4. CASE /\ m.kind = "text" /\ text' = PeerText(m.of)
           /\ arrival' = NothingArrived(<<>>, [i \in DOMAIN m.of.fields |-> i])
  <2> DEFINE p == [i \in DOMAIN m.of.fields |-> i]
  <2>1. Brings(m.of.first, m.of.fields, m.of.fold, m.of.body, PeerText(m.of))
    BY <1>1, <1>4, PeerBrings
  <2>2. arrival'.before = <<>> /\ arrival'.order = p
    BY <1>4, NothingArrivedIs
  <2>3. Sent' = Listed(m.of.fields, p) /\ FoldSent' = m.of.fold /\ BodySent' = m.of.body
    BY <1>1, <1>4, <2>2 DEF Sent, FieldsSent, FoldSent, BodySent
  <2>4. Listed(m.of.fields, p) = m.of.fields
    BY <1>2, <1>4, ListedSame
  <2> QED
    BY <1>1, <1>3, <1>4, <2>1, <2>3, <2>4, JustWritten
<1>5. ASSUME m.kind = "message",
             NEW p \in OutgoingOrders(m.of.first, Applied(m.of.ops), m.of.body),
             text' = Outgoing(m.of.first, Applied(m.of.ops), m.of.body, p),
             arrival' = NothingArrived(<<>>, p)
      PROVE  MessageInv'
  <2> DEFINE k == Kept(m.of.ops)
             own == IF IsUpgrade(m.of.first) THEN <<>> ELSE m.of.body
             S == k \o Added(k, IF IsUpgrade(m.of.first) THEN <<>> ELSE OwnLength(m.of.body))
             txt == Outgoing(m.of.first, Applied(m.of.ops), m.of.body, p)
  <2>1. Brings(m.of.first, Listed(S, p), <<>>, own, txt)
    BY <1>2, <1>5, HandlerBrings
  <2>2. arrival'.before = <<>> /\ arrival'.order = p
    BY <1>5, NothingArrivedIs
  <2>3. m.kind # "text"
    BY <1>5
  <2>4. BodySent' = own /\ FoldSent' = <<>>
    BY <1>1, <1>5, <2>2, <2>3 DEF FoldSent, BodySent
  <2>5. (IF IsUpgrade(m.of.first) THEN <<>> ELSE OwnLength(own))
          = IF IsUpgrade(m.of.first) THEN <<>> ELSE OwnLength(m.of.body)
    OBVIOUS
  <2>6. FieldsSent' = S
    <3>1. FieldsSent' = k \o Added(k, IF IsUpgrade(m.of.first) THEN <<>> ELSE OwnLength(own))
      BY <1>1, <2>2, <2>3, <2>4 DEF FieldsSent
    <3> QED
      BY <2>5, <3>1
  <2>7. Sent' = Listed(S, p)
    BY <2>2, <2>6 DEF Sent
  <2>8. text' = txt
    BY <1>5
  <2> HIDE DEF S, txt, own
  <2>9. Brings(message.of.first, Sent', FoldSent', BodySent', text')
    BY <2>1, <2>4, <2>7, <2>8
  <2> QED
    BY <1>1, <1>3, <1>5, <2>9, JustWritten
<1> QED
  BY <1>4, <1>5 DEF WriteMessage

\* What was sent does not change on the way.
LEMMA SentSame ==
    ASSUME message' = message, arrival'.before = arrival.before, arrival'.order = arrival.order
    PROVE  Sent' = Sent /\ FoldSent' = FoldSent /\ BodySent' = BodySent
BY DEF Sent, FieldsSent, FoldSent, BodySent

\* More arrives, and of what has arrived more is read.
LEMMA FurtherRead ==
    ASSUME MessageInv, arrival # <<>>, message' = message, text' = text,
           NEW a \in Nat, NEW d \in Nat, NEW c \in Nat, arrival.arrived <= a, a <= Len(text), d <= a,
           arrival' = [arrival EXCEPT !.arrived = a, !.pieces = c, !.at = d],
           \A L, r : Reading(L, r, BodySent, Sent, FoldSent, message.of.first, text, arrival.at, read)
                     => Reading(L, r, BodySent, Sent, FoldSent, message.of.first, text, d, read')
    PROVE  MessageInv'
<1>1. message \in AllMessages /\ ArrivalOf(arrival) /\ ReadingNow
  BY DEF MessageInv
<1>2. /\ arrival' = [before |-> arrival'.before, order |-> arrival'.order,
                     arrived |-> arrival'.arrived, pieces |-> arrival'.pieces, at |-> arrival'.at]
      /\ arrival'.before = arrival.before /\ arrival'.order = arrival.order
      /\ arrival'.arrived = a /\ arrival'.pieces = c /\ arrival'.at = d
  BY <1>1 DEF ArrivalOf
<1>3. /\ arrival.before \in Befores /\ text \in Text
      /\ arrival.before # <<>> => message.kind = "text"
  BY <1>1 DEF ArrivalOf
<1>4. ArrivalOf(arrival)'
  BY <1>2, <1>3 DEF ArrivalOf
<1>5. Sent' = Sent /\ FoldSent' = FoldSent /\ BodySent' = BodySent
  BY <1>2, SentSame
<1>6. ReadingNow'
  <2>1. PICK L, r : Reading(L, r, BodySent, Sent, FoldSent, message.of.first, text, arrival.at, read)
    BY <1>1 DEF ReadingNow
  <2>2. Reading(L, r, BodySent, Sent, FoldSent, message.of.first, text, d, read')
    BY <2>1
  <2> QED
    BY <1>2, <1>5, <2>2 DEF ReadingNow
<1> QED
  BY <1>1, <1>4, <1>6 DEF MessageInv

\* The sizes of what has arrived.
LEMMA ArrivedSizes ==
    ASSUME MessageInv, arrival # <<>>
    PROVE  /\ arrival.at \in Nat /\ arrival.arrived \in Nat /\ arrival.pieces \in Nat
           /\ arrival.at <= arrival.arrived /\ arrival.arrived <= Len(text) /\ Len(text) \in Nat
           /\ DOMAIN arrival = {"before", "order", "arrived", "pieces", "at"}
BY DEF MessageInv, ArrivalOf, Text

\* onPollIn: more of the text arrives, wherever it is cut.
LEMMA ArriveKeeps == \A n \in 1..Len(text) : MessageInv /\ Arrive(n) => MessageInv'
<1> SUFFICES ASSUME NEW n \in 1..Len(text), MessageInv, Arrive(n) PROVE MessageInv'
  OBVIOUS
<1>1. /\ arrival # <<>> /\ message' = message /\ text' = text /\ read' = read
      /\ n \in 1..(Len(text) - arrival.arrived)
      /\ arrival' = [arrival EXCEPT !.arrived = @ + n, !.pieces = @ + 1]
  BY DEF Arrive
<1> DEFINE a == arrival.arrived + n
           c == arrival.pieces + 1
           d == arrival.at
<1>2. a \in Nat /\ c \in Nat /\ d \in Nat /\ arrival.arrived <= a /\ a <= Len(text) /\ d <= a
  BY <1>1, ArrivedSizes
<1>3. arrival' = [arrival EXCEPT !.arrived = a, !.pieces = c, !.at = d]
  <2>1. ArrivalOf(arrival)
    BY <1>1 DEF MessageInv
  <2> QED
    BY <1>1, <2>1 DEF ArrivalOf
<1> HIDE DEF a, c
<1> QED
  BY <1>1, <1>2, <1>3, FurtherRead

\* processInput: a line is read.
LEMMA ReadLineKeeps == MessageInv /\ ReadLine => MessageInv'
<1> SUFFICES ASSUME MessageInv, ReadLine PROVE MessageInv'
  OBVIOUS
<1> DEFINE part == SubSeq(text, arrival.at + 1, arrival.arrived)
           line == GetLine(part)
           S == Sent
           fold == FoldSent
           body == BodySent
           first == message.of.first
           at == arrival.at
           arrived == arrival.arrived
           d == at + LineLength(part)
<1>1. /\ arrival # <<>> /\ message' = message /\ text' = text /\ LineLength(part) # 0
      /\ arrival' = [arrival EXCEPT !.at = @ + LineLength(part)]
  BY DEF ReadLine, Unread
<1>2. /\ read.state \in {"first", "headers"}
      /\ read.state = "first" => read' = [read EXCEPT !.state = "headers", !.line = line]
      /\ read.state = "headers" => read' \in HeaderOutcomes(read, line)
  BY DEF ReadLine, Unread, HeaderOutcomes
<1>3. /\ at \in Nat /\ arrived \in Nat /\ at <= arrived /\ arrived <= Len(text)
      /\ arrival.pieces \in Nat
  BY <1>1, ArrivedSizes
<1> HIDE DEF line, S, fold, body, first
<1>4. ASSUME NEW L, NEW r, Reading(L, r, body, S, fold, first, text, at, read)
      PROVE  Reading(L, r, body, S, fold, first, text, d, read') /\ LineLength(part) \in Nat /\ d <= arrived
  <2>1. CASE read.state = "first"
    <3>1. read = NothingRead
      BY <1>4, <2>1 DEF Reading
    <3>2. read' = [NothingRead EXCEPT !.state = "headers", !.line = GetLine(part)]
      BY <1>2, <2>1, <3>1 DEF line
    <3>3. Reading(L, r, body, S, fold, first, text, at, NothingRead)
      BY <1>4, <3>1
    <3> HIDE DEF at, arrived
    <3> QED
      BY <1>1, <1>3, <3>2, <3>3, FirstLineStep DEF at, arrived
  <2>2. CASE read.state = "headers"
    <3>1. PICK k \in 0..Len(L) : Rest(text, at, r[k]) /\ ReadSoFar(read.headers, read.last, S, fold, k)
      BY <1>4, <2>2 DEF Reading, NothingRead
    <3>2. read' \in HeaderOutcomes(read, line)
      BY <1>2, <2>2
    <3>3. line = GetLine(part) /\ first = message.of.first
      BY DEF line, first
    <3>4. CASE k < Len(L)
      BY <1>1, <1>3, <1>4, <2>2, <3>1, <3>2, <3>3, <3>4, HeaderLineStep
    <3>5. CASE ~(k < Len(L))
      BY <1>1, <1>3, <1>4, <2>2, <3>1, <3>2, <3>3, <3>5, EmptyLineStep
    <3> QED
      BY <3>4, <3>5
  <2> QED
    BY <1>2, <2>1, <2>2
<1>5. \E L, r : Reading(L, r, body, S, fold, first, text, at, read)
  BY <1>1 DEF MessageInv, ReadingNow, body, S, fold, first
<1>6. LineLength(part) \in Nat /\ d <= arrived
  BY <1>4, <1>5
<1>7. d \in Nat /\ arrived <= arrived /\ d <= arrived
  BY <1>3, <1>6
<1>8. arrival' = [arrival EXCEPT !.arrived = arrived, !.pieces = arrival.pieces, !.at = d]
  <2>1. ArrivalOf(arrival)
    BY <1>1 DEF MessageInv
  <2> QED
    BY <1>1, <2>1 DEF ArrivalOf
<1>9. \A L, r : Reading(L, r, body, S, fold, first, text, at, read)
                => Reading(L, r, body, S, fold, first, text, d, read')
  BY <1>4
<1> HIDE DEF d, part
<1> QED
  BY <1>1, <1>3, <1>7, <1>8, <1>9, FurtherRead DEF body, S, fold, first

\* readBody: what has arrived is taken for the body.
LEMMA ReadBodyKeeps == \A n \in 1..Len(text) : MessageInv /\ ReadBody(n) => MessageInv'
<1> SUFFICES ASSUME NEW n \in 1..Len(text), MessageInv, ReadBody(n) PROVE MessageInv'
  OBVIOUS
<1> DEFINE a == arrival.arrived + n
           content == SubSeq(text, arrival.at + 1, a)
           S == Sent
           fold == FoldSent
           body == BodySent
           first == message.of.first
<1>1. /\ arrival # <<>> /\ message' = message /\ text' = text /\ read.state = "body"
      /\ n \in 1..(Len(text) - arrival.arrived)
      /\ arrival' = [arrival EXCEPT !.arrived = @ + n, !.at = arrival.arrived + n]
  BY DEF ReadBody
<1>2. \/ read' = [read EXCEPT !.state = "threw"]
      \/ read' = [read EXCEPT !.body = content, !.state = "overfull"]
      \/ read.length = Len(content) /\ read' = Handled([read EXCEPT !.body = content])
  <2>1. \A w : [[read EXCEPT !.body = w] EXCEPT !.state = "overfull"]
                 = [read EXCEPT !.body = w, !.state = "overfull"]
    OBVIOUS
  <2> QED
    BY <2>1 DEF ReadBody
<1>3. /\ arrival.at \in Nat /\ arrival.pieces \in Nat /\ a \in Nat
      /\ arrival.at <= a /\ arrival.arrived <= a /\ a <= Len(text) /\ a <= a
  BY <1>1, ArrivedSizes
<1>4. arrival' = [arrival EXCEPT !.arrived = a, !.pieces = arrival.pieces, !.at = a]
  <2>1. ArrivalOf(arrival)
    BY <1>1 DEF MessageInv
  <2> QED
    BY <1>1, <2>1 DEF ArrivalOf
<1> HIDE DEF a, content, S, fold, body, first
<1>5. ASSUME NEW L, NEW r, Reading(L, r, body, S, fold, first, text, arrival.at, read)
      PROVE  Reading(L, r, body, S, fold, first, text, a, read')
  BY <1>1, <1>2, <1>3, <1>5, BodyStep DEF content, first
<1> QED
  BY <1>1, <1>3, <1>4, <1>5, FurtherRead DEF body, S, fold, first

\* The proxy sends a message on, or throws for a status code it has no line for.
LEMMA RelayKeeps == MessageInv /\ Relay => MessageInv'
<1> SUFFICES ASSUME MessageInv, Relay PROVE MessageInv'
  OBVIOUS
<1>1. /\ message \in AllMessages /\ arrival # <<>> /\ ArrivalOf(arrival) /\ ReadingNow
      /\ message' = message /\ message.kind = "text" /\ arrival.before = <<>> /\ read.state = "done"
  BY DEF MessageInv, Relay
<1>2. PICK L, r : Reading(L, r, BodySent, Sent, FoldSent, message.of.first, text, arrival.at, read)
  BY <1>1 DEF ReadingNow
<1>3. /\ read.first = message.of.first /\ read.first \in Firsts
      /\ read.headers \in Seq(Fields) /\ read.body \in Text
  BY <1>1, <1>2 DEF Reading, NothingRead, HeadersRead, ReadAll
<1>4. CASE ~HasFirstLine(read.first) /\ read' = [read EXCEPT !.state = "threw"] /\ UNCHANGED <<text, arrival>>
  <2>1. Whole(read') /\ read'.state = "threw"
    BY <1>2, <1>4 DEF Reading, Whole
  <2>2. text' = text /\ arrival' = arrival
    BY <1>4
  <2>3. Sent' = Sent /\ FoldSent' = FoldSent /\ BodySent' = BodySent
    BY <1>1, <2>2, SentSame
  <2>4. Reading(L, r, BodySent, Sent, FoldSent, message.of.first, text, arrival.at, read')
    BY <1>2, <2>1 DEF Reading
  <2>5. ReadingNow'
    BY <1>1, <2>2, <2>3, <2>4 DEF ReadingNow
  <2>6. ArrivalOf(arrival)'
    BY <1>1, <2>2 DEF ArrivalOf
  <2> QED
    BY <1>1, <2>5, <2>6 DEF MessageInv
<1>5. ASSUME NEW p \in Orders(OutgoingHeaders(read.headers, read.body)),
             text' = SendMessage(FirstLineOf(read.first), read.headers, read.body, p),
             arrival' = NothingArrived(<<read.headers, read.body>>, p), read' = NothingRead
      PROVE  MessageInv'
  <2> DEFINE kv == read.headers
             b == read.body
             S == kv \o Added(kv, OwnLength(b))
  <2>1. <<kv, b>> \in Befores
    BY <1>3 DEF Befores
  <2>2. arrival'.before = <<kv, b>> /\ arrival'.order = p /\ <<kv, b>> # <<>>
    BY <1>5, NothingArrivedIs
  <2>3. arrival'.before # <<>> /\ arrival'.before[1] = kv /\ arrival'.before[2] = b
    BY <2>2
  <2>4. BodySent' = b /\ FoldSent' = <<>>
    BY <2>3 DEF BodySent, FoldSent
  <2>5. FieldsSent' = S
    BY <2>3, <2>4 DEF FieldsSent
  <2>6. Sent' = Listed(S, p)
    BY <2>2, <2>5 DEF Sent
  <2>7. Brings(read.first, Listed(S, p), <<>>, b, SendMessage(FirstLineOf(read.first), kv, b, p))
    BY <1>3, <1>5, RelayBrings
  <2>8. Brings(message.of.first, Sent', FoldSent', BodySent', text')
    BY <1>3, <1>5, <2>4, <2>6, <2>7
  <2> HIDE DEF kv, b, S
  <2> QED
    BY <1>1, <1>5, <2>1, <2>8, JustWritten DEF kv, b
<1> QED
  BY <1>4, <1>5 DEF Relay

\* Every step keeps the invariant.
LEMMA MessageSteps == MessageInv /\ [MessageNext]_messageVars => MessageInv'
<1>1. MessageInv /\ MessageNext => MessageInv'
  BY WriteMessageKeeps, ArriveKeeps, ReadLineKeeps, ReadBodyKeeps, RelayKeeps DEF MessageNext
<1>2. MessageInv /\ UNCHANGED messageVars => MessageInv'
  <2> SUFFICES ASSUME MessageInv, UNCHANGED messageVars PROVE MessageInv'
    OBVIOUS
  <2>1. message' = message /\ text' = text /\ arrival' = arrival /\ read' = read
    BY DEF messageVars
  <2>2. Sent' = Sent /\ FoldSent' = FoldSent /\ BodySent' = BodySent
    BY <2>1, SentSame
  <2>3. ReadingNow => ReadingNow'
    BY <2>1, <2>2 DEF ReadingNow
  <2>4. ArrivalOf(arrival) => ArrivalOf(arrival)'
    BY <2>1 DEF ArrivalOf
  <2> QED
    BY <2>1, <2>3, <2>4 DEF MessageInv
<1> QED
  BY <1>1, <1>2

\* What a continuation was added to is a beginning of the value.
LEMMA ContinuedPart ==
    ASSUME NEW v \in Line, NEW fold \in Line, NEW value, value = v \o fold
    PROVE  v \in {SubSeq(value, 1, m) : m \in 0..Len(value)}
<1>1. v \in Text /\ fold \in Text
  BY LineText
<1>2. /\ Len(v) \in Nat /\ Len(fold) \in Nat /\ value \in Text /\ Len(value) = Len(v) + Len(fold)
      /\ \A i \in 1..Len(v) : value[i] = v[i]
  BY <1>1, Both
<1>3. 1 \in Nat \ {0} /\ Len(v) <= Len(value) /\ Len(v) = (Len(v) + 1) - 1 /\ Len(v) \in 0..Len(value)
  BY <1>2
<1>4. \A i \in 1..Len(v) : v[i] = value[(1 + i) - 1]
  <2>1. \A i \in 1..Len(v) : (1 + i) - 1 = i
    OBVIOUS
  <2> QED
    BY <1>2, <2>1
<1>5. SubSeq(value, 1, Len(v)) = v
  BY <1>1, <1>2, <1>3, <1>4, PartIs
<1> QED
  BY <1>3, <1>5

\* A beginning of a text that is as long as the text.
LEMMA WholePrefix ==
    ASSUME NEW u \in Text, NEW t \in Text, IsPrefix(u, t), Len(u) = Len(t)
    PROVE  u = t
<1>1. SubSeq(t, 1, Len(t)) = t
  BY SubSeqFull DEF Text
<1>2. u = SubSeq(t, 1, Len(u))
  <2>1. SubSeq(u, 1, Len(u)) = u
    BY SubSeqFull DEF Text
  <2> QED
    BY <2>1 DEF IsPrefix
<1> QED
  BY <1>1, <1>2

\* The invariant gives the property.
LEMMA MessageInvGives == MessageInv => MessageRoundTrip
<1> SUFFICES ASSUME MessageInv, arrival # <<>>, read.state = "done" PROVE MessageRoundTrip
  BY DEF MessageRoundTrip
<1> DEFINE S == Sent
           n == Len(S)
           H == read.headers
           fold == FoldSent
           body == BodySent
           first == message.of.first
           own == {i \in 1..n : AsciiLower(S[i].name) = <<"content-length">>}
<1>1. PICK L, r : Reading(L, r, body, S, fold, first, text, arrival.at, read)
  BY DEF MessageInv, ReadingNow
<1>2. /\ read.first = first /\ ReadAll(H, S, fold)
      /\ read.length \in GetContentLength(H) /\ read.length # Throws
      /\ read.body \in Text /\ Len(read.body) = read.length /\ IsPrefix(read.body, body)
  BY <1>1 DEF Reading, NothingRead, HeadersRead
<1>3. body \in Text
  BY <1>1 DEF Reading
<1>4. /\ own = {} => read.body = <<>>
      /\ \A i \in own : own = {i} /\ ~Tight(S[i]) /\ S[i].value = Decimal[Len(body)]
                            => read.body = body
  <2> HIDE DEF S, H, fold, body
  <2>1. /\ own = {} => read.length \in {0, -1}
        /\ \A i \in own : own = {i} /\ ~Tight(S[i]) /\ S[i].value = Decimal[Len(body)]
                            => read.length = Len(body)
    BY <1>2, <1>3, LengthRead
  <2>2. read.length \in {0, -1} => read.body = <<>>
    BY <1>2 DEF Text
  <2>3. read.length = Len(body) => read.body = body
    BY <1>2, <1>3, WholePrefix
  <2> QED
    BY <2>1, <2>2, <2>3
<1>5. /\ n \in Nat /\ Len(H) = n /\ fold \in Line
      /\ \A i \in 1..n : H[i].name = AsciiLower(S[i].name)
      /\ n > 0 => SomeContinued(H, S, fold)
  BY <1>2 DEF ReadAll
<1>6. ASSUME n > 0
      PROVE  \E k \in 1..n :
                /\ AsciiLower(S[k].name) = AsciiLower(S[n].name)
                /\ \A i \in 1..n : i # k => ReadAs(S[i], H[i].value)
                /\ \E v \in {SubSeq(H[k].value, 1, m) : m \in 0..Len(H[k].value)} :
                      H[k].value = v \o fold /\ ReadAs(S[k], v)
  <2> HIDE DEF S, H, fold
  <2>1. PICK k \in 1..n :
          /\ AsciiLower(S[k].name) = AsciiLower(S[n].name)
          /\ \A i \in 1..n : i # k => ReadAs(S[i], H[i].value)
          /\ \E v \in Line : H[k].value = v \o fold /\ ReadAs(S[k], v)
    BY <1>5, <1>6 DEF SomeContinued
  <2>2. PICK v \in Line : H[k].value = v \o fold /\ ReadAs(S[k], v)
    BY <2>1
  <2>3. v \in {SubSeq(H[k].value, 1, m) : m \in 0..Len(H[k].value)}
    BY <1>5, <2>2, ContinuedPart
  <2>4. \E w \in {SubSeq(H[k].value, 1, m) : m \in 0..Len(H[k].value)} :
                      H[k].value = w \o fold /\ ReadAs(S[k], w)
    BY <2>2, <2>3
  <2> QED
    BY <2>1, <2>4
<1>7. OwnLength(body)[1].value = Decimal[Len(body)]
  BY DEF OwnLength, Field
<1> HIDE DEF S, H, fold, body, first
<1>8. /\ read.first = first
      /\ Len(H) = n
      /\ \A i \in 1..n : H[i].name = AsciiLower(S[i].name)
      /\ n > 0 => \E k \in 1..n :
            /\ AsciiLower(S[k].name) = AsciiLower(S[n].name)
            /\ \A i \in 1..n : i # k => ReadAs(S[i], H[i].value)
            /\ \E v \in {SubSeq(H[k].value, 1, m) : m \in 0..Len(H[k].value)} :
                  H[k].value = v \o fold /\ ReadAs(S[k], v)
      /\ IsPrefix(read.body, body)
      /\ own = {} => read.body = <<>>
      /\ \A i \in own :
            own = {i} /\ ~Tight(S[i]) /\ S[i].value = OwnLength(body)[1].value => read.body = body
  <2> HIDE DEF n, own
  <2> QED
    BY <1>2, <1>4, <1>5, <1>6, <1>7
<1> QED
  BY <1>8 DEF MessageRoundTrip, S, H, fold, body, first, FoldSent

\* For all characters, names, values, bodies and cuts, and every order in which the
\* map lists its fields: the headers that are read are the ones that were sent, in
\* number, name and value, through HTTP1.cpp's writing, http1/Transport.cpp's reading
\* and the proxy's sending on of what it has read; and of a message that is read to
\* its end the body is a beginning of the one sent, all of it if the length announced
\* was its own (HTTP1.cpp, getContentLength, readContent).
THEOREM MessagesSurvive == MessageSpec => []MessageRoundTrip
BY MessageInitially, MessageSteps, MessageInvGives, PTL DEF MessageSpec
=============================================================================
