-------------------------- MODULE OutputPath_proofs --------------------------
(***************************************************************************)
(* The output path for every capacity, buffer size and message: each byte  *)
(* leaves once and in order, and the path implements module ByteStream.    *)
(*                                                                         *)
(* The library's induction theorems take an operator, which the provers    *)
(* cannot instantiate; its theorem that a set of naturals has a least      *)
(* element (WFMin) takes a set, and gives the induction used here.         *)
(***************************************************************************)
EXTENDS OutputPath, SequenceTheorems, WellFoundedInduction, TLAPS

-----------------------------------------------------------------------------
\* Induction over the naturals.

LEMMA LeastNat ==
    ASSUME NEW T \in SUBSET Nat, T # {}
    PROVE  \E x \in T : \A y \in T : x <= y
<1>1. \E R : IsWellFoundedOn(R, Nat) /\ \A x, y \in Nat : <<y, x>> \in R <=> y < x
  <2>1. IsWellFoundedOn(OpToRel(<, Nat), Nat)
    BY NatLessThanWellFounded
  <2>2. \A x, y \in Nat : <<y, x>> \in OpToRel(<, Nat) <=> y < x
    BY DEF OpToRel
  <2> WITNESS OpToRel(<, Nat)
  <2> QED
    BY <2>1, <2>2
<1>2. PICK R : IsWellFoundedOn(R, Nat) /\ \A x, y \in Nat : <<y, x>> \in R <=> y < x
  BY <1>1
<1>3. PICK x \in T : \A y \in T : ~(<<y, x>> \in R)
  BY <1>2, WFMin
<1>4. ASSUME NEW y \in T PROVE x <= y
  <2>1. x \in Nat /\ y \in Nat /\ ~(y < x)
    BY <1>2, <1>3
  <2> QED
    BY <2>1
<1> QED
  BY <1>4

LEMMA Induction ==
    ASSUME NEW T, 0 \in T, \A n \in Nat : n \in T => n + 1 \in T
    PROVE  \A n \in Nat : n \in T
<1> SUFFICES ASSUME Nat \ T # {} PROVE FALSE
  OBVIOUS
<1>1. PICK x \in Nat \ T : \A y \in Nat \ T : x <= y
  BY LeastNat
<1>2. x - 1 \in Nat /\ x - 1 \notin Nat \ T
  BY <1>1
<1> QED
  BY <1>1, <1>2

-----------------------------------------------------------------------------
\* The callers' bytes of a sequence.

LEMMA Regroup ==
    ASSUME NEW S, NEW a \in Seq(S), NEW b \in Seq(S), NEW c \in Seq(S)
    PROVE  a \o (b \o c) = (a \o b) \o c
BY ConcatAssociative

\* g follows the definition of Kept up to n.
KeepsTo(s, n, g) ==
    g = [i \in 0..n |-> IF i = 0 THEN <<>>
                        ELSE IF s[i] = Junk THEN g[i - 1] ELSE Append(g[i - 1], s[i])]

LEMMA KeepsExists ==
    ASSUME NEW s
    PROVE  \A n \in Nat : \E g : KeepsTo(s, n, g)
<1> DEFINE T == {n \in Nat : \E g : KeepsTo(s, n, g)}
<1>1. 0 \in T
  <2>1. KeepsTo(s, 0, [i \in 0..0 |-> <<>>])
    BY DEF KeepsTo
  <2> QED
    BY <2>1
<1>2. ASSUME NEW n \in Nat, n \in T PROVE n + 1 \in T
  <2>1. PICK g : KeepsTo(s, n, g)
    BY <1>2
  <2> DEFINE h == [i \in 0..(n + 1) |->
                      IF i <= n THEN g[i]
                      ELSE IF s[i] = Junk THEN g[n] ELSE Append(g[n], s[i])]
  <2>2. KeepsTo(s, n + 1, h)
    <3>1. ASSUME NEW i \in 0..(n + 1)
          PROVE  h[i] = IF i = 0 THEN <<>>
                        ELSE IF s[i] = Junk THEN h[i - 1] ELSE Append(h[i - 1], s[i])
      <4>1. CASE i = 0
        BY <2>1, <4>1 DEF KeepsTo
      <4>2. CASE i # 0 /\ i <= n
        <5>1. i - 1 \in 0..n /\ h[i - 1] = g[i - 1] /\ h[i] = g[i] /\ i \in 0..n
          BY <4>2
        <5> QED
          BY <2>1, <4>2, <5>1 DEF KeepsTo
      <4>3. CASE i = n + 1
        <5>1. h[i - 1] = g[n]
          BY <4>3
        <5> QED
          BY <4>3, <5>1
      <4> QED
        BY <4>1, <4>2, <4>3
    <3> QED
      BY <3>1 DEF KeepsTo
  <2> QED
    BY <2>2
<1> HIDE DEF T
<1>3. \A n \in Nat : n \in T
  BY <1>1, <1>2, Induction
<1> QED
  BY <1>3 DEF T

LEMMA KeepsNext ==
    ASSUME NEW s, NEW g, NEW n \in Nat, KeepsTo(s, n, g), NEW i \in 0..n, i # 0
    PROVE  g[i] = IF s[i] = Junk THEN g[i - 1] ELSE Append(g[i - 1], s[i])
BY DEF KeepsTo

LEMMA KeepsUnique ==
    ASSUME NEW s, NEW t, NEW g, NEW h, NEW m \in Nat, NEW n \in Nat,
           KeepsTo(s, m, g), KeepsTo(t, n, h), n <= m, \A i \in 1..n : s[i] = t[i]
    PROVE  g[n] = h[n]
<1> DEFINE T == {i \in Nat : i <= n => g[i] = h[i]}
<1>1. 0 \in T
  BY DEF KeepsTo
<1>2. ASSUME NEW i \in Nat, i \in T PROVE i + 1 \in T
  <2> SUFFICES ASSUME i + 1 <= n PROVE g[i + 1] = h[i + 1]
    OBVIOUS
  <2>1. g[i] = h[i] /\ s[i + 1] = t[i + 1] /\ i + 1 # 0 /\ (i + 1) - 1 = i
    BY <1>2
  <2>2. i + 1 \in 0..m /\ i + 1 \in 0..n
    OBVIOUS
  <2>3. g[i + 1] = IF s[i + 1] = Junk THEN g[i] ELSE Append(g[i], s[i + 1])
    BY <2>1, <2>2, KeepsNext
  <2>4. h[i + 1] = IF t[i + 1] = Junk THEN h[i] ELSE Append(h[i], t[i + 1])
    BY <2>1, <2>2, KeepsNext
  <2> QED
    BY <2>1, <2>3, <2>4
<1> HIDE DEF T
<1>3. n \in T
  BY <1>1, <1>2, Induction
<1> QED
  BY <1>3 DEF T

LEMMA KeptIs ==
    ASSUME NEW S, NEW s \in Seq(S)
    PROVE  \E g : KeepsTo(s, Len(s), g) /\ Kept(s) = g[Len(s)]
<1>1. Kept(s) = (CHOOSE g : KeepsTo(s, Len(s), g))[Len(s)]
  BY DEF Kept, KeepsTo
<1>2. \E g : KeepsTo(s, Len(s), g)
  <2>1. Len(s) \in Nat
    OBVIOUS
  <2> QED
    BY <2>1, KeepsExists
<1> QED
  BY <1>1, <1>2

LEMMA KeptOfEmpty == Kept(<<>>) = <<>>
<1>1. <<>> \in Seq({}) /\ Len(<<>>) = 0
  OBVIOUS
<1>2. PICK g : KeepsTo(<<>>, 0, g) /\ Kept(<<>>) = g[0]
  BY <1>1, KeptIs
<1> QED
  BY <1>2 DEF KeepsTo

LEMMA KeptOfAppend ==
    ASSUME NEW S, NEW s \in Seq(S), NEW x \in S
    PROVE  Kept(Append(s, x)) = IF x = Junk THEN Kept(s) ELSE Append(Kept(s), x)
<1> DEFINE t == Append(s, x)
           n == Len(s)
<1>1. t \in Seq(S) /\ Len(t) = n + 1 /\ t[n + 1] = x /\ n \in Nat /\ \A i \in 1..n : t[i] = s[i]
  BY AppendProperties
<1> HIDE DEF t, n
<1>2. PICK g : KeepsTo(s, n, g) /\ Kept(s) = g[n]
  BY KeptIs DEF n
<1>3. PICK h : KeepsTo(t, n + 1, h) /\ Kept(t) = h[n + 1]
  BY <1>1, KeptIs
<1>4. h[n] = g[n]
  <2>1. n + 1 \in Nat /\ n \in Nat /\ n <= n + 1 /\ \A i \in 1..n : t[i] = s[i]
    BY <1>1
  <2> QED
    BY <1>2, <1>3, <2>1, KeepsUnique
<1>5. h[n + 1] = IF t[n + 1] = Junk THEN h[n] ELSE Append(h[n], t[n + 1])
  <2>1. n + 1 \in 0..(n + 1) /\ n + 1 # 0 /\ (n + 1) - 1 = n
    BY <1>1
  <2> QED
    BY <1>3, <2>1 DEF KeepsTo
<1> QED
  BY <1>1, <1>2, <1>3, <1>4, <1>5 DEF t

\* Bytes of the callers followed by Junk add just the callers' bytes.
LEMMA KeptOfConcat ==
    ASSUME NEW S, NEW s \in Seq(S), NEW p \in Seq(S), NEW m \in 0..Len(p), Kept(s) \in Seq(S),
           \A i \in 1..m : p[i] # Junk, \A i \in (m + 1)..Len(p) : p[i] = Junk
    PROVE  Kept(s \o p) = Kept(s) \o SubSeq(p, 1, m)
<1>0. Len(p) \in Nat /\ m \in Nat /\ m <= Len(p) /\ \A i \in 1..Len(p) : p[i] \in S
  OBVIOUS
<1>1. ASSUME NEW u \in Seq(S), NEW i \in Nat, i + 1 <= Len(p)
      PROVE  u \o SubSeq(p, 1, i + 1) = Append(u \o SubSeq(p, 1, i), p[i + 1])
  <2>1. i + 1 \in 1..Len(p) /\ 1 \in 1..Len(p) /\ (i + 1) - 1 = i /\ p[i + 1] \in S
    BY <1>0, <1>1
  <2>2. SubSeq(p, 1, i + 1) = SubSeq(p, 1, i) \o <<p[i + 1]>>
    BY <2>1, SubSeqRecursiveSecond
  <2>3. SubSeq(p, 1, i) \in Seq(S)
    <3>1. \A k \in 1..i : p[k] \in S
      BY <1>0, <1>1
    <3> QED
      BY <3>1, SubSeqProperties
  <2>4. <<p[i + 1]>> \in Seq(S)
    BY <2>1
  <2>5. u \o SubSeq(p, 1, i + 1) = (u \o SubSeq(p, 1, i)) \o <<p[i + 1]>>
    <3>1. u \o (SubSeq(p, 1, i) \o <<p[i + 1]>>) = (u \o SubSeq(p, 1, i)) \o <<p[i + 1]>>
      BY <2>3, <2>4, Regroup
    <3> QED
      BY <2>2, <3>1
  <2>6. u \o SubSeq(p, 1, i) \in Seq(S)
    BY <2>3, ConcatProperties
  <2> QED
    BY <2>1, <2>5, <2>6, AppendIsConcat
<1> DEFINE Q(i) == i <= Len(p) =>
                   Kept(s \o SubSeq(p, 1, i)) = Kept(s) \o SubSeq(p, 1, Lesser(i, m))
           T == {i \in Nat : Q(i)}
<1>2. Q(0)
  <2>1. SubSeq(p, 1, 0) = <<>> /\ Lesser(0, m) = 0
    BY <1>0, SubSeqEmpty DEF Lesser
  <2>2. s \o <<>> = s /\ Kept(s) \o <<>> = Kept(s)
    BY ConcatEmptySeq
  <2> QED
    BY <2>1, <2>2
<1>3. ASSUME NEW i \in Nat, Q(i) PROVE Q(i + 1)
  <2> SUFFICES ASSUME i + 1 <= Len(p)
               PROVE  Kept(s \o SubSeq(p, 1, i + 1)) = Kept(s) \o SubSeq(p, 1, Lesser(i + 1, m))
    OBVIOUS
  <2>1. SubSeq(p, 1, i) \in Seq(S) /\ p[i + 1] \in S
    <3>1. \A k \in 1..i : p[k] \in S
      BY <1>0
    <3> QED
      BY <1>0, <3>1, SubSeqProperties
  <2>2. s \o SubSeq(p, 1, i) \in Seq(S)
    BY <2>1, ConcatProperties
  <2>3. Kept(s \o SubSeq(p, 1, i + 1))
          = IF p[i + 1] = Junk THEN Kept(s \o SubSeq(p, 1, i))
            ELSE Append(Kept(s \o SubSeq(p, 1, i)), p[i + 1])
    BY <1>1, <2>1, <2>2, KeptOfAppend
  <2>4. Kept(s \o SubSeq(p, 1, i)) = Kept(s) \o SubSeq(p, 1, Lesser(i, m))
    <3>1. i <= Len(p)
      BY <1>0
    <3> QED
      BY <1>3, <3>1
  <2>5. CASE i + 1 <= m
    <3>1. Lesser(i, m) = i /\ Lesser(i + 1, m) = i + 1 /\ i + 1 \in 1..m
      BY <1>0, <2>5 DEF Lesser
    <3> QED
      BY <1>1, <2>3, <2>4, <3>1
  <2>6. CASE i + 1 > m
    <3>1. Lesser(i, m) = m /\ Lesser(i + 1, m) = m /\ i + 1 \in (m + 1)..Len(p)
      BY <1>0, <2>6 DEF Lesser
    <3> QED
      BY <2>3, <2>4, <3>1
  <2>7. i + 1 <= m \/ i + 1 > m
    BY <1>0
  <2> QED
    BY <2>5, <2>6, <2>7
<1> HIDE DEF Q
<1>4. Q(Len(p))
  <2>1. 0 \in T /\ \A n \in Nat : n \in T => n + 1 \in T
    BY <1>2, <1>3
  <2> HIDE DEF T
  <2>2. Len(p) \in T
    BY <1>0, <2>1, Induction
  <2> QED
    BY <2>2 DEF T
<1>5. Lesser(Len(p), m) = m /\ SubSeq(p, 1, Len(p)) = p
  BY <1>0, SubSeqFull DEF Lesser
<1>6. Len(p) <= Len(p)
  BY <1>0
<1> QED
  BY <1>4, <1>5, <1>6 DEF Q

-----------------------------------------------------------------------------
\* Runs of bytes.

\* The bytes a + 1, ..., b.
Run(a, b) == [i \in 1..(b - a) |-> a + i]

LEMMA RunIs ==
    ASSUME NEW a \in Nat, NEW b \in Nat, a <= b
    PROVE  /\ Run(a, b) \in Seq(Byte) /\ Len(Run(a, b)) = b - a
           /\ \A i \in 1..(b - a) : Run(a, b)[i] = a + i
           /\ Run(a, b) = <<>> <=> a = b
<1>1. b - a \in Nat /\ \A i \in 1..(b - a) : a + i \in Byte
  BY DEF Byte, Junk
<1>2. Run(a, b) \in Seq(Byte) /\ Len(Run(a, b)) = b - a
  BY <1>1 DEF Run
<1>3. \A i \in 1..(b - a) : Run(a, b)[i] = a + i
  BY DEF Run
<1>4. Run(a, b) = <<>> <=> Len(Run(a, b)) = 0
  BY <1>2, EmptySeq
<1> QED
  BY <1>2, <1>3, <1>4

LEMMA NoRun ==
    ASSUME NEW a \in Nat
    PROVE  Run(a, a) = <<>>
<1>1. a <= a
  OBVIOUS
<1> QED
  BY <1>1, RunIs

\* A sequence that holds the bytes of a run is that run.
LEMMA IsRun ==
    ASSUME NEW a \in Nat, NEW b \in Nat, a <= b, NEW s \in Seq(Byte), Len(s) = b - a,
           \A i \in 1..(b - a) : s[i] = a + i
    PROVE  s = Run(a, b)
<1>1. /\ Run(a, b) \in Seq(Byte) /\ Len(Run(a, b)) = b - a
      /\ \A i \in 1..(b - a) : Run(a, b)[i] = a + i
  BY RunIs
<1>2. \A i \in 1..Len(s) : s[i] = Run(a, b)[i]
  BY <1>1
<1> QED
  BY <1>1, <1>2, SeqEqual

LEMMA RunConcat ==
    ASSUME NEW a \in Nat, NEW b \in Nat, NEW c \in Nat, a <= b, b <= c
    PROVE  Run(a, b) \o Run(b, c) = Run(a, c)
<1> DEFINE s == Run(a, b)
           t == Run(b, c)
<1>1. s \in Seq(Byte) /\ Len(s) = b - a /\ \A i \in 1..(b - a) : s[i] = a + i
  BY RunIs
<1>2. t \in Seq(Byte) /\ Len(t) = c - b /\ \A i \in 1..(c - b) : t[i] = b + i
  BY RunIs
<1> HIDE DEF s, t
<1>3. /\ s \o t \in Seq(Byte) /\ Len(s \o t) = Len(s) + Len(t)
      /\ \A i \in 1..(Len(s) + Len(t)) : (s \o t)[i] = IF i <= Len(s) THEN s[i] ELSE t[i - Len(s)]
  BY <1>1, <1>2, ConcatProperties
<1>4. Len(s) + Len(t) = c - a
  BY <1>1, <1>2
<1>5. ASSUME NEW i \in 1..(c - a) PROVE (s \o t)[i] = a + i
  <2>1. (s \o t)[i] = IF i <= b - a THEN s[i] ELSE t[i - (b - a)]
    BY <1>1, <1>3, <1>4
  <2>2. CASE i <= b - a
    BY <1>1, <2>1, <2>2
  <2>3. CASE ~(i <= b - a)
    <3>1. i - (b - a) \in 1..(c - b) /\ b + (i - (b - a)) = a + i
      BY <2>3
    <3> QED
      BY <1>2, <2>1, <2>3, <3>1
  <2> QED
    BY <2>2, <2>3
<1>6. s \o t = Run(a, c)
  <2> DEFINE x == s \o t
  <2>1. x \in Seq(Byte) /\ Len(x) = c - a /\ \A i \in 1..(c - a) : x[i] = a + i
    BY <1>3, <1>4, <1>5
  <2>2. a <= c
    OBVIOUS
  <2> HIDE DEF x
  <2>3. x = Run(a, c)
    BY <2>1, <2>2, IsRun
  <2> QED
    BY <2>3 DEF x
<1> QED
  BY <1>6 DEF s, t

\* From position m to n, s holds the bytes a + 1, ..., b.
HoldsRun(s, m, n, a, b) ==
    /\ s \in Seq(Byte \cup {Junk}) /\ m \in Nat \ {0} /\ n \in Nat /\ n <= Len(s)
    /\ a \in Nat /\ b \in Nat /\ a <= b /\ (n - m) + 1 = b - a
    /\ \A i \in m..n : s[i] = a + (i - m) + 1

LEMMA SubSeqIsRun ==
    ASSUME NEW s, NEW m, NEW n, NEW a, NEW b, HoldsRun(s, m, n, a, b)
    PROVE  SubSeq(s, m, n) = Run(a, b)
<1> USE DEF HoldsRun
<1>1. m \in Int /\ n \in Int /\ n - m + 1 = b - a /\ (IF m <= n THEN n - m + 1 ELSE 0) = b - a
  OBVIOUS
<1>2. ASSUME NEW i \in m..n PROVE s[i] \in Byte
  <2>1. a + (i - m) + 1 \in Byte
    BY DEF Byte, Junk
  <2> QED
    BY <2>1
<1>3. ASSUME NEW i \in 1..(b - a) PROVE s[m + i - 1] = a + i
  <2>1. m + i - 1 \in m..n /\ a + ((m + i - 1) - m) + 1 = a + i
    OBVIOUS
  <2> QED
    BY <2>1
<1>4. /\ SubSeq(s, m, n) \in Seq(Byte) /\ Len(SubSeq(s, m, n)) = b - a
      /\ \A i \in 1..(b - a) : SubSeq(s, m, n)[i] = s[m + i - 1]
  BY <1>1, <1>2, SubSeqProperties
<1> DEFINE x == SubSeq(s, m, n)
<1>5. x \in Seq(Byte) /\ Len(x) = b - a /\ \A i \in 1..(b - a) : x[i] = a + i
  BY <1>3, <1>4
<1> HIDE DEF x
<1>6. x = Run(a, b)
  BY <1>5, IsRun
<1> QED
  BY <1>6 DEF x

LEMMA RunFrontBack ==
    ASSUME NEW a \in Nat, NEW b \in Nat, NEW c \in Nat, a <= b, b <= c
    PROVE  /\ SubSeq(Run(a, c), 1, b - a) = Run(a, b)
           /\ SubSeq(Run(a, c), (b - a) + 1, c - a) = Run(b, c)
<1> DEFINE s == Run(a, c)
           k == b - a
           m == k + 1
           n == c - a
<1>1. s \in Seq(Byte) /\ Len(s) = n /\ \A i \in 1..n : s[i] = a + i
  BY RunIs
<1> HIDE DEF s
<1>2. SubSeq(s, 1, k) = Run(a, b)
  <2>1. HoldsRun(s, 1, k, a, b)
    BY <1>1 DEF HoldsRun
  <2> HIDE DEF k, m, n
  <2> QED
    BY <2>1, SubSeqIsRun
<1>3. SubSeq(s, m, n) = Run(b, c)
  <2>1. HoldsRun(s, m, n, b, c)
    BY <1>1 DEF HoldsRun
  <2> HIDE DEF k, m, n
  <2> QED
    BY <2>1, SubSeqIsRun
<1> QED
  BY <1>2, <1>3 DEF s

-----------------------------------------------------------------------------
\* The invariant.

\* A call in progress has something to send and nothing before or after it.
Orderly ==
    /\ pc = "immediate" => outgoing = <<>>
    /\ pc # "idle" => ~filling
    /\ filling => payload # <<>> \/ outgoing # <<>>
    /\ ~filling => payload = <<>>

\* The bytes on the wire, in the call, in the queue and in the Payload are
\* consecutive runs: EveryByteOnce without the concatenations.
InRuns(c, u, q, p, w) ==
    \E i \in 0..w : \E j \in i..w : \E k \in j..w :
        c = Run(0, i) /\ u = Run(i, j) /\ q = Run(j, k) /\ p = Run(k, w)

Partition == isOpen => InRuns(CallersBytes, Unsent, outgoing, payload, written)

IInv ==
    /\ TypeOK /\ Orderly /\ CallersBytes \in Seq(Byte) /\ Partition /\ OverreadBounded

\* The witnesses of InRuns.
Places(i, j, k, c, u, q, p, w) ==
    /\ i \in Nat /\ j \in Nat /\ k \in Nat /\ i <= j /\ j <= k /\ k <= w
    /\ c = Run(0, i) /\ u = Run(i, j) /\ q = Run(j, k) /\ p = Run(k, w)

LEMMA PlacesAre ==
    ASSUME NEW w \in Nat, NEW c, NEW u, NEW q, NEW p
    PROVE  InRuns(c, u, q, p, w) <=> \E i, j, k : Places(i, j, k, c, u, q, p, w)
<1>1. ASSUME InRuns(c, u, q, p, w) PROVE \E i, j, k : Places(i, j, k, c, u, q, p, w)
  <2>1. PICK i \in 0..w : \E j \in i..w : \E k \in j..w :
            c = Run(0, i) /\ u = Run(i, j) /\ q = Run(j, k) /\ p = Run(k, w)
    BY <1>1 DEF InRuns
  <2>2. PICK j \in i..w : \E k \in j..w :
            c = Run(0, i) /\ u = Run(i, j) /\ q = Run(j, k) /\ p = Run(k, w)
    BY <2>1
  <2>3. PICK k \in j..w : c = Run(0, i) /\ u = Run(i, j) /\ q = Run(j, k) /\ p = Run(k, w)
    BY <2>2
  <2>4. i \in Nat /\ j \in Nat /\ k \in Nat /\ i <= j /\ j <= k /\ k <= w
    OBVIOUS
  <2> QED
    BY <2>3, <2>4 DEF Places
<1>2. ASSUME NEW i, NEW j, NEW k, Places(i, j, k, c, u, q, p, w) PROVE InRuns(c, u, q, p, w)
  <2>1. i \in 0..w /\ j \in i..w /\ k \in j..w
    BY <1>2 DEF Places
  <2>2. c = Run(0, i) /\ u = Run(i, j) /\ q = Run(j, k) /\ p = Run(k, w)
    BY <1>2 DEF Places
  <2> QED
    BY <2>1, <2>2 DEF InRuns
<1> QED
  BY <1>1, <1>2

\* The bytes in their places, one after the other, are those the callers wrote.
LEMMA InRunsJoined ==
    ASSUME NEW w \in Nat, NEW c, NEW u, NEW q, NEW p, InRuns(c, u, q, p, w)
    PROVE  c \o u \o q \o p = Run(0, w)
<1>1. PICK i, j, k : Places(i, j, k, c, u, q, p, w)
  BY PlacesAre
<1>2. /\ i \in Nat /\ j \in Nat /\ k \in Nat /\ i <= j /\ j <= k /\ k <= w
      /\ 0 \in Nat /\ 0 <= i /\ 0 <= j /\ 0 <= k
  BY <1>1 DEF Places
<1>3. Run(0, i) \o Run(i, j) = Run(0, j) /\ Run(0, j) \o Run(j, k) = Run(0, k)
  BY <1>2, RunConcat
<1>4. Run(0, k) \o Run(k, w) = Run(0, w)
  BY <1>2, RunConcat
<1> QED
  BY <1>1, <1>3, <1>4 DEF Places

\* Payload::write, in each of its three cases.
LEMMA InRunsWrite ==
    ASSUME NEW w \in Nat, NEW v \in Nat, w <= v, NEW c, NEW u, NEW q, NEW p,
           InRuns(c, u, q, p, w)
    PROVE  /\ InRuns(c, u, q, p \o Run(w, v), v)
           /\ InRuns(c, u, q \o p, Run(w, v), v)
           /\ InRuns(c, u, q \o p \o Run(w, v), <<>>, v)
<1>1. PICK i, j, k : Places(i, j, k, c, u, q, p, w)
  BY PlacesAre
<1>2. /\ i \in Nat /\ j \in Nat /\ k \in Nat /\ i <= j /\ j <= k /\ k <= w /\ k <= v
      /\ j <= w /\ j <= v
  BY <1>1 DEF Places
<1>3. p \o Run(w, v) = Run(k, v) /\ q \o p = Run(j, w)
  BY <1>1, <1>2, RunConcat DEF Places
<1>4. Run(j, w) \o Run(w, v) = Run(j, v) /\ Run(v, v) = <<>>
  BY <1>2, RunConcat, NoRun
<1>5. Places(i, j, k, c, u, q, p \o Run(w, v), v)
  BY <1>1, <1>2, <1>3 DEF Places
<1>6. Places(i, j, w, c, u, q \o p, Run(w, v), v)
  BY <1>1, <1>2, <1>3 DEF Places
<1>7. Places(i, j, v, c, u, q \o p \o Run(w, v), <<>>, v)
  BY <1>1, <1>2, <1>3, <1>4 DEF Places
<1> QED
  BY <1>5, <1>6, <1>7, PlacesAre

\* Bytes move forward: from the Payload to the call or to the queue, and from the
\* call to the queue.
LEMMA InRunsMove ==
    ASSUME NEW w \in Nat, NEW c, NEW u, NEW q, NEW p, InRuns(c, u, q, p, w)
    PROVE  /\ u = <<>> /\ q = <<>> => InRuns(c, p, <<>>, <<>>, w)
           /\ InRuns(c, u, q \o p, <<>>, w)
           /\ q = <<>> => InRuns(c, <<>>, q \o u, p, w)
<1>1. PICK i, j, k : Places(i, j, k, c, u, q, p, w)
  BY PlacesAre
<1>2. i \in Nat /\ j \in Nat /\ k \in Nat /\ i <= j /\ j <= k /\ k <= w /\ i <= w /\ j <= w
  BY <1>1 DEF Places
<1>3. (u = <<>> => i = j) /\ (q = <<>> => j = k)
  BY <1>1, <1>2, RunIs DEF Places
<1>4. Run(w, w) = <<>> /\ Run(i, i) = <<>> /\ q \o p = Run(j, w)
  BY <1>1, <1>2, NoRun, RunConcat DEF Places
<1>5. u = <<>> /\ q = <<>> => Places(i, w, w, c, p, <<>>, <<>>, w)
  BY <1>1, <1>2, <1>3, <1>4 DEF Places
<1>6. Places(i, j, w, c, u, q \o p, <<>>, w)
  BY <1>1, <1>2, <1>4 DEF Places
<1>7. ASSUME q = <<>> PROVE Places(i, i, k, c, <<>>, q \o u, p, w)
  <2>1. u \in Seq(Byte) /\ u = Run(i, j)
    BY <1>1, <1>2, RunIs DEF Places
  <2>2. <<>> \o u = u
    BY <2>1, ConcatEmptySeq
  <2> QED
    BY <1>1, <1>2, <1>3, <1>4, <1>7, <2>1, <2>2 DEF Places
<1> QED
  BY <1>5, <1>6, <1>7, PlacesAre

\* The first m bytes of the queue reach the wire.
LEMMA InRunsDeliver ==
    ASSUME NEW w \in Nat, NEW c, NEW q, NEW p, NEW m \in Nat, m <= Len(q),
           InRuns(c, <<>>, q, p, w)
    PROVE  InRuns(c \o SubSeq(q, 1, m), <<>>, SubSeq(q, m + 1, Len(q)), p, w)
<1>1. PICK i, j, k : Places(i, j, k, c, <<>>, q, p, w)
  BY PlacesAre
<1>2. i \in Nat /\ j \in Nat /\ k \in Nat /\ i <= j /\ j <= k /\ k <= w /\ i = j
  BY <1>1, RunIs DEF Places
<1>3. q = Run(i, k) /\ Len(q) = k - i
  BY <1>1, <1>2, RunIs DEF Places
<1> DEFINE d == i + m
<1>4. d \in Nat /\ i <= d /\ d <= k /\ d - i = m /\ 0 <= i
  BY <1>2, <1>3
<1> HIDE DEF d
<1>5. SubSeq(q, 1, m) = Run(i, d) /\ SubSeq(q, m + 1, Len(q)) = Run(d, k)
  <2>1. /\ SubSeq(Run(i, k), 1, d - i) = Run(i, d)
        /\ SubSeq(Run(i, k), (d - i) + 1, k - i) = Run(d, k)
    <3>1. i \in Nat /\ d \in Nat /\ k \in Nat /\ i <= d /\ d <= k
      BY <1>2, <1>4
    <3> QED
      BY <3>1, RunFrontBack
  <2> QED
    BY <1>3, <1>4, <2>1
<1>6. c \o Run(i, d) = Run(0, d) /\ Run(d, d) = <<>>
  BY <1>1, <1>2, <1>4, RunConcat, NoRun DEF Places
<1>7. Places(d, d, k, c \o SubSeq(q, 1, m), <<>>, SubSeq(q, m + 1, Len(q)), p, w)
  BY <1>1, <1>2, <1>4, <1>5, <1>6 DEF Places
<1> QED
  BY <1>7, PlacesAre

LEMMA HoldsOfSubSeq ==
    ASSUME NEW s \in Seq(Byte), NEW m \in Nat \ {0}, NEW n \in Nat, n <= Len(s), m <= n + 1,
           NEW a \in Nat, NEW b \in Nat, a <= b, SubSeq(s, m, n) = Run(a, b)
    PROVE  HoldsRun(s, m, n, a, b)
<1>1. m \in Int /\ n \in Int /\ \A i \in m..n : s[i] \in Byte
  OBVIOUS
<1>2. /\ Len(SubSeq(s, m, n)) = IF m <= n THEN n - m + 1 ELSE 0
      /\ \A i \in 1..(n - m + 1) : SubSeq(s, m, n)[i] = s[m + i - 1]
  BY <1>1, SubSeqProperties
<1>3. Len(Run(a, b)) = b - a /\ \A i \in 1..(b - a) : Run(a, b)[i] = a + i
  BY RunIs
<1>4. (n - m) + 1 = b - a
  BY <1>2, <1>3
<1>5. ASSUME NEW i \in m..n PROVE s[i] = a + (i - m) + 1
  <2> DEFINE x == i - m + 1
  <2>1. x \in 1..(b - a) /\ x \in 1..(n - m + 1) /\ m + x - 1 = i /\ a + x = a + (i - m) + 1
    BY <1>4
  <2> HIDE DEF x
  <2> QED
    BY <1>2, <1>3, <2>1
<1>6. s \in Seq(Byte \cup {Junk})
  OBVIOUS
<1> QED
  BY <1>4, <1>5, <1>6 DEF HoldsRun

\* The first bytes of the argument of send_immediate behind total reach the wire.
LEMMA InRunsSend ==
    ASSUME NEW w \in Nat, NEW c, NEW p, NEW s \in Seq(Byte), NEW t \in Nat, NEW m \in Nat,
           t + m <= Len(s), InRuns(c, SubSeq(s, t + 1, Len(s)), <<>>, p, w)
    PROVE  InRuns(c \o SubSeq(s, t + 1, t + m), SubSeq(s, (t + m) + 1, Len(s)), <<>>, p, w)
<1> DEFINE x == t + 1
           y == t + m
           z == (t + m) + 1
           n == Len(s)
<1>1. /\ x \in Nat \ {0} /\ y \in Nat /\ n \in Nat /\ z \in Nat \ {0}
      /\ n <= Len(s) /\ y <= Len(s) /\ x <= n + 1
  OBVIOUS
<1>2. PICK i, j, k : Places(i, j, k, c, SubSeq(s, x, n), <<>>, p, w)
  BY PlacesAre
<1>3. i \in Nat /\ j \in Nat /\ k \in Nat /\ i <= j /\ j = k /\ k <= w /\ 0 <= i
  BY <1>2, RunIs DEF Places
<1>4. HoldsRun(s, x, n, i, j)
  <2>1. SubSeq(s, x, n) = Run(i, j)
    BY <1>2 DEF Places
  <2> HIDE DEF x, n
  <2> QED
    BY <1>1, <1>3, <2>1, HoldsOfSubSeq
<1> DEFINE d == i + m
<1>5. d \in Nat /\ i <= d /\ d <= j
  BY <1>3, <1>4 DEF HoldsRun
<1>6. HoldsRun(s, x, y, i, d) /\ HoldsRun(s, z, n, d, j)
  BY <1>3, <1>4, <1>5 DEF HoldsRun
<1> HIDE DEF d, x, y, z, n
<1>7. SubSeq(s, x, y) = Run(i, d) /\ SubSeq(s, z, n) = Run(d, j)
  BY <1>6, SubSeqIsRun
<1>8. c \o Run(i, d) = Run(0, d)
  BY <1>2, <1>3, <1>5, RunConcat DEF Places
<1>9. Places(d, j, j, c \o SubSeq(s, x, y), SubSeq(s, z, n), <<>>, p, w)
  BY <1>2, <1>3, <1>5, <1>7, <1>8 DEF Places
<1>10. InRuns(c \o SubSeq(s, x, y), SubSeq(s, z, n), <<>>, p, w)
  BY <1>9, PlacesAre
<1> QED
  BY <1>10 DEF x, y, z, n

-----------------------------------------------------------------------------
\* Every action preserves the invariant.

LEMMA Typed ==
    ASSUME TypeOK
    PROVE  /\ payload \in Seq(Byte) /\ data \in Seq(Byte) /\ outgoing \in Seq(Byte)
           /\ Len(data) \in Nat /\ Len(outgoing) \in Nat /\ Len(payload) \in Nat
           /\ written \in Nat /\ total \in Nat /\ queued \in Nat /\ queued <= SockBuf
           /\ SockBuf \in Nat /\ PayloadCap \in Nat /\ MaxWrite \in Nat /\ MaxBytes \in Nat
<1>1. payload \in Seq(Byte) /\ data \in Seq(Byte) /\ outgoing \in Seq(Byte)
  BY DEF TypeOK
<1>2. /\ SockBuf \in Nat /\ PayloadCap \in Nat /\ MaxWrite \in Nat /\ MaxBytes \in Nat
  BY SizeAssumption
<1>3. written \in Nat /\ total \in Nat /\ queued \in Nat /\ queued <= SockBuf
  BY <1>2 DEF TypeOK
<1> QED
  BY <1>1, <1>2, <1>3

LEMMA WriteStep ==
    ASSUME IInv, NEW n \in 1..MaxWrite, PayloadWrite(n)
    PROVE  IInv'
<1> DEFINE v == written + n
           buf == [i \in 1..n |-> written + i]
<1>0. /\ written \in Nat /\ MaxWrite \in Nat /\ MaxBytes \in Nat /\ PayloadCap \in Nat
      /\ payload \in Seq(Byte) /\ outgoing \in Seq(Byte)
  BY Typed DEF IInv
<1>1. n \in Nat \ {0} /\ written + n <= MaxBytes
  BY <1>0 DEF PayloadWrite
<1>2. v \in Nat /\ written <= v /\ v - written = n /\ v \in 0..MaxBytes
  BY <1>0, <1>1
<1>3. buf = Run(written, v)
  BY <1>2 DEF Run
<1>4. buf \in Seq(Byte) /\ Len(buf) = n /\ buf # <<>>
  <2>1. Run(written, v) \in Seq(Byte) /\ Len(Run(written, v)) = v - written
    BY <1>0, <1>2, RunIs
  <2>2. Len(Run(written, v)) # 0
    BY <1>1, <1>2, <2>1
  <2> HIDE DEF v, buf
  <2> QED
    BY <1>2, <1>3, <2>1, <2>2, EmptySeq
<1> HIDE DEF buf, v
<1>5. /\ pc = "idle" /\ pc' = pc /\ data' = data /\ total' = total /\ wire' = wire
      /\ isOpen' = isOpen /\ epollout' = epollout /\ queued' = queued
      /\ written' = v /\ filling' = TRUE
  BY DEF PayloadWrite, v
<1>6. \/ /\ Len(payload) + n <= PayloadCap /\ payload' = payload \o buf /\ outgoing' = outgoing
      \/ /\ n <= PayloadCap /\ outgoing' = outgoing \o payload /\ payload' = buf
      \/ /\ outgoing' = (outgoing \o payload) \o buf /\ payload' = <<>>
  BY DEF PayloadWrite, buf
<1>7. /\ payload \o buf \in Seq(Byte) /\ Len(payload \o buf) = Len(payload) + n
      /\ outgoing \o payload \in Seq(Byte) /\ (outgoing \o payload) \o buf \in Seq(Byte)
      /\ (outgoing \o payload) \o buf # <<>> /\ payload \o buf # <<>>
  <2>1. /\ payload \o buf \in Seq(Byte) /\ Len(payload \o buf) = Len(payload) + n
        /\ outgoing \o payload \in Seq(Byte)
    BY <1>0, <1>4, ConcatProperties
  <2>2. (outgoing \o payload) \o buf \in Seq(Byte)
    BY <1>4, <2>1, ConcatProperties
  <2>3. (outgoing \o payload) \o buf # <<>> /\ payload \o buf # <<>>
    BY <1>0, <1>4, <2>1, ConcatEqualIffEmpty
  <2> QED
    BY <2>1, <2>2, <2>3
<1>8. TypeOK'
  <2>1. payload' \in Seq(Byte) /\ outgoing' \in Seq(Byte) /\ Len(payload') <= PayloadCap
    <3>1. Len(<<>>) = 0 /\ <<>> \in Seq(Byte) /\ 0 <= PayloadCap
      BY Typed DEF IInv
    <3> QED
      BY <1>4, <1>6, <1>7, <3>1, Typed DEF IInv
  <2> QED
    BY <1>2, <1>5, <2>1 DEF IInv, TypeOK
<1>9. Orderly'
  BY <1>4, <1>5, <1>6, <1>7 DEF Orderly
<1>10. CallersBytes' = CallersBytes /\ Unsent = <<>> /\ Unsent' = <<>>
  BY <1>5 DEF CallersBytes, Unsent
<1>11. OverreadBounded'
  BY <1>5 DEF IInv, OverreadBounded
<1>12. ASSUME isOpen PROVE InRuns(CallersBytes, <<>>, outgoing', payload', v)
  <2>1. InRuns(CallersBytes, <<>>, outgoing, payload, written)
    BY <1>10, <1>12 DEF IInv, Partition
  <2>2. /\ InRuns(CallersBytes, <<>>, outgoing, payload \o buf, v)
        /\ InRuns(CallersBytes, <<>>, outgoing \o payload, buf, v)
        /\ InRuns(CallersBytes, <<>>, (outgoing \o payload) \o buf, <<>>, v)
    BY <1>2, <1>3, <2>1, Typed, InRunsWrite DEF IInv
  <2> QED
    BY <1>6, <2>2
<1> QED
  BY <1>5, <1>8, <1>9, <1>10, <1>11, <1>12 DEF IInv, Partition

LEMMA SendStep ==
    ASSUME IInv, ConnectionSend
    PROVE  IInv'
<1>1. /\ pc = "idle" /\ filling /\ payload' = <<>> /\ filling' = FALSE /\ epollout' = epollout
      /\ isOpen' = isOpen /\ written' = written /\ wire' = wire /\ queued' = queued
  BY DEF ConnectionSend
<1>2. Unsent = <<>> /\ CallersBytes' = CallersBytes
  BY <1>1 DEF Unsent, CallersBytes
<1>3. ASSUME isOpen PROVE InRuns(CallersBytes, <<>>, outgoing, payload, written)
  BY <1>2, <1>3 DEF IInv, Partition
<1>4. CASE outgoing = <<>> /\ pc' = "immediate" /\ data' = payload /\ total' = 0 /\ outgoing' = outgoing
  <2>1. payload # <<>> /\ Len(payload) > 0
    BY <1>1, <1>4, Typed, EmptySeq DEF IInv, Orderly
  <2>2. TypeOK'
    <3>1. payload' \in Seq(Byte) /\ data' \in Seq(Byte) /\ Len(payload') <= PayloadCap
      BY <1>1, <1>4, Typed, EmptySeq DEF IInv
    <3> QED
      BY <1>1, <1>4, <3>1 DEF IInv, TypeOK
  <2>3. Orderly' /\ OverreadBounded'
    BY <1>1, <1>4, <2>1, Typed DEF Orderly, OverreadBounded, IInv
  <2>4. Unsent' = payload
    BY <1>4, Typed, SubSeqFull DEF Unsent, IInv
  <2>5. ASSUME isOpen PROVE InRuns(CallersBytes, payload, <<>>, <<>>, written)
    BY <1>3, <1>4, <2>5, Typed, InRunsMove DEF IInv
  <2> QED
    BY <1>1, <1>2, <1>4, <2>2, <2>3, <2>4, <2>5 DEF IInv, Partition
<1>5. CASE /\ outgoing # <<>> /\ outgoing' = outgoing \o payload /\ pc' = "pollout"
           /\ data' = data /\ total' = total
  <2>1. outgoing \o payload \in Seq(Byte)
    BY Typed, ConcatProperties DEF IInv
  <2>2. TypeOK'
    <3>1. payload' \in Seq(Byte) /\ Len(payload') <= PayloadCap
      BY <1>1, Typed, EmptySeq DEF IInv
    <3> QED
      BY <1>1, <1>5, <2>1, <3>1 DEF IInv, TypeOK
  <2>3. Orderly' /\ OverreadBounded'
    BY <1>1, <1>5 DEF Orderly, OverreadBounded, IInv
  <2>4. Unsent' = <<>>
    BY <1>5 DEF Unsent
  <2>5. ASSUME isOpen PROVE InRuns(CallersBytes, <<>>, outgoing \o payload, <<>>, written)
    BY <1>3, <2>5, Typed, InRunsMove DEF IInv
  <2> QED
    BY <1>1, <1>2, <1>5, <2>2, <2>3, <2>4, <2>5 DEF IInv, Partition
<1> QED
  BY <1>4, <1>5 DEF ConnectionSend

LEMMA SendAgainStep ==
    ASSUME IInv, SendAgain
    PROVE  IInv'
<1>1. /\ pc = "immediate" /\ isOpen /\ outgoing' = outgoing \o SubSeq(data, total + 1, Len(data))
      /\ pc' = "idle" /\ filling' = filling /\ payload' = payload /\ data' = data
      /\ total' = total /\ epollout' = epollout /\ isOpen' = isOpen /\ written' = written
      /\ wire' = wire /\ queued' = queued
  BY DEF SendAgain
<1>2. Unsent = SubSeq(data, total + 1, Len(data)) /\ Unsent' = <<>> /\ CallersBytes' = CallersBytes
  BY <1>1 DEF Unsent, CallersBytes
<1>3. Unsent \in Seq(Byte)
  <2>1. \A i \in (total + 1)..Len(data) : data[i] \in Byte
    BY Typed DEF IInv
  <2>2. total + 1 \in Int /\ Len(data) \in Int
    BY Typed DEF IInv
  <2> QED
    BY <1>2, <2>1, <2>2, SubSeqProperties
<1>4. outgoing = <<>> /\ outgoing' = outgoing \o Unsent /\ outgoing' \in Seq(Byte)
  BY <1>1, <1>2, <1>3, Typed, ConcatProperties DEF IInv, Orderly
<1>5. InRuns(CallersBytes, <<>>, outgoing', payload, written)
  <2>1. InRuns(CallersBytes, Unsent, outgoing, payload, written)
    BY <1>1 DEF IInv, Partition
  <2> QED
    BY <1>4, <2>1, Typed, InRunsMove DEF IInv
<1>6. TypeOK'
  BY <1>1, <1>4 DEF IInv, TypeOK
<1>7. Orderly' /\ OverreadBounded'
  BY <1>1 DEF IInv, Orderly, OverreadBounded
<1> QED
  BY <1>1, <1>2, <1>5, <1>6, <1>7 DEF IInv, Partition

\* What one ::send of send_immediate puts on the wire: the next bytes of the
\* argument, then what lies behind it.
Piece(s, t, n) == [i \in 1..n |-> IF t + i <= Len(s) THEN s[t + i] ELSE Junk]

BytesThenJunk(piece, s, t, n, m) ==
    /\ piece \in Seq(Byte \cup {Junk}) /\ Len(piece) = n
    /\ SubSeq(piece, 1, m) = SubSeq(s, t + 1, t + m)
    /\ SubSeq(s, t + 1, t + m) \in Seq(Byte)
    /\ \A i \in 1..m : piece[i] # Junk
    /\ \A i \in (m + 1)..n : piece[i] = Junk

LEMMA SentPiece ==
    ASSUME NEW s \in Seq(Byte), NEW t \in Nat, NEW n \in Nat, NEW m \in Nat, m <= n,
           t + m <= Len(s), m = n \/ t + m = Len(s), NEW piece,
           piece = Piece(s, t, n)
    PROVE  BytesThenJunk(piece, s, t, n, m)
<1> USE DEF Piece
<1>1. \A i \in 1..n : t + i <= Len(s) => s[t + i] \in Byte
  OBVIOUS
<1>2. piece \in Seq(Byte \cup {Junk}) /\ Len(piece) = n
  BY <1>1
<1>3. \A i \in 1..m : piece[i] = s[t + i] /\ s[t + i] \in Byte
  BY <1>1
<1>4. \A i \in 1..m : piece[i] # Junk
  BY <1>3 DEF Byte
<1>5. \A i \in (m + 1)..n : piece[i] = Junk
  OBVIOUS
<1> DEFINE y == SubSeq(s, t + 1, t + m)
           z == SubSeq(piece, 1, m)
<1>6. y \in Seq(Byte) /\ Len(y) = m /\ \A i \in 1..m : y[i] = s[t + i]
  <2> DEFINE a == t + 1
             b == t + m
  <2>1. /\ a \in Int /\ b \in Int /\ \A i \in a..b : s[i] \in Byte
        /\ (IF a <= b THEN b - a + 1 ELSE 0) = m /\ b - a + 1 = m
        /\ \A i \in 1..m : a + i - 1 = t + i
    OBVIOUS
  <2> HIDE DEF a, b
  <2>2. /\ SubSeq(s, a, b) \in Seq(Byte) /\ Len(SubSeq(s, a, b)) = m
        /\ \A i \in 1..m : SubSeq(s, a, b)[i] = s[a + i - 1]
    BY <2>1, SubSeqProperties
  <2> QED
    BY <2>1, <2>2 DEF a, b
<1>7. z \in Seq(Byte) /\ Len(z) = m /\ \A i \in 1..m : z[i] = piece[i]
  <2>1. /\ 1 \in Int /\ m \in Int /\ \A i \in 1..m : piece[i] \in Byte
        /\ (IF 1 <= m THEN m - 1 + 1 ELSE 0) = m /\ m - 1 + 1 = m
        /\ \A i \in 1..m : 1 + i - 1 = i
    BY <1>3
  <2>2. /\ SubSeq(piece, 1, m) \in Seq(Byte) /\ Len(SubSeq(piece, 1, m)) = m
        /\ \A i \in 1..m : SubSeq(piece, 1, m)[i] = piece[1 + i - 1]
    BY <2>1, SubSeqProperties
  <2> QED
    BY <2>1, <2>2
<1> HIDE DEF y, z
<1>8. z = y
  <2>1. \A i \in 1..m : z[i] = y[i]
    BY <1>3, <1>6, <1>7
  <2> QED
    BY <1>6, <1>7, <2>1, SeqEqual
<1> QED
  BY <1>2, <1>4, <1>5, <1>6, <1>8 DEF y, z, BytesThenJunk

LEMMA SendSomeStep ==
    ASSUME IInv, SendSome
    PROVE  /\ IInv' /\ isOpen
           /\ \E d \in Seq(Byte) : CallersBytes' = CallersBytes \o d
<1> DEFINE n == Accepted(Len(data) + total)
           piece == Piece(data, total, n)
           m == Lesser(n, Len(data) - total)
<1>1. /\ pc = "immediate" /\ isOpen /\ Space > 0
      /\ wire' = wire \o piece /\ queued' = queued + n /\ total' = total + n
      /\ pc' = IF total + n < Len(data) THEN "immediate" ELSE "idle"
      /\ filling' = filling /\ payload' = payload /\ data' = data /\ outgoing' = outgoing
      /\ epollout' = epollout /\ isOpen' = isOpen /\ written' = written
  BY DEF SendSome, Piece
<1>2. /\ data \in Seq(Byte) /\ Len(data) \in Nat /\ total \in Nat /\ queued \in Nat
      /\ SockBuf \in Nat /\ written \in Nat /\ queued <= SockBuf
  BY Typed DEF IInv
<1>3. total < Len(data)
  BY <1>1 DEF IInv, OverreadBounded
<1>4. n \in Nat /\ n <= Len(data) + total /\ queued + n <= SockBuf /\ queued + n \in 0..SockBuf
  BY <1>1, <1>2 DEF Accepted, Lesser, Space
<1>5. m \in Nat /\ m <= n /\ total + m <= Len(data) /\ (m = n \/ total + m = Len(data))
  BY <1>2, <1>3, <1>4 DEF Lesser
<1>6. m = IF total + n < Len(data) THEN n ELSE Len(data) - total
  BY <1>2, <1>3, <1>4 DEF Lesser
<1> HIDE DEF n, m
<1>7. /\ piece \in Seq(Byte \cup {Junk}) /\ Len(piece) = n
      /\ SubSeq(piece, 1, m) = SubSeq(data, total + 1, total + m)
      /\ SubSeq(data, total + 1, total + m) \in Seq(Byte)
      /\ \A i \in 1..m : piece[i] # Junk
      /\ \A i \in (m + 1)..n : piece[i] = Junk
  <2>1. BytesThenJunk(piece, data, total, n, m)
    BY <1>2, <1>4, <1>5, SentPiece
  <2> HIDE DEF piece
  <2> QED
    BY <2>1 DEF BytesThenJunk
<1> HIDE DEF piece
<1> DEFINE d == SubSeq(data, total + 1, total + m)
           S == Byte \cup {Junk}
<1>8. CallersBytes' = CallersBytes \o d
  <2>1. wire \in Seq(S) /\ Kept(wire) \in Seq(S)
    BY DEF IInv, TypeOK, CallersBytes
  <2>2. m \in 0..Len(piece) /\ \A i \in (m + 1)..Len(piece) : piece[i] = Junk
    BY <1>4, <1>5, <1>7
  <2> HIDE DEF d
  <2>3. piece \in Seq(S) /\ \A i \in 1..m : piece[i] # Junk
    BY <1>7
  <2> HIDE DEF S
  <2>4. Kept(wire \o piece) = Kept(wire) \o SubSeq(piece, 1, m)
    BY <2>1, <2>2, <2>3, KeptOfConcat
  <2> QED
    BY <1>1, <1>7, <2>4 DEF CallersBytes, d
<1>9. CallersBytes' \in Seq(Byte)
  BY <1>7, <1>8, ConcatProperties DEF IInv
<1>10. TypeOK'
  <2>1. wire' \in Seq(S)
    <3>1. wire \in Seq(S) /\ piece \in Seq(S)
      BY <1>7 DEF IInv, TypeOK
    <3> HIDE DEF S
    <3> QED
      BY <1>1, <3>1, ConcatProperties
  <2>2. pc' \in {"idle", "immediate", "pollout"}
    BY <1>1
  <2>3. total' \in Nat /\ queued' \in 0..SockBuf
    BY <1>1, <1>2, <1>4
  <2> QED
    BY <1>1, <2>1, <2>2, <2>3 DEF IInv, TypeOK
<1>11. Orderly'
  BY <1>1 DEF IInv, Orderly
<1>12. OverreadBounded'
  <2>1. pc' = "immediate" => total' < Len(data')
    BY <1>1, <1>2
  <2>2. total' - Len(data') <= 2 * (Len(data') - 1)
    BY <1>1, <1>2, <1>3, <1>4
  <2> QED
    BY <2>1, <2>2 DEF OverreadBounded
<1>13. InRuns(CallersBytes', Unsent', outgoing', payload', written')
  <2>1. InRuns(CallersBytes, SubSeq(data, total + 1, Len(data)), <<>>, payload, written)
    BY <1>1 DEF IInv, Partition, Unsent, Orderly
  <2>2. InRuns(CallersBytes \o d, SubSeq(data, (total + m) + 1, Len(data)), <<>>, payload, written)
    BY <1>2, <1>5, <2>1, InRunsSend
  <2>3. Unsent' = SubSeq(data, (total + m) + 1, Len(data))
    <3>1. CASE total + n < Len(data)
      BY <1>1, <1>6, <3>1 DEF Unsent
    <3>2. CASE ~(total + n < Len(data))
      <4>1. (total + m) + 1 > Len(data) /\ (total + m) + 1 \in Int /\ Len(data) \in Int
        BY <1>2, <1>6, <3>2
      <4>2. SubSeq(data, (total + m) + 1, Len(data)) = <<>>
        BY <4>1, SubSeqEmpty
      <4> QED
        BY <1>1, <3>2, <4>2 DEF Unsent
    <3> QED
      BY <3>1, <3>2
  <2> QED
    BY <1>1, <1>8, <2>2, <2>3 DEF IInv, Orderly
<1> QED
  BY <1>1, <1>7, <1>8, <1>9, <1>10, <1>11, <1>12, <1>13 DEF IInv, Partition

LEMMA PollOutSomeStep ==
    ASSUME IInv, PollOutSome
    PROVE  /\ IInv' /\ isOpen
           /\ \E d \in Seq(Byte) : CallersBytes' = CallersBytes \o d
<1> DEFINE n == Accepted(Len(outgoing))
           d == SubSeq(outgoing, 1, n)
           rest == SubSeq(outgoing, n + 1, Len(outgoing))
           S == Byte \cup {Junk}
<1>1. /\ pc = "pollout" /\ isOpen /\ Space > 0
      /\ wire' = wire \o d /\ queued' = queued + n /\ outgoing' = rest
      /\ pc' \in {"idle", "pollout"} /\ epollout' \in {epollout, rest # <<>>}
      /\ filling' = filling /\ payload' = payload /\ data' = data /\ total' = total
      /\ isOpen' = isOpen /\ written' = written
  BY DEF PollOutSome, UpdateSubscription
<1>2. /\ outgoing \in Seq(Byte) /\ Len(outgoing) \in Nat /\ queued \in Nat
      /\ SockBuf \in Nat /\ written \in Nat /\ queued <= SockBuf
  BY Typed DEF IInv
<1>3. n \in Nat /\ n <= Len(outgoing) /\ queued + n \in 0..SockBuf
  BY <1>1, <1>2 DEF Accepted, Lesser, Space
<1> HIDE DEF n
<1>4. d \in Seq(Byte) /\ Len(d) = n /\ rest \in Seq(Byte)
  <2>1. 1 \in Int /\ n \in Int /\ n + 1 \in Int /\ Len(outgoing) \in Int /\ n - 1 + 1 = n
    BY <1>2, <1>3
  <2>2. \A i \in 1..n : outgoing[i] \in Byte
    BY <1>2, <1>3
  <2>3. \A i \in (n + 1)..Len(outgoing) : outgoing[i] \in Byte
    BY <1>2, <1>3
  <2>4. d \in Seq(Byte) /\ Len(d) = IF 1 <= n THEN n - 1 + 1 ELSE 0
    BY <2>1, <2>2, SubSeqProperties
  <2>5. rest \in Seq(Byte)
    BY <2>1, <2>3, SubSeqProperties
  <2> QED
    BY <1>3, <2>1, <2>4, <2>5
<1> HIDE DEF rest, d
<1>5. CallersBytes' = CallersBytes \o d
  <2>1. wire \in Seq(S) /\ Kept(wire) \in Seq(S) /\ d \in Seq(S)
    BY <1>4 DEF IInv, TypeOK, CallersBytes
  <2>2. n \in 0..Len(d) /\ \A i \in (n + 1)..Len(d) : d[i] = Junk
    BY <1>3, <1>4
  <2>3. \A i \in 1..n : d[i] # Junk
    BY <1>4 DEF Byte
  <2> HIDE DEF S
  <2>4. Kept(wire \o d) = Kept(wire) \o SubSeq(d, 1, n)
    BY <2>1, <2>2, <2>3, KeptOfConcat
  <2>5. SubSeq(d, 1, n) = d
    BY <1>4, SubSeqFull
  <2> QED
    BY <1>1, <2>4, <2>5 DEF CallersBytes
<1>6. CallersBytes' \in Seq(Byte)
  BY <1>4, <1>5, ConcatProperties DEF IInv
<1>7. TypeOK'
  <2>1. wire' \in Seq(S)
    <3>1. wire \in Seq(S) /\ d \in Seq(S)
      BY <1>4 DEF IInv, TypeOK
    <3> HIDE DEF S
    <3> QED
      BY <1>1, <3>1, ConcatProperties
  <2>2. epollout' \in BOOLEAN
    BY <1>1 DEF IInv, TypeOK
  <2> QED
    BY <1>1, <1>3, <1>4, <2>1, <2>2 DEF IInv, TypeOK
<1>8. Orderly' /\ OverreadBounded'
  BY <1>1 DEF IInv, Orderly, OverreadBounded
<1>9. InRuns(CallersBytes', Unsent', outgoing', payload', written')
  <2>1. InRuns(CallersBytes, <<>>, outgoing, payload, written) /\ Unsent' = <<>>
    BY <1>1 DEF IInv, Partition, Unsent
  <2>2. InRuns(CallersBytes \o d, <<>>, rest, payload, written)
    BY <1>2, <1>3, <2>1, InRunsDeliver DEF d, rest
  <2> QED
    BY <1>1, <1>5, <2>1, <2>2
<1> QED
  BY <1>1, <1>4, <1>5, <1>6, <1>7, <1>8, <1>9 DEF IInv, Partition

LEMMA Initially == Init => IInv
<1> SUFFICES ASSUME Init PROVE IInv
  OBVIOUS
<1>1. CallersBytes = <<>> /\ <<>> \in Seq(Byte) /\ Len(<<>>) = 0
  BY KeptOfEmpty, EmptySeq DEF Init, CallersBytes
<1>2. TypeOK
  <2>1. <<>> \in Seq(Byte \cup {Junk})
    BY EmptySeq
  <2>2. 0 <= PayloadCap /\ 0 \in 0..SockBuf /\ 0 \in 0..MaxBytes
    BY SizeAssumption
  <2> QED
    BY <1>1, <2>1, <2>2 DEF Init, TypeOK
<1>3. Orderly /\ OverreadBounded
  BY DEF Init, Orderly, OverreadBounded
<1>4. InRuns(<<>>, <<>>, <<>>, <<>>, 0)
  <2>1. Run(0, 0) = <<>>
    BY NoRun
  <2>2. Places(0, 0, 0, <<>>, <<>>, <<>>, <<>>, 0)
    BY <2>1 DEF Places
  <2> QED
    BY <2>2, PlacesAre
<1>5. Partition
  BY <1>1, <1>4 DEF Partition, Init, Unsent
<1> QED
  BY <1>1, <1>2, <1>3, <1>5 DEF IInv

\* The steps that move no byte.
LEMMA QuietStep ==
    ASSUME IInv, PollOutAgain \/ SendFails \/ CloseOnInput \/ Drain \/ UNCHANGED vars
    PROVE  IInv' /\ CallersBytes' = CallersBytes
<1>1. /\ filling' = filling /\ payload' = payload /\ data' = data /\ total' = total
      /\ outgoing' = outgoing /\ epollout' = epollout /\ written' = written /\ wire' = wire
      /\ pc' \in {pc, "idle"} /\ isOpen' \in {isOpen, FALSE}
      /\ isOpen' => pc' = pc \/ pc = "pollout"
  BY DEF PollOutAgain, SendFails, CloseOnInput, Drain, vars, IInv, TypeOK
<1>2. queued' \in 0..SockBuf
  <2>1. CASE queued' = queued
    BY <2>1 DEF IInv, TypeOK
  <2>2. CASE Drain
    BY <2>2, Typed DEF Drain, IInv
  <2> QED
    BY <2>1, <2>2 DEF PollOutAgain, SendFails, CloseOnInput, vars
<1>3. CallersBytes' = CallersBytes
  BY <1>1 DEF CallersBytes
<1>4. TypeOK'
  BY <1>1, <1>2 DEF IInv, TypeOK
<1>5. Orderly' /\ OverreadBounded'
  BY <1>1 DEF IInv, Orderly, OverreadBounded
<1>6. Partition'
  BY <1>1, <1>3 DEF IInv, Partition, Unsent
<1> QED
  BY <1>3, <1>4, <1>5, <1>6 DEF IInv

LEMMA StepKeeps == IInv /\ [Next]_vars => IInv'
<1> SUFFICES ASSUME IInv, [Next]_vars PROVE IInv'
  OBVIOUS
<1>1. CASE \E n \in 1..MaxWrite : PayloadWrite(n)
  BY <1>1, WriteStep
<1>2. CASE ConnectionSend
  BY <1>2, SendStep
<1>3. CASE SendSome
  BY <1>3, SendSomeStep
<1>4. CASE SendAgain
  BY <1>4, SendAgainStep
<1>5. CASE PollOutSome
  BY <1>5, PollOutSomeStep
<1>6. CASE PollOutAgain \/ SendFails \/ CloseOnInput \/ Drain \/ UNCHANGED vars
  BY <1>6, QuietStep
<1> QED
  BY <1>1, <1>2, <1>3, <1>4, <1>5, <1>6 DEF Next

LEMMA Inductive == Spec => []IInv
BY Initially, StepKeeps, PTL DEF Spec

-----------------------------------------------------------------------------
\* The invariants of the runs, for every capacity and buffer size.

\* The state keeps its types: in particular a Payload never holds more than its
\* capacity, the kernel's buffer never more than its size, and no Junk ever gets
\* into a Payload or into outgoing_.
THEOREM OutputTypes == Spec => []TypeOK
<1>1. IInv => TypeOK
  BY DEF IInv
<1> QED
  BY <1>1, Inductive, PTL

\* While the connection is open every byte written is in exactly one place and in
\* order (Payload-inl.h, Connection.cpp).
THEOREM BytesInOrder == Spec => []EveryByteOnce
<1>1. IInv => EveryByteOnce
  <2> SUFFICES ASSUME IInv, isOpen
               PROVE  CallersBytes \o Unsent \o outgoing \o payload = [i \in 1..written |-> i]
    BY DEF EveryByteOnce
  <2>1. written \in Nat
    BY Typed DEF IInv
  <2>2. CallersBytes \o Unsent \o outgoing \o payload = Run(0, written)
    BY <2>1, InRunsJoined DEF IInv, Partition
  <2>3. Run(0, written) = [i \in 1..written |-> i]
    BY <2>1 DEF Run
  <2> QED
    BY <2>2, <2>3
<1> QED
  BY <1>1, Inductive, PTL

\* A repeated ::send of send_immediate reads less than twice the buffer's length
\* behind its end (Connection.cpp:169).
THEOREM OverreadIsBounded == Spec => []OverreadBounded
<1>1. IInv => OverreadBounded
  BY DEF IInv
<1> QED
  BY <1>1, Inductive, PTL

-----------------------------------------------------------------------------
\* The output path implements the byte stream.

\* What a step delivers to the wire is the next run of the callers' bytes.
LEMMA Delivers ==
    ASSUME IInv, IInv', isOpen', written' = written,
           \E d \in Seq(Byte) : CallersBytes' = CallersBytes \o d
    PROVE  \E n \in Len(CallersBytes)..written : CallersBytes' = Run(0, n)
<1>1. written \in Nat /\ CallersBytes \in Seq(Byte)
  BY Typed DEF IInv
<1>2. PICK d \in Seq(Byte) : CallersBytes' = CallersBytes \o d
  OBVIOUS
<1>3. InRuns(CallersBytes', Unsent', outgoing', payload', written)
  BY DEF IInv, Partition
<1>4. PICK i, j, k : Places(i, j, k, CallersBytes', Unsent', outgoing', payload', written)
  BY <1>1, <1>3, PlacesAre
<1>5. i \in Nat /\ i <= written /\ CallersBytes' = Run(0, i)
  BY <1>1, <1>4 DEF Places
<1>6. Len(CallersBytes') = i
  <2>1. 0 \in Nat /\ 0 <= i /\ i - 0 = i
    BY <1>5
  <2>2. Len(Run(0, i)) = i - 0
    BY <1>5, <2>1, RunIs
  <2> QED
    BY <1>5, <2>1, <2>2
<1>7. /\ Len(CallersBytes \o d) = Len(CallersBytes) + Len(d) /\ Len(d) \in Nat
      /\ Len(CallersBytes) \in Nat
  BY <1>1, <1>2, ConcatProperties
<1>8. i \in Len(CallersBytes)..written
  BY <1>1, <1>2, <1>5, <1>6, <1>7
<1> QED
  BY <1>5, <1>8

\* Every step of the output path is a step of the byte stream or leaves it alone,
\* and so the callers' bytes reach the kernel in order and without inventions,
\* whatever path they take (Connection.h:47).
THEOREM ImplementsByteStream == Spec => StreamSpec
<1>1. Init => Stream!Init
  BY KeptOfEmpty DEF Init, Stream!Init, CallersBytes
<1>2. ASSUME IInv, [Next]_vars PROVE [Stream!Next]_(Stream!svars)
  <2>1. IInv'
    BY <1>2, StepKeeps
  <2>2. CASE \E n \in 1..MaxWrite : PayloadWrite(n)
    <3>1. PICK n \in 1..MaxWrite : PayloadWrite(n)
      BY <2>2
    <3>2. written' = written + n /\ wire' = wire /\ isOpen' = isOpen /\ written \in Nat /\ n \in Nat
      BY <1>2, <3>1, Typed DEF PayloadWrite, IInv
    <3>3. written' >= written /\ CallersBytes' = CallersBytes
      BY <3>2 DEF CallersBytes
    <3> QED
      BY <3>2, <3>3 DEF Stream!Next, Stream!Submit
  <2>3. CASE SendSome \/ PollOutSome
    <3>1. isOpen /\ isOpen' = isOpen /\ written' = written
      BY <2>3 DEF SendSome, PollOutSome
    <3>2. \E d \in Seq(Byte) : CallersBytes' = CallersBytes \o d
      BY <1>2, <2>3, SendSomeStep, PollOutSomeStep
    <3>3. PICK n \in Len(CallersBytes)..written : CallersBytes' = Run(0, n)
      BY <1>2, <2>1, <3>1, <3>2, Delivers
    <3>4. CallersBytes' = Stream!Bytes(0, n)
      BY <3>3 DEF Run, Stream!Bytes
    <3> QED
      BY <3>1, <3>4 DEF Stream!Next, Stream!Deliver
  <2>4. CASE SendFails \/ CloseOnInput
    BY <2>4 DEF SendFails, CloseOnInput, CallersBytes, Stream!Next, Stream!Close
  <2>5. CASE ConnectionSend \/ SendAgain \/ PollOutAgain \/ Drain \/ UNCHANGED vars
    BY <2>5 DEF ConnectionSend, SendAgain, PollOutAgain, Drain, vars, CallersBytes, Stream!svars
  <2> QED
    BY <1>2, <2>2, <2>3, <2>4, <2>5 DEF Next
<1> QED
  BY <1>1, <1>2, Inductive, PTL DEF Spec, StreamSpec, Stream!Spec
=============================================================================
