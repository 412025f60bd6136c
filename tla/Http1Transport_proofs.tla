------------------------- MODULE Http1Transport_proofs -------------------------
(***************************************************************************)
(* The HTTP/1 transport for every set of requests that keep to the grammar *)
(* of MessagesAssumption, any number of them and every way the input is    *)
(* cut: order, bodies, answers, and what is left at rest.                  *)
(***************************************************************************)
EXTENDS Http1Transport, SequenceTheorems, FiniteSetTheorems, TLAPS

-----------------------------------------------------------------------------
\* The invariant.

\* What the server has still to read of the client's lexemes.
Input == buf \o net

Lex(q, f, k) == [c |-> q[f][k], id |-> f, at |-> k]

\* The empty line of request m.
End(m) == CHOOSE e \in 2..Len(m) : HeadEnds(m, e)

\* The rest of its request follows the lexeme at i, and then the next of q.
Whole(s, q, i) ==
    LET f == s[i].id
        k == s[i].at
        r == Len(q[f]) - k
    IN  /\ f \in 1..Len(q) /\ k \in 1..Len(q[f])
        /\ i + r <= Len(s)
        /\ \A j \in 0..r : s[i + j] = Lex(q, f, k + j)
        /\ f < Len(q) => i + r < Len(s) /\ s[(i + r) + 1] = Lex(q, f + 1, 1)
        /\ f = Len(q) => Len(s) = i + r

\* s is the end of the stream of the requests q.
Framed(s, q) == \A i \in 1..Len(s) : Whole(s, q, i)

\* s is what follows the first f requests of q.
Behind(s, q, f) ==
    /\ f \in 0..Len(q)
    /\ f < Len(q) => s # <<>> /\ s[1] = Lex(q, f + 1, 1)
    /\ f = Len(q) => s = <<>>

\* The next lexeme of s is lexeme k of request f, if that has so many.
At(s, q, f, k) ==
    /\ f \in 1..Len(q) /\ k \in 1..(Len(q[f]) + 1)
    /\ k <= Len(q[f]) => s # <<>> /\ s[1] = Lex(q, f, k)
    /\ k > Len(q[f]) => Behind(s, q, f)

FirstOf(q, f) == IF q[f][1] = "nl" THEN <<>> ELSE <<Lex(q, f, 1)>>

\* What the lines of m before j leave in the headers.
Seen(m, hdrs, j) ==
    \A h \in {"len", "te"} : h \in hdrs <=> \E i \in 2..(j - 1) : m[i] = h

\* Request f is read up to the line at j.
ReadsAt(s, q, f, mg, j) ==
    /\ At(s, q, f, j) /\ j \in 2..End(q[f]) /\ q[f][j - 1] = "nl"
    /\ mg.there /\ mg.first = FirstOf(q, f) /\ mg.body = <<>> /\ Seen(q[f], mg.hdrs, j)

\* All but the body of request f is read, and the body is one of x bytes or chunks.
AwaitsAt(s, q, f, mg, x) ==
    /\ At(s, q, f, End(q[f]) + 1) /\ Len(q[f]) > End(q[f])
    /\ x # 0 /\ (x # -1 => Len(q[f]) = End(q[f]) + x)
    /\ mg.there /\ mg.first = FirstOf(q, f) /\ mg.body = <<>>

\* More was read than the body of request f: the parser waits for ever.
SwampedAt(q, f, mg, x) ==
    /\ f \in 1..Len(q) /\ Len(q[f]) > End(q[f])
    /\ mg.there /\ x \in Nat /\ Len(mg.body) > x

Live == alive /\ transport = "http1"

Place ==
    Live => \/ ~complete /\ msg = NoMsg /\ Behind(Input, sent, Len(handled))
            \/ ~complete /\ \E j \in Nat : ReadsAt(Input, sent, Len(handled) + 1, msg, j)
            \/ complete /\ AwaitsAt(Input, sent, Len(handled) + 1, msg, expected)
            \/ complete /\ SwampedAt(sent, Len(handled) + 1, msg, expected)

\* At rest there is no line in the buffer, or the parser waits for a body.
AtRest ==
    /\ ~Live => pc = "idle"
    /\ Live /\ pc = "idle" => complete \/ NewLines(buf) = {}

\* Requests handled are requests sent.
Dispatched == Len(handled) <= Len(sent) /\ DispatchedInOrder /\ OwnBody

\* The next request to be answered is the one behind the last dispatched; only one
\* whose headers are complete may have had an interim reply.
Replies ==
    /\ OneFinalResponse
    /\ Live => \A k \in 1..Len(out) : out[k][2] <= Len(handled) + (IF complete THEN 1 ELSE 0)

\* The old transport is used only after an upgrade, with a request behind it.
Reuse == dangling => transport = "http2" /\ Len(handled) + 1 < Len(sent)

IInv == TypeOK /\ Framed(Input, sent) /\ Place /\ AtRest /\ Dispatched /\ Replies /\ Reuse

-----------------------------------------------------------------------------
\* Requests.

LEMMA Shape ==
    ASSUME NEW m \in Messages
    PROVE  /\ m \in Seq(Content) /\ Len(m) \in Nat /\ End(m) \in 2..Len(m) /\ Len(m) >= 2
           /\ HeadEnds(m, End(m))
<1>1. m \in Seq(Content) /\ \E e \in 2..Len(m) : HeadEnds(m, e)
  BY MessagesAssumption
<1>2. End(m) \in 2..Len(m) /\ HeadEnds(m, End(m))
  BY <1>1 DEF End
<1>3. Len(m) \in Nat
  BY <1>1
<1> QED
  BY <1>1, <1>2, <1>3

\* The line at j of request m: the empty one, or one lexeme and its line end.
LEMMA LineOf ==
    ASSUME NEW m \in Messages, NEW j \in 2..End(m), m[j - 1] = "nl"
    PROVE  /\ m[j] = "nl" => j = End(m)
           /\ m[j] # "nl" => /\ m[j] \in Fields \cup {"fold", "nocolon"} /\ m[j + 1] = "nl"
                             /\ j + 2 \in 2..End(m)
<1> DEFINE e == End(m)
<1>1. e \in Nat /\ j \in Nat /\ 2 <= j /\ j <= e
  BY Shape
<1>2. /\ m[e - 1] = "nl" /\ m[e] = "nl"
      /\ \A i \in 2..(e - 1) : IF m[i - 1] = "nl" THEN m[i] \in Fields \cup {"fold", "nocolon"}
                               ELSE m[i] = "nl"
  BY Shape DEF HeadEnds
<1> HIDE DEF e
<1>3. "nl" \notin Fields \cup {"fold", "nocolon"}
  BY DEF Fields
<1>4. CASE j = e
  BY <1>2, <1>4 DEF e
<1>5. CASE j # e
  <2>1. j \in 2..(e - 1)
    BY <1>1, <1>5
  <2>2. m[j] \in Fields \cup {"fold", "nocolon"} /\ m[j] # "nl"
    BY <1>2, <1>3, <2>1
  <2>3. j # e - 1
    BY <1>2, <2>2
  <2>4. j + 1 \in 2..(e - 1) /\ (j + 1) - 1 = j /\ j + 2 \in 2..e
    BY <1>1, <2>1, <2>3
  <2>5. m[j + 1] = "nl"
    BY <1>2, <2>2, <2>4
  <2> QED
    BY <2>2, <2>4, <2>5 DEF e
<1> QED
  BY <1>4, <1>5

\* The first line of a request.
LEMMA FirstLineOf ==
    ASSUME NEW m \in Messages
    PROVE  /\ m[1] = "nl" => 2 \in 2..End(m)
           /\ m[1] # "nl" => m[1] \in FirstLines /\ m[2] = "nl" /\ 3 \in 2..End(m)
<1> DEFINE e == End(m)
<1>1. e \in Nat /\ 2 <= e
  BY Shape
<1>2. /\ m[e - 1] = "nl" /\ m[1] \in FirstLines \cup {"nl"}
      /\ \A i \in 2..(e - 1) : IF m[i - 1] = "nl" THEN m[i] \in Fields \cup {"fold", "nocolon"}
                               ELSE m[i] = "nl"
  BY Shape DEF HeadEnds
<1> HIDE DEF e
<1>3. ASSUME m[1] # "nl" PROVE m[1] \in FirstLines /\ m[2] = "nl" /\ 3 \in 2..e
  <2>1. e # 2
    BY <1>2, <1>3
  <2>2. 2 \in 2..(e - 1) /\ 2 - 1 = 1 /\ 3 \in 2..e
    BY <1>1, <2>1
  <2> QED
    BY <1>2, <1>3, <2>2
<1> QED
  BY <1>1, <1>3 DEF e

\* The body is what follows the empty line.
LEMMA BodyOf ==
    ASSUME NEW m \in Messages
    PROVE  /\ \A i \in 1..Len(m) : m[i] = "b" <=> i > End(m)
           /\ Cardinality({k \in 1..Len(m) : m[k] = "b"}) = Len(m) - End(m)
<1> DEFINE e == End(m)
           B == {k \in 1..Len(m) : m[k] = "b"}
<1>1. e \in Nat /\ 2 <= e /\ e <= Len(m) /\ Len(m) \in Nat
  BY Shape
<1>2. /\ m[e] = "nl" /\ m[1] \in FirstLines \cup {"nl"}
      /\ \A i \in 2..(e - 1) : IF m[i - 1] = "nl" THEN m[i] \in Fields \cup {"fold", "nocolon"}
                               ELSE m[i] = "nl"
      /\ \A i \in (e + 1)..Len(m) : m[i] = "b"
  BY Shape DEF HeadEnds
<1> HIDE DEF e
<1>3. "b" \notin FirstLines /\ "b" \notin Fields \cup {"fold", "nocolon"}
  BY DEF FirstLines, Fields
<1>4. ASSUME NEW i \in 1..Len(m) PROVE m[i] = "b" <=> i > e
  <2>1. CASE i > e
    <3>1. i \in (e + 1)..Len(m)
      BY <1>1, <2>1
    <3> QED
      BY <1>2, <2>1, <3>1
  <2>2. CASE i = 1
    BY <1>1, <1>2, <1>3, <2>2
  <2>3. CASE i = e
    BY <1>1, <1>2, <2>3
  <2>4. CASE i # 1 /\ i # e /\ ~(i > e)
    <3>1. i \in 2..(e - 1)
      BY <1>1, <2>4
    <3> QED
      BY <1>2, <1>3, <2>4, <3>1
  <2> QED
    BY <2>1, <2>2, <2>3, <2>4
<1>5. B = (e + 1)..Len(m)
  BY <1>1, <1>4
<1>6. Cardinality((e + 1)..Len(m)) = IF e + 1 > Len(m) THEN 0 ELSE Len(m) - (e + 1) + 1
  <2>1. e + 1 \in Int /\ Len(m) \in Int
    BY <1>1
  <2> QED
    BY <2>1, FS_Interval
<1>7. (IF e + 1 > Len(m) THEN 0 ELSE Len(m) - (e + 1) + 1) = Len(m) - e
  BY <1>1
<1> QED
  BY <1>4, <1>5, <1>6, <1>7 DEF e

\* The headers read up to the empty line tell the length of the body.
LEMMA Announced ==
    ASSUME NEW m \in Messages, NEW hdrs, Seen(m, hdrs, End(m))
    PROVE  /\ ContentLength(hdrs) \in {-1, 0, BodyLen}
           /\ ContentLength(hdrs) = -1 => Len(m) > End(m)
           /\ ContentLength(hdrs) # -1 => Len(m) = End(m) + ContentLength(hdrs)
           /\ BodyLen \in Nat /\ BodyLen # 0
<1> DEFINE e == End(m)
           all == {m[i] : i \in 2..e}
<1>1. e \in Nat /\ 2 <= e /\ e <= Len(m) /\ Len(m) \in Nat /\ m[e] = "nl"
  <2>1. HeadEnds(m, e)
    BY Shape
  <2>2. m[e] = "nl"
    BY <2>1 DEF HeadEnds
  <2> QED
    BY <2>2, Shape
<1>2. IF ContentLength(all) = -1 THEN Len(m) > e ELSE Len(m) = e + ContentLength(all)
  BY Shape DEF HeadEnds
<1>3. ASSUME NEW h \in {"len", "te"} PROVE h \in hdrs <=> h \in all
  <2>1. h \in hdrs <=> \E i \in 2..(e - 1) : m[i] = h
    BY DEF Seen
  <2>2. \A i \in 2..e : i \in 2..(e - 1) \/ i = e
    BY <1>1
  <2>3. \A i \in 2..(e - 1) : i \in 2..e
    BY <1>1
  <2>4. h # "nl"
    OBVIOUS
  <2> QED
    BY <1>1, <2>1, <2>2, <2>3, <2>4
<1>4. ContentLength(all) = ContentLength(hdrs)
  BY <1>3 DEF ContentLength
<1>5. BodyLen \in Nat /\ BodyLen # 0
  BY MessagesAssumption
<1> HIDE DEF e, all
<1>6. ContentLength(hdrs) \in {-1, 0, BodyLen}
  BY DEF ContentLength
<1> QED
  BY <1>2, <1>4, <1>5, <1>6 DEF e

-----------------------------------------------------------------------------
\* The stream of lexemes.

\* t is s without its first n lexemes.
Dropped(t, s, n) ==
    /\ t \in Seq(Lexeme) /\ s \in Seq(Lexeme) /\ n \in 0..Len(s)
    /\ Len(t) = Len(s) - n
    /\ \A i \in 1..Len(t) : t[i] = s[n + i]

LEMMA FramedDropped ==
    ASSUME NEW q \in Seq(Messages), NEW s, NEW t, NEW n, Dropped(t, s, n), Framed(s, q)
    PROVE  Framed(t, q)
<1> SUFFICES ASSUME NEW i \in 1..Len(t) PROVE Whole(t, q, i)
  BY DEF Framed
<1>1. /\ n \in Nat /\ n <= Len(s) /\ Len(t) = Len(s) - n /\ Len(s) \in Nat /\ Len(t) \in Nat
      /\ i \in Nat /\ n + i \in 1..Len(s) /\ t[i] = s[n + i]
  BY DEF Dropped
<1> DEFINE f == t[i].id
           k == t[i].at
           r == Len(q[f]) - k
<1>2. /\ f \in 1..Len(q) /\ k \in 1..Len(q[f])
      /\ (n + i) + r <= Len(s)
      /\ \A j \in 0..r : s[(n + i) + j] = Lex(q, f, k + j)
      /\ f < Len(q) => (n + i) + r < Len(s) /\ s[((n + i) + r) + 1] = Lex(q, f + 1, 1)
      /\ f = Len(q) => Len(s) = (n + i) + r
  BY <1>1 DEF Framed, Whole
<1> HIDE DEF f, k
<1>3. Len(q[f]) \in Nat /\ r \in Nat
  BY <1>2, Shape
<1> HIDE DEF r
<1>4. i + r <= Len(t) /\ (f = Len(q) => Len(t) = i + r) /\ (f < Len(q) => i + r < Len(t))
  <2>1. /\ (n + i) + r <= Len(s)
        /\ f < Len(q) => (n + i) + r < Len(s)
        /\ f = Len(q) => Len(s) = (n + i) + r
    BY <1>2
  <2> QED
    BY <1>1, <1>3, <2>1
<1>5. ASSUME NEW j \in 0..r PROVE t[i + j] = Lex(q, f, k + j)
  <2>1. i + j \in 1..Len(t) /\ n + (i + j) = (n + i) + j
    BY <1>1, <1>3, <1>4
  <2>2. t[i + j] = s[n + (i + j)]
    BY <2>1 DEF Dropped
  <2> QED
    BY <1>2, <2>1, <2>2
<1>6. ASSUME f < Len(q) PROVE t[(i + r) + 1] = Lex(q, f + 1, 1)
  <2>1. (i + r) + 1 \in 1..Len(t) /\ n + ((i + r) + 1) = ((n + i) + r) + 1
    BY <1>1, <1>3, <1>4, <1>6
  <2>2. t[(i + r) + 1] = s[n + ((i + r) + 1)]
    BY <2>1 DEF Dropped
  <2> QED
    BY <1>2, <1>6, <2>1, <2>2
<1> QED
  BY <1>2, <1>4, <1>5, <1>6 DEF Whole, f, k, r

\* t is s and then the lexemes of the request m that follows those of q.
Extended(t, s, q, m) ==
    /\ t \in Seq(Lexeme) /\ s \in Seq(Lexeme) /\ Len(t) = Len(s) + Len(m)
    /\ \A i \in 1..Len(s) : t[i] = s[i]
    /\ \A k \in 1..Len(m) : t[Len(s) + k] = Lex(Append(q, m), Len(q) + 1, k)

LEMMA Appended ==
    ASSUME NEW q \in Seq(Messages), NEW m \in Messages
    PROVE  /\ Append(q, m) \in Seq(Messages) /\ Len(Append(q, m)) = Len(q) + 1
           /\ \A f \in 1..Len(q) : Append(q, m)[f] = q[f]
           /\ Append(q, m)[Len(q) + 1] = m /\ Len(q) \in Nat
BY AppendProperties

LEMMA FramedExtended ==
    ASSUME NEW q \in Seq(Messages), NEW msge \in Messages, NEW s, NEW t,
           Extended(t, s, q, msge), Framed(s, q)
    PROVE  Framed(t, Append(q, msge))
<1> DEFINE p == Append(q, msge)
           m == Len(msge)
<1>1. /\ p \in Seq(Messages) /\ Len(p) = Len(q) + 1 /\ Len(p[Len(q) + 1]) = m
      /\ \A f \in 1..Len(q) : p[f] = q[f]
  BY Appended
<1>2. m \in Nat /\ m >= 1
  BY Shape
<1>3. /\ Len(t) = Len(s) + m /\ Len(s) \in Nat /\ Len(t) \in Nat /\ Len(q) \in Nat
      /\ \A i \in 1..Len(s) : t[i] = s[i]
      /\ \A k \in 1..m : t[Len(s) + k] = Lex(p, Len(q) + 1, k)
  BY DEF Extended
<1> HIDE DEF p, m
<1> SUFFICES ASSUME NEW i \in 1..Len(t) PROVE Whole(t, p, i)
  BY DEF Framed, p
<1>4. CASE i <= Len(s)
  <2> DEFINE f == s[i].id
             k == s[i].at
             r == Len(q[f]) - k
  <2>1. /\ f \in 1..Len(q) /\ k \in 1..Len(q[f]) /\ i + r <= Len(s)
        /\ \A j \in 0..r : s[i + j] = Lex(q, f, k + j)
        /\ f < Len(q) => i + r < Len(s) /\ s[(i + r) + 1] = Lex(q, f + 1, 1)
        /\ f = Len(q) => Len(s) = i + r
    BY <1>3, <1>4 DEF Framed, Whole
  <2>2. t[i] = s[i] /\ t[i].id = f /\ t[i].at = k /\ i \in Nat /\ i >= 1
    BY <1>3, <1>4
  <2> HIDE DEF f, k
  <2>3. Len(q[f]) \in Nat /\ r \in Nat /\ Len(p[f]) = Len(q[f])
    <3>1. Len(q[f]) \in Nat
      BY <2>1, Shape
    <3> QED
      BY <1>1, <2>1, <3>1
  <2> HIDE DEF r
  <2>4. ASSUME NEW j \in 0..r PROVE t[i + j] = Lex(p, f, k + j)
    <3>1. i + j \in 1..Len(s)
      BY <1>3, <2>1, <2>2, <2>3
    <3>2. Lex(p, f, k + j) = Lex(q, f, k + j)
      BY <1>1, <2>1 DEF Lex
    <3> QED
      BY <1>3, <2>1, <3>1, <3>2
  <2>5. (i + r) < Len(t) /\ i + r <= Len(t)
    BY <1>2, <1>3, <2>1, <2>2, <2>3
  <2>6. t[(i + r) + 1] = Lex(p, f + 1, 1)
    <3>1. CASE f < Len(q)
      <4>1. (i + r) + 1 \in 1..Len(s)
        BY <1>3, <2>1, <2>2, <2>3, <3>1
      <4>2. f + 1 \in 1..Len(q)
        BY <1>3, <2>1, <3>1
      <4>3. Lex(p, f + 1, 1) = Lex(q, f + 1, 1)
        BY <1>1, <4>2 DEF Lex
      <4> QED
        BY <1>3, <2>1, <3>1, <4>1, <4>3
    <3>2. CASE f = Len(q)
      <4>1. (i + r) + 1 = Len(s) + 1 /\ 1 \in 1..m
        BY <1>2, <1>3, <2>1, <3>2
      <4> QED
        BY <1>3, <3>2, <4>1
    <3> QED
      BY <1>3, <2>1, <3>1, <3>2
  <2>7. f \in 1..Len(p) /\ f < Len(p) /\ f # Len(p) /\ k \in 1..Len(p[f])
    BY <1>1, <1>3, <2>1, <2>3
  <2>8. r = Len(p[t[i].id]) - t[i].at
    BY <2>2, <2>3 DEF r
  <2> QED
    BY <2>2, <2>4, <2>5, <2>6, <2>7, <2>8 DEF Whole
<1>5. CASE i > Len(s)
  <2> DEFINE k == i - Len(s)
             r == m - k
  <2>1. k \in 1..m /\ i = Len(s) + k /\ r \in Nat /\ i + r = Len(t)
    BY <1>2, <1>3, <1>5
  <2>2. t[i] = Lex(p, Len(q) + 1, k)
    BY <1>3, <2>1
  <2>3. ASSUME NEW j \in 0..r PROVE t[i + j] = Lex(p, Len(q) + 1, k + j)
    <3>1. k + j \in 1..m /\ i + j = Len(s) + (k + j)
      BY <1>2, <1>3, <2>1
    <3> QED
      BY <1>3, <3>1
  <2> HIDE DEF k, r
  <2>4. t[i].id = Len(q) + 1 /\ t[i].at = k
    BY <2>2 DEF Lex
  <2>5. r = Len(p[Len(q) + 1]) - k
    BY <1>1 DEF r
  <2>6. /\ Len(q) + 1 \in 1..Len(p) /\ ~(Len(q) + 1 < Len(p)) /\ k \in 1..Len(p[Len(q) + 1])
        /\ i + r <= Len(t) /\ Len(t) = i + r
    BY <1>1, <1>3, <2>1
  <2> QED
    BY <2>3, <2>4, <2>5, <2>6 DEF Whole
<1> QED
  BY <1>3, <1>4, <1>5

LEMMA Regroup ==
    ASSUME NEW S, NEW a \in Seq(S), NEW b \in Seq(S), NEW c \in Seq(S)
    PROVE  a \o (b \o c) = (a \o b) \o c
BY ConcatAssociative

LEMMA Joined ==
    ASSUME NEW a \in Seq(Lexeme), NEW b \in Seq(Lexeme)
    PROVE  /\ a \o b \in Seq(Lexeme) /\ Len(a \o b) = Len(a) + Len(b)
           /\ Len(a) \in Nat /\ Len(b) \in Nat
           /\ \A i \in 1..Len(a) : (a \o b)[i] = a[i]
           /\ \A i \in 1..Len(b) : (a \o b)[Len(a) + i] = b[i]
<1>1. /\ a \o b \in Seq(Lexeme) /\ Len(a \o b) = Len(a) + Len(b)
      /\ \A i \in 1..(Len(a) + Len(b)) :
            (a \o b)[i] = IF i <= Len(a) THEN a[i] ELSE b[i - Len(a)]
  BY ConcatProperties
<1>2. Len(a) \in Nat /\ Len(b) \in Nat
  OBVIOUS
<1>3. ASSUME NEW i \in 1..Len(a) PROVE (a \o b)[i] = a[i]
  <2>1. i \in 1..(Len(a) + Len(b)) /\ i <= Len(a)
    BY <1>2
  <2> QED
    BY <1>1, <2>1
<1>4. ASSUME NEW i \in 1..Len(b) PROVE (a \o b)[Len(a) + i] = b[i]
  <2>1. Len(a) + i \in 1..(Len(a) + Len(b)) /\ ~(Len(a) + i <= Len(a)) /\ (Len(a) + i) - Len(a) = i
    BY <1>2
  <2> QED
    BY <1>1, <2>1
<1> QED
  BY <1>1, <1>2, <1>3, <1>4

LEMMA Rest ==
    ASSUME NEW s \in Seq(Lexeme), NEW n \in 0..Len(s)
    PROVE  Dropped(SubSeq(s, n + 1, Len(s)), s, n)
<1> DEFINE a == n + 1
           b == Len(s)
<1>1. /\ a \in Int /\ b \in Int /\ \A i \in a..b : s[i] \in Lexeme
      /\ (IF a <= b THEN b - a + 1 ELSE 0) = Len(s) - n /\ b - a + 1 = Len(s) - n
      /\ \A i \in 1..(Len(s) - n) : a + i - 1 = n + i
  OBVIOUS
<1> HIDE DEF a, b
<1>2. /\ SubSeq(s, a, b) \in Seq(Lexeme) /\ Len(SubSeq(s, a, b)) = Len(s) - n
      /\ \A i \in 1..(Len(s) - n) : SubSeq(s, a, b)[i] = s[a + i - 1]
  BY <1>1, SubSeqProperties
<1> DEFINE t == SubSeq(s, a, b)
<1>3. t \in Seq(Lexeme) /\ Len(t) = Len(s) - n /\ \A i \in 1..(Len(s) - n) : t[i] = s[n + i]
  BY <1>1, <1>2
<1> HIDE DEF t
<1>4. Dropped(t, s, n)
  BY <1>3 DEF Dropped
<1> QED
  BY <1>4 DEF a, b, t

\* Dropping lexemes of the buffer drops them of the stream.
LEMMA JoinedDrop ==
    ASSUME NEW a \in Seq(Lexeme), NEW b \in Seq(Lexeme), NEW c, NEW n, Dropped(c, a, n)
    PROVE  Dropped(c \o b, a \o b, n)
<1>1. /\ c \in Seq(Lexeme) /\ Len(c) = Len(a) - n /\ (\A i \in 1..Len(c) : c[i] = a[n + i])
      /\ n \in Nat /\ n <= Len(a)
  BY DEF Dropped
<1>2. /\ a \o b \in Seq(Lexeme) /\ Len(a \o b) = Len(a) + Len(b)
      /\ Len(a) \in Nat /\ Len(b) \in Nat
      /\ \A i \in 1..Len(a) : (a \o b)[i] = a[i]
      /\ \A i \in 1..Len(b) : (a \o b)[Len(a) + i] = b[i]
  BY Joined
<1>3. /\ c \o b \in Seq(Lexeme) /\ Len(c \o b) = Len(c) + Len(b)
      /\ Len(c) \in Nat
      /\ \A i \in 1..Len(c) : (c \o b)[i] = c[i]
      /\ \A i \in 1..Len(b) : (c \o b)[Len(c) + i] = b[i]
  BY <1>1, Joined
<1> DEFINE s == a \o b
           t == c \o b
<1> HIDE DEF s, t
<1>4. ASSUME NEW i \in 1..Len(t) PROVE t[i] = s[n + i]
  <2>1. CASE i <= Len(c)
    <3>1. i \in 1..Len(c) /\ n + i \in 1..Len(a)
      BY <1>1, <1>2, <1>3, <2>1
    <3> QED
      BY <1>1, <1>2, <1>3, <3>1 DEF s, t
  <2>2. CASE i > Len(c)
    <3> DEFINE j == i - Len(c)
    <3>1. /\ Len(t) = Len(c) + Len(b) /\ Len(c) \in Nat /\ Len(b) \in Nat /\ Len(a) \in Nat
          /\ Len(c) = Len(a) - n /\ n \in Nat
      BY <1>1, <1>2, <1>3 DEF t
    <3>2. j \in 1..Len(b) /\ i = Len(c) + j /\ n + i = Len(a) + j
      BY <2>2, <3>1
    <3> HIDE DEF j
    <3>3. t[Len(c) + j] = b[j] /\ s[Len(a) + j] = b[j]
      BY <1>2, <1>3, <3>2 DEF s, t
    <3> QED
      BY <3>2, <3>3
  <2> QED
    BY <1>2, <1>3, <2>1, <2>2 DEF t
<1>5. n \in 0..Len(s) /\ Len(t) = Len(s) - n
  BY <1>1, <1>2, <1>3 DEF s, t
<1> QED
  BY <1>2, <1>3, <1>4, <1>5 DEF Dropped, s, t

LEMMA Split ==
    ASSUME NEW b \in Seq(Lexeme), NEW n \in 1..Len(b)
    PROVE  /\ SubSeq(b, 1, n) \in Seq(Lexeme) /\ Len(SubSeq(b, 1, n)) = n
           /\ SubSeq(b, n + 1, Len(b)) \in Seq(Lexeme)
           /\ SubSeq(b, 1, n) \o SubSeq(b, n + 1, Len(b)) = b
<1>1. /\ Len(b) \in Nat /\ n \in Nat /\ 1 \in Int /\ n \in Int /\ n - 1 + 1 = n /\ 1 <= n
      /\ n \in 0..Len(b)
  OBVIOUS
<1>2. \A i \in 1..n : b[i] \in Lexeme
  OBVIOUS
<1>3. SubSeq(b, 1, n) \in Seq(Lexeme) /\ Len(SubSeq(b, 1, n)) = IF 1 <= n THEN n - 1 + 1 ELSE 0
  BY <1>1, <1>2, SubSeqProperties
<1>4. SubSeq(b, n + 1, Len(b)) \in Seq(Lexeme)
  BY <1>1, Rest DEF Dropped
<1>5. 1 \in 1..(Len(b) + 1) /\ n \in (1 - 1)..Len(b) /\ Len(b) \in n..Len(b)
  OBVIOUS
<1>6. SubSeq(b, 1, n) \o SubSeq(b, n + 1, Len(b)) = SubSeq(b, 1, Len(b))
  BY <1>5, ConcatAdjacentSubSeq
<1> QED
  BY <1>1, <1>3, <1>4, <1>6, SubSeqFull

LEMMA FunctionSeq ==
    ASSUME NEW S, NEW n \in Nat, NEW e \in [1..n -> S]
    PROVE  e \in Seq(S) /\ Len(e) = n
<1>1. e \in Seq(S)
  BY SeqDef
<1>2. DOMAIN e = 1..n
  OBVIOUS
<1> QED
  BY <1>1, <1>2, LenProperties

\* A request of the client extends the stream.
LEMMA JoinedSend ==
    ASSUME NEW a \in Seq(Lexeme), NEW b \in Seq(Lexeme), NEW q \in Seq(Messages),
           NEW m \in Messages
    PROVE  /\ b \o Lexemes(m, Len(q) + 1) \in Seq(Lexeme)
           /\ Extended(a \o (b \o Lexemes(m, Len(q) + 1)), a \o b, q, m)
<1> DEFINE s == a \o b
           e == Lexemes(m, Len(q) + 1)
<1>0. /\ e \in Seq(Lexeme) /\ Len(e) = Len(m)
      /\ \A k \in 1..Len(m) : e[k] = Lex(Append(q, m), Len(q) + 1, k)
  <2>1. m \in Seq(Content) /\ Len(m) \in Nat
    BY Shape
  <2>2. Append(q, m)[Len(q) + 1] = m /\ Len(q) + 1 \in Nat
    BY Appended
  <2>3. \A k \in 1..Len(m) : m[k] \in Content /\ k \in Nat
    BY <2>1
  <2>4. \A k \in 1..Len(m) : [c |-> m[k], id |-> Len(q) + 1, at |-> k] \in Lexeme
    BY <2>2, <2>3 DEF Lexeme
  <2>5. e = [k \in 1..Len(m) |-> [c |-> m[k], id |-> Len(q) + 1, at |-> k]]
    BY DEF Lexemes
  <2> HIDE DEF e
  <2>6. e \in [1..Len(m) -> Lexeme]
    BY <2>4, <2>5
  <2>7. e \in Seq(Lexeme) /\ Len(e) = Len(m)
    BY <2>1, <2>6, FunctionSeq
  <2> QED
    BY <2>2, <2>5, <2>7 DEF Lex
<1> HIDE DEF e
<1>1. a \o (b \o e) = s \o e
  BY <1>0, Regroup
<1>2. s \in Seq(Lexeme) /\ b \o e \in Seq(Lexeme)
  BY <1>0, Joined
<1> HIDE DEF s
<1>3. /\ s \o e \in Seq(Lexeme) /\ Len(s \o e) = Len(s) + Len(e)
      /\ \A i \in 1..Len(s) : (s \o e)[i] = s[i]
      /\ \A i \in 1..Len(e) : (s \o e)[Len(s) + i] = e[i]
  BY <1>0, <1>2, Joined
<1>4. Extended(s \o e, s, q, m)
  BY <1>0, <1>2, <1>3 DEF Extended
<1> QED
  BY <1>1, <1>2, <1>4 DEF s, e

-----------------------------------------------------------------------------
\* The place in the stream.

LEMMA BehindAt ==
    ASSUME NEW q \in Seq(Messages), NEW s, NEW f, Behind(s, q, f), f < Len(q)
    PROVE  f + 1 \in 1..Len(q) /\ At(s, q, f + 1, 1)
<1>1. f \in 0..Len(q) /\ Len(q) \in Nat /\ s # <<>> /\ s[1] = Lex(q, f + 1, 1)
  BY DEF Behind
<1>2. f + 1 \in 1..Len(q)
  BY <1>1
<1>3. Len(q[f + 1]) \in Nat /\ Len(q[f + 1]) >= 2
  BY <1>2, Shape
<1> HIDE DEF Behind
<1>4. 1 \in 1..(Len(q[f + 1]) + 1) /\ 1 <= Len(q[f + 1]) /\ ~(1 > Len(q[f + 1]))
  BY <1>3
<1> QED
  BY <1>1, <1>2, <1>4 DEF At

\* The next n lexemes of s are those of request f from k, and dropping them moves on.
Ahead(s, q, f, k, n) ==
    /\ n <= Len(s)
    /\ \A j \in 0..(n - 1) : s[1 + j] = Lex(q, f, k + j)
    /\ \A t : Dropped(t, s, n) => At(t, q, f, k + n)

LEMMA AtDropped ==
    ASSUME NEW q \in Seq(Messages), NEW s \in Seq(Lexeme), NEW f, NEW k, NEW n \in Nat \ {0},
           Framed(s, q), At(s, q, f, k), k + n <= Len(q[f]) + 1
    PROVE  Ahead(s, q, f, k, n)
<1> DEFINE L == Len(q[f])
           r == L - k
<1>1. f \in 1..Len(q) /\ k \in 1..(L + 1) /\ Len(s) \in Nat /\ Len(q) \in Nat
  BY DEF At
<1>2. L \in Nat
  BY <1>1, Shape
<1>3. k <= L => s # <<>> /\ s[1] = Lex(q, f, k)
  BY DEF At
<1>4. k + n <= L + 1
  OBVIOUS
<1> HIDE DEF L
<1>5. k \in Nat /\ k >= 1 /\ k + n \in 1..(L + 1) /\ k <= L /\ r \in Nat /\ n <= r + 1
  BY <1>1, <1>2, <1>4
<1>6. s # <<>> /\ s[1] = Lex(q, f, k)
  BY <1>3, <1>5
<1>7. 1 \in 1..Len(s) /\ s[1].id = f /\ s[1].at = k
  BY <1>1, <1>6, EmptySeq DEF Lex
<1>8. /\ 1 + r <= Len(s)
      /\ \A j \in 0..r : s[1 + j] = Lex(q, f, k + j)
      /\ f < Len(q) => 1 + r < Len(s) /\ s[(1 + r) + 1] = Lex(q, f + 1, 1)
      /\ f = Len(q) => Len(s) = 1 + r
  BY <1>7 DEF Framed, Whole, L
<1> HIDE DEF r
<1>9. n <= Len(s)
  BY <1>1, <1>5, <1>8
<1>10. \A j \in 0..(n - 1) : s[1 + j] = Lex(q, f, k + j)
  BY <1>5, <1>8
<1>11. ASSUME NEW t, Dropped(t, s, n) PROVE At(t, q, f, k + n)
  <2>1. t \in Seq(Lexeme) /\ Len(t) = Len(s) - n /\ \A i \in 1..Len(t) : t[i] = s[n + i]
    BY <1>11 DEF Dropped
  <2>2. CASE k + n <= L
    <3>1. n \in 0..r /\ Len(t) >= 1 /\ 1 \in 1..Len(t) /\ n + 1 = 1 + n
      BY <1>1, <1>2, <1>5, <1>8, <2>1, <2>2 DEF r
    <3>2. t[1] = Lex(q, f, k + n)
      BY <1>8, <2>1, <3>1
    <3>3. t # <<>>
      BY <2>1, <3>1
    <3>4. k + n <= Len(q[f]) /\ ~(k + n > Len(q[f]))
      BY <1>2, <1>5, <2>2 DEF L
    <3> QED
      BY <1>1, <1>5, <3>2, <3>3, <3>4 DEF At, L
  <2>3. CASE k + n > L
    <3>1. n = r + 1 /\ n + 1 = (1 + r) + 1
      BY <1>2, <1>5, <2>3 DEF r
    <3>2. ASSUME f < Len(q) PROVE t # <<>> /\ t[1] = Lex(q, f + 1, 1)
      <4>1. Len(t) >= 1 /\ 1 \in 1..Len(t)
        BY <1>1, <1>5, <1>8, <2>1, <3>1, <3>2
      <4>2. t[1] = s[n + 1]
        BY <2>1, <4>1
      <4> QED
        BY <1>8, <2>1, <3>1, <3>2, <4>1, <4>2
    <3>3. ASSUME f = Len(q) PROVE t = <<>>
      <4>1. Len(t) = 0
        BY <1>1, <1>5, <1>8, <2>1, <3>1, <3>3
      <4> QED
        BY <2>1, <4>1, EmptySeq
    <3>4. f \in 0..Len(q)
      BY <1>1
    <3>5. Behind(t, q, f)
      BY <3>2, <3>3, <3>4 DEF Behind
    <3>6. ~(k + n <= Len(q[f]))
      BY <1>2, <1>5, <2>3 DEF L
    <3> QED
      BY <1>1, <1>5, <3>5, <3>6 DEF At, L
  <2> QED
    BY <1>2, <1>5, <2>2, <2>3
<1> QED
  BY <1>9, <1>10, <1>11 DEF Ahead

\* Another request sent leaves the place where it was.
LEMMA BehindExtended ==
    ASSUME NEW q \in Seq(Messages), NEW m \in Messages, NEW s, NEW t, NEW f,
           Extended(t, s, q, m), Behind(s, q, f)
    PROVE  Behind(t, Append(q, m), f)
<1> DEFINE p == Append(q, m)
<1>1. /\ Len(p) = Len(q) + 1 /\ Len(q) \in Nat /\ (\A x \in 1..Len(q) : p[x] = q[x])
      /\ p[Len(q) + 1] = m
  BY Appended
<1>2. /\ s \in Seq(Lexeme) /\ t \in Seq(Lexeme) /\ Len(t) = Len(s) + Len(m) /\ Len(s) \in Nat
      /\ \A i \in 1..Len(s) : t[i] = s[i]
      /\ \A k \in 1..Len(m) : t[Len(s) + k] = Lex(p, Len(q) + 1, k)
  BY DEF Extended
<1>3. Len(m) \in Nat /\ Len(m) >= 2
  BY Shape
<1>4. /\ f \in 0..Len(q) /\ (f < Len(q) => s # <<>> /\ s[1] = Lex(q, f + 1, 1))
      /\ (f = Len(q) => s = <<>>)
  BY DEF Behind
<1> HIDE DEF p
<1>5. t # <<>>
  BY <1>2, <1>3
<1>6. f \in 0..Len(p) /\ f < Len(p) /\ f # Len(p)
  BY <1>1, <1>4
<1>7. t[1] = Lex(p, f + 1, 1)
  <2>1. CASE f < Len(q)
    <3>1. 1 \in 1..Len(s) /\ f + 1 \in 1..Len(q)
      BY <1>1, <1>2, <1>4, <2>1, EmptySeq
    <3>2. Lex(p, f + 1, 1) = Lex(q, f + 1, 1)
      BY <1>1, <3>1 DEF Lex
    <3> QED
      BY <1>2, <1>4, <2>1, <3>1, <3>2
  <2>2. CASE f = Len(q)
    <3>1. Len(s) = 0 /\ 1 \in 1..Len(m) /\ Len(s) + 1 = 1
      BY <1>2, <1>3, <1>4, <2>2
    <3> QED
      BY <1>2, <2>2, <3>1
  <2> QED
    BY <1>1, <1>4, <2>1, <2>2
<1>8. Behind(t, p, f)
  BY <1>5, <1>6, <1>7 DEF Behind
<1> QED
  BY <1>8 DEF p

LEMMA AtExtended ==
    ASSUME NEW q \in Seq(Messages), NEW m \in Messages, NEW s, NEW t, NEW f, NEW k,
           Extended(t, s, q, m), At(s, q, f, k)
    PROVE  /\ At(t, Append(q, m), f, k)
           /\ f \in 1..Len(q) /\ f \in 1..Len(Append(q, m)) /\ Append(q, m)[f] = q[f]
           /\ FirstOf(Append(q, m), f) = FirstOf(q, f)
<1> DEFINE p == Append(q, m)
<1>1. /\ Len(p) = Len(q) + 1 /\ Len(q) \in Nat /\ \A x \in 1..Len(q) : p[x] = q[x]
  BY Appended
<1>2. /\ s \in Seq(Lexeme) /\ t \in Seq(Lexeme) /\ Len(t) = Len(s) + Len(m) /\ Len(s) \in Nat
      /\ \A i \in 1..Len(s) : t[i] = s[i]
  BY DEF Extended
<1>3. Len(m) \in Nat
  BY Shape
<1>4. /\ f \in 1..Len(q) /\ k \in 1..(Len(q[f]) + 1)
      /\ k <= Len(q[f]) => s # <<>> /\ s[1] = Lex(q, f, k)
      /\ k > Len(q[f]) => Behind(s, q, f)
  BY DEF At
<1>5. Behind(s, q, f) => Behind(t, p, f)
  BY BehindExtended
<1> HIDE DEF p
<1>6. f \in 1..Len(p) /\ p[f] = q[f] /\ Lex(p, f, k) = Lex(q, f, k) /\ Lex(p, f, 1) = Lex(q, f, 1)
  BY <1>1, <1>4 DEF Lex
<1>7. k <= Len(p[f]) => t # <<>> /\ t[1] = Lex(p, f, k)
  <2> SUFFICES ASSUME k <= Len(p[f]) PROVE t # <<>> /\ t[1] = Lex(p, f, k)
    OBVIOUS
  <2>1. s # <<>> /\ s[1] = Lex(p, f, k)
    BY <1>4, <1>6
  <2>2. 1 \in 1..Len(s) /\ Len(t) >= 1
    BY <1>2, <1>3, <2>1, EmptySeq
  <2> QED
    BY <1>2, <2>1, <2>2
<1>8. At(t, p, f, k)
  BY <1>4, <1>5, <1>6, <1>7 DEF At
<1>9. FirstOf(p, f) = FirstOf(q, f)
  BY <1>6 DEF FirstOf
<1> QED
  BY <1>4, <1>6, <1>8, <1>9 DEF p

-----------------------------------------------------------------------------
\* Lines.

LEMMA Typed ==
    ASSUME TypeOK
    PROVE  /\ buf \in Seq(Lexeme) /\ net \in Seq(Lexeme) /\ sent \in Seq(Messages)
           /\ Len(buf) \in Nat /\ Len(net) \in Nat /\ Len(sent) \in Nat /\ Len(handled) \in Nat
           /\ Input \in Seq(Lexeme) /\ Len(Input) = Len(buf) + Len(net)
           /\ \A i \in 1..Len(buf) : Input[i] = buf[i]
           /\ buf # <<>> => Input # <<>> /\ Input[1] = buf[1] /\ Len(buf) >= 1
<1>1. /\ buf \in Seq(Lexeme) /\ net \in Seq(Lexeme) /\ sent \in Seq(Messages)
      /\ Len(buf) \in Nat /\ Len(net) \in Nat /\ Len(sent) \in Nat /\ Len(handled) \in Nat
  <2>1. /\ buf \in Seq(Lexeme) /\ net \in Seq(Lexeme) /\ sent \in Seq(Messages)
        /\ handled \in Seq([id : Nat, body : Seq(Lexeme)])
    BY DEF TypeOK
  <2>2. \A S, s : s \in Seq(S) => Len(s) \in Nat
    OBVIOUS
  <2> QED
    BY <2>1, <2>2
<1>2. /\ Input \in Seq(Lexeme) /\ Len(Input) = Len(buf) + Len(net)
      /\ \A i \in 1..Len(buf) : Input[i] = buf[i]
  BY <1>1, Joined DEF Input
<1> HIDE DEF Input
<1>3. ASSUME buf # <<>> PROVE Input # <<>> /\ Input[1] = buf[1] /\ Len(buf) >= 1
  <2>1. Len(buf) >= 1 /\ 1 \in 1..Len(buf)
    BY <1>1, <1>3, EmptySeq
  <2> QED
    BY <1>1, <1>2, <2>1
<1> QED
  BY <1>1, <1>2, <1>3

LEMMA FirstIs ==
    ASSUME NEW S \in SUBSET Nat, NEW i \in S, \A j \in S : i <= j
    PROVE  First(S) = i
<1> DEFINE P(x) == \A j \in S : x <= j
<1>1. \E x \in S : P(x)
  OBVIOUS
<1>2. First(S) \in S /\ P(First(S))
  BY <1>1 DEF First
<1> HIDE DEF First
<1>3. First(S) \in Nat /\ i \in Nat /\ First(S) <= i /\ i <= First(S)
  BY <1>2
<1> QED
  BY <1>3

\* getLine where the line has one lexeme or none.
LEMMA LineRead ==
    ASSUME NEW b \in Seq(Lexeme), NewLines(b) # {}
    PROVE  /\ b # <<>>
           /\ b[1].c = "nl" => Line(b) = <<>> /\ Dropped(RestAfterLine(b), b, 1)
           /\ b[1].c # "nl" /\ (Len(b) >= 2 => b[2].c = "nl") =>
                 Line(b) = <<b[1]>> /\ Dropped(RestAfterLine(b), b, 2)
<1> DEFINE S == NewLines(b)
<1>1. S \in SUBSET Nat /\ (\A i \in S : i \in 1..Len(b) /\ b[i].c = "nl") /\ Len(b) \in Nat
  BY DEF NewLines
<1>2. PICK x : x \in S
  OBVIOUS
<1>3. Len(b) >= 1 /\ 1 \in 1..Len(b) /\ 1 \in 0..Len(b)
  BY <1>1, <1>2
<1>4. ASSUME b[1].c = "nl" PROVE Line(b) = <<>> /\ Dropped(RestAfterLine(b), b, 1)
  <2>1. 1 \in S
    BY <1>3, <1>4 DEF NewLines
  <2>2. \A j \in S : 1 <= j
    BY <1>1
  <2> HIDE DEF S
  <2>3. First(S) = 1
    BY <1>1, <2>1, <2>2, FirstIs
  <2>4. Line(b) = SubSeq(b, 1, 0) /\ RestAfterLine(b) = SubSeq(b, 1 + 1, Len(b))
    BY <2>3 DEF Line, RestAfterLine, S
  <2>5. SubSeq(b, 1, 0) = <<>>
    OBVIOUS
  <2> QED
    BY <1>3, <2>4, <2>5, Rest
<1>5. ASSUME b[1].c # "nl", Len(b) >= 2 => b[2].c = "nl"
      PROVE  Line(b) = <<b[1]>> /\ Dropped(RestAfterLine(b), b, 2)
  <2>1. x # 1
    BY <1>1, <1>2, <1>5
  <2>2. Len(b) >= 2 /\ 2 \in 1..Len(b) /\ 2 \in 0..Len(b)
    BY <1>1, <1>2, <2>1
  <2>3. 2 \in S
    BY <1>5, <2>2 DEF NewLines
  <2>4. \A j \in S : 2 <= j
    BY <1>1, <1>5
  <2> HIDE DEF S
  <2>5. First(S) = 2
    BY <1>1, <2>3, <2>4, FirstIs
  <2>6. Line(b) = SubSeq(b, 1, 1) /\ RestAfterLine(b) = SubSeq(b, 2 + 1, Len(b))
    BY <2>5 DEF Line, RestAfterLine, S
  <2>7. SubSeq(b, 1, 1) = <<b[1]>>
    <3>1. b[1] \in Lexeme
      BY <1>3
    <3>2. SubSeq(b, 1, 1) \in Seq(Lexeme) /\ Len(SubSeq(b, 1, 1)) = 1
      BY <1>3, Split
    <3>3. SubSeq(b, 1, 1)[1] = b[1]
      BY <1>3
    <3>4. <<b[1]>> \in Seq(Lexeme) /\ Len(<<b[1]>>) = 1 /\ <<b[1]>>[1] = b[1]
      BY <3>1
    <3> DEFINE u == SubSeq(b, 1, 1)
               v == <<b[1]>>
    <3>5. u \in Seq(Lexeme) /\ v \in Seq(Lexeme) /\ Len(u) = Len(v) /\ Len(u) = 1 /\ u[1] = v[1]
      BY <3>2, <3>3, <3>4
    <3> HIDE DEF u, v
    <3>6. \A i \in 1..Len(u) : u[i] = v[i]
      BY <3>5
    <3>7. u = v
      BY <3>5, <3>6, SeqEqual
    <3> QED
      BY <3>7 DEF u, v
  <2> QED
    BY <2>2, <2>6, <2>7, Rest
<1>6. b # <<>>
  BY <1>3
<1> QED
  BY <1>4, <1>5, <1>6

\* What follows in the stream when the buffer has become b.
Follows(b, f, k) ==
    b \in Seq(Lexeme) /\ Framed(b \o net, sent) /\ At(b \o net, sent, f, k)

\* A line of request f is read.
LEMMA NextLine ==
    ASSUME TypeOK, Framed(Input, sent), NEW f, NEW j, At(Input, sent, f, j), NewLines(buf) # {}
    PROVE  /\ j <= Len(sent[f]) => buf[1] = Lex(sent, f, j)
           /\ j <= Len(sent[f]) /\ sent[f][j] = "nl" =>
                 Line(buf) = <<>> /\ Follows(RestAfterLine(buf), f, j + 1)
           /\ j + 1 <= Len(sent[f]) /\ sent[f][j] # "nl" /\ sent[f][j + 1] = "nl" =>
                 Line(buf) = <<Lex(sent, f, j)>> /\ Follows(RestAfterLine(buf), f, j + 2)
<1> DEFINE m == sent[f]
           rest == RestAfterLine(buf)
<1>1. /\ f \in 1..Len(sent) /\ j \in 1..(Len(m) + 1)
      /\ j <= Len(m) => Input # <<>> /\ Input[1] = Lex(sent, f, j)
  BY DEF At
<1>2. m \in Messages /\ Len(m) \in Nat /\ j \in Nat
  BY <1>1, Typed, Shape
<1>3. /\ buf # <<>> /\ Input[1] = buf[1] /\ Len(buf) >= 1
      /\ buf[1].c = "nl" => Line(buf) = <<>> /\ Dropped(rest, buf, 1)
      /\ buf[1].c # "nl" /\ (Len(buf) >= 2 => buf[2].c = "nl") =>
            Line(buf) = <<buf[1]>> /\ Dropped(rest, buf, 2)
  BY Typed, LineRead
<1> HIDE DEF m, rest
<1>4. ASSUME NEW n \in {1, 2}, Dropped(rest, buf, n), j + n <= Len(m) + 1
      PROVE  Follows(rest, f, j + n)
  <2>1. Dropped(rest \o net, Input, n) /\ rest \in Seq(Lexeme)
    <3>1. Dropped(rest \o net, buf \o net, n)
      BY <1>4, Typed, JoinedDrop
    <3>2. rest \in Seq(Lexeme)
      BY <1>4 DEF Dropped
    <3> QED
      BY <3>1, <3>2 DEF Input
  <2>2. Framed(rest \o net, sent)
    BY <2>1, Typed, FramedDropped
  <2>3. n \in Nat \ {0}
    OBVIOUS
  <2>4. Ahead(Input, sent, f, j, n)
    BY <1>4, <2>3, Typed, AtDropped DEF m
  <2> QED
    BY <2>1, <2>2, <2>4 DEF Ahead, Follows
<1>5. ASSUME j <= Len(m) PROVE buf[1] = Lex(sent, f, j)
  BY <1>1, <1>3, <1>5
<1>6. ASSUME j <= Len(m), m[j] = "nl" PROVE Line(buf) = <<>> /\ Follows(rest, f, j + 1)
  <2>1. buf[1].c = "nl"
    BY <1>5, <1>6 DEF Lex, m
  <2>2. j + 1 <= Len(m) + 1
    BY <1>2, <1>6
  <2> QED
    BY <1>3, <1>4, <2>1, <2>2
<1>7. ASSUME j + 1 <= Len(m), m[j] # "nl", m[j + 1] = "nl"
      PROVE  Line(buf) = <<Lex(sent, f, j)>> /\ Follows(rest, f, j + 2)
  <2>1. j <= Len(m) /\ j + 2 <= Len(m) + 1
    BY <1>2, <1>7
  <2>2. buf[1] = Lex(sent, f, j) /\ buf[1].c # "nl"
    BY <1>5, <1>7, <2>1 DEF Lex, m
  <2>3. Ahead(Input, sent, f, j, 2)
    <3>1. 2 \in Nat \ {0}
      OBVIOUS
    <3> QED
      BY <2>1, <3>1, Typed, AtDropped DEF m
  <2>4. Input[1 + 1] = Lex(sent, f, j + 1)
    <3>1. 1 \in 0..(2 - 1)
      OBVIOUS
    <3> QED
      BY <2>3, <3>1 DEF Ahead
  <2>5. ASSUME Len(buf) >= 2 PROVE buf[2].c = "nl"
    <3>1. 2 \in 1..Len(buf) /\ 1 + 1 = 2
      BY <2>5, Typed
    <3>2. buf[2] = Lex(sent, f, j + 1)
      BY <2>4, <3>1, Typed
    <3> QED
      BY <1>7, <3>2 DEF Lex, m
  <2>6. Line(buf) = <<buf[1]>> /\ Dropped(rest, buf, 2)
    BY <1>3, <2>2, <2>5
  <2> QED
    BY <1>4, <2>1, <2>2, <2>6
<1> QED
  BY <1>5, <1>6, <1>7 DEF m, rest

-----------------------------------------------------------------------------
\* The actions that dispatch nothing and send nothing.

LEMMA InitI == Init => IInv
<1> SUFFICES ASSUME Init PROVE IInv
  OBVIOUS
<1>1. /\ net = <<>> /\ sent = <<>> /\ buf = <<>> /\ handled = <<>> /\ out = <<>> /\ msg = NoMsg
      /\ complete = FALSE /\ pc = "idle" /\ dangling = FALSE /\ alive = TRUE
      /\ transport = "http1" /\ isOpen = TRUE /\ expected = 0 /\ last = ""
  BY DEF Init
<1>2. /\ \A S : <<>> \in Seq(S)
      /\ Len(<<>>) = 0 /\ 1..0 = {} /\ <<>> \o <<>> = <<>>
  OBVIOUS
<1>3. NoMsg \in [first : Seq(Lexeme), hdrs : SUBSET (Fields \cup {"expother"}),
                 body : Seq(Lexeme), there : BOOLEAN]
  BY <1>2 DEF NoMsg
<1>4. TypeOK
  BY <1>1, <1>2, <1>3 DEF TypeOK
<1>5. Input = <<>>
  BY <1>1, <1>2 DEF Input
<1>6. Framed(Input, sent)
  BY <1>2, <1>5 DEF Framed
<1>7. Behind(Input, sent, Len(handled))
  <2>1. handled = <<>> /\ sent = <<>>
    BY <1>1
  <2>2. Len(handled) = 0 /\ Len(sent) = 0 /\ 0 \in 0..0 /\ ~(0 < 0)
    BY <2>1
  <2> QED
    BY <1>5, <2>2 DEF Behind
<1>8. Place
  BY <1>1, <1>7 DEF Place
<1>9. AtRest
  BY <1>1, <1>2 DEF AtRest, NewLines
<1>10. Dispatched
  <2>1. handled = <<>> /\ sent = <<>>
    BY <1>1
  <2>2. Len(handled) = 0 /\ Len(sent) = 0 /\ 0 <= 0
    BY <2>1
  <2> QED
    BY <1>2, <2>2 DEF Dispatched, DispatchedInOrder, OwnBody
<1>11. Replies
  BY <1>1, <1>2 DEF Replies, OneFinalResponse
<1>12. Reuse
  BY <1>1, <1>2 DEF Reuse
<1> QED
  BY <1>4, <1>6, <1>8, <1>9, <1>10, <1>11, <1>12 DEF IInv

\* An action that leaves requests, dispatches and replies alone keeps what is said of
\* them.
LEMMA QuietI ==
    ASSUME IInv, UNCHANGED <<sent, isOpen, transport, dangling, handled, out>>,
           alive' => alive, complete => complete'
    PROVE  Dispatched' /\ Replies' /\ Reuse'
<1>1. /\ sent' = sent /\ isOpen' = isOpen /\ transport' = transport /\ dangling' = dangling
      /\ handled' = handled /\ out' = out
  OBVIOUS
<1>2. Live' => Live
  BY <1>1 DEF Live
<1>3. Dispatched'
  <2>1. Dispatched
    BY DEF IInv
  <2>2. OwnBody' = OwnBody
    BY <1>1 DEF OwnBody, Lexemes
  <2> QED
    BY <1>1, <2>1, <2>2 DEF Dispatched, DispatchedInOrder
<1>4. Replies'
  <2>1. OneFinalResponse'
    <3>1. OneFinalResponse
      BY DEF IInv, Replies
    <3>2. OneFinalResponse' = OneFinalResponse
      BY <1>1 DEF OneFinalResponse, Routed, Answered
    <3> QED
      BY <3>1, <3>2
  <2>2. ASSUME Live', NEW k \in 1..Len(out')
        PROVE  out'[k][2] <= Len(handled') + (IF complete' THEN 1 ELSE 0)
    <3>1. k \in 1..Len(out) /\ out \in Seq({100, 101, 200, 417} \X Nat) /\ TypeOK
      BY <1>1, <2>2 DEF IInv, TypeOK
    <3>2. out[k] \in {100, 101, 200, 417} \X Nat
      BY <3>1
    <3>3. out[k][2] \in Nat /\ Len(handled) \in Nat
      BY <3>1, <3>2, Typed
    <3>4. out[k][2] <= Len(handled) + (IF complete THEN 1 ELSE 0)
      BY <1>2, <2>2, <3>1 DEF IInv, Replies
    <3> QED
      BY <1>1, <3>3, <3>4
  <2> QED
    BY <2>1, <2>2 DEF Replies
<1>5. Reuse'
  BY <1>1, <1>2 DEF IInv, Reuse
<1> QED
  BY <1>3, <1>4, <1>5

LEMMA OnPollInI ==
    ASSUME IInv, NEW n \in 1..Len(net), OnPollIn(n)
    PROVE  IInv'
<1> DEFINE a == SubSeq(net, 1, n)
           b == SubSeq(net, n + 1, Len(net))
<1>1. /\ pc = "idle" /\ alive /\ transport = "http1" /\ buf' = buf \o a /\ net' = b /\ pc' = "parse"
      /\ sent' = sent /\ msg' = msg /\ complete' = complete /\ expected' = expected /\ last' = last
      /\ UNCHANGED <<sent, isOpen, transport, dangling, handled, out>> /\ alive' = alive
  BY DEF OnPollIn, parser
<1>2. TypeOK
  BY DEF IInv
<1>3. a \in Seq(Lexeme) /\ Len(a) = n /\ b \in Seq(Lexeme) /\ a \o b = net
  BY <1>2, Typed, Split
<1> HIDE DEF a, b
<1>4. buf' \in Seq(Lexeme) /\ Len(buf') = Len(buf) + Len(a) /\ Len(buf) \in Nat
  BY <1>1, <1>2, <1>3, Typed, Joined
<1>5. buf' # <<>>
  BY <1>3, <1>4
<1>6. Input' = Input
  <2>1. buf \o (a \o b) = (buf \o a) \o b
    <3>1. buf \in Seq(Lexeme)
      BY <1>2, Typed
    <3>2. a \in Seq(Lexeme) /\ b \in Seq(Lexeme)
      BY <1>3
    <3> QED
      BY <3>1, <3>2, Regroup
  <2> QED
    BY <1>1, <1>3, <2>1 DEF Input
<1>7. TypeOK'
  BY <1>1, <1>2, <1>3, <1>4, <1>5 DEF TypeOK
<1>8. Dispatched' /\ Replies' /\ Reuse'
  BY <1>1, QuietI
<1>9. Framed(Input, sent)'
  BY <1>1, <1>6 DEF IInv, Framed, Whole, Lex
<1>10. Place'
  BY <1>1, <1>6 DEF IInv, Place, Live
<1>11. AtRest'
  BY <1>1 DEF AtRest, Live
<1> QED
  BY <1>7, <1>8, <1>9, <1>10, <1>11 DEF IInv

LEMMA IncompleteLineI ==
    ASSUME IInv, IncompleteLine
    PROVE  IInv'
<1>1. /\ NewLines(buf) = {} /\ pc' = "idle" /\ net' = net /\ buf' = buf
      /\ sent' = sent /\ msg' = msg /\ complete' = complete /\ expected' = expected /\ last' = last
      /\ UNCHANGED <<sent, isOpen, transport, dangling, handled, out>> /\ alive' = alive
  BY DEF IncompleteLine, parser
<1>2. Input' = Input
  BY <1>1 DEF Input
<1>3. TypeOK'
  BY <1>1 DEF IInv, TypeOK
<1>4. Dispatched' /\ Replies' /\ Reuse'
  BY <1>1, QuietI
<1>5. Framed(Input, sent)'
  BY <1>1, <1>2 DEF IInv, Framed, Whole, Lex
<1>6. Place'
  BY <1>1, <1>2 DEF IInv, Place, Live
<1>7. AtRest'
  BY <1>1 DEF AtRest, Live, NewLines
<1> QED
  BY <1>3, <1>4, <1>5, <1>6, <1>7 DEF IInv

\* While lines are read the parser is between requests or in the headers of one.
LEMMA HeadersOnly ==
    ASSUME IInv, pc = "parse", InHeaders
    PROVE  /\ Live /\ ~complete
           /\ \/ msg = NoMsg /\ Behind(Input, sent, Len(handled))
              \/ \E j \in Nat : ReadsAt(Input, sent, Len(handled) + 1, msg, j)
<1>1. Live
  BY DEF IInv, AtRest
<1>2. ASSUME complete, AwaitsAt(Input, sent, Len(handled) + 1, msg, expected) PROVE FALSE
  <2>1. msg.there /\ msg.body = <<>> /\ expected # 0
    BY <1>2 DEF AwaitsAt
  <2>2. Len(msg.body) = 0
    BY <2>1
  <2> QED
    BY <1>2, <2>1, <2>2 DEF InHeaders, IsComplete
<1>3. ASSUME complete, SwampedAt(sent, Len(handled) + 1, msg, expected) PROVE FALSE
  <2>1. msg.there /\ Len(msg.body) > expected /\ expected \in Nat
    BY <1>3 DEF SwampedAt
  <2>2. Len(msg.body) # expected
    BY <2>1
  <2> QED
    BY <1>3, <2>1, <2>2 DEF InHeaders, IsComplete
<1> QED
  BY <1>1, <1>2, <1>3 DEF IInv, Place

\* A step in the headers that leaves the rest of the line in the buffer.
LEMMA ReadsI ==
    ASSUME IInv, NEW j \in Nat, net' = net, sent' = sent, handled' = handled, ~complete, ~complete',
           UNCHANGED <<isOpen, transport, dangling, handled, out>>, alive' = alive, alive,
           transport = "http1", Follows(buf', Len(handled) + 1, j),
           Continue(buf'), TypeOK',
           ReadsAt(Input', sent, Len(handled) + 1, msg', j)
    PROVE  IInv'
<1>1. Dispatched' /\ Replies' /\ Reuse'
  BY QuietI
<1>2. Framed(Input', sent')
  BY DEF Follows, Input
<1>3. Place'
  <2>1. Live' /\ Len(handled') = Len(handled) /\ sent' = sent
    BY DEF Live
  <2>2. ReadsAt(Input', sent', Len(handled') + 1, msg', j)
    BY <2>1
  <2> QED
    BY <2>1, <2>2 DEF Place
<1>4. AtRest'
  <2>1. pc' = "idle" => buf' = <<>>
    BY DEF Continue
  <2>2. buf' = <<>> => NewLines(buf)' = {}
    BY DEF NewLines
  <2>3. Live'
    BY DEF Live
  <2> QED
    BY <2>1, <2>2, <2>3 DEF AtRest
<1> QED
  BY <1>1, <1>2, <1>3, <1>4 DEF IInv

LEMMA FirstLineI ==
    ASSUME IInv, FirstLine
    PROVE  IInv'
<1> DEFINE f == Len(handled) + 1
           m == sent[f]
<1>1. /\ pc = "parse" /\ InHeaders /\ NewLines(buf) # {} /\ ~msg.there
      /\ buf' = RestAfterLine(buf) /\ msg' = [NoMsg EXCEPT !.first = Line(buf), !.there = TRUE]
      /\ complete' = FALSE /\ Continue(buf') /\ net' = net /\ sent' = sent
      /\ expected' = expected /\ last' = last /\ alive' = alive
      /\ UNCHANGED <<isOpen, transport, dangling, handled, out>>
  BY DEF FirstLine
<1>2. /\ TypeOK /\ Framed(Input, sent) /\ Live /\ ~complete
      /\ Behind(Input, sent, Len(handled))
  BY <1>1, HeadersOnly DEF IInv, ReadsAt
<1>3. buf # <<>> /\ Input # <<>>
  BY <1>1, <1>2, LineRead, Typed
<1>4. f \in 1..Len(sent) /\ At(Input, sent, f, 1)
  <2>1. Len(handled) < Len(sent)
    BY <1>2, <1>3, Typed DEF Behind
  <2> QED
    BY <1>2, <2>1, Typed, BehindAt
<1>5. m \in Messages /\ Len(m) \in Nat /\ Len(m) >= 2 /\ End(m) \in 2..Len(m)
  <2>1. m \in Messages
    BY <1>2, <1>4, Typed
  <2> HIDE DEF m
  <2> QED
    BY <2>1, Shape
<1>6. /\ msg'.first = Line(buf) /\ msg'.there = TRUE /\ msg'.hdrs = {} /\ msg'.body = <<>>
      /\ msg' = [first |-> Line(buf), hdrs |-> {}, body |-> <<>>, there |-> TRUE]
  BY <1>1 DEF NoMsg
<1> HIDE DEF f
<1>7. ASSUME NEW j \in {2, 3}, Follows(buf', f, j), Line(buf) = FirstOf(sent, f),
             Line(buf) \in Seq(Lexeme), m[j - 1] = "nl", j \in 2..End(m)
      PROVE  IInv'
  <2>1. At(Input', sent, f, j) /\ buf' \in Seq(Lexeme)
    BY <1>1, <1>7 DEF Follows, Input
  <2>2. Seen(m, {}, j)
    <3>1. ASSUME NEW h \in {"len", "te"} PROVE ~\E i \in 2..(j - 1) : m[i] = h
      <4>1. ASSUME NEW i \in 2..(j - 1) PROVE m[i] # h
        <5>1. i = j - 1
          BY <4>1
        <5>2. h # "nl"
          OBVIOUS
        <5> QED
          BY <1>7, <5>1, <5>2
      <4> QED
        BY <4>1
    <3> QED
      BY <3>1 DEF Seen
  <2>3. ReadsAt(Input', sent, f, msg', j)
    BY <1>6, <1>7, <2>1, <2>2 DEF ReadsAt
  <2>4. TypeOK'
    <3>1. msg' \in [first : Seq(Lexeme), hdrs : SUBSET (Fields \cup {"expother"}),
                    body : Seq(Lexeme), there : BOOLEAN]
      BY <1>6, <1>7
    <3>2. pc' \in {"idle", "parse"} /\ (pc' = "parse" => buf' # <<>>)
      BY <1>1 DEF Continue
    <3> QED
      BY <1>1, <1>2, <2>1, <3>1, <3>2 DEF TypeOK
  <2> QED
    BY <1>1, <1>2, <1>7, <2>3, <2>4, ReadsI DEF Live, f
<1>8. CASE m[1] = "nl"
  <2>1. 1 <= Len(m)
    BY <1>5
  <2>2. Line(buf) = <<>> /\ Follows(RestAfterLine(buf), f, 1 + 1)
    BY <1>1, <1>2, <1>4, <1>8, <2>1, NextLine
  <2>3. 2 \in 2..End(m)
    BY <1>5, <1>8, FirstLineOf
  <2>4. Line(buf) = FirstOf(sent, f) /\ Line(buf) \in Seq(Lexeme)
    BY <1>8, <2>2 DEF FirstOf
  <2>5. 1 + 1 = 2 /\ 2 - 1 = 1
    OBVIOUS
  <2>6. Follows(buf', f, 2) /\ m[2 - 1] = "nl"
    BY <1>1, <1>8, <2>2, <2>5
  <2> QED
    BY <1>7, <2>3, <2>4, <2>6
<1>9. CASE m[1] # "nl"
  <2>1. m[2] = "nl" /\ 3 \in 2..End(m)
    BY <1>5, <1>9, FirstLineOf
  <2>2. 1 + 1 <= Len(m) /\ 1 + 1 = 2 /\ 1 + 2 = 3 /\ 3 - 1 = 2 /\ 1 <= Len(m)
    BY <1>5
  <2>3. Line(buf) = <<Lex(sent, f, 1)>> /\ Follows(RestAfterLine(buf), f, 1 + 2)
    BY <1>1, <1>2, <1>4, <1>9, <2>1, <2>2, NextLine
  <2>4. Line(buf) = FirstOf(sent, f)
    BY <1>9, <2>3 DEF FirstOf
  <2>5. Line(buf) \in Seq(Lexeme)
    <3>1. buf[1] = Lex(sent, f, 1)
      BY <1>1, <1>2, <1>4, <2>2, NextLine
    <3>2. buf[1] \in Lexeme
      BY <1>2, <1>3, Typed
    <3> QED
      BY <2>3, <3>1, <3>2
  <2>6. Follows(buf', f, 3) /\ m[3 - 1] = "nl"
    BY <1>1, <2>1, <2>2, <2>3
  <2> QED
    BY <1>7, <2>1, <2>4, <2>5, <2>6
<1> QED
  BY <1>8, <1>9

\* Folding a line keeps what tells the length of the body.
LEMMA FoldedSeen ==
    ASSUME NEW hdrs \in SUBSET (Fields \cup {"expother"}), NEW h \in Fields
    PROVE  /\ Folded(hdrs, h) \in SUBSET (Fields \cup {"expother"})
           /\ \A x \in {"len", "te"} : x \in Folded(hdrs, h) <=> x \in hdrs
BY DEF Folded, Fields

LEMMA HeaderLineI ==
    ASSUME IInv, HeaderLine
    PROVE  IInv'
<1> DEFINE f == Len(handled) + 1
           m == sent[f]
           h == Line(buf)[1].c
<1>1. /\ pc = "parse" /\ InHeaders /\ NewLines(buf) # {} /\ msg.there /\ Line(buf) # <<>>
      /\ buf' = RestAfterLine(buf) /\ net' = net /\ sent' = sent
      /\ UNCHANGED <<sent, isOpen, transport, dangling, handled, out>>
  BY DEF HeaderLine
<1>2. \/ Die /\ UNCHANGED parser
      \/ /\ h = "fold" /\ last # "" /\ msg' = [msg EXCEPT !.hdrs = Folded(@, last)] /\ Continue(buf')
         /\ UNCHANGED <<complete, expected, last, alive>>
      \/ /\ h \in Fields /\ msg' = [msg EXCEPT !.hdrs = @ \cup {h}] /\ last' = h /\ Continue(buf')
         /\ UNCHANGED <<complete, expected, alive>>
  BY DEF HeaderLine
<1>3. TypeOK /\ Framed(Input, sent) /\ Live /\ ~complete
  BY <1>1, HeadersOnly DEF IInv
<1>4. PICK j \in Nat : ReadsAt(Input, sent, f, msg, j)
  BY <1>1, HeadersOnly DEF NoMsg
<1>5. /\ At(Input, sent, f, j) /\ j \in 2..End(m) /\ m[j - 1] = "nl"
      /\ msg.there /\ msg.first = FirstOf(sent, f) /\ msg.body = <<>> /\ Seen(m, msg.hdrs, j)
  BY <1>4 DEF ReadsAt
<1>6. m \in Messages
  <2>1. f \in 1..Len(sent)
    BY <1>5 DEF At
  <2> QED
    BY <1>3, <2>1, Typed
<1> HIDE DEF f, m, h
<1>7. Len(m) \in Nat /\ End(m) \in Nat /\ End(m) <= Len(m) /\ j \in Nat /\ j <= Len(m) /\ 2 <= j
  <2>1. End(m) \in 2..Len(m) /\ Len(m) \in Nat
    BY <1>6, Shape
  <2> QED
    BY <1>5, <2>1
<1>8. m[j] # "nl"
  BY <1>1, <1>3, <1>5, <1>7, NextLine DEF m
<1>9. m[j + 1] = "nl" /\ j + 2 \in 2..End(m) /\ m[j] \in Fields \cup {"fold", "nocolon"}
  BY <1>5, <1>6, <1>8, LineOf
<1>10. j + 1 <= Len(m) /\ (j + 2) - 1 = j + 1 /\ j + 2 \in Nat
  BY <1>7, <1>9
<1>11. Line(buf) = <<Lex(sent, f, j)>> /\ Follows(buf', f, j + 2)
  BY <1>1, <1>3, <1>5, <1>8, <1>9, <1>10, NextLine DEF m
<1>12. h = m[j]
  BY <1>11 DEF h, Lex, m
<1>13. At(Input', sent, f, j + 2) /\ buf' \in Seq(Lexeme) /\ Framed(Input', sent)
  BY <1>1, <1>11 DEF Follows, Input
<1>14. /\ msg \in [first : Seq(Lexeme), hdrs : SUBSET (Fields \cup {"expother"}),
                   body : Seq(Lexeme), there : BOOLEAN]
       /\ last \in Fields \cup {""}
  BY <1>3 DEF TypeOK
<1>15. ASSUME NEW hdrs \in SUBSET (Fields \cup {"expother"}), msg' = [msg EXCEPT !.hdrs = hdrs],
              Continue(buf'), complete' = complete, expected' = expected, alive' = alive,
              last' \in Fields \cup {""},
              \A x \in {"len", "te"} : x \in hdrs <=> x \in msg.hdrs \/ x = m[j]
       PROVE  IInv'
  <2>1. /\ msg'.there /\ msg'.first = FirstOf(sent, f) /\ msg'.body = <<>> /\ msg'.hdrs = hdrs
        /\ msg' \in [first : Seq(Lexeme), hdrs : SUBSET (Fields \cup {"expother"}),
                   body : Seq(Lexeme), there : BOOLEAN]
    BY <1>5, <1>14, <1>15
  <2>2. Seen(m, hdrs, j + 2)
    <3>1. ASSUME NEW x \in {"len", "te"} PROVE x \in hdrs <=> \E i \in 2..((j + 2) - 1) : m[i] = x
      <4>1. x \in msg.hdrs <=> \E i \in 2..(j - 1) : m[i] = x
        BY <1>5 DEF Seen
      <4>2. \A i \in 2..((j + 2) - 1) : i \in 2..(j - 1) \/ i = j \/ i = j + 1
        BY <1>7
      <4>3. (\A i \in 2..(j - 1) : i \in 2..((j + 2) - 1)) /\ j \in 2..((j + 2) - 1)
        BY <1>7
      <4>4. x # "nl"
        OBVIOUS
      <4>5. x \in hdrs <=> x \in msg.hdrs \/ x = m[j]
        BY <1>15
      <4> QED
        BY <1>9, <4>1, <4>2, <4>3, <4>4, <4>5
    <3> QED
      BY <3>1 DEF Seen
  <2>3. ReadsAt(Input', sent, f, msg', j + 2)
    BY <1>9, <1>10, <1>13, <2>1, <2>2 DEF ReadsAt, m
  <2>4. TypeOK'
    <3>1. pc' \in {"idle", "parse"} /\ (pc' = "parse" => buf' # <<>>)
      BY <1>15 DEF Continue
    <3> QED
      BY <1>1, <1>3, <1>13, <1>15, <2>1, <3>1 DEF TypeOK
  <2> QED
    BY <1>1, <1>3, <1>10, <1>11, <1>15, <2>3, <2>4, ReadsI DEF Live, f
<1>16. CASE Die /\ UNCHANGED parser
  <2>1. /\ alive' = FALSE /\ pc' = "idle" /\ msg' = msg /\ complete' = complete
        /\ expected' = expected /\ last' = last
    BY <1>16 DEF Die, parser
  <2>2. Dispatched' /\ Replies' /\ Reuse'
    BY <1>1, <2>1, QuietI
  <2>3. TypeOK'
    BY <1>1, <1>3, <1>13, <2>1 DEF TypeOK
  <2>4. Place' /\ AtRest'
    BY <2>1 DEF Place, AtRest, Live
  <2>5. Framed(Input', sent')
    BY <1>1, <1>13
  <2> QED
    BY <2>2, <2>3, <2>4, <2>5 DEF IInv
<1>17. CASE /\ h = "fold" /\ last # "" /\ msg' = [msg EXCEPT !.hdrs = Folded(@, last)] /\ Continue(buf')
            /\ UNCHANGED <<complete, expected, last, alive>>
  <2> DEFINE hdrs == Folded(msg.hdrs, last)
  <2>1. msg.hdrs \in SUBSET (Fields \cup {"expother"}) /\ last \in Fields
    BY <1>14, <1>17
  <2>2. /\ hdrs \in SUBSET (Fields \cup {"expother"})
        /\ \A x \in {"len", "te"} : x \in hdrs <=> x \in msg.hdrs
    BY <2>1, FoldedSeen
  <2>3. msg' = [msg EXCEPT !.hdrs = hdrs]
    BY <1>17
  <2> HIDE DEF hdrs
  <2>4. m[j] = "fold" /\ "len" # "fold" /\ "te" # "fold"
    BY <1>12, <1>17
  <2>5. \A x \in {"len", "te"} : x \in hdrs <=> x \in msg.hdrs \/ x = m[j]
    BY <2>2, <2>4
  <2>6. /\ Continue(buf') /\ complete' = complete /\ expected' = expected /\ alive' = alive
        /\ last' \in Fields \cup {""}
    BY <1>14, <1>17
  <2> QED
    BY <1>15, <2>2, <2>3, <2>5, <2>6
<1>18. CASE /\ h \in Fields /\ msg' = [msg EXCEPT !.hdrs = @ \cup {h}] /\ last' = h /\ Continue(buf')
            /\ UNCHANGED <<complete, expected, alive>>
  <2> DEFINE hdrs == msg.hdrs \cup {h}
  <2>1. hdrs \in SUBSET (Fields \cup {"expother"}) /\ \A x : x \in hdrs <=> x \in msg.hdrs \/ x = m[j]
    BY <1>12, <1>14, <1>18
  <2>2. msg' = [msg EXCEPT !.hdrs = hdrs]
    BY <1>18
  <2> HIDE DEF hdrs
  <2> QED
    BY <1>15, <1>18, <2>1, <2>2
<1> QED
  BY <1>2, <1>16, <1>17, <1>18

-----------------------------------------------------------------------------
\* Replies.

Reply == {100, 101, 200, 417} \X Nat

\* The answers o are to requests among the first n of q, each before all that concerns
\* later requests, and all of them up to b.
Sound(o, q, n) ==
    /\ \A k \in 1..Len(o) : o[k][1] = 200 => o[k][2] \in 1..n /\ q[o[k][2]][1] = "req"
    /\ \A j, k \in 1..Len(o) : j < k =>
          o[j][2] <= o[k][2] /\ (o[j][1] = 200 => o[j][2] < o[k][2])

UpTo(o, b) == \A k \in 1..Len(o) : o[k][2] <= b

Has(o, i) == \E k \in 1..Len(o) : o[k] = <<200, i>>

Covered(o, q, n, open) ==
    \A i, j \in 1..n : q[i][1] = "req" /\ (open \/ (i < j /\ Has(o, j))) => Has(o, i)

LEMMA FinalIs ==
    OneFinalResponse <=>
        Sound(out, sent, Len(handled)) /\ Covered(out, sent, Len(handled), isOpen)
BY DEF OneFinalResponse, Sound, Covered, Has, Routed, Answered

LEMMA ReplyTypes ==
    ASSUME NEW o \in Seq(Reply)
    PROVE  /\ Len(o) \in Nat
           /\ \A k \in 1..Len(o) : o[k] \in Reply /\ o[k][2] \in Nat
<1>1. \A k \in 1..Len(o) : o[k] \in Reply
  OBVIOUS
<1>2. \A r \in Reply : r[2] \in Nat
  BY DEF Reply
<1> QED
  BY <1>1, <1>2

LEMMA OneMore ==
    ASSUME NEW o \in Seq(Reply), NEW r \in Reply
    PROVE  /\ o \o <<r>> \in Seq(Reply) /\ Len(o \o <<r>>) = Len(o) + 1 /\ Len(o) \in Nat
           /\ \A k \in 1..Len(o) : (o \o <<r>>)[k] = o[k]
           /\ (o \o <<r>>)[Len(o) + 1] = r
<1>1. <<r>> \in Seq(Reply) /\ Len(<<r>>) = 1 /\ <<r>>[1] = r /\ Len(o) \in Nat
  OBVIOUS
<1> DEFINE u == <<r>>
<1> HIDE DEF u
<1>2. /\ o \o u \in Seq(Reply) /\ Len(o \o u) = Len(o) + Len(u)
      /\ \A k \in 1..(Len(o) + Len(u)) : (o \o u)[k] = IF k <= Len(o) THEN o[k] ELSE u[k - Len(o)]
  BY <1>1, ConcatProperties DEF u
<1>3. Len(u) = 1 /\ u[1] = r
  BY <1>1 DEF u
<1>4. \A k \in 1..Len(o) : k \in 1..(Len(o) + Len(u)) /\ k <= Len(o)
  BY <1>1, <1>3
<1>5. /\ Len(o) + 1 \in 1..(Len(o) + Len(u)) /\ ~(Len(o) + 1 <= Len(o))
      /\ (Len(o) + 1) - Len(o) = 1
  BY <1>1, <1>3
<1>6. \A k \in 1..Len(o) : (o \o u)[k] = o[k]
  BY <1>2, <1>4
<1>7. (o \o u)[Len(o) + 1] = r
  BY <1>2, <1>3, <1>5
<1> QED
  BY <1>1, <1>2, <1>3, <1>6, <1>7 DEF u

\* One more reply, to request n + 1: interim, or the handler's answer.
LEMMA SoundMore ==
    ASSUME NEW o \in Seq(Reply), NEW q, NEW n \in Nat, NEW n2 \in {n, n + 1}, NEW st,
           <<st, n + 1>> \in Reply, Sound(o, q, n), UpTo(o, n + 1),
           st = 200 => n2 = n + 1 /\ q[n + 1][1] = "req"
    PROVE  /\ Sound(o \o <<<<st, n + 1>>>>, q, n2) /\ UpTo(o \o <<<<st, n + 1>>>>, n + 1)
           /\ o \o <<<<st, n + 1>>>> \in Seq(Reply)
           /\ \A i : Has(o, i) => Has(o \o <<<<st, n + 1>>>>, i)
           /\ st = 200 => Has(o \o <<<<st, n + 1>>>>, n + 1)
<1> DEFINE r == <<st, n + 1>>
           p == o \o <<r>>
           L == Len(o)
<1>1. /\ p \in Seq(Reply) /\ Len(p) = L + 1 /\ L \in Nat /\ (\A k \in 1..L : p[k] = o[k])
      /\ p[L + 1] = r
  BY OneMore
<1>2. \A k \in 1..L : o[k][2] \in Nat /\ o[k][2] <= n + 1
  BY ReplyTypes DEF UpTo
<1>3. /\ \A k \in 1..L : o[k][1] = 200 => o[k][2] \in 1..n /\ q[o[k][2]][1] = "req"
      /\ \A j, k \in 1..L : j < k =>
            o[j][2] <= o[k][2] /\ (o[j][1] = 200 => o[j][2] < o[k][2])
  BY DEF Sound
<1>4. r[1] = st /\ r[2] = n + 1
  OBVIOUS
<1>5. \A k \in 1..Len(p) : k \in 1..L \/ k = L + 1
  BY <1>1
<1>6. L + 1 \in 1..Len(p) /\ \A k \in 1..L : k \in 1..Len(p)
  BY <1>1
<1> HIDE DEF r, p, L
<1>7. ASSUME NEW k \in 1..Len(p), p[k][1] = 200 PROVE p[k][2] \in 1..n2 /\ q[p[k][2]][1] = "req"
  <2>1. CASE k \in 1..L
    <3>1. p[k][2] \in 1..n /\ q[p[k][2]][1] = "req"
      BY <1>1, <1>3, <1>7, <2>1
    <3>2. \A x \in 1..n : x \in 1..n2
      OBVIOUS
    <3> QED
      BY <3>1, <3>2
  <2>2. CASE k = L + 1
    <3>1. st = 200 /\ p[k][2] = n + 1
      BY <1>1, <1>4, <1>7, <2>2
    <3>2. n + 1 \in 1..n2
      BY <3>1
    <3> QED
      BY <3>1, <3>2
  <2> QED
    BY <1>5, <2>1, <2>2
<1>8. ASSUME NEW j \in 1..Len(p), NEW k \in 1..Len(p), j < k
      PROVE  p[j][2] <= p[k][2] /\ (p[j][1] = 200 => p[j][2] < p[k][2])
  <2>1. j \in 1..L
    BY <1>1, <1>8
  <2>2. CASE k \in 1..L
    <3>1. p[j] = o[j] /\ p[k] = o[k]
      BY <1>1, <2>1, <2>2
    <3>2. o[j][2] <= o[k][2] /\ (o[j][1] = 200 => o[j][2] < o[k][2])
      BY <1>3, <1>8, <2>1, <2>2
    <3> QED
      BY <3>1, <3>2
  <2>3. CASE k = L + 1
    <3>1. p[k][2] = n + 1 /\ p[j] = o[j]
      BY <1>1, <1>4, <2>1, <2>3
    <3>2. o[j][2] \in Nat /\ o[j][2] <= n + 1
      BY <1>2, <2>1
    <3>3. o[j][1] = 200 => o[j][2] \in 1..n
      BY <1>3, <2>1
    <3>4. o[j][1] = 200 => o[j][2] < n + 1
      BY <3>3
    <3> QED
      BY <3>1, <3>2, <3>4
  <2> QED
    BY <1>5, <2>2, <2>3
<1>9. UpTo(p, n + 1)
  <2> SUFFICES ASSUME NEW k \in 1..Len(p) PROVE p[k][2] <= n + 1
    BY DEF UpTo
  <2>1. CASE k \in 1..L
    BY <1>1, <1>2, <2>1
  <2>2. CASE k = L + 1
    BY <1>1, <1>4, <2>2
  <2> QED
    BY <1>5, <2>1, <2>2
<1>10. \A i : Has(o, i) => Has(p, i)
  BY <1>1, <1>6 DEF Has, L
<1>11. st = 200 => Has(p, n + 1)
  BY <1>1, <1>6 DEF Has, r
<1>12. Sound(p, q, n2)
  BY <1>7, <1>8 DEF Sound
<1> QED
  BY <1>1, <1>9, <1>10, <1>11, <1>12 DEF p, r

LEMMA SoundLater ==
    ASSUME NEW o, NEW q, NEW n \in Nat, Sound(o, q, n)
    PROVE  Sound(o, q, n + 1)
<1>1. \A x \in 1..n : x \in 1..(n + 1)
  OBVIOUS
<1> QED
  BY <1>1 DEF Sound

LEMMA RepliesAre ==
    ASSUME IInv
    PROVE  /\ out \in Seq(Reply) /\ Len(handled) \in Nat
           /\ Sound(out, sent, Len(handled)) /\ Covered(out, sent, Len(handled), isOpen)
           /\ Live => UpTo(out, Len(handled) + 1)
           /\ Live /\ ~complete => UpTo(out, Len(handled))
<1>1. out \in Seq(Reply) /\ TypeOK
  BY DEF IInv, TypeOK, Reply
<1>2. OneFinalResponse
  BY DEF IInv, Replies
<1>3. Len(handled) \in Nat
  BY <1>1, Typed
<1>4. ASSUME Live, NEW k \in 1..Len(out)
      PROVE  out[k][2] <= Len(handled) + 1 /\ (~complete => out[k][2] <= Len(handled))
  <2>1. out[k][2] \in Nat
    BY <1>1, ReplyTypes
  <2>2. out[k][2] <= Len(handled) + (IF complete THEN 1 ELSE 0)
    BY <1>4 DEF IInv, Replies
  <2> QED
    BY <1>3, <2>1, <2>2
<1> QED
  BY <1>1, <1>2, <1>3, <1>4, FinalIs DEF UpTo

\* What is sent of the request behind the last dispatched, on its own.
LEMMA SentI ==
    ASSUME IInv, Live, NEW o \in Seq(Reply), Sound(o, sent, Len(handled)),
           UpTo(o, Len(handled) + 1), \A i : Has(out, i) => Has(o, i),
           out' = IF isOpen THEN o ELSE out, handled' = handled, isOpen' = isOpen, sent' = sent,
           Live' => complete'
    PROVE  Replies' /\ out' \in Seq(Reply)
<1> DEFINE n == Len(handled)
<1>1. /\ out \in Seq(Reply) /\ n \in Nat /\ Sound(out, sent, n) /\ Covered(out, sent, n, isOpen)
      /\ UpTo(out, n + 1)
  BY RepliesAre
<1>2. Sound(out', sent', Len(handled')) /\ UpTo(out', n + 1) /\ out' \in Seq(Reply)
  BY <1>1
<1>3. Covered(out', sent', Len(handled'), isOpen')
  <2>1. CASE isOpen
    <3>1. out' = o
      BY <2>1
    <3>2. \A i, j \in 1..n : sent[i][1] = "req" => Has(out, i)
      BY <1>1, <2>1 DEF Covered
    <3>3. \A i, j \in 1..n : sent[i][1] = "req" => Has(o, i)
      BY <3>2
    <3>4. Covered(o, sent, n, isOpen)
      BY <3>3 DEF Covered
    <3> QED
      BY <3>1, <3>4
  <2>2. CASE ~isOpen
    <3>1. out' = out
      BY <2>2
    <3> QED
      BY <1>1, <3>1
  <2> QED
    BY <2>1, <2>2
<1>4. OneFinalResponse'
  <2>1. OneFinalResponse' <=>
            Sound(out', sent', Len(handled')) /\ Covered(out', sent', Len(handled'), isOpen')
    BY DEF OneFinalResponse, Sound, Covered, Has, Routed, Answered
  <2> QED
    BY <1>2, <1>3, <2>1
<1>5. ASSUME Live', NEW k \in 1..Len(out')
      PROVE  out'[k][2] <= Len(handled') + (IF complete' THEN 1 ELSE 0)
  <2>1. out'[k][2] <= n + 1 /\ complete'
    BY <1>2, <1>5 DEF UpTo
  <2> QED
    BY <2>1
<1> QED
  BY <1>2, <1>4, <1>5 DEF Replies

\* The handler is called for the next request.
Final(f) == IF sent[f][1] = "req" THEN <<<<200, f>>>> ELSE <<>>

LEMMA AnswerI ==
    ASSUME IInv, Live, NEW o \in Seq(Reply), Sound(o, sent, Len(handled)),
           UpTo(o, Len(handled) + 1), \A i : Has(out, i) => Has(o, i),
           out' = IF isOpen THEN o \o Final(Len(handled) + 1) ELSE out,
           Len(handled') = Len(handled) + 1,
           isOpen' => isOpen, isOpen' \in BOOLEAN, sent' = sent, ~complete'
    PROVE  Replies' /\ out' \in Seq(Reply)
<1> DEFINE n == Len(handled)
           a == Final(n + 1)
<1>1. /\ out \in Seq(Reply) /\ n \in Nat /\ Sound(out, sent, n) /\ Covered(out, sent, n, isOpen)
      /\ UpTo(out, n + 1)
  BY RepliesAre
<1> HIDE DEF n, a
<1>2. /\ Sound(o \o a, sent, n + 1) /\ UpTo(o \o a, n + 1) /\ o \o a \in Seq(Reply)
      /\ \A i : Has(out, i) => Has(o \o a, i)
      /\ sent[n + 1][1] = "req" => Has(o \o a, n + 1)
  <2>1. CASE sent[n + 1][1] = "req"
    <3>1. a = <<<<200, n + 1>>>> /\ <<200, n + 1>> \in Reply /\ n + 1 \in {n, n + 1}
      BY <1>1, <2>1 DEF Reply, a, Final
    <3>2. Sound(o, sent, n) /\ UpTo(o, n + 1)
      BY DEF n
    <3> DEFINE b == o \o <<<<200, n + 1>>>>
    <3>3. /\ Sound(b, sent, n + 1) /\ UpTo(b, n + 1) /\ b \in Seq(Reply)
          /\ \A i : Has(o, i) => Has(b, i)
          /\ Has(b, n + 1)
      BY <1>1, <2>1, <3>1, <3>2, SoundMore
    <3>4. o \o a = b
      BY <3>1
    <3> HIDE DEF b
    <3> QED
      BY <3>3, <3>4
  <2>2. CASE sent[n + 1][1] # "req"
    <3>1. a = <<>>
      BY <2>2 DEF a, Final
    <3>2. o \o a = o
      BY <3>1
    <3>3. Sound(o, sent, n + 1) /\ UpTo(o, n + 1)
      BY <1>1, SoundLater DEF n
    <3> QED
      BY <2>2, <3>2, <3>3
  <2> QED
    BY <2>1, <2>2
<1>3. Sound(out, sent, n + 1)
  BY <1>1, SoundLater
<1> DEFINE w == o \o a
<1> HIDE DEF w
<1>4. out' = (IF isOpen THEN w ELSE out) /\ Len(handled') = n + 1
  BY DEF w, n, a
<1>5. /\ Sound(w, sent, n + 1) /\ UpTo(w, n + 1) /\ w \in Seq(Reply)
      /\ \A i : Has(out, i) => Has(w, i)
      /\ sent[n + 1][1] = "req" => Has(w, n + 1)
  BY <1>2 DEF w
<1>6. Sound(out', sent', n + 1) /\ UpTo(out', n + 1) /\ out' \in Seq(Reply)
  BY <1>1, <1>3, <1>4, <1>5
<1>7. Covered(out', sent', n + 1, isOpen')
  <2> SUFFICES ASSUME NEW i \in 1..(n + 1), NEW j \in 1..(n + 1), sent[i][1] = "req",
                      isOpen' \/ (i < j /\ Has(out', j))
               PROVE  Has(out', i)
    BY DEF Covered
  <2>1. CASE isOpen
    <3>1. out' = w
      BY <1>4, <2>1
    <3>2. CASE i = n + 1
      BY <1>5, <3>1, <3>2
    <3>3. CASE i # n + 1
      <4>1. i \in 1..n
        BY <1>1, <3>3
      <4>2. Has(out, i)
        BY <1>1, <2>1, <4>1 DEF Covered
      <4> QED
        BY <1>5, <3>1, <4>2
    <3> QED
      BY <3>2, <3>3
  <2>2. CASE ~isOpen
    <3>1. out' = out /\ i < j /\ Has(out, j)
      BY <1>4, <2>2
    <3>2. PICK k \in 1..Len(out) : out[k] = <<200, j>>
      BY <3>1 DEF Has
    <3>3. out[k][1] = 200 /\ out[k][2] = j
      BY <3>2
    <3>4. j \in 1..n
      BY <1>1, <3>3 DEF Sound
    <3>5. i \in 1..n
      BY <1>1, <3>1, <3>4
    <3> QED
      BY <1>1, <3>1, <3>4, <3>5 DEF Covered
  <2> QED
    BY <2>1, <2>2
<1>8. OneFinalResponse'
  <2>1. OneFinalResponse' <=>
            Sound(out', sent', Len(handled')) /\ Covered(out', sent', Len(handled'), isOpen')
    BY DEF OneFinalResponse, Sound, Covered, Has, Routed, Answered
  <2> QED
    BY <1>4, <1>6, <1>7, <2>1
<1>9. ASSUME NEW k \in 1..Len(out')
      PROVE  out'[k][2] <= Len(handled') + (IF complete' THEN 1 ELSE 0)
  <2>1. out'[k][2] <= n + 1 /\ out'[k][2] \in Nat
    BY <1>6, ReplyTypes DEF UpTo
  <2>2. Len(handled') + (IF complete' THEN 1 ELSE 0) = n + 1
    BY <1>1, <1>4
  <2> QED
    BY <2>1, <2>2
<1> QED
  BY <1>6, <1>8, <1>9 DEF Replies

-----------------------------------------------------------------------------
\* The actions that handle a request or its headers.

\* mg is the whole request f.
Ready(mg, f) ==
    /\ f \in 1..Len(sent) /\ mg.first = FirstOf(sent, f) /\ mg.body \in Seq(Lexeme)
    /\ Len(mg.body) = Len(sent[f]) - End(sent[f])
    /\ \A k \in 1..Len(mg.body) : mg.body[k] = Lex(sent, f, End(sent[f]) + k)

\* OwnBody of one request.
BodyIs(q, i, body) ==
    /\ Len(body) = Cardinality({k \in 1..Len(q[i]) : q[i][k] = "b"})
    /\ \A k \in 1..Len(body) : body[k] = Lexemes(q[i], i)[(Len(q[i]) - Len(body)) + k]

LEMMA OwnBodyIs == OwnBody <=> \A i \in 1..Len(handled) : BodyIs(sent, i, handled[i].body)
BY DEF OwnBody, BodyIs

\* A request that was handled whole was dispatched with its body.
LEMMA DispatchedMore ==
    ASSUME IInv, NEW mg, Ready(mg, Len(handled) + 1), sent' = sent,
           handled' = Append(handled, [id |-> Len(handled) + 1, body |-> mg.body])
    PROVE  /\ Dispatched' /\ Len(handled') = Len(handled) + 1
           /\ handled' \in Seq([id : Nat, body : Seq(Lexeme)])
<1> DEFINE n == Len(handled)
           f == n + 1
           r == [id |-> f, body |-> mg.body]
           m == sent[f]
<1>1. TypeOK /\ Dispatched
  BY DEF IInv
<1>2. n \in Nat /\ sent \in Seq(Messages) /\ Len(sent) \in Nat
  BY <1>1, Typed
<1>3. /\ f \in 1..Len(sent) /\ mg.body \in Seq(Lexeme) /\ Len(mg.body) = Len(m) - End(m)
      /\ \A k \in 1..Len(mg.body) : mg.body[k] = Lex(sent, f, End(m) + k)
  BY DEF Ready
<1>4. r \in [id : Nat, body : Seq(Lexeme)] /\ handled \in Seq([id : Nat, body : Seq(Lexeme)])
  <2>1. f \in Nat /\ mg.body \in Seq(Lexeme)
    BY <1>2, <1>3
  <2>2. handled \in Seq([id : Nat, body : Seq(Lexeme)])
    BY <1>1 DEF TypeOK
  <2> HIDE DEF f
  <2> QED
    BY <2>1, <2>2
<1>5. /\ handled' \in Seq([id : Nat, body : Seq(Lexeme)]) /\ Len(handled') = f
      /\ (\A i \in 1..n : handled'[i] = handled[i]) /\ handled'[f] = r
  <2> HIDE DEF r
  <2>1. handled' = Append(handled, r)
    BY DEF r
  <2> QED
    BY <1>4, <2>1, AppendProperties
<1>6. \A i \in 1..f : i \in 1..n \/ i = f
  BY <1>2
<1>7. m \in Messages
  BY <1>2, <1>3
<1>8. /\ Cardinality({k \in 1..Len(m) : m[k] = "b"}) = Len(m) - End(m)
      /\ Len(m) \in Nat /\ End(m) \in Nat /\ End(m) <= Len(m)
  <2> HIDE DEF m
  <2>1. Cardinality({k \in 1..Len(m) : m[k] = "b"}) = Len(m) - End(m)
    BY <1>7, BodyOf
  <2>2. Len(m) \in Nat /\ End(m) \in 2..Len(m)
    BY <1>7, Shape
  <2> QED
    BY <2>1, <2>2
<1>9. r.id = f /\ r.body = mg.body
  OBVIOUS
<1> HIDE DEF r, m, f, n
<1>10. DispatchedInOrder'
  <2>1. ASSUME NEW i \in 1..Len(handled') PROVE handled'[i].id = i
    <3>1. CASE i \in 1..n
      BY <1>1, <1>5, <3>1 DEF Dispatched, DispatchedInOrder, n
    <3>2. CASE i = f
      BY <1>5, <1>9, <3>2
    <3> QED
      BY <1>5, <1>6, <3>1, <3>2
  <2> QED
    BY <2>1 DEF DispatchedInOrder
<1>11. OwnBody'
  <2> SUFFICES ASSUME NEW i \in 1..Len(handled')
               PROVE  BodyIs(sent, i, handled'[i].body)
    <3>1. OwnBody' <=> \A i \in 1..Len(handled') : BodyIs(sent', i, handled'[i].body)
      BY DEF OwnBody, BodyIs, Lexemes
    <3> QED
      BY <3>1
  <2>1. CASE i \in 1..n
    <3>1. handled'[i] = handled[i]
      BY <1>5, <2>1
    <3>2. OwnBody
      BY <1>1 DEF Dispatched
    <3> QED
      BY <2>1, <3>1, <3>2, OwnBodyIs DEF n
  <2>2. CASE i = f
    <3> DEFINE b == mg.body
               head == Len(m) - Len(b)
    <3>1. handled'[i].body = b /\ sent[i] = m
      BY <1>5, <1>9, <2>2 DEF m
    <3>2. Len(b) \in Nat /\ head = End(m) /\ Len(b) = Len(m) - End(m)
      BY <1>3, <1>8
    <3> HIDE DEF b
    <3>3. ASSUME NEW k \in 1..Len(b) PROVE b[k] = Lexemes(m, i)[head + k]
      <4>1. head + k \in 1..Len(m) /\ head + k = End(m) + k
        BY <1>8, <3>2
      <4>2. b[k] = Lex(sent, f, End(m) + k)
        BY <1>3 DEF b
      <4> HIDE DEF head
      <4>3. Lexemes(m, i)[head + k] = [c |-> m[head + k], id |-> i, at |-> head + k]
        BY <4>1 DEF Lexemes
      <4>4. Lex(sent, f, End(m) + k) = [c |-> m[End(m) + k], id |-> f, at |-> End(m) + k]
        BY DEF Lex, m
      <4> QED
        BY <2>2, <4>1, <4>2, <4>3, <4>4
    <3>4. Len(b) = Cardinality({k \in 1..Len(m) : m[k] = "b"})
      BY <1>8, <3>2
    <3>5. BodyIs(sent, i, b)
      BY <3>1, <3>3, <3>4 DEF BodyIs
    <3> QED
      BY <3>1, <3>5
  <2> QED
    BY <1>5, <1>6, <2>1, <2>2
<1>12. Len(handled') <= Len(sent')
  BY <1>2, <1>3, <1>5
<1> QED
  BY <1>5, <1>10, <1>11, <1>12 DEF Dispatched, f, n

\* The same when nothing is dispatched.
LEMMA DispatchedSame ==
    ASSUME IInv, sent' = sent, handled' = handled
    PROVE  Dispatched'
<1>1. Dispatched
  BY DEF IInv
<1>2. OwnBody' = OwnBody
  BY DEF OwnBody, Lexemes
<1> QED
  BY <1>1, <1>2 DEF Dispatched, DispatchedInOrder

\* What Expect may have sent for request f.
Interim(s, f) == s \in {<<>>, <<<<100, f>>>>, <<<<417, f>>>>}

LEMMA ReplySeqs ==
    ASSUME NEW f, f \in Nat, NEW s, Interim(s, f)
    PROVE  s \in Seq(Reply) /\ ConfirmUpgrade(f) \in Seq(Reply) /\ Final(f) \in Seq(Reply)
<1>1. <<100, f>> \in Reply /\ <<101, f>> \in Reply /\ <<200, f>> \in Reply /\ <<417, f>> \in Reply
  BY DEF Reply
<1>2. ConfirmUpgrade(f) \in Seq(Reply)
  BY <1>1 DEF ConfirmUpgrade
<1>3. <<<<200, f>>>> \in Seq(Reply)
  BY <1>1
<1>4. Final(f) \in Seq(Reply)
  BY <1>3 DEF Final
<1>5. s = <<<<100, f>>>> => s \in Seq(Reply)
  BY <1>1
<1>6. s = <<<<417, f>>>> => s \in Seq(Reply)
  BY <1>1
<1>7. s = <<>> => s \in Seq(Reply)
  OBVIOUS
<1> QED
  BY <1>2, <1>4, <1>5, <1>6, <1>7 DEF Interim

LEMMA ParserSame ==
    ASSUME TypeOK, UNCHANGED parser
    PROVE  /\ msg' \in [first : Seq(Lexeme), hdrs : SUBSET (Fields \cup {"expother"}),
                        body : Seq(Lexeme), there : BOOLEAN]
           /\ expected' \in {-1, 0, BodyLen} /\ last' \in Fields \cup {""} /\ complete' \in BOOLEAN
<1>1. msg' = msg /\ expected' = expected /\ last' = last /\ complete' = complete
  BY DEF parser
<1> QED
  BY <1>1 DEF TypeOK

\* What Expect sends for the next request.
LEMMA InterimI ==
    ASSUME IInv, Live, NEW f, f = Len(handled) + 1, NEW s, Interim(s, f)
    PROVE  /\ out \o s \in Seq(Reply) /\ Sound(out \o s, sent, Len(handled))
           /\ UpTo(out \o s, Len(handled) + 1)
           /\ \A i : Has(out, i) => Has(out \o s, i)
<1> DEFINE n == Len(handled)
           o == out \o s
<1>1. out \in Seq(Reply) /\ n \in Nat /\ Sound(out, sent, n) /\ UpTo(out, n + 1)
  BY RepliesAre
<1>2. /\ o \in Seq(Reply) /\ Sound(o, sent, n) /\ UpTo(o, n + 1)
      /\ \A i : Has(out, i) => Has(o, i)
  <2>1. CASE s = <<>>
    <3>1. o = out
      BY <1>1, <2>1
    <3> HIDE DEF o
    <3> QED
      BY <1>1, <3>1
  <2>2. ASSUME NEW st \in {100, 417}, s = <<<<st, f>>>>
        PROVE  /\ o \in Seq(Reply) /\ Sound(o, sent, n) /\ UpTo(o, n + 1)
               /\ \A i : Has(out, i) => Has(o, i)
    <3>1. <<st, n + 1>> \in Reply /\ st # 200 /\ n \in {n, n + 1}
      BY <1>1 DEF Reply
    <3> DEFINE w == out \o <<<<st, n + 1>>>>
    <3>2. /\ w \in Seq(Reply) /\ Sound(w, sent, n) /\ UpTo(w, n + 1)
          /\ \A i : Has(out, i) => Has(w, i)
      BY <1>1, <3>1, SoundMore
    <3>3. o = w
      BY <2>2
    <3> HIDE DEF w, o
    <3> QED
      BY <3>2, <3>3
  <2> HIDE DEF o
  <2> QED
    BY <2>1, <2>2 DEF Interim
<1> QED
  BY <1>2

\* handleMessage of a whole request.
LEMMA HandleI ==
    ASSUME IInv, Live, NEW mg, NEW f, f = Len(handled) + 1, Ready(mg, f),
           NEW s, Interim(s, f),
           buf' \in Seq(Lexeme), net' = net, sent' = sent, Framed(Input', sent),
           Behind(Input', sent, f), HandleMessage(mg, buf', s)
    PROVE  IInv'
<1> DEFINE n == Len(handled)
           o == out \o s
<1>1. /\ out \in Seq(Reply) /\ n \in Nat /\ Sound(out, sent, n) /\ UpTo(out, n + 1)
      /\ TypeOK /\ Dispatched /\ Reuse
  BY RepliesAre DEF IInv
<1>2. /\ o \in Seq(Reply) /\ Sound(o, sent, n) /\ UpTo(o, n + 1)
      /\ \A i : Has(out, i) => Has(o, i)
  BY InterimI
<1>3. /\ f \in 1..Len(sent) /\ f \in Nat /\ mg.first = FirstOf(sent, f)
  BY <1>1 DEF Ready
<1>4. WellFormed(mg.first) => mg.first = <<Lex(sent, f, 1)>>
  BY <1>3 DEF FirstOf, WellFormed
<1>5. WellFormed(mg.first) => mg.first[1].id = f /\ mg.first[1].c = sent[f][1]
  BY <1>4 DEF Lex
<1>6. Framed(Input, sent)'
  <2>1. Framed(Input', sent')
    OBVIOUS
  <2> QED
    BY <2>1 DEF Framed, Whole, Lex
<1>7. s \in Seq(Reply) /\ ConfirmUpgrade(f) \in Seq(Reply) /\ Final(f) \in Seq(Reply)
  BY <1>3, ReplySeqs
<1> HIDE DEF o
\* An end of this transport, with a last reply.
<1>8. ASSUME NEW w \in Seq(Reply), Sound(w, sent, n), UpTo(w, n + 1),
             \A i : Has(out, i) => Has(w, i), out' = IF isOpen THEN w ELSE out,
             handled' = handled, isOpen' = isOpen, UNCHANGED parser,
             pc' = "idle", ~Live', alive' \in BOOLEAN, transport' \in {"http1", "http2"},
             dangling' \in BOOLEAN, Reuse'
      PROVE  IInv'
  <2>1. Replies' /\ out' \in Seq(Reply)
    BY <1>8, SentI DEF n
  <2>2. Dispatched'
    BY <1>8, DispatchedSame
  <2>3. TypeOK'
    <3>1. net' \in Seq(Lexeme) /\ buf' \in Seq(Lexeme) /\ sent' \in Seq(Messages)
      BY <1>1 DEF TypeOK
    <3>2. /\ msg' \in [first : Seq(Lexeme), hdrs : SUBSET (Fields \cup {"expother"}),
                       body : Seq(Lexeme), there : BOOLEAN]
          /\ expected' \in {-1, 0, BodyLen} /\ last' \in Fields \cup {""} /\ complete' \in BOOLEAN
      BY <1>1, <1>8, ParserSame
    <3>3. isOpen' \in BOOLEAN /\ handled' \in Seq([id : Nat, body : Seq(Lexeme)])
      BY <1>1, <1>8 DEF TypeOK
    <3>4. out' \in Seq({100, 101, 200, 417} \X Nat)
      BY <2>1 DEF Reply
    <3> QED
      BY <1>8, <3>1, <3>2, <3>3, <3>4 DEF TypeOK
  <2>4. Place' /\ AtRest'
    BY <1>8 DEF Place, AtRest
  <2> QED
    BY <1>6, <1>8, <2>1, <2>2, <2>3, <2>4 DEF IInv
<1>9. CASE ~WellFormed(mg.first)
  <2>1. /\ alive' = FALSE /\ pc' = "idle" /\ out' = IF isOpen THEN o ELSE out
        /\ UNCHANGED parser /\ handled' = handled /\ isOpen' = isOpen /\ transport' = transport
        /\ dangling' = dangling
    BY <1>9 DEF HandleMessage, Die, Send, o
  <2>2. /\ ~Live' /\ alive' \in BOOLEAN /\ transport' \in {"http1", "http2"} /\ dangling' \in BOOLEAN
        /\ Reuse'
    BY <1>1, <2>1 DEF Live, TypeOK, Reuse
  <2> QED
    BY <1>2, <1>8, <2>1, <2>2
<1>10. CASE WellFormed(mg.first) /\ Registered(mg.hdrs)
  <2> DEFINE w == o \o ConfirmUpgrade(f)
  <2>1. TryUpgrade(mg, buf', s)
    BY <1>10 DEF HandleMessage
  <2>2. out' = IF isOpen THEN w ELSE out
    <3>1. out' = IF isOpen THEN out \o (s \o ConfirmUpgrade(f)) ELSE out
      BY <1>5, <1>10, <2>1 DEF TryUpgrade, Send
    <3>2. out \in Seq(Reply) /\ s \in Seq(Reply) /\ ConfirmUpgrade(f) \in Seq(Reply)
      BY <1>1, <1>7
    <3> DEFINE c == ConfirmUpgrade(f)
    <3> HIDE DEF c
    <3>3. c \in Seq(Reply)
      BY <3>2 DEF c
    <3>4. out \o (s \o c) = (out \o s) \o c
      BY <3>2, <3>3, Regroup
    <3> QED
      BY <3>1, <3>4 DEF c, o
  <2>3. /\ w \in Seq(Reply) /\ Sound(w, sent, n) /\ UpTo(w, n + 1)
        /\ \A i : Has(out, i) => Has(w, i)
    <3>1. <<101, n + 1>> \in Reply /\ 101 # 200 /\ n \in {n, n + 1} /\ f = n + 1
      BY <1>1 DEF Reply
    <3> DEFINE v == o \o <<<<101, n + 1>>>>
    <3>2. /\ v \in Seq(Reply) /\ Sound(v, sent, n) /\ UpTo(v, n + 1)
          /\ \A i : Has(o, i) => Has(v, i)
      BY <1>1, <1>2, <3>1, SoundMore
    <3>3. w = v
      BY <3>1 DEF ConfirmUpgrade
    <3> HIDE DEF w, v
    <3> QED
      BY <1>2, <3>2, <3>3
  <2> HIDE DEF w
  <2>4. handled' = handled /\ isOpen' = isOpen /\ UNCHANGED parser /\ pc' = "idle"
    BY <2>1 DEF TryUpgrade, Upgrade, Die
  <2>5. \/ transport' = "http2" /\ alive' = alive /\ dangling' = (buf' # <<>>)
        \/ alive' = FALSE /\ transport' = transport /\ dangling' = dangling
    BY <2>1 DEF TryUpgrade, Upgrade, Die
  <2>6. /\ ~Live' /\ alive' \in BOOLEAN /\ transport' \in {"http1", "http2"} /\ dangling' \in BOOLEAN
    BY <1>1, <2>5 DEF Live, TypeOK
  <2>7. Reuse'
    <3>1. SUFFICES ASSUME transport' = "http2", dangling' = (buf' # <<>>), f = Len(sent)
                   PROVE  ~dangling'
      <4>1. Len(handled') + 1 = f /\ Len(sent') = Len(sent) /\ Len(sent) \in Nat
        BY <1>1, <2>4, Typed
      <4>2. f < Len(sent) \/ f = Len(sent)
        BY <1>3, <4>1
      <4>3. ~dangling \/ transport = "http2"
        BY <1>1 DEF Reuse
      <4> QED
        BY <2>5, <4>1, <4>2, <4>3 DEF Reuse, Live
    <3>4. buf' \o net = <<>>
      BY <3>1 DEF Behind, Input
    <3>5. buf' = <<>>
      <4>1. Len(buf' \o net) = Len(buf') + Len(net) /\ Len(buf') \in Nat /\ Len(net) \in Nat
        BY <1>1, Typed, Joined
      <4>2. Len(buf') = 0
        BY <3>4, <4>1
      <4> QED
        BY <4>2, EmptySeq
    <3> QED
      BY <3>1, <3>5
  <2> QED
    BY <1>8, <2>2, <2>3, <2>4, <2>6, <2>7
<1>11. CASE WellFormed(mg.first) /\ ~Registered(mg.hdrs)
  <2> DEFINE a == Final(f)
  <2>1. /\ Send(s \o RoutesDispatch(mg.first[1]))
        /\ handled' = Append(handled, [id |-> mg.first[1].id, body |-> mg.body])
        /\ ResetIncomingMessage
        /\ isOpen' = (isOpen /\ "close" \notin mg.hdrs)
        /\ pc' = IF buf' # <<>> THEN "parse" ELSE "idle"
        /\ transport' = transport /\ alive' = alive /\ dangling' = dangling
    BY <1>11 DEF HandleMessage, TryUpgrade
  <2>2. msg' = NoMsg /\ complete' = FALSE /\ expected' = 0 /\ last' = ""
    BY <2>1 DEF ResetIncomingMessage
  <2>3. out' = IF isOpen THEN o \o a ELSE out
    <3>1. RoutesDispatch(mg.first[1]) = a
      BY <1>5, <1>11 DEF RoutesDispatch, Final
    <3>2. s \in Seq(Reply) /\ a \in Seq(Reply)
      BY <1>7
    <3> HIDE DEF a
    <3>3. out \o (s \o a) = (out \o s) \o a
      BY <1>1, <3>2, Regroup
    <3> QED
      BY <2>1, <3>1, <3>3 DEF Send, o
  <2>4. handled' = Append(handled, [id |-> n + 1, body |-> mg.body])
    BY <1>5, <1>11, <2>1
  <2>5. /\ Dispatched' /\ Len(handled') = n + 1
        /\ handled' \in Seq([id : Nat, body : Seq(Lexeme)])
    BY <2>4, DispatchedMore
  <2>6. (isOpen' => isOpen) /\ isOpen' \in BOOLEAN
    BY <1>1, <2>1 DEF TypeOK
  <2>7. out' = (IF isOpen THEN o \o Final(n + 1) ELSE out) /\ ~complete'
    BY <2>2, <2>3
  <2>8. Replies' /\ out' \in Seq(Reply)
    BY <1>2, <2>5, <2>6, <2>7, AnswerI
  <2>9. Live' /\ (Live' => Live)
    BY <2>1 DEF Live
  <2>10. Place'
    <3>1. Behind(Input', sent', Len(handled'))
      BY <2>5
    <3> QED
      BY <2>2, <3>1 DEF Place
  <2>11. AtRest'
    <3>1. pc' = "idle" => buf' = <<>>
      BY <2>1
    <3>2. buf' = <<>> => NewLines(buf)' = {}
      BY DEF NewLines
    <3> QED
      BY <2>9, <3>1, <3>2 DEF AtRest
  <2>12. TypeOK'
    <3>1. NoMsg \in [first : Seq(Lexeme), hdrs : SUBSET (Fields \cup {"expother"}),
                     body : Seq(Lexeme), there : BOOLEAN]
      BY DEF NoMsg
    <3>2. pc' \in {"idle", "parse"} /\ (pc' = "parse" => buf' # <<>>)
      BY <2>1
    <3>3. net' \in Seq(Lexeme) /\ buf' \in Seq(Lexeme) /\ sent' \in Seq(Messages)
      BY <1>1 DEF TypeOK
    <3>4. expected' \in {-1, 0, BodyLen} /\ last' \in Fields \cup {""} /\ complete' \in BOOLEAN
      BY <2>2
    <3>5. transport' \in {"http1", "http2"} /\ alive' \in BOOLEAN /\ dangling' \in BOOLEAN
      BY <1>1, <2>1 DEF TypeOK
    <3>6. out' \in Seq({100, 101, 200, 417} \X Nat)
      BY <2>8 DEF Reply
    <3> QED
      BY <2>2, <2>5, <2>6, <3>1, <3>2, <3>3, <3>4, <3>5, <3>6 DEF TypeOK
  <2>13. Reuse'
    BY <1>1, <2>1 DEF Reuse, Live
  <2> QED
    BY <1>6, <2>5, <2>8, <2>10, <2>11, <2>12, <2>13 DEF IInv
<1> QED
  BY <1>9, <1>10, <1>11

\* onEndOfMessageHeaders and what follows it.
LEMMA EndOfHeadersI ==
    ASSUME IInv, EndOfHeaders
    PROVE  IInv'
<1> DEFINE f == Len(handled) + 1
           m == sent[f]
           len == ContentLength(msg.hdrs)
           reply == OnEndOfMessageHeaders(msg.hdrs, buf[1].id)
<1>1. /\ pc = "parse" /\ InHeaders /\ NewLines(buf) # {} /\ msg.there /\ Line(buf) = <<>>
      /\ buf' = RestAfterLine(buf) /\ net' = net /\ sent' = sent
  BY DEF EndOfHeaders
<1>2. \/ /\ complete' = TRUE /\ Die
         /\ UNCHANGED <<msg, expected, last, transport, isOpen, dangling, handled, out>>
      \/ IsComplete(msg.body, len) /\ HandleMessage(msg, buf', reply)
      \/ /\ ~IsComplete(msg.body, len)
         /\ complete' = TRUE /\ expected' = len
         /\ Send(reply) /\ pc' = "idle"
         /\ UNCHANGED <<msg, last, transport, isOpen, alive, dangling, handled>>
  BY DEF EndOfHeaders
<1>3. TypeOK /\ Framed(Input, sent) /\ Live /\ ~complete
  BY <1>1, HeadersOnly DEF IInv
<1>4. PICK j \in Nat : ReadsAt(Input, sent, f, msg, j)
  <2>1. msg # NoMsg
    BY <1>1 DEF NoMsg
  <2> QED
    BY <1>1, <2>1, HeadersOnly
<1>5. /\ At(Input, sent, f, j) /\ j \in 2..End(m) /\ m[j - 1] = "nl"
      /\ msg.first = FirstOf(sent, f) /\ msg.body = <<>> /\ Seen(m, msg.hdrs, j)
  BY <1>4 DEF ReadsAt
<1>6. f \in 1..Len(sent) /\ f \in Nat
  BY <1>5 DEF At
<1>7. m \in Messages /\ Len(m) \in Nat /\ End(m) \in 2..Len(m)
  <2>1. m \in Messages
    BY <1>3, <1>6, Typed
  <2> HIDE DEF m
  <2> QED
    BY <2>1, Shape
<1> HIDE DEF f, m, len, reply
<1>8. j = End(m) /\ m[j] = "nl"
  <2>1. ASSUME m[j] # "nl" PROVE FALSE
    <3>1. m[j + 1] = "nl" /\ j + 2 \in 2..End(m)
      BY <1>5, <1>7, <2>1, LineOf
    <3>2. j + 1 <= Len(m)
      BY <1>7, <3>1
    <3>3. Line(buf) = <<Lex(sent, f, j)>>
      BY <1>1, <1>3, <1>5, <2>1, <3>1, <3>2, NextLine DEF m
    <3> QED
      BY <1>1, <3>3
  <2> QED
    BY <1>5, <1>7, <2>1, LineOf
<1>9. j <= Len(m)
  BY <1>7, <1>8
<1>10. buf[1].id = f /\ Follows(buf', f, j + 1)
  <2>1. buf[1] = Lex(sent, f, j) /\ Follows(RestAfterLine(buf), f, j + 1)
    BY <1>1, <1>3, <1>5, <1>8, <1>9, NextLine DEF m
  <2> QED
    BY <1>1, <2>1 DEF Lex
<1>11. buf' \in Seq(Lexeme) /\ Framed(Input', sent) /\ At(Input', sent, f, End(m) + 1)
  BY <1>1, <1>8, <1>10 DEF Follows, Input
<1>12. /\ len \in {-1, 0, BodyLen}
       /\ len = -1 => Len(m) > End(m)
       /\ len # -1 => Len(m) = End(m) + len
       /\ BodyLen \in Nat /\ BodyLen # 0
  <2>1. Seen(m, msg.hdrs, End(m))
    BY <1>5, <1>8
  <2> QED
    BY <1>7, <2>1, Announced DEF len
<1>13. Interim(reply, f)
  BY <1>10 DEF reply, OnEndOfMessageHeaders, HandleExpect, Interim
<1>15. Len(msg.body) = 0
  BY <1>5
<1>18. CASE /\ complete' = TRUE /\ Die
            /\ UNCHANGED <<msg, expected, last, transport, isOpen, dangling, handled, out>>
  <2>1. /\ complete' = TRUE /\ alive' = FALSE /\ pc' = "idle" /\ msg' = msg /\ expected' = expected
        /\ last' = last /\ transport' = transport /\ isOpen' = isOpen /\ dangling' = dangling
        /\ handled' = handled /\ out' = out
    BY <1>18 DEF Die
  <2>2. Dispatched' /\ Replies' /\ Reuse'
    BY <1>1, <2>1, QuietI
  <2>3. TypeOK'
    BY <1>1, <1>3, <1>11, <2>1 DEF TypeOK
  <2>4. Place' /\ AtRest'
    BY <2>1 DEF Place, AtRest, Live
  <2>5. Framed(Input, sent)'
    BY <1>1, <1>11 DEF Framed, Whole, Lex
  <2> QED
    BY <2>2, <2>3, <2>4, <2>5 DEF IInv
<1>16. CASE IsComplete(msg.body, len) /\ HandleMessage(msg, buf', reply)
  <2>1. len = 0 /\ Len(m) = End(m)
    <3>1. len = 0
      BY <1>15, <1>16 DEF IsComplete
    <3> QED
      BY <1>7, <1>12, <3>1
  <2>2. Behind(Input', sent, f)
    <3>1. End(m) + 1 > Len(m)
      BY <1>7, <2>1
    <3> QED
      BY <1>11, <3>1 DEF At, m
  <2>3. Ready(msg, f)
    <3>1. msg.body \in Seq(Lexeme)
      BY <1>5
    <3>2. Len(msg.body) = Len(m) - End(m)
      BY <1>7, <1>15, <2>1
    <3>3. 1..Len(msg.body) = {}
      BY <1>15
    <3> QED
      BY <1>5, <1>6, <3>1, <3>2, <3>3 DEF Ready, m
  <2>4. HandleMessage(msg, buf', reply)
    BY <1>16
  <2> QED
    BY <1>1, <1>3, <1>11, <1>13, <2>2, <2>3, <2>4, HandleI DEF f
<1>17. CASE /\ ~IsComplete(msg.body, len)
            /\ complete' = TRUE /\ expected' = len
            /\ Send(reply) /\ pc' = "idle"
            /\ UNCHANGED <<msg, last, transport, isOpen, alive, dangling, handled>>
  <2>1. /\ complete' = TRUE /\ expected' = len /\ Send(reply) /\ pc' = "idle"
        /\ UNCHANGED <<msg, last, transport, isOpen, alive, dangling, handled>>
    BY <1>17
  <2> DEFINE o == out \o reply
  <2>2. /\ o \in Seq(Reply) /\ Sound(o, sent, Len(handled))
        /\ UpTo(o, Len(handled) + 1) /\ \A i : Has(out, i) => Has(o, i)
    BY <1>3, <1>13, InterimI DEF f
  <2>3. out' = IF isOpen THEN o ELSE out
    BY <2>1 DEF Send
  <2> HIDE DEF o
  <2>4. Live' => complete'
    BY <2>1
  <2>5. Replies' /\ out' \in Seq(Reply)
    BY <1>1, <1>3, <2>1, <2>2, <2>3, <2>4, SentI
  <2>6. Dispatched'
    BY <1>1, <2>1, DispatchedSame
  <2>7. Place'
    <3>1. len # 0 /\ Len(m) > End(m)
      <4>1. len # 0
        BY <1>15, <1>17 DEF IsComplete
      <4> QED
        BY <1>7, <1>12, <4>1
    <3>2. AwaitsAt(Input', sent, f, msg, len)
      BY <1>1, <1>5, <1>11, <1>12, <3>1 DEF AwaitsAt, m
    <3>3. Input' = Input' /\ msg' = msg /\ sent' = sent /\ Len(handled') + 1 = f /\ expected' = len
      BY <1>1, <2>1 DEF f
    <3>4. AwaitsAt(Input', sent', Len(handled') + 1, msg', expected')
      BY <3>2, <3>3
    <3> QED
      BY <2>1, <3>4 DEF Place
  <2>8. AtRest'
    BY <2>1 DEF AtRest
  <2>9. TypeOK'
    <3>1. out' \in Seq({100, 101, 200, 417} \X Nat)
      BY <2>5 DEF Reply
    <3>2. pc' \in {"idle", "parse"} /\ (pc' = "parse" => buf' # <<>>) /\ complete' \in BOOLEAN
      BY <2>1
    <3>3. expected' \in {-1, 0, BodyLen}
      BY <1>12, <2>1
    <3>4. /\ msg' = msg /\ last' = last /\ transport' = transport /\ isOpen' = isOpen
          /\ alive' = alive /\ dangling' = dangling /\ handled' = handled
      BY <2>1
    <3> QED
      BY <1>1, <1>3, <1>11, <3>1, <3>2, <3>3, <3>4 DEF TypeOK
  <2>10. Reuse'
    <3>1. Reuse
      BY DEF IInv
    <3>2. transport' = transport /\ sent' = sent /\ handled' = handled /\ dangling' = dangling
      BY <1>1, <2>1 DEF Live
    <3> QED
      BY <3>1, <3>2 DEF Reuse
  <2>11. Framed(Input, sent)'
    BY <1>1, <1>11 DEF Framed, Whole, Lex
  <2> QED
    BY <2>5, <2>6, <2>7, <2>8, <2>9, <2>10, <2>11 DEF IInv
<1> QED
  BY <1>2, <1>16, <1>17, <1>18

LEMMA MoreBody ==
    ASSUME NEW A, NEW B, NEW C, NEW D, NEW r \in [first : A, hdrs : B, body : C, there : D],
           NEW x \in C, NEW g, g = [r EXCEPT !.body = x]
    PROVE  /\ g \in [first : A, hdrs : B, body : C, there : D]
           /\ g.first = r.first /\ g.hdrs = r.hdrs /\ g.there = r.there /\ g.body = x
OBVIOUS

\* The body, or what is taken for it.
LEMMA ReadBodyI ==
    ASSUME IInv, ReadBody
    PROVE  IInv'
<1> DEFINE f == Len(handled) + 1
           m == sent[f]
           mg == [msg EXCEPT !.body = @ \o buf]
           n == Len(buf)
<1>1. /\ pc = "parse" /\ buf # <<>> /\ msg.there /\ complete /\ net' = net /\ sent' = sent
      /\ \/ /\ expected = -1 \/ Len(buf) < expected
            /\ Die
            /\ UNCHANGED <<buf, parser, transport, isOpen, dangling, handled, out>>
         \/ /\ expected # -1 /\ Len(buf) >= expected
            /\ buf' = <<>>
            /\ \/ IsComplete(mg.body, expected) /\ HandleMessage(mg, <<>>, <<>>)
               \/ /\ ~IsComplete(mg.body, expected)
                  /\ msg' = mg /\ pc' = "idle"
                  /\ UNCHANGED <<complete, expected, last, transport, isOpen, alive,
                                 dangling, handled, out>>
  BY DEF ReadBody
<1>2. TypeOK /\ Framed(Input, sent) /\ Place /\ AtRest
  BY DEF IInv
<1>3. Live
  BY <1>1, <1>2 DEF AtRest
<1>4. AwaitsAt(Input, sent, f, msg, expected) \/ SwampedAt(sent, f, msg, expected)
  BY <1>1, <1>2, <1>3 DEF Place
<1>5. CASE /\ expected = -1 \/ Len(buf) < expected
           /\ Die
           /\ UNCHANGED <<buf, parser, transport, isOpen, dangling, handled, out>>
  <2>1. /\ alive' = FALSE /\ pc' = "idle" /\ buf' = buf /\ UNCHANGED parser
        /\ UNCHANGED <<sent, isOpen, transport, dangling, handled, out>>
    BY <1>1, <1>5 DEF Die
  <2>2. complete' = complete
    BY <2>1 DEF parser
  <2>3. alive' => alive
    BY <2>1
  <2>4. Dispatched' /\ Replies' /\ Reuse'
    BY <2>1, <2>2, <2>3, QuietI
  <2>5. ~Live'
    BY <2>1 DEF Live
  <2>6. Place' /\ AtRest'
    BY <2>1, <2>5 DEF Place, AtRest
  <2>7. TypeOK'
    <3>1. /\ msg' \in [first : Seq(Lexeme), hdrs : SUBSET (Fields \cup {"expother"}),
                       body : Seq(Lexeme), there : BOOLEAN]
          /\ expected' \in {-1, 0, BodyLen} /\ last' \in Fields \cup {""} /\ complete' \in BOOLEAN
      BY <1>2, <2>1, ParserSame
    <3>2. alive' \in BOOLEAN /\ pc' \in {"idle", "parse"} /\ (pc' = "parse" => buf' # <<>>)
      BY <2>1
    <3> QED
      BY <1>1, <1>2, <2>1, <3>1, <3>2 DEF TypeOK
  <2>8. Framed(Input, sent)'
    <3>1. Input' = Input /\ sent' = sent
      BY <1>1, <2>1 DEF Input
    <3> QED
      BY <1>2, <3>1 DEF Framed, Whole, Lex
  <2> QED
    BY <2>4, <2>6, <2>7, <2>8 DEF IInv
<1>6. CASE expected # -1 /\ Len(buf) >= expected /\ buf' = <<>>
  <2>1. /\ buf \in Seq(Lexeme) /\ net \in Seq(Lexeme) /\ sent \in Seq(Messages)
        /\ n \in Nat /\ Input \in Seq(Lexeme) /\ n >= 1
        /\ \A i \in 1..n : Input[i] = buf[i]
    BY <1>1, <1>2, Typed
  <2>2. /\ msg \in [first : Seq(Lexeme), hdrs : SUBSET (Fields \cup {"expother"}),
                    body : Seq(Lexeme), there : BOOLEAN]
        /\ expected \in {-1, 0, BodyLen} /\ BodyLen \in Nat
    BY <1>2, MessagesAssumption DEF TypeOK
  <2>3. msg.body \in Seq(Lexeme) /\ Len(msg.body) \in Nat
    BY <2>2
  <2>4. msg.body \o buf \in Seq(Lexeme) /\ Len(msg.body \o buf) = Len(msg.body) + Len(buf)
    BY <2>1, <2>3, Joined
  <2>5. /\ mg \in [first : Seq(Lexeme), hdrs : SUBSET (Fields \cup {"expother"}),
                   body : Seq(Lexeme), there : BOOLEAN]
        /\ mg.first = msg.first /\ mg.hdrs = msg.hdrs /\ mg.there /\ mg.body = msg.body \o buf
        /\ mg.body \in Seq(Lexeme) /\ Len(mg.body) = Len(msg.body) + n
    <3> DEFINE x == msg.body \o buf
    <3>1. mg = [msg EXCEPT !.body = x] /\ x \in Seq(Lexeme) /\ Len(x) = Len(msg.body) + n
      BY <2>4
    <3> HIDE DEF mg, x
    <3>2. /\ mg \in [first : Seq(Lexeme), hdrs : SUBSET (Fields \cup {"expother"}),
                     body : Seq(Lexeme), there : BOOLEAN]
          /\ mg.first = msg.first /\ mg.hdrs = msg.hdrs /\ mg.there = msg.there /\ mg.body = x
      BY <2>2, <3>1, MoreBody
    <3> QED
      BY <1>1, <3>1, <3>2 DEF x
  <2> HIDE DEF mg, f, m, n
  <2>6. expected \in Nat
    BY <1>6, <2>2
  <2>7. Dropped(Input', Input, n) /\ Framed(Input', sent) /\ buf' \in Seq(Lexeme)
    <3>1. Dropped(<<>>, buf, n)
      BY <2>1 DEF Dropped, n
    <3>2. Dropped(<<>> \o net, buf \o net, n)
      BY <2>1, <3>1, JoinedDrop
    <3>3. Dropped(Input', Input, n)
      BY <1>1, <1>6, <3>2 DEF Input
    <3>4. <<>> \in Seq(Lexeme)
      OBVIOUS
    <3> QED
      BY <1>2, <1>6, <2>1, <3>3, <3>4, FramedDropped
  <2>8. CASE IsComplete(mg.body, expected) /\ HandleMessage(mg, <<>>, <<>>)
    <3>1. Len(msg.body) + n = expected
      BY <2>5, <2>8 DEF IsComplete
    <3>2. AwaitsAt(Input, sent, f, msg, expected)
      <4>1. ~(Len(msg.body) > expected)
        BY <2>1, <2>3, <2>6, <3>1
      <4> QED
        BY <1>4, <4>1 DEF SwampedAt
    <3>3. /\ At(Input, sent, f, End(m) + 1) /\ Len(m) = End(m) + expected
          /\ msg.first = FirstOf(sent, f) /\ msg.body = <<>>
      BY <1>6, <3>2 DEF AwaitsAt, m
    <3>4. f \in 1..Len(sent)
      BY <3>3 DEF At
    <3>5. End(m) \in Nat /\ Len(m) \in Nat
      <4>1. m \in Messages
        BY <2>1, <3>4 DEF m
      <4> QED
        BY <4>1, Shape
    <3>6. Len(msg.body) = 0
      BY <3>3
    <3>7. n = expected /\ n \in Nat \ {0} /\ (End(m) + 1) + n = Len(m) + 1
      BY <2>1, <2>6, <3>1, <3>3, <3>5, <3>6
    <3>8. Ahead(Input, sent, f, End(m) + 1, n)
      <4>1. (End(m) + 1) + n <= Len(sent[f]) + 1
        BY <3>5, <3>7 DEF m
      <4> QED
        BY <1>2, <2>1, <3>3, <3>7, <4>1, AtDropped
    <3>9. Behind(Input', sent, f)
      <4>1. At(Input', sent, f, (End(m) + 1) + n)
        BY <2>7, <3>8 DEF Ahead
      <4>2. At(Input', sent, f, Len(m) + 1)
        BY <3>7, <4>1
      <4>3. Len(m) + 1 > Len(m)
        BY <3>5
      <4> QED
        BY <4>2, <4>3 DEF At, m
    <3>10. mg.body = buf
      BY <2>1, <2>5, <3>3
    <3>11. ASSUME NEW k \in 1..n PROVE buf[k] = Lex(sent, f, End(m) + k)
      <4>1. k - 1 \in 0..(n - 1) /\ 1 + (k - 1) = k /\ (End(m) + 1) + (k - 1) = End(m) + k
        BY <2>1, <3>5
      <4>2. Input[1 + (k - 1)] = Lex(sent, f, (End(m) + 1) + (k - 1))
        BY <3>8, <4>1 DEF Ahead
      <4> QED
        BY <2>1, <4>1, <4>2
    <3>12. Ready(mg, f)
      <4>1. Len(buf) = Len(m) - End(m) /\ Len(buf) = n
        BY <3>5, <3>7 DEF n
      <4> QED
        BY <2>1, <2>5, <3>3, <3>4, <3>10, <3>11, <4>1 DEF Ready, m
    <3>13. HandleMessage(mg, buf', <<>>) /\ Interim(<<>>, f)
      BY <1>6, <2>8 DEF Interim
    <3> QED
      BY <1>1, <1>3, <2>7, <3>9, <3>12, <3>13, HandleI DEF f
  <2>9. CASE /\ ~IsComplete(mg.body, expected)
             /\ msg' = mg /\ pc' = "idle"
             /\ UNCHANGED <<complete, expected, last, transport, isOpen, alive,
                            dangling, handled, out>>
    <3>1. Dispatched' /\ Replies' /\ Reuse'
      <4>1. UNCHANGED <<sent, isOpen, transport, dangling, handled, out>> /\ alive' = alive
            /\ complete' = complete
        BY <1>1, <2>9
      <4> QED
        BY <4>1, QuietI
    <3>2. SwampedAt(sent, f, mg, expected)
      <4>1. f \in 1..Len(sent) /\ Len(m) > End(m)
        BY <1>4 DEF AwaitsAt, SwampedAt, At, m
      <4>2. Len(mg.body) # expected
        BY <2>9 DEF IsComplete
      <4>3. Len(mg.body) >= n /\ n >= expected
        BY <1>6, <2>1, <2>3, <2>5 DEF n
      <4>4. Len(mg.body) \in Nat
        BY <2>5
      <4>5. Len(mg.body) > expected
        BY <2>1, <2>6, <4>2, <4>3, <4>4
      <4> QED
        BY <2>5, <2>6, <4>1, <4>5 DEF SwampedAt, m
    <3>3. Place'
      <4>1. SwampedAt(sent', Len(handled') + 1, msg', expected') /\ complete'
        BY <1>1, <2>9, <3>2 DEF f
      <4> QED
        BY <4>1 DEF Place
    <3>4. AtRest'
      <4>1. pc' = "idle" /\ complete'
        BY <1>1, <2>9
      <4> QED
        BY <4>1 DEF AtRest
    <3>5. TypeOK'
      <4>1. msg' \in [first : Seq(Lexeme), hdrs : SUBSET (Fields \cup {"expother"}),
                      body : Seq(Lexeme), there : BOOLEAN]
        BY <2>5, <2>9
      <4>2. pc' \in {"idle", "parse"} /\ (pc' = "parse" => buf' # <<>>)
        BY <2>9
      <4>3. /\ complete' = complete /\ expected' = expected /\ last' = last /\ transport' = transport
            /\ isOpen' = isOpen /\ alive' = alive /\ dangling' = dangling /\ handled' = handled
            /\ out' = out
        BY <2>9
      <4> QED
        BY <1>1, <1>2, <2>7, <4>1, <4>2, <4>3 DEF TypeOK
    <3>6. Framed(Input, sent)'
      BY <1>1, <2>7 DEF Framed, Whole, Lex
    <3> QED
      BY <3>1, <3>3, <3>4, <3>5, <3>6 DEF IInv
  <2> QED
    BY <1>1, <1>6, <2>8, <2>9 DEF mg
<1> QED
  BY <1>1, <1>5, <1>6

-----------------------------------------------------------------------------
\* One more request.

LEMMA ClientSendsI ==
    ASSUME IInv, NEW m \in Messages, ClientSends(m)
    PROVE  IInv'
<1> DEFINE f == Len(handled) + 1
           n == Len(handled)
           q == Append(sent, m)
<1>1. /\ sent' = q /\ net' = net \o Lexemes(m, Len(sent) + 1)
      /\ pc' = pc /\ buf' = buf /\ UNCHANGED parser /\ transport' = transport /\ isOpen' = isOpen
      /\ alive' = alive /\ dangling' = dangling /\ handled' = handled /\ out' = out
  BY DEF ClientSends
<1>2. TypeOK /\ Framed(Input, sent) /\ Place /\ AtRest /\ Dispatched /\ Replies /\ Reuse
  BY DEF IInv
<1>3. /\ buf \in Seq(Lexeme) /\ net \in Seq(Lexeme) /\ sent \in Seq(Messages)
      /\ Len(sent) \in Nat /\ n \in Nat
  BY <1>2, Typed
<1>4. msg' = msg /\ complete' = complete /\ expected' = expected /\ last' = last
  BY <1>1 DEF parser
<1>5. /\ q \in Seq(Messages) /\ Len(q) = Len(sent) + 1
      /\ \A i \in 1..Len(sent) : q[i] = sent[i]
  BY <1>3, Appended
<1> HIDE DEF q
<1>6. net' \in Seq(Lexeme) /\ Extended(Input', Input, sent, m)
  <2>1. /\ net \o Lexemes(m, Len(sent) + 1) \in Seq(Lexeme)
        /\ Extended(buf \o (net \o Lexemes(m, Len(sent) + 1)), buf \o net, sent, m)
    BY <1>3, JoinedSend
  <2> QED
    BY <1>1, <2>1 DEF Input
<1>7. Framed(Input, sent)'
  <2>1. Framed(Input', q)
    BY <1>2, <1>3, <1>6, FramedExtended DEF q
  <2> QED
    BY <1>1, <2>1 DEF Framed, Whole, Lex
<1>8. TypeOK'
  <2>1. sent' \in Seq(Messages)
    BY <1>1, <1>5
  <2> QED
    <3>1. buf' \in Seq(Lexeme) /\ pc' \in {"idle", "parse"} /\ (pc' = "parse" => buf' # <<>>)
      BY <1>1, <1>2 DEF TypeOK
    <3>2. /\ msg' \in [first : Seq(Lexeme), hdrs : SUBSET (Fields \cup {"expother"}),
                       body : Seq(Lexeme), there : BOOLEAN]
          /\ expected' \in {-1, 0, BodyLen} /\ last' \in Fields \cup {""} /\ complete' \in BOOLEAN
      BY <1>1, <1>2, ParserSame
    <3>3. /\ handled' \in Seq([id : Nat, body : Seq(Lexeme)])
          /\ out' \in Seq({100, 101, 200, 417} \X Nat)
      BY <1>1, <1>2 DEF TypeOK
    <3>4. /\ transport' \in {"http1", "http2"} /\ isOpen' \in BOOLEAN /\ alive' \in BOOLEAN
          /\ dangling' \in BOOLEAN
      BY <1>1, <1>2 DEF TypeOK
    <3> QED
      BY <1>6, <2>1, <3>1, <3>2, <3>3, <3>4 DEF TypeOK
<1>9. Live' = Live
  BY <1>1 DEF Live
<1>10. ASSUME Live PROVE Place'
  <2>1. CASE ~complete /\ msg = NoMsg /\ Behind(Input, sent, n)
    <3>1. Behind(Input', q, n)
      BY <1>3, <1>6, <2>1, BehindExtended DEF q
    <3>2. ~complete' /\ msg' = NoMsg /\ Behind(Input', sent', Len(handled'))
      BY <1>1, <1>4, <2>1, <3>1
    <3> QED
      BY <3>2 DEF Place
  <2>2. ASSUME NEW k, At(Input, sent, f, k)
        PROVE  At(Input', q, f, k) /\ q[f] = sent[f] /\ FirstOf(q, f) = FirstOf(sent, f)
    <3> HIDE DEF f
    <3>1. /\ At(Input', Append(sent, m), f, k) /\ Append(sent, m)[f] = sent[f]
          /\ FirstOf(Append(sent, m), f) = FirstOf(sent, f)
      BY <1>3, <1>6, <2>2, AtExtended
    <3> QED
      BY <3>1 DEF q
  <2>3. ASSUME ~complete, NEW j \in Nat, ReadsAt(Input, sent, f, msg, j) PROVE Place'
    <3>1. At(Input, sent, f, j)
      BY <2>3 DEF ReadsAt
    <3>2. At(Input', q, f, j) /\ q[f] = sent[f] /\ FirstOf(q, f) = FirstOf(sent, f)
      BY <2>2, <3>1
    <3>3. ReadsAt(Input', q, f, msg, j)
      BY <2>3, <3>2 DEF ReadsAt
    <3>4. ~complete' /\ ReadsAt(Input', sent', Len(handled') + 1, msg', j)
      BY <1>1, <1>4, <2>3, <3>3
    <3> QED
      BY <3>4 DEF Place
  <2>4. ASSUME complete, AwaitsAt(Input, sent, f, msg, expected) PROVE Place'
    <3>1. At(Input, sent, f, End(sent[f]) + 1)
      BY <2>4 DEF AwaitsAt
    <3>2. At(Input', q, f, End(q[f]) + 1) /\ q[f] = sent[f] /\ FirstOf(q, f) = FirstOf(sent, f)
      BY <2>2, <3>1
    <3>3. AwaitsAt(Input', q, f, msg, expected)
      BY <2>4, <3>2 DEF AwaitsAt
    <3>4. complete' /\ AwaitsAt(Input', sent', Len(handled') + 1, msg', expected')
      BY <1>1, <1>4, <2>4, <3>3
    <3> QED
      BY <3>4 DEF Place
  <2>5. ASSUME complete, SwampedAt(sent, f, msg, expected) PROVE Place'
    <3>1. f \in 1..Len(sent)
      BY <2>5 DEF SwampedAt
    <3>2. f \in 1..Len(q) /\ q[f] = sent[f]
      BY <1>3, <1>5, <3>1
    <3>3. SwampedAt(q, f, msg, expected)
      BY <2>5, <3>2 DEF SwampedAt
    <3>4. complete' /\ SwampedAt(sent', Len(handled') + 1, msg', expected')
      BY <1>1, <1>4, <2>5, <3>3
    <3> QED
      BY <3>4 DEF Place
  <2> QED
    BY <1>2, <1>10, <2>1, <2>3, <2>4, <2>5 DEF Place
<1>11. Place'
  BY <1>9, <1>10 DEF Place
<1>12. AtRest'
  BY <1>1, <1>2, <1>4, <1>9 DEF AtRest, NewLines
<1>13. n <= Len(sent) /\ \A i \in 1..n : i \in 1..Len(sent) /\ q[i] = sent[i]
  BY <1>2, <1>3, <1>5 DEF Dispatched
<1>14. Dispatched'
  <2>1. Len(handled') <= Len(sent')
    BY <1>1, <1>3, <1>5, <1>13
  <2>2. DispatchedInOrder'
    BY <1>1, <1>2 DEF Dispatched, DispatchedInOrder
  <2>3. OwnBody' <=> \A i \in 1..Len(handled') : BodyIs(sent', i, handled'[i].body)
    BY DEF OwnBody, BodyIs
  <2>4. ASSUME NEW i \in 1..n PROVE BodyIs(q, i, handled[i].body)
    <3>1. BodyIs(sent, i, handled[i].body) /\ q[i] = sent[i]
      BY <1>2, <1>13, OwnBodyIs DEF Dispatched
    <3> QED
      BY <3>1 DEF BodyIs
  <2> QED
    BY <1>1, <2>1, <2>2, <2>3, <2>4 DEF Dispatched
<1>15. Replies'
  <2>1. Sound(out, sent, n) /\ Covered(out, sent, n, isOpen)
    BY RepliesAre
  <2>2. Sound(out, q, n)
    <3>1. \A k \in 1..Len(out) : out[k][1] = 200 => out[k][2] \in 1..n /\ q[out[k][2]][1] = "req"
      BY <1>13, <2>1 DEF Sound
    <3> QED
      BY <2>1, <3>1 DEF Sound
  <2>3. Covered(out, q, n, isOpen)
    BY <1>13, <2>1 DEF Covered
  <2>4. OneFinalResponse' <=>
            Sound(out', sent', Len(handled')) /\ Covered(out', sent', Len(handled'), isOpen')
    BY DEF OneFinalResponse, Sound, Covered, Has, Routed, Answered
  <2>5. OneFinalResponse'
    BY <1>1, <2>2, <2>3, <2>4
  <2> QED
    BY <1>1, <1>2, <1>4, <1>9, <2>5 DEF Replies
<1>16. Reuse'
  <2>1. Len(sent') = Len(sent) + 1 /\ Len(sent) \in Nat /\ Len(handled') = Len(handled) /\ n \in Nat
    BY <1>1, <1>3, <1>5
  <2> QED
    BY <1>1, <1>2, <2>1 DEF Reuse
<1> QED
  BY <1>7, <1>8, <1>11, <1>12, <1>14, <1>15, <1>16 DEF IInv

-----------------------------------------------------------------------------
\* The theorems.

LEMMA StutterI ==
    ASSUME IInv, UNCHANGED vars
    PROVE  IInv'
<1>1. /\ net' = net /\ sent' = sent /\ pc' = pc /\ buf' = buf /\ UNCHANGED parser
      /\ msg' = msg /\ complete' = complete /\ expected' = expected
      /\ UNCHANGED <<sent, isOpen, transport, dangling, handled, out>> /\ alive' = alive
  BY DEF vars, parser
<1>2. TypeOK /\ Framed(Input, sent) /\ Place /\ AtRest
  BY DEF IInv
<1>3. Dispatched' /\ Replies' /\ Reuse'
  BY <1>1, QuietI
<1>4. Input' = Input /\ Live' = Live
  BY <1>1 DEF Input, Live
<1>5. Framed(Input, sent)'
  BY <1>1, <1>2, <1>4 DEF Framed, Whole, Lex
<1>6. AtRest'
  BY <1>1, <1>2, <1>4 DEF AtRest, NewLines
<1>7. Place'
  <2>1. \A j : ReadsAt(Input, sent, Len(handled) + 1, msg, j) =>
                   ReadsAt(Input', sent', Len(handled') + 1, msg', j)
    BY <1>1, <1>4
  <2>2. AwaitsAt(Input, sent, Len(handled) + 1, msg, expected) =>
            AwaitsAt(Input', sent', Len(handled') + 1, msg', expected')
    BY <1>1, <1>4
  <2>3. SwampedAt(sent, Len(handled) + 1, msg, expected) =>
            SwampedAt(sent', Len(handled') + 1, msg', expected')
    BY <1>1
  <2>4. Behind(Input, sent, Len(handled)) => Behind(Input', sent', Len(handled'))
    BY <1>1, <1>4
  <2> QED
    BY <1>1, <1>2, <1>4, <2>1, <2>2, <2>3, <2>4 DEF Place
<1>8. TypeOK'
  <2>1. net' \in Seq(Lexeme) /\ buf' \in Seq(Lexeme) /\ sent' \in Seq(Messages)
    BY <1>1, <1>2, Typed
  <2>2. pc' \in {"idle", "parse"} /\ (pc' = "parse" => buf' # <<>>)
    BY <1>1, <1>2 DEF TypeOK
  <2>3. /\ msg' \in [first : Seq(Lexeme), hdrs : SUBSET (Fields \cup {"expother"}),
                     body : Seq(Lexeme), there : BOOLEAN]
        /\ expected' \in {-1, 0, BodyLen} /\ last' \in Fields \cup {""} /\ complete' \in BOOLEAN
    BY <1>1, <1>2, ParserSame
  <2>4. /\ handled' \in Seq([id : Nat, body : Seq(Lexeme)])
        /\ out' \in Seq({100, 101, 200, 417} \X Nat)
    BY <1>1, <1>2 DEF TypeOK
  <2>5. /\ transport' \in {"http1", "http2"} /\ isOpen' \in BOOLEAN /\ alive' \in BOOLEAN
        /\ dangling' \in BOOLEAN
    BY <1>1, <1>2 DEF TypeOK
  <2> QED
    BY <2>1, <2>2, <2>3, <2>4, <2>5 DEF TypeOK
<1> QED
  BY <1>3, <1>5, <1>6, <1>7, <1>8 DEF IInv

LEMMA NextI == IInv /\ [Next]_vars => IInv'
<1> SUFFICES ASSUME IInv, [Next]_vars PROVE IInv'
  OBVIOUS
<1>1. ASSUME NEW m \in Messages, ClientSends(m) PROVE IInv'
  BY <1>1, ClientSendsI
<1>2. ASSUME NEW n \in 1..Len(net), OnPollIn(n) PROVE IInv'
  BY <1>2, OnPollInI
<1>3. CASE ReadBody
  BY <1>3, ReadBodyI
<1>4. CASE IncompleteLine
  BY <1>4, IncompleteLineI
<1>5. CASE FirstLine
  BY <1>5, FirstLineI
<1>6. CASE EndOfHeaders
  BY <1>6, EndOfHeadersI
<1>7. CASE HeaderLine
  BY <1>7, HeaderLineI
<1>8. CASE UNCHANGED vars
  BY <1>8, StutterI
<1> QED
  BY <1>1, <1>2, <1>3, <1>4, <1>5, <1>6, <1>7, <1>8 DEF Next, ProcessInput

\* The parser stands in the stream where the requests dispatched end or in the one behind
\* them, and all it has dispatched and sent agrees with that.
LEMMA Invariant == Spec => []IInv
BY InitI, NextI, PTL DEF Spec

\* The state of the transport has its types: input and answers stay what they are made of, and
\* the parser never goes on with an empty buffer (the loop of onInput).
THEOREM Http1Types == Spec => []TypeOK
<1>1. IInv => TypeOK
  BY DEF IInv
<1> QED
  BY <1>1, Invariant, PTL

\* Requests are dispatched in the order they were sent, none skipped and none twice, however
\* the input is cut and whatever is pipelined (processInput, handleMessage).
THEOREM DispatchOrder == Spec => []DispatchedInOrder
<1>1. IInv => DispatchedInOrder
  BY DEF IInv, Dispatched
<1> QED
  BY <1>1, Invariant, PTL

\* A request is dispatched with its own body, all of it and in order, and never with bytes of
\* the request behind it (readBody and isMessageComplete).
THEOREM BodiesOwn == Spec => []OwnBody
<1>1. IInv => OwnBody
  BY DEF IInv, Dispatched
<1> QED
  BY <1>1, Invariant, PTL

\* Every request dispatched that has a route is answered once, in the order of the requests and
\* after its interim replies, until a request closes the connection (handleMessage, sendResponse).
THEOREM FinalResponses == Spec => []OneFinalResponse
<1>1. IInv => OneFinalResponse
  BY DEF IInv, Replies
<1> QED
  BY <1>1, Invariant, PTL

LEMMA LeftAtRest ==
    ASSUME IInv
    PROVE  NoneForgotten
<1> SUFFICES ASSUME pc = "idle", net = <<>>, alive, transport = "http1", Len(handled) < Len(sent)
             PROVE  \E k \in DOMAIN sent[Len(handled) + 1] : sent[Len(handled) + 1][k] = "b"
  BY DEF NoneForgotten
<1> DEFINE f == Len(handled) + 1
           m == sent[f]
<1>1. TypeOK /\ Framed(Input, sent) /\ Place /\ AtRest /\ Live
  BY DEF IInv, Live
<1>2. /\ buf \in Seq(Lexeme) /\ sent \in Seq(Messages) /\ Len(buf) \in Nat /\ f \in 1..Len(sent)
      /\ Input \in Seq(Lexeme) /\ Len(Input) = Len(buf)
      /\ \A i \in 1..Len(buf) : Input[i] = buf[i]
  <2>1. Len(net) = 0
    OBVIOUS
  <2> QED
    BY <1>1, <2>1, Typed
<1>3. m \in Messages /\ m \in Seq(Content) /\ Len(m) \in Nat /\ End(m) \in 2..Len(m)
  <2>1. m \in Messages
    BY <1>2
  <2> HIDE DEF m
  <2> QED
    BY <2>1, Shape
<1> HIDE DEF f, m
<1>4. ASSUME Len(m) > End(m) PROVE \E k \in DOMAIN m : m[k] = "b"
  <2>1. End(m) + 1 \in 1..Len(m) /\ End(m) + 1 > End(m)
    BY <1>3, <1>4
  <2>2. m[End(m) + 1] = "b"
    BY <1>3, <2>1, BodyOf
  <2>3. DOMAIN m = 1..Len(m)
    BY <1>3
  <2> QED
    BY <2>1, <2>2, <2>3
<1>5. ASSUME NEW k \in 1..End(m), At(Input, sent, f, k), ~complete PROVE FALSE
  <2>1. k <= Len(m) /\ k \in Nat /\ End(m) \in Nat
    BY <1>3
  <2>2. Input # <<>> /\ Input[1] = Lex(sent, f, k)
    BY <1>5, <2>1 DEF At, m
  <2>3. 1 \in 1..Len(Input)
    BY <1>2, <2>2
  <2>4. Input[1].id = f /\ Input[1].at = k
    BY <2>2 DEF Lex
  <2>5. Whole(Input, sent, 1)
    BY <1>1, <2>3 DEF Framed
  <2>6. /\ 1 + (Len(m) - k) <= Len(Input)
        /\ \A j \in 0..(Len(m) - k) : Input[1 + j] = Lex(sent, f, k + j)
    BY <2>4, <2>5 DEF Whole, m
  <2> DEFINE e == End(m) - k
  <2>7. e \in 0..(Len(m) - k) /\ 1 + e \in 1..Len(buf) /\ k + e = End(m)
    BY <1>2, <1>3, <2>1, <2>6
  <2>8. Input[1 + e] = Lex(sent, f, k + e)
    BY <2>6, <2>7
  <2>9. buf[1 + e] = Lex(sent, f, End(m))
    BY <1>2, <2>7, <2>8
  <2>10. m[End(m)] = "nl"
    BY <1>3, Shape DEF HeadEnds
  <2>11. buf[1 + e].c = "nl"
    BY <2>9, <2>10 DEF Lex, m
  <2>12. NewLines(buf) # {}
    BY <2>7, <2>11 DEF NewLines
  <2> QED
    BY <1>1, <1>5, <2>12 DEF AtRest
<1>6. CASE complete
  <2>1. Len(m) > End(m)
    BY <1>1, <1>6 DEF Place, AwaitsAt, SwampedAt, f, m
  <2> QED
    BY <1>4, <2>1 DEF f, m
<1>7. CASE ~complete
  <2>1. CASE Behind(Input, sent, Len(handled))
    <3>1. At(Input, sent, f, 1)
      BY <1>2, <2>1, BehindAt DEF f
    <3>2. 1 \in 1..End(m)
      BY <1>3
    <3> QED
      BY <1>5, <1>7, <3>1, <3>2
  <2>2. ASSUME NEW j \in Nat, ReadsAt(Input, sent, f, msg, j) PROVE FALSE
    <3>1. At(Input, sent, f, j) /\ j \in 2..End(m)
      BY <2>2 DEF ReadsAt, m
    <3>2. j \in 1..End(m)
      BY <1>3, <3>1
    <3> QED
      BY <1>5, <1>7, <3>1, <3>2
  <2> QED
    BY <1>1, <1>7, <2>1, <2>2 DEF Place, f
<1> QED
  BY <1>6, <1>7

\* At rest with all input read, only a request with a body can be waiting to be dispatched: one
\* without is never left in the buffer (the return value of processInput).
THEOREM NothingForgotten == Spec => []NoneForgotten
<1>1. IInv => NoneForgotten
  BY LeftAtRest
<1> QED
  BY <1>1, Invariant, PTL

\* Whatever the requests and the cuts, the transport that an upgrade has destroyed is used again
\* only if the client sent something behind the upgrade request (tryUpgrade, onInput).
THEOREM ReuseNeedsPipelining == Spec => []ReusedOnlyIfPipelined
<1>1. IInv => ReusedOnlyIfPipelined
  BY DEF IInv, Reuse, ReusedOnlyIfPipelined
<1> QED
  BY <1>1, Invariant, PTL
=============================================================================
