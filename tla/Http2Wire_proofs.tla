------------------------- MODULE Http2Wire_proofs ---------------------------
(***************************************************************************)
(* What HTTP/2 puts on the wire is understood at the other end: numbers    *)
(* (module NumberWire), field blocks (module HpackDecoder: the decoder's   *)
(* table and the peer's stay together, and what is decoded is what was     *)
(* meant), frame headers and settings (module FrameWire), the bits of a    *)
(* Huffman code (module BitReader) and strings (module StringWire).        *)
(***************************************************************************)
EXTENDS HpackDecoder, NumberWire, FrameWire, BitReader, StringWire, SequenceTheorems,
        WellFoundedInduction, TLAPS

-----------------------------------------------------------------------------
\* Induction over the naturals (see module OutputPath_proofs).

LEMMA LeastNat ==
    ASSUME NEW T \in SUBSET Nat, T # {}
    PROVE  \E x \in T : \A y \in T : x <= y
<1>1. \E R : IsWellFoundedOn(R, Nat) /\ \A x, y \in Nat : <<y, x>> \in R <=> y < x
  <2>1. IsWellFoundedOn(OpToRel(<, Nat), Nat)
    BY NatLessThanWellFounded
  <2>2. \A x, y \in Nat : <<y, x>> \in OpToRel(<, Nat) <=> y < x
    BY DEF OpToRel
  <2> WITNESS OpToRel(<, Nat)
  <2> QED
    BY <2>1, <2>2
<1>2. PICK R : IsWellFoundedOn(R, Nat) /\ \A x, y \in Nat : <<y, x>> \in R <=> y < x
  BY <1>1
<1>3. PICK x \in T : \A y \in T : ~(<<y, x>> \in R)
  BY <1>2, WFMin
<1>4. ASSUME NEW y \in T PROVE x <= y
  <2>1. x \in Nat /\ y \in Nat /\ ~(y < x)
    BY <1>2, <1>3
  <2> QED
    BY <2>1
<1> QED
  BY <1>4

LEMMA Induction ==
    ASSUME NEW T, 0 \in T, \A n \in Nat : n \in T => n + 1 \in T
    PROVE  \A n \in Nat : n \in T
<1> SUFFICES ASSUME Nat \ T # {} PROVE FALSE
  OBVIOUS
<1>1. PICK x \in Nat \ T : \A y \in Nat \ T : x <= y
  BY LeastNat
<1>2. x - 1 \in Nat /\ x - 1 \notin Nat \ T
  BY <1>1
<1> QED
  BY <1>1, <1>2

\* A set of naturals with a bound has a largest element.
LEMMA Largest ==
    ASSUME NEW T \in SUBSET Nat, T # {}, NEW b \in Nat, \A x \in T : x <= b
    PROVE  Max(T) \in T /\ \A x \in T : x <= Max(T)
<1> DEFINE B == {u \in Nat : \A x \in T : x <= u}
<1>1. b \in B /\ B \in SUBSET Nat /\ B # {}
  OBVIOUS
<1>2. PICK u \in B : \A v \in B : u <= v
  <2> HIDE DEF B
  <2> QED
    BY <1>1, LeastNat
<1>3. u \in T
  <2> SUFFICES ASSUME u \notin T PROVE FALSE
    OBVIOUS
  <2>1. u \in Nat /\ \A x \in T : x \in Nat /\ x <= u /\ x # u
    BY <1>2
  <2>2. u # 0
    <3>1. PICK x \in T : TRUE
      OBVIOUS
    <3>2. x \in Nat /\ x <= u /\ x # u /\ u \in Nat
      BY <2>1
    <3> QED
      BY <3>2
  <2>3. u - 1 \in Nat /\ \A x \in T : x <= u - 1
    BY <2>1, <2>2
  <2>4. u - 1 \in B
    BY <2>3
  <2>5. u <= u - 1
    BY <1>2, <2>4
  <2> QED
    BY <2>1, <2>5
<1>4. \A x \in T : u >= x
  BY <1>2
<1>5. Max(T) \in T /\ \A x \in T : Max(T) >= x
  BY <1>3, <1>4 DEF Max
<1> QED
  BY <1>5

-----------------------------------------------------------------------------
\* Division.

LEMMA Product ==
    ASSUME NEW a \in Nat, NEW b \in Nat
    PROVE  a * b \in Nat
OBVIOUS

\* A quotient and a remainder are unique.
LEMMA DivUnique ==
    ASSUME NEW m \in Nat \ {0}, NEW q \in Nat, NEW r \in 0..(m - 1), NEW n \in Nat,
           n = m * q + r
    PROVE  n \div m = q /\ n % m = r
OBVIOUS

LEMMA DivMod ==
    ASSUME NEW m \in Nat \ {0}, NEW n \in Nat
    PROVE  /\ n \div m \in Nat /\ n % m \in 0..(m - 1)
           /\ n = m * (n \div m) + (n % m)
OBVIOUS

LEMMA ModSmall ==
    ASSUME NEW m \in Nat \ {0}, NEW n \in 0..(m - 1)
    PROVE  n % m = n
OBVIOUS

LEMMA DivTwice ==
    ASSUME NEW a \in Nat \ {0}, NEW b \in Nat \ {0}, NEW n \in Nat
    PROVE  n % (a * b) = (n % a) + ((n \div a) % b) * a
<1> DEFINE x == n \div a
           r == n % a
           y == x \div b
           s == x % b
<1>1. x \in Nat /\ r \in 0..(a - 1) /\ n = a * x + r
  BY DivMod
<1>2. y \in Nat /\ s \in 0..(b - 1) /\ x = b * y + s
  <2> HIDE DEF x
  <2> QED
    BY <1>1, DivMod
<1> HIDE DEF x, r, y, s
<1>3. n = (a * b) * y + (r + s * a)
  BY <1>1, <1>2
<1>4. a * b \in Nat \ {0} /\ s * a \in Nat /\ s * a <= a * b - a
  BY <1>1, <1>2
<1>5. r + s * a \in 0..(a * b - 1)
  BY <1>1, <1>4
<1>6. n % (a * b) = r + s * a
  <2> DEFINE m == a * b
             t == r + s * a
  <2>1. m \in Nat \ {0} /\ y \in Nat /\ t \in 0..(m - 1) /\ n = m * y + t
    BY <1>2, <1>3, <1>4, <1>5
  <2> HIDE DEF m, t
  <2>2. n % m = t
    BY <2>1, DivUnique
  <2> QED
    BY <2>2 DEF m, t
<1> QED
  BY <1>6 DEF r, s, x

\* Dividing by a and then by b is dividing by their product.
LEMMA DivDiv ==
    ASSUME NEW a \in Nat \ {0}, NEW b \in Nat \ {0}, NEW n \in Nat
    PROVE  n \div (a * b) = (n \div a) \div b
<1> DEFINE x == n \div a
           r == n % a
           y == x \div b
           s == x % b
<1>1. x \in Nat /\ r \in 0..(a - 1) /\ n = a * x + r
  BY DivMod
<1>2. y \in Nat /\ s \in 0..(b - 1) /\ x = b * y + s
  <2> HIDE DEF x
  <2> QED
    BY <1>1, DivMod
<1> HIDE DEF x, r, y, s
<1>3. n = (a * b) * y + (r + s * a)
  BY <1>1, <1>2
<1>4. a * b \in Nat \ {0} /\ s * a \in Nat /\ s * a <= a * b - a
  BY <1>1, <1>2
<1>5. r + s * a \in 0..(a * b - 1)
  BY <1>1, <1>4
<1> DEFINE m == a * b
           t == r + s * a
<1>6. m \in Nat \ {0} /\ y \in Nat /\ t \in 0..(m - 1) /\ n = m * y + t
  BY <1>2, <1>3, <1>4, <1>5
<1> HIDE DEF m, t
<1>7. n \div m = y
  BY <1>6, DivUnique
<1> QED
  BY <1>7 DEF m, x, y

-----------------------------------------------------------------------------
\* Powers of two.

\* g follows the definition of Pow2 up to n.
PowersTo(n, g) == g = [k \in 0..n |-> IF k = 0 THEN 1 ELSE 2 * g[k - 1]]

LEMMA PowersExist == \A n \in Nat : \E g : PowersTo(n, g)
<1> DEFINE T == {n \in Nat : \E g : PowersTo(n, g)}
<1>1. 0 \in T
  <2>1. PowersTo(0, [k \in 0..0 |-> 1])
    BY DEF PowersTo
  <2> QED
    BY <2>1
<1>2. ASSUME NEW n \in Nat, n \in T PROVE n + 1 \in T
  <2>1. PICK g : PowersTo(n, g)
    BY <1>2
  <2> DEFINE h == [k \in 0..(n + 1) |-> IF k = n + 1 THEN 2 * g[n] ELSE g[k]]
  <2>2. \A k \in 0..n : g[k] = IF k = 0 THEN 1 ELSE 2 * g[k - 1]
    BY <2>1, Zenon DEF PowersTo
  <2>3. \A k \in 0..n : h[k] = g[k]
    OBVIOUS
  <2>4. h[n + 1] = 2 * h[n]
    BY <2>3
  <2>5. \A k \in 0..(n + 1) : h[k] = IF k = 0 THEN 1 ELSE 2 * h[k - 1]
    <3> TAKE k \in 0..(n + 1)
    <3>1. CASE k = n + 1
      BY <3>1, <2>4
    <3>2. CASE k \in 0..n
      <4>1. k = 0 \/ k - 1 \in 0..n
        BY <3>2
      <4> HIDE DEF h
      <4> QED
        BY <3>2, <4>1, <2>2, <2>3
    <3> QED
      BY <3>1, <3>2
  <2>6. PowersTo(n + 1, h)
    <3>1. h = [k \in 0..(n + 1) |-> h[k]]
      OBVIOUS
    <3> HIDE DEF h
    <3> QED
      BY <3>1, <2>5 DEF PowersTo
  <2> QED
    BY <2>6
<1> HIDE DEF T
<1>3. \A n \in Nat : n \in T
  BY <1>1, <1>2, Induction
<1> QED
  BY <1>3 DEF T

LEMMA PowersSame ==
    ASSUME NEW m \in Nat, NEW n \in Nat, NEW g, NEW h, PowersTo(m, g), PowersTo(n, h)
    PROVE  \A k \in Nat : k <= m /\ k <= n => g[k] = h[k]
<1> DEFINE T == {k \in Nat : k <= m /\ k <= n => g[k] = h[k]}
<1>1. /\ \A k \in 0..m : g[k] = IF k = 0 THEN 1 ELSE 2 * g[k - 1]
      /\ \A k \in 0..n : h[k] = IF k = 0 THEN 1 ELSE 2 * h[k - 1]
  BY Zenon DEF PowersTo
<1>2. 0 \in T
  BY <1>1
<1>3. ASSUME NEW k \in Nat, k \in T PROVE k + 1 \in T
  <2> SUFFICES ASSUME k + 1 <= m, k + 1 <= n PROVE g[k + 1] = h[k + 1]
    OBVIOUS
  <2>1. g[k] = h[k]
    BY <1>3
  <2>2. k + 1 \in 0..m /\ k + 1 \in 0..n /\ k + 1 # 0 /\ k + 1 - 1 = k
    OBVIOUS
  <2> QED
    BY <1>1, <2>1, <2>2
<1> HIDE DEF T
<1>4. \A k \in Nat : k \in T
  BY <1>2, <1>3, Induction
<1> QED
  BY <1>4 DEF T

LEMMA Pow2Def ==
    /\ Pow2[0] = 1
    /\ \A k \in Nat : Pow2[k + 1] = 2 * Pow2[k]
<1> DEFINE G(n) == CHOOSE g : PowersTo(n, g)
           f == [n \in Nat |-> G(n)[n]]
<1>1. \A n \in Nat : PowersTo(n, G(n))
  BY PowersExist
<1>2. \A n \in Nat : \A k \in 0..n : G(n)[k] = IF k = 0 THEN 1 ELSE 2 * G(n)[k - 1]
  <2> HIDE DEF G
  <2> QED
    BY <1>1, Zenon DEF PowersTo
<1> HIDE DEF G
<1>3. \A n \in Nat : f[n] = IF n = 0 THEN 1 ELSE 2 * f[n - 1]
  <2> TAKE n \in Nat
  <2>1. CASE n = 0
    <3>1. 0 \in Nat /\ 0 \in 0..0
      OBVIOUS
    <3> QED
      BY <2>1, <3>1, <1>2
  <2>2. CASE n # 0
    <3>1. n - 1 \in Nat /\ n \in 0..n /\ n - 1 <= n - 1 /\ n - 1 <= n
      BY <2>2
    <3>2. G(n)[n - 1] = G(n - 1)[n - 1]
      BY <3>1, <1>1, PowersSame
    <3>3. G(n)[n] = 2 * G(n)[n - 1]
      BY <3>1, <1>2, <2>2
    <3>4. f[n] = G(n)[n] /\ f[n - 1] = G(n - 1)[n - 1]
      BY <3>1
    <3> QED
      BY <2>2, <3>2, <3>3, <3>4
  <2> QED
    BY <2>1, <2>2
<1>4. f = [n \in Nat |-> IF n = 0 THEN 1 ELSE 2 * f[n - 1]]
  <2>1. f = [n \in Nat |-> f[n]]
    OBVIOUS
  <2> HIDE DEF f
  <2> QED
    BY <2>1, <1>3, Zenon
<1> HIDE DEF f
<1>5. Pow2 = [n \in Nat |-> IF n = 0 THEN 1 ELSE 2 * Pow2[n - 1]]
  BY <1>4, Zenon DEF Pow2
<1>6. \A n \in Nat : Pow2[n] = IF n = 0 THEN 1 ELSE 2 * Pow2[n - 1]
  BY <1>5, Zenon
<1>7. \A k \in Nat : k + 1 \in Nat /\ k + 1 # 0 /\ k + 1 - 1 = k
  OBVIOUS
<1> QED
  BY <1>6, <1>7

LEMMA Pow2Nat ==
    \A k \in Nat : Pow2[k] \in Nat \ {0}
<1> DEFINE T == {k \in Nat : Pow2[k] \in Nat \ {0}}
<1>1. 0 \in T
  BY Pow2Def
<1>2. ASSUME NEW k \in Nat, k \in T PROVE k + 1 \in T
  <2>1. Pow2[k] \in Nat \ {0} /\ Pow2[k + 1] = 2 * Pow2[k]
    BY <1>2, Pow2Def
  <2> QED
    BY <2>1
<1> HIDE DEF T
<1>3. \A k \in Nat : k \in T
  BY <1>1, <1>2, Induction
<1> QED
  BY <1>3 DEF T

LEMMA Pow2Sum ==
    ASSUME NEW a \in Nat
    PROVE  \A b \in Nat : Pow2[a + b] = Pow2[a] * Pow2[b]
<1> DEFINE T == {b \in Nat : Pow2[a + b] = Pow2[a] * Pow2[b]}
<1>1. 0 \in T
  <2>1. Pow2[0] = 1 /\ a + 0 = a /\ Pow2[a] \in Nat
    BY Pow2Def, Pow2Nat
  <2> QED
    BY <2>1
<1>2. ASSUME NEW b \in Nat, b \in T PROVE b + 1 \in T
  <2>1. Pow2[a] \in Nat /\ Pow2[b] \in Nat
    BY Pow2Nat
  <2>2. Pow2[a + b] = Pow2[a] * Pow2[b] /\ Pow2[b + 1] = 2 * Pow2[b]
    BY <1>2, Pow2Def
  <2>3. a + (b + 1) = (a + b) + 1 /\ a + b \in Nat
    OBVIOUS
  <2>4. Pow2[a + (b + 1)] = 2 * Pow2[a + b]
    BY <2>3, Pow2Def
  <2> QED
    BY <2>1, <2>2, <2>4
<1> HIDE DEF T
<1>3. \A b \in Nat : b \in T
  BY <1>1, <1>2, Induction
<1> QED
  BY <1>3 DEF T

LEMMA Pow2Grows ==
    ASSUME NEW a \in Nat, NEW b \in Nat, a <= b
    PROVE  Pow2[a] <= Pow2[b]
<1>1. b - a \in Nat /\ a + (b - a) = b
  OBVIOUS
<1>2. Pow2[b] = Pow2[a] * Pow2[b - a]
  BY <1>1, Pow2Sum
<1>3. Pow2[a] \in Nat \ {0} /\ Pow2[b - a] \in Nat \ {0}
  BY <1>1, Pow2Nat
<1> QED
  BY <1>2, <1>3

LEMMA UnitsFacts ==
    /\ Cont \in Nat \ {0} /\ Units(0) = 1
    /\ \A k \in Nat : /\ Units(k) \in Nat \ {0}
                      /\ Units(k + 1) = Units(k) * Cont
<1>1. ContBits \in Nat /\ ContBits * 0 = 0
  BY NumberAssumption
<1>2. Cont \in Nat \ {0} /\ Units(0) = 1
  BY <1>1, Pow2Nat, Pow2Def DEF Cont, Units
<1>3. ASSUME NEW k \in Nat
      PROVE  Units(k) \in Nat \ {0} /\ Units(k + 1) = Units(k) * Cont
  <2>1. ContBits * k \in Nat /\ ContBits * (k + 1) = ContBits * k + ContBits
    BY <1>1
  <2> QED
    BY <1>1, <2>1, Pow2Nat, Pow2Sum DEF Cont, Units
<1> QED
  BY <1>2, <1>3

LEMMA UnitsGrow ==
    ASSUME NEW a \in Nat, NEW b \in Nat, a <= b
    PROVE  Units(a) <= Units(b)
<1>1. ContBits * a \in Nat /\ ContBits * b \in Nat /\ ContBits * a <= ContBits * b
  BY NumberAssumption
<1> QED
  BY <1>1, Pow2Grows DEF Units

-----------------------------------------------------------------------------
\* The octets of a number.

LEMMA Smallest ==
    ASSUME NEW T \in SUBSET Nat, T # {}
    PROVE  Min(T) \in T /\ \A x \in T : Min(T) <= x
<1>1. \E x \in T : \A y \in T : x <= y
  BY LeastNat
<1>2. Min(T) = CHOOSE x \in T : \A y \in T : x <= y
  BY DEF Min
<1> QED
  BY <1>1, <1>2

LEMMA MostUnits ==
    /\ MostDigits \in Nat \ {0} /\ MostDigits <= MaxOctets /\ MaxOctets \in Nat
    /\ NumberMax \in Nat /\ NumberMax < Units(MostDigits)
<1> DEFINE q == (NumberBits - 1) \div ContBits
           r == (NumberBits - 1) % ContBits
<1>1. ContBits \in Nat \ {0} /\ NumberBits - 1 \in Nat /\ NumberBits \in Nat
  BY NumberAssumption
<1>2. q \in Nat /\ r \in 0..(ContBits - 1) /\ NumberBits - 1 = ContBits * q + r
  BY <1>1, DivMod
<1>3. MostDigits = q + 1
  BY DEF MostDigits
<1> HIDE DEF q, r
<1>4. ContBits * MostDigits \in Nat /\ NumberBits <= ContBits * MostDigits
  BY <1>1, <1>2, <1>3
<1>5. Pow2[NumberBits] <= Units(MostDigits) /\ Pow2[NumberBits] \in Nat \ {0}
  BY <1>1, <1>4, Pow2Grows, Pow2Nat DEF Units
<1>6. Units(MostDigits) \in Nat
  BY <1>2, <1>3, UnitsFacts
<1> QED
  BY <1>2, <1>3, <1>5, <1>6, NumberAssumption DEF NumberMax

LEMMA DigitsFacts ==
    ASSUME NEW n \in 0..NumberMax
    PROVE  /\ Digits(n) \in 1..MostDigits /\ n < Units(Digits(n))
           /\ Digits(n) > 1 => Units(Digits(n) - 1) <= n
<1> DEFINE T == {k \in 1..MostDigits : n < Units(k)}
<1>1. n \in Nat /\ MostDigits \in 1..MostDigits /\ Units(MostDigits) \in Nat
  BY MostUnits, UnitsFacts
<1>2. n < Units(MostDigits)
  BY <1>1, MostUnits
<1>3. T \in SUBSET Nat /\ MostDigits \in T
  BY <1>1, <1>2, MostUnits
<1>4. Digits(n) = Min(T)
  BY DEF Digits
<1> HIDE DEF T
<1>5. Digits(n) \in T /\ \A k \in T : Digits(n) <= k
  BY <1>3, <1>4, Smallest
<1>6. Digits(n) \in 1..MostDigits /\ n < Units(Digits(n))
  BY <1>5 DEF T
<1>7. ASSUME Digits(n) > 1 PROVE Units(Digits(n) - 1) <= n
  <2>1. Digits(n) - 1 \in 1..MostDigits /\ ~(Digits(n) <= Digits(n) - 1)
    BY <1>6, <1>7, MostUnits
  <2>2. Digits(n) - 1 \notin T
    BY <1>5, <2>1
  <2>3. Units(Digits(n) - 1) \in Nat
    BY <2>1, UnitsFacts
  <2> QED
    BY <1>1, <2>1, <2>2, <2>3 DEF T
<1> QED
  BY <1>6, <1>7

\* Continuation octet i of n, of k.
Digit(n, k, i) == ((n \div Units(i - 1)) % Cont) + (IF i < k THEN Cont ELSE 0)

LEMMA DigitFacts ==
    ASSUME NEW n \in Nat, NEW k \in Nat, NEW i \in 1..k
    PROVE  /\ Digit(n, k, i) \in Nat
           /\ i < k => Digit(n, k, i) >= Cont
           /\ i = k => Digit(n, k, i) < Cont
           /\ Digit(n, k, i) % Cont = (n \div Units(i - 1)) % Cont
<1> DEFINE d == (n \div Units(i - 1)) % Cont
<1>1. i - 1 \in Nat /\ Cont \in Nat \ {0}
  BY UnitsFacts
<1>2. Units(i - 1) \in Nat \ {0}
  BY <1>1, UnitsFacts
<1>3. n \div Units(i - 1) \in Nat
  BY <1>2, DivMod
<1>4. d \in 0..(Cont - 1)
  BY <1>1, <1>3, DivMod
<1>5. Digit(n, k, i) = d + (IF i < k THEN Cont ELSE 0)
  BY DEF Digit
<1> HIDE DEF d
<1>6. CASE i < k
  <2>1. Digit(n, k, i) = d + Cont /\ i # k
    BY <1>5, <1>6
  <2>2. d + Cont = Cont * 1 + d /\ d + Cont \in Nat /\ 1 \in Nat /\ d + Cont >= Cont
    BY <1>1, <1>4
  <2>3. (d + Cont) % Cont = d
    BY <1>1, <1>4, <2>2, DivUnique
  <2> QED
    BY <2>1, <2>2, <2>3, <1>6 DEF d
<1>7. CASE i = k
  <2>1. Digit(n, k, i) = d
    BY <1>4, <1>5, <1>7
  <2>2. d \in Nat /\ d < Cont /\ d = Cont * 0 + d /\ 0 \in Nat
    BY <1>1, <1>4
  <2>3. d % Cont = d
    BY <1>1, <1>4, <2>2, DivUnique
  <2> QED
    BY <2>1, <2>2, <2>3, <1>7 DEF d
<1> QED
  BY <1>6, <1>7

\* The octets encode_number fills, and when they fit.
LEMMA Encoded ==
    ASSUME NEW number \in 0..NumberMax, NEW bits \in Nat \ {0}, NEW buflen \in Nat \ {0}
    PROVE  LET e == EncodeNumber(number, bits, buflen)
               mask == MaskFromBits(bits)
               n == number - mask
               k == Digits(n)
           IN  /\ e \in Seq(Nat)
               /\ number < mask => e = <<number>>
               /\ number >= mask /\ buflen > MaxOctets => e # <<>>
               /\ number >= mask /\ e # <<>> =>
                    /\ Len(e) = k + 1 /\ e[1] = mask
                    /\ \A i \in 1..k : e[i + 1] = Digit(n, k, i)
<1> DEFINE e == EncodeNumber(number, bits, buflen)
           mask == MaskFromBits(bits)
           n == number - mask
           k == Digits(n)
           f == [i \in 1..k |-> Digit(n, k, i)]
<1>1. mask \in Nat /\ number \in Nat
  BY Pow2Nat, MostUnits DEF MaskFromBits
<1>2. e = IF number < mask THEN (IF Len(<<number>>) <= buflen THEN <<number>> ELSE <<>>)
          ELSE (IF Len(<<mask>> \o f) <= buflen THEN <<mask>> \o f ELSE <<>>)
  BY DEF EncodeNumber, Digit
<1> HIDE DEF e, mask
<1>3. CASE number < mask
  <2>1. Len(<<number>>) <= buflen /\ <<number>> \in Seq(Nat)
    BY <1>1
  <2>2. ~(number >= mask)
    BY <1>1, <1>3
  <2> QED
    BY <1>2, <1>3, <2>1, <2>2 DEF e, mask
<1>4. CASE number >= mask
  <2>1. n \in 0..NumberMax /\ n \in Nat /\ ~(number < mask)
    BY <1>1, <1>4, MostUnits
  <2> HIDE DEF n
  <2>2. k \in 1..MostDigits
    BY <2>1, DigitsFacts
  <2>3. k \in Nat /\ k >= 1 /\ k + 1 <= MaxOctets + 1
    BY <2>2, MostUnits
  <2> HIDE DEF k
  <2>4. f \in Seq(Nat) /\ Len(f) = k /\ \A i \in 1..k : f[i] = Digit(n, k, i)
    <3>1. \A i \in 1..k : Digit(n, k, i) \in Nat
      BY <2>1, <2>3, DigitFacts
    <3>2. f \in [1..k -> Nat]
      BY <3>1
    <3>3. f \in Seq(Nat) /\ Len(f) = k
      <4> HIDE DEF f
      <4> QED
        BY <2>3, <3>2
    <3> QED
      BY <3>3
  <2> HIDE DEF f
  <2>5. /\ <<mask>> \o f \in Seq(Nat) /\ Len(<<mask>> \o f) = k + 1
        /\ (<<mask>> \o f)[1] = mask /\ \A i \in 1..k : (<<mask>> \o f)[i + 1] = f[i]
    BY <2>3, <2>4, <1>1
  <2>6. e = <<mask>> \o f \/ (e = <<>> /\ ~(k + 1 <= buflen))
    BY <1>2, <2>1, <2>5
  <2>7. <<>> \in Seq(Nat) /\ Len(<<>>) = 0
    OBVIOUS
  <2>8. buflen > MaxOctets => k + 1 <= buflen
    BY <2>3, MostUnits
  <2>9. e \in Seq(Nat)
    BY <2>5, <2>6, <2>7
  <2>10. buflen > MaxOctets => e # <<>>
    BY <2>5, <2>6, <2>7, <2>8, <2>3
  <2>11. e # <<>> => /\ Len(e) = k + 1 /\ e[1] = mask
                     /\ \A i \in 1..k : e[i + 1] = Digit(n, k, i)
    BY <2>4, <2>5, <2>6
  <2> QED
    BY <2>1, <2>9, <2>10, <2>11 DEF e, mask, n, k
<1> QED
  BY <1>1, <1>3, <1>4

-----------------------------------------------------------------------------
\* Decoding.

\* g follows the definition of Accumulated up to octet n.
AddsUpTo(buf, bits, n, g) ==
    g = [i \in 1..n |-> IF i = 1 THEN buf[1] % Pow2[bits]
                        ELSE g[i - 1] + (buf[i] % Cont) * Units(i - 2)]

LEMMA AddsUpExist ==
    ASSUME NEW buf, NEW bits
    PROVE  \A n \in Nat : \E g : AddsUpTo(buf, bits, n + 1, g)
<1> DEFINE T == {n \in Nat : \E g : AddsUpTo(buf, bits, n + 1, g)}
           Add(i) == (buf[i] % Cont) * Units(i - 2)
           first == buf[1] % Pow2[bits]
<1>1. 0 \in T
  <2>1. AddsUpTo(buf, bits, 0 + 1, [i \in 1..1 |-> first])
    BY DEF AddsUpTo
  <2> QED
    BY <2>1
<1>2. ASSUME NEW n \in Nat, n \in T PROVE n + 1 \in T
  <2>1. PICK g : AddsUpTo(buf, bits, n + 1, g)
    BY <1>2
  <2>2. \A i \in 1..(n + 1) : g[i] = IF i = 1 THEN first ELSE g[i - 1] + Add(i)
    BY <2>1, Zenon DEF AddsUpTo
  <2> HIDE DEF Add, first
  <2> DEFINE h == [i \in 1..(n + 2) |-> IF i = n + 2 THEN g[n + 1] + Add(n + 2) ELSE g[i]]
  <2>3. \A i \in 1..(n + 1) : h[i] = g[i]
    OBVIOUS
  <2>4. h[n + 2] = h[n + 1] + Add(n + 2)
    BY <2>3
  <2>5. h = [i \in 1..(n + 2) |-> h[i]]
    OBVIOUS
  <2> HIDE DEF h
  <2>6. \A i \in 1..(n + 2) : h[i] = IF i = 1 THEN first ELSE h[i - 1] + Add(i)
    <3> TAKE i \in 1..(n + 2)
    <3>1. CASE i = n + 2
      <4>1. i # 1 /\ i - 1 = n + 1
        BY <3>1
      <4> QED
        BY <3>1, <4>1, <2>4
    <3>2. CASE i \in 1..(n + 1)
      <4>1. i = 1 \/ i - 1 \in 1..(n + 1)
        BY <3>2
      <4> QED
        BY <3>2, <4>1, <2>2, <2>3
    <3> QED
      BY <3>1, <3>2
  <2>7. n + 1 + 1 = n + 2
    OBVIOUS
  <2>8. h = [i \in 1..(n + 2) |-> IF i = 1 THEN first ELSE h[i - 1] + Add(i)]
    BY <2>5, <2>6, Zenon
  <2>9. AddsUpTo(buf, bits, n + 2, h)
    BY <2>8, Zenon DEF AddsUpTo, Add, first
  <2> QED
    BY <2>7, <2>9
<1> HIDE DEF T
<1>3. \A n \in Nat : n \in T
  BY <1>1, <1>2, Induction
<1> QED
  BY <1>3 DEF T

\* The octets behind the first are the k digits of n, and the prefix is field.
HasDigits(buf, n, k) == \A i \in 1..k : buf[i + 1] % Cont = (n \div Units(i - 1)) % Cont
HasPrefix(buf, bits, field) == buf[1] % Pow2[bits] = field

\* What the loop has added up behind each octet of a number.
LEMMA AddsUpDigits ==
    ASSUME NEW buf, NEW bits, NEW n \in Nat, NEW k \in Nat \ {0}, NEW field \in Nat,
           HasPrefix(buf, bits, field), HasDigits(buf, n, k), n < Units(k)
    PROVE  Accumulated(buf, bits, k + 1) = field + n
<1>1. PICK g : AddsUpTo(buf, bits, k + 1, g)
  BY AddsUpExist
<1>2. \E h : AddsUpTo(buf, bits, k + 1, h) /\ Accumulated(buf, bits, k + 1) = h[k + 1]
  <2>1. Accumulated(buf, bits, k + 1) = (CHOOSE h : AddsUpTo(buf, bits, k + 1, h))[k + 1]
    BY Zenon DEF Accumulated, AddsUpTo
  <2> QED
    BY <1>1, <2>1
<1>3. PICK h : AddsUpTo(buf, bits, k + 1, h) /\ Accumulated(buf, bits, k + 1) = h[k + 1]
  BY <1>2
<1>4. \A i \in 1..(k + 1) : h[i] = IF i = 1 THEN buf[1] % Pow2[bits]
                                  ELSE h[i - 1] + (buf[i] % Cont) * Units(i - 2)
  BY <1>3, Zenon DEF AddsUpTo
<1> DEFINE T == {j \in Nat : j <= k => h[j + 1] = field + (n % Units(j))}
<1>5. 0 \in T
  <2>1. n % Units(0) = 0
    <3>1. Units(0) = 1 /\ n = 1 * n + 0 /\ 1 \in Nat \ {0} /\ 0 \in 0..(1 - 1)
      BY UnitsFacts
    <3> QED
      BY <3>1, DivUnique
  <2>2. h[0 + 1] = field
    <3>1. 1 \in 1..(k + 1) /\ 0 + 1 = 1
      OBVIOUS
    <3> QED
      BY <3>1, <1>4 DEF HasPrefix
  <2> QED
    BY <2>1, <2>2
<1>6. ASSUME NEW j \in Nat, j \in T PROVE j + 1 \in T
  <2> SUFFICES ASSUME j + 1 <= k PROVE h[j + 1 + 1] = field + (n % Units(j + 1))
    OBVIOUS
  <2>1. h[j + 1] = field + (n % Units(j))
    BY <1>6
  <2>2. /\ j + 2 \in 1..(k + 1) /\ j + 2 # 1 /\ j + 2 - 1 = j + 1 /\ j + 2 - 2 = j
        /\ j + 1 \in 1..k /\ j + 1 + 1 = j + 2 /\ j + 1 - 1 = j
    OBVIOUS
  <2>3. h[j + 2] = h[j + 1] + (buf[j + 2] % Cont) * Units(j)
    BY <1>4, <2>2
  <2>4. buf[j + 2] % Cont = (n \div Units(j)) % Cont
    <3>1. buf[(j + 1) + 1] % Cont = (n \div Units((j + 1) - 1)) % Cont
      BY <2>2 DEF HasDigits
    <3> QED
      BY <2>2, <3>1
  <2>5. Units(j) \in Nat \ {0} /\ Cont \in Nat \ {0} /\ Units(j + 1) = Units(j) * Cont
    BY UnitsFacts
  <2>6. n % (Units(j) * Cont) = (n % Units(j)) + ((n \div Units(j)) % Cont) * Units(j)
    BY <2>5, DivTwice
  <2>7. n % Units(j) \in Nat /\ n \div Units(j) \in Nat
    <3>1. n \div Units(j) \in Nat /\ n % Units(j) \in 0..(Units(j) - 1)
      BY <2>5, DivMod
    <3> QED
      BY <2>5, <3>1
  <2>8. (n \div Units(j)) % Cont \in Nat
    <3>1. (n \div Units(j)) % Cont \in 0..(Cont - 1)
      BY <2>5, <2>7, DivMod
    <3> QED
      BY <2>5, <3>1
  <2> DEFINE x == n % Units(j)
             y == (n \div Units(j)) % Cont
             u == Units(j)
  <2>9. h[j + 2] = (field + x) + y * u /\ n % Units(j + 1) = x + y * u
    BY <2>1, <2>3, <2>4, <2>5, <2>6
  <2>10. x \in Nat /\ y \in Nat /\ u \in Nat
    BY <2>5, <2>7, <2>8
  <2> HIDE DEF x, y, u
  <2>11. (field + x) + y * u = field + (x + y * u)
    BY <2>10
  <2> QED
    BY <2>2, <2>9, <2>11
<1> HIDE DEF T
<1>7. k \in T
  BY <1>5, <1>6, Induction
<1>8. n % Units(k) = n
  <2>1. Units(k) \in Nat \ {0} /\ n \in 0..(Units(k) - 1)
    BY UnitsFacts
  <2> QED
    BY <2>1, ModSmall
<1> QED
  BY <1>3, <1>7, <1>8 DEF T

\* The multiplier does not overflow before the last digit.
LEMMA NoOverflow ==
    ASSUME NEW k \in Nat, NEW n \in 0..NumberMax, Units(k - 1) <= n,
           NEW i \in 2..k
    PROVE  ~MultOverflows(i)
<1>1. i - 2 \in Nat /\ i - 1 \in Nat /\ k - 1 \in Nat /\ i - 1 <= k - 1 /\ (i - 2) + 1 = i - 1
  OBVIOUS
<1>2. /\ Units(i - 2) \in Nat \ {0} /\ Units(i - 1) \in Nat \ {0} /\ Units(k - 1) \in Nat
      /\ Units(i - 1) = Units(i - 2) * Cont /\ Cont \in Nat \ {0}
  BY <1>1, UnitsFacts
<1>3. Units(i - 1) <= Units(k - 1) /\ Units(i - 2) <= Units(i - 1)
  BY <1>1, UnitsGrow
<1>4. NumberMax \in Nat /\ Units(i - 1) \in 0..NumberMax
  BY <1>2, <1>3, MostUnits
<1>5. Units(i - 1) % (NumberMax + 1) = Units(i - 1)
  <2> DEFINE m == NumberMax + 1
             u == Units(i - 1)
  <2>1. m \in Nat \ {0} /\ u \in 0..(m - 1)
    BY <1>4
  <2> HIDE DEF m, u
  <2>2. u % m = u
    BY <2>1, ModSmall
  <2> QED
    BY <2>2 DEF m, u
<1> QED
  BY <1>2, <1>3, <1>5 DEF MultOverflows

\* A buffer that holds the octets of a number, with anything above the prefix in
\* the first of them and anything behind the last.
Holds(buf, number, bits, e, above) ==
    /\ buf \in Seq(Nat) /\ e # <<>> /\ Len(e) <= Len(buf)
    /\ buf[1] = above * Pow2[bits] + e[1]
    /\ \A i \in 2..Len(e) : buf[i] = e[i]

LEMMA Decoded ==
    ASSUME NEW number \in 0..NumberMax, NEW bits \in Nat \ {0}, NEW buflen \in Nat \ {0},
           NEW above \in Nat, NEW buf,
           Holds(buf, number, bits, EncodeNumber(number, bits, buflen), above)
    PROVE  DecodeNumber(buf, bits)
             = [len |-> Len(EncodeNumber(number, bits, buflen)), number |-> number]
<1> DEFINE e == EncodeNumber(number, bits, buflen)
           mask == MaskFromBits(bits)
           n == number - mask
           k == Digits(n)
           field == buf[1] % Pow2[bits]
           last == Min(LastOctets(buf))
<1>1. /\ mask \in Nat /\ number \in Nat /\ mask = Pow2[bits] - 1 /\ Pow2[bits] \in Nat \ {0}
      /\ NumberMax \in Nat /\ MaxOctets \in Nat
  BY Pow2Nat, MostUnits DEF MaskFromBits
<1>2. /\ e \in Seq(Nat)
      /\ number < mask => e = <<number>>
      /\ number >= mask /\ e # <<>> =>
           /\ Len(e) = k + 1 /\ e[1] = mask
           /\ \A i \in 1..k : e[i + 1] = Digit(n, k, i)
  BY Encoded
<1>3. /\ buf \in Seq(Nat) /\ e # <<>> /\ Len(e) <= Len(buf)
      /\ buf[1] = above * Pow2[bits] + e[1]
      /\ \A i \in 2..Len(e) : buf[i] = e[i]
  BY DEF Holds
<1>4. DecodeNumber(buf, bits) =
        IF buf = <<>> THEN Failed
        ELSE IF field # mask THEN [len |-> 1, number |-> field]
        ELSE IF LastOctets(buf) = {} THEN Failed
        ELSE IF \E i \in 2..(last - 1) : MultOverflows(i) THEN Failed
        ELSE [len |-> last, number |-> Accumulated(buf, bits, last) % (NumberMax + 1)]
  BY DEF DecodeNumber
<1> HIDE DEF e, mask
<1>5. Len(e) \in Nat \ {0} /\ buf # <<>>
  BY <1>2, <1>3
\* The prefix is e[1], whatever is above it.
<1>6. ASSUME e[1] \in 0..mask PROVE field = e[1]
  <2> DEFINE p == Pow2[bits]
  <2>1. p \in Nat \ {0} /\ e[1] \in 0..(p - 1) /\ buf[1] = p * above + e[1] /\ buf[1] \in Nat
    <3>1. p \in Nat \ {0} /\ e[1] \in 0..(p - 1)
      BY <1>1, <1>6
    <3>2. above * p = p * above /\ above * p \in Nat /\ e[1] \in Nat
      BY <3>1
    <3>3. buf[1] = above * p + e[1]
      BY <1>3
    <3> QED
      BY <3>1, <3>2, <3>3
  <2> DEFINE o == buf[1]
             c == e[1]
  <2> HIDE DEF p, o, c
  <2>2. p \in Nat \ {0} /\ c \in 0..(p - 1) /\ o = p * above + c /\ o \in Nat
    BY <2>1 DEF o, c
  <2>3. o % p = c
    BY <2>2, DivUnique
  <2> QED
    BY <2>3 DEF p, o, c, field
<1> HIDE DEF field, last
<1>7. CASE number < mask
  <2>1. e = <<number>> /\ e[1] = number /\ Len(e) = 1
    BY <1>2, <1>7
  <2>2. field = number /\ field # mask
    BY <1>1, <1>6, <1>7, <2>1
  <2>3. DecodeNumber(buf, bits) = [len |-> 1, number |-> number]
    BY <1>4, <1>5, <2>2
  <2> QED
    BY <2>1, <2>3 DEF e
<1>8. CASE number >= mask
  <2>1. Len(e) = k + 1 /\ e[1] = mask /\ \A i \in 1..k : e[i + 1] = Digit(n, k, i)
    BY <1>2, <1>3, <1>8
  <2>2. n \in 0..NumberMax /\ n \in Nat /\ number = mask + n
    BY <1>1, <1>8
  <2> HIDE DEF n
  <2>3. k \in 1..MostDigits /\ n < Units(k) /\ (k > 1 => Units(k - 1) <= n)
    BY <2>2, DigitsFacts
  <2>4. k \in Nat \ {0} /\ k <= MaxOctets
    BY <2>3, MostUnits
  <2> HIDE DEF k
  <2>5. field = mask
    BY <1>1, <1>6, <2>1
  <2>6. ASSUME NEW i \in 1..k PROVE buf[i + 1] = Digit(n, k, i)
    <3>1. i + 1 \in 2..Len(e)
      BY <2>1, <2>4
    <3> QED
      BY <1>3, <2>1, <3>1
  <2>7. last = k + 1 /\ LastOctets(buf) # {}
    <3>1. Len(buf) \in Nat /\ k + 1 <= Len(buf)
      BY <1>3, <2>1, <2>4
    <3>2. \E m \in Nat : m = Min({Len(buf), MaxOctets + 1}) /\ k + 1 <= m
      <4>1. {Len(buf), MaxOctets + 1} \in SUBSET Nat /\ {Len(buf), MaxOctets + 1} # {}
        BY <1>1, <3>1
      <4>2. Min({Len(buf), MaxOctets + 1}) \in {Len(buf), MaxOctets + 1}
        BY <4>1, Smallest
      <4> QED
        BY <1>1, <2>4, <3>1, <4>2
    <3>3. PICK m \in Nat : m = Min({Len(buf), MaxOctets + 1}) /\ k + 1 <= m
      BY <3>2
    <3>4. LastOctets(buf) = {i \in 2..m : buf[i] < Cont}
      BY <3>3 DEF LastOctets, Continuation
    <3>5. LastOctets(buf) \in SUBSET Nat
      BY <3>4
    <3>6. k + 1 \in LastOctets(buf)
      <4>1. k \in 1..k /\ k + 1 \in 2..m
        BY <2>4, <3>3
      <4>2. buf[k + 1] < Cont
        BY <2>2, <2>4, <2>6, <4>1, DigitFacts
      <4> QED
        BY <3>4, <4>1, <4>2
    <3>7. ASSUME NEW i \in LastOctets(buf) PROVE k + 1 <= i
      <4> SUFFICES ASSUME i < k + 1 PROVE FALSE
        BY <3>5, <2>4
      <4>1. i \in 2..m /\ buf[i] < Cont
        BY <3>4, <3>7
      <4>2. i - 1 \in 1..k /\ i - 1 < k /\ (i - 1) + 1 = i
        BY <4>1, <2>4
      <4>3. buf[i] = Digit(n, k, i - 1)
        BY <2>6, <4>2
      <4>4. Digit(n, k, i - 1) >= Cont /\ Digit(n, k, i - 1) \in Nat
        BY <2>2, <2>4, <4>2, DigitFacts
      <4> QED
        BY <4>1, <4>3, <4>4, UnitsFacts
    <3>8. Min(LastOctets(buf)) \in LastOctets(buf) /\ Min(LastOctets(buf)) <= k + 1
      BY <3>5, <3>6, Smallest
    <3> QED
      BY <2>4, <3>5, <3>6, <3>7, <3>8 DEF last
  <2>8. ~\E i \in 2..(last - 1) : MultOverflows(i)
    <3>1. ASSUME NEW i \in 2..k PROVE ~MultOverflows(i)
      <4>1. k > 1
        BY <2>4
      <4> QED
        BY <2>2, <2>3, <2>4, <4>1, NoOverflow
    <3>2. last - 1 = k
      BY <2>4, <2>7
    <3> QED
      BY <3>1, <3>2
  <2>9. Accumulated(buf, bits, last) = number
    <3>1. HasDigits(buf, n, k)
      <4> SUFFICES ASSUME NEW i \in 1..k
                   PROVE  buf[i + 1] % Cont = (n \div Units(i - 1)) % Cont
        BY DEF HasDigits
      <4>1. Digit(n, k, i) % Cont = (n \div Units(i - 1)) % Cont
        BY <2>2, <2>4, DigitFacts
      <4>2. buf[i + 1] = Digit(n, k, i)
        BY <2>6
      <4> QED
        BY <4>1, <4>2
    <3>2. HasPrefix(buf, bits, mask)
      BY <2>5 DEF field, HasPrefix
    <3>3. Accumulated(buf, bits, k + 1) = mask + n
      <4>1. mask \in Nat /\ n \in Nat /\ k \in Nat \ {0} /\ n < Units(k)
        BY <1>1, <2>2, <2>3, <2>4
      <4> QED
        BY <3>1, <3>2, <4>1, AddsUpDigits
    <3> QED
      BY <2>2, <2>7, <3>3
  <2>10. number % (NumberMax + 1) = number
    <3> DEFINE m == NumberMax + 1
    <3>1. m \in Nat \ {0} /\ number \in 0..(m - 1)
      BY <1>1
    <3> HIDE DEF m
    <3>2. number % m = number
      BY <3>1, ModSmall
    <3> QED
      BY <3>2 DEF m
  <2>11. DecodeNumber(buf, bits) = [len |-> last, number |-> number]
    BY <1>4, <1>5, <2>5, <2>7, <2>8, <2>9, <2>10
  <2> QED
    BY <2>1, <2>7, <2>11 DEF e
<1> QED
  BY <1>1, <1>7, <1>8

-----------------------------------------------------------------------------
\* Numbers on the wire (module NumberWire).

\* What WriteNumber puts on the wire: e behind the bits above the prefix, and what follows.
OnWire(g, e) == [e EXCEPT ![1] = g.above * Pow2[g.bits] + @] \o g.following
Octets(g) == EncodeNumber(g.n, g.bits, g.buflen)

LEMMA GivenTypes ==
    ASSUME NEW g \in Numbers
    PROVE  /\ g.n \in 0..NumberMax /\ g.bits \in Nat \ {0} /\ g.above \in Nat
           /\ g.buflen \in Nat \ {0} /\ g.following \in Seq(Nat)
<1>1. PICK b \in 1..(ContBits + 1) :
        g \in [n : 0..NumberMax, bits : {b}, above : 0..(Pow2[ContBits + 1 - b] - 1),
               buflen : 1..(MaxOctets + 2), following : Following]
  BY Zenon DEF Numbers
<1>2. /\ g.n \in 0..NumberMax /\ g.bits = b /\ g.above \in 0..(Pow2[ContBits + 1 - b] - 1)
      /\ g.buflen \in 1..(MaxOctets + 2) /\ g.following \in Following
  BY <1>1
<1>3. ContBits + 1 - b \in Nat /\ b \in Nat \ {0} /\ MaxOctets \in Nat
  BY NumberAssumption
<1>4. Pow2[ContBits + 1 - b] \in Nat
  BY <1>3, Pow2Nat
<1>5. g.above \in Nat /\ g.buflen \in Nat \ {0}
  BY <1>2, <1>3, <1>4
<1> QED
  BY <1>2, <1>3, <1>5, FollowingAssumption

LEMMA WireHolds ==
    ASSUME NEW g \in Numbers, Octets(g) # <<>>
    PROVE  /\ Holds(OnWire(g, Octets(g)), g.n, g.bits, Octets(g), g.above)
           /\ Len(OnWire(g, Octets(g))) - Len(g.following) = Len(Octets(g))
           /\ OnWire(g, Octets(g)) # <<>>
<1> DEFINE e == Octets(g)
           p == g.above * Pow2[g.bits]
           first == [e EXCEPT ![1] = p + @]
           t == g.following
<1>1. /\ g.n \in 0..NumberMax /\ g.bits \in Nat \ {0} /\ g.above \in Nat
      /\ g.buflen \in Nat \ {0} /\ t \in Seq(Nat)
  BY GivenTypes
<1>2. e \in Seq(Nat)
  BY <1>1, Encoded DEF Octets
<1>3. p \in Nat
  <2>1. Pow2[g.bits] \in Nat
    BY <1>1, Pow2Nat
  <2> QED
    BY <1>1, <2>1
<1>4. OnWire(g, e) = first \o t
  BY DEF OnWire
<1> HIDE DEF e, p, t
<1>5. Len(e) \in Nat \ {0} /\ 1 \in 1..Len(e) /\ e[1] \in Nat
  <2>1. e # <<>>
    BY DEF e
  <2> QED
    BY <1>2, <2>1
<1>6. /\ first \in Seq(Nat) /\ Len(first) = Len(e) /\ first[1] = p + e[1]
      /\ \A i \in 2..Len(e) : first[i] = e[i]
  BY <1>2, <1>3, <1>5
<1> HIDE DEF first
<1>7. /\ first \o t \in Seq(Nat) /\ Len(first \o t) = Len(e) + Len(t)
      /\ \A i \in 1..Len(e) : (first \o t)[i] = first[i]
  <2>1. first \in Seq(Nat) /\ t \in Seq(Nat) /\ Len(first) = Len(e) /\ Len(e) \in Nat
    BY <1>1, <1>5, <1>6
  <2>2. first \o t \in Seq(Nat) /\ Len(first \o t) = Len(first) + Len(t)
    BY <2>1, ConcatProperties
  <2>3. \A i \in 1..Len(first) : (first \o t)[i] = first[i]
    BY <2>1
  <2> QED
    BY <2>1, <2>2, <2>3
<1>8. Len(t) \in Nat
  BY <1>1
<1>9. /\ Len(e) <= Len(first \o t) /\ (first \o t)[1] = p + e[1]
      /\ \A i \in 2..Len(e) : (first \o t)[i] = e[i]
      /\ first \o t # <<>> /\ Len(first \o t) - Len(t) = Len(e)
  BY <1>5, <1>6, <1>7, <1>8
<1>10. Holds(first \o t, g.n, g.bits, e, g.above)
  BY <1>5, <1>7, <1>9 DEF Holds, p, e
<1> QED
  BY <1>4, <1>9, <1>10 DEF e, t

NumberInv ==
    /\ given \in Numbers
    /\ coded # <<>> => Octets(given) # <<>> /\ coded = OnWire(given, Octets(given))
    /\ decoded # <<>> =>
         /\ coded # <<>>
         /\ decoded = [len |-> Len(coded) - Len(given.following), number |-> given.n]

\* The round trip of numbers: whatever ContBits and the width of uintmax_t are,
\* every number up to UINTMAX_MAX is read back as it was written for every prefix,
\* with anything above the prefix and anything behind the number.
THEOREM NumbersSurvive == NumberSpec => []NumberRoundTrip
<1>1. NumberInit => NumberInv
  BY DEF NumberInit, NumberInv
<1>2. NumberInv /\ [NumberNext]_numberVars => NumberInv'
  <2> SUFFICES ASSUME NumberInv, [NumberNext]_numberVars PROVE NumberInv'
    OBVIOUS
  <2>1. CASE WriteNumber
    <3>1. coded = <<>> /\ decoded = <<>> /\ given' = given /\ decoded' = decoded
      BY <2>1 DEF WriteNumber, NumberInv
    <3>2. coded' = IF Octets(given) = <<>> THEN <<>> ELSE OnWire(given, Octets(given))
      BY <2>1 DEF WriteNumber, Octets, OnWire
    <3> QED
      BY <3>1, <3>2 DEF NumberInv
  <2>2. CASE ReadNumber
    <3>1. /\ coded # <<>> /\ given' = given /\ coded' = coded
          /\ decoded' = DecodeNumber(coded, given.bits)
      BY <2>2 DEF ReadNumber
    <3>2. given \in Numbers /\ Octets(given) # <<>> /\ coded = OnWire(given, Octets(given))
      BY <3>1 DEF NumberInv
    <3>3. /\ Holds(coded, given.n, given.bits, Octets(given), given.above)
          /\ Len(coded) - Len(given.following) = Len(Octets(given))
      BY <3>2, WireHolds
    <3>4. DecodeNumber(coded, given.bits) = [len |-> Len(Octets(given)), number |-> given.n]
      <4>1. /\ given.n \in 0..NumberMax /\ given.bits \in Nat \ {0} /\ given.above \in Nat
            /\ given.buflen \in Nat \ {0}
        BY <3>2, GivenTypes
      <4>2. Holds(coded, given.n, given.bits,
                  EncodeNumber(given.n, given.bits, given.buflen), given.above)
        BY <3>3 DEF Octets
      <4> QED
        BY <4>1, <4>2, Decoded DEF Octets
    <3> QED
      BY <3>1, <3>2, <3>3, <3>4 DEF NumberInv
  <2>3. CASE UNCHANGED numberVars
    BY <2>3 DEF NumberInv, numberVars
  <2> QED
    BY <2>1, <2>2, <2>3 DEF NumberNext
<1>3. NumberInv => NumberRoundTrip
  BY DEF NumberInv, NumberRoundTrip
<1> QED
  BY <1>1, <1>2, <1>3, PTL DEF NumberSpec

-----------------------------------------------------------------------------
\* A number the peer sends is the number decode_number returns.
LEMMA NumberReceived ==
    ASSUME NEW n \in 0..NumberMax, NEW bits \in Nat \ {0}
    PROVE  Received(n, bits) = n
<1> DEFINE e == Coded(n, bits)
           m == MaxOctets + 1
<1>1. m \in Nat \ {0} /\ m > MaxOctets /\ e = EncodeNumber(n, bits, m)
  BY MostUnits DEF Coded
<1> HIDE DEF e, m
<1>2. MaskFromBits(bits) \in Nat /\ n \in Nat /\ Pow2[bits] \in Nat
  BY Pow2Nat, MostUnits DEF MaskFromBits
<1>3. e \in Seq(Nat) /\ e # <<>>
  <2>1. /\ e \in Seq(Nat)
        /\ n < MaskFromBits(bits) => e = <<n>>
        /\ n >= MaskFromBits(bits) /\ m > MaxOctets => e # <<>>
    BY <1>1, Encoded
  <2>2. e = <<n>> => e # <<>>
    OBVIOUS
  <2>3. n < MaskFromBits(bits) \/ n >= MaskFromBits(bits)
    BY <1>2
  <2>4. m > MaxOctets
    BY <1>1
  <2> QED
    BY <2>1, <2>2, <2>3, <2>4, Zenon
<1>4. e[1] = 0 * Pow2[bits] + e[1]
  <2>1. e[1] \in Nat
    BY <1>3
  <2> QED
    BY <1>2, <2>1
<1>5. Holds(e, n, bits, e, 0)
  <2>1. Len(e) <= Len(e)
    BY <1>3
  <2> QED
    BY <1>3, <1>4, <2>1 DEF Holds
<1>6. DecodeNumber(e, bits) = [len |-> Len(e), number |-> n]
  <2>1. Holds(e, n, bits, EncodeNumber(n, bits, m), 0) /\ 0 \in Nat
    BY <1>1, <1>5
  <2> QED
    BY <1>1, <2>1, Decoded
<1> QED
  BY <1>6 DEF Received, e

-----------------------------------------------------------------------------
\* Sizes.

LEMMA FieldSizes ==
    ASSUME NEW h \in Field
    PROVE  FieldSize(h) \in Nat /\ FieldSize(h) >= 1
<1>1. h.name \in Name \cup Value /\ h.value \in Name \cup Value
  BY DEF Field
<1>2. Length[h.name] \in Nat /\ Length[h.value] \in Nat /\ Overhead \in Nat /\ Overhead >= 1
  BY <1>1, HpackAssumption
<1> QED
  BY <1>2 DEF FieldSize

\* g follows the definition of HpackSize up to n.
SumsTo(t, n, g) == g = [i \in 0..n |-> IF i = 0 THEN 0 ELSE g[i - 1] + FieldSize(t[i])]

LEMMA SumsExist ==
    ASSUME NEW t
    PROVE  \A n \in Nat : \E g : SumsTo(t, n, g)
<1> DEFINE T == {n \in Nat : \E g : SumsTo(t, n, g)}
<1>1. 0 \in T
  <2>1. SumsTo(t, 0, [i \in 0..0 |-> 0])
    BY DEF SumsTo
  <2> QED
    BY <2>1
<1>2. ASSUME NEW n \in Nat, n \in T PROVE n + 1 \in T
  <2>1. PICK g : SumsTo(t, n, g)
    BY <1>2
  <2> DEFINE h == [i \in 0..(n + 1) |-> IF i <= n THEN g[i] ELSE g[n] + FieldSize(t[i])]
  <2>2. ASSUME NEW i \in 0..(n + 1)
        PROVE  h[i] = IF i = 0 THEN 0 ELSE h[i - 1] + FieldSize(t[i])
    <3>1. CASE i = 0
      BY <2>1, <3>1 DEF SumsTo
    <3>2. CASE i # 0 /\ i <= n
      <4>1. i - 1 \in 0..n /\ h[i - 1] = g[i - 1] /\ h[i] = g[i] /\ i \in 0..n
        BY <3>2
      <4> QED
        BY <2>1, <3>2, <4>1 DEF SumsTo
    <3>3. CASE i = n + 1
      <4>1. h[i - 1] = g[n] /\ i # 0
        BY <3>3
      <4>2. h[i] = g[n] + FieldSize(t[i])
        <5>1. ~(i <= n)
          BY <3>3
        <5> QED
          BY <5>1
      <4> HIDE DEF h
      <4> QED
        BY <4>1, <4>2
    <3> QED
      BY <3>1, <3>2, <3>3
  <2>3. SumsTo(t, n + 1, h)
    BY <2>2 DEF SumsTo
  <2> QED
    BY <2>3
<1> HIDE DEF T
<1>3. \A n \in Nat : n \in T
  BY <1>1, <1>2, Induction
<1> QED
  BY <1>3 DEF T

\* q and p begin with the same n elements.
Agree(q, p, n) == \A i \in 1..n : q[i] = p[i]

LEMMA SumsNext ==
    ASSUME NEW t, NEW g, NEW n \in Nat, SumsTo(t, n, g), NEW i \in 1..n
    PROVE  g[0] = 0 /\ g[i] = g[i - 1] + FieldSize(t[i])
<1>1. i \in 0..n /\ i # 0 /\ 0 \in 0..n
  OBVIOUS
<1> QED
  BY <1>1 DEF SumsTo

LEMMA SumsUnique ==
    ASSUME NEW s, NEW t, NEW g, NEW h, NEW m \in Nat, NEW n \in Nat,
           SumsTo(s, m, g), SumsTo(t, n, h), n <= m, Agree(s, t, n)
    PROVE  g[n] = h[n]
<1> DEFINE T == {i \in Nat : i <= n => g[i] = h[i]}
<1>1. 0 \in T
  BY DEF SumsTo
<1>2. ASSUME NEW i \in Nat, i \in T PROVE i + 1 \in T
  <2> SUFFICES ASSUME i + 1 <= n PROVE g[i + 1] = h[i + 1]
    OBVIOUS
  <2>1. g[i] = h[i] /\ s[i + 1] = t[i + 1] /\ (i + 1) - 1 = i /\ i + 1 \in 1..m /\ i + 1 \in 1..n
    BY <1>2 DEF Agree
  <2>2. g[i + 1] = g[(i + 1) - 1] + FieldSize(s[i + 1])
    BY <2>1, SumsNext
  <2>3. h[i + 1] = h[(i + 1) - 1] + FieldSize(t[i + 1])
    BY <2>1, SumsNext
  <2> QED
    BY <2>1, <2>2, <2>3
<1> HIDE DEF T
<1>3. n \in T
  BY <1>1, <1>2, Induction
<1> QED
  BY <1>3 DEF T

LEMMA SizeIs ==
    ASSUME NEW t \in Seq(Field)
    PROVE  \E g : SumsTo(t, Len(t), g) /\ HpackSize(t) = g[Len(t)]
<1>1. HpackSize(t) = (CHOOSE g : SumsTo(t, Len(t), g))[Len(t)]
  BY DEF HpackSize, SumsTo
<1>2. \E g : SumsTo(t, Len(t), g)
  <2>1. Len(t) \in Nat
    OBVIOUS
  <2> QED
    BY <2>1, SumsExist
<1> QED
  BY <1>1, <1>2

\* The size of the k newest entries.
Size(t, k) == HpackSize(SubSeq(t, 1, k))

LEMMA Newest ==
    ASSUME NEW t \in Seq(Field), NEW k \in 0..Len(t)
    PROVE  /\ SubSeq(t, 1, k) \in Seq(Field) /\ Len(SubSeq(t, 1, k)) = k
           /\ \A i \in 1..k : SubSeq(t, 1, k)[i] = t[i]
<1>1. k \in Nat /\ Len(t) \in Nat /\ k <= Len(t) /\ 1 \in Int /\ k \in Int
  OBVIOUS
<1>2. \A i \in 1..k : t[i] \in Field
  BY <1>1
<1>3. (IF 1 <= k THEN k - 1 + 1 ELSE 0) = k /\ k - 1 + 1 = k /\ \A i \in 1..k : 1 + i - 1 = i
  BY <1>1
<1>4. /\ SubSeq(t, 1, k) \in Seq(Field)
      /\ Len(SubSeq(t, 1, k)) = IF 1 <= k THEN k - 1 + 1 ELSE 0
      /\ \A i \in 1..(k - 1 + 1) : SubSeq(t, 1, k)[i] = t[1 + i - 1]
  BY <1>1, <1>2, SubSeqProperties
<1> QED
  BY <1>3, <1>4

LEMMA SizeAgrees ==
    ASSUME NEW s \in Seq(Field), NEW t \in Seq(Field), NEW k \in 0..Len(s), k \in 0..Len(t),
           Agree(s, t, k)
    PROVE  SubSeq(s, 1, k) = SubSeq(t, 1, k) /\ Size(s, k) = Size(t, k)
<1> DEFINE a == SubSeq(s, 1, k)
           b == SubSeq(t, 1, k)
<1>1. a \in Seq(Field) /\ Len(a) = k /\ \A i \in 1..k : a[i] = s[i]
  BY Newest
<1>2. b \in Seq(Field) /\ Len(b) = k /\ \A i \in 1..k : b[i] = t[i]
  BY Newest
<1> HIDE DEF a, b
<1>3. \A i \in 1..k : a[i] = b[i]
  BY <1>1, <1>2 DEF Agree
<1>4. a = b
  BY <1>1, <1>2, <1>3, SeqEqual
<1> QED
  BY <1>4 DEF a, b, Size

LEMMA SizeGrows ==
    ASSUME NEW t \in Seq(Field)
    PROVE  /\ Size(t, 0) = 0 /\ Size(t, Len(t)) = HpackSize(t)
           /\ \A k \in 1..Len(t) : Size(t, k) = Size(t, k - 1) + FieldSize(t[k])
<1> DEFINE n == Len(t)
<1>1. n \in Nat
  OBVIOUS
<1>2. PICK g : SumsTo(t, n, g) /\ HpackSize(t) = g[n]
  BY SizeIs
<1>3. ASSUME NEW k \in 0..n PROVE Size(t, k) = g[k]
  <2> DEFINE a == SubSeq(t, 1, k)
  <2>1. a \in Seq(Field) /\ Len(a) = k /\ \A i \in 1..k : a[i] = t[i]
    BY Newest
  <2> HIDE DEF a, n
  <2>2. PICK h : SumsTo(a, k, h) /\ HpackSize(a) = h[k]
    BY <2>1, SizeIs
  <2>3. Agree(t, a, k) /\ k \in Nat /\ k <= n
    BY <1>1, <2>1 DEF Agree
  <2>4. g[k] = h[k]
    BY <1>1, <1>2, <2>2, <2>3, SumsUnique
  <2> QED
    BY <2>2, <2>4 DEF Size, a
<1> HIDE DEF n
<1>4. Size(t, 0) = 0
  <2>1. 0 \in 0..n
    BY <1>1
  <2>2. g[0] = 0
    BY <1>2, <2>1 DEF SumsTo
  <2> QED
    BY <1>3, <2>1, <2>2
<1>5. Size(t, n) = HpackSize(t)
  <2>1. n \in 0..n
    BY <1>1
  <2> QED
    BY <1>2, <1>3, <2>1
<1>6. ASSUME NEW k \in 1..n PROVE Size(t, k) = Size(t, k - 1) + FieldSize(t[k])
  <2>1. k \in 0..n /\ k - 1 \in 0..n
    BY <1>1
  <2>2. g[k] = g[k - 1] + FieldSize(t[k])
    BY <1>1, <1>2, SumsNext
  <2> QED
    BY <1>3, <2>1, <2>2
<1> QED
  BY <1>4, <1>5, <1>6 DEF n

LEMMA SizeType ==
    ASSUME NEW t \in Seq(Field)
    PROVE  \A k \in 0..Len(t) : Size(t, k) \in Nat /\ k <= Size(t, k)
<1> DEFINE n == Len(t)
           T == {k \in Nat : k <= n => Size(t, k) \in Nat /\ k <= Size(t, k)}
<1>1. /\ n \in Nat /\ Size(t, 0) = 0
      /\ \A k \in 1..n : Size(t, k) = Size(t, k - 1) + FieldSize(t[k])
      /\ \A k \in 1..n : t[k] \in Field
  BY SizeGrows
<1> HIDE DEF n
<1>2. 0 \in T
  BY <1>1
<1>3. ASSUME NEW k \in Nat, k \in T PROVE k + 1 \in T
  <2> SUFFICES ASSUME k + 1 <= n PROVE Size(t, k + 1) \in Nat /\ k + 1 <= Size(t, k + 1)
    OBVIOUS
  <2>1. k + 1 \in 1..n /\ (k + 1) - 1 = k /\ k <= n
    BY <1>1
  <2>2. Size(t, k + 1) = Size(t, k) + FieldSize(t[k + 1])
    BY <1>1, <2>1
  <2>3. FieldSize(t[k + 1]) \in Nat /\ FieldSize(t[k + 1]) >= 1
    BY <1>1, <2>1, FieldSizes
  <2>4. Size(t, k) \in Nat /\ k <= Size(t, k)
    BY <1>3, <2>1
  <2> QED
    BY <2>2, <2>3, <2>4
<1> HIDE DEF T
<1>4. \A k \in Nat : k \in T
  BY <1>2, <1>3, Induction
<1> QED
  BY <1>1, <1>4 DEF T, n

\* A beginning is no larger than the whole.
LEMMA SizeUpTo ==
    ASSUME NEW t \in Seq(Field)
    PROVE  \A k \in 0..Len(t) : Size(t, k) <= HpackSize(t)
<1> DEFINE n == Len(t)
           T == {j \in Nat : j <= n => Size(t, n - j) <= Size(t, n)}
<1>1. /\ n \in Nat /\ Size(t, n) = HpackSize(t)
      /\ \A k \in 1..n : Size(t, k) = Size(t, k - 1) + FieldSize(t[k])
      /\ \A k \in 1..n : FieldSize(t[k]) \in Nat
      /\ \A k \in 0..n : Size(t, k) \in Nat
  BY SizeGrows, SizeType, FieldSizes
<1> HIDE DEF n
<1>2. 0 \in T
  <2>1. n - 0 = n /\ n \in 0..n
    BY <1>1
  <2> QED
    BY <1>1, <2>1
<1>3. ASSUME NEW j \in Nat, j \in T PROVE j + 1 \in T
  <2> SUFFICES ASSUME j + 1 <= n PROVE Size(t, n - (j + 1)) <= Size(t, n)
    OBVIOUS
  <2> DEFINE k == n - j
  <2>1. k \in 1..n /\ k - 1 = n - (j + 1) /\ k - 1 \in 0..n /\ k \in 0..n /\ n \in 0..n /\ j <= n
    BY <1>1
  <2>2. Size(t, k) <= Size(t, n)
    BY <1>3, <2>1
  <2> HIDE DEF k
  <2>3. Size(t, k) = Size(t, k - 1) + FieldSize(t[k])
    BY <1>1, <2>1
  <2>4. \A x, y, z, u \in Nat : x = y + z /\ x <= u => y <= u
    OBVIOUS
  <2>5. Size(t, k - 1) <= Size(t, n)
    BY <1>1, <2>1, <2>2, <2>3, <2>4
  <2> QED
    BY <2>1, <2>5
<1> HIDE DEF T
<1>4. \A j \in Nat : j \in T
  BY <1>2, <1>3, Induction
<1>5. ASSUME NEW k \in 0..n PROVE Size(t, k) <= Size(t, n)
  <2>1. n - k \in Nat /\ n - k <= n /\ n - (n - k) = k
    BY <1>1
  <2>2. Size(t, n - (n - k)) <= Size(t, n)
    BY <1>4, <2>1 DEF T
  <2> QED
    BY <2>1, <2>2
<1> QED
  BY <1>1, <1>5 DEF n

\* One entry in front adds its size.
LEMMA SizeInFront ==
    ASSUME NEW t \in Seq(Field), NEW h \in Field
    PROVE  /\ <<h>> \o t \in Seq(Field) /\ Len(<<h>> \o t) = Len(t) + 1
           /\ (<<h>> \o t)[1] = h /\ \A i \in 1..Len(t) : (<<h>> \o t)[i + 1] = t[i]
           /\ \A k \in 0..Len(t) : Size(<<h>> \o t, k + 1) = FieldSize(h) + Size(t, k)
<1> DEFINE u == <<h>> \o t
           n == Len(t)
<1>1. <<h>> \in Seq(Field) /\ Len(<<h>>) = 1 /\ <<h>>[1] = h /\ n \in Nat
  OBVIOUS
<1>2. u \in Seq(Field) /\ Len(u) = n + 1 /\ u[1] = h /\ \A i \in 1..n : u[i + 1] = t[i]
  <2> DEFINE a == <<h>>
  <2>1. a \in Seq(Field) /\ Len(a) = 1 /\ a[1] = h
    BY <1>1
  <2> HIDE DEF a, n
  <2>2. /\ a \o t \in Seq(Field) /\ Len(a \o t) = Len(a) + Len(t)
        /\ \A i \in 1..(Len(a) + Len(t)) : (a \o t)[i] = IF i <= Len(a) THEN a[i] ELSE t[i - Len(a)]
    BY <2>1, ConcatProperties
  <2>3. 1 \in 1..(1 + n) /\ 1 <= 1 /\ 1 + n = n + 1
    BY <1>1
  <2>4. ASSUME NEW i \in 1..n PROVE (a \o t)[i + 1] = t[i]
    <3>1. i + 1 \in 1..(1 + n) /\ ~(i + 1 <= 1) /\ (i + 1) - 1 = i
      BY <1>1
    <3> QED
      BY <2>1, <2>2, <3>1 DEF n
  <2>5. (a \o t)[1] = h
    BY <2>1, <2>2, <2>3 DEF n
  <2> QED
    BY <2>1, <2>2, <2>3, <2>4, <2>5 DEF a, n
<1> HIDE DEF u, n
<1>3. /\ Size(u, 0) = 0 /\ \A k \in 1..(n + 1) : Size(u, k) = Size(u, k - 1) + FieldSize(u[k])
  BY <1>2, SizeGrows
<1>4. /\ Size(t, 0) = 0 /\ \A k \in 1..n : Size(t, k) = Size(t, k - 1) + FieldSize(t[k])
  BY SizeGrows DEF n
<1>5. FieldSize(h) \in Nat /\ \A k \in 0..n : Size(t, k) \in Nat
  BY FieldSizes, SizeType DEF n
<1> DEFINE T == {k \in Nat : k <= n => Size(u, k + 1) = FieldSize(h) + Size(t, k)}
<1>6. 0 \in T
  <2>1. 1 \in 1..(n + 1) /\ 1 - 1 = 0 /\ 0 + 1 = 1
    BY <1>1
  <2>2. Size(u, 1) = Size(u, 1 - 1) + FieldSize(u[1])
    BY <1>3, <2>1
  <2>3. Size(u, 1) = 0 + FieldSize(h)
    BY <1>2, <1>3, <2>1, <2>2
  <2> QED
    BY <1>4, <1>5, <2>1, <2>3
<1>7. ASSUME NEW k \in Nat, k \in T PROVE k + 1 \in T
  <2> SUFFICES ASSUME k + 1 <= n PROVE Size(u, (k + 1) + 1) = FieldSize(h) + Size(t, k + 1)
    OBVIOUS
  <2>1. /\ (k + 1) + 1 \in 1..(n + 1) /\ ((k + 1) + 1) - 1 = k + 1 /\ k + 1 \in 1..n
        /\ (k + 1) - 1 = k /\ k <= n /\ k \in 0..n
    BY <1>1
  <2>2. Size(u, (k + 1) + 1) = Size(u, ((k + 1) + 1) - 1) + FieldSize(u[(k + 1) + 1])
    BY <1>3, <2>1
  <2>3. u[(k + 1) + 1] = t[k + 1]
    BY <1>2, <2>1
  <2>4. Size(u, k + 1) = FieldSize(h) + Size(t, k)
    BY <1>7, <2>1
  <2>5. Size(t, k + 1) = Size(t, (k + 1) - 1) + FieldSize(t[k + 1])
    BY <1>4, <2>1
  <2>6. FieldSize(t[k + 1]) \in Nat /\ Size(t, k) \in Nat
    <3>1. t[k + 1] \in Field
      BY <2>1 DEF n
    <3> QED
      BY <1>5, <2>1, <3>1, FieldSizes
  <2>7. \A a, b, c \in Nat : (a + b) + c = a + (b + c)
    OBVIOUS
  <2> QED
    BY <1>5, <2>1, <2>2, <2>3, <2>4, <2>5, <2>6, <2>7
<1> HIDE DEF T
<1>8. \A k \in Nat : k \in T
  BY <1>6, <1>7, Induction
<1>9. \A k \in 0..n : Size(u, k + 1) = FieldSize(h) + Size(t, k)
  BY <1>1, <1>8 DEF T
<1> QED
  BY <1>2, <1>9 DEF u, n

-----------------------------------------------------------------------------
\* Eviction.

\* e is the longest beginning of t whose size is within the limit.
Fitting(e, t, limit) ==
    /\ e \in Seq(Field) /\ Len(e) <= Len(t) /\ Agree(e, t, Len(e)) /\ HpackSize(e) <= limit
    /\ \A k \in 0..Len(t) : Size(t, k) <= limit => k <= Len(e)

LEMMA EvictedFits ==
    ASSUME NEW t \in Seq(Field), NEW limit \in Nat
    PROVE  Fitting(Evicted(t, limit), t, limit)
<1> DEFINE K == {k \in 0..Len(t) : Size(t, k) <= limit}
           m == Max(K)
<1>1. Len(t) \in Nat /\ Size(t, 0) = 0
  BY SizeGrows
<1>2. K \in SUBSET Nat /\ 0 \in K /\ \A k \in K : k <= Len(t)
  BY <1>1
<1>3. m \in K /\ \A k \in K : k <= m
  <2> HIDE DEF K
  <2>1. K # {}
    BY <1>2
  <2> QED
    BY <1>1, <1>2, <2>1, Largest
<1>4. m \in 0..Len(t) /\ Size(t, m) <= limit
  BY <1>3
<1>5. \A k \in 0..Len(t) : Size(t, k) <= limit => k <= m
  BY <1>3
<1>6. Evicted(t, limit) = SubSeq(t, 1, m)
  BY DEF Evicted, Size
<1> HIDE DEF K, m
<1> DEFINE e == SubSeq(t, 1, m)
<1>7. e \in Seq(Field) /\ Len(e) = m /\ \A i \in 1..m : e[i] = t[i]
  BY <1>4, Newest
<1>8. HpackSize(e) <= limit
  BY <1>4 DEF Size
<1> HIDE DEF e
<1>9. Fitting(e, t, limit)
  BY <1>1, <1>4, <1>5, <1>7, <1>8 DEF Fitting, Agree
<1> QED
  BY <1>6, <1>9 DEF e

\* p is a beginning of t.
Begins(p, t) == p \in Seq(Field) /\ t \in Seq(Field) /\ Len(p) <= Len(t) /\ Agree(p, t, Len(p))

LEMMA BeginsIsPrefix ==
    ASSUME NEW p \in Seq(Field), NEW t \in Seq(Field)
    PROVE  IsPrefix(p, t) <=> Begins(p, t)
<1>1. Len(p) \in Nat /\ Len(t) \in Nat
  OBVIOUS
<1>2. ASSUME Begins(p, t) PROVE IsPrefix(p, t)
  <2>1. Len(p) \in 0..Len(p) /\ Len(p) \in 0..Len(t) /\ Agree(p, t, Len(p)) /\ Len(p) <= Len(t)
    BY <1>1, <1>2 DEF Begins
  <2>2. SubSeq(p, 1, Len(p)) = SubSeq(t, 1, Len(p))
    BY <2>1, SizeAgrees
  <2> QED
    BY <2>1, <2>2 DEF IsPrefix
<1>3. ASSUME IsPrefix(p, t) PROVE Begins(p, t)
  <2> DEFINE a == SubSeq(p, 1, Len(p))
             b == SubSeq(t, 1, Len(p))
  <2>1. Len(p) <= Len(t) /\ a = b /\ Len(p) \in 0..Len(p) /\ Len(p) \in 0..Len(t)
    BY <1>1, <1>3 DEF IsPrefix
  <2>2. \A i \in 1..Len(p) : a[i] = p[i]
    BY <2>1, Newest
  <2>3. \A i \in 1..Len(p) : b[i] = t[i]
    BY <2>1, Newest
  <2> HIDE DEF a, b
  <2> QED
    BY <2>1, <2>2, <2>3 DEF Begins, Agree
<1> QED
  BY <1>2, <1>3

LEMMA BeginsTrans ==
    ASSUME NEW p, NEW q, NEW t, Begins(p, q), Begins(q, t)
    PROVE  Begins(p, t)
<1>1. /\ p \in Seq(Field) /\ q \in Seq(Field) /\ t \in Seq(Field) /\ Len(p) <= Len(q)
      /\ Len(q) <= Len(t) /\ Len(p) \in Nat /\ Len(q) \in Nat /\ Len(t) \in Nat
      /\ \A i \in 1..Len(p) : p[i] = q[i]
      /\ \A i \in 1..Len(q) : q[i] = t[i]
  BY DEF Begins, Agree
<1>2. Len(p) <= Len(t) /\ \A i \in 1..Len(p) : i \in 1..Len(q)
  BY <1>1
<1> QED
  BY <1>1, <1>2 DEF Begins, Agree

LEMMA FittingBegins ==
    ASSUME NEW t \in Seq(Field), NEW e, NEW limit, Fitting(e, t, limit)
    PROVE  Begins(e, t) /\ e \in Seq(Field) /\ HpackSize(e) <= limit
BY DEF Fitting, Begins

\* With the larger limit and the longer table more is left.
LEMMA EvictedTogether ==
    ASSUME NEW p, NEW t, Begins(p, t), NEW a \in Nat, NEW b \in Nat, a <= b,
           NEW d, NEW e, Fitting(d, p, a), Fitting(e, t, b)
    PROVE  Begins(d, e)
<1>1. /\ p \in Seq(Field) /\ t \in Seq(Field) /\ d \in Seq(Field) /\ e \in Seq(Field)
      /\ Len(p) \in Nat /\ Len(t) \in Nat /\ Len(d) \in Nat /\ Len(e) \in Nat
      /\ Len(p) <= Len(t) /\ Len(d) <= Len(p)
  BY DEF Begins, Fitting
<1>2. Begins(d, p) /\ Begins(d, t) /\ Begins(e, t)
  BY <1>1, FittingBegins, BeginsTrans
<1> DEFINE k == Len(d)
<1>3. k \in 0..Len(d) /\ k \in 0..Len(t) /\ Agree(d, t, k)
  BY <1>1, <1>2 DEF Begins
<1>4. Size(t, k) <= b
  <2>1. Size(d, k) = Size(t, k)
    BY <1>1, <1>3, SizeAgrees
  <2>2. Size(d, k) = HpackSize(d) /\ Size(d, k) \in Nat
    BY <1>1, <1>3, SizeGrows, SizeType
  <2>3. HpackSize(d) <= a
    BY DEF Fitting
  <2> QED
    BY <2>1, <2>2, <2>3
<1>5. k <= Len(e)
  BY <1>3, <1>4 DEF Fitting
<1>6. \A i \in 1..k : d[i] = e[i]
  <2> SUFFICES ASSUME NEW i \in 1..k PROVE d[i] = e[i]
    OBVIOUS
  <2>1. i \in 1..Len(e)
    BY <1>1, <1>5
  <2> QED
    BY <1>2, <2>1 DEF Begins, Agree
<1> QED
  BY <1>1, <1>5, <1>6 DEF Begins, Agree

\* A field inserted at both ends.
Inserted(t, h, limit) ==
    IF FieldSize(h) > limit THEN <<>> ELSE <<h>> \o Evicted(t, limit - FieldSize(h))

LEMMA InsertedFits ==
    ASSUME NEW t \in Seq(Field), NEW h \in Field, NEW limit \in Nat
    PROVE  Fitting(Inserted(t, h, limit), <<h>> \o t, limit)
<1> DEFINE u == <<h>> \o t
           n == Len(t)
           f == FieldSize(h)
<1>1. /\ u \in Seq(Field) /\ Len(u) = n + 1 /\ u[1] = h /\ (\A i \in 1..n : u[i + 1] = t[i])
      /\ \A k \in 0..n : Size(u, k + 1) = f + Size(t, k)
  BY SizeInFront
<1>2. n \in Nat /\ f \in Nat /\ Size(u, 0) = 0 /\ \A k \in 0..n : Size(t, k) \in Nat
  <2>1. n \in Nat /\ f \in Nat
    BY FieldSizes
  <2>2. \A k \in 0..n : Size(t, k) \in Nat
    BY SizeType
  <2> HIDE DEF u
  <2>3. Size(u, 0) = 0
    BY <1>1, SizeGrows
  <2> QED
    BY <2>1, <2>2, <2>3
<1> HIDE DEF u, n, f
<1>3. CASE f > limit
  <2>1. Inserted(t, h, limit) = <<>>
    BY <1>3 DEF Inserted, f
  <2>2. <<>> \in Seq(Field) /\ Len(<<>>) = 0 /\ 1..0 = {} /\ 0 <= Len(u)
    BY <1>1, <1>2
  <2>3. HpackSize(<<>>) = 0
    <3>1. Size(<<>>, Len(<<>>)) = HpackSize(<<>>) /\ Size(<<>>, 0) = 0
      BY <2>2, SizeGrows
    <3> QED
      BY <2>2, <3>1
  <2>4. ASSUME NEW k \in 0..Len(u), Size(u, k) <= limit PROVE k <= 0
    <3> SUFFICES ASSUME k # 0 PROVE FALSE
      OBVIOUS
    <3>1. k - 1 \in 0..n /\ (k - 1) + 1 = k
      BY <1>1, <1>2
    <3>2. Size(u, k) = f + Size(t, k - 1) /\ Size(t, k - 1) \in Nat
      BY <1>1, <1>2, <3>1
    <3> QED
      BY <1>2, <1>3, <2>4, <3>2
  <2>5. Fitting(<<>>, u, limit)
    BY <2>2, <2>3, <2>4 DEF Fitting, Agree
  <2> QED
    BY <2>1, <2>5 DEF u
<1>4. CASE ~(f > limit)
  <2> DEFINE l == limit - f
             e == Evicted(t, l)
             v == <<h>> \o e
  <2>1. l \in Nat /\ l + f = limit
    BY <1>2, <1>4
  <2> HIDE DEF l
  <2>2. Fitting(e, t, l)
    BY <2>1, EvictedFits
  <2> HIDE DEF e
  <2>3. /\ e \in Seq(Field) /\ Len(e) <= n /\ Len(e) \in Nat /\ HpackSize(e) <= l
        /\ (\A i \in 1..Len(e) : e[i] = t[i])
        /\ \A k \in 0..n : Size(t, k) <= l => k <= Len(e)
    BY <2>2 DEF Fitting, Agree, n
  <2>4. /\ v \in Seq(Field) /\ Len(v) = Len(e) + 1 /\ v[1] = h
        /\ (\A i \in 1..Len(e) : v[i + 1] = e[i])
        /\ \A k \in 0..Len(e) : Size(v, k + 1) = f + Size(e, k)
    BY <2>3, SizeInFront DEF f
  <2> HIDE DEF v
  <2>5. HpackSize(v) <= limit
    <3>1. Len(e) \in 0..Len(e)
      BY <2>3
    <3>2. Size(v, Len(v)) = HpackSize(v) /\ Size(e, Len(e)) = HpackSize(e)
      BY <2>3, <2>4, SizeGrows
    <3>3. HpackSize(v) = f + HpackSize(e)
      BY <2>4, <3>1, <3>2
    <3>4. HpackSize(e) \in Nat
      BY <2>3, <3>1, <3>2, SizeType
    <3> QED
      BY <1>2, <2>1, <2>3, <3>3, <3>4
  <2>6. Len(v) <= Len(u)
    BY <1>1, <1>2, <2>3, <2>4
  <2>7. ASSUME NEW i \in 1..Len(v) PROVE v[i] = u[i]
    <3>1. CASE i = 1
      BY <1>1, <2>4, <3>1
    <3>2. CASE i # 1
      <4>1. i - 1 \in 1..Len(e) /\ i - 1 \in 1..n /\ (i - 1) + 1 = i
        BY <1>2, <2>3, <2>4, <3>2
      <4>2. v[i] = e[i - 1] /\ u[i] = t[i - 1]
        BY <1>1, <2>4, <4>1
      <4> QED
        BY <2>3, <4>1, <4>2
    <3> QED
      BY <3>1, <3>2
  <2>8. ASSUME NEW k \in 0..Len(u), Size(u, k) <= limit PROVE k <= Len(v)
    <3>1. CASE k = 0
      BY <2>3, <2>4, <3>1
    <3>2. CASE k # 0
      <4>1. k - 1 \in 0..n /\ (k - 1) + 1 = k
        BY <1>1, <1>2, <3>2
      <4>2. Size(u, k) = f + Size(t, k - 1) /\ Size(t, k - 1) \in Nat
        BY <1>1, <1>2, <4>1
      <4>3. Size(t, k - 1) <= l
        BY <1>2, <2>1, <2>8, <4>2
      <4>4. k - 1 <= Len(e)
        BY <2>3, <4>1, <4>3
      <4> QED
        BY <2>3, <2>4, <4>4
    <3> QED
      BY <3>1, <3>2
  <2>9. Fitting(v, u, limit)
    BY <2>4, <2>5, <2>6, <2>7, <2>8 DEF Fitting, Agree
  <2>10. Inserted(t, h, limit) = v
    BY <1>4 DEF Inserted, f, l, e, v
  <2> QED
    BY <2>9, <2>10 DEF u
<1> QED
  BY <1>3, <1>4

LEMMA FrontBegins ==
    ASSUME NEW p, NEW t, Begins(p, t), NEW h \in Field
    PROVE  Begins(<<h>> \o p, <<h>> \o t)
<1> DEFINE a == <<h>> \o p
           b == <<h>> \o t
<1>1. /\ p \in Seq(Field) /\ t \in Seq(Field) /\ Len(p) \in Nat /\ Len(t) \in Nat
      /\ Len(p) <= Len(t) /\ \A i \in 1..Len(p) : p[i] = t[i]
  BY DEF Begins, Agree
<1>2. a \in Seq(Field) /\ Len(a) = Len(p) + 1 /\ a[1] = h /\ \A i \in 1..Len(p) : a[i + 1] = p[i]
  BY <1>1, SizeInFront
<1>3. b \in Seq(Field) /\ Len(b) = Len(t) + 1 /\ b[1] = h /\ \A i \in 1..Len(t) : b[i + 1] = t[i]
  BY <1>1, SizeInFront
<1> HIDE DEF a, b
<1>4. ASSUME NEW i \in 1..Len(a) PROVE a[i] = b[i]
  <2>1. CASE i = 1
    BY <1>2, <1>3, <2>1
  <2>2. CASE i # 1
    <3>1. i - 1 \in 1..Len(p) /\ i - 1 \in 1..Len(t) /\ (i - 1) + 1 = i
      BY <1>1, <1>2, <2>2
    <3>2. a[i] = p[i - 1] /\ b[i] = t[i - 1]
      BY <1>2, <1>3, <3>1
    <3> QED
      BY <1>1, <3>1, <3>2
  <2> QED
    BY <2>1, <2>2
<1>5. Len(a) <= Len(b)
  BY <1>1, <1>2, <1>3
<1>6. Begins(a, b)
  BY <1>2, <1>3, <1>4, <1>5 DEF Begins, Agree
<1> QED
  BY <1>6 DEF a, b

-----------------------------------------------------------------------------
\* The invariant: as long as no exception was thrown and every number did fit, the
\* peer's table begins the decoder's, its limit is not above the decoder's, and the
\* decoder's table is within that.

Together ==
    ~narrowed =>
        /\ HpackSize(table) <= octets
        /\ failure = "none" => Begins(peerTable, table) /\ peerSize <= octets

IInv == TypeOK /\ Together /\ DecodedAsMeant

\* What is narrowed gets no larger, and what fits stays as it is.
LEMMA Narrowing ==
    ASSUME NEW n \in Nat
    PROVE  Unsigned(n) \in Nat /\ Unsigned(n) <= n /\ (Fits(n) => Unsigned(n) = n)
<1> DEFINE w == Pow2[UnsignedBits]
<1>1. w \in Nat \ {0}
  BY Pow2Nat, HpackAssumption
<1> HIDE DEF w
<1>2. n % w \in Nat /\ n % w <= n
  <2>1. n \div w \in Nat /\ n % w \in 0..(w - 1) /\ n = w * (n \div w) + (n % w)
    BY <1>1, DivMod
  <2>2. \A x, y \in Nat : x * y \in Nat
    OBVIOUS
  <2>3. w * (n \div w) \in Nat
    BY <1>1, <2>1, <2>2
  <2>4. n % w \in Nat
    BY <1>1, <2>1
  <2>5. \A x, y, z \in Nat : x = y + z => z <= x
    OBVIOUS
  <2> QED
    BY <2>1, <2>3, <2>4, <2>5
<1>3. n < w => n % w = n
  BY <1>1, ModSmall
<1> QED
  BY <1>2, <1>3 DEF Unsigned, Fits, w

LEMMA Typed ==
    ASSUME TypeOK
    PROVE  /\ table \in Seq(Field) /\ peerTable \in Seq(Field) /\ octets \in Nat /\ peerSize \in Nat
           /\ Static \in Seq(Field) /\ Start = Len(Static) + 1 /\ Len(Static) \in Nat
           /\ Len(table) \in Nat /\ Len(peerTable) \in Nat /\ Start \in Nat
<1>1. Sizes \cup {TableSize} \subseteq Nat /\ Static \in Seq(Field)
  BY HpackAssumption
<1>2. Len(Static) \in Nat
  BY <1>1
<1>3. octets \in Nat
  <2>1. PICK size \in Sizes \cup {TableSize} : octets = Unsigned(size)
    BY DEF TypeOK
  <2> QED
    BY <1>1, <2>1, Narrowing
<1> QED
  BY <1>1, <1>2, <1>3 DEF TypeOK, Start

\* Every index of the table survives the coding of numbers.
LEMMA IndexReceived ==
    ASSUME TypeOK, HpackSize(table) <= octets, NEW n \in Index, NEW bits \in {4, 6, 7}
    PROVE  Received(n, bits) = n /\ n \in Nat /\ Unsigned(n) \in Nat
<1>1. Len(table) <= octets
  <2>1. Len(table) \in 0..Len(table) /\ table \in Seq(Field)
    BY Typed
  <2>2. Size(table, Len(table)) = HpackSize(table)
    BY <2>1, SizeGrows
  <2>3. HpackSize(table) \in Nat /\ Len(table) <= HpackSize(table)
    BY <2>1, <2>2, SizeType
  <2> QED
    BY <2>1, <2>3, Typed
<1>2. n \in 0..(Start + octets)
  BY <1>1, Typed DEF Index
<1>3. PICK size \in Sizes \cup {TableSize} : octets = Unsigned(size)
  BY DEF TypeOK
<1>4. size \in Nat /\ octets <= size /\ Start + size <= NumberMax
  <2>1. size \in Nat
    BY HpackAssumption
  <2> QED
    BY <1>3, <2>1, Narrowing, NumbersAssumption
<1>5. n \in 0..NumberMax /\ n \in Nat
  BY <1>2, <1>4, Typed, MostUnits
<1> QED
  BY <1>5, NumberReceived, Narrowing

\* What the peer means by an index the decoder finds under it.
LEMMA EntryFound ==
    ASSUME TypeOK, NEW n \in Nat
    PROVE  /\ InStatic(n) \/ InDynamic(n) => Get(n) \in Field
           /\ PeerEntry(n) \in Field \cup {NoField}
           /\ Begins(peerTable, table) /\ PeerEntry(n) # NoField
                 => (InStatic(n) \/ InDynamic(n)) /\ Get(n) = PeerEntry(n)
<1> DEFINE i == (n - Start) + 1
<1>1. n - Start + 1 = i /\ i \in Int /\ (i \in 1..Len(table) <=> n - Start \in 0..(Len(table) - 1))
  BY Typed
<1>2. CASE InStatic(n)
  <2>1. n \in 1..Len(Static) /\ Get(n) = Static[n] /\ PeerEntry(n) = Static[n]
    BY <1>2, Typed DEF InStatic, Get, PeerEntry
  <2>2. Static[n] \in Field
    BY <2>1, Typed
  <2> QED
    BY <1>2, <2>1, <2>2
<1>3. CASE ~InStatic(n)
  <2>1. Get(n) = table[i]
    BY <1>1, <1>3 DEF Get
  <2>2. PeerEntry(n) = IF i \in DOMAIN peerTable THEN peerTable[i] ELSE NoField
    BY <1>1, <1>3 DEF PeerEntry, InStatic
  <2>3. DOMAIN peerTable = 1..Len(peerTable)
    BY Typed
  <2> HIDE DEF i
  <2>4. InDynamic(n) => Get(n) \in Field
    <3>1. InDynamic(n) => i \in 1..Len(table)
      BY <1>1 DEF InDynamic
    <3> QED
      BY <2>1, <3>1, Typed
  <2>5. PeerEntry(n) \in Field \cup {NoField}
    BY <2>2, <2>3, Typed
  <2>6. ASSUME Begins(peerTable, table), PeerEntry(n) # NoField
        PROVE  InDynamic(n) /\ Get(n) = PeerEntry(n)
    <3>1. i \in 1..Len(peerTable) /\ PeerEntry(n) = peerTable[i]
      BY <2>2, <2>3, <2>6
    <3>2. Len(peerTable) <= Len(table) /\ peerTable[i] = table[i]
      BY <2>6, <3>1 DEF Begins, Agree
    <3>3. i \in 1..Len(table)
      BY <3>1, <3>2, Typed
    <3> QED
      BY <1>1, <2>1, <3>1, <3>2, <3>3 DEF InDynamic
  <2> QED
    BY <1>3, <2>4, <2>5, <2>6
<1> QED
  BY <1>2, <1>3

\* The same for a literal whose name is indexed.
LEMMA LiteralFound ==
    ASSUME TypeOK, HpackSize(table) <= octets, Begins(peerTable, table),
           NEW n \in Index, NEW h \in Field, NEW bits \in {4, 6, 7}
    PROVE  LET g == [name |-> LiteralName(n, h.name, bits), value |-> h.value]
           IN  /\ ~LiteralThrows(n, bits) => g \in Field
               /\ Meant(n, h) \in Field \cup {NoField}
               /\ Fits(n) /\ Meant(n, h) # NoField
                     => ~LiteralThrows(n, bits) /\ g = Meant(n, h)
<1> DEFINE g == [name |-> LiteralName(n, h.name, bits), value |-> h.value]
           u == Unsigned(n)
<1>1. Received(n, bits) = n /\ n \in Nat /\ u \in Nat /\ (Fits(n) => u = n)
  BY IndexReceived, Narrowing
<1>2. LiteralThrows(n, bits) <=> n # 0 /\ ~InStatic(u) /\ ~InDynamic(u)
  BY <1>1 DEF LiteralThrows
<1>3. LiteralName(n, h.name, bits) = IF n = 0 THEN h.name ELSE Get(u).name
  BY <1>1 DEF LiteralName
<1> HIDE DEF u
<1>4. h.name \in Name /\ h.value \in Value /\ h = [name |-> h.name, value |-> h.value]
  BY DEF Field
<1>5. CASE n = 0
  <2>1. g = h /\ Meant(n, h) = h
    BY <1>3, <1>4, <1>5 DEF Meant
  <2> QED
    BY <1>2, <1>5, <2>1
<1>6. CASE n # 0
  <2>1. InStatic(u) \/ InDynamic(u) => Get(u) \in Field
    BY <1>1, EntryFound
  <2>2. /\ PeerEntry(n) \in Field \cup {NoField}
        /\ PeerEntry(n) # NoField => (InStatic(n) \/ InDynamic(n)) /\ Get(n) = PeerEntry(n)
    BY <1>1, EntryFound
  <2>3. g = [name |-> Get(u).name, value |-> h.value]
    BY <1>3, <1>6
  <2> HIDE DEF g
  <2>4. ~LiteralThrows(n, bits) => g \in Field
    <3> SUFFICES ASSUME ~LiteralThrows(n, bits) PROVE g \in Field
      OBVIOUS
    <3>1. Get(u) \in Field
      BY <1>2, <1>6, <2>1
    <3>2. Get(u).name \in Name
      BY <3>1 DEF Field
    <3> QED
      BY <1>4, <2>3, <3>2 DEF Field
  <2>5. CASE PeerEntry(n) = NoField
    <3>1. Meant(n, h) = NoField
      BY <1>6, <2>5 DEF Meant
    <3> QED
      BY <2>4, <3>1 DEF g
  <2>6. CASE PeerEntry(n) # NoField
    <3>1. Meant(n, h) = [name |-> PeerEntry(n).name, value |-> h.value]
      BY <1>6, <2>6 DEF Meant
    <3>2. Meant(n, h) \in Field \cup {NoField}
      <4>1. PeerEntry(n).name \in Name
        BY <2>2, <2>6 DEF Field
      <4> QED
        BY <1>4, <3>1, <4>1 DEF Field
    <3>3. ASSUME Fits(n) PROVE ~LiteralThrows(n, bits) /\ g = Meant(n, h)
      <4>1. ~LiteralThrows(n, bits) /\ Get(u) = PeerEntry(n)
        BY <1>1, <1>2, <2>2, <2>6, <3>3
      <4> QED
        BY <2>3, <3>1, <4>1
    <3> QED
      BY <2>4, <3>2, <3>3 DEF g
  <2> QED
    BY <2>5, <2>6
<1> QED
  BY <1>5, <1>6

\* How many entries insert leaves; as many as the peer, if the sum fits.
LEMMA LeftIs ==
    ASSUME table \in Seq(Field), NEW size \in Nat
    PROVE  /\ Left(size) \in 0..Len(table)
           /\ size <= octets /\ octets \in Nat /\ Fits(HpackSize(table) + size)
                 => SubSeq(table, 1, Left(size)) = Evicted(table, octets - size)
<1> DEFINE K == {k \in 0..Len(table) : k = 0 \/ Unsigned(Size(table, k) + size) <= octets}
           L == {k \in 0..Len(table) : Size(table, k) <= octets - size}
<1>1. Left(size) = Max(K)
  BY DEF Left, Size
<1>2. Evicted(table, octets - size) = SubSeq(table, 1, Max(L))
  BY DEF Evicted, Size
<1>3. Len(table) \in Nat /\ Size(table, 0) = 0 /\ HpackSize(table) \in Nat
      /\ \A k \in 0..Len(table) : Size(table, k) \in Nat /\ Size(table, k) <= HpackSize(table)
  <2>1. Size(table, 0) = 0 /\ Size(table, Len(table)) = HpackSize(table) /\ Len(table) \in 0..Len(table)
    BY SizeGrows
  <2> QED
    BY <2>1, SizeType, SizeUpTo
<1>4. Max(K) \in 0..Len(table)
  <2>1. K \in SUBSET Nat /\ 0 \in K /\ \A k \in K : k <= Len(table)
    BY <1>3
  <2>2. K \subseteq 0..Len(table)
    OBVIOUS
  <2> HIDE DEF K
  <2> QED
    BY <1>3, <2>1, <2>2, Largest
<1>5. ASSUME size <= octets, octets \in Nat, Fits(HpackSize(table) + size) PROVE K = L
  <2>1. ASSUME NEW k \in 0..Len(table)
        PROVE  (k = 0 \/ Unsigned(Size(table, k) + size) <= octets)
                  <=> Size(table, k) <= octets - size
    <3> DEFINE x == Size(table, k)
    <3>1. x \in Nat /\ x <= HpackSize(table) /\ (k = 0 => x = 0)
      BY <1>3
    <3> HIDE DEF x
    <3>2. x + size \in Nat /\ Fits(x + size)
      <4>1. HpackSize(table) + size < Pow2[UnsignedBits]
        BY <1>5 DEF Fits
      <4>2. Pow2[UnsignedBits] \in Nat
        BY Pow2Nat, HpackAssumption
      <4>3. x + size < Pow2[UnsignedBits]
        BY <1>3, <3>1, <4>1, <4>2
      <4> QED
        BY <3>1, <4>3 DEF Fits
    <3>3. Unsigned(x + size) = x + size
      BY <3>2, Narrowing
    <3>4. (x + size <= octets <=> x <= octets - size) /\ (x = 0 => x <= octets - size)
      BY <1>5, <3>1
    <3> QED
      BY <3>1, <3>3, <3>4 DEF x
  <2> QED
    BY <2>1
<1> HIDE DEF K, L
<1> QED
  BY <1>1, <1>2, <1>4, <1>5

LEMMA InsertIs ==
    ASSUME TypeOK, NEW h \in Field, Insert(h)
    PROVE  /\ table' \in Seq(Field)
           /\ Fits(HpackSize(table) + FieldSize(h)) => table' = Inserted(table, h, octets)
<1> DEFINE f == FieldSize(h)
           size == Unsigned(f)
           kept == SubSeq(table, 1, Left(size))
<1>1. f \in Nat /\ size \in Nat /\ (Fits(f) => size = f)
  BY FieldSizes, Narrowing
<1>2. table \in Seq(Field) /\ octets \in Nat
  BY Typed
<1>3. table' = IF size > octets THEN <<>> ELSE <<h>> \o kept
  BY DEF Insert
<1> HIDE DEF f, size
<1>4. /\ Left(size) \in 0..Len(table)
      /\ size <= octets /\ Fits(HpackSize(table) + size) => kept = Evicted(table, octets - size)
  BY <1>1, <1>2, LeftIs
<1>5. kept \in Seq(Field)
  BY <1>2, <1>4, Newest
<1> HIDE DEF kept
<1>6. table' \in Seq(Field)
  <2>1. <<h>> \o kept \in Seq(Field)
    BY <1>5, SizeInFront
  <2>2. <<>> \in Seq(Field)
    OBVIOUS
  <2> QED
    BY <1>3, <2>1, <2>2
<1>7. ASSUME Fits(HpackSize(table) + f) PROVE table' = Inserted(table, h, octets)
  <2>1. HpackSize(table) \in Nat
    <3>1. Len(table) \in 0..Len(table) /\ Size(table, Len(table)) = HpackSize(table)
      BY <1>2, SizeGrows
    <3> QED
      BY <1>2, <3>1, SizeType
  <2>2. Fits(f)
    <3>1. Pow2[UnsignedBits] \in Nat
      BY Pow2Nat, HpackAssumption
    <3> QED
      BY <1>1, <1>7, <2>1, <3>1 DEF Fits
  <2>3. size = f
    BY <1>1, <2>2
  <2>4. CASE f > octets
    BY <1>3, <2>3, <2>4 DEF Inserted, f
  <2>5. CASE ~(f > octets)
    <3>1. f <= octets
      BY <1>1, <1>2, <2>5
    <3>2. kept = Evicted(table, octets - f)
      BY <1>4, <1>7, <2>3, <3>1
    <3>3. table' = <<h>> \o Evicted(table, octets - f)
      BY <1>3, <2>3, <2>5, <3>2
    <3>4. Inserted(table, h, octets) = <<h>> \o Evicted(table, octets - f)
      BY <2>5 DEF Inserted, f
    <3> QED
      BY <3>3, <3>4
  <2> QED
    BY <2>4, <2>5
<1> QED
  BY <1>6, <1>7 DEF f

LEMMA InitI == Init => IInv
<1> SUFFICES ASSUME Init PROVE IInv
  OBVIOUS
<1>1. <<>> \in Seq(Field) /\ Len(<<>>) = 0 /\ 1..0 = {}
  OBVIOUS
<1>2. TypeOK
  <2>1. TableSize \in Nat /\ Unsigned(TableSize) = TableSize
    BY HpackAssumption, Narrowing DEF Fits
  <2>2. octets \in {Unsigned(size) : size \in Sizes \cup {TableSize}}
    BY <2>1 DEF Init
  <2> QED
    BY <1>1, <2>2 DEF Init, TypeOK
<1>3. HpackSize(<<>>) = 0
  <2>1. Size(<<>>, Len(<<>>)) = HpackSize(<<>>) /\ Size(<<>>, 0) = 0
    BY <1>1, SizeGrows
  <2> QED
    BY <1>1, <2>1
<1>4. HpackSize(table) <= octets
  BY <1>2, <1>3, Typed DEF Init
<1>5. Together
  <2>1. Begins(<<>>, <<>>)
    BY <1>1 DEF Begins, Agree
  <2>2. peerSize <= octets
    BY <1>2, Typed DEF Init
  <2> QED
    BY <1>4, <2>1, <2>2 DEF Init, Together
<1>6. DecodedAsMeant
  BY DEF Init, DecodedAsMeant
<1> QED
  BY <1>2, <1>5, <1>6 DEF IInv

LEMMA IndexedI ==
    ASSUME IInv, NEW n \in Index, DecodeIndexed(n)
    PROVE  IInv'
<1> DEFINE u == Unsigned(n)
<1>1. /\ TypeOK /\ HpackSize(table) <= octets /\ failure = "none" /\ Begins(peerTable, table)
      /\ peerSize <= octets
  BY DEF IInv, Together, DecodeIndexed, Sends
<1>2. Received(n, 7) = n /\ n \in Nat /\ u \in Nat /\ (Fits(n) => u = n)
  BY <1>1, IndexReceived, Narrowing
<1>3. /\ meant' = PeerEntry(n) /\ debug' = debug /\ peerTable' = peerTable /\ peerSize' = peerSize
      /\ table' = table /\ octets' = octets /\ narrowed' = ~Fits(n)
      /\ \/ ~InStatic(u) /\ ~InDynamic(u) /\ failure' = "index" /\ got' = NoField
         \/ (InStatic(u) \/ InDynamic(u)) /\ got' = Get(u) /\ failure' = failure
  BY <1>2 DEF DecodeIndexed, Sends, Throw, peer
<1> HIDE DEF u
<1>4. /\ InStatic(u) \/ InDynamic(u) => Get(u) \in Field
      /\ PeerEntry(n) \in Field \cup {NoField}
      /\ PeerEntry(n) # NoField => (InStatic(n) \/ InDynamic(n)) /\ Get(n) = PeerEntry(n)
  BY <1>1, <1>2, EntryFound
<1>5. TypeOK'
  <2>1. narrowed' \in BOOLEAN
    BY <1>3
  <2>2. got' \in Field \cup {NoField} /\ failure' \in {"none", "assert", "index", "resize"}
    BY <1>1, <1>3, <1>4
  <2> QED
    BY <1>1, <1>3, <1>4, <2>1, <2>2 DEF TypeOK, Unsigned
<1>6. DecodedAsMeant'
  <2>1. ASSUME Fits(n), PeerEntry(n) # NoField PROVE got' = PeerEntry(n) /\ failure' = "none"
    BY <1>1, <1>2, <1>3, <1>4, <2>1
  <2> QED
    BY <1>3, <2>1 DEF DecodedAsMeant
<1>7. Together'
  <2>1. HpackSize(table)' <= octets'
    BY <1>1, <1>3
  <2>2. Begins(peerTable, table)' /\ peerSize' <= octets'
    BY <1>1, <1>3 DEF Begins, Agree
  <2> QED
    BY <2>1, <2>2 DEF Together
<1> QED
  BY <1>5, <1>6, <1>7 DEF IInv

LEMMA LiteralI ==
    ASSUME IInv, NEW n \in Index, NEW h \in Field, DecodeLiteral(n, h)
    PROVE  IInv'
<1> DEFINE g == [name |-> LiteralName(n, h.name, 4), value |-> h.value]
           m == Meant(n, h)
<1>1. /\ TypeOK /\ HpackSize(table) <= octets /\ failure = "none" /\ Begins(peerTable, table)
      /\ peerSize <= octets
  BY DEF IInv, Together, DecodeLiteral, Sends
<1>2. /\ ~LiteralThrows(n, 4) => g \in Field
      /\ m \in Field \cup {NoField}
      /\ Fits(n) /\ m # NoField => ~LiteralThrows(n, 4) /\ g = m
  BY <1>1, LiteralFound
<1>3. Received(n, 4) = n
  BY <1>1, IndexReceived
<1>4. /\ meant' = m /\ debug' = debug /\ peerTable' = peerTable /\ peerSize' = peerSize
      /\ table' = table /\ octets' = octets /\ narrowed' = ~Fits(n)
      /\ \/ LiteralThrows(n, 4) /\ failure' = "index" /\ got' = NoField
         \/ ~LiteralThrows(n, 4) /\ got' = g /\ failure' = failure
  BY <1>3 DEF DecodeLiteral, Sends, Throw, peer
<1> HIDE DEF g, m
<1>5. TypeOK'
  <2>1. narrowed' \in BOOLEAN
    BY <1>4
  <2>2. got' \in Field \cup {NoField} /\ failure' \in {"none", "assert", "index", "resize"}
    BY <1>1, <1>2, <1>4
  <2> QED
    BY <1>1, <1>2, <1>4, <2>1, <2>2 DEF TypeOK, Unsigned
<1>6. DecodedAsMeant'
  BY <1>1, <1>2, <1>4 DEF DecodedAsMeant
<1>7. Together'
  <2>1. HpackSize(table)' <= octets'
    BY <1>1, <1>4
  <2>2. Begins(peerTable, table)' /\ peerSize' <= octets'
    BY <1>1, <1>4 DEF Begins, Agree
  <2> QED
    BY <2>1, <2>2 DEF Together
<1> QED
  BY <1>5, <1>6, <1>7 DEF IInv

LEMMA IncrementalI ==
    ASSUME IInv, NEW n \in Index, NEW h \in Field, DecodeLiteralIncremental(n, h)
    PROVE  IInv'
<1> DEFINE g == [name |-> LiteralName(n, h.name, 6), value |-> h.value]
           m == Meant(n, h)
<1>1. /\ TypeOK /\ HpackSize(table) <= octets /\ failure = "none" /\ Begins(peerTable, table)
      /\ peerSize <= octets
  BY DEF IInv, Together, DecodeLiteralIncremental, Sends
<1>2. /\ ~LiteralThrows(n, 6) => g \in Field
      /\ m \in Field \cup {NoField}
      /\ Fits(n) /\ m # NoField => ~LiteralThrows(n, 6) /\ g = m
  BY <1>1, LiteralFound
<1>3. /\ meant' = m /\ debug' = debug /\ octets' = octets /\ peerSize' = peerSize
      /\ Received(n, 6) = n
  BY <1>1, IndexReceived DEF DecodeLiteralIncremental, Sends, Throw, peer, PeerInserts
<1>4. \/ /\ LiteralThrows(n, 6) /\ failure' = "index" /\ got' = NoField /\ table' = table
         /\ peerTable' = peerTable /\ narrowed' = ~Fits(n)
      \/ /\ ~LiteralThrows(n, 6) /\ m # NoField /\ got' = g /\ failure' = failure
         /\ Insert(got') /\ narrowed' = ~(Fits(n) /\ Fits(HpackSize(table) + FieldSize(got')))
         /\ peerTable' = Evicted(<<m>> \o peerTable, peerSize)
  BY <1>3 DEF DecodeLiteralIncremental, Throw, peer, PeerInserts
<1> HIDE DEF g, m
<1>5. CASE /\ LiteralThrows(n, 6) /\ failure' = "index" /\ got' = NoField /\ table' = table
           /\ peerTable' = peerTable /\ narrowed' = ~Fits(n)
  <2>1. narrowed' \in BOOLEAN
    BY <1>5
  <2>2. TypeOK'
    BY <1>1, <1>2, <1>3, <1>5, <2>1 DEF TypeOK, Unsigned
  <2>3. DecodedAsMeant'
    BY <1>2, <1>3, <1>5 DEF DecodedAsMeant
  <2>4. Together'
    BY <1>1, <1>3, <1>5 DEF Together
  <2> QED
    BY <2>2, <2>3, <2>4 DEF IInv
<1>6. CASE /\ ~LiteralThrows(n, 6) /\ m # NoField /\ got' = g /\ failure' = failure
           /\ Insert(got') /\ narrowed' = ~(Fits(n) /\ Fits(HpackSize(table) + FieldSize(got')))
           /\ peerTable' = Evicted(<<m>> \o peerTable, peerSize)
  <2>1. /\ g \in Field /\ m \in Field /\ got' = g /\ (Fits(n) => g = m)
    BY <1>2, <1>6
  <2>2. /\ table \in Seq(Field) /\ peerTable \in Seq(Field) /\ octets \in Nat /\ peerSize \in Nat
    BY <1>1, Typed
  <2>3. /\ Insert(g) /\ narrowed' = ~(Fits(n) /\ Fits(HpackSize(table) + FieldSize(g)))
    BY <1>6, <2>1
  <2>4. /\ table' \in Seq(Field)
        /\ Fits(HpackSize(table) + FieldSize(g)) => table' = Inserted(table, g, octets)
    BY <1>1, <2>1, <2>3, InsertIs
  <2>5. <<m>> \o peerTable \in Seq(Field)
    BY <2>1, <2>2, SizeInFront
  <2>6. Fitting(peerTable', <<m>> \o peerTable, peerSize) /\ peerTable' \in Seq(Field)
    BY <1>6, <2>2, <2>5, EvictedFits, FittingBegins
  <2>7. narrowed' \in BOOLEAN
    BY <2>3
  <2>8. TypeOK'
    BY <1>1, <1>3, <1>6, <2>1, <2>4, <2>6, <2>7 DEF TypeOK, Unsigned
  <2>9. DecodedAsMeant'
    BY <1>1, <1>3, <1>6, <2>1, <2>3 DEF DecodedAsMeant
  <2>10. ASSUME ~narrowed' PROVE HpackSize(table') <= octets /\ Begins(peerTable', table')
    <3>1. g = m /\ table' = Inserted(table, m, octets)
      BY <2>1, <2>3, <2>4, <2>10
    <3>2. Fitting(table', <<m>> \o table, octets) /\ <<m>> \o table \in Seq(Field)
      BY <2>1, <2>2, <3>1, InsertedFits, SizeInFront
    <3>3. Begins(<<m>> \o peerTable, <<m>> \o table)
      BY <1>1, <2>1, FrontBegins
    <3>4. Begins(peerTable', table')
      <4> DEFINE p == <<m>> \o peerTable
                 t == <<m>> \o table
      <4>1. Begins(p, t) /\ Fitting(peerTable', p, peerSize) /\ Fitting(table', t, octets)
        BY <2>6, <3>2, <3>3
      <4> HIDE DEF p, t
      <4> QED
        BY <1>1, <2>2, <4>1, EvictedTogether
    <3>5. HpackSize(table') <= octets
      BY <3>2 DEF Fitting
    <3> QED
      BY <3>4, <3>5
  <2>11. Together'
    <3>1. ~narrowed' => HpackSize(table)' <= octets'
      BY <1>3, <2>10 DEF HpackSize
    <3>2. ~narrowed' => Begins(peerTable, table)' /\ peerSize' <= octets'
      BY <1>1, <1>3, <2>10 DEF Begins, Agree
    <3> QED
      BY <3>1, <3>2 DEF Together
  <2> QED
    BY <2>8, <2>9, <2>11 DEF IInv
<1> QED
  BY <1>4, <1>5, <1>6

LEMMA ResizeI ==
    ASSUME IInv, NEW size \in Sizes, DynamicTableResize(size)
    PROVE  IInv'
<1> DEFINE u == Unsigned(size)
<1>1. /\ TypeOK /\ HpackSize(table) <= octets /\ failure = "none" /\ Begins(peerTable, table)
      /\ peerSize <= octets
  BY DEF IInv, Together, DynamicTableResize, Sends
<1>2. Received(size, 5) = size /\ size \in Nat /\ u \in Nat /\ (Fits(size) => u = size)
  <2>1. size \in Nat /\ Start + size <= NumberMax /\ Start \in Nat
    BY <1>1, NumbersAssumption, HpackAssumption, Typed
  <2>2. size \in 0..NumberMax
    BY <2>1, MostUnits
  <2> QED
    BY <2>1, <2>2, NumberReceived, Narrowing
<1>3. /\ meant' = NoField /\ got' = NoField /\ debug' = debug /\ narrowed' = ~Fits(size)
      /\ peerTable' = Evicted(peerTable, size) /\ peerSize' = size
  BY <1>2 DEF DynamicTableResize, Sends, PeerResizes, Throw
<1>4. \/ u >= octets /\ octets' = u /\ table' = table /\ failure' = failure
      \/ u < octets /\ table' = Evicted(table, u) /\ octets' = octets /\ failure' = failure
      \/ failure' \in {"assert", "resize"} /\ table' = table /\ octets' = octets
  BY <1>2 DEF DynamicTableResize, Resize, Throw
<1>5. u \in {Unsigned(z) : z \in Sizes \cup {TableSize}}
  OBVIOUS
<1> HIDE DEF u
<1>6. table \in Seq(Field) /\ peerTable \in Seq(Field) /\ octets \in Nat
  BY <1>1, Typed
<1>7. Fitting(Evicted(table, u), table, u) /\ Fitting(peerTable', peerTable, size)
  BY <1>2, <1>3, <1>6, EvictedFits
<1>8. peerTable' \in Seq(Field) /\ Begins(peerTable', peerTable)
  BY <1>6, <1>7, FittingBegins
<1>9. Evicted(table, u) \in Seq(Field) /\ HpackSize(Evicted(table, u)) <= u
  BY <1>6, <1>7, FittingBegins
<1>10. DecodedAsMeant'
  BY <1>3 DEF DecodedAsMeant
<1>11. TypeOK'
  <2>1. table' \in Seq(Field) /\ octets' \in {Unsigned(z) : z \in Sizes \cup {TableSize}}
    BY <1>1, <1>4, <1>5, <1>6, <1>9 DEF TypeOK
  <2>2. narrowed' \in BOOLEAN /\ failure' \in {"none", "assert", "index", "resize"}
    BY <1>1, <1>3, <1>4
  <2> QED
    BY <1>1, <1>3, <1>8, <2>1, <2>2 DEF TypeOK, Unsigned
<1>12. HpackSize(table) \in Nat
  <2>1. Len(table) \in 0..Len(table) /\ Size(table, Len(table)) = HpackSize(table)
    BY <1>6, SizeGrows
  <2> QED
    BY <1>6, <2>1, SizeType
<1>13. CASE narrowed'
  BY <1>10, <1>11, <1>13 DEF IInv, Together
<1>14. CASE ~narrowed'
  <2>1. u = size
    BY <1>2, <1>3, <1>14
  <2>2. CASE u >= octets /\ octets' = u /\ table' = table /\ failure' = failure
    <3>1. HpackSize(table)' <= octets'
      <4>1. HpackSize(table)' = HpackSize(table)
        BY <2>2
      <4> QED
        BY <1>1, <1>2, <1>6, <1>12, <2>2, <4>1
    <3>2. Begins(peerTable', table')
      BY <1>1, <1>8, <2>2, BeginsTrans
    <3>3. peerSize' <= octets'
      BY <1>2, <1>3, <2>1, <2>2
    <3> QED
      BY <1>10, <1>11, <3>1, <3>2, <3>3 DEF IInv, Together
  <2>3. CASE u < octets /\ table' = Evicted(table, u) /\ octets' = octets /\ failure' = failure
    <3>1. HpackSize(table') \in Nat
      <4> DEFINE t == table'
      <4>0. t \in Seq(Field)
        BY <1>9, <2>3
      <4> HIDE DEF t
      <4>1. Len(t) \in 0..Len(t) /\ Size(t, Len(t)) = HpackSize(t)
        BY <4>0, SizeGrows
      <4>2. HpackSize(t) \in Nat
        BY <4>0, <4>1, SizeType
      <4> QED
        BY <4>2 DEF t
    <3>2. HpackSize(table') <= u
      BY <1>9, <2>3
    <3>3. HpackSize(table') <= octets'
      BY <1>2, <1>6, <2>3, <3>1, <3>2
    <3>4. HpackSize(table)' <= octets'
      BY <3>3 DEF HpackSize
    <3>5. Begins(peerTable', table')
      <4>1. size <= size /\ Fitting(table', table, size)
        BY <1>2, <1>7, <2>1, <2>3
      <4> QED
        BY <1>1, <1>2, <1>7, <4>1, EvictedTogether
    <3>6. peerSize' <= octets'
      BY <1>2, <1>3, <1>6, <2>1, <2>3
    <3> QED
      BY <1>10, <1>11, <3>4, <3>5, <3>6 DEF IInv, Together
  <2>4. CASE failure' \in {"assert", "resize"} /\ table' = table /\ octets' = octets
    <3>1. HpackSize(table)' <= octets'
      BY <1>1, <2>4
    <3> QED
      BY <1>10, <1>11, <2>4, <3>1 DEF IInv, Together
  <2> QED
    BY <1>4, <2>2, <2>3, <2>4
<1> QED
  BY <1>13, <1>14

LEMMA NextI == IInv /\ [Next]_vars => IInv'
<1> SUFFICES ASSUME IInv, [Next]_vars PROVE IInv'
  OBVIOUS
<1>1. CASE Next
  BY <1>1, IndexedI, LiteralI, IncrementalI, ResizeI DEF Next
<1>2. CASE UNCHANGED vars
  <2>1. table' = table /\ octets' = octets /\ failure' = failure /\ peerTable' = peerTable
        /\ peerSize' = peerSize /\ got' = got /\ meant' = meant /\ debug' = debug
        /\ narrowed' = narrowed
    BY <1>2 DEF vars
  <2>2. TypeOK' /\ Together' /\ DecodedAsMeant'
    BY <2>1 DEF IInv, TypeOK, Together, DecodedAsMeant
  <2> QED
    BY <2>2 DEF IInv
<1> QED
  BY <1>1, <1>2

\* IInv holds of every reachable state.
LEMMA AlwaysI == Spec => []IInv
BY InitI, NextI, PTL DEF Spec

\* The decoder's table and the peer's hold header fields, the limit of each is one
\* that was announced or the initial one, and a failure is one of the exceptions of
\* header.cpp, whatever sequence of representations arrives.
THEOREM DecoderTypes == Spec => []TypeOK
<1>1. IInv => TypeOK
  BY DEF IInv
<1> QED
  BY <1>1, AlwaysI, PTL

\* Whatever the peer inserts, lets drop and resizes, for any static table, any field
\* lengths and any table sizes, the entries it knows are the newest of
\* DynamicTable::table_ in the same order, and the table stays within size_octets_,
\* although DynamicTable::resize does not note a smaller limit: as long as every size,
\* every index and the sum of the table and a new entry fit the unsigned that get,
\* resize and hpack_size narrow them to.
THEOREM TablesStayTogether == Spec => []TablesAgree
<1>1. IInv => TablesAgree
  <2> SUFFICES ASSUME IInv PROVE TablesAgree
    OBVIOUS
  <2>1. /\ TypeOK
        /\ ~narrowed => HpackSize(table) <= octets
        /\ failure = "none" /\ ~narrowed => Begins(peerTable, table)
    BY DEF IInv, Together
  <2>2. table \in Seq(Field) /\ peerTable \in Seq(Field)
    BY <2>1, Typed
  <2>3. failure = "none" /\ ~narrowed => IsPrefix(peerTable, table)
    BY <2>1, <2>2, BeginsIsPrefix
  <2> QED
    BY <2>1, <2>3 DEF TablesAgree
<1> QED
  BY <1>1, AlwaysI, PTL

\* HeaderDecoder gives each representation the field the peer meant by it, by an
\* index, by a literal with an indexed name or by a whole literal, and throws for no
\* index that means a field to the peer, up to the first number that does not fit an
\* unsigned.
THEOREM FieldsAsMeant == Spec => []DecodedAsMeant
<1>1. IInv => DecodedAsMeant
  BY DEF IInv
<1> QED
  BY <1>1, AlwaysI, PTL

-----------------------------------------------------------------------------
\* The octets of a word.

LEMMA BaseFacts ==
    /\ Half \in Nat /\ Base = 2 * Half /\ Half > 2 /\ Base \in Nat /\ Base > 5
    /\ LastName \in Nat /\ LastName < Half
    /\ Base2 \in Nat \ {0} /\ Base3 \in Nat \ {0} /\ Word \in Nat \ {0} /\ HalfWord \in Nat \ {0}
    /\ Base2 = Base * Base /\ Base3 = Base2 * Base /\ Word = Base3 * Base
    /\ Word = HalfWord + HalfWord /\ HalfWord = Base3 * Half
<1>1. Base \in Nat /\ Base % 2 = 0 /\ LastName \in Nat \ {0} /\ LastName + 1 < Half
  BY OctetAssumption
<1>2. Half \in Nat /\ Base = 2 * Half
  <2>1. 2 \in Nat \ {0}
    OBVIOUS
  <2>2. Base \div 2 \in Nat /\ Base = 2 * (Base \div 2) + (Base % 2)
    BY <1>1, <2>1, DivMod
  <2>3. Base = 2 * (Base \div 2)
    BY <1>1, <2>2
  <2> QED
    BY <2>2, <2>3 DEF Half
<1>3. Half > 2 /\ Base > 5 /\ LastName < Half
  BY <1>1, <1>2
<1>4. Base2 = Base * Base /\ Base2 \in Nat \ {0}
  BY <1>1, <1>3 DEF Base2
<1>5. Base3 = Base2 * Base /\ Base3 \in Nat \ {0}
  BY <1>1, <1>3, <1>4 DEF Base3
<1>6. Word = Base3 * Base /\ Word \in Nat \ {0}
  BY <1>1, <1>3, <1>5 DEF Word
<1>7. HalfWord = Base3 * Half /\ HalfWord \in Nat \ {0}
  BY <1>2, <1>3, <1>5 DEF HalfWord
<1>8. Word = HalfWord + HalfWord
  <2>1. Word = Base3 * (2 * Half)
    BY <1>2, <1>6
  <2> QED
    BY <1>2, <1>5, <1>7, <2>1
<1> QED
  BY <1>1, <1>2, <1>3, <1>4, <1>5, <1>6, <1>7, <1>8

LEMMA OctetType ==
    ASSUME NEW x \in Nat, NEW u \in Nat \ {0}
    PROVE  OctetOf(x, u) \in 0..(Base - 1)
<1>1. Base \in Nat \ {0}
  BY BaseFacts
<1>2. x \div u \in Nat
  BY DivMod
<1> QED
  BY <1>1, <1>2, DivMod DEF OctetOf

\* One more octet: what is above unit u, without and with that octet.
LEMMA OctetStep ==
    ASSUME NEW x \in Nat, NEW u \in Nat \ {0}
    PROVE  x \div u = (x \div (u * Base)) * Base + OctetOf(x, u)
<1> DEFINE q == x \div u
<1>1. Base \in Nat \ {0} /\ q \in Nat
  BY BaseFacts, DivMod
<1>2. x \div (u * Base) = q \div Base
  BY <1>1, DivDiv
<1>3. OctetOf(x, u) = q % Base
  BY DEF OctetOf
<1> HIDE DEF q
<1>4. q \div Base \in Nat /\ q % Base \in 0..(Base - 1) /\ q = Base * (q \div Base) + (q % Base)
  BY <1>1, DivMod
<1>5. q = (q \div Base) * Base + (q % Base)
  BY <1>1, <1>4
<1> QED
  BY <1>2, <1>3, <1>5 DEF q

\* A word is the sum of its octets.
LEMMA Octets4 ==
    ASSUME NEW x \in 0..(Word - 1)
    PROVE  /\ x \in Nat
           /\ \A u \in {1, Base, Base2, Base3} : OctetOf(x, u) \in 0..(Base - 1)
           /\ x = OctetOf(x, Base3) * Base3 + OctetOf(x, Base2) * Base2
                    + OctetOf(x, Base) * Base + OctetOf(x, 1)
<1>1. x \in Nat /\ {1, Base, Base2, Base3} \subseteq Nat \ {0}
  BY BaseFacts
<1>2. \A u \in {1, Base, Base2, Base3} : OctetOf(x, u) \in 0..(Base - 1)
  BY <1>1, OctetType
<1> DEFINE a == OctetOf(x, 1)
           b == OctetOf(x, Base)
           c == OctetOf(x, Base2)
           d == OctetOf(x, Base3)
           x1 == x \div Base
           x2 == x \div Base2
           x3 == x \div Base3
           x4 == x \div Word
<1>3. /\ a \in Nat /\ b \in Nat /\ c \in Nat /\ d \in Nat
      /\ x1 \in Nat /\ x2 \in Nat /\ x3 \in Nat /\ x4 \in Nat
  <2>1. Base \in Nat
    BY BaseFacts
  <2>2. \A u \in {1, Base, Base2, Base3} : OctetOf(x, u) \in Nat
    BY <1>2, <2>1
  <2>3. \A u \in Nat \ {0} : x \div u \in Nat
    BY <1>1, DivMod
  <2>4. {Base, Base2, Base3, Word} \subseteq Nat \ {0}
    BY BaseFacts
  <2> QED
    BY <2>2, <2>3, <2>4
<1>4. x \div 1 = x
  <2>1. 1 \in Nat \ {0} /\ x = 1 * x + 0 /\ 0 \in 0..(1 - 1)
    BY <1>1
  <2> QED
    BY <1>1, <2>1, DivUnique
<1>5. x4 = 0
  <2>1. Word \in Nat \ {0} /\ 0 \in Nat /\ x \in 0..(Word - 1)
    BY BaseFacts
  <2>2. x = Word * 0 + x
    BY <2>1
  <2> QED
    BY <1>1, <2>1, <2>2, DivUnique
<1>6. x = x1 * Base + a
  <2>1. 1 \in Nat \ {0} /\ 1 * Base = Base
    BY BaseFacts
  <2> QED
    BY <1>1, <1>4, <2>1, OctetStep
<1>7. x1 = x2 * Base + b
  <2>1. Base \in Nat \ {0} /\ Base * Base = Base2
    BY BaseFacts
  <2> QED
    BY <1>1, <2>1, OctetStep
<1>8. x2 = x3 * Base + c
  <2>1. Base2 \in Nat \ {0} /\ Base2 * Base = Base3
    BY BaseFacts
  <2> QED
    BY <1>1, <2>1, OctetStep
<1>9. x3 = x4 * Base + d
  <2>1. Base3 \in Nat \ {0} /\ Base3 * Base = Word
    BY BaseFacts
  <2> QED
    BY <1>1, <2>1, OctetStep
<1> HIDE DEF a, b, c, d, x1, x2, x3, x4
<1>10. Base \in Nat /\ Base2 = Base * Base /\ Base3 = Base2 * Base /\ Base2 \in Nat /\ Base3 \in Nat
  BY BaseFacts
<1>11. x3 = d
  BY <1>3, <1>5, <1>9, <1>10
<1>12. x1 = (d * Base + c) * Base + b
  BY <1>7, <1>8, <1>11
<1>13. x1 = d * Base2 + c * Base + b
  BY <1>3, <1>10, <1>12
<1>14. x = (d * Base2 + c * Base + b) * Base + a
  BY <1>6, <1>13
<1>15. x = d * Base3 + c * Base2 + b * Base + a
  BY <1>3, <1>10, <1>14
<1> QED
  BY <1>1, <1>2, <1>15 DEF a, b, c, d

\* Where nothing is sign-extended the octets of a word are put together again.
LEMMA CombinedPlain ==
    ASSUME NEW x \in 0..(Word - 1), Plain(x)
    PROVE  Joined(OctetOf(x, Base3), OctetOf(x, Base2), OctetOf(x, Base), OctetOf(x, 1)) = x
<1> DEFINE a == OctetOf(x, 1)
           b == OctetOf(x, Base)
           c == OctetOf(x, Base2)
           d == OctetOf(x, Base3)
<1>1. ~Negative(a) /\ ~Negative(b) /\ ~Negative(c)
  BY DEF Plain
<1>2. x = d * Base3 + c * Base2 + b * Base + a
  BY Octets4
<1> HIDE DEF a, b, c, d
<1>3. Covered(d, {c, b, a}) = d /\ Covered(c, {b, a}) = c /\ Covered(b, {a}) = b
  BY <1>1 DEF Covered
<1>4. Joined(d, c, b, a) = x
  BY <1>2, <1>3 DEF Joined
<1> QED
  BY <1>4 DEF a, b, c, d

\* The octet above a number of three octets is 0.
LEMMA TopOctet ==
    ASSUME NEW x \in 0..(Base3 - 1)
    PROVE  OctetOf(x, Base3) = 0 /\ x \in 0..(Word - 1) /\ x % Base3 = x
<1>1. Base3 \in Nat \ {0} /\ Base \in Nat \ {0} /\ Word \in Nat /\ Word = Base3 * Base /\ x \in Nat
  BY BaseFacts
<1>2. x % Base3 = x
  BY <1>1, ModSmall
<1>3. x \div Base3 = 0
  <2>1. x = Base3 * 0 + x /\ 0 \in Nat
    BY <1>1
  <2> QED
    BY <1>1, <2>1, DivUnique
<1>4. OctetOf(x, Base3) = 0
  <2>1. 0 \in 0..(Base - 1)
    BY <1>1
  <2>2. 0 % Base = 0
    BY <1>1, <2>1, ModSmall
  <2> QED
    BY <1>3, <2>2 DEF OctetOf
<1>5. Base3 <= Word
  BY <1>1
<1> QED
  BY <1>1, <1>2, <1>4, <1>5

\* The reserved bit and the stream identifier share a word.
LEMMA StreamWord ==
    ASSUME NEW h \in FrameHeader
    PROVE  /\ ReservedAndStreamId(h) \in 0..(Word - 1)
           /\ ReservedAndStreamId(h) \div HalfWord = h.reserved
           /\ ReservedAndStreamId(h) % HalfWord = h.streamId
<1> DEFINE w == ReservedAndStreamId(h)
           r == h.reserved
           s == h.streamId
           m == HalfWord
<1>1. r \in {0, 1} /\ s \in 0..(m - 1) /\ w = r * m + s
  BY DEF FrameHeader, ReservedAndStreamId
<1>2. m \in Nat \ {0} /\ Word = m + m
  BY BaseFacts
<1> HIDE DEF w, r, s, m
<1>3. r \in Nat /\ w \in Nat /\ w = m * r + s
  BY <1>1, <1>2
<1>4. w \div m = r /\ w % m = s
  BY <1>1, <1>2, <1>3, DivUnique
<1>5. w \in 0..(Word - 1)
  BY <1>1, <1>2
<1> QED
  BY <1>4, <1>5 DEF w, r, s, m

\* The header of a frame whose first nine octets are those of h.
LEMMA HeaderRead ==
    ASSUME NEW h \in FrameHeader, NEW s,
           \A i \in 1..9 : s[i] = HeaderWriteTo(h)[i]
    PROVE  LET r == ReadFrameHeader(s) IN
           /\ r.type = h.type /\ r.flags = h.flags
           /\ Plain(h.length) => r.length = h.length
           /\ Plain(ReservedAndStreamId(h)) =>
                 r.streamId = h.streamId /\ r.reserved = h.reserved
<1> DEFINE r == ReadFrameHeader(s)
           l == h.length
           w == ReservedAndStreamId(h)
           word == Joined(s[6], s[7], s[8], s[9])
<1>1. /\ s[1] = OctetOf(l, Base2) /\ s[2] = OctetOf(l, Base) /\ s[3] = OctetOf(l, 1)
      /\ s[4] = h.type /\ s[5] = h.flags
      /\ s[6] = OctetOf(w, Base3) /\ s[7] = OctetOf(w, Base2)
      /\ s[8] = OctetOf(w, Base) /\ s[9] = OctetOf(w, 1)
  <2>1. \A i \in {1, 2, 3, 4, 5, 6, 7, 8, 9} : s[i] = HeaderWriteTo(h)[i]
    OBVIOUS
  <2> QED
    BY <2>1 DEF HeaderWriteTo
<1>2. l \in 0..(Base3 - 1)
  BY DEF FrameHeader
<1>3. /\ r.type = s[4] /\ r.flags = s[5] /\ r.length = Joined(0, s[1], s[2], s[3]) % Base3
      /\ r.reserved = word \div HalfWord /\ r.streamId = word % HalfWord
  BY DEF ReadFrameHeader
<1> HIDE DEF r, l, w
<1>4. ASSUME Plain(l) PROVE r.length = l
  <2>1. OctetOf(l, Base3) = 0 /\ l \in 0..(Word - 1) /\ l % Base3 = l
    BY <1>2, TopOctet
  <2>2. Joined(0, s[1], s[2], s[3]) = l
    BY <1>1, <1>4, <2>1, CombinedPlain
  <2> QED
    BY <1>3, <2>1, <2>2
<1>5. ASSUME Plain(w) PROVE r.streamId = h.streamId /\ r.reserved = h.reserved
  <2>1. w \in 0..(Word - 1) /\ w \div HalfWord = h.reserved /\ w % HalfWord = h.streamId
    BY StreamWord DEF w
  <2>2. word = w
    BY <1>1, <1>5, <2>1, CombinedPlain
  <2> QED
    BY <1>3, <2>1, <2>2
<1> QED
  BY <1>1, <1>3, <1>4, <1>5 DEF r, l, w

LEMMA FramesTyped ==
    ASSUME NEW f \in WireFrames
    PROVE  /\ f.header \in FrameHeader /\ f.payload \in Seq(0..(Base - 1))
           /\ f.payload # <<>> => f.header.length = Len(f.payload)
<1>1. CASE f \in {[header |-> h, payload |-> <<>>] : h \in FrameHeaders}
  <2>1. PICK h \in FrameHeaders : f = [header |-> h, payload |-> <<>>]
    BY <1>1
  <2>2. h \in FrameHeader /\ <<>> \in Seq(0..(Base - 1))
    BY FrameAssumption
  <2> QED
    BY <2>1, <2>2
<1>2. CASE f \in {HeadersFrame(h.streamId, g) : h \in FrameHeaders, g \in Fragments}
  <2>1. PICK h \in FrameHeaders, g \in Fragments : f = HeadersFrame(h.streamId, g)
    BY <1>2
  <2>2. /\ h \in FrameHeader /\ g \in Seq(0..(Base - 1)) /\ Len(g) < Base3
        /\ Base3 \in Nat /\ Base \in Nat /\ Base > 5
    BY FrameAssumption, BaseFacts
  <2>3. h.streamId \in 0..(HalfWord - 1)
    BY <2>2 DEF FrameHeader
  <2>4. Len(g) \in 0..(Base3 - 1) /\ 1 \in 0..(Base - 1) /\ 1 + 4 \in 0..(Base - 1)
    BY <2>2
  <2>5. f.payload = g /\ f.header = [length |-> Len(g), type |-> 1, flags |-> 1 + 4,
                                     reserved |-> 0, streamId |-> h.streamId]
    BY <2>1 DEF HeadersFrame
  <2> QED
    BY <2>2, <2>3, <2>4, <2>5 DEF FrameHeader
<1> QED
  BY <1>1, <1>2 DEF WireFrames

-----------------------------------------------------------------------------
\* Settings.

\* The settings of a SETTINGS frame.
IsEntries(e) == e \in Seq((0..(Base2 - 1)) \X (0..(Word - 1)))

LEMMA EntryTypes ==
    ASSUME NEW e, IsEntries(e), NEW i \in 1..Len(e)
    PROVE  e[i][1] \in 0..(Base2 - 1) /\ e[i][2] \in 0..(Word - 1)
<1>1. e[i] \in (0..(Base2 - 1)) \X (0..(Word - 1))
  BY DEF IsEntries
<1> QED
  BY <1>1

LEMMA SettingsTyped ==
    ASSUME NEW f \in WireSettings
    PROVE  IsEntries(f.entries) /\ f.stray \in 0..5
<1> DEFINE P == (0..(Base2 - 1)) \X (0..(Word - 1))
<1>1. LastName \in Nat /\ LastName < Base2
  <2>1. Base \in Nat /\ Base > 5 /\ LastName < Half /\ Base = 2 * Half /\ Half \in Nat
        /\ Base2 = Base * Base /\ LastName \in Nat
    BY BaseFacts
  <2>2. Base <= Base * Base
    BY <2>1
  <2> QED
    BY <2>1, <2>2
<1>2. Names \subseteq 0..(Base2 - 1) /\ Ids \subseteq 0..(Base2 - 1) /\ Values \subseteq 0..(Word - 1)
  BY <1>1, FrameAssumption, BaseFacts DEF Names
<1>3. CASE f \in {[entries |-> [n \in Names |-> <<n, v[n]>>], stray |-> 0] : v \in [Names -> Values]}
  <2>1. PICK v \in [Names -> Values] :
          f = [entries |-> [n \in Names |-> <<n, v[n]>>], stray |-> 0]
    BY <1>3
  <2>2. \A n \in Names : <<n, v[n]>> \in P
    BY <1>2
  <2> HIDE DEF P
  <2>3. [n \in Names |-> <<n, v[n]>>] \in [1..LastName -> P]
    BY <2>2 DEF Names
  <2>4. [n \in Names |-> <<n, v[n]>>] \in Seq(P)
    BY <1>1, <2>3
  <2>5. f.entries \in Seq(P) /\ f.stray = 0
    BY <2>1, <2>4
  <2> QED
    BY <2>5 DEF IsEntries, P
<1>4. CASE f \in [entries : UNION {[1..n -> Ids \X Values] : n \in 0..MaxEntries}, stray : 0..5]
  <2>1. f.entries \in UNION {[1..n -> Ids \X Values] : n \in 0..MaxEntries} /\ f.stray \in 0..5
    BY <1>4
  <2>2. PICK n \in 0..MaxEntries : f.entries \in [1..n -> Ids \X Values]
    BY <2>1
  <2>3. Ids \X Values \subseteq P
    BY <1>2
  <2> HIDE DEF P
  <2>4. f.entries \in [1..n -> P] /\ n \in Nat
    BY <2>2, <2>3, FrameAssumption
  <2>5. f.entries \in Seq(P)
    BY <2>4
  <2> QED
    BY <2>1, <2>5 DEF IsEntries, P
<1> QED
  BY <1>3, <1>4 DEF WireSettings

\* Octet j of setting i, of the settings e.
LEMMA EntryAt ==
    ASSUME NEW e, IsEntries(e), NEW i \in 1..Len(e), NEW j \in 1..6
    PROVE  /\ 6 * (i - 1) + j \in 1..(6 * Len(e))
           /\ SettingsWriteTo(e)[6 * (i - 1) + j] = Entry(e[i][1], e[i][2])[j]
<1> DEFINE k == 6 * (i - 1) + j
<1>1. Len(e) \in Nat
  BY DEF IsEntries
<1>2. k \in 1..(6 * Len(e)) /\ k - 1 = 6 * (i - 1) + (j - 1)
  BY <1>1
<1> HIDE DEF k
<1>3. (k - 1) \div 6 = i - 1 /\ (k - 1) % 6 = j - 1
  <2>1. 6 \in Nat \ {0} /\ i - 1 \in Nat /\ j - 1 \in 0..(6 - 1) /\ k - 1 \in Nat
    BY <1>1, <1>2
  <2> QED
    BY <1>2, <2>1, DivUnique
<1>4. ((k - 1) \div 6) + 1 = i /\ ((k - 1) % 6) + 1 = j
  BY <1>1, <1>3
<1>5. SettingsWriteTo(e)[k] =
        Entry(e[((k - 1) \div 6) + 1][1], e[((k - 1) \div 6) + 1][2])[((k - 1) % 6) + 1]
  BY <1>2 DEF SettingsWriteTo
<1> QED
  BY <1>2, <1>4, <1>5 DEF k

\* The octets of s are those of the settings e.
Carries(s, e) == \A i \in 1..Len(e), j \in 1..6 :
                    s[6 * (i - 1) + j] = Entry(e[i][1], e[i][2])[j]

\* A number of two octets is their sum.
LEMMA Octets2 ==
    ASSUME NEW x \in 0..(Base2 - 1)
    PROVE  /\ OctetOf(x, 1) \in 0..(Base - 1) /\ OctetOf(x, Base) \in 0..(Base - 1)
           /\ x = OctetOf(x, Base) * Base + OctetOf(x, 1)
<1> DEFINE a == OctetOf(x, 1)
           b == OctetOf(x, Base)
           q == x \div Base
           r == x % Base
<1>1. x \in Nat /\ 1 \in Nat \ {0} /\ Base \in Nat \ {0} /\ Base2 = Base * Base
  BY BaseFacts
<1>2. a \in 0..(Base - 1) /\ b \in 0..(Base - 1)
  BY <1>1, OctetType
<1>3. q \in Nat /\ r \in 0..(Base - 1) /\ x = Base * q + r
  BY <1>1, DivMod
<1>4. a = r
  <2>1. x = 1 * x + 0 /\ 0 \in 0..(1 - 1)
    BY <1>1
  <2>2. x \div 1 = x
    BY <1>1, <2>1, DivUnique
  <2> QED
    BY <2>2 DEF OctetOf
<1>5. b = q % Base
  BY DEF OctetOf
<1> HIDE DEF a, b, q, r
<1>6. x < Base * Base
  BY <1>1
<1>7. q < Base
  <2> SUFFICES ASSUME q >= Base PROVE FALSE
    BY <1>1, <1>3
  <2>1. Base * q >= Base * Base
    BY <1>1, <1>3
  <2> QED
    BY <1>1, <1>3, <1>6, <2>1
<1>8. q % Base = q
  <2>1. q \in 0..(Base - 1)
    BY <1>1, <1>3, <1>7
  <2> QED
    BY <1>1, <2>1, ModSmall
<1>9. x = b * Base + a
  BY <1>1, <1>3, <1>4, <1>5, <1>8
<1> QED
  BY <1>2, <1>9 DEF a, b

\* No number of another setting is read as that of a setting of this server, and
\* each of those is read as it is.
LEMMA IdRead ==
    ASSUME NEW e, IsEntries(e), NEW s, Carries(s, e), NEW i \in 1..Len(e)
    PROVE  /\ e[i][1] \in Names => SettingId(s, 6 * (i - 1)) = e[i][1]
           /\ SettingId(s, 6 * (i - 1)) \in Names => SettingId(s, 6 * (i - 1)) = e[i][1]
<1> DEFINE id == e[i][1]
           at == 6 * (i - 1)
           a == OctetOf(id, 1)
           b == OctetOf(id, Base)
           z == Covered(b, {a}) * Base + a
           top == Covered(0, {0, b, a}) * Base3 + Covered(0, {b, a}) * Base2
<1>1. id \in 0..(Base2 - 1)
  BY EntryTypes
<1>2. s[at + 1] = b /\ s[at + 2] = a
  <2>1. 1 \in 1..6 /\ 2 \in 1..6
    OBVIOUS
  <2>2. s[at + 1] = Entry(id, e[i][2])[1] /\ s[at + 2] = Entry(id, e[i][2])[2]
    BY <2>1 DEF Carries
  <2> QED
    BY <2>2 DEF Entry
<1>3. SettingId(s, at) = Joined(0, 0, b, a) % Base2
  BY <1>2 DEF SettingId
<1> HIDE DEF id
<1>4. Joined(0, 0, b, a) =
        Covered(0, {0, b, a}) * Base3 + Covered(0, {b, a}) * Base2 + Covered(b, {a}) * Base + a
  BY DEF Joined
<1>5. /\ Base \in Nat /\ Base > 5 /\ Base = 2 * Half /\ Half \in Nat /\ Base2 \in Nat \ {0}
      /\ Base2 = Base * Base /\ Base3 = Base2 * Base /\ Base3 \in Nat /\ LastName \in Nat
      /\ LastName < Half
  BY BaseFacts
<1>6. a \in 0..(Base - 1) /\ b \in 0..(Base - 1) /\ id = b * Base + a
  BY <1>1, Octets2
<1> HIDE DEF a, b
<1>7. /\ Covered(b, {a}) \in 0..(Base - 1) /\ Covered(0, {0, b, a}) \in 0..(Base - 1)
      /\ Covered(0, {b, a}) \in 0..(Base - 1)
  BY <1>5, <1>6 DEF Covered
<1>8. Joined(0, 0, b, a) % Base2 = z
  <2> DEFINE c == Covered(b, {a})
             c3 == Covered(0, {0, b, a})
             c2 == Covered(0, {b, a})
             q == c3 * Base + c2
  <2>1. c \in 0..(Base - 1) /\ c3 \in Nat /\ c2 \in Nat
    BY <1>5, <1>7
  <2>2. z = c * Base + a
    OBVIOUS
  <2>3. Joined(0, 0, b, a) = c3 * Base3 + c2 * Base2 + c * Base + a
    BY <1>4
  <2> HIDE DEF c, c3, c2, z
  <2>4. c3 * Base3 + c2 * Base2 = Base2 * q /\ q \in Nat
    BY <1>5, <2>1
  <2>5. c * Base <= (Base - 1) * Base /\ c * Base \in Nat
    BY <1>5, <2>1
  <2>6. z \in 0..(Base2 - 1)
    BY <1>5, <1>6, <2>2, <2>5
  <2> DEFINE x == Joined(0, 0, b, a)
  <2> HIDE DEF q, x
  <2>7. x = Base2 * q + z /\ x \in Nat
    <3>1. x = Base2 * q + (c * Base + a)
      BY <1>5, <1>6, <2>1, <2>3, <2>4, <2>5 DEF x
    <3>2. Base2 * q \in Nat
      BY <1>5, <2>4
    <3> QED
      BY <2>2, <2>6, <3>1, <3>2
  <2>8. x % Base2 = z
    <3>1. /\ Base2 \in Nat \ {0} /\ q \in Nat /\ z \in 0..(Base2 - 1) /\ x \in Nat
          /\ x = Base2 * q + z
      BY <1>5, <2>4, <2>6, <2>7
    <3> QED
      BY <3>1, DivUnique
  <2> QED
    BY <2>8 DEF x
<1>9. SettingId(s, at) = z
  BY <1>3, <1>8
<1>10. CASE ~Negative(a)
  <2>1. Covered(b, {a}) = b
    BY <1>10 DEF Covered
  <2> QED
    BY <1>6, <1>9, <2>1 DEF id
<1>11. CASE Negative(a)
  <2>1. Covered(b, {a}) = Base - 1 /\ a >= Half
    BY <1>11 DEF Covered, Negative
  <2>2. z >= Half
    <3>1. (Base - 1) * Base \in Nat
      BY <1>5
    <3> QED
      BY <1>5, <1>6, <2>1, <3>1
  <2>3. id >= Half
    <3>1. b * Base \in Nat
      BY <1>5, <1>6
    <3> QED
      BY <1>5, <1>6, <2>1, <3>1
  <2>4. z \notin Names /\ id \notin Names
    <3>1. id \in Nat /\ z \in Nat
      BY <1>1, <1>5, <1>6, <1>7
    <3> HIDE DEF z
    <3> QED
      BY <1>5, <2>2, <2>3, <3>1 DEF Names
  <2> QED
    BY <1>9, <2>4 DEF id
<1> QED
  BY <1>10, <1>11

LEMMA ValueRead ==
    ASSUME NEW e, IsEntries(e), NEW s, Carries(s, e), NEW i \in 1..Len(e), Plain(e[i][2])
    PROVE  SettingValue(s, 6 * (i - 1)) = e[i][2]
<1> DEFINE v == e[i][2]
           at == 6 * (i - 1)
<1>1. v \in 0..(Word - 1)
  BY EntryTypes
<1>2. /\ s[at + 3] = OctetOf(v, Base3) /\ s[at + 4] = OctetOf(v, Base2)
      /\ s[at + 5] = OctetOf(v, Base) /\ s[at + 6] = OctetOf(v, 1)
  <2>1. 3 \in 1..6 /\ 4 \in 1..6 /\ 5 \in 1..6 /\ 6 \in 1..6
    OBVIOUS
  <2>2. /\ s[at + 3] = Entry(e[i][1], v)[3] /\ s[at + 4] = Entry(e[i][1], v)[4]
        /\ s[at + 5] = Entry(e[i][1], v)[5] /\ s[at + 6] = Entry(e[i][1], v)[6]
    BY <2>1 DEF Carries
  <2> QED
    BY <2>2 DEF Entry
<1>3. SettingValue(s, at) = Joined(s[at + 3], s[at + 4], s[at + 5], s[at + 6])
  BY DEF SettingValue
<1> HIDE DEF v, at
<1>4. Plain(v)
  BY DEF v
<1>5. SettingValue(s, at) = v
  BY <1>1, <1>2, <1>3, <1>4, CombinedPlain
<1> QED
  BY <1>5 DEF v, at

\* g follows the loop of createFromBuffer up to n settings.
AssignsTo(s, n, g) ==
    g = [i \in 0..n |-> IF i = 0 THEN Defaults ELSE Assign(g[i - 1], s, 6 * (i - 1))]

LEMMA AssignsExist ==
    ASSUME NEW s
    PROVE  \A n \in Nat : \E g : AssignsTo(s, n, g)
<1> DEFINE T == {n \in Nat : \E g : AssignsTo(s, n, g)}
<1>1. 0 \in T
  <2>1. AssignsTo(s, 0, [i \in 0..0 |-> Defaults])
    BY DEF AssignsTo
  <2> QED
    BY <2>1
<1>2. ASSUME NEW n \in Nat, n \in T PROVE n + 1 \in T
  <2>1. PICK g : AssignsTo(s, n, g)
    BY <1>2
  <2>2. \A i \in 0..n : g[i] = IF i = 0 THEN Defaults ELSE Assign(g[i - 1], s, 6 * (i - 1))
    BY <2>1, Zenon DEF AssignsTo
  <2> DEFINE h == [i \in 0..(n + 1) |-> IF i = n + 1 THEN Assign(g[n], s, 6 * n) ELSE g[i]]
  <2>3. \A i \in 0..n : h[i] = g[i]
    OBVIOUS
  <2>4. h[n + 1] = Assign(h[n], s, 6 * n)
    BY <2>3
  <2>5. h = [i \in 0..(n + 1) |-> h[i]]
    OBVIOUS
  <2> HIDE DEF h
  <2>6. \A i \in 0..(n + 1) : h[i] = IF i = 0 THEN Defaults ELSE Assign(h[i - 1], s, 6 * (i - 1))
    <3> TAKE i \in 0..(n + 1)
    <3>1. CASE i = n + 1
      <4>1. i # 0 /\ i - 1 = n
        BY <3>1
      <4> QED
        BY <3>1, <4>1, <2>4
    <3>2. CASE i \in 0..n
      <4>1. i = 0 \/ i - 1 \in 0..n
        BY <3>2
      <4> QED
        BY <3>2, <4>1, <2>2, <2>3
    <3> QED
      BY <3>1, <3>2
  <2>7. h = [i \in 0..(n + 1) |-> IF i = 0 THEN Defaults ELSE Assign(h[i - 1], s, 6 * (i - 1))]
    BY <2>5, <2>6, Zenon
  <2>8. AssignsTo(s, n + 1, h)
    BY <2>7, Zenon DEF AssignsTo
  <2> QED
    BY <2>8
<1> HIDE DEF T
<1>3. \A n \in Nat : n \in T
  BY <1>1, <1>2, Induction
<1> QED
  BY <1>3 DEF T

\* Setting n after the first i entries of e: the value of the last one with its
\* number, else the default.
LastOf(v, s, e, i, n) ==
    /\ (\A j \in 1..i : e[j][1] # n) => v[n] = Defaults[n]
    /\ \A j \in 1..i : e[j][1] = n /\ (\A k \in (j + 1)..i : e[k][1] # n)
                       => v[n] = SettingValue(s, 6 * (j - 1))

LEMMA AssignLast ==
    ASSUME NEW e, IsEntries(e), NEW s, Carries(s, e), NEW i \in Nat, i + 1 <= Len(e),
           NEW v, DOMAIN v = Names, NEW n \in Names, LastOf(v, s, e, i, n)
    PROVE  LastOf(Assign(v, s, 6 * i), s, e, i + 1, n)
<1> DEFINE id == e[i + 1][1]
           at == 6 * i
           w == Assign(v, s, at)
<1>1. i + 1 \in 1..Len(e) /\ (i + 1) - 1 = i
  BY DEF IsEntries
<1>2. /\ id \in Names => SettingId(s, at) = id
      /\ SettingId(s, at) \in Names => SettingId(s, at) = id
  <2>1. /\ e[i + 1][1] \in Names => SettingId(s, 6 * ((i + 1) - 1)) = e[i + 1][1]
        /\ SettingId(s, 6 * ((i + 1) - 1)) \in Names => SettingId(s, 6 * ((i + 1) - 1)) = e[i + 1][1]
    BY <1>1, IdRead
  <2> QED
    BY <1>1, <2>1
<1> HIDE DEF id
<1>3. w[n] = IF id = n THEN SettingValue(s, at) ELSE v[n]
  BY <1>2 DEF Assign
<1> HIDE DEF w
<1>4. ASSUME \A j \in 1..(i + 1) : e[j][1] # n PROVE w[n] = Defaults[n]
  <2>1. i + 1 \in 1..(i + 1) /\ 1..i \subseteq 1..(i + 1)
    OBVIOUS
  <2>2. id # n
    BY <1>4, <2>1 DEF id
  <2>3. \A j \in 1..i : e[j][1] # n
    BY <1>4, <2>1
  <2> QED
    BY <1>3, <2>2, <2>3 DEF LastOf
<1>5. ASSUME NEW j \in 1..(i + 1), e[j][1] = n, \A k \in (j + 1)..(i + 1) : e[k][1] # n
      PROVE  w[n] = SettingValue(s, 6 * (j - 1))
  <2>1. CASE j = i + 1
    <3>1. id = n /\ 6 * (j - 1) = at
      BY <1>5, <2>1 DEF id
    <3> QED
      BY <1>3, <3>1
  <2>2. CASE j # i + 1
    <3>1. j \in 1..i /\ i + 1 \in (j + 1)..(i + 1) /\ (j + 1)..i \subseteq (j + 1)..(i + 1)
      BY <2>2
    <3>2. id # n
      BY <1>5, <3>1 DEF id
    <3>3. \A k \in (j + 1)..i : e[k][1] # n
      BY <1>5, <3>1
    <3>4. v[n] = SettingValue(s, 6 * (j - 1))
      BY <1>5, <3>1, <3>3 DEF LastOf
    <3> QED
      BY <1>3, <3>2, <3>4
  <2> QED
    BY <2>1, <2>2
<1> QED
  BY <1>4, <1>5 DEF LastOf, w

LEMMA AllAssigned ==
    ASSUME NEW e, IsEntries(e), NEW s, Carries(s, e), s \in Seq(Nat), Len(s) = 6 * Len(e),
           NEW n \in Names
    PROVE  LastOf(CreateFromBuffer(s), s, e, Len(e), n)
<1> DEFINE m == Len(e)
<1>1. m \in Nat
  BY DEF IsEntries
<1> HIDE DEF m
<1>2. Len(s) % 6 = 0 /\ Len(s) \div 6 = m
  <2>1. Len(s) = 6 * m + 0 /\ 6 \in Nat \ {0} /\ 0 \in 0..(6 - 1) /\ Len(s) \in Nat
    BY <1>1 DEF m
  <2> QED
    BY <1>1, <2>1, DivUnique
<1>3. CreateFromBuffer(s) = (CHOOSE g : AssignsTo(s, m, g))[m]
  <2>1. CreateFromBuffer(s) = IF Len(s) % 6 # 0 THEN Malformed
                              ELSE (CHOOSE g : AssignsTo(s, Len(s) \div 6, g))[Len(s) \div 6]
    BY Zenon DEF CreateFromBuffer, AssignsTo
  <2> QED
    BY <1>2, <2>1
<1>4. PICK g : AssignsTo(s, m, g) /\ CreateFromBuffer(s) = g[m]
  <2>1. \E g : AssignsTo(s, m, g)
    BY <1>1, AssignsExist
  <2> QED
    BY <1>3, <2>1
<1>5. \A i \in 0..m : g[i] = IF i = 0 THEN Defaults ELSE Assign(g[i - 1], s, 6 * (i - 1))
  BY <1>4, Zenon DEF AssignsTo
<1> DEFINE T == {i \in Nat : i <= m => DOMAIN g[i] = Names /\ LastOf(g[i], s, e, i, n)}
<1>6. 0 \in T
  <2>1. g[0] = Defaults
    BY <1>1, <1>5
  <2>2. DOMAIN Defaults = Names
    BY OctetAssumption
  <2>3. LastOf(Defaults, s, e, 0, n)
    BY DEF LastOf
  <2> QED
    BY <2>1, <2>2, <2>3
<1>7. ASSUME NEW i \in Nat, i \in T PROVE i + 1 \in T
  <2> SUFFICES ASSUME i + 1 <= m
               PROVE  DOMAIN g[i + 1] = Names /\ LastOf(g[i + 1], s, e, i + 1, n)
    OBVIOUS
  <2>1. DOMAIN g[i] = Names /\ LastOf(g[i], s, e, i, n)
    BY <1>1, <1>7
  <2>2. i + 1 \in 0..m /\ i + 1 # 0 /\ (i + 1) - 1 = i
    BY <1>1
  <2>3. g[i + 1] = Assign(g[i], s, 6 * i)
    BY <1>5, <2>2
  <2>4. DOMAIN g[i + 1] = Names
    BY <2>1, <2>3 DEF Assign
  <2>5. LastOf(Assign(g[i], s, 6 * i), s, e, i + 1, n)
    BY <2>1, AssignLast DEF m
  <2> QED
    BY <2>3, <2>4, <2>5
<1> HIDE DEF T
<1>8. m \in T
  BY <1>1, <1>6, <1>7, Induction
<1> QED
  BY <1>1, <1>4, <1>8 DEF T, m

-----------------------------------------------------------------------------
\* Frames and settings on the wire (module FrameWire).

\* The octets of an item.
WireOf(f) == SettingsWriteTo(f.entries) \o [i \in 1..f.stray |-> 0]

FrameInv ==
    /\ item \in [frame : WireFrames] \cup [settings : WireSettings]
    /\ step # "start" => /\ IsFrame => wire = FrameWriteTo(item.frame)
                         /\ IsSettings => wire = WireOf(item.settings)
    /\ HeaderRoundTrip /\ LastSettingWins

LEMMA ItemKinds ==
    ASSUME item \in [frame : WireFrames] \cup [settings : WireSettings]
    PROVE  /\ IsFrame => item.frame \in WireFrames /\ ~IsSettings
           /\ IsSettings => item.settings \in WireSettings /\ ~IsFrame
<1>1. CASE item \in [frame : WireFrames]
  <2>1. DOMAIN item = {"frame"} /\ item.frame \in WireFrames
    BY <1>1
  <2> QED
    BY <2>1 DEF IsFrame, IsSettings
<1>2. CASE item \in [settings : WireSettings]
  <2>1. DOMAIN item = {"settings"} /\ item.settings \in WireSettings
    BY <1>2
  <2> QED
    BY <2>1 DEF IsFrame, IsSettings
<1> QED
  BY <1>1, <1>2

\* The front of a concatenation.
LEMMA FrontOf ==
    ASSUME NEW S, NEW a \in Seq(S), NEW b \in Seq(S)
    PROVE  /\ a \o b \in Seq(S) /\ Len(a \o b) = Len(a) + Len(b) /\ Len(b) \in Nat
           /\ \A i \in 1..Len(a) : (a \o b)[i] = a[i]
<1>1. /\ a \o b \in Seq(S) /\ Len(a \o b) = Len(a) + Len(b)
      /\ \A i \in 1..(Len(a) + Len(b)) :
            (a \o b)[i] = IF i <= Len(a) THEN a[i] ELSE b[i - Len(a)]
  BY ConcatProperties
<1>2. Len(a) \in Nat /\ Len(b) \in Nat
  OBVIOUS
<1>3. \A i \in 1..Len(a) : i \in 1..(Len(a) + Len(b)) /\ i <= Len(a)
  BY <1>2
<1> QED
  BY <1>1, <1>2, <1>3

LEMMA Wider ==
    ASSUME NEW S, NEW T, S \subseteq T, NEW a \in Seq(S)
    PROVE  a \in Seq(T)
<1>1. Len(a) \in Nat /\ a \in [1..Len(a) -> S]
  OBVIOUS
<1>2. a \in [1..Len(a) -> T]
  BY <1>1
<1> DEFINE n == Len(a)
<1> HIDE DEF n
<1>3. n \in Nat /\ a \in [1..n -> T]
  BY <1>1, <1>2 DEF n
<1> QED
  BY <1>3, SeqDef

\* The first nine octets of a frame are its header.
LEMMA FrameOctets ==
    ASSUME NEW f \in WireFrames
    PROVE  /\ \A i \in 1..9 : FrameWriteTo(f)[i] = HeaderWriteTo(f.header)[i]
           /\ Len(FrameWriteTo(f)) - 9 = Len(f.payload)
<1> DEFINE h == HeaderWriteTo(f.header)
           p == f.payload
<1>1. p \in Seq(0..(Base - 1)) /\ FrameWriteTo(f) = h \o p
  BY FramesTyped DEF FrameWriteTo
<1>2. \E S : h \in Seq(S) /\ p \in Seq(S) /\ Len(h) = 9
  <2> DEFINE S == {h[1], h[2], h[3], h[4], h[5], h[6], h[7], h[8], h[9]} \cup (0..(Base - 1))
  <2>1. h \in Seq(S) /\ Len(h) = 9
    BY DEF HeaderWriteTo
  <2>2. p \in Seq(S)
    <3>1. 0..(Base - 1) \subseteq S
      OBVIOUS
    <3> HIDE DEF S, p
    <3> QED
      BY <1>1, <3>1, Wider
  <2> HIDE DEF S
  <2> QED
    BY <2>1, <2>2
<1> HIDE DEF h, p
<1>3. PICK S : h \in Seq(S) /\ p \in Seq(S) /\ Len(h) = 9
  BY <1>2
<1>4. /\ Len(h \o p) = Len(h) + Len(p) /\ Len(p) \in Nat
      /\ \A i \in 1..Len(h) : (h \o p)[i] = h[i]
  BY <1>3, FrontOf
<1>5. Len(h \o p) - 9 = Len(p) /\ \A i \in 1..9 : (h \o p)[i] = h[i]
  BY <1>3, <1>4
<1> QED
  BY <1>1, <1>5 DEF h, p

\* The octets of a SETTINGS frame are those of its settings, and the stray ones.
LEMMA SettingsOctets ==
    ASSUME NEW f \in WireSettings
    PROVE  /\ WireOf(f) \in Seq(Nat) /\ Len(WireOf(f)) = 6 * Len(f.entries) + f.stray
           /\ Carries(WireOf(f), f.entries)
<1> DEFINE e == f.entries
           w == SettingsWriteTo(e)
           z == [i \in 1..f.stray |-> 0]
<1>1. IsEntries(e) /\ f.stray \in 0..5
  BY SettingsTyped
<1>2. Len(e) \in Nat
  BY <1>1 DEF IsEntries
<1> HIDE DEF e
<1>3. \A j \in 1..(6 * Len(e)) : w[j] \in Nat
  <2> SUFFICES ASSUME NEW j \in 1..(6 * Len(e)) PROVE w[j] \in Nat
    OBVIOUS
  <2> DEFINE i == ((j - 1) \div 6) + 1
             k == ((j - 1) % 6) + 1
  <2>1. i \in 1..Len(e) /\ k \in 1..6
    <3> DEFINE a == j - 1
    <3>1. a \in Nat /\ 6 \in Nat \ {0} /\ a < 6 * Len(e)
      BY <1>2
    <3> HIDE DEF a
    <3>2. a \div 6 \in Nat /\ a % 6 \in 0..5 /\ a = 6 * (a \div 6) + (a % 6)
      <4>1. a \div 6 \in Nat /\ a % 6 \in 0..(6 - 1) /\ a = 6 * (a \div 6) + (a % 6)
        BY <3>1, DivMod
      <4> QED
        BY <4>1
    <3>3. (a \div 6) + 1 \in 1..Len(e) /\ (a % 6) + 1 \in 1..6
      BY <1>2, <3>1, <3>2
    <3> QED
      BY <3>3 DEF a
  <2>2. w[j] = Entry(e[i][1], e[i][2])[k]
    BY DEF SettingsWriteTo
  <2> HIDE DEF i, k, w
  <2>3. e[i][1] \in Nat /\ e[i][2] \in Nat
    <3>1. e[i][1] \in 0..(Base2 - 1) /\ e[i][2] \in 0..(Word - 1)
      BY <1>1, <2>1, EntryTypes
    <3> QED
      BY <3>1, BaseFacts
  <2> DEFINE x == e[i][1]
             y == e[i][2]
  <2> HIDE DEF x, y
  <2>4. \A u \in {1, Base, Base2, Base3} : OctetOf(x, u) \in Nat /\ OctetOf(y, u) \in Nat
    <3>1. {1, Base, Base2, Base3} \subseteq Nat \ {0} /\ x \in Nat /\ y \in Nat /\ Base \in Nat
      BY <2>3, BaseFacts DEF x, y
    <3> SUFFICES ASSUME NEW u \in {1, Base, Base2, Base3}
                 PROVE  OctetOf(x, u) \in Nat /\ OctetOf(y, u) \in Nat
      OBVIOUS
    <3>2. OctetOf(x, u) \in 0..(Base - 1) /\ OctetOf(y, u) \in 0..(Base - 1)
      BY <3>1, OctetType
    <3>3. 0..(Base - 1) \subseteq Nat
      BY <3>1
    <3> QED
      BY <3>2, <3>3
  <2>5. k \in {1, 2, 3, 4, 5, 6}
    BY <2>1
  <2>6. Entry(x, y)[k] \in Nat
    BY <2>4, <2>5 DEF Entry
  <2> QED
    BY <2>2, <2>6 DEF x, y
<1>4. w \in Seq(Nat) /\ Len(w) = 6 * Len(e)
  <2>1. w = [j \in 1..(6 * Len(e)) |-> w[j]]
    BY DEF SettingsWriteTo
  <2> HIDE DEF w
  <2>2. w \in [1..(6 * Len(e)) -> Nat]
    BY <1>3, <2>1
  <2>3. 6 * Len(e) \in Nat
    BY <1>2
  <2> DEFINE m == 6 * Len(e)
  <2> HIDE DEF m
  <2>4. w \in [1..m -> Nat] /\ m \in Nat
    BY <2>2, <2>3 DEF m
  <2>5. w \in Seq(Nat) /\ Len(w) = m
    BY <2>4
  <2> QED
    BY <2>5 DEF m
<1>5. z \in Seq(Nat) /\ Len(z) = f.stray
  BY <1>1
<1>6. WireOf(f) = w \o z
  BY DEF WireOf, e
<1>7. \A i \in 1..Len(e), j \in 1..6 :
        /\ 6 * (i - 1) + j \in 1..(6 * Len(e))
        /\ w[6 * (i - 1) + j] = Entry(e[i][1], e[i][2])[j]
  BY <1>1, EntryAt
<1> HIDE DEF w, z
<1>8. /\ w \o z \in Seq(Nat) /\ Len(w \o z) = Len(w) + Len(z)
      /\ \A k \in 1..Len(w) : (w \o z)[k] = w[k]
  BY <1>4, <1>5, FrontOf
<1>9. Carries(w \o z, e)
  BY <1>4, <1>7, <1>8 DEF Carries
<1> QED
  BY <1>4, <1>5, <1>6, <1>8, <1>9 DEF e

\* createFromBuffer on the octets of a SETTINGS frame.
LEMMA SettingsRead ==
    ASSUME NEW f \in WireSettings
    PROVE  LET e == f.entries
               r == CreateFromBuffer(WireOf(f))
           IN  /\ f.stray # 0 => r = Malformed
               /\ f.stray = 0 => \A n \in Names :
                    LET at == {i \in DOMAIN e : e[i][1] = n} IN
                    IF at = {} THEN r[n] = Defaults[n]
                    ELSE Plain(e[Max(at)][2]) => r[n] = e[Max(at)][2]
<1> DEFINE e == f.entries
           s == WireOf(f)
           r == CreateFromBuffer(s)
<1>1. /\ IsEntries(e) /\ f.stray \in 0..5 /\ s \in Seq(Nat) /\ Len(s) = 6 * Len(e) + f.stray
      /\ Carries(s, e)
  BY SettingsTyped, SettingsOctets
<1>2. Len(e) \in Nat /\ DOMAIN e = 1..Len(e)
  BY <1>1 DEF IsEntries
<1> HIDE DEF e, s
<1>3. ASSUME f.stray # 0 PROVE r = Malformed
  <2>1. Len(s) % 6 = f.stray
    <3> DEFINE n == Len(s)
               m == Len(e)
               t == f.stray
    <3>1. n = 6 * m + t /\ t \in 0..(6 - 1) /\ m \in Nat /\ 6 \in Nat \ {0} /\ n \in Nat
      BY <1>1, <1>2
    <3> HIDE DEF n, m, t
    <3>2. n % 6 = t
      BY <3>1, DivUnique
    <3> QED
      BY <3>2 DEF n, t
  <2> QED
    BY <1>3, <2>1 DEF CreateFromBuffer
<1>4. ASSUME f.stray = 0, NEW n \in Names
      PROVE  LET at == {i \in DOMAIN e : e[i][1] = n} IN
             IF at = {} THEN r[n] = Defaults[n]
             ELSE Plain(e[Max(at)][2]) => r[n] = e[Max(at)][2]
  <2> DEFINE at == {i \in DOMAIN e : e[i][1] = n}
  <2>1. Len(s) = 6 * Len(e)
    BY <1>1, <1>2, <1>4
  <2>2. LastOf(r, s, e, Len(e), n)
    BY <1>1, <2>1, AllAssigned
  <2> HIDE DEF r
  <2>3. CASE at = {}
    <3>1. \A j \in 1..Len(e) : e[j][1] # n
      BY <1>2, <2>3
    <3>2. r[n] = Defaults[n]
      BY <2>2, <3>1 DEF LastOf
    <3> QED
      BY <2>3, <3>2
  <2>4. CASE at # {}
    <3> DEFINE m == Max(at)
    <3>1. m \in at /\ \A i \in at : i <= m
      <4>1. at \in SUBSET Nat /\ \A i \in at : i <= Len(e)
        BY <1>2
      <4> HIDE DEF at
      <4> QED
        BY <1>2, <2>4, <4>1, Largest
    <3> HIDE DEF m
    <3>2. m \in 1..Len(e) /\ e[m][1] = n
      BY <1>2, <3>1
    <3>3. \A k \in (m + 1)..Len(e) : e[k][1] # n
      <4> SUFFICES ASSUME NEW k \in (m + 1)..Len(e), e[k][1] = n PROVE FALSE
        OBVIOUS
      <4>1. k \in at /\ ~(k <= m)
        BY <1>2, <3>2
      <4> QED
        BY <3>1, <4>1
    <3>4. r[n] = SettingValue(s, 6 * (m - 1))
      BY <2>2, <3>2, <3>3 DEF LastOf
    <3>5. Plain(e[m][2]) => SettingValue(s, 6 * (m - 1)) = e[m][2]
      BY <1>1, <3>2, ValueRead
    <3> QED
      BY <2>4, <3>4, <3>5 DEF m
  <2> QED
    BY <2>3, <2>4
<1> QED
  BY <1>3, <1>4 DEF r, e, s

LEMMA FrameInitInv == FrameInit => FrameInv
<1> SUFFICES ASSUME FrameInit PROVE FrameInv
  OBVIOUS
<1>1. item \in [frame : WireFrames] \cup [settings : WireSettings] /\ step = "start"
  BY DEF FrameInit
<1>2. HeaderRoundTrip /\ LastSettingWins
  BY <1>1 DEF HeaderRoundTrip, LastSettingWins
<1> QED
  BY <1>1, <1>2 DEF FrameInv

LEMMA FrameStepInv == FrameInv /\ [FrameNext]_frameVars => FrameInv'
<1> SUFFICES ASSUME FrameInv, [FrameNext]_frameVars PROVE FrameInv'
  OBVIOUS
<1>1. item \in [frame : WireFrames] \cup [settings : WireSettings]
  BY DEF FrameInv
<1>2. CASE WriteFrame
  <2>1. /\ IsFrame /\ step' = "written" /\ wire' = FrameWriteTo(item.frame)
        /\ item' = item
    BY <1>2 DEF WriteFrame, Writes
  <2>2. HeaderRoundTrip' /\ LastSettingWins'
    BY <2>1 DEF HeaderRoundTrip, LastSettingWins
  <2>3. ~IsSettings
    BY <1>1, <2>1, ItemKinds
  <2> QED
    BY <1>1, <2>1, <2>2, <2>3 DEF FrameInv, IsSettings
<1>3. CASE WriteSettings
  <2>1. /\ IsSettings /\ step' = "written" /\ wire' = WireOf(item.settings)
        /\ item' = item
    BY <1>3 DEF WriteSettings, Writes, WireOf
  <2>2. HeaderRoundTrip' /\ LastSettingWins'
    BY <2>1 DEF HeaderRoundTrip, LastSettingWins
  <2>3. ~IsFrame
    BY <1>1, <2>1, ItemKinds
  <2> QED
    BY <1>1, <2>1, <2>2, <2>3 DEF FrameInv, IsFrame
<1>4. CASE ReadHeader
  <2>1. /\ IsFrame /\ step = "written" /\ step' = "read" /\ result' = ReadFrameHeader(wire)
        /\ signed' = signed /\ item' = item /\ wire' = wire
    BY <1>4 DEF ReadHeader, Reads
  <2>2. ~IsSettings /\ item.frame \in WireFrames /\ wire = FrameWriteTo(item.frame)
    BY <1>1, <2>1, ItemKinds DEF FrameInv
  <2>3. \A x : Plain(x)' = Plain(x)
    BY <2>1 DEF Plain, Negative
  <2> DEFINE f == item.frame
             h == f.header
  <2>4. h \in FrameHeader /\ (f.payload # <<>> => h.length = Len(f.payload))
    BY <2>2, FramesTyped
  <2>5. Len(wire) - 9 = Len(f.payload) /\ \A i \in 1..9 : wire[i] = HeaderWriteTo(h)[i]
    BY <2>2, FrameOctets
  <2>6. /\ result'.type = h.type /\ result'.flags = h.flags
        /\ Plain(h.length) => result'.length = h.length
        /\ Plain(ReservedAndStreamId(h)) =>
              result'.streamId = h.streamId /\ result'.reserved = h.reserved
    <3> HIDE DEF h
    <3>1. LET r == ReadFrameHeader(wire) IN
          /\ r.type = h.type /\ r.flags = h.flags
          /\ Plain(h.length) => r.length = h.length
          /\ Plain(ReservedAndStreamId(h)) =>
                r.streamId = h.streamId /\ r.reserved = h.reserved
      <4>1. h \in FrameHeader /\ \A i \in 1..9 : wire[i] = HeaderWriteTo(h)[i]
        BY <2>4, <2>5 DEF h
      <4> QED
        BY <4>1, HeaderRead
    <3> QED
      BY <2>1, <3>1
  <2>7. HeaderRoundTrip'
    <3>1. item'.frame = f /\ Len(wire') = Len(wire)
      BY <2>1
    <3>2. f.payload # <<>> /\ Plain(h.length) => result'.length = Len(wire) - 9
      BY <2>4, <2>5, <2>6
    <3>3. /\ Plain(item.frame.header.length)' = Plain(h.length)
          /\ Plain(ReservedAndStreamId(item.frame.header))' = Plain(ReservedAndStreamId(h))
      BY <2>1 DEF Plain, Negative, ReservedAndStreamId
    <3> HIDE DEF f
    <3> QED
      BY <2>6, <3>1, <3>2, <3>3 DEF HeaderRoundTrip
  <2>8. LastSettingWins'
    BY <2>1, <2>2 DEF LastSettingWins, IsSettings
  <2> QED
    BY <1>1, <2>1, <2>2, <2>7, <2>8 DEF FrameInv, IsSettings
<1>5. CASE ReadSettings
  <2>1. /\ IsSettings /\ step = "written" /\ step' = "read" /\ result' = CreateFromBuffer(wire)
        /\ signed' = signed /\ item' = item /\ wire' = wire
    BY <1>5 DEF ReadSettings, Reads
  <2>2. ~IsFrame /\ item.settings \in WireSettings /\ wire = WireOf(item.settings)
    BY <1>1, <2>1, ItemKinds DEF FrameInv
  <2> DEFINE e == item.settings.entries
  <2>3. /\ item.settings.stray # 0 => result' = Malformed
        /\ item.settings.stray = 0 => \A n \in Names :
             LET at == {i \in DOMAIN e : e[i][1] = n} IN
             IF at = {} THEN result'[n] = Defaults[n]
             ELSE Plain(e[Max(at)][2]) => result'[n] = e[Max(at)][2]
    BY <2>1, <2>2, SettingsRead
  <2>4. LastSettingWins'
    BY <2>1, <2>3 DEF LastSettingWins, Plain, Negative
  <2>5. HeaderRoundTrip'
    BY <2>1, <2>2 DEF HeaderRoundTrip, IsFrame
  <2> QED
    BY <1>1, <2>1, <2>2, <2>4, <2>5 DEF FrameInv, IsFrame
<1>6. CASE UNCHANGED frameVars
  <2>1. signed' = signed /\ item' = item /\ step' = step /\ wire' = wire /\ result' = result
    BY <1>6 DEF frameVars
  <2>2. HeaderRoundTrip'
    BY <2>1 DEF FrameInv, HeaderRoundTrip, IsFrame, Plain, Negative
  <2>3. LastSettingWins'
    BY <2>1 DEF FrameInv, LastSettingWins, IsSettings, Plain, Negative
  <2> QED
    BY <1>1, <2>1, <2>2, <2>3 DEF FrameInv, IsFrame, IsSettings
<1> QED
  BY <1>2, <1>3, <1>4, <1>5, <1>6 DEF FrameNext

\* Frame headers, for every size of an octet and in builds with signed and with
\* unsigned char: readFrameHeader returns what FrameHeader::writeTo was given,
\* but for fields with a sign-extended octet.
THEOREM HeadersSurvive == FrameSpec => []HeaderRoundTrip
<1>1. FrameInv => HeaderRoundTrip
  BY DEF FrameInv
<1> QED
  BY <1>1, FrameInitInv, FrameStepInv, PTL DEF FrameSpec

\* SETTINGS frames of any length: createFromBuffer gives each setting the last
\* value the frame has for it, else the default, and takes no other number for a
\* setting's, not even by sign extension.
THEOREM SettingsSurvive == FrameSpec => []LastSettingWins
<1>1. FrameInv => LastSettingWins
  BY DEF FrameInv
<1> QED
  BY <1>1, FrameInitInv, FrameStepInv, PTL DEF FrameSpec
-----------------------------------------------------------------------------
\* The bit reader (module BitReader).

\* Reader r has discarded n bits: octet and next are the bits there, and eos, once
\* the end has been seen, counts how many are left.
InStep(r, n) ==
    /\ r.buf \in Seq(Octet) /\ r.octet \in Octet /\ r.next \in Octet
    /\ r.nextBits \in 1..HuffBits /\ r.eos \in -1..HuffBits
    /\ r.pos \in 1..(Len(r.buf) + 1)
    /\ r.eos = -1 => HuffBits * (r.pos - 1) = n + HuffBits + r.nextBits
    /\ r.eos # -1 => /\ r.pos = Len(r.buf) + 1 /\ HuffBits * Len(r.buf) <= n + HuffBits
                     /\ r.eos = IF HuffBits * Len(r.buf) > n THEN HuffBits * Len(r.buf) - n ELSE 0
    /\ \A i \in Places : r.octet[i] = InputBit(r.buf, n + i)
    /\ \A i \in Places :
          r.next[i] = IF i < r.nextBits THEN InputBit(r.buf, n + HuffBits + i) ELSE 0

LEMMA OctetBits ==
    ASSUME NEW x \in Octet, NEW i \in Places
    PROVE  x[i] \in {0, 1}
BY DEF Octet

LEMMA Shifts ==
    ASSUME NEW x \in Octet, NEW k \in Nat
    PROVE  Shl(x, k) \in Octet /\ Shr(x, k) \in Octet
<1>1. HuffBits \in Nat \ {0}
  BY BitsAssumption
<1>2. \A i \in Places : /\ i + k < HuffBits => i + k \in Places
                        /\ i >= k => i - k \in Places
  BY <1>1 DEF Places
<1>3. \A i \in Places : Shl(x, k)[i] \in {0, 1} /\ Shr(x, k)[i] \in {0, 1}
  BY <1>2, OctetBits DEF Shl, Shr
<1>4. /\ Shl(x, k) = [i \in Places |-> Shl(x, k)[i]]
      /\ Shr(x, k) = [i \in Places |-> Shr(x, k)[i]]
  BY Zenon DEF Shl, Shr
<1> QED
  BY <1>3, <1>4 DEF Octet

LEMMA Ors ==
    ASSUME NEW x \in Octet, NEW y \in Octet
    PROVE  Or(x, y) \in Octet
<1>1. \A i \in Places : Or(x, y)[i] \in {0, 1}
  BY OctetBits DEF Or
<1>2. Or(x, y) = [i \in Places |-> Or(x, y)[i]]
  BY Zenon DEF Or
<1> QED
  BY <1>1, <1>2 DEF Octet

\* The bits of the next octet of the input, or the ones behind it.
LEMMA LoadedBits ==
    ASSUME NEW r, NEW n \in Int, InStep(r, n)
    PROVE  LET loaded == IF r.pos > Len(r.buf) THEN Ones ELSE r.buf[r.pos]
           IN  /\ loaded \in Octet
               /\ \A j \in Places : loaded[j] = InputBit(r.buf, n + HuffBits + r.nextBits + j)
<1> DEFINE W == HuffBits
           m == n + W + r.nextBits
           size == W * Len(r.buf)
<1>1. W \in Nat \ {0} /\ Len(r.buf) \in Nat /\ r.pos \in Nat \ {0} /\ r.nextBits \in Nat
      /\ r.pos <= Len(r.buf) + 1
  BY BitsAssumption DEF InStep
<1>2. CASE r.pos > Len(r.buf)
  <2>1. size <= m /\ m \in Int /\ size \in Nat
    <3>1. size \in Nat /\ m \in Int
      BY <1>1
    <3>2. r.pos - 1 = Len(r.buf)
      BY <1>1, <1>2
    <3>3. r.eos = -1 => size = m
      BY <3>2 DEF InStep
    <3>4. r.eos # -1 => size <= n + W
      BY DEF InStep
    <3> HIDE DEF size
    <3>5. size <= n + W => size <= m
      BY <1>1, <3>1
    <3> QED
      BY <3>1, <3>3, <3>4, <3>5
  <2> HIDE DEF m, size
  <2>2. ASSUME NEW j \in Places PROVE Ones[j] = InputBit(r.buf, m + j)
    <3>1. j \in Nat
      BY <1>1 DEF Places
    <3>2. ~(m + j < 0) /\ ~(m + j < size)
      BY <2>1, <3>1
    <3> QED
      BY <3>2 DEF InputBit, Ones, size
  <2>3. Ones \in Octet
    BY DEF Ones, Octet
  <2> QED
    BY <1>2, <2>2, <2>3 DEF m
<1>3. CASE ~(r.pos > Len(r.buf))
  <2> DEFINE q == r.pos - 1
  <2>1. q \in Nat /\ q + 1 <= Len(r.buf) /\ r.pos \in 1..Len(r.buf) /\ q + 1 = r.pos
    BY <1>1, <1>3
  <2>2. m = W * q
    <3>1. r.eos = -1
      BY <1>1, <1>3 DEF InStep
    <3> QED
      BY <3>1 DEF InStep
  <2>3. r.buf[r.pos] \in Octet
    BY <2>1 DEF InStep
  <2> HIDE DEF m, q
  <2>4. ASSUME NEW j \in Places PROVE r.buf[r.pos][j] = InputBit(r.buf, m + j)
    <3>1. j \in 0..(W - 1) /\ W * q \in Nat
      BY <1>1, <2>1 DEF Places
    <3>2. m + j < size /\ ~(m + j < 0) /\ m + j \in Nat
      <4>1. W * (q + 1) <= size /\ W * (q + 1) = W * q + W
        BY <1>1, <2>1
      <4> DEFINE a == W * q
                 b == W * (q + 1)
      <4>2. b <= size /\ b = a + W /\ a \in Nat /\ m = a /\ size \in Nat
        BY <1>1, <2>2, <3>1, <4>1
      <4> HIDE DEF a, b, size
      <4> QED
        BY <1>1, <3>1, <4>2
    <3>3. (m + j) \div W = q /\ (m + j) % W = j
      <4> DEFINE k == m + j
      <4>1. W \in Nat \ {0} /\ q \in Nat /\ j \in 0..(W - 1) /\ k \in Nat /\ k = W * q + j
        BY <1>1, <2>1, <2>2, <3>1, <3>2
      <4> HIDE DEF k, W
      <4>2. k \div W = q /\ k % W = j
        BY <4>1, DivUnique
      <4> QED
        BY <4>2 DEF k
    <3>4. InputBit(r.buf, m + j) = r.buf[((m + j) \div W) + 1][(m + j) % W]
      BY <3>2 DEF InputBit
    <3> QED
      BY <2>1, <3>3, <3>4
  <2> QED
    BY <1>3, <2>3, <2>4 DEF m
<1> QED
  BY <1>2, <1>3

\* bb_load_next keeps in step.
LEMMA LoadInStep ==
    ASSUME NEW r, NEW n \in Int, InStep(r, n), NEW d \in 1..HuffBits
    PROVE  InStep(LoadNext(r, d), n + d) /\ LoadNext(r, d).buf = r.buf
<1> DEFINE W == HuffBits
           b == r.nextBits
           buf == r.buf
           t == LoadNext(r, d)
           load == b <= d
           atEnd == load /\ r.pos > Len(buf)
           loaded == IF r.pos > Len(buf) THEN Ones ELSE buf[r.pos]
           kept == Or(Shl(r.octet, d), Shr(r.next, W - d))
           size == W * Len(buf)
           In(j) == InputBit(buf, j)
<1>1. /\ W \in Nat \ {0} /\ d \in 1..W /\ b \in 1..W /\ Len(buf) \in Nat /\ size \in Nat
      /\ r.pos \in 1..(Len(buf) + 1) /\ buf \in Seq(Octet) /\ r.octet \in Octet /\ r.next \in Octet
      /\ r.eos \in -1..W
  <2>1. /\ W \in Nat \ {0} /\ r.nextBits \in 1..W /\ Len(r.buf) \in Nat
        /\ r.pos \in 1..(Len(r.buf) + 1) /\ r.buf \in Seq(Octet) /\ r.octet \in Octet
        /\ r.next \in Octet /\ r.eos \in -1..W
    BY BitsAssumption DEF InStep
  <2>2. size \in Nat
    BY <2>1
  <2> QED
    BY <2>1, <2>2
<1>13. W \in Nat /\ d \in Nat /\ b \in Nat /\ 1 <= d /\ d <= W /\ 1 <= b /\ b <= W
  <2> HIDE DEF b
  <2> QED
    BY <1>1
<1>14. \A i : i \in Places <=> i \in Int /\ 0 <= i /\ i < W
  BY <1>13 DEF Places
<1>2. loaded \in Octet /\ \A j \in Places : loaded[j] = In(n + W + b + j)
  BY LoadedBits
<1>3. \A i \in Places : r.octet[i] = In(n + i)
  BY DEF InStep
<1>4. \A i \in Places : r.next[i] = IF i < b THEN In(n + W + i) ELSE 0
  BY DEF InStep
<1>5. /\ r.eos = -1 => W * (r.pos - 1) = n + W + b
      /\ r.eos # -1 => /\ r.pos = Len(buf) + 1 /\ size <= n + W
                       /\ r.eos = IF size > n THEN size - n ELSE 0
  BY DEF InStep
<1>6. /\ t.buf = buf
      /\ load => /\ t.octet = Or(kept, Shr(loaded, W - d + b)) /\ t.next = Shl(loaded, d - b)
                 /\ t.nextBits = W - (d - b)
      /\ ~load => t.octet = kept /\ t.next = Shl(r.next, d) /\ t.nextBits = b - d
      /\ t.pos = IF load /\ ~atEnd THEN r.pos + 1 ELSE r.pos
      /\ LET eos == IF atEnd /\ r.eos = -1 THEN W + b ELSE r.eos
         IN  t.eos = IF eos = -1 THEN -1 ELSE IF d > eos THEN 0 ELSE eos - d
  BY DEF LoadNext, EosAfter
<1> HIDE DEF t, buf, loaded, b, size, In, W
<1>7. t.octet \in Octet /\ t.next \in Octet
  <2>1. W - d \in Nat /\ d \in Nat /\ (load => W - d + b \in Nat /\ d - b \in Nat)
    BY <1>1
  <2>2. Shl(r.octet, d) \in Octet /\ Shr(r.next, W - d) \in Octet /\ Shl(r.next, d) \in Octet
    BY <1>1, <2>1, Shifts
  <2>3. kept \in Octet
    BY <2>2, Ors
  <2>4. CASE load
    <3>1. Shr(loaded, W - d + b) \in Octet /\ Shl(loaded, d - b) \in Octet
      BY <1>2, <2>1, <2>4, Shifts
    <3> HIDE DEF kept
    <3>2. Or(kept, Shr(loaded, W - d + b)) \in Octet
      BY <2>3, <3>1, Ors
    <3> QED
      BY <1>6, <2>4, <3>1, <3>2
  <2> QED
    BY <1>6, <2>2, <2>3, <2>4
<1>8. t.nextBits \in 1..W
  BY <1>13, <1>6
<1>9. ASSUME NEW i \in Places PROVE t.octet[i] = In(n + d + i)
  <2>1. i \in 0..(W - 1)
    BY <1>13, <1>14
  <2>2. kept[i] = IF Shl(r.octet, d)[i] = 1 THEN 1 ELSE Shr(r.next, W - d)[i]
    BY DEF Or
  <2>3. /\ Shl(r.octet, d)[i] = IF i + d < W THEN r.octet[i + d] ELSE 0
        /\ Shr(r.next, W - d)[i] = IF i >= W - d THEN r.next[i - (W - d)] ELSE 0
    BY DEF Shl, Shr, W
  <2>4. /\ Or(kept, Shr(loaded, W - d + b))[i]
             = IF kept[i] = 1 THEN 1 ELSE Shr(loaded, W - d + b)[i]
        /\ Shr(loaded, W - d + b)[i] = IF i >= W - d + b THEN loaded[i - (W - d + b)] ELSE 0
    BY DEF Or, Shr, W
  <2> HIDE DEF kept
  <2>5. CASE i + d < W
    <3>1. i + d \in Places /\ ~(i >= W - d) /\ ~(i >= W - d + b) /\ n + (i + d) = n + d + i
      BY <1>13, <1>14, <2>1, <2>5
    <3>2. r.octet[i + d] = In(n + d + i) /\ r.octet[i + d] \in {0, 1}
      BY <1>1, <1>3, <3>1, OctetBits
    <3>3. kept[i] = In(n + d + i)
      BY <2>2, <2>3, <2>5, <3>1, <3>2
    <3>4. Or(kept, Shr(loaded, W - d + b))[i] = In(n + d + i)
      BY <2>4, <3>1, <3>2, <3>3
    <3> QED
      BY <1>6, <3>3, <3>4
  <2>6. CASE ~(i + d < W)
    <3> DEFINE j == i - (W - d)
    <3>1. j \in Places /\ i >= W - d /\ n + W + j = n + d + i /\ j \in Nat /\ j < d
      BY <1>13, <1>14, <2>1, <2>6
    <3>2. kept[i] = r.next[j]
      BY <2>2, <2>3, <2>6, <3>1
    <3> HIDE DEF j
    <3>3. r.next[j] = IF j < b THEN In(n + d + i) ELSE 0
      BY <1>4, <3>1
    <3>4. r.next[j] \in {0, 1}
      BY <1>1, <3>1, OctetBits
    <3>5. CASE j < b
      <4>1. ~(i >= W - d + b)
        BY <1>1, <2>1, <3>5 DEF j
      <4>2. kept[i] = In(n + d + i) /\ kept[i] \in {0, 1}
        BY <3>2, <3>3, <3>4, <3>5
      <4>3. Or(kept, Shr(loaded, W - d + b))[i] = In(n + d + i)
        BY <2>4, <4>1, <4>2
      <4> QED
        BY <1>6, <4>2, <4>3
    <3>6. CASE ~(j < b)
      <4> DEFINE k == i - (W - d + b)
      <4>1. k \in Places /\ i >= W - d + b /\ n + W + b + k = n + d + i /\ load
        BY <1>13, <1>14, <2>1, <3>1, <3>6 DEF j
      <4>2. kept[i] = 0
        BY <3>2, <3>3, <3>6
      <4>3. loaded[k] = In(n + d + i)
        BY <1>2, <4>1
      <4>4. Or(kept, Shr(loaded, W - d + b))[i] = In(n + d + i)
        BY <2>4, <4>1, <4>2, <4>3
      <4> QED
        BY <1>6, <4>1, <4>4
    <3> QED
      BY <3>5, <3>6
  <2> QED
    BY <2>5, <2>6
<1>10. ASSUME NEW i \in Places
       PROVE  t.next[i] = IF i < t.nextBits THEN In(n + d + W + i) ELSE 0
  <2>1. i \in 0..(W - 1)
    BY <1>13, <1>14
  <2>2. CASE load
    <3>1. t.next[i] = (IF i + (d - b) < W THEN loaded[i + (d - b)] ELSE 0)
      BY <1>6, <2>2 DEF Shl, W
    <3>2. i < t.nextBits <=> i + (d - b) < W
      BY <1>1, <1>6, <2>1, <2>2
    <3>3. ASSUME i + (d - b) < W PROVE loaded[i + (d - b)] = In(n + d + W + i)
      <4>1. i + (d - b) \in Places /\ n + W + b + (i + (d - b)) = n + d + W + i
        BY <1>13, <1>14, <2>1, <2>2, <3>3
      <4> QED
        BY <1>2, <4>1
    <3> QED
      BY <3>1, <3>2, <3>3
  <2>3. CASE ~load
    <3>1. t.next[i] = (IF i + d < W THEN r.next[i + d] ELSE 0) /\ t.nextBits = b - d
      BY <1>6, <2>3 DEF Shl, W
    <3>2. CASE i + d < W
      <4>1. i + d \in Places /\ (i + d < b <=> i < b - d) /\ n + W + (i + d) = n + d + W + i
        BY <1>13, <1>14, <2>1, <3>2
      <4>2. r.next[i + d] = IF i + d < b THEN In(n + W + (i + d)) ELSE 0
        BY <1>4, <4>1
      <4> QED
        BY <3>1, <3>2, <4>1, <4>2
    <3>3. CASE ~(i + d < W)
      <4>1. ~(i < b - d)
        BY <1>1, <2>1, <3>3
      <4> QED
        BY <3>1, <3>3, <4>1
    <3> QED
      BY <3>2, <3>3
  <2> QED
    BY <2>2, <2>3
<1>11. /\ t.eos \in -1..W /\ t.pos \in 1..(Len(buf) + 1)
       /\ t.eos = -1 => W * (t.pos - 1) = (n + d) + W + t.nextBits
       /\ t.eos # -1 => /\ t.pos = Len(buf) + 1 /\ size <= (n + d) + W
                        /\ t.eos = IF size > n + d THEN size - (n + d) ELSE 0
  <2> DEFINE before == W * (r.pos - 1)
  <2>1. before \in Nat /\ W * ((r.pos + 1) - 1) = before + W
    <3> DEFINE q == r.pos - 1
    <3>1. q \in Nat /\ (r.pos + 1) - 1 = q + 1
      BY <1>1
    <3> HIDE DEF q
    <3>2. W * q \in Nat /\ W * (q + 1) = W * q + W
      BY <1>13, <3>1
    <3> QED
      BY <3>1, <3>2 DEF q
  <2>2. CASE r.eos = -1 /\ ~atEnd
    <3>1. t.eos = -1 /\ before = n + W + b
      BY <1>5, <1>6, <2>2
    <3>2. CASE load
      <4>1. t.pos = r.pos + 1 /\ t.nextBits = W - (d - b) /\ r.pos <= Len(buf)
        BY <1>1, <1>6, <2>2, <3>2
      <4>2. W * (t.pos - 1) = before + W
        BY <2>1, <4>1
      <4> HIDE DEF before
      <4>3. W * (t.pos - 1) = (n + d) + W + t.nextBits
        BY <1>1, <2>1, <3>1, <4>1, <4>2
      <4>4. t.pos \in 1..(Len(buf) + 1) /\ -1 \in -1..W
        BY <1>1, <4>1
      <4> QED
        BY <3>1, <4>3, <4>4
    <3>3. CASE ~load
      <4>1. t.pos = r.pos /\ t.nextBits = b - d
        BY <1>6, <3>3
      <4>2. W * (t.pos - 1) = before
        BY <4>1
      <4> HIDE DEF before
      <4>3. W * (t.pos - 1) = (n + d) + W + t.nextBits
        BY <1>1, <2>1, <3>1, <4>1, <4>2
      <4> QED
        BY <1>1, <3>1, <4>1, <4>3
    <3> QED
      BY <3>2, <3>3
  <2>3. CASE r.eos = -1 /\ atEnd
    <3>1. r.pos - 1 = Len(buf) /\ r.pos = Len(buf) + 1
      BY <1>1, <2>3
    <3>2. size = n + W + b
      BY <1>5, <2>3, <3>1 DEF size
    <3>3. t.pos = r.pos /\ t.eos = W + b - d
      BY <1>1, <1>6, <2>3
    <3> QED
      BY <1>1, <2>3, <3>1, <3>2, <3>3
  <2>4. CASE r.eos # -1
    <3>1. /\ r.pos = Len(buf) + 1 /\ size <= n + W
          /\ r.eos = IF size > n THEN size - n ELSE 0
      BY <1>5, <2>4
    <3>2. t.pos = r.pos /\ t.eos = IF d > r.eos THEN 0 ELSE r.eos - d
      <4>1. ~(load /\ ~atEnd)
        BY <1>1, <3>1
      <4> QED
        BY <1>6, <2>4, <4>1
    <3> QED
      BY <1>1, <2>4, <3>1, <3>2
  <2> QED
    BY <2>2, <2>3, <2>4
<1>12. /\ \A i \in Places : t.octet[i] = InputBit(buf, (n + d) + i)
       /\ \A i \in Places :
             t.next[i] = IF i < t.nextBits THEN InputBit(buf, (n + d) + W + i) ELSE 0
  BY <1>9, <1>10 DEF In, W
<1>15. InStep(t, n + d)
  BY <1>1, <1>6, <1>7, <1>8, <1>11, <1>12 DEF InStep, size, W
<1> QED
  BY <1>6, <1>15 DEF t, buf

LEMMA InitInStep ==
    ASSUME NEW buf \in Seq(Octet)
    PROVE  InStep(ReaderInit(buf), 0) /\ ReaderInit(buf).buf = buf
<1> DEFINE W == HuffBits
           c == Cleared(buf)
           t == LoadNext(c, W)
<1>1. W \in Nat \ {0} /\ Len(buf) \in Nat /\ W \in 1..W
  BY BitsAssumption
<1>2. InStep(c, -2 * W)
  <2>1. /\ c.buf = buf /\ c.octet = Zeros /\ c.next = Zeros /\ c.nextBits = W /\ c.pos = 1
        /\ c.eos = -1
    BY DEF Cleared
  <2> HIDE DEF c
  <2>2. Zeros \in Octet
    BY DEF Zeros, Octet
  <2>3. W * (1 - 1) = -2 * W + W + W
    BY <1>1
  <2>4. ASSUME NEW i \in Places
        PROVE  /\ Zeros[i] = 0 /\ InputBit(buf, -2 * W + i) = 0
               /\ i < W /\ InputBit(buf, -2 * W + W + i) = 0
    <3>1. -2 * W + i < 0 /\ -2 * W + W + i < 0 /\ i < W
      BY <1>1 DEF Places
    <3> QED
      BY <3>1 DEF InputBit, Zeros
  <2>5. W \in 1..W /\ -1 \in -1..W /\ 1 \in 1..(Len(buf) + 1)
    BY <1>1
  <2> QED
    BY <2>1, <2>2, <2>3, <2>4, <2>5 DEF InStep
<1>3. -2 * W \in Int /\ -2 * W + W = -W /\ -W \in Int /\ -W + W = 0 /\ c.buf = buf
  BY <1>1 DEF Cleared
<1> HIDE DEF c
<1>4. InStep(t, -2 * W + W) /\ t.buf = buf
  BY <1>1, <1>2, <1>3, LoadInStep
<1>5. InStep(t, -W)
  BY <1>3, <1>4
<1> HIDE DEF t
<1>6. InStep(LoadNext(t, W), -W + W) /\ LoadNext(t, W).buf = t.buf
  BY <1>1, <1>3, <1>5, LoadInStep
<1>7. ReaderInit(buf) = LoadNext(t, W)
  BY DEF ReaderInit, t, c
<1> QED
  BY <1>3, <1>4, <1>6, <1>7

\* What bb_eos tells.
OnlyOnes(buf, n) ==
    /\ HuffBits * Len(buf) <= n + HuffBits
    /\ \A j \in n..(HuffBits * Len(buf) - 1) : InputBit(buf, j) = 1

LEMMA EosMeaning ==
    ASSUME NEW r, NEW n \in Int, InStep(r, n)
    PROVE  r.eos <= HuffBits /\ (BbEos(r) <=> OnlyOnes(r.buf, n))
<1> DEFINE W == HuffBits
           size == W * Len(r.buf)
<1>1. W \in Nat \ {0} /\ Len(r.buf) \in Nat /\ r.eos \in -1..W
  BY BitsAssumption DEF InStep
<1>2. size \in Nat
  BY <1>1
<1>3. CASE r.eos = -1
  <2> DEFINE before == W * (r.pos - 1)
  <2>1. before = n + W + r.nextBits /\ r.nextBits \in 1..W
    BY <1>3 DEF InStep
  <2>2. before <= size
    <3> DEFINE q == r.pos - 1
    <3>1. q \in Nat /\ q <= Len(r.buf)
      <4>1. r.pos \in 1..(Len(r.buf) + 1)
        BY DEF InStep
      <4> QED
        BY <1>1, <4>1
    <3> HIDE DEF q
    <3>2. W * q <= W * Len(r.buf)
      BY <1>1, <3>1
    <3> QED
      BY <3>2 DEF q
  <2> HIDE DEF before, size
  <2>3. ~(size <= n + W)
    BY <1>1, <1>2, <2>1, <2>2
  <2>4. ~BbEos(r)
    BY <1>3 DEF BbEos
  <2> QED
    BY <1>1, <2>3, <2>4 DEF OnlyOnes, size
<1>4. CASE r.eos # -1
  <2>1. size <= n + W /\ r.eos = IF size > n THEN size - n ELSE 0
    BY <1>4 DEF InStep
  <2>2. \A i \in Places : r.octet[i] = InputBit(r.buf, n + i)
    BY DEF InStep
  <2>3. OnlyOnes(r.buf, n) <=> \A j \in n..(size - 1) : InputBit(r.buf, j) = 1
    BY <2>1 DEF OnlyOnes
  <2> HIDE DEF size
  <2>4. CASE r.eos = 0
    <3>1. \A j \in n..(size - 1) : FALSE
      BY <1>2, <2>1, <2>4
    <3> QED
      BY <1>1, <2>3, <2>4, <3>1 DEF BbEos
  <2>5. CASE r.eos # 0
    <3>1. r.eos \in 1..W /\ r.eos = size - n
      BY <1>1, <1>2, <1>4, <2>1, <2>5
    <3>2. \A i \in Places : Shl(Ones, W - r.eos)[i] = 1 <=> i < r.eos
      <4> SUFFICES ASSUME NEW i \in Places PROVE Shl(Ones, W - r.eos)[i] = 1 <=> i < r.eos
        OBVIOUS
      <4>1. Shl(Ones, W - r.eos)[i] = IF i + (W - r.eos) < W THEN Ones[i + (W - r.eos)] ELSE 0
        BY DEF Shl
      <4>2. i \in 0..(W - 1) /\ (i + (W - r.eos) < W <=> i < r.eos)
        BY <1>1, <3>1 DEF Places
      <4>3. i < r.eos => i + (W - r.eos) \in Places
        BY <1>1, <3>1, <4>2 DEF Places
      <4> QED
        BY <4>1, <4>2, <4>3 DEF Ones
    <3>3. BbEos(r) <=> \A i \in Places : i < r.eos => r.octet[i] = 1
      BY <3>1, <3>2 DEF BbEos
    <3>4. ASSUME \A i \in Places : i < r.eos => r.octet[i] = 1, NEW j \in n..(size - 1)
          PROVE  InputBit(r.buf, j) = 1
      <4>1. j - n \in Places /\ j - n < r.eos /\ n + (j - n) = j
        BY <1>1, <1>2, <3>1 DEF Places
      <4> QED
        BY <2>2, <3>4, <4>1
    <3>5. ASSUME \A j \in n..(size - 1) : InputBit(r.buf, j) = 1, NEW i \in Places, i < r.eos
          PROVE  r.octet[i] = 1
      <4>1. n + i \in n..(size - 1)
        BY <1>1, <1>2, <3>1, <3>5 DEF Places
      <4> QED
        BY <2>2, <3>5, <4>1
    <3> QED
      BY <1>1, <2>3, <3>3, <3>4, <3>5
  <2> QED
    BY <2>4, <2>5
<1> QED
  BY <1>3, <1>4

\* The bit reader, for octets of any size, any input and any discards: it shows the
\* input at the place it has reached, counts at most an octet to the end, and bb_eos
\* is true exactly before padding.
THEOREM ReaderKeepsStep == BitSpec => []ReaderInStep
<1> DEFINE RInv == discarded \in Int /\ InStep(reader, discarded)
<1>1. BitInit => RInv
  <2> SUFFICES ASSUME BitInit PROVE RInv
    OBVIOUS
  <2>1. PICK buf \in Inputs : reader = ReaderInit(buf)
    BY DEF BitInit
  <2>2. buf \in Seq(Octet)
    BY InputAssumption
  <2> QED
    BY <2>1, <2>2, InitInStep DEF BitInit
<1>2. RInv /\ [BitNext]_readerVars => RInv'
  <2> SUFFICES ASSUME RInv, [BitNext]_readerVars PROVE RInv'
    OBVIOUS
  <2>1. CASE BitNext
    <3>1. PICK d \in 1..HuffBits : reader' = LoadNext(reader, d) /\ discarded' = discarded + d
      BY <2>1 DEF BitNext, BbNext
    <3>2. discarded + d \in Int
      BY BitsAssumption
    <3>3. InStep(LoadNext(reader, d), discarded + d)
      BY LoadInStep
    <3> QED
      BY <3>1, <3>2, <3>3
  <2>2. CASE UNCHANGED readerVars
    BY <2>2 DEF readerVars, InStep
  <2> QED
    BY <2>1, <2>2
<1>3. RInv => ReaderInStep
  <2> SUFFICES ASSUME RInv PROVE ReaderInStep
    OBVIOUS
  <2>1. /\ reader.eos <= HuffBits /\ (BbEos(reader) <=> OnlyOnes(reader.buf, discarded))
        /\ \A i \in Places : reader.octet[i] = InputBit(reader.buf, discarded + i)
    BY EosMeaning DEF InStep
  <2> QED
    BY <2>1 DEF ReaderInStep, OnlyOnes
<1> QED
  BY <1>1, <1>2, <1>3, PTL DEF BitSpec

-----------------------------------------------------------------------------
\* The encoder: what a symbol adds to the bits written.

\* Bit i of octet m + 1 behind the octets written so far.
PutBit(st, c, m, i) ==
    LET a == HuffBits * m + i - st.existing
    IN  IF a < 0 THEN st.partial[i] ELSE IF a < Len(c) THEN c[a + 1] ELSE 0
Put(st, c, m) == [i \in Places |-> PutBit(st, c, m, i)]

Coder(st) ==
    /\ st.existing \in 0..HuffBits /\ st.partial \in Octet /\ st.out \in Seq(Octet)
    /\ \A i \in Places : i >= st.existing => st.partial[i] = 0

LEMMA CodeBits ==
    ASSUME NEW c \in Seq({0, 1})
    PROVE  /\ Len(c) \in Nat /\ DOMAIN c = 1..Len(c) /\ \A i \in 1..Len(c) : c[i] \in {0, 1}
OBVIOUS

LEMMA PutType ==
    ASSUME NEW st, Coder(st), NEW c \in Seq({0, 1}), NEW m \in Nat
    PROVE  Put(st, c, m) \in Octet
<1>1. \A i \in Places : PutBit(st, c, m, i) \in {0, 1}
  <2> SUFFICES ASSUME NEW i \in Places PROVE PutBit(st, c, m, i) \in {0, 1}
    OBVIOUS
  <2> DEFINE w == HuffBits * m
             a == w + i - st.existing
  <2>1. HuffBits \in Nat \ {0} /\ Len(c) \in Nat
    BY BitsAssumption
  <2>2. w \in Nat /\ i \in Nat /\ st.existing \in Nat
    BY <2>1 DEF Places, Coder
  <2> HIDE DEF w
  <2>3. a \in Int /\ (a >= 0 /\ a < Len(c) => a + 1 \in 1..Len(c))
    BY <2>1, <2>2
  <2>4. st.partial[i] \in {0, 1}
    BY OctetBits DEF Coder
  <2> HIDE DEF a
  <2>5. (IF a < 0 THEN st.partial[i] ELSE IF a < Len(c) THEN c[a + 1] ELSE 0) \in {0, 1}
    BY <2>1, <2>3, <2>4, CodeBits
  <2> QED
    BY <2>5 DEF PutBit, a, w
<1> QED
  BY <1>1 DEF Put, Octet

LEMMA ShiftIndex ==
    ASSUME NEW l \in Nat, NEW h \in Nat, NEW n \in Int, NEW w \in Nat, NEW x \in Nat,
           NEW i \in Nat, l - h - n = w - x
    PROVE  LET a == w + i - x
               at == l + i + 1 - h - n
           IN  at = a + 1 /\ (at \in 1..l <=> a >= 0 /\ a < l)
OBVIOUS

LEMMA ShiftSign ==
    ASSUME NEW h \in Nat, NEW w \in Nat, NEW x \in Nat, NEW i \in Nat, x <= h
    PROVE  LET a == w + i - x
           IN  /\ w = 0 => (a < 0 <=> ~(i >= x))
               /\ w >= h \/ x = 0 => ~(a < 0)
OBVIOUS

\* An octet of the code, shifted by n, is the octet put there.
LEMMA PutsCode ==
    ASSUME NEW st, Coder(st), NEW c \in Seq({0, 1}), NEW m \in Nat, NEW n \in Int,
           Len(c) - HuffBits - n = HuffBits * m - st.existing
    PROVE  /\ m = 0 => Or(st.partial, CodeOctet(c, n)) = Put(st, c, m)
           /\ m # 0 \/ st.existing = 0 => CodeOctet(c, n) = Put(st, c, m)
<1> DEFINE w == HuffBits * m
<1>1. HuffBits \in Nat \ {0} /\ Len(c) \in Nat /\ DOMAIN c = 1..Len(c)
  BY BitsAssumption
<1>2. /\ w \in Nat /\ st.existing \in Nat /\ st.existing <= HuffBits
      /\ m # 0 => w >= HuffBits
      /\ m = 0 => w = 0
  <2>1. st.existing \in Nat /\ st.existing <= HuffBits
    BY <1>1 DEF Coder
  <2>2. w \in Nat /\ (m # 0 => w >= HuffBits) /\ (m = 0 => w = 0)
    BY <1>1
  <2> QED
    BY <2>1, <2>2
<1>3. Len(c) - HuffBits - n = w - st.existing
  OBVIOUS
<1> HIDE DEF w
<1>4. ASSUME NEW i \in Places
      PROVE  LET a == w + i - st.existing
             IN  CodeOctet(c, n)[i] = IF a >= 0 /\ a < Len(c) THEN c[a + 1] ELSE 0
  <2> DEFINE a == w + i - st.existing
             at == Len(c) + i + 1 - HuffBits - n
  <2>1. i \in Nat
    BY <1>1 DEF Places
  <2>2. at = a + 1 /\ (at \in 1..Len(c) <=> a >= 0 /\ a < Len(c))
    <3> DEFINE l == Len(c)
               x == st.existing
               h == HuffBits
    <3>1. /\ l \in Nat /\ h \in Nat /\ n \in Int /\ w \in Nat /\ x \in Nat /\ i \in Nat
          /\ l - h - n = w - x
      BY <1>1, <1>2, <1>3, <2>1
    <3> HIDE DEF l, x, h
    <3>2. LET y == w + i - x
              z == l + i + 1 - h - n
          IN  z = y + 1 /\ (z \in 1..l <=> y >= 0 /\ y < l)
      BY <3>1, ShiftIndex
    <3> QED
      BY <3>2 DEF l, x, h
  <2>3. CodeOctet(c, n)[i] = IF at \in DOMAIN c THEN c[at] ELSE 0
    BY DEF CodeOctet
  <2> HIDE DEF a, at
  <2>4. CodeOctet(c, n)[i] = IF a >= 0 /\ a < Len(c) THEN c[a + 1] ELSE 0
    BY <1>1, <2>2, <2>3
  <2> QED
    BY <2>4 DEF a
<1>5. ASSUME NEW i \in Places
      PROVE  /\ m = 0 => (IF st.partial[i] = 1 THEN 1 ELSE CodeOctet(c, n)[i]) = PutBit(st, c, m, i)
             /\ m # 0 \/ st.existing = 0 => CodeOctet(c, n)[i] = PutBit(st, c, m, i)
  <2> DEFINE a == w + i - st.existing
             x == CodeOctet(c, n)[i]
  <2>1. i \in Nat /\ i < HuffBits /\ a \in Int
    BY <1>1, <1>2 DEF Places
  <2>2. x = IF a >= 0 /\ a < Len(c) THEN c[a + 1] ELSE 0
    BY <1>4
  <2>3. PutBit(st, c, m, i) = IF a < 0 THEN st.partial[i] ELSE IF a < Len(c) THEN c[a + 1] ELSE 0
    BY DEF PutBit, w
  <2>4. st.partial[i] \in {0, 1} /\ (i >= st.existing => st.partial[i] = 0)
    BY OctetBits DEF Coder
  <2>5. /\ m = 0 => (a < 0 <=> ~(i >= st.existing))
        /\ m # 0 \/ st.existing = 0 => ~(a < 0)
    <3>1. /\ w = 0 => (a < 0 <=> ~(i >= st.existing))
          /\ w >= HuffBits \/ st.existing = 0 => ~(a < 0)
      BY <1>1, <1>2, <2>1, ShiftSign
    <3> HIDE DEF a
    <3> QED
      BY <1>2, <3>1
  <2>6. a < 0 <=> ~(a >= 0)
    BY <2>1
  <2> HIDE DEF a, x
  <2>7. CASE a < 0
    BY <2>2, <2>3, <2>4, <2>5, <2>6, <2>7 DEF x
  <2>8. CASE ~(a < 0)
    <3>1. PutBit(st, c, m, i) = x
      BY <2>2, <2>3, <2>6, <2>8
    <3>2. m = 0 => st.partial[i] = 0
      BY <2>4, <2>5, <2>8
    <3> QED
      BY <3>1, <3>2 DEF x
  <2> QED
    BY <2>7, <2>8
<1>6. ASSUME m = 0 PROVE Or(st.partial, CodeOctet(c, n)) = Put(st, c, m)
  BY <1>5, <1>6 DEF Or, Put
<1>7. ASSUME m # 0 \/ st.existing = 0 PROVE CodeOctet(c, n) = Put(st, c, m)
  <2>1. CodeOctet(c, n) = [i \in Places |-> CodeOctet(c, n)[i]]
    BY Zenon DEF CodeOctet
  <2> QED
    BY <1>5, <1>7, <2>1 DEF Put
<1> QED
  BY <1>6, <1>7

LEMMA BackOf ==
    ASSUME NEW S, NEW a \in Seq(S), NEW b \in Seq(S)
    PROVE  \A i \in 1..Len(b) : (a \o b)[Len(a) + i] = b[i]
<1>1. \A i \in 1..(Len(a) + Len(b)) :
        (a \o b)[i] = IF i <= Len(a) THEN a[i] ELSE b[i - Len(a)]
  BY ConcatProperties
<1>2. Len(a) \in Nat /\ Len(b) \in Nat
  OBVIOUS
<1>3. ASSUME NEW i \in 1..Len(b) PROVE (a \o b)[Len(a) + i] = b[i]
  <2>1. /\ Len(a) + i \in 1..(Len(a) + Len(b)) /\ ~(Len(a) + i <= Len(a))
        /\ (Len(a) + i) - Len(a) = i
    BY <1>2
  <2> QED
    BY <1>1, <2>1
<1> QED
  BY <1>3

LEMMA ThreeParts ==
    ASSUME NEW S, NEW a \in Seq(S), NEW x \in S, NEW f \in Seq(S)
    PROVE  LET t == a \o <<x>> \o f
           IN  /\ t \in Seq(S) /\ Len(t) = Len(a) + 1 + Len(f)
               /\ \A q \in 1..Len(a) : t[q] = a[q]
               /\ t[Len(a) + 1] = x
               /\ \A m \in 1..Len(f) : t[Len(a) + 1 + m] = f[m]
<1> DEFINE y == <<x>>
           b == a \o y
<1>1. y \in Seq(S) /\ Len(y) = 1 /\ y[1] = x /\ Len(a) \in Nat /\ Len(f) \in Nat /\ 1 \in 1..1
  OBVIOUS
<1> HIDE DEF y
<1>2. b \in Seq(S) /\ Len(b) = Len(a) + Len(y) /\ \A q \in 1..Len(a) : b[q] = a[q]
  BY <1>1, FrontOf
<1>3. b[Len(a) + 1] = x
  <2>1. \A i \in 1..Len(y) : b[Len(a) + i] = y[i]
    BY <1>1, BackOf
  <2> QED
    BY <1>1, <2>1
<1>4. Len(b) = Len(a) + 1
  BY <1>1, <1>2
<1> HIDE DEF b
<1>5. /\ b \o f \in Seq(S) /\ Len(b \o f) = Len(b) + Len(f)
      /\ \A q \in 1..Len(b) : (b \o f)[q] = b[q]
  BY <1>2, FrontOf
<1>6. \A m \in 1..Len(f) : (b \o f)[Len(b) + m] = f[m]
  BY <1>2, BackOf
<1>7. (\A q \in 1..Len(a) : q \in 1..Len(b)) /\ Len(a) + 1 \in 1..Len(b)
  BY <1>1, <1>4
<1>8. /\ b \o f \in Seq(S) /\ Len(b \o f) = Len(a) + 1 + Len(f)
      /\ \A q \in 1..Len(a) : (b \o f)[q] = a[q]
      /\ (b \o f)[Len(a) + 1] = x
      /\ \A m \in 1..Len(f) : (b \o f)[Len(a) + 1 + m] = f[m]
  BY <1>2, <1>3, <1>4, <1>5, <1>6, <1>7
<1> QED
  BY <1>8 DEF b, y

\* What EncodeSymbol writes are the octets put, and the last one is kept.
Puts(st, c, t, M) ==
    /\ Len(t.out) = Len(st.out) + M /\ HuffBits * M + t.existing = st.existing + Len(c)
    /\ t.out \in Seq(Octet) /\ t.existing \in 0..HuffBits
    /\ \A q \in 1..Len(st.out) : t.out[q] = st.out[q]
    /\ \A m \in 0..(M - 1) : t.out[Len(st.out) + m + 1] = Put(st, c, m)
    /\ t.partial = Put(st, c, M)

LEMMA PutsSymbol ==
    ASSUME NEW st, Coder(st), NEW c \in Seq({0, 1}), c # <<>>
    PROVE  \E M \in Nat : Puts(st, c, EncodeSymbol(st, c), M)
<1> DEFINE W == HuffBits
           x == st.existing
           n == Len(c)
           t == EncodeSymbol(st, c)
           bits == IF x # 0 THEN x + n - W ELSE n
           full == IF bits = 0 THEN 0 ELSE (bits - 1) \div W
           rest == bits - full * W
           f == [m \in 1..full |-> CodeOctet(c, bits - m * W)]
           first == IF x # 0 THEN <<Or(st.partial, CodeOctet(c, bits))>> ELSE <<>>
<1>1. W \in Nat \ {0} /\ x \in Nat /\ x <= W /\ n \in Nat \ {0} /\ st.out \in Seq(Octet)
  <2>1. x \in 0..W /\ st.out \in Seq(Octet) /\ W \in Nat \ {0}
    BY BitsAssumption DEF Coder
  <2>2. n \in Nat \ {0}
    OBVIOUS
  <2> QED
    BY <2>1, <2>2
<1>2. ASSUME NEW k \in Int, NEW m \in Nat, n - W - k = W * m - x
      PROVE  /\ m = 0 => Or(st.partial, CodeOctet(c, k)) = Put(st, c, m)
             /\ m # 0 \/ x = 0 => CodeOctet(c, k) = Put(st, c, m)
  BY <1>2, PutsCode
<1>3. CASE x # 0 /\ x + n < W
  <2>1. /\ t.existing = x + n /\ t.partial = Or(st.partial, CodeOctet(c, (x + n) - W))
        /\ t.out = st.out
    <3>1. t = StaysPartial(st, c)
      BY <1>3 DEF EncodeSymbol
    <3> HIDE DEF t
    <3>2. t = [existing |-> x + n, partial |-> Or(st.partial, CodeOctet(c, (x + n) - W)),
               out |-> st.out]
      BY <3>1, Zenon DEF StaysPartial
    <3> HIDE DEF x, n
    <3> QED
      BY <3>2
  <2>2. (x + n) - W \in Int /\ n - W - ((x + n) - W) = W * 0 - x /\ 0 \in Nat
    BY <1>1
  <2>3. t.partial = Put(st, c, 0)
    BY <1>2, <2>1, <2>2
  <2>4. Len(st.out) \in Nat
    BY <1>1
  <2> HIDE DEF t
  <2>5. /\ Len(t.out) = Len(st.out) + 0 /\ W * 0 + t.existing = x + n
        /\ t.existing \in 0..W /\ \A m \in 0..(0 - 1) : FALSE
    BY <1>1, <1>3, <2>1, <2>4
  <2>6. Puts(st, c, t, 0)
    BY <1>1, <2>1, <2>3, <2>5 DEF Puts
  <2> QED
    BY <2>6 DEF t
<1>4. CASE ~(x # 0 /\ x + n < W)
  <2>1. bits \in Nat /\ (x # 0 => bits = x + n - W) /\ (x = 0 => bits = n)
    BY <1>1, <1>4
  <2> DEFINE w == W * full
  <2>2. /\ full \in Nat /\ w \in Nat /\ full * W = w /\ rest = bits - w
        /\ rest \in 0..W /\ (rest = 0 => bits = 0 /\ full = 0 /\ w = 0)
    <3> HIDE DEF bits
    <3>1. CASE bits = 0
      BY <1>1, <3>1
    <3>2. CASE bits # 0
      <4> DEFINE y == bits - 1
                 q == y \div W
      <4>1. y \in Nat
        BY <2>1, <3>2
      <4> HIDE DEF y
      <4>2. q \in Nat /\ y % W \in 0..(W - 1) /\ y = W * q + (y % W)
        BY <1>1, <4>1, DivMod
      <4>3. full = q
        BY <3>2 DEF y
      <4> HIDE DEF q
      <4>4. W * q \in Nat /\ q * W = W * q
        BY <1>1, <4>2
      <4> DEFINE v == W * q
      <4>5. v \in Nat /\ v <= y /\ y <= v + (W - 1) /\ rest = bits - v /\ w = v /\ full * W = v
        <5>1. w = v /\ full * W = v
          BY <4>3, <4>4
        <5>2. rest = bits - v
          BY <5>1
        <5> DEFINE r == y % W
        <5>3. v \in Nat /\ r \in 0..(W - 1) /\ y = v + r
          BY <4>2, <4>4
        <5> HIDE DEF v, r, full, w, rest
        <5>4. v <= y /\ y <= v + (W - 1)
          BY <1>1, <4>1, <5>3
        <5> QED
          BY <5>1, <5>2, <5>3, <5>4
      <4> HIDE DEF v, full, w, rest
      <4>6. rest \in 1..W
        BY <1>1, <2>1, <4>1, <4>5 DEF y
      <4> QED
        BY <4>2, <4>3, <4>5, <4>6
    <3> QED
      BY <3>1, <3>2
  <2>3. /\ t.existing = rest /\ t.out = st.out \o first \o f
        /\ t.partial = IF rest = 0 THEN Zeros ELSE CodeOctet(c, rest - W)
    <3>1. t = FillsOctets(st, c, bits, full)
      <4>1. t = FillsOctets(st, c, BitsLeft(st, c), FullOctets(BitsLeft(st, c)))
        BY <1>4 DEF EncodeSymbol
      <4>2. bits = BitsLeft(st, c)
        BY DEF BitsLeft
      <4> HIDE DEF t, bits
      <4>3. full = FullOctets(bits)
        BY DEF FullOctets
      <4> QED
        BY <4>1, <4>2, <4>3
    <3> HIDE DEF t, bits, full
    <3>2. t = [existing |-> rest, partial |-> IF rest = 0 THEN Zeros ELSE CodeOctet(c, rest - W),
               out |-> st.out \o first \o f]
      BY <3>1, Zenon DEF FillsOctets
    <3> HIDE DEF rest, first, f
    <3> QED
      BY <3>2
  <2> DEFINE M == IF x # 0 THEN full + 1 ELSE full
  <2> HIDE DEF t, bits, full, rest
  <2>4. /\ M \in Nat /\ W * M = IF x # 0 THEN w + W ELSE w
    BY <1>1, <2>2
  <2>5. W * M + rest = x + n
    <3> DEFINE z == W * M
    <3>1. z = IF x # 0 THEN w + W ELSE w
      BY <2>4
    <3> HIDE DEF z, w
    <3>2. z + rest = x + n
      BY <1>1, <2>1, <2>2, <3>1
    <3> QED
      BY <3>2 DEF z
  <2>6. t.partial = Put(st, c, M)
    <3>1. CASE rest # 0
      <4>1. rest - W \in Int /\ n - W - (rest - W) = W * M - x
        <5> DEFINE z == W * M
        <5>1. z + rest = x + n /\ z \in Nat
          BY <1>1, <2>4, <2>5
        <5> HIDE DEF z, w
        <5>2. rest - W \in Int /\ n - W - (rest - W) = z - x
          BY <1>1, <2>2, <5>1
        <5> QED
          BY <5>2 DEF z
      <4>2. M # 0 \/ x = 0
        BY <2>2
      <4>3. CodeOctet(c, rest - W) = Put(st, c, M)
        BY <1>2, <2>4, <4>1, <4>2
      <4> QED
        BY <2>3, <3>1, <4>3
    <3>2. CASE rest = 0
      <4>1. ASSUME NEW i \in Places PROVE PutBit(st, c, M, i) = 0
        <5> DEFINE z == W * M
                   a == z + i - x
        <5>1. z + rest = x + n /\ z \in Nat /\ i \in Nat
          BY <1>1, <2>4, <2>5 DEF Places
        <5> HIDE DEF z
        <5>2. ~(a < 0) /\ ~(a < n)
          BY <1>1, <3>2, <5>1
        <5> HIDE DEF a
        <5>3. PutBit(st, c, M, i) = IF a < 0 THEN st.partial[i] ELSE IF a < n THEN c[a + 1] ELSE 0
          BY DEF PutBit, a, z
        <5> QED
          BY <5>2, <5>3
      <4> HIDE DEF M
      <4>2. Zeros = Put(st, c, M)
        BY <4>1 DEF Zeros, Put
      <4> QED
        BY <2>3, <3>2, <4>2
    <3> QED
      BY <3>1, <3>2
  <2>7. ASSUME NEW m \in 1..full
        PROVE  CodeOctet(c, bits - m * W) = Put(st, c, IF x # 0 THEN m ELSE m - 1)
    <3> DEFINE p == IF x # 0 THEN m ELSE m - 1
               z == W * p
               v == m * W
    <3>1. m \in Nat \ {0} /\ p \in Nat /\ (p # 0 \/ x = 0)
      BY <2>2
    <3>2. v \in Nat /\ z = IF x # 0 THEN v ELSE v - W
      BY <1>1, <3>1
    <3> HIDE DEF z, v, w
    <3>3. bits - v \in Int /\ n - W - (bits - v) = z - x
      BY <1>1, <2>1, <3>2
    <3> HIDE DEF p
    <3>4. CodeOctet(c, bits - v) = Put(st, c, p)
      BY <1>2, <3>1, <3>3 DEF z
    <3> QED
      BY <3>4 DEF v, p
  <2>8. f \in Seq(Octet) /\ Len(f) = full
    <3>1. \A m \in 1..full : CodeOctet(c, bits - m * W) \in Octet
      <4> SUFFICES ASSUME NEW m \in 1..full PROVE CodeOctet(c, bits - m * W) \in Octet
        OBVIOUS
      <4>1. (IF x # 0 THEN m ELSE m - 1) \in Nat
        BY <2>2
      <4> QED
        BY <2>7, <4>1, PutType
    <3> QED
      BY <2>2, <3>1
  <2>9. /\ t.out \in Seq(Octet) /\ Len(t.out) = Len(st.out) + M
        /\ \A q \in 1..Len(st.out) : t.out[q] = st.out[q]
        /\ \A m \in 0..(M - 1) : t.out[Len(st.out) + m + 1] = Put(st, c, m)
    <3>1. CASE x # 0
      <4> DEFINE o == Put(st, c, 0)
      <4>1. Or(st.partial, CodeOctet(c, bits)) = o
        <5>1. bits \in Int /\ n - W - bits = W * 0 - x /\ 0 \in Nat
          BY <1>1, <2>1, <3>1
        <5> QED
          BY <1>2, <5>1
      <4>2. o \in Octet
        BY PutType
      <4>3. t.out = st.out \o <<o>> \o f
        BY <2>3, <3>1, <4>1
      <4> HIDE DEF o, f
      <4>4. /\ t.out \in Seq(Octet) /\ Len(t.out) = Len(st.out) + 1 + Len(f)
            /\ \A q \in 1..Len(st.out) : t.out[q] = st.out[q]
            /\ t.out[Len(st.out) + 1] = o
            /\ \A m \in 1..Len(f) : t.out[Len(st.out) + 1 + m] = f[m]
        <5> DEFINE a == st.out
                   u == a \o <<o>> \o f
        <5>1. a \in Seq(Octet) /\ o \in Octet /\ f \in Seq(Octet)
          BY <1>1, <2>8, <4>2
        <5> HIDE DEF a
        <5>2. /\ u \in Seq(Octet) /\ Len(u) = Len(a) + 1 + Len(f)
              /\ \A q \in 1..Len(a) : u[q] = a[q]
              /\ u[Len(a) + 1] = o
              /\ \A m \in 1..Len(f) : u[Len(a) + 1 + m] = f[m]
          BY <5>1, ThreeParts
        <5>3. t.out = u
          BY <4>3 DEF a
        <5> HIDE DEF u
        <5> QED
          BY <5>2, <5>3 DEF a
      <4>5. ASSUME NEW m \in 0..(M - 1) PROVE t.out[Len(st.out) + m + 1] = Put(st, c, m)
        <5>1. CASE m = 0
          <6>1. Len(st.out) + m + 1 = Len(st.out) + 1
            BY <1>1, <5>1
          <6> QED
            BY <4>4, <5>1, <6>1 DEF o
        <5>2. CASE m # 0
          <6>1. m \in 1..full /\ Len(st.out) + m + 1 = Len(st.out) + 1 + m
            BY <1>1, <2>2, <3>1, <5>2
          <6>2. f[m] = Put(st, c, m)
            BY <2>7, <3>1, <6>1 DEF f
          <6> QED
            BY <2>8, <4>4, <6>1, <6>2
        <5> QED
          BY <5>1, <5>2
      <4>6. Len(t.out) = Len(st.out) + M
        <5>1. Len(st.out) \in Nat /\ M = full + 1 /\ Len(f) = full /\ full \in Nat
          BY <1>1, <2>2, <2>8, <3>1
        <5> HIDE DEF M, f
        <5>2. Len(t.out) = Len(st.out) + 1 + Len(f)
          BY <4>4
        <5> DEFINE l == Len(st.out)
                   r == Len(t.out)
        <5>3. r = l + 1 + full /\ l \in Nat /\ full \in Nat
          BY <5>1, <5>2
        <5> HIDE DEF l, r
        <5>4. r = l + (full + 1)
          BY <5>3
        <5> QED
          BY <5>1, <5>4 DEF l, r
      <4> QED
        BY <4>4, <4>5, <4>6
    <3>2. CASE x = 0
      <4>1. t.out = st.out \o f
        <5>1. st.out \o <<>> = st.out
          BY <1>1, ConcatEmptySeq
        <5> QED
          BY <2>3, <3>2, <5>1
      <4> HIDE DEF f
      <4>2. /\ t.out \in Seq(Octet) /\ Len(t.out) = Len(st.out) + Len(f)
            /\ \A q \in 1..Len(st.out) : t.out[q] = st.out[q]
        <5> DEFINE a == st.out
        <5>1. a \in Seq(Octet) /\ f \in Seq(Octet)
          BY <1>1, <2>8
        <5> HIDE DEF a
        <5>2. /\ a \o f \in Seq(Octet) /\ Len(a \o f) = Len(a) + Len(f)
              /\ \A q \in 1..Len(a) : (a \o f)[q] = a[q]
          BY <5>1, FrontOf
        <5> QED
          BY <4>1, <5>2 DEF a
      <4>3. \A m \in 1..Len(f) : t.out[Len(st.out) + m] = f[m]
        BY <1>1, <2>8, <4>1, BackOf
      <4>4. ASSUME NEW m \in 0..(M - 1) PROVE t.out[Len(st.out) + m + 1] = Put(st, c, m)
        <5>1. /\ m + 1 \in 1..full /\ Len(st.out) + m + 1 = Len(st.out) + (m + 1)
              /\ (m + 1) - 1 = m
          <6>1. Len(st.out) \in Nat /\ M = full /\ full \in Nat
            BY <1>1, <2>2, <3>2
          <6> DEFINE l == Len(st.out)
          <6> HIDE DEF M, l
          <6>2. l \in Nat /\ M = full /\ full \in Nat
            BY <6>1 DEF l
          <6>3. m + 1 \in 1..full /\ l + m + 1 = l + (m + 1) /\ (m + 1) - 1 = m
            BY <6>2
          <6> QED
            BY <6>3 DEF l
        <5>2. f[m + 1] = Put(st, c, m)
          BY <2>7, <3>2, <5>1 DEF f
        <5> QED
          BY <2>8, <4>3, <5>1, <5>2
      <4>5. Len(t.out) = Len(st.out) + M
        BY <2>8, <3>2, <4>2
      <4> QED
        BY <4>2, <4>4, <4>5
    <3> QED
      BY <3>1, <3>2
  <2> HIDE DEF M
  <2>10. Puts(st, c, t, M)
    BY <2>2, <2>3, <2>5, <2>6, <2>9 DEF Puts
  <2> QED
    BY <2>4, <2>10 DEF t
<1> QED
  BY <1>3, <1>4

\* Bit j of what has been written and of the partial octet, and where the next code
\* begins.
CoderBit(st, j) ==
    LET q == j \div HuffBits
    IN  IF q < Len(st.out) THEN st.out[q + 1][j % HuffBits] ELSE st.partial[j % HuffBits]
Position(st) == HuffBits * Len(st.out) + st.existing

LEMMA Quotients ==
    ASSUME NEW h \in Nat \ {0}, NEW q \in Nat, NEW i \in Nat, NEW k \in Nat, NEW x \in Nat,
           x <= h, i < h
    PROVE  /\ q < k => h * q + i < h * k
           /\ h * q + i < h * k => q < k
           /\ h * q + i < h * k + x => q <= k
<1>1. ASSUME q < k PROVE h * q + h <= h * k
  <2>1. q + 1 <= k
    BY <1>1
  <2>2. h * (q + 1) <= h * k /\ h * (q + 1) = h * q + h
    BY <2>1
  <2> QED
    BY <2>2
<1>2. ASSUME k < q PROVE h * k + h <= h * q
  <2>1. k + 1 <= q
    BY <1>2
  <2>2. h * (k + 1) <= h * q /\ h * (k + 1) = h * k + h
    BY <2>1
  <2> QED
    BY <2>2
<1> DEFINE a == h * q
           b == h * k
<1>3. a \in Nat /\ b \in Nat /\ (q < k => a + h <= b) /\ (k < q => b + h <= a) /\ (k = q => a = b)
  BY <1>1, <1>2
<1> HIDE DEF a, b
<1>4. /\ q < k => a + i < b
      /\ a + i < b => q < k
      /\ a + i < b + x => q <= k
  BY <1>3
<1> QED
  BY <1>4 DEF a, b

\* The bits of a code follow those written before, which stay as they are.
LEMMA SymbolBits ==
    ASSUME NEW st, Coder(st), NEW c \in Seq({0, 1}), NEW t, NEW M \in Nat, Puts(st, c, t, M)
    PROVE  /\ Coder(t) /\ Position(t) = Position(st) + Len(c)
           /\ \A j \in 0..(Position(t) - 1) :
                 CoderBit(t, j) = IF j < Position(st) THEN CoderBit(st, j)
                                  ELSE c[j - Position(st) + 1]
<1> DEFINE W == HuffBits
           L == Len(st.out)
           x == st.existing
           n == Len(c)
           p == W * L + x
<1>1. /\ W \in Nat \ {0} /\ L \in Nat /\ x \in Nat /\ x <= W /\ n \in Nat
      /\ st.out \in Seq(Octet) /\ st.partial \in Octet
  <2>1. x \in 0..W /\ st.out \in Seq(Octet) /\ st.partial \in Octet /\ W \in Nat \ {0}
    BY BitsAssumption DEF Coder
  <2> QED
    BY <2>1
<1>2. /\ Len(t.out) = L + M /\ W * M + t.existing = x + n
      /\ t.out \in Seq(Octet) /\ t.existing \in 0..W
      /\ \A q \in 1..L : t.out[q] = st.out[q]
      /\ \A m \in 0..(M - 1) : t.out[L + m + 1] = Put(st, c, m)
      /\ t.partial = Put(st, c, M)
  BY DEF Puts
<1>3. t.existing \in Nat /\ t.existing <= W
  BY <1>1, <1>2
<1> HIDE DEF W, L, x, n
<1>4. p \in Nat /\ W * L \in Nat /\ W * M \in Nat /\ W * (L + M) = W * L + W * M
  BY <1>1
<1>5. W * (L + M) + t.existing = p + n
  <2> DEFINE a == W * L
             b == W * M
             e == W * (L + M)
             y == t.existing
  <2>1. a \in Nat /\ b \in Nat /\ e = a + b /\ b + y = x + n /\ y \in Nat
    BY <1>2, <1>3, <1>4
  <2> HIDE DEF a, b, e, y
  <2>2. e + y = (a + x) + n
    BY <1>1, <2>1
  <2> QED
    BY <2>2 DEF a, e, y
<1>6. Position(t) = p + n /\ Position(st) = p
  BY <1>2, <1>5 DEF Position, W, L, x
<1>7. ASSUME NEW i \in Places, i >= t.existing PROVE t.partial[i] = 0
  <2> DEFINE b == W * M
             a == b + i - x
  <2>1. b \in Nat /\ i \in Nat /\ b + t.existing = x + n
    BY <1>1, <1>2, <1>4 DEF Places, W
  <2> HIDE DEF b
  <2>2. ~(a < 0) /\ ~(a < n)
    BY <1>1, <1>3, <1>7, <2>1
  <2> HIDE DEF a
  <2>3. t.partial[i] = IF a < 0 THEN st.partial[i] ELSE IF a < n THEN c[a + 1] ELSE 0
    BY <1>2 DEF Put, PutBit, a, b, W, x, n
  <2> QED
    BY <2>2, <2>3
<1>8. Coder(t)
  <2>1. t.partial \in Octet
    BY <1>2, PutType
  <2> QED
    BY <1>2, <1>7, <2>1 DEF Coder, W
<1>9. ASSUME NEW j \in 0..((p + n) - 1)
      PROVE  CoderBit(t, j) = IF j < p THEN CoderBit(st, j) ELSE c[j - p + 1]
  <2> DEFINE q == j \div W
             i == j % W
  <2>1. j \in Nat /\ j < p + n
    BY <1>1, <1>4, <1>9
  <2>2. q \in Nat /\ i \in 0..(W - 1) /\ j = W * q + i
    BY <1>1, <2>1, DivMod
  <2>3. /\ CoderBit(t, j) = IF q < L + M THEN t.out[q + 1][i] ELSE t.partial[i]
        /\ CoderBit(st, j) = IF q < L THEN st.out[q + 1][i] ELSE st.partial[i]
    BY <1>2 DEF CoderBit, W, L
  <2> HIDE DEF q, i
  <2>4. i \in Nat /\ i < W /\ i \in Places
    BY <1>1, <2>2 DEF Places, W
  <2>5. q <= L + M
    <3>1. W * q + i < W * (L + M) + t.existing
      BY <1>5, <2>1, <2>2
    <3>2. L + M \in Nat
      BY <1>1
    <3> DEFINE k == L + M
               y == t.existing
    <3>3. k \in Nat /\ y \in Nat /\ y <= W /\ W * q + i < W * k + y
      BY <1>3, <3>1, <3>2
    <3> HIDE DEF k, y
    <3>4. q <= k
      BY <1>1, <2>2, <2>4, <3>3, Quotients
    <3> QED
      BY <3>4 DEF k
  <2>6. CASE q < L
    <3>1. j < p
      <4>1. W * q + i < W * L
        BY <1>1, <2>2, <2>4, <2>6, Quotients
      <4> QED
        BY <1>1, <1>4, <2>1, <2>2, <4>1
    <3>2. q + 1 \in 1..L /\ q < L + M
      BY <1>1, <2>2, <2>6
    <3> QED
      BY <1>2, <2>3, <2>6, <3>1, <3>2
  <2>7. CASE ~(q < L)
    <3> DEFINE m == q - L
               a == W * m + i - x
    <3>1. m \in Nat /\ m <= M /\ L + m = q
      BY <1>1, <2>2, <2>5, <2>7
    <3> HIDE DEF m
    <3>2. W * m \in Nat /\ W * q = W * L + W * m
      BY <1>1, <3>1
    <3>3. a \in Int /\ a = j - p
      <4> DEFINE u == W * m
                 v == W * L
      <4>1. u \in Nat /\ v \in Nat /\ W * q = v + u
        BY <1>4, <3>2
      <4> HIDE DEF u, v
      <4>2. u + i - x = j - (v + x)
        BY <1>1, <2>2, <2>4, <4>1
      <4>3. u + i - x \in Int
        BY <1>1, <2>4, <4>1
      <4> QED
        BY <4>2, <4>3 DEF u, v
    <3>4. CoderBit(t, j) = Put(st, c, m)[i]
      <4>1. CASE m = M
        <5>1. ~(q < L + M)
          BY <1>1, <3>1, <4>1
        <5> QED
          BY <1>2, <2>3, <4>1, <5>1
      <4>2. CASE m # M
        <5>1. q < L + M /\ m \in 0..(M - 1) /\ q + 1 = L + m + 1
          BY <1>1, <3>1, <4>2
        <5> QED
          BY <1>2, <2>3, <5>1
      <4> QED
        BY <4>1, <4>2
    <3>5. Put(st, c, m)[i] = IF a < 0 THEN st.partial[i] ELSE IF a < n THEN c[a + 1] ELSE 0
      BY <2>4 DEF Put, PutBit, a, W, x, n
    <3>6. a < 0 <=> j < p
      <4> HIDE DEF a, p
      <4> QED
        BY <1>4, <2>1, <3>3
    <3>7. a < n
      <4> HIDE DEF a, p
      <4> QED
        BY <1>1, <1>4, <2>1, <3>3
    <3> HIDE DEF a, p
    <3> QED
      BY <2>3, <2>7, <3>3, <3>4, <3>5, <3>6, <3>7
  <2> QED
    BY <2>6, <2>7
<1> HIDE DEF p
<1>10. \A j \in 0..((p + n) - 1) :
         CoderBit(t, j) = IF j < p THEN CoderBit(st, j) ELSE c[j - p + 1]
  BY <1>9
<1> QED
  BY <1>6, <1>8, <1>10 DEF n

\* What encode returns: the bits of the codes, then ones.
LEMMA PaddedBits ==
    ASSUME NEW st, Coder(st)
    PROVE  LET body == Encoding(st)
               p == Position(st)
           IN  /\ body \in Seq(Octet) /\ p \in Nat
               /\ p <= HuffBits * Len(body) /\ HuffBits * Len(body) <= p + HuffBits
               /\ \A j \in Nat : InputBit(body, j) = IF j < p THEN CoderBit(st, j) ELSE 1
<1> DEFINE W == HuffBits
           L == Len(st.out)
           x == st.existing
           p == W * L + x
           body == Encoding(st)
           y == Or(st.partial, Padding(x))
<1>1. /\ W \in Nat \ {0} /\ L \in Nat /\ x \in Nat /\ x <= W
      /\ st.out \in Seq(Octet) /\ st.partial \in Octet
      /\ \A i \in Places : i >= x => st.partial[i] = 0
  <2>1. /\ x \in 0..W /\ st.out \in Seq(Octet) /\ st.partial \in Octet /\ W \in Nat \ {0}
        /\ \A i \in Places : i >= x => st.partial[i] = 0
    BY BitsAssumption DEF Coder
  <2> QED
    BY <2>1
<1>2. y \in Octet /\ \A i \in Places : y[i] = IF i < x THEN st.partial[i] ELSE 1
  <2>1. Padding(x) \in Octet
    BY DEF Padding, Octet
  <2>2. ASSUME NEW i \in Places PROVE y[i] = IF i < x THEN st.partial[i] ELSE 1
    <3>1. y[i] = IF st.partial[i] = 1 THEN 1 ELSE IF i < x THEN 0 ELSE 1
      BY DEF Or, Padding
    <3>2. st.partial[i] \in {0, 1}
      BY <1>1, OctetBits
    <3> QED
      BY <3>1, <3>2
  <2> HIDE DEF x
  <2>3. y \in Octet
    BY <1>1, <2>1, Ors
  <2> QED
    BY <2>2, <2>3
<1>3. body = IF x = 0 THEN st.out ELSE Append(st.out, y)
  BY DEF Encoding
<1>4. Position(st) = p
  BY DEF Position
<1> HIDE DEF W, L, x, y, body
<1>5. W * L \in Nat /\ p \in Nat /\ W * (L + 1) = W * L + W
  BY <1>1
<1> DEFINE K == Len(body)
<1>6. /\ body \in Seq(Octet) /\ K = (IF x = 0 THEN L ELSE L + 1) /\ K \in Nat
      /\ \A q \in 1..L : body[q] = st.out[q]
      /\ x # 0 => body[L + 1] = y
  <2>1. CASE x = 0
    BY <1>1, <1>3, <2>1 DEF L
  <2>2. CASE x # 0
    BY <1>1, <1>2, <1>3, <2>2 DEF L
  <2> QED
    BY <2>1, <2>2
<1>7. p <= W * K /\ W * K <= p + W
  <2> DEFINE v == W * L
  <2>1. v \in Nat /\ W * K = (IF x = 0 THEN v ELSE v + W)
    BY <1>5, <1>6
  <2> DEFINE u == W * K
  <2>2. u = IF x = 0 THEN v ELSE v + W
    BY <2>1
  <2> HIDE DEF u, v
  <2>3. v + x <= u /\ u <= (v + x) + W
    BY <1>1, <2>1, <2>2
  <2> QED
    BY <2>3 DEF u, v
<1>8. ASSUME NEW j \in Nat PROVE InputBit(body, j) = IF j < p THEN CoderBit(st, j) ELSE 1
  <2> DEFINE q == j \div W
             i == j % W
  <2>1. q \in Nat /\ i \in 0..(W - 1) /\ j = W * q + i
    BY <1>1, DivMod
  <2>2. InputBit(body, j) = IF j < W * K THEN body[q + 1][i] ELSE 1
    BY DEF InputBit, W
  <2>3. CoderBit(st, j) = IF q < L THEN st.out[q + 1][i] ELSE st.partial[i]
    BY DEF CoderBit, W, L
  <2> HIDE DEF q, i, K
  <2>4. i \in Nat /\ i < W /\ i \in Places
    BY <1>1, <2>1 DEF Places, W
  <2>5. (q < L => j < W * L) /\ (j < W * L => q < L)
    BY <1>1, <2>1, <2>4, Quotients
  <2>6. (q < K => j < W * K) /\ (j < W * K => q < K)
    BY <1>1, <1>6, <2>1, <2>4, Quotients
  <2>7. CASE q < L
    <3>1. q < K /\ q + 1 \in 1..L
      BY <1>1, <1>6, <2>1, <2>7
    <3>2. j < p
      BY <1>1, <1>5, <2>5, <2>7
    <3> QED
      BY <1>6, <2>2, <2>3, <2>6, <2>7, <3>1, <3>2
  <2>8. CASE q = L
    <3>1. j < p <=> i < x
      <4> DEFINE v == W * L
      <4>1. v \in Nat /\ j = v + i
        BY <1>5, <2>1, <2>8
      <4> HIDE DEF v
      <4>2. j < v + x <=> i < x
        BY <1>1, <2>4, <4>1
      <4> QED
        BY <4>2 DEF v
    <3>2. CASE x = 0
      <4>1. ~(q < K) /\ ~(i < x)
        BY <1>1, <1>6, <2>4, <2>8, <3>2
      <4> QED
        BY <2>2, <2>6, <3>1, <4>1
    <3>3. CASE x # 0
      <4>1. q < K /\ q + 1 = L + 1 /\ ~(q < L)
        BY <1>1, <1>6, <2>8, <3>3
      <4>2. y[i] = IF i < x THEN st.partial[i] ELSE 1
        BY <1>2, <2>4
      <4> QED
        BY <1>6, <2>2, <2>3, <2>6, <3>1, <3>3, <4>1, <4>2
    <3> QED
      BY <3>2, <3>3
  <2>9. CASE q > L
    <3>1. ~(q < K)
      BY <1>1, <1>6, <2>1, <2>9
    <3>2. ~(j < W * K)
      BY <2>6, <3>1
    <3>3. ~(j < p)
      <4> DEFINE u == W * K
      <4>1. u \in Nat
        BY <1>1, <1>6
      <4> HIDE DEF u, p
      <4> QED
        BY <1>5, <1>7, <3>2, <4>1 DEF u
    <3> QED
      BY <2>2, <3>2, <3>3
  <2> QED
    BY <1>1, <2>1, <2>7, <2>8, <2>9
<1> QED
  BY <1>4, <1>5, <1>6, <1>7, <1>8 DEF body, W

-----------------------------------------------------------------------------
\* Strings on the wire (module StringWire).

\* g[m] is where the code of symbol m + 1 of s begins, for the first k symbols.
Marks(s, k, g) ==
    /\ g[0] = 0
    /\ \A m \in 0..k : g[m] \in Nat /\ MinBits * m <= g[m] /\ g[m] <= g[k]
    /\ \A m \in 1..k : g[m] = g[m - 1] + Len(Etable[s[m]])

\* encode has coded the first k symbols of s.
Codes(st, s, k, g) ==
    /\ Coder(st) /\ Marks(s, k, g) /\ Position(st) = g[k]
    /\ \A m \in 1..k : \A i \in 1..Len(Etable[s[m]]) :
          CoderBit(st, g[m - 1] + (i - 1)) = Etable[s[m]][i]

\* A body that spells s: the bits of its codes, then at most an octet of ones.
Spells(s, g, body) ==
    /\ body \in Seq(Octet) /\ Marks(s, Len(s), g)
    /\ g[Len(s)] <= HuffBits * Len(body) /\ HuffBits * Len(body) <= g[Len(s)] + HuffBits
    /\ \A m \in 1..Len(s) : \A i \in 1..Len(Etable[s[m]]) :
          InputBit(body, g[m - 1] + (i - 1)) = Etable[s[m]][i]
    /\ \A j \in Nat : j >= g[Len(s)] => InputBit(body, j) = 1

LEMMA SymbolCode ==
    ASSUME NEW s \in Seq(DOMAIN Etable), NEW m \in 1..Len(s)
    PROVE  /\ s[m] \in DOMAIN Etable
           /\ Etable[s[m]] \in Seq({0, 1}) /\ Len(Etable[s[m]]) \in Nat \ {0}
           /\ Etable[s[m]] # <<>> /\ Len(Etable[s[m]]) >= MinBits
<1>1. s[m] \in DOMAIN Etable
  OBVIOUS
<1> DEFINE c == Etable[s[m]]
<1>2. c \in Seq({0, 1}) /\ Len(c) >= MinBits /\ MinBits \in Nat \ {0}
  BY <1>1, CodeAssumption
<1> HIDE DEF c
<1>3. Len(c) \in Nat \ {0} /\ c # <<>>
  BY <1>2
<1> QED
  BY <1>1, <1>2, <1>3 DEF c

LEMMA EncodesNext ==
    ASSUME NEW s \in Seq(DOMAIN Etable), NEW k \in 0..(Len(s) - 1), NEW st, NEW g,
           Codes(st, s, k, g)
    PROVE  \E e : Codes(EncodeSymbol(st, Etable[s[k + 1]]), s, k + 1, e)
<1> DEFINE c == Etable[s[k + 1]]
           n == Len(c)
           t == EncodeSymbol(st, c)
           e == [m \in 0..(k + 1) |-> IF m <= k THEN g[m] ELSE g[k] + n]
<1>1. Len(s) \in Nat /\ k \in Nat /\ k + 1 \in 1..Len(s) /\ MinBits \in Nat \ {0}
  BY CodeAssumption
<1>2. c \in Seq({0, 1}) /\ n \in Nat \ {0} /\ c # <<>> /\ n >= MinBits
  BY <1>1, SymbolCode
<1> HIDE DEF c
<1>3. Coder(st)
  BY DEF Codes
<1>4. PICK M \in Nat : Puts(st, c, t, M)
  BY <1>2, <1>3, PutsSymbol
<1> HIDE DEF t, n
<1>5. /\ Coder(t) /\ Position(t) = Position(st) + n
      /\ \A j \in 0..(Position(t) - 1) :
            CoderBit(t, j) = IF j < Position(st) THEN CoderBit(st, j)
                             ELSE c[j - Position(st) + 1]
  BY <1>2, <1>3, <1>4, SymbolBits DEF n
<1>6. /\ g[0] = 0 /\ Position(st) = g[k] /\ g[k] \in Nat
      /\ \A m \in 0..k : g[m] \in Nat /\ MinBits * m <= g[m] /\ g[m] <= g[k]
      /\ \A m \in 1..k : g[m] = g[m - 1] + Len(Etable[s[m]])
      /\ \A m \in 1..k : \A i \in 1..Len(Etable[s[m]]) :
            CoderBit(st, g[m - 1] + (i - 1)) = Etable[s[m]][i]
  <2>1. k \in 0..k
    BY <1>1
  <2> QED
    BY <2>1 DEF Codes, Marks
<1>7. /\ \A m \in 0..k : e[m] = g[m] /\ m \in 0..(k + 1)
      /\ e[k + 1] = g[k] + n
  BY <1>1
<1>8. k \in 0..k /\ \A m \in 1..k : m \in 0..k /\ m - 1 \in 0..k /\ m \in Nat \ {0}
  BY <1>1
<1> HIDE DEF e
<1>9. ASSUME NEW m \in 0..(k + 1)
      PROVE  e[m] \in Nat /\ MinBits * m <= e[m] /\ e[m] <= e[k + 1]
  <2>1. CASE m \in 0..k
    <3> DEFINE a == MinBits * m
    <3>1. e[m] = g[m] /\ g[m] \in Nat /\ a <= g[m] /\ g[m] <= g[k]
      BY <1>6, <1>7, <2>1
    <3> HIDE DEF a
    <3>2. e[m] <= g[k] + n
      BY <1>2, <1>6, <3>1
    <3> QED
      BY <1>7, <3>1, <3>2 DEF a
  <2>2. CASE m = k + 1
    <3> DEFINE a == MinBits * k
               b == MinBits * (k + 1)
    <3>1. a <= g[k]
      BY <1>6, <1>8
    <3>2. a \in Nat /\ b = a + MinBits
      BY <1>1
    <3> HIDE DEF a, b
    <3>3. b <= g[k] + n /\ g[k] + n \in Nat
      BY <1>1, <1>2, <1>6, <3>1, <3>2
    <3> QED
      BY <1>7, <2>2, <3>3 DEF b
  <2> QED
    BY <1>1, <2>1, <2>2
<1>10. ASSUME NEW m \in 1..(k + 1) PROVE e[m] = e[m - 1] + Len(Etable[s[m]])
  <2>1. CASE m \in 1..k
    BY <1>6, <1>7, <1>8, <2>1
  <2>2. CASE m = k + 1
    <3>1. m - 1 = k
      BY <1>1, <2>2
    <3> QED
      BY <1>7, <1>8, <2>2, <3>1 DEF n, c
  <2> QED
    BY <1>1, <2>1, <2>2
<1>11. ASSUME NEW m \in 1..(k + 1), NEW i \in 1..Len(Etable[s[m]])
       PROVE  CoderBit(t, e[m - 1] + (i - 1)) = Etable[s[m]][i]
  <2> DEFINE j == e[m - 1] + (i - 1)
  <2>1. CASE m \in 1..k
    <3> DEFINE l == Len(Etable[s[m]])
    <3>1. m \in 1..Len(s)
      BY <1>1, <2>1
    <3>2. l \in Nat \ {0} /\ i \in 1..l
      BY <3>1, SymbolCode
    <3>3. /\ g[m] = g[m - 1] + l /\ g[m - 1] \in Nat /\ e[m - 1] = g[m - 1]
          /\ g[m] <= g[k] /\ g[m] \in Nat
      BY <1>6, <1>7, <1>8, <2>1
    <3> HIDE DEF l
    <3>4. j \in 0..(Position(t) - 1) /\ j < Position(st)
      <4> DEFINE u == g[m - 1]
                 v == g[k]
                 z == Position(t)
      <4>1. /\ u \in Nat /\ v \in Nat /\ u + l <= v /\ j = u + (i - 1) /\ Position(st) = v
            /\ z = v + n
        BY <1>5, <1>6, <3>3
      <4> HIDE DEF u, v, z, j
      <4>2. j \in 0..(z - 1) /\ j < v
        BY <1>2, <3>2, <4>1
      <4> QED
        BY <4>1, <4>2 DEF z
    <3>5. CoderBit(t, j) = CoderBit(st, j)
      BY <1>5, <3>4
    <3>6. CoderBit(st, g[m - 1] + (i - 1)) = Etable[s[m]][i]
      BY <1>6, <2>1
    <3> QED
      BY <3>3, <3>5, <3>6
  <2>2. CASE m = k + 1
    <3>1. m - 1 = k /\ e[m - 1] = g[k] /\ i \in 1..n /\ Etable[s[m]] = c
      BY <1>1, <1>7, <1>8, <2>2 DEF n, c
    <3>2. /\ j \in 0..(Position(t) - 1) /\ ~(j < Position(st)) /\ j - Position(st) + 1 = i
      BY <1>2, <1>5, <1>6, <3>1
    <3> HIDE DEF j
    <3>3. CoderBit(t, j) = c[i]
      BY <1>5, <3>2
    <3> QED
      BY <3>1, <3>3 DEF j
  <2> QED
    BY <1>1, <2>1, <2>2
<1>12. e[0] = 0 /\ Position(t) = e[k + 1]
  BY <1>1, <1>5, <1>6, <1>7
<1>13. Codes(t, s, k + 1, e)
  BY <1>5, <1>9, <1>10, <1>11, <1>12 DEF Codes, Marks
<1> QED
  BY <1>13 DEF t, c

LEMMA EncodesFirst ==
    ASSUME NEW s
    PROVE  \E e : Codes(NothingCoded, s, 0, e)
<1> DEFINE e == [m \in 0..0 |-> 0]
           t == NothingCoded
<1>1. t.existing = 0 /\ t.partial = Zeros /\ t.out = <<>>
  BY DEF NothingCoded
<1>2. HuffBits \in Nat \ {0} /\ MinBits \in Nat \ {0}
  BY BitsAssumption, CodeAssumption
<1>3. Coder(t)
  <2>1. Zeros \in Octet /\ \A i \in Places : Zeros[i] = 0
    BY DEF Zeros, Octet
  <2>2. 0 \in 0..HuffBits /\ <<>> \in Seq(Octet)
    BY <1>2
  <2> QED
    BY <1>1, <2>1, <2>2 DEF Coder
<1>4. Position(t) = 0
  <2>1. Len(<<>>) = 0 /\ HuffBits * 0 + 0 = 0
    BY <1>2
  <2> QED
    BY <1>1, <2>1 DEF Position
<1>5. Marks(s, 0, e) /\ e[0] = 0
  <2>1. e[0] = 0 /\ \A m \in 0..0 : m = 0
    OBVIOUS
  <2>2. MinBits * 0 = 0 /\ (\A m \in 1..0 : FALSE)
    BY <1>2
  <2> HIDE DEF e
  <2> QED
    BY <2>1, <2>2 DEF Marks
<1>6. \A m \in 1..0 : FALSE
  OBVIOUS
<1> HIDE DEF e, t
<1>7. Codes(t, s, 0, e)
  BY <1>3, <1>4, <1>5, <1>6 DEF Codes
<1> QED
  BY <1>7 DEF t

\* The whole string coded and padded.
LEMMA EncodedSpells ==
    ASSUME NEW s \in Seq(DOMAIN Etable), NEW st, NEW g, Codes(st, s, Len(s), g)
    PROVE  Spells(s, g, Encoding(st))
<1> DEFINE body == Encoding(st)
           p == Position(st)
           k == Len(s)
<1>1. /\ body \in Seq(Octet) /\ p \in Nat
      /\ p <= HuffBits * Len(body) /\ HuffBits * Len(body) <= p + HuffBits
      /\ \A j \in Nat : InputBit(body, j) = IF j < p THEN CoderBit(st, j) ELSE 1
  BY PaddedBits DEF Codes
<1>2. Marks(s, k, g) /\ p = g[k] /\ k \in Nat
  BY DEF Codes
<1> HIDE DEF body, p
<1>3. ASSUME NEW m \in 1..k, NEW i \in 1..Len(Etable[s[m]])
      PROVE  InputBit(body, g[m - 1] + (i - 1)) = Etable[s[m]][i]
  <2> DEFINE l == Len(Etable[s[m]])
  <2>1. l \in Nat \ {0} /\ i \in 1..l
    BY SymbolCode
  <2>2. g[m] = g[m - 1] + l /\ g[m] <= p /\ g[m - 1] \in Nat
    <3>1. m \in 0..k /\ m - 1 \in 0..k
      BY <1>2
    <3> QED
      BY <1>2, <3>1 DEF Marks
  <2> HIDE DEF l
  <2>3. g[m - 1] + (i - 1) \in Nat /\ g[m - 1] + (i - 1) < p
    BY <1>1, <2>1, <2>2
  <2>4. CoderBit(st, g[m - 1] + (i - 1)) = Etable[s[m]][i]
    BY DEF Codes
  <2> QED
    BY <1>1, <2>3, <2>4
<1>4. ASSUME NEW j \in Nat, j >= g[k] PROVE InputBit(body, j) = 1
  <2>1. ~(j < p)
    BY <1>1, <1>2, <1>4
  <2> QED
    BY <1>1, <2>1
<1> QED
  BY <1>1, <1>2, <1>3, <1>4 DEF Spells, body

\* A length behind either prefix is read as it was written, and the first octet tells
\* the coded form from the raw one.
LEMMA PrefixRead ==
    ASSUME NEW n \in 0..NumberMax, LengthPrefix(n) # <<>>
    PROVE  /\ LengthPrefix(n)[1] \in Nat /\ LengthPrefix(n)[1] < HuffmanBit
           /\ DecodeNumber(LengthPrefix(n), ContBits).number = n
           /\ CodedPrefix(n)[1] \in Nat /\ CodedPrefix(n)[1] >= HuffmanBit
           /\ DecodeNumber(CodedPrefix(n), ContBits).number = n
<1> DEFINE e == LengthPrefix(n)
           f == CodedPrefix(n)
           H == Pow2[ContBits]
           mask == MaskFromBits(ContBits)
<1>1. ContBits \in Nat \ {0} /\ MaxOctets \in Nat \ {0}
  BY NumberAssumption
<1>2. H \in Nat \ {0} /\ mask = H - 1 /\ n \in Nat
  BY <1>1, Pow2Nat, MostUnits DEF MaskFromBits
<1>3. e = EncodeNumber(n, ContBits, MaxOctets)
  BY DEF LengthPrefix
<1> HIDE DEF e, mask, H
<1>4. /\ e \in Seq(Nat) /\ e # <<>>
      /\ n < mask => e = <<n>>
      /\ n >= mask /\ e # <<>> => e[1] = mask
  <2>1. e # <<>>
    BY DEF e
  <2> QED
    BY <1>1, <1>3, <2>1, Encoded DEF mask
<1>5. e[1] \in Nat /\ e[1] < H /\ 1 \in DOMAIN e /\ Len(e) \in Nat \ {0} /\ Len(e) <= Len(e)
  <2>1. 1 \in DOMAIN e /\ e[1] \in Nat /\ Len(e) \in Nat \ {0}
    BY <1>4
  <2>2. CASE n < mask
    BY <1>2, <1>4, <2>1, <2>2
  <2>3. CASE n >= mask
    BY <1>2, <1>4, <2>1, <2>3
  <2> QED
    BY <1>2, <2>1, <2>2, <2>3
<1>6. f = [e EXCEPT ![1] = H + @]
  BY DEF CodedPrefix, HuffmanBit, e, H
<1>7. f \in Seq(Nat) /\ Len(f) = Len(e) /\ f[1] = H + e[1] /\ \A i \in 2..Len(e) : f[i] = e[i]
  <2>1. H + e[1] \in Nat
    BY <1>2, <1>5
  <2> QED
    BY <1>4, <1>5, <1>6, <2>1
<1>8. H * 0 = 0 /\ 0 * H + e[1] = e[1] /\ 1 * H + e[1] = H + e[1]
  BY <1>2, <1>5
<1>9. Holds(e, n, ContBits, e, 0)
  BY <1>4, <1>5, <1>8 DEF Holds, H
<1>10. Holds(f, n, ContBits, e, 1)
  <2> HIDE DEF f
  <2> QED
    BY <1>4, <1>5, <1>7, <1>8 DEF Holds, H
<1> HIDE DEF f
<1>11. /\ DecodeNumber(e, ContBits) = [len |-> Len(e), number |-> n]
       /\ DecodeNumber(f, ContBits) = [len |-> Len(e), number |-> n]
  BY <1>1, <1>3, <1>9, <1>10, Decoded
<1>12. DecodeNumber(e, ContBits).number = n /\ DecodeNumber(f, ContBits).number = n
  BY <1>11
<1>13. f[1] \in Nat /\ f[1] >= H
  BY <1>2, <1>5, <1>7
<1> QED
  BY <1>5, <1>12, <1>13 DEF e, f, H, HuffmanBit

\* What a lookup finds: the code of the bits that come next, if it ends in the octet.
LEMMA EndsMeaning ==
    ASSUME NEW r, NEW p \in Nat, NEW b \in Seq({0, 1}), InStep(r, p + Len(b)),
           \A i \in 1..Len(b) : b[i] = InputBit(r.buf, p + (i - 1)),
           NEW e \in Seq({0, 1})
    PROVE  Ends(e, b, r.octet) <=> /\ Len(e) - Len(b) \in 1..HuffBits
                                   /\ \A i \in 1..Len(e) : e[i] = InputBit(r.buf, p + (i - 1))
<1> DEFINE l == Len(b)
           In(j) == InputBit(r.buf, j)
<1>1. HuffBits \in Nat \ {0} /\ l \in Nat /\ Len(e) \in Nat /\ DOMAIN e = 1..Len(e)
  BY BitsAssumption
<1>2. \A i \in Places : r.octet[i] = In(p + l + i)
  <2>1. \A i \in Places : r.octet[i] = InputBit(r.buf, (p + Len(b)) + i)
    BY DEF InStep
  <2> QED
    BY <2>1
<1>3. \A i \in 1..l : b[i] = In(p + (i - 1))
  OBVIOUS
<1>4. Ends(e, b, r.octet) <=>
        /\ Len(e) - l \in 1..HuffBits
        /\ \A i \in 1..Len(e) : e[i] = IF i <= l THEN b[i] ELSE r.octet[i - l - 1]
  BY <1>1 DEF Ends
<1> HIDE DEF l, In
<1>5. ASSUME Len(e) - l \in 1..HuffBits, NEW i \in 1..Len(e)
      PROVE  (IF i <= l THEN b[i] ELSE r.octet[i - l - 1]) = In(p + (i - 1))
  <2>1. CASE i <= l
    <3>1. i \in 1..l
      BY <1>1, <2>1
    <3> QED
      BY <1>3, <2>1, <3>1
  <2>2. CASE ~(i <= l)
    <3>1. i - l - 1 \in Places /\ p + l + (i - l - 1) = p + (i - 1)
      BY <1>1, <1>5, <2>2 DEF Places
    <3> QED
      BY <1>2, <2>2, <3>1
  <2> QED
    BY <2>1, <2>2
<1>6. Ends(e, b, r.octet) <=> /\ Len(e) - l \in 1..HuffBits
                              /\ \A i \in 1..Len(e) : e[i] = In(p + (i - 1))
  BY <1>4, <1>5
<1> QED
  BY <1>6 DEF l, In

\* The bits read after n symbols of s: the code of the next one, or ones.
NextCode(s, n) == IF n < Len(s) THEN Etable[s[n + 1]] ELSE Eos

LEMMA NextBits ==
    ASSUME NEW s \in Seq(DOMAIN Etable), NEW g, NEW body, Spells(s, g, body),
           NEW n \in 0..Len(s)
    PROVE  /\ NextCode(s, n) \in Seq({0, 1}) /\ Len(NextCode(s, n)) \in Nat \ {0} /\ g[n] \in Nat
           /\ \A i \in 1..Len(NextCode(s, n)) :
                 NextCode(s, n)[i] = InputBit(body, g[n] + (i - 1))
<1>1. Len(s) \in Nat /\ n \in Nat /\ g[n] \in Nat
  BY DEF Spells, Marks
<1>2. CASE n < Len(s)
  <2>1. NextCode(s, n) = Etable[s[n + 1]] /\ n + 1 \in 1..Len(s) /\ (n + 1) - 1 = n
    BY <1>1, <1>2 DEF NextCode
  <2>2. \A i \in 1..Len(Etable[s[n + 1]]) :
          InputBit(body, g[(n + 1) - 1] + (i - 1)) = Etable[s[n + 1]][i]
    BY <2>1 DEF Spells
  <2> QED
    BY <1>1, <2>1, <2>2, SymbolCode
<1>3. CASE ~(n < Len(s))
  <2>1. NextCode(s, n) = Eos /\ n = Len(s)
    BY <1>1, <1>3 DEF NextCode
  <2>2. Eos \in Seq({1}) /\ Eos # <<>>
    BY CodeAssumption
  <2>3. Eos \in Seq({0, 1}) /\ Len(Eos) \in Nat \ {0} /\ \A i \in 1..Len(Eos) : Eos[i] = 1
    BY <2>2
  <2>4. ASSUME NEW i \in 1..Len(Eos) PROVE InputBit(body, g[n] + (i - 1)) = 1
    <3>1. g[n] + (i - 1) \in Nat /\ g[n] + (i - 1) >= g[n]
      BY <1>1, <2>3
    <3> QED
      BY <2>1, <3>1 DEF Spells
  <2> QED
    BY <1>1, <2>1, <2>3, <2>4
<1> QED
  BY <1>2, <1>3

\* huffman_decode has read the symbols of dest, and the bits seen of the next code.
Decoding(g) ==
    /\ Spells(string, g, bbr.buf)
    /\ dest \in Seq(DOMAIN Etable) /\ Len(dest) <= Len(string)
    /\ \A m \in 1..Len(dest) : dest[m] = string[m]
    /\ seen \in Seq({0, 1}) /\ Len(seen) < Len(NextCode(string, Len(dest)))
    /\ \A i \in 1..Len(seen) : seen[i] = InputBit(bbr.buf, g[Len(dest)] + (i - 1))
    /\ InStep(bbr, g[Len(dest)] + Len(seen))
    /\ \E k \in Nat : Len(seen) = HuffBits * k

LEMMA DecodingTypes ==
    ASSUME string \in Strings, NEW g, Decoding(g)
    PROVE  LET n == Len(dest)
               c == NextCode(string, n)
           IN  /\ string \in Seq(DOMAIN Etable) /\ Len(string) \in Nat /\ n \in 0..Len(string)
               /\ c \in Seq({0, 1}) /\ Len(c) \in Nat \ {0} /\ g[n] \in Nat /\ Len(seen) \in Nat
               /\ \A i \in 1..Len(c) : c[i] = InputBit(bbr.buf, g[n] + (i - 1))
<1>1. string \in Seq(DOMAIN Etable)
  BY StringAssumption
<1>2. Len(string) \in Nat /\ Len(dest) \in 0..Len(string) /\ Len(seen) \in Nat
  BY <1>1 DEF Decoding
<1>3. Spells(string, g, bbr.buf)
  BY DEF Decoding
<1> QED
  BY <1>1, <1>2, <1>3, NextBits

\* The room made for a string is never used up.
LEMMA NeverFull ==
    ASSUME string \in Strings, NEW g, Decoding(g)
    PROVE  ~Full
<1> DEFINE n == Len(dest)
           k == Len(bbr.buf)
           a == k * HuffBits
           q == a \div MinBits
           r == a % MinBits
<1>1. n \in 0..Len(string) /\ Len(string) \in Nat
  BY DecodingTypes
<1>2. /\ MinBits * n <= g[n] /\ g[n] <= g[Len(string)] /\ g[Len(string)] <= HuffBits * k
      /\ g[n] \in Nat /\ g[Len(string)] \in Nat /\ k \in Nat
  <2>1. n \in 0..Len(string) /\ Len(string) \in 0..Len(string)
    BY <1>1
  <2>2. bbr.buf \in Seq(Octet)
    BY DEF Decoding, Spells
  <2> QED
    BY <2>1, <2>2 DEF Decoding, Spells, Marks
<1>3. MinBits \in Nat \ {0} /\ HuffBits \in Nat \ {0} /\ n \in Nat
  BY <1>1, BitsAssumption, CodeAssumption
<1> HIDE DEF n, k
<1>4. a \in Nat /\ a = HuffBits * k /\ MinBits * n \in Nat
  BY <1>2, <1>3
<1>5. MinBits * n <= a
  <2> DEFINE u == MinBits * n
             v == HuffBits * k
  <2>1. u <= g[n] /\ g[n] <= g[Len(string)] /\ g[Len(string)] <= v /\ a = v /\ u \in Nat
    BY <1>2, <1>4
  <2> HIDE DEF u, v, a
  <2>2. u <= a
    BY <1>2, <1>4, <2>1
  <2> QED
    BY <2>2 DEF u
<1> HIDE DEF a
<1>6. q \in Nat /\ r \in 0..(MinBits - 1) /\ a = MinBits * q + r
  BY <1>3, <1>4, DivMod
<1>7. Full <=> n = q + 1
  BY DEF Full, DecodedRoom, n, k, q, a
<1> HIDE DEF q, r
<1>8. n <= q
  <2> DEFINE u == MinBits * n
             v == MinBits * q
             x == r + 1
  <2>1. x \in Nat /\ x <= MinBits /\ 0 \in Nat /\ 0 < MinBits /\ u \in Nat /\ v \in Nat
    BY <1>3, <1>4, <1>6
  <2>2. u + 0 < v + x
    <3>1. u <= a /\ a = v + r
      BY <1>5, <1>6
    <3> HIDE DEF u, v
    <3> QED
      BY <1>4, <1>6, <2>1, <3>1
  <2> HIDE DEF x
  <2> QED
    BY <1>3, <1>6, <2>1, <2>2, Quotients
<1> QED
  BY <1>3, <1>6, <1>7, <1>8

\* Nothing but ones is left only behind the last code.
LEMMA OnesAtEnd ==
    ASSUME NEW s \in Seq(DOMAIN Etable), NEW g, NEW body, Spells(s, g, body),
           NEW n \in 0..Len(s), OnlyOnes(body, g[n])
    PROVE  n = Len(s)
<1> SUFFICES ASSUME n # Len(s) PROVE FALSE
  OBVIOUS
<1> DEFINE c == NextCode(s, n)
           size == HuffBits * Len(body)
<1>1. /\ c \in Seq({0, 1}) /\ Len(c) \in Nat \ {0} /\ g[n] \in Nat
      /\ \A i \in 1..Len(c) : c[i] = InputBit(body, g[n] + (i - 1))
  BY NextBits
<1>2. n < Len(s) /\ n + 1 \in 1..Len(s) /\ Len(s) \in Nat
  OBVIOUS
<1>3. s[n + 1] \in DOMAIN Etable /\ c = Etable[s[n + 1]]
  BY <1>2, SymbolCode DEF NextCode
<1>4. Differ(c, Eos) /\ Eos \in Seq({1})
  BY <1>3, CodeAssumption
<1> HIDE DEF c
<1>5. PICK i \in DOMAIN c \cap DOMAIN Eos : c[i] # Eos[i]
  BY <1>4 DEF Differ
<1>6. i \in 1..Len(c) /\ Eos[i] = 1
  BY <1>1, <1>4, <1>5
<1> DEFINE j == g[n] + (i - 1)
<1>7. j \in Nat /\ j >= g[n]
  BY <1>1, <1>6
<1>8. size \in Nat /\ g[Len(s)] <= size /\ g[Len(s)] \in Nat
  <2>1. body \in Seq(Octet) /\ HuffBits \in Nat
    BY BitsAssumption DEF Spells
  <2>2. Len(body) \in Nat
    BY <2>1
  <2>3. Len(s) \in 0..Len(s)
    BY <1>2
  <2> QED
    BY <2>1, <2>2, <2>3 DEF Spells, Marks
<1> HIDE DEF j, size
<1>9. InputBit(body, j) = 1
  <2>1. CASE j < size
    <3>1. j \in g[n]..(size - 1)
      BY <1>1, <1>7, <1>8, <2>1
    <3> QED
      BY <3>1 DEF OnlyOnes, size
  <2>2. CASE ~(j < size)
    <3>1. j >= g[Len(s)]
      BY <1>7, <1>8, <2>2
    <3> QED
      BY <1>7, <3>1 DEF Spells
  <2> QED
    BY <2>1, <2>2
<1> QED
  BY <1>1, <1>5, <1>6, <1>9 DEF j

\* All symbols read: the string.
LEMMA AllRead ==
    ASSUME string \in Strings, NEW g, Decoding(g), Len(dest) = Len(string)
    PROVE  dest = string
<1>1. string \in Seq(DOMAIN Etable) /\ dest \in Seq(DOMAIN Etable)
  BY DecodingTypes DEF Decoding
<1>2. \A m \in 1..Len(dest) : dest[m] = string[m]
  BY DEF Decoding
<1> QED
  BY <1>1, <1>2

\* bb_eos, called in each round or only once, ends the loop behind the last symbol.
LEMMA EosAtEnd ==
    ASSUME string \in Strings, hoisted \in BOOLEAN, NEW g, Decoding(g), seen = <<>>, AtEos
    PROVE  Len(dest) = Len(string)
<1>1. /\ string \in Seq(DOMAIN Etable) /\ Len(string) \in Nat /\ Len(dest) \in 0..Len(string)
      /\ g[Len(dest)] \in Nat
  BY DecodingTypes
<1>2. Spells(string, g, bbr.buf) /\ bbr.buf \in Seq(Octet) /\ g[0] = 0
  BY DEF Decoding, Spells, Marks
<1>3. CASE hoisted
  <2>1. BbEos(ReaderInit(bbr.buf))
    BY <1>3 DEF AtEos
  <2>2. InStep(ReaderInit(bbr.buf), 0) /\ ReaderInit(bbr.buf).buf = bbr.buf
    BY <1>2, InitInStep
  <2>3. OnlyOnes(bbr.buf, g[0])
    BY <1>2, <2>1, <2>2, EosMeaning
  <2>4. 0 \in 0..Len(string)
    BY <1>1
  <2>5. 0 = Len(string)
    BY <1>1, <1>2, <2>3, <2>4, OnesAtEnd
  <2> QED
    BY <1>1, <2>5
<1>4. CASE ~hoisted
  <2>1. BbEos(bbr)
    BY <1>4 DEF AtEos
  <2>2. InStep(bbr, g[Len(dest)])
    <3>1. InStep(bbr, g[Len(dest)] + Len(seen)) /\ Len(seen) = 0
      BY DEF Decoding
    <3>2. g[Len(dest)] + 0 = g[Len(dest)]
      BY <1>1
    <3> QED
      BY <3>1, <3>2
  <2>3. OnlyOnes(bbr.buf, g[Len(dest)])
    BY <1>1, <2>1, <2>2, EosMeaning
  <2> QED
    BY <1>1, <1>2, <2>3, OnesAtEnd
<1> QED
  BY <1>3, <1>4

\* Two codes that agree with the same input agree with each other.
LEMMA SameBits ==
    ASSUME NEW c \in Seq({0, 1}), NEW e \in Seq({0, 1}), NEW buf, NEW p,
           \A i \in 1..Len(c) : c[i] = InputBit(buf, p + (i - 1)),
           \A i \in 1..Len(e) : e[i] = InputBit(buf, p + (i - 1))
    PROVE  ~Differ(c, e)
BY DEF Differ

\* A lookup finds no symbol but the next one, and Eos only behind the last.
LEMMA LookupRight ==
    ASSUME string \in Strings, NEW g, Decoding(g)
    PROVE  LET n == Len(dest)
               c == NextCode(string, n)
           IN  /\ \A s \in Found(seen, bbr.octet) :
                     /\ n < Len(string) /\ s = string[n + 1] /\ c = Etable[s]
                     /\ Len(c) - Len(seen) \in 1..HuffBits
               /\ Ends(Eos, seen, bbr.octet) => n = Len(string)
               /\ Found(seen, bbr.octet) = {} /\ ~Ends(Eos, seen, bbr.octet) =>
                     Len(seen) + HuffBits < Len(c)
<1> DEFINE n == Len(dest)
           c == NextCode(string, n)
           p == g[n]
<1>1. /\ string \in Seq(DOMAIN Etable) /\ Len(string) \in Nat /\ n \in 0..Len(string)
      /\ c \in Seq({0, 1}) /\ Len(c) \in Nat \ {0} /\ p \in Nat /\ Len(seen) \in Nat
      /\ \A i \in 1..Len(c) : c[i] = InputBit(bbr.buf, p + (i - 1))
  BY DecodingTypes
<1>2. /\ seen \in Seq({0, 1}) /\ Len(seen) < Len(c) /\ InStep(bbr, p + Len(seen))
      /\ \A i \in 1..Len(seen) : seen[i] = InputBit(bbr.buf, p + (i - 1))
  BY DEF Decoding
<1>3. Eos \in Seq({0, 1}) /\ HuffBits \in Nat \ {0}
  <2>1. Eos \in Seq({1})
    BY CodeAssumption
  <2> QED
    BY <2>1, BitsAssumption
<1>4. /\ n < Len(string) => /\ string[n + 1] \in DOMAIN Etable /\ c = Etable[string[n + 1]]
                            /\ Differ(c, Eos)
      /\ ~(n < Len(string)) => c = Eos /\ n = Len(string)
  <2>1. CASE n < Len(string)
    <3>1. n + 1 \in 1..Len(string)
      BY <1>1, <2>1
    <3>2. string[n + 1] \in DOMAIN Etable
      BY <1>1, <3>1, SymbolCode
    <3> QED
      BY <2>1, <3>2, CodeAssumption DEF NextCode
  <2>2. CASE ~(n < Len(string))
    BY <1>1, <2>2 DEF NextCode
  <2> QED
    BY <2>1, <2>2
<1> HIDE DEF n, c, p
<1>5. \A e \in Seq({0, 1}) :
        Ends(e, seen, bbr.octet) <=>
          /\ Len(e) - Len(seen) \in 1..HuffBits
          /\ \A i \in 1..Len(e) : e[i] = InputBit(bbr.buf, p + (i - 1))
  BY <1>1, <1>2, EndsMeaning
<1>6. ASSUME NEW e \in Seq({0, 1}), Ends(e, seen, bbr.octet) PROVE ~Differ(e, c) /\ ~Differ(c, e)
  <2>1. \A i \in 1..Len(e) : e[i] = InputBit(bbr.buf, p + (i - 1))
    BY <1>5, <1>6
  <2> QED
    BY <1>1, <2>1, SameBits
<1>7. ASSUME NEW s \in Found(seen, bbr.octet)
      PROVE  /\ n < Len(string) /\ s = string[n + 1] /\ c = Etable[s]
             /\ Len(c) - Len(seen) \in 1..HuffBits
  <2>1. s \in DOMAIN Etable /\ Ends(Etable[s], seen, bbr.octet)
    BY DEF Found
  <2>2. Etable[s] \in Seq({0, 1}) /\ Differ(Etable[s], Eos)
    BY <2>1, CodeAssumption
  <2>3. ~Differ(Etable[s], c)
    BY <1>6, <2>1, <2>2
  <2>4. n < Len(string)
    BY <1>4, <2>2, <2>3
  <2>5. s = string[n + 1]
    BY <1>4, <2>1, <2>3, <2>4, CodeAssumption
  <2>6. Len(Etable[s]) - Len(seen) \in 1..HuffBits
    BY <1>5, <2>1, <2>2
  <2> QED
    BY <1>4, <2>4, <2>5, <2>6
<1>8. Ends(Eos, seen, bbr.octet) => n = Len(string)
  BY <1>3, <1>4, <1>6
<1>9. ASSUME Found(seen, bbr.octet) = {}, ~Ends(Eos, seen, bbr.octet)
      PROVE  Len(seen) + HuffBits < Len(c)
  <2>1. ~Ends(c, seen, bbr.octet)
    BY <1>4, <1>9 DEF Found
  <2>2. ~(Len(c) - Len(seen) \in 1..HuffBits)
    BY <1>1, <1>5, <2>1
  <2> QED
    BY <1>1, <1>2, <1>3, <2>2
<1> QED
  BY <1>7, <1>8, <1>9 DEF n, c

\* The string on its way: raw, or coded.
SentRaw ==
    /\ sent.prefix[1] < HuffmanBit
    /\ DecodeNumber(sent.prefix, ContBits).number = Len(string) /\ sent.body = string
SentCoded ==
    /\ sent.prefix[1] >= HuffmanBit
    /\ DecodeNumber(sent.prefix, ContBits).number = Len(sent.body)
    /\ \E g : Spells(string, g, sent.body)

\* The inductive invariant: at each stage, what there is of the string.
StringInv ==
    /\ string \in Strings /\ hoisted \in BOOLEAN
    /\ stage \in {"encode", "sent", "threw", "overran", "decode", "done"}
    /\ stage \in {"encode", "sent"} => dest = <<>> /\ seen = <<>>
    /\ stage = "encode" => taken \in 0..Len(string) /\ \E g : Codes(coder, string, taken, g)
    /\ stage = "sent" => sent.prefix[1] \in Nat /\ (SentRaw \/ SentCoded)
    /\ stage = "decode" => \E g : Decoding(g)
    /\ stage = "done" => dest = string

LEMMA StringStart == StringInit => StringInv
<1> SUFFICES ASSUME StringInit PROVE StringInv
  OBVIOUS
<1>1. string \in Seq(DOMAIN Etable)
  BY StringAssumption DEF StringInit
<1>2. 0 \in 0..Len(string)
  BY <1>1
<1>3. \E g : Codes(NothingCoded, string, 0, g)
  BY EncodesFirst
<1> QED
  BY <1>2, <1>3 DEF StringInit, StringInv

LEMMA EncodeNextI == StringInv /\ EncodeNext => StringInv'
<1> SUFFICES ASSUME StringInv, EncodeNext PROVE StringInv'
  OBVIOUS
<1>1. /\ stage = "encode" /\ taken < Len(string) /\ taken' = taken + 1
      /\ coder' = EncodeSymbol(coder, Etable[string[taken + 1]])
      /\ UNCHANGED <<hoisted, string, stage, sent, bbr, seen, dest>>
  BY DEF EncodeNext
<1>2. string \in Seq(DOMAIN Etable) /\ taken \in 0..Len(string)
  BY <1>1, StringAssumption DEF StringInv
<1>3. taken \in 0..(Len(string) - 1) /\ taken + 1 \in 0..Len(string)
  BY <1>1, <1>2
<1>4. PICK g : Codes(coder, string, taken, g)
  BY <1>1 DEF StringInv
<1>5. \E e : Codes(EncodeSymbol(coder, Etable[string[taken + 1]]), string, taken + 1, e)
  BY <1>2, <1>3, <1>4, EncodesNext
<1> QED
  BY <1>1, <1>3, <1>5 DEF StringInv

\* What Form says of the lengths.
LEMMA FormMeans ==
    ASSUME NEW s, Len(s) \in Nat, NEW coding, Len(coding) \in Nat
    PROVE  /\ Form(s, coding) \in {"coded", "raw", "threw"}
           /\ Form(s, coding) = "raw" => LengthPrefix(Len(s)) # <<>>
           /\ Form(s, coding) = "coded" => /\ LengthPrefix(Len(coding)) # <<>>
                                           /\ Len(coding) <= (Slack + Len(s)) - 1
<1> DEFINE len == HuffmanLen(coding, Slack + Len(s))
           raw == LengthPrefix(Len(s))
           fits == len > 0 /\ len <= Len(s)
<1>1. Form(s, coding) =
        CASE fits -> "coded"
          [] ~fits /\ raw = <<>> -> IF len > 0 THEN "coded" ELSE "threw"
          [] OTHER -> IF len < 0 \/ Len(raw) + Len(s) < len THEN "raw" ELSE "coded"
  BY Zenon DEF Form
<1>2. len = -1 \/ /\ LengthPrefix(Len(coding)) # <<>>
                  /\ ~(Len(coding) > (Slack + Len(s)) - 1)
  BY DEF HuffmanLen
<1> HIDE DEF len, raw
<1>3. Form(s, coding) \in {"coded", "raw", "threw"}
      /\ (Form(s, coding) = "raw" => raw # <<>>)
      /\ (Form(s, coding) = "coded" => len # -1)
  <2>1. CASE fits
    BY <1>1, <2>1
  <2>2. CASE ~fits /\ raw = <<>>
    BY <1>1, <2>2
  <2>3. CASE ~fits /\ raw # <<>>
    BY <1>1, <2>3
  <2> QED
    BY <2>1, <2>2, <2>3
<1>4. Len(coding) > (Slack + Len(s)) - 1 \/ Len(coding) <= (Slack + Len(s)) - 1
  BY CodeAssumption
<1> QED
  BY <1>2, <1>3, <1>4 DEF raw

LEMMA ReturnsI == StringInv /\ Returns => StringInv'
<1> SUFFICES ASSUME StringInv, Returns PROVE StringInv'
  OBVIOUS
<1> DEFINE coding == Encoding(coder)
           form == Form(string, coding)
<1>1. /\ stage = "encode" /\ taken = Len(string)
      /\ stage' = IF form = "threw" THEN "threw" ELSE "sent"
      /\ UNCHANGED <<hoisted, string, taken, coder, bbr, seen, dest>>
  BY DEF Returns
<1>2. /\ form = "coded" => sent' = [prefix |-> CodedPrefix(Len(coding)), body |-> coding]
      /\ form = "raw" => sent' = [prefix |-> LengthPrefix(Len(string)), body |-> string]
  BY DEF Returns
<1>3. string \in Seq(DOMAIN Etable) /\ Len(string) \in Nat /\ Len(string) + Slack <= NumberMax
  <2>1. string \in Strings
    BY DEF StringInv
  <2> QED
    BY <2>1, StringAssumption
<1>4. PICK g : Codes(coder, string, Len(string), g)
  BY <1>1 DEF StringInv
<1> HIDE DEF coding
<1>5. Spells(string, g, coding)
  BY <1>3, <1>4, EncodedSpells DEF coding
<1>6. coding \in Seq(Octet) /\ Len(coding) \in Nat
  <2>1. coding \in Seq(Octet)
    BY <1>5 DEF Spells
  <2> QED
    BY <2>1
<1>7. /\ form \in {"coded", "raw", "threw"}
      /\ form = "raw" => LengthPrefix(Len(string)) # <<>>
      /\ form = "coded" => /\ LengthPrefix(Len(coding)) # <<>>
                           /\ Len(coding) <= (Slack + Len(string)) - 1
  BY <1>3, <1>6, FormMeans
<1> HIDE DEF form
<1>8. Slack \in Nat \ {0} /\ NumberMax \in Nat
  BY CodeAssumption, MostUnits
<1>9. CASE form = "coded"
  <2> DEFINE n == Len(coding)
  <2>1. n \in 0..NumberMax /\ LengthPrefix(n) # <<>>
    BY <1>3, <1>6, <1>7, <1>8, <1>9
  <2> HIDE DEF n
  <2>2. CodedPrefix(n)[1] >= HuffmanBit /\ DecodeNumber(CodedPrefix(n), ContBits).number = n
    BY <2>1, PrefixRead
  <2>3. CodedPrefix(n)[1] \in Nat
    BY <2>1, PrefixRead
  <2>4. sent'.prefix = CodedPrefix(n) /\ sent'.body = coding /\ stage' = "sent"
    BY <1>1, <1>2, <1>9 DEF n
  <2>5. SentCoded'
    BY <1>1, <1>5, <2>2, <2>4 DEF SentCoded, n
  <2> QED
    BY <1>1, <2>3, <2>4, <2>5 DEF StringInv
<1>10. CASE form = "raw"
  <2> DEFINE n == Len(string)
  <2>1. n \in 0..NumberMax /\ LengthPrefix(n) # <<>>
    BY <1>3, <1>7, <1>8, <1>10
  <2> HIDE DEF n
  <2>2. LengthPrefix(n)[1] < HuffmanBit /\ DecodeNumber(LengthPrefix(n), ContBits).number = n
    BY <2>1, PrefixRead
  <2>3. LengthPrefix(n)[1] \in Nat
    BY <2>1, PrefixRead
  <2>4. sent'.prefix = LengthPrefix(n) /\ sent'.body = string /\ stage' = "sent"
    BY <1>1, <1>2, <1>10 DEF n
  <2>5. SentRaw'
    BY <1>1, <2>2, <2>4 DEF SentRaw, n
  <2> QED
    BY <1>1, <2>3, <2>4, <2>5 DEF StringInv
<1>11. CASE form = "threw"
  BY <1>1, <1>11 DEF StringInv
<1> QED
  BY <1>7, <1>9, <1>10, <1>11

LEMMA SendStringI == StringInv /\ SendString => StringInv'
<1> SUFFICES ASSUME StringInv, SendString PROVE StringInv'
  OBVIOUS
<1>1. CASE Returns
  BY <1>1, ReturnsI
<1>2. CASE Overrun
  BY <1>2 DEF Overrun, StringInv
<1> QED
  BY <1>1, <1>2 DEF SendString

LEMMA WholeBody ==
    ASSUME NEW S, NEW b \in Seq(S)
    PROVE  SubSeq(b, 1, Len(b)) = b
OBVIOUS

LEMMA ReadStringI == StringInv /\ ReadString => StringInv'
<1> SUFFICES ASSUME StringInv, ReadString PROVE StringInv'
  OBVIOUS
<1> DEFINE slen == DecodeNumber(sent.prefix, ContBits).number
           rest == SubSeq(sent.body, 1, slen)
<1>1. /\ stage = "sent" /\ UNCHANGED <<hoisted, string, taken, coder, sent, seen>>
      /\ \/ sent.prefix[1] < HuffmanBit /\ stage' = "done" /\ dest' = rest /\ bbr' = bbr
         \/ /\ sent.prefix[1] >= HuffmanBit /\ stage' = "decode" /\ bbr' = ReaderInit(rest)
            /\ dest' = dest
  BY DEF ReadString
<1>2. string \in Seq(DOMAIN Etable) /\ Len(string) \in Nat
  BY StringAssumption DEF StringInv
<1>3. sent.prefix[1] \in Nat /\ HuffmanBit \in Nat /\ dest = <<>> /\ seen = <<>>
  BY <1>1, Pow2Nat, NumberAssumption DEF StringInv, HuffmanBit
<1>4. CASE SentRaw
  <2>1. rest = string /\ ~(sent.prefix[1] >= HuffmanBit)
    BY <1>2, <1>3, <1>4, WholeBody DEF SentRaw
  <2> QED
    BY <1>1, <2>1 DEF StringInv
<1>5. CASE SentCoded
  <2>1. PICK g : Spells(string, g, sent.body)
    BY <1>5 DEF SentCoded
  <2>2. sent.body \in Seq(Octet)
    BY <2>1 DEF Spells
  <2>3. rest = sent.body /\ ~(sent.prefix[1] < HuffmanBit)
    BY <1>3, <1>5, <2>2, WholeBody DEF SentCoded
  <2> HIDE DEF rest
  <2>4. stage' = "decode" /\ bbr' = ReaderInit(sent.body) /\ dest' = <<>> /\ seen' = <<>>
    BY <1>1, <1>3, <2>3
  <2>5. InStep(ReaderInit(sent.body), 0) /\ ReaderInit(sent.body).buf = sent.body
    BY <2>2, InitInStep
  <2>6. Len(NextCode(string, 0)) \in Nat \ {0}
    <3>1. 0 \in 0..Len(string)
      BY <1>2
    <3> QED
      BY <1>2, <2>1, <3>1, NextBits
  <2>7. g[0] = 0 /\ 0 + 0 = 0
    BY <2>1 DEF Spells, Marks
  <2>8. <<>> \in Seq(DOMAIN Etable) /\ Len(<<>>) = 0 /\ <<>> \in Seq({0, 1}) /\ \A i \in 1..0 : FALSE
    OBVIOUS
  <2>9. string' = string /\ 0 <= Len(string) /\ 0 < Len(NextCode(string, 0))
    BY <1>1, <1>2, <2>6
  <2>11. \E k \in Nat : Len(seen') = HuffBits * k
    <3>1. HuffBits * 0 = 0 /\ Len(seen') = 0
      BY <2>4, <2>8, BitsAssumption
    <3> QED
      BY <3>1
  <2>10. Decoding(g)'
    <3>1. Spells(string', g, bbr'.buf)
      BY <2>1, <2>4, <2>5, <2>9
    <3>2. /\ dest' \in Seq(DOMAIN Etable) /\ Len(dest') = 0 /\ Len(dest') <= Len(string')
          /\ \A m \in 1..Len(dest') : dest'[m] = string'[m]
      BY <2>4, <2>8, <2>9
    <3>3. /\ seen' \in Seq({0, 1}) /\ Len(seen') = 0
          /\ \A i \in 1..Len(seen') : seen'[i] = InputBit(bbr'.buf, g[Len(dest')] + (i - 1))
      BY <2>4, <2>8
    <3>4. Len(seen') < Len(NextCode(string', Len(dest')))
      BY <2>9, <3>2, <3>3
    <3>5. InStep(bbr', g[Len(dest')] + Len(seen'))
      BY <2>4, <2>5, <2>7, <3>2, <3>3
    <3> QED
      BY <2>11, <3>1, <3>2, <3>3, <3>4, <3>5
         DEF Decoding, Spells, Marks, NextCode, InStep, InputBit
  <2> QED
    BY <1>1, <2>4, <2>10 DEF StringInv
<1> QED
  BY <1>1, <1>4, <1>5 DEF StringInv

LEMMA StopDecodingI == StringInv /\ StopDecoding => StringInv'
<1> SUFFICES ASSUME StringInv, StopDecoding PROVE StringInv'
  OBVIOUS
<1>1. /\ stage = "decode" /\ seen = <<>> /\ (AtEos \/ Full)
      /\ stage' = IF AtEos THEN "done" ELSE "failed"
      /\ UNCHANGED <<hoisted, string, taken, coder, sent, bbr, seen, dest>>
  BY DEF StopDecoding
<1>2. PICK g : Decoding(g)
  BY <1>1 DEF StringInv
<1>3. string \in Strings /\ hoisted \in BOOLEAN
  BY DEF StringInv
<1>4. AtEos
  BY <1>1, <1>2, <1>3, NeverFull
<1>5. Len(dest) = Len(string)
  BY <1>1, <1>2, <1>3, <1>4, EosAtEnd
<1>6. dest = string
  BY <1>2, <1>3, <1>5, AllRead
<1> QED
  BY <1>1, <1>3, <1>4, <1>6 DEF StringInv

LEMMA DecodeEosI == StringInv /\ DecodeEos => StringInv'
<1> SUFFICES ASSUME StringInv, DecodeEos PROVE StringInv'
  OBVIOUS
<1>1. /\ stage = "decode" /\ Ends(Eos, seen, bbr.octet) /\ stage' = "done"
      /\ UNCHANGED <<hoisted, string, taken, coder, sent, bbr, seen, dest>>
  BY DEF DecodeEos, LooksUp
<1>2. PICK g : Decoding(g)
  BY <1>1 DEF StringInv
<1>3. string \in Strings /\ hoisted \in BOOLEAN
  BY DEF StringInv
<1>4. Len(dest) = Len(string)
  BY <1>1, <1>2, <1>3, LookupRight
<1>5. dest = string
  BY <1>2, <1>3, <1>4, AllRead
<1> QED
  BY <1>1, <1>3, <1>5 DEF StringInv

\* What is discarded after a lookup is what the code has in the octet looked up.
LEMMA DiscardIs ==
    ASSUME NEW s \in DOMAIN Etable, NEW b \in Seq({0, 1}), NEW k \in Nat,
           Len(b) = HuffBits * k, Len(Etable[s]) - Len(b) \in 1..HuffBits,
           \A i \in 1..Len(b) : b[i] = Etable[s][i]
    PROVE  Discard(Etable[s], b) = Len(Etable[s]) - Len(b)
<1> DEFINE c == Etable[s]
           l == Len(c)
           d == l - Len(b)
           H == HuffBits
<1>1. H \in Nat \ {0} /\ c \in Seq({0, 1}) /\ Discardable(c)
  BY BitsAssumption, CodeAssumption
<1>2. l \in Nat /\ Len(b) \in Nat /\ d \in 1..H /\ l = H * k + d /\ Len(b) = H * k
  <2>1. l \in Nat /\ Len(b) \in Nat
    BY <1>1
  <2>2. d \in 1..H
    OBVIOUS
  <2>3. Len(b) = H * k
    OBVIOUS
  <2>4. d = l - Len(b)
    OBVIOUS
  <2> DEFINE n == Len(b)
  <2> HIDE DEF d, l, n
  <2>5. l = n + d
    BY <2>1, <2>4 DEF n
  <2> QED
    BY <2>1, <2>2, <2>3, <2>5 DEF n
<1>3. Discard(c, b) = IF b = <<>> \/ (Len(b) = 2 * H /\ Begun(b)) THEN d ELSE l % H
  BY DEF Discard
<1>4. Discardable(c) <=> (l % H = 0 => l = H \/ (l = 3 * H /\ Begun(c)))
  BY DEF Discardable
<1>5. ASSUME Begun(c), Len(b) = 2 * H PROVE Begun(b)
  BY <1>5 DEF Begun
<1>6. Len(b) = 0 => b = <<>>
  OBVIOUS
<1> HIDE DEF c, l, d, H
<1>7. CASE d < H
  <2>1. d \in 0..(H - 1)
    BY <1>1, <1>2, <1>7
  <2>2. l % H = d
    <3>1. /\ H \in Nat \ {0} /\ k \in Nat /\ d \in 0..(H - 1) /\ l \in Nat
          /\ l = H * k + d
      BY <1>1, <1>2, <2>1
    <3> QED
      BY <3>1, DivUnique
  <2> QED
    BY <1>3, <2>2 DEF c, l, d
<1>8. CASE ~(d < H)
  <2>1. d = H /\ Len(b) = l - H
    BY <1>1, <1>2, <1>8
  <2>2. l = H * (k + 1) + 0 /\ k + 1 \in Nat /\ 0 \in 0..(H - 1)
    BY <1>1, <1>2, <2>1
  <2>3. l % H = 0
    <3> DEFINE q == k + 1
               r == 0
    <3>1. H \in Nat \ {0} /\ q \in Nat /\ r \in 0..(H - 1) /\ l \in Nat /\ l = H * q + r
      BY <1>1, <1>2, <2>2
    <3> HIDE DEF q, r
    <3>2. l % H = r
      BY <3>1, DivUnique
    <3> QED
      BY <3>2 DEF r
  <2>4. l = H \/ (l = 3 * H /\ Begun(c))
    BY <1>1, <1>4, <2>3
  <2>5. CASE l = H
    <3>1. Len(b) = 0
      BY <1>1, <2>1, <2>5
    <3> QED
      BY <1>3, <1>6, <3>1 DEF c, l, d
  <2>6. CASE l = 3 * H /\ Begun(c)
    <3>1. Len(b) = 2 * H
      BY <1>1, <2>1, <2>6
    <3> QED
      BY <1>3, <1>5, <2>6, <3>1 DEF c, l, d
  <2> QED
    BY <2>4, <2>5, <2>6
<1> QED
  BY <1>7, <1>8

LEMMA DecodeSymbolI == StringInv /\ DecodeSymbol => StringInv'
<1> SUFFICES ASSUME StringInv, DecodeSymbol PROVE StringInv'
  OBVIOUS
<1>1. /\ stage = "decode" /\ seen' = <<>>
      /\ UNCHANGED <<hoisted, string, stage, taken, coder, sent>>
  BY DEF DecodeSymbol, LooksUp
<1>2. PICK s \in Found(seen, bbr.octet) :
        /\ dest' = Append(dest, s)
        /\ bbr' = LoadNext(bbr, Discard(Etable[s], seen))
  BY DEF DecodeSymbol
<1>3. PICK g : Decoding(g)
  BY <1>1 DEF StringInv
<1>4. string \in Strings
  BY DEF StringInv
<1> DEFINE n == Len(dest)
           c == Etable[s]
           l == Len(c)
           b == Len(seen)
           d == l - b
<1>5. /\ string \in Seq(DOMAIN Etable) /\ Len(string) \in Nat /\ n \in 0..Len(string)
      /\ g[n] \in Nat /\ b \in Nat
  BY <1>3, <1>4, DecodingTypes
<1>6. n < Len(string) /\ s = string[n + 1] /\ d \in 1..HuffBits
  BY <1>2, <1>3, <1>4, LookupRight
<1>7. n + 1 \in 1..Len(string) /\ n + 1 \in 0..Len(string) /\ (n + 1) - 1 = n /\ n \in Nat
  BY <1>5, <1>6
<1>8. s \in DOMAIN Etable /\ l \in Nat \ {0}
  BY <1>5, <1>6, <1>7, SymbolCode
<1>9. Spells(string, g, bbr.buf)
  BY <1>3 DEF Decoding
<1>10. g[n + 1] = g[n] + l
  BY <1>6, <1>7, <1>9 DEF Spells, Marks
<1>11. /\ dest \in Seq(DOMAIN Etable) /\ InStep(bbr, g[n] + b)
       /\ \A m \in 1..n : dest[m] = string[m]
  BY <1>3 DEF Decoding
<1>12. /\ dest' \in Seq(DOMAIN Etable) /\ Len(dest') = n + 1
       /\ \A m \in 1..(n + 1) : dest'[m] = string[m]
  <2>1. /\ dest' \in Seq(DOMAIN Etable) /\ Len(dest') = n + 1 /\ dest'[n + 1] = s
        /\ \A m \in 1..n : dest'[m] = dest[m]
    BY <1>2, <1>8, <1>11
  <2>2. \A m \in 1..(n + 1) : m \in 1..n \/ m = n + 1
    BY <1>7
  <2> QED
    BY <1>6, <1>11, <2>1, <2>2
<1> HIDE DEF n, c, l, b
<1>13. g[n] + b \in Int /\ (g[n] + b) + d = g[n + 1] /\ g[n + 1] + 0 = g[n + 1]
  BY <1>5, <1>8, <1>10
<1>14. bbr' = LoadNext(bbr, d)
  <2>1. PICK k \in Nat : Len(seen) = HuffBits * k
    BY <1>3 DEF Decoding
  <2>2. seen \in Seq({0, 1}) /\ \A i \in 1..Len(seen) : seen[i] = Etable[s][i]
    <3>1. NextCode(string, Len(dest)) = Etable[s]
      BY <1>2, <1>3, <1>4, LookupRight
    <3>2. \A i \in 1..Len(Etable[s]) : Etable[s][i] = InputBit(bbr.buf, g[Len(dest)] + (i - 1))
      BY <1>3, <1>4, <3>1, DecodingTypes
    <3>3. /\ seen \in Seq({0, 1}) /\ Len(seen) < Len(Etable[s])
          /\ \A i \in 1..Len(seen) : seen[i] = InputBit(bbr.buf, g[Len(dest)] + (i - 1))
      BY <1>3, <3>1 DEF Decoding
    <3>4. Len(seen) \in Nat /\ Len(Etable[s]) \in Nat
      BY <1>5, <1>8 DEF b, l, c
    <3>5. \A i \in 1..Len(seen) : i \in 1..Len(Etable[s])
      BY <3>3, <3>4
    <3> QED
      BY <3>2, <3>3, <3>5
  <2>3. Len(Etable[s]) - Len(seen) \in 1..HuffBits
    BY <1>6 DEF d, l, c, b
  <2>4. Discard(Etable[s], seen) = Len(Etable[s]) - Len(seen)
    BY <1>8, <2>1, <2>2, <2>3, DiscardIs
  <2> QED
    BY <1>2, <2>4 DEF d, l, c, b
<1> HIDE DEF d
<1>15. InStep(LoadNext(bbr, d), (g[n] + b) + d) /\ LoadNext(bbr, d).buf = bbr.buf
  BY <1>6, <1>11, <1>13, LoadInStep
<1>16. InStep(bbr', g[n + 1] + 0) /\ bbr'.buf = bbr.buf
  BY <1>13, <1>14, <1>15
<1>17. Len(NextCode(string, n + 1)) \in Nat \ {0}
  BY <1>5, <1>7, <1>9, NextBits
<1>18. /\ <<>> \in Seq({0, 1}) /\ Len(<<>>) = 0 /\ (\A i \in 1..0 : FALSE)
       /\ 0 < Len(NextCode(string, n + 1)) /\ n + 1 <= Len(string)
  BY <1>7, <1>17
<1>19. Decoding(g)'
  <2>1. Spells(string', g, bbr'.buf)
    BY <1>1, <1>9, <1>16
  <2>2. Len(seen') < Len(NextCode(string', Len(dest'))) /\ Len(seen') = 0
    BY <1>1, <1>12, <1>18
  <2>3. InStep(bbr', g[Len(dest')] + Len(seen'))
    BY <1>12, <1>16, <2>2
  <2>4. /\ Len(dest') <= Len(string') /\ \A m \in 1..Len(dest') : dest'[m] = string'[m]
    BY <1>1, <1>12, <1>18
  <2>5. seen' \in Seq({0, 1}) /\ \A i \in 1..Len(seen') : FALSE
    BY <1>1, <1>18
  <2>6. \A i \in 1..Len(seen') : seen'[i] = InputBit(bbr'.buf, g[Len(dest')] + (i - 1))
    BY <2>5
  <2>7. \E k \in Nat : Len(seen') = HuffBits * k
    BY <2>2, BitsAssumption
  <2> QED
    BY <1>12, <2>1, <2>2, <2>3, <2>4, <2>5, <2>6, <2>7
       DEF Decoding, Spells, Marks, NextCode, InStep, InputBit
<1> QED
  BY <1>1, <1>19 DEF StringInv

\* The bits of the octet shown are the next ones of the code.
LEMMA SeesOctet ==
    ASSUME NEW r, NEW p \in Nat, NEW b \in Seq({0, 1}), InStep(r, p + Len(b)),
           \A i \in 1..Len(b) : b[i] = InputBit(r.buf, p + (i - 1))
    PROVE  LET t == b \o [i \in 1..HuffBits |-> r.octet[i - 1]]
           IN  /\ t \in Seq({0, 1}) /\ Len(t) = Len(b) + HuffBits
               /\ \A i \in 1..Len(t) : t[i] = InputBit(r.buf, p + (i - 1))
<1> DEFINE o == [i \in 1..HuffBits |-> r.octet[i - 1]]
           l == Len(b)
           t == b \o o
<1>1. HuffBits \in Nat \ {0} /\ l \in Nat
  BY BitsAssumption
<1>2. \A i \in 1..HuffBits : i - 1 \in Places /\ (p + l) + (i - 1) = p + ((l + i) - 1)
  BY <1>1 DEF Places
<1>3. /\ r.octet \in Octet /\ \A i \in Places : r.octet[i] = InputBit(r.buf, (p + l) + i)
  BY DEF InStep
<1>4. \A i \in 1..HuffBits :
        r.octet[i - 1] \in {0, 1} /\ r.octet[i - 1] = InputBit(r.buf, p + ((l + i) - 1))
  BY <1>2, <1>3, OctetBits
<1>5. /\ o \in Seq({0, 1}) /\ Len(o) = HuffBits
      /\ \A i \in 1..HuffBits : o[i] = InputBit(r.buf, p + ((l + i) - 1))
  BY <1>1, <1>4
<1> HIDE DEF o
<1>6. t \in Seq({0, 1}) /\ Len(t) = l + HuffBits /\ \A i \in 1..l : t[i] = b[i]
  BY <1>5, FrontOf
<1>7. \A i \in 1..HuffBits : t[l + i] = o[i]
  <2>1. \A i \in 1..Len(o) : (b \o o)[Len(b) + i] = o[i]
    BY <1>5, BackOf
  <2> QED
    BY <1>5, <2>1
<1> HIDE DEF t, l
<1>8. ASSUME NEW i \in 1..(l + HuffBits) PROVE t[i] = InputBit(r.buf, p + (i - 1))
  <2>1. CASE i <= l
    <3>1. i \in 1..l
      BY <1>1, <2>1
    <3> QED
      BY <1>6, <3>1 DEF l
  <2>2. CASE ~(i <= l)
    <3> DEFINE j == i - l
    <3>1. j \in 1..HuffBits /\ l + j = i
      BY <1>1, <2>2
    <3> HIDE DEF j
    <3> QED
      BY <1>5, <1>7, <3>1
  <2> QED
    BY <2>1, <2>2
<1> QED
  BY <1>6, <1>8 DEF t, l, o

LEMMA NextTableI == StringInv /\ NextTable => StringInv'
<1> SUFFICES ASSUME StringInv, NextTable PROVE StringInv'
  OBVIOUS
<1> DEFINE t == seen \o [i \in 1..HuffBits |-> bbr.octet[i - 1]]
           n == Len(dest)
           b == Len(seen)
<1>1. /\ stage = "decode" /\ Found(seen, bbr.octet) = {} /\ ~Ends(Eos, seen, bbr.octet)
      /\ seen' = t /\ bbr' = LoadNext(bbr, HuffBits)
      /\ UNCHANGED <<hoisted, string, stage, taken, coder, sent, dest>>
  BY DEF NextTable, LooksUp
<1>2. PICK g : Decoding(g)
  BY <1>1 DEF StringInv
<1>3. string \in Strings
  BY DEF StringInv
<1>4. /\ string \in Seq(DOMAIN Etable) /\ g[n] \in Nat /\ b \in Nat /\ HuffBits \in Nat \ {0}
  BY <1>2, <1>3, DecodingTypes, BitsAssumption
<1>5. b + HuffBits < Len(NextCode(string, n))
  BY <1>1, <1>2, <1>3, LookupRight
<1>6. /\ Spells(string, g, bbr.buf) /\ seen \in Seq({0, 1}) /\ InStep(bbr, g[n] + b)
      /\ \A i \in 1..b : seen[i] = InputBit(bbr.buf, g[n] + (i - 1))
      /\ dest \in Seq(DOMAIN Etable) /\ n <= Len(string)
      /\ \A m \in 1..n : dest[m] = string[m]
  BY <1>2 DEF Decoding
<1>7. /\ t \in Seq({0, 1}) /\ Len(t) = b + HuffBits
      /\ \A i \in 1..Len(t) : t[i] = InputBit(bbr.buf, g[n] + (i - 1))
  BY <1>4, <1>6, SeesOctet
<1> HIDE DEF t, n, b
<1>8. g[n] + b \in Int /\ HuffBits \in 1..HuffBits /\ (g[n] + b) + HuffBits = g[n] + (b + HuffBits)
  BY <1>4
<1>9. InStep(LoadNext(bbr, HuffBits), (g[n] + b) + HuffBits)
      /\ LoadNext(bbr, HuffBits).buf = bbr.buf
  BY <1>6, <1>8, LoadInStep
<1>10. InStep(bbr', g[n] + (b + HuffBits)) /\ bbr'.buf = bbr.buf
  BY <1>1, <1>8, <1>9
<1>11. Decoding(g)'
  <2>1. Spells(string', g, bbr'.buf) /\ dest' = dest /\ string' = string /\ Len(dest') = n
    BY <1>1, <1>6, <1>10 DEF n
  <2>2. Len(seen') < Len(NextCode(string', Len(dest'))) /\ seen' \in Seq({0, 1})
    BY <1>1, <1>5, <1>7, <2>1
  <2>3. InStep(bbr', g[Len(dest')] + Len(seen'))
    BY <1>1, <1>7, <1>10, <2>1
  <2>4. \A i \in 1..Len(seen') : seen'[i] = InputBit(bbr'.buf, g[Len(dest')] + (i - 1))
    BY <1>1, <1>7, <1>10, <2>1
  <2>5. /\ dest' \in Seq(DOMAIN Etable) /\ Len(dest') <= Len(string')
        /\ \A m \in 1..Len(dest') : dest'[m] = string'[m]
    BY <1>6, <2>1
  <2>6. \E k \in Nat : Len(seen') = HuffBits * k
    <3>1. PICK k \in Nat : Len(seen) = HuffBits * k
      BY <1>2 DEF Decoding
    <3>2. b + HuffBits = HuffBits * (k + 1) /\ k + 1 \in Nat
      BY <1>4, <3>1 DEF b
    <3> QED
      BY <1>1, <1>7, <3>2
  <2> QED
    BY <2>1, <2>2, <2>3, <2>4, <2>5, <2>6 DEF Decoding, Spells, Marks, NextCode, InStep, InputBit
<1> QED
  BY <1>1, <1>11 DEF StringInv

\* Every string that hpack_encode_string returns is read back as it was written, raw
\* or coded, and the room made for it is never used up, whether or not bb_eos is called
\* in each round: for every size of octet and every code table in which no code begins
\* another one or the end of string and none that fills its last octet is discarded by
\* its length modulo an octet, if the lookups find what that table holds.
THEOREM StringsSurvive == StringSpec => []StringRoundTrip
<1>1. StringInv /\ [StringNext]_stringVars => StringInv'
  <2> SUFFICES ASSUME StringInv, [StringNext]_stringVars PROVE StringInv'
    OBVIOUS
  <2>1. CASE UNCHANGED stringVars
    BY <2>1 DEF StringInv, stringVars, SentRaw, SentCoded, Decoding
  <2> QED
    BY <2>1, EncodeNextI, SendStringI, ReadStringI, StopDecodingI, DecodeSymbolI, DecodeEosI,
       NextTableI DEF StringNext
<1>2. StringInv => StringRoundTrip
  BY DEF StringInv, StringRoundTrip
<1> QED
  BY <1>1, <1>2, StringStart, PTL DEF StringSpec
=============================================================================
