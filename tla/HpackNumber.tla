----------------------------- MODULE HpackNumber -----------------------------
(***************************************************************************)
(* The integers of HPACK (dependencies/hpack/number.c): a prefix of some   *)
(* bits in the first octet, then, for a number that does not fit, octets   *)
(* with ContBits bits each, the least significant first, all but the last  *)
(* marked by their top bit.  Seven bits in the code, and a uintmax_t of 64.*)
(*                                                                         *)
(* The bits of the first octet above the prefix are the caller's.          *)
(***************************************************************************)
EXTENDS Integers, Sequences, FiniteSetsExt

CONSTANTS
    ContBits,    \* 7 in the code
    NumberBits,  \* bits of uintmax_t
    MaxOctets    \* MAX_OCTETS, 10 in the code

\* No number has more continuation octets.
MostDigits == (NumberBits - 1) \div ContBits + 1

\* MAX_OCTETS is enough for them: "64-bit UINTMAX_MAX requires 10 octets".
ASSUME NumberAssumption ==
    /\ {ContBits, NumberBits, MaxOctets} \subseteq Nat \ {0}
    /\ MostDigits <= MaxOctets

\* 1 << k, as a function: a proof can unfold it, which it cannot do with ^.
Pow2[k \in Nat] == IF k = 0 THEN 1 ELSE 2 * Pow2[k - 1]

Cont == Pow2[ContBits]
NumberMax == Pow2[NumberBits] - 1

\* mult after k rounds of the loop of decode_number.
Units(k) == Pow2[ContBits * k]

Failed == [len |-> -1, number |-> 0]

\* mask_from_bits
MaskFromBits(bits) == Pow2[bits] - 1

\* Mutant: the loop ends one too early, at 0x80.
DigitsShort(number) == Min({k \in 1..MostDigits : number <= Units(k)})

\* How many octets the loop of encode_number and the assignment after it fill.
Digits(number) == Min({k \in 1..MostDigits : number < Units(k)})

\* encode_number into a buffer of buflen octets; <<>> when it fails.
EncodeNumber(number, bits, buflen) ==
    LET mask == MaskFromBits(bits)
        n == number - mask
        k == Digits(n)
        octets == IF number < mask THEN <<number>>
                  ELSE <<mask>> \o [i \in 1..k |->
                         ((n \div Units(i - 1)) % Cont) + (IF i < k THEN Cont ELSE 0)]
    IN  IF Len(octets) <= buflen THEN octets ELSE <<>>

\* The octets after the first that decode_number looks at, and those among them
\* without the mark: the first of these ends the number.
Continuation(buf) == 2..Min({Len(buf), MaxOctets + 1})
LastOctets(buf) == {i \in Continuation(buf) : buf[i] < Cont}

\* The test for an overflow of mult after octet i.
MultOverflows(i) == (Units(i - 2) * Cont) % (NumberMax + 1) < Units(i - 2)

\* *number after octet last, without the wrap-around: the sum is not checked for
\* an overflow, only mult is.
Accumulated(buf, bits, last) ==
    LET number[i \in 1..last] ==
            IF i = 1 THEN buf[1] % Pow2[bits]
            ELSE number[i - 1] + (buf[i] % Cont) * Units(i - 2)
    IN  number[last]

\* decode_number: how many octets were used, and the number.
DecodeNumber(buf, bits) ==
    LET field == buf[1] % Pow2[bits]
        last == Min(LastOctets(buf))
    IN  IF buf = <<>> THEN Failed
        ELSE IF field # MaskFromBits(bits) THEN [len |-> 1, number |-> field]
        ELSE IF LastOctets(buf) = {} THEN Failed
        ELSE IF \E i \in 2..(last - 1) : MultOverflows(i) THEN Failed
        ELSE [len |-> last, number |-> Accumulated(buf, bits, last) % (NumberMax + 1)]
=============================================================================
