------------------------------- MODULE BitBuf -------------------------------
(***************************************************************************)
(* The bit reader of HPACK's Huffman decoder (dependencies/hpack/huffy/    *)
(* bitbuf.c).  An octet is the function of its HuffBits bits, 8 in the     *)
(* code, from the left and from 0.                                         *)
(***************************************************************************)
EXTENDS Integers, Sequences

CONSTANT HuffBits   \* 8 in the code

ASSUME BitsAssumption == HuffBits \in Nat \ {0}

Places == 0..(HuffBits - 1)
Octet == [Places -> {0, 1}]
Zeros == [i \in Places |-> 0]
Ones == [i \in Places |-> 1]

\* x << n, x >> n and x | y on uint8_t.
Shl(x, n) == [i \in Places |-> IF i + n < HuffBits THEN x[i + n] ELSE 0]
Shr(x, n) == [i \in Places |-> IF i >= n THEN x[i - n] ELSE 0]
Or(x, y) == [i \in Places |-> IF x[i] = 1 THEN 1 ELSE y[i]]

\* Mutant: the end of the input is noted one octet late.
EosAfterLate(r) == HuffBits + HuffBits

\* The bits left in octet and next when the input ends.
EosAfter(r) == HuffBits + r.nextBits

\* bb_load_next: discard d bits.  The reader shows octet, next holds the nextBits
\* bits behind it, the input is at pos; past its end there are ones.
LoadNext(r, d) ==
    LET load == r.nextBits <= d
        atEnd == load /\ r.pos > Len(r.buf)
        loaded == IF atEnd THEN Ones ELSE r.buf[r.pos]
        kept == Or(Shl(r.octet, d), Shr(r.next, HuffBits - d))
        eos == IF atEnd /\ r.eos = -1 THEN EosAfter(r) ELSE r.eos
    IN  [buf |-> r.buf,
         octet |-> IF load THEN Or(kept, Shr(loaded, HuffBits - d + r.nextBits)) ELSE kept,
         next |-> IF load THEN Shl(loaded, d - r.nextBits) ELSE Shl(r.next, d),
         nextBits |-> IF load THEN HuffBits - (d - r.nextBits) ELSE r.nextBits - d,
         pos |-> IF load /\ ~atEnd THEN r.pos + 1 ELSE r.pos,
         eos |-> IF eos = -1 THEN -1 ELSE IF d > eos THEN 0 ELSE eos - d]

\* bb_reader_init: two octets push out what is not of the input.
Cleared(buf) ==
    [buf |-> buf, octet |-> Zeros, next |-> Zeros, nextBits |-> HuffBits, pos |-> 1, eos |-> -1]
ReaderInit(buf) == LoadNext(LoadNext(Cleared(buf), HuffBits), HuffBits)

\* bb_eos: nothing is left, or nothing but ones.  With more than an octet to go it
\* would shift by a negative number.
BbEos(r) ==
    \/ r.eos = 0
    \/ r.eos > 0 /\ LET mask == Shl(Ones, HuffBits - r.eos)
                    IN  \A i \in Places : mask[i] = 1 => r.octet[i] = 1
=============================================================================
