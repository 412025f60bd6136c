-------------------------------- MODULE Huffy --------------------------------
(***************************************************************************)
(* HPACK's string literals: the Huffman encoder (dependencies/hpack/huffy/ *)
(* encode.c) and decoder (decode.c), over the bit reader (BitBuf), and the *)
(* choice between the coded and the raw form (header.cpp).                 *)
(*                                                                         *)
(* The code table is a parameter: it maps each symbol to the bits of its   *)
(* code.  The lookup tables of decode.c stand for what they are meant to   *)
(* hold: the symbol whose code ends in the octet looked up, behind the     *)
(* octets that have led to the table.  (Two of them are indexed by fewer   *)
(* bits, and the one behind 0xfe is an array of four: the same lookups.)   *)
(* That their contents are those of etable is not checked here; how many   *)
(* bits are discarded after each of them is, as the code computes it.      *)
(***************************************************************************)
EXTENDS HpackNumber, BitBuf

CONSTANTS
    Etable,    \* etable: the bits of the code of each symbol
    Eos,       \* the code of the end-of-string symbol: all ones
    MinBits,   \* bits of the shortest code, 5 in the code
    Slack      \* octets hpack_encode_string adds to its buffer, 10 in the code

\* After most lookups the code discards its length modulo an octet.  That is too
\* little for a code that fills its last octet, unless it is found in the first
\* octet or behind two octets of ones.
Begun(c) == \A i \in 1..(2 * HuffBits) : c[i] = 1
Discardable(c) ==
    Len(c) % HuffBits = 0 =>
        \/ Len(c) = HuffBits
        \/ Len(c) = 3 * HuffBits /\ Begun(c)

\* No code is the beginning of another one.
Differ(c, e) == \E i \in DOMAIN c \cap DOMAIN e : c[i] # e[i]

ASSUME CodeAssumption ==
    /\ MinBits \in Nat \ {0} /\ Slack \in Nat \ {0} /\ MaxOctets <= Slack
    /\ \A s \in DOMAIN Etable : Discardable(Etable[s])
    /\ \A s \in DOMAIN Etable : Etable[s] \in Seq({0, 1}) /\ Len(Etable[s]) >= MinBits
    /\ \A s, t \in DOMAIN Etable : s # t => Differ(Etable[s], Etable[t])
    /\ Eos \in Seq({1}) /\ Eos # <<>> /\ \A s \in DOMAIN Etable : Differ(Etable[s], Eos)

-----------------------------------------------------------------------------
\* encode

NothingCoded == [existing |-> 0, partial |-> Zeros, out |-> <<>>]

\* (uint8_t)(huffcode >> n); below zero, of huffcode << -n.
CodeOctet(c, n) ==
    [i \in Places |-> LET at == Len(c) + i + 1 - HuffBits - n
                      IN  IF at \in DOMAIN c THEN c[at] ELSE 0]

\* The bits of a code c that do not fit the partial octet, and the octets that all
\* but the last 1 to HuffBits of them fill.
BitsLeft(st, c) ==
    IF st.existing # 0 THEN st.existing + Len(c) - HuffBits ELSE Len(c)
FullOctets(bits) == IF bits = 0 THEN 0 ELSE (bits - 1) \div HuffBits

\* One symbol, with the code c: it stays inside the partial octet, or fills it up;
\* then the full octets are written and the rest is kept.
StaysPartial(st, c) ==
    LET ends == st.existing + Len(c)
    IN  [existing |-> ends, partial |-> Or(st.partial, CodeOctet(c, ends - HuffBits)),
         out |-> st.out]

FillsOctets(st, c, bits, full) ==
    LET rest == bits - full * HuffBits
        first == IF st.existing # 0 THEN <<Or(st.partial, CodeOctet(c, bits))>> ELSE <<>>
    IN  [existing |-> rest,
         partial |-> IF rest = 0 THEN Zeros ELSE CodeOctet(c, rest - HuffBits),
         out |-> st.out \o first \o [m \in 1..full |-> CodeOctet(c, bits - m * HuffBits)]]

EncodeSymbol(st, c) ==
    IF st.existing # 0 /\ st.existing + Len(c) < HuffBits THEN StaysPartial(st, c)
    ELSE FillsOctets(st, c, BitsLeft(st, c), FullOctets(BitsLeft(st, c)))

\* What fills the last octet up.
Padding(existing) == [i \in Places |-> IF i < existing THEN 0 ELSE 1]

\* What encode has written when it is through.
Encoding(st) ==
    IF st.existing = 0 THEN st.out ELSE Append(st.out, Or(st.partial, Padding(st.existing)))

LengthPrefix(len) == EncodeNumber(len, ContBits, MaxOctets)

\* huffman_encode into buflen octets: the length of the result, -1 on failure.
HuffmanLen(coding, buflen) ==
    IF Len(coding) > buflen - 1 \/ LengthPrefix(Len(coding)) = <<>> THEN -1
    ELSE Len(LengthPrefix(Len(coding))) + Len(coding)

\* The coded octets fit behind one octet of length; memmove writes them past the end
\* of the buffer to make room for a longer one (encode.c:117-118).
Overruns(s, coding) == HuffmanLen(coding, Slack + Len(s)) > Slack + Len(s)

\* hpack_encode_string: the form it takes, or that it throws.
Form(s, coding) ==
    LET len == HuffmanLen(coding, Slack + Len(s))
        raw == LengthPrefix(Len(s))
    IN  CASE len > 0 /\ len <= Len(s) -> "coded"
          [] ~(len > 0 /\ len <= Len(s)) /\ raw = <<>> -> IF len > 0 THEN "coded" ELSE "threw"
          [] OTHER -> IF len < 0 \/ Len(raw) + Len(s) < len THEN "raw" ELSE "coded"

\* The length behind the bit that tells the coded form from the raw one.
HuffmanBit == Pow2[ContBits]
CodedPrefix(len) == [LengthPrefix(len) EXCEPT ![1] = HuffmanBit + @]

-----------------------------------------------------------------------------
\* huffman_decode

\* A lookup: does the code c end in the octet shown, after the bits seen of it?
Ends(c, seen, octet) ==
    /\ Len(c) - Len(seen) \in 1..HuffBits
    /\ \A i \in DOMAIN c :
          c[i] = IF i <= Len(seen) THEN seen[i] ELSE octet[i - Len(seen) - 1]

Found(seen, octet) == {s \in DOMAIN Etable : Ends(Etable[s], seen, octet)}

\* Mutant: the length modulo an octet after every lookup.
DiscardModulo(c, seen) == Len(c) % HuffBits

\* How many bits are discarded after it.
Discard(c, seen) ==
    IF seen = <<>> \/ (Len(seen) = 2 * HuffBits /\ Begun(seen))
    THEN Len(c) - Len(seen) ELSE Len(c) % HuffBits

\* The room decode_huff_string_from_rbuf makes for a string of len coded octets.
DecodedRoom(len) == (len * HuffBits) \div MinBits + 1
=============================================================================
