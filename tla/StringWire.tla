----------------------------- MODULE StringWire -----------------------------
(***************************************************************************)
(* A string literal of HPACK on the wire: hpack_encode_string codes it     *)
(* symbol by symbol or leaves it raw, decode_string_from_rbuf and          *)
(* huffman_decode read it, a lookup at a time (Huffy).                     *)
(***************************************************************************)
EXTENDS Huffy

CONSTANT Strings   \* what is sent

ASSUME StringAssumption ==
    Strings \subseteq Seq(DOMAIN Etable) /\ \A s \in Strings : Len(s) + Slack <= NumberMax

VARIABLES
    hoisted,  \* the compiler calls bb_eos, declared const, only once
    string,   \* what is sent
    stage,    \* encode, sent, decode, done; or threw, overran, failed
    taken,    \* how many of its symbols are coded
    coder,    \* encode's existing_bits, partial and what it has written
    sent,     \* the length prefix and the body
    bbr,      \* the bit reader
    seen,     \* the bits of the current code in the octets looked up before
    dest      \* the symbols decoded

stringVars == <<hoisted, string, stage, taken, coder, sent, bbr, seen, dest>>

StringInit ==
    /\ hoisted \in BOOLEAN /\ string \in Strings
    /\ stage = "encode" /\ taken = 0 /\ coder = NothingCoded
    /\ sent = <<>> /\ bbr = <<>> /\ seen = <<>> /\ dest = <<>>

\* The loop of encode.
EncodeNext ==
    /\ stage = "encode" /\ taken < Len(string)
    /\ coder' = EncodeSymbol(coder, Etable[string[taken + 1]])
    /\ taken' = taken + 1
    /\ UNCHANGED <<hoisted, string, stage, sent, bbr, seen, dest>>

\* The rest of hpack_encode_string: what it returns.  If memmove went past the buffer
\* and the program survived that, the raw form is returned: the coded one is longer.
Returns ==
    /\ stage = "encode" /\ taken = Len(string)
    /\ LET coding == Encoding(coder)
           form == Form(string, coding)
       IN  /\ stage' = IF form = "threw" THEN "threw" ELSE "sent"
           /\ sent' = CASE form = "coded" ->
                             [prefix |-> CodedPrefix(Len(coding)), body |-> coding]
                        [] form = "raw" ->
                             [prefix |-> LengthPrefix(Len(string)), body |-> string]
                        [] form = "threw" -> <<>>
    /\ UNCHANGED <<hoisted, string, taken, coder, bbr, seen, dest>>

\* Or the overrun does what it likes.
Overrun ==
    /\ stage = "encode" /\ taken = Len(string)
    /\ Overruns(string, Encoding(coder))
    /\ stage' = "overran"
    /\ UNCHANGED <<hoisted, string, taken, coder, sent, bbr, seen, dest>>

SendString == Returns \/ Overrun

\* decode_string_from_rbuf: the length, then the symbols themselves or the start of
\* the decoder.
ReadString ==
    /\ stage = "sent"
    /\ LET slen == DecodeNumber(sent.prefix, ContBits).number
           rest == SubSeq(sent.body, 1, slen)
       IN  \/ /\ sent.prefix[1] < HuffmanBit
              /\ stage' = "done" /\ dest' = rest
              /\ UNCHANGED bbr
           \/ /\ sent.prefix[1] >= HuffmanBit
              /\ stage' = "decode" /\ bbr' = ReaderInit(rest)
              /\ UNCHANGED dest
    /\ UNCHANGED <<hoisted, string, taken, coder, sent, seen>>

AtEos == BbEos(IF hoisted THEN ReaderInit(bbr.buf) ELSE bbr)
Full == Len(dest) = DecodedRoom(Len(bbr.buf))

\* The start of a round of huffman_decode's loop: is it over?
StopDecoding ==
    /\ stage = "decode" /\ seen = <<>> /\ (AtEos \/ Full)
    /\ stage' = IF AtEos THEN "done" ELSE "failed"
    /\ UNCHANGED <<hoisted, string, taken, coder, sent, bbr, seen, dest>>

LooksUp == stage = "decode" /\ (seen = <<>> => ~AtEos /\ ~Full)

\* A lookup gives a symbol,
DecodeSymbol ==
    /\ LooksUp
    /\ \E s \in Found(seen, bbr.octet) :
          /\ dest' = Append(dest, s)
          /\ bbr' = LoadNext(bbr, Discard(Etable[s], seen))
    /\ seen' = <<>>
    /\ UNCHANGED <<hoisted, string, stage, taken, coder, sent>>

\* the end of the string,
DecodeEos ==
    /\ LooksUp /\ Found(seen, bbr.octet) = {} /\ Ends(Eos, seen, bbr.octet)
    /\ stage' = "done"
    /\ UNCHANGED <<hoisted, string, taken, coder, sent, bbr, seen, dest>>

\* or the table for the next octet.
NextTable ==
    /\ LooksUp /\ Found(seen, bbr.octet) = {} /\ ~Ends(Eos, seen, bbr.octet)
    /\ seen' = seen \o [i \in 1..HuffBits |-> bbr.octet[i - 1]]
    /\ bbr' = LoadNext(bbr, HuffBits)
    /\ UNCHANGED <<hoisted, string, stage, taken, coder, sent, dest>>

StringNext ==
    EncodeNext \/ SendString \/ ReadString \/ StopDecoding \/ DecodeSymbol \/ DecodeEos
      \/ NextTable

StringSpec == StringInit /\ [][StringNext]_stringVars

-----------------------------------------------------------------------------
\* Every string is read back as it was written, coded or raw, wherever the codes
\* of its symbols fall on the octets and whether or not bb_eos, declared const
\* although it reads memory (bitbuf.h:40), is called in each round; the room made
\* for it is always enough.  (Unless the encoder threw or overran its buffer: then
\* nothing is sent.)
StringRoundTrip == stage \in {"done", "failed"} => stage = "done" /\ dest = string
=============================================================================
