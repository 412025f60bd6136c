----------------------------- MODULE HpackDecoder -----------------------------
(***************************************************************************)
(* The decoder of header blocks of one HTTP/2 connection (HeaderDecoder,   *)
(* HeaderTable, DynamicTable in dependencies/hpack/header.cpp) and the     *)
(* peer's encoder, which keeps a dynamic table of its own (RFC 7541): the  *)
(* two are never compared on the wire, and a difference would silently     *)
(* turn one header into another.                                           *)
(*                                                                         *)
(* A representation carries the octets of its number; the literal strings  *)
(* in it are atoms (their coding is in module Huffy).                      *)
(*                                                                         *)
(* Numbers are read as a uintmax_t; sizes and indices are kept in an       *)
(* unsigned, which is narrower.                                            *)
(***************************************************************************)
EXTENDS HpackNumber, SequencesExt

CONSTANTS
    Static,     \* static_table, from index 1: a sequence of [name, value]
    Name, Value,\* the strings in header fields
    Length,     \* their lengths
    Overhead,   \* 32 in the code
    TableSize,  \* the initial size_octets_, 4096 in the code
    Sizes,      \* table sizes the peer asks for
    UnsignedBits\* bits of an unsigned, 32 in the code

Field == [name : Name, value : Value]

ASSUME HpackAssumption ==
    /\ Overhead \in Nat \ {0} /\ TableSize \in Nat /\ Sizes \subseteq Nat
    /\ Length \in [Name \cup Value -> Nat]
    /\ Static \in Seq(Field)
    /\ UnsignedBits \in Nat \ {0} /\ TableSize < Pow2[UnsignedBits]

VARIABLES
    debug,      \* assert() is compiled in (a Debug build)
    table,      \* table_ of the DynamicTable, the newest first
    octets,     \* its size_octets_
    failure,    \* the exception that ended the server, if any
    got,        \* the header decoded last, or <<>>
    peerTable,  \* the peer's dynamic table
    peerSize,   \* and its size limit
    meant,      \* the header the peer meant by its last representation, or <<>>
    narrowed    \* history: a size or an index did not fit an unsigned

vars == <<debug, table, octets, failure, got, peerTable, peerSize, meant, narrowed>>
peer == <<peerTable, peerSize>>

Start == Len(Static) + 1          \* start_, 62 in the code
NoField == <<>>

Init ==
    /\ debug \in BOOLEAN
    /\ table = <<>> /\ octets = TableSize /\ failure = "none" /\ got = NoField
    /\ peerTable = <<>> /\ peerSize = TableSize /\ meant = NoField
    /\ narrowed = FALSE

\* What an unsigned makes of a number.
Unsigned(n) == n % Pow2[UnsignedBits]
Fits(n) == n < Pow2[UnsignedBits]

\* Header::hpack_size and DynamicTable::hpack_size, before they are narrowed.
FieldSize(h) == Overhead + Length[h.name] + Length[h.value]
HpackSize(t) ==
    LET sum[i \in 0..Len(t)] == IF i = 0 THEN 0 ELSE sum[i - 1] + FieldSize(t[i])
    IN  sum[Len(t)]

\* What is left of t once entries were dropped from its end until it fits.
Evicted(t, limit) ==
    SubSeq(t, 1, Max({k \in 0..Len(t) : HpackSize(SubSeq(t, 1, k)) <= limit}))

-----------------------------------------------------------------------------
\* The decoder's tables.

\* Mutant: the static table has one entry less.
InStaticShort(index) == index \in 1..(Start - 2)

InStatic(index) == index \in 1..(Start - 1)
InDynamic(index) == index - Start \in 0..(Len(table) - 1)

\* HeaderTable::get, where it does not throw.
Get(index) == IF InStatic(index) THEN Static[index] ELSE table[index - Start + 1]

\* How many entries are left when one of some size is to be inserted: those in front
\* of which, in unsigned arithmetic, it fits.
Left(size) ==
    Max({k \in 0..Len(table) :
           k = 0 \/ Unsigned(HpackSize(SubSeq(table, 1, k)) + size) <= octets})

\* Mutant: a table exactly full counts as too full.
InsertStrict(h) ==
    LET size == Unsigned(FieldSize(h))
    IN  table' = IF size > octets THEN <<>> ELSE <<h>> \o SubSeq(table, 1, Left(size + 1))

\* DynamicTable::insert: a field too large for the table empties it.
Insert(h) ==
    LET size == Unsigned(FieldSize(h))
    IN  table' = IF size > octets THEN <<>> ELSE <<h>> \o SubSeq(table, 1, Left(size))

\* DynamicTable::resize: a larger size is noted; a smaller one drops entries but
\* leaves size_octets_ as it was.  The assertion in the loop, that the entry is
\* larger than the whole table, fails whenever there is an entry to drop.
Resize(size) ==
    \/ /\ size >= octets
       /\ octets' = size
       /\ UNCHANGED <<table, failure>>
    \/ /\ size < octets /\ (~debug \/ HpackSize(table) <= size)
       /\ table' = Evicted(table, size)
       /\ UNCHANGED <<octets, failure>>
    \/ /\ size < octets /\ debug /\ HpackSize(table) > size
       /\ failure' = "assert"
       /\ UNCHANGED <<table, octets>>

-----------------------------------------------------------------------------
\* The peer's table (RFC 7541, section 4), and what it means by an index.

PeerEntry(index) ==
    IF index \in 1..(Start - 1) THEN Static[index]
    ELSE IF index - Start + 1 \in DOMAIN peerTable THEN peerTable[index - Start + 1]
    ELSE NoField

PeerInserts(h) ==
    /\ peerTable' = Evicted(<<h>> \o peerTable, peerSize)
    /\ UNCHANGED peerSize

PeerResizes(size) ==
    /\ peerTable' = Evicted(peerTable, size)
    /\ peerSize' = size

\* (Bound: the peer is followed up to the first number that does not fit.)
Sends(h) ==
    /\ failure = "none" /\ ~narrowed
    /\ meant' = h
    /\ UNCHANGED debug

\* What decode_number makes of a number with a prefix of some bits.
Coded(n, bits) == EncodeNumber(n, bits, MaxOctets + 1)
Received(n, bits) == DecodeNumber(Coded(n, bits), bits).number

\* A uintmax_t holds the table sizes asked for and the indices of such tables.
ASSUME NumbersAssumption ==
    \A size \in Sizes \cup {TableSize} : Start + size <= NumberMax

Throw(reason) == failure' = reason /\ got' = NoField /\ UNCHANGED <<table, octets>>

-----------------------------------------------------------------------------
\* The representations: what the peer sends and what the decoder does.

\* decode_indexed
DecodeIndexed(n) ==
    /\ Sends(PeerEntry(n))
    /\ narrowed' = ~Fits(Received(n, 7))
    /\ LET index == Unsigned(Received(n, 7)) IN
       \/ /\ ~InStatic(index) /\ ~InDynamic(index)
          /\ Throw("index")
       \/ /\ InStatic(index) \/ InDynamic(index)
          /\ got' = Get(index)
          /\ UNCHANGED <<table, octets, failure>>
    /\ UNCHANGED peer

\* decode_literal: the name is literal (n = 0) or that of entry n.
LiteralName(n, name, bits) ==
    IF Received(n, bits) = 0 THEN name ELSE Get(Unsigned(Received(n, bits))).name
LiteralThrows(n, bits) ==
    LET index == Unsigned(Received(n, bits))
    IN  Received(n, bits) # 0 /\ ~InStatic(index) /\ ~InDynamic(index)
Meant(n, h) ==
    IF n = 0 THEN h ELSE IF PeerEntry(n) = NoField THEN NoField
    ELSE [name |-> PeerEntry(n).name, value |-> h.value]

\* decode_literal_incremental.  The name is copied from the table before the
\* insertion may drop its entry.  (A peer that is wrong about an index is followed
\* up to its first insertion.)
DecodeLiteralIncremental(n, h) ==
    /\ Sends(Meant(n, h))
    /\ \/ /\ LiteralThrows(n, 6) /\ Throw("index")
          /\ narrowed' = ~Fits(Received(n, 6))
          /\ UNCHANGED peer
       \/ /\ ~LiteralThrows(n, 6) /\ Meant(n, h) # NoField
          /\ got' = [name |-> LiteralName(n, h.name, 6), value |-> h.value]
          /\ narrowed' = ~(Fits(Received(n, 6)) /\ Fits(HpackSize(table) + FieldSize(got')))
          /\ Insert(got')
          /\ PeerInserts(Meant(n, h))
          /\ UNCHANGED <<octets, failure>>

\* decode_literal_without_indexing, decode_literal_never_indexed
DecodeLiteral(n, h) ==
    /\ Sends(Meant(n, h))
    /\ narrowed' = ~Fits(Received(n, 4))
    /\ \/ LiteralThrows(n, 4) /\ Throw("index")
       \/ /\ ~LiteralThrows(n, 4)
          /\ got' = [name |-> LiteralName(n, h.name, 4), value |-> h.value]
          /\ UNCHANGED <<table, octets, failure>>
    /\ UNCHANGED peer

\* dynamic_table_resize, which wants bit 0x02 of the first octet to be set: it is
\* a bit of the size.
SizeBit(size) == (Coded(size, 5)[1] \div 2) % 2 = 1
DynamicTableResize(size) ==
    /\ Sends(NoField)
    /\ narrowed' = ~Fits(Received(size, 5))
    /\ \/ /\ SizeBit(size)
          /\ Resize(Unsigned(Received(size, 5)))
          /\ got' = NoField
       \/ /\ ~SizeBit(size)
          /\ Throw("resize")
    /\ PeerResizes(size)

Index == 0..(Start + Len(table))

Next ==
    \/ \E n \in Index : DecodeIndexed(n)
    \/ \E n \in Index, h \in Field : DecodeLiteralIncremental(n, h) \/ DecodeLiteral(n, h)
    \/ \E size \in Sizes : DynamicTableResize(size)

Spec == Init /\ [][Next]_vars

-----------------------------------------------------------------------------
TypeOK ==
    /\ debug \in BOOLEAN /\ failure \in {"none", "assert", "index", "resize"}
    /\ table \in Seq(Field) /\ octets \in {Unsigned(size) : size \in Sizes \cup {TableSize}}
    /\ peerTable \in Seq(Field) /\ peerSize \in Sizes \cup {TableSize}
    /\ narrowed \in BOOLEAN /\ got \in Field \cup {NoField} /\ meant \in Field \cup {NoField}

\* The entries the peer knows are the newest of the decoder's, in the same order,
\* whatever was inserted, dropped, or resized: every index the peer may use
\* stands for the same field at both ends, and the decoder's table stays within
\* its limit.  (After the peer lowered its limit the decoder keeps more:
\* header.cpp:332-350.)  That is so until a size, an index or the sum of a full table
\* and a new entry does not fit an unsigned (header.h:77-80): then the two tables part.
TablesAgree ==
    ~narrowed =>
        /\ failure = "none" => IsPrefix(peerTable, table)
        /\ HpackSize(table) <= octets

\* Each representation is decoded to the field the peer meant, and none that
\* means a field is refused for its index, as long as all of them fit an unsigned.
DecodedAsMeant ==
    meant # NoField /\ ~narrowed => got = meant /\ failure = "none"
=============================================================================
