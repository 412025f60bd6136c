------------------------------ MODULE BitReader ------------------------------
(***************************************************************************)
(* A bit reader at work (BitBuf): whoever reads discards 1 to HuffBits     *)
(* bits at a time, as long as codes are, and may go past the end.          *)
(***************************************************************************)
EXTENDS BitBuf

CONSTANTS
    Inputs,   \* what there is to read
    MaxPast   \* bound: bits discarded past the end

ASSUME InputAssumption == Inputs \subseteq Seq(Octet) /\ MaxPast \in Nat

VARIABLES
    reader,     \* struct bb_reader
    discarded   \* history: how many bits have been discarded

readerVars == <<reader, discarded>>

BitInit == reader \in {ReaderInit(buf) : buf \in Inputs} /\ discarded = 0

\* bb_next
BbNext(d) ==
    /\ discarded <= HuffBits * Len(reader.buf) + MaxPast
    /\ reader' = LoadNext(reader, d)
    /\ discarded' = discarded + d

BitNext == \E d \in 1..HuffBits : BbNext(d)

BitSpec == BitInit /\ [][BitNext]_readerVars

-----------------------------------------------------------------------------
\* Bit j of an input, which ones follow and, as bb_reader_init has it, zeros precede.
InputBit(buf, j) ==
    IF j < 0 THEN 0
    ELSE IF j < HuffBits * Len(buf) THEN buf[(j \div HuffBits) + 1][j % HuffBits] ELSE 1

\* Whatever has been discarded, the octet the reader shows is the input at that
\* place; it never counts more than an octet to the end of the input, so that
\* bb_eos never shifts by a negative number (bitbuf.c:66, 72); and bb_eos is true
\* exactly when at most an octet is left and all of that is ones, which is what
\* the encoder pads with.
ReaderInStep ==
    LET size == HuffBits * Len(reader.buf) IN
    /\ \A i \in Places : reader.octet[i] = InputBit(reader.buf, discarded + i)
    /\ reader.eos <= HuffBits
    /\ BbEos(reader) <=>
          /\ size <= discarded + HuffBits
          /\ \A j \in discarded..(size - 1) : InputBit(reader.buf, j) = 1
=============================================================================
