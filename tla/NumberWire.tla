----------------------------- MODULE NumberWire -----------------------------
(***************************************************************************)
(* An HPACK integer on the wire: written by encode_number behind whatever  *)
(* its caller keeps in the rest of the first octet, followed by whatever   *)
(* comes next in the header block, and read by decode_number.              *)
(***************************************************************************)
EXTENDS HpackNumber

CONSTANT Following   \* octets that come next

ASSUME FollowingAssumption == Following \subseteq Seq(Nat)

VARIABLES
    given,   \* a number, its prefix, the bits above it, the room, what follows
    coded,   \* the octets on the wire, or <<>>
    decoded  \* what decode_number returned, or <<>>

numberVars == <<given, coded, decoded>>

Numbers ==
    UNION {[n : 0..NumberMax, bits : {b}, above : 0..(Pow2[ContBits + 1 - b] - 1),
            buflen : 1..(MaxOctets + 2), following : Following] : b \in 1..(ContBits + 1)}

NumberInit == given \in Numbers /\ coded = <<>> /\ decoded = <<>>

\* An encoding that fails leaves nothing to read.
WriteNumber ==
    /\ coded = <<>>
    /\ LET e == EncodeNumber(given.n, given.bits, given.buflen) IN
       coded' = IF e = <<>> THEN <<>>
                ELSE [e EXCEPT ![1] = given.above * Pow2[given.bits] + @] \o given.following
    /\ UNCHANGED <<given, decoded>>

ReadNumber ==
    /\ coded # <<>> /\ decoded = <<>>
    /\ decoded' = DecodeNumber(coded, given.bits)
    /\ UNCHANGED <<given, coded>>

NumberNext == WriteNumber \/ ReadNumber

NumberSpec == NumberInit /\ [][NumberNext]_numberVars

-----------------------------------------------------------------------------
\* Every number up to UINTMAX_MAX, for every prefix, is read back as it was
\* written, from exactly the octets that were written, whatever the first octet
\* holds above the prefix and whatever follows (hpack/test.c tries those below
\* 100000 for one prefix, and "TODO: Check values close to SSIZE_MAX").
NumberRoundTrip ==
    decoded # <<>> =>
        decoded = [len |-> Len(coded) - Len(given.following), number |-> given.n]
=============================================================================
