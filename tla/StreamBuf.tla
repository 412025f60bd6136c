------------------------------ MODULE StreamBuf ------------------------------
(***************************************************************************)
(* The sizes of a StreamBuf (StreamBuf.h, StreamBuf.cpp): how much is in   *)
(* use, how much is allocated, and the growth policy that Connection::     *)
(* onPollIn relies on to offer ::read some room.  What the bytes are does  *)
(* not matter here.                                                        *)
(***************************************************************************)
EXTENDS Naturals

CONSTANTS
    MinCap,   \* first allocation of grow(), 4096 in the code
    SizeMax   \* std::numeric_limits<size_t>::max()

ASSUME CapAssumption ==
    /\ MinCap \in Nat /\ MinCap >= 4
    /\ SizeMax \in Nat /\ SizeMax >= 4 * MinCap

VARIABLES
    inUse,    \* in_use_
    cap       \* buf_.size()

vars == <<inUse, cap>>

Init == inUse = 0 /\ cap = 0

\* reserve(n): never shrinks.
Reserved(n) == IF n < cap THEN cap ELSE n

\* Mutant: the buffer grows only once it is more than full.
GrownLate ==
    IF inUse < MinCap \div 4 THEN Reserved(MinCap)
    ELSE IF inUse > cap
         THEN Reserved(IF cap > SizeMax \div 4 THEN SizeMax ELSE cap * 4)
         ELSE cap

\* Capacity after grow().
Grown ==
    IF inUse < MinCap \div 4 THEN Reserved(MinCap)
    ELSE IF inUse > cap \div 2
         THEN Reserved(IF cap > SizeMax \div 4 THEN SizeMax ELSE cap * 4)
         ELSE cap

\* onPollIn(): grow(), ::read up to tailroom() bytes, addTailContent(n).
Fill(n) ==
    /\ n <= Grown - inUse
    /\ cap' = Grown
    /\ inUse' = inUse + n

\* The n bytes of `data' and the bytes in use are disjoint parts of one address
\* space.  write() relies on it: the code does not test the sum for overflow.
Addressable(n) == inUse + n <= SizeMax

\* Mutant: ensure() reserves the extra size only.
WriteShort(n) ==
    /\ Addressable(n)
    /\ cap' = Reserved(n)
    /\ inUse' = inUse + n

\* write(data, n), writeOctet and Payload::flush: ensure(n), copy to tail().
Write(n) ==
    /\ Addressable(n)
    /\ cap' = Reserved(inUse + n)
    /\ inUse' = inUse + n

\* advance(n), which throws when n > size().
Advance(n) ==
    /\ n <= inUse
    /\ inUse' = inUse - n
    /\ UNCHANGED cap

Next == \E n \in 1..SizeMax : Fill(n) \/ Write(n) \/ Advance(n)

Spec == Init /\ [][Next]_vars

-----------------------------------------------------------------------------
TypeOK == inUse \in Nat /\ cap \in 0..SizeMax

\* Every byte in use lies in allocated memory: the memcpy of write() and flush()
\* and the memmove of advance() stay inside buf_ (StreamBuf.cpp:42, 19).
FitsAllocation == inUse <= cap

\* After grow() there is room for ::read (Connection.cpp:78-83): a read of zero
\* bytes into a full buffer, which onPollIn would take for the end of input and
\* answer with close(), cannot happen.
RoomToRead == inUse < SizeMax => Grown > inUse
=============================================================================
