------------------------------ MODULE ByteStream ------------------------------
(***************************************************************************)
(* What Connection::send promises its callers (Connection.h:47-52): a      *)
(* stream of bytes, delivered in order and without inventions until the    *)
(* connection closes.                                                      *)
(***************************************************************************)
EXTENDS Naturals, Sequences

VARIABLES
    written,  \* number of bytes submitted: the bytes 1, 2, ..., written
    wire,     \* bytes handed to the kernel
    isOpen

svars == <<written, wire, isOpen>>

Bytes(m, n) == [i \in 1..(n - m) |-> m + i]

Init == written = 0 /\ wire = <<>> /\ isOpen = TRUE

Submit ==
    /\ written' >= written
    /\ UNCHANGED <<wire, isOpen>>

Deliver ==
    /\ isOpen
    /\ \E n \in Len(wire)..written : wire' = Bytes(0, n)
    /\ UNCHANGED <<written, isOpen>>

Close ==
    /\ isOpen' = FALSE
    /\ UNCHANGED <<written, wire>>

Next == Submit \/ Deliver \/ Close

Spec == Init /\ [][Next]_svars
=============================================================================
