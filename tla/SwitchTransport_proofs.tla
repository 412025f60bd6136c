------------------------ MODULE SwitchTransport_proofs ------------------------
(* The choice of the protocol for every preface and every client stream. *)
EXTENDS SwitchTransport, TLAPS

USE PrefaceAssumption

Inv == TypeOK /\ RightProtocol /\ Decisive

\* A step of the switch: the protocol chosen is the right one for the whole
\* stream, although only its first n' bytes are known (SwitchTransport.cpp:17-55).
LEMMA OnInputKeeps ==
    ASSUME Inv, NEW k \in 1..MaxLen, OnPollIn(k), OnInput(k)
    PROVE  Inv'
<1>1. TypeOK'
  BY DEF Inv, TypeOK, OnPollIn, OnInput, Chosen
<1>2. \A j : Matches(j)' <=> Matches(j)
  BY DEF OnPollIn, Matches
<1>3. ASSUME NEW j \in 0..PrefaceLen, Matches(PrefaceLen) PROVE Matches(j)
  BY <1>3 DEF Matches
<1>4. n + k \in Nat /\ n + k >= 1 /\ n + k <= total /\ total \in Nat /\ total' = total
  BY DEF Inv, TypeOK, OnPollIn
<1>5. CASE n + k < PrefaceLen /\ Matches(n + k)
  BY <1>1, <1>2, <1>4, <1>5
  DEF OnInput, Chosen, Inv, RightProtocol, Decisive
<1>6. CASE n + k < PrefaceLen /\ ~Matches(n + k)
  BY <1>1, <1>2, <1>3, <1>4, <1>6
  DEF OnInput, Chosen, Inv, RightProtocol, Decisive
<1>7. CASE n + k >= PrefaceLen
  <2>1. n' = n + k /\ transport' \in {"http1", "http2"}
        /\ (transport' = "http2" <=> Matches(PrefaceLen))
    BY <1>4, <1>7 DEF OnInput, Chosen
  <2>2. RightProtocol' /\ Decisive'
    BY <1>2, <1>4, <1>7, <2>1 DEF RightProtocol, Decisive
  <2> QED
    BY <1>1, <2>2 DEF Inv
<1> QED
  BY <1>4, <1>5, <1>6, <1>7

\* Later input changes nothing (Connection.cpp:87 calls the new transport).
LEMMA OnInputLaterKeeps ==
    ASSUME Inv, NEW k \in 1..MaxLen, OnPollIn(k), OnInputLater(k)
    PROVE  Inv'
BY DEF Inv, TypeOK, OnPollIn, OnInputLater, RightProtocol, Decisive, Matches

LEMMA SwitchInvariant == Spec => []Inv
<1>1. Init => Inv
  BY DEF Init, Inv, TypeOK, RightProtocol, Decisive, Matches
<1>2. Inv /\ [Next]_vars => Inv'
  <2> SUFFICES ASSUME Inv, [Next]_vars PROVE Inv'
    OBVIOUS
  <2>1. ASSUME NEW k \in 1..MaxLen, OnPollIn(k) PROVE Inv'
    BY <2>1, OnInputKeeps, OnInputLaterKeeps DEF OnPollIn
  <2>2. CASE UNCHANGED vars
    BY <2>2 DEF vars, Inv, TypeOK, RightProtocol, Decisive, Matches
  <2> QED
    BY <2>1, <2>2 DEF Next
<1> QED
  BY <1>1, <1>2, PTL DEF Spec

\* Whatever the client sends and however it is cut, the right protocol is chosen
\* (SwitchTransport.cpp:17-55).
THEOREM ProtocolChoice == Spec => []RightProtocol
<1>1. Inv => RightProtocol
  BY DEF Inv
<1> QED
  BY <1>1, SwitchInvariant, PTL

\* The protocol is chosen with the first byte that decides it
\* (SwitchTransport.cpp:20).
THEOREM ChoiceIsEarly == Spec => []Decisive
<1>1. Inv => Decisive
  BY DEF Inv
<1> QED
  BY <1>1, SwitchInvariant, PTL
=============================================================================
