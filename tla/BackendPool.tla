----------------------------- MODULE BackendPool -----------------------------
(***************************************************************************)
(* What the pool of backend transports promises the requests that are      *)
(* proxied (ProxyHandler.h:13, http1/ClientTransportSource.h): a request   *)
(* takes a transport nobody holds, keeps it until it is answered, and      *)
(* gives it back.                                                          *)
(***************************************************************************)
EXTENDS Naturals

CONSTANT Backend    \* the transports

VARIABLES
    holder,   \* the request that holds each transport, or 0
    waiting,  \* the requests not answered yet
    last      \* requests so far: 1, 2, ..., last

pvars == <<holder, waiting, last>>

Init == holder = [b \in Backend |-> 0] /\ waiting = {} /\ last = 0

Take(b) ==
    /\ holder[b] = 0
    /\ last' = last + 1
    /\ holder' = [holder EXCEPT ![b] = last + 1]
    /\ waiting' = waiting \cup {last + 1}

GiveBack(b) ==
    /\ holder[b] \in waiting
    /\ waiting' = waiting \ {holder[b]}
    /\ holder' = [holder EXCEPT ![b] = 0]
    /\ UNCHANGED last

Next == \E b \in Backend : Take(b) \/ GiveBack(b)

Spec == Init /\ [][Next]_pvars
=============================================================================
