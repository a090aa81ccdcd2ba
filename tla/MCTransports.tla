--------------------------- MODULE MCTransports -----------------------------
(* An instance of Transports for TLC. *)
EXTENDS Transports

CONSTANTS t1, t2, t3

\* Two transports that are received from and one that is sent with.  t1 takes any
\* port and t2, for multicast, the first of two.
MCBindPort == [t \in Transports |-> IF t = t2 THEN LowPort ELSE 0]
MCEndpointOf == [t \in Transports |-> IF t = t3 THEN "send" ELSE "receive"]
=============================================================================
