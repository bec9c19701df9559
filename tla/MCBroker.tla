------------------------------- MODULE MCBroker -------------------------------
(* RuntimeBroker for TLC: two routes, the first pinned and with room for   *)
(* two connections, the second for one; three identifiers, one body, and   *)
(* one exchange of an earlier session.                                     *)
EXTENDS RuntimeBroker

CONSTANTS r1, r2, r3, x

MCLimits == [r \in Routes |-> 2 - r]

MCEarlier == {[id |-> r1, body |-> x]}
===============================================================================
