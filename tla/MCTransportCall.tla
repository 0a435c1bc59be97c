-------------------------- MODULE MCTransportCall --------------------------
(* Small instances of TransportCall for TLC.                               *)
EXTENDS TransportCall

CONSTANTS c1, c2

MCCallers == {c1, c2}
=============================================================================
