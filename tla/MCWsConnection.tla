--------------------------- MODULE MCWsConnection ---------------------------
(* Small instances of WsConnection for TLC.                                *)
EXTENDS WsConnection

CONSTANTS s1, s2

OneCaller == {s1}
TwoCallers == {s1, s2}
=============================================================================
