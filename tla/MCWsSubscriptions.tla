------------------------- MODULE MCWsSubscriptions -------------------------
(* Small instances of WsSubscriptions for TLC.                             *)
EXTENDS WsSubscriptions, TLC

CONSTANTS a, b, p1, p2, p3, u

\* p2 names the asset of p1 and one of its own.
TwoShared == (p1 :> {a}) @@ (p2 :> {a, b})
\* p1 and p2 share an asset, p3 has one to itself.
OneApart == (p1 :> {a}) @@ (p2 :> {a}) @@ (p3 :> {b})
TwoSharedAndRequest == TwoShared @@ (u :> {a})
=============================================================================
