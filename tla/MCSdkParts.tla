---------------------------- MODULE MCSdkParts ------------------------------
(* A small instance of SdkParts for TLC.                                   *)
EXTENDS SdkParts, TLC

CONSTANTS i1, i2, i3, x, c1, c2, c3, c4, m1, m2, p1, p2, k1, k2, t1, t2

ThreeItems == <<i1, i2, i3>>

Unset == <<0, 1>>
SomeMultipliers == {Unset, <<1, 1>>, <<2, 1>>, <<3, 2>>, <<1, 2>>, <<9, 20>>}
SomeLimits == {-1, 0, 1, 3, 7}

AnySkew == {-1, 0, 1}

OneAndBoth == (p1 :> {m1}) @@ (p2 :> {m1, m2})
=============================================================================
