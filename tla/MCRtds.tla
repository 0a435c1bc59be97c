------------------------------- MODULE MCRtds -------------------------------
(* A small instance of Rtds for TLC.                                       *)
EXTENDS Rtds, TLC

CONSTANTS k1, p1, p2, u

\* p1 and p2 share a key.
KeyOfSubs == (p1 :> k1) @@ (p2 :> k1)
TopicOfRequests == (u :> k1)
=============================================================================
