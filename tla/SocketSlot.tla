----------------------------- MODULE SocketSlot -----------------------------
(***************************************************************************)
(* What a channel of a client promises of its sockets, without goroutines, *)
(* contexts or mutexes: there is a place for one, which is filled only     *)
(* when it is empty and emptied only by closing what is in it.             *)
(***************************************************************************)
CONSTANTS
    Sockets,    \* every socket there may be
    NoSocket    \* the place is empty

VARIABLES
    current,    \* the socket in the place
    gone        \* sockets that were closed

vars == <<current, gone>>

Init == current = NoSocket /\ gone = {}

\* A socket that was never used before.
Open(k) ==
    /\ current = NoSocket
    /\ k \notin gone
    /\ current' = k
    /\ UNCHANGED gone

Close ==
    /\ current # NoSocket
    /\ current' = NoSocket
    /\ gone' = gone \cup {current}

Next == Close \/ \E k \in Sockets : Open(k)

Spec == Init /\ [][Next]_vars
=============================================================================
