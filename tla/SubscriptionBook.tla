-------------------------- MODULE SubscriptionBook --------------------------
(***************************************************************************)
(* What a client that shares server subscriptions between streams          *)
(* promises, without reference counts: a key is wanted exactly as long as  *)
(* some stream of that key is open.                                        *)
(***************************************************************************)
CONSTANTS
    Keys,       \* what the server is subscribed to
    Subs,       \* streams
    KeyOf       \* the key of each

VARIABLES
    open,       \* streams that are open
    wanted      \* keys the server should send

vars == <<open, wanted>>

KeysOf(streams) == {KeyOf[p] : p \in streams}

Init == open = {} /\ wanted = {}

Open(p) ==
    /\ open' = open \cup {p}
    /\ wanted' = wanted \cup {KeyOf[p]}

Release(p) ==
    /\ open' = open \ {p}
    /\ wanted' = KeysOf(open')

ReleaseAll == open' = {} /\ wanted' = {}

Next == ReleaseAll \/ \E p \in Subs : Open(p) \/ Release(p)

Spec == Init /\ [][Next]_vars
=============================================================================
