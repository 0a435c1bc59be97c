--------------------------- MODULE ClobHeartbeats ---------------------------
(***************************************************************************)
(* The CLOB clients derived from one another and the heartbeat goroutines  *)
(* they own (impl.go of pkg/clob).  Every With... method returns a new     *)
(* client; some start a goroutine for it, one stops the goroutine of the   *)
(* client it was called on.  A heartbeat carries the builder headers of    *)
(* the client that sends it.                                               *)
(***************************************************************************)
CONSTANTS
    Clients,    \* clients, made or to be made
    Root        \* the one NewClient returns

VARIABLES
    made,       \* clients that exist
    authed,     \* those with a signer and an API key
    timed,      \* those with a heartbeat interval
    builder,    \* those with a builder configuration
    beat,       \* the heartbeat goroutine of each: none, on, stopping, ended
    promoted    \* the clients that PromoteToBuilder made of each

config == <<made, authed, timed, builder>>
vars == <<config, beat, promoted>>

Init ==
    /\ made = {Root}
    /\ authed = {}
    /\ timed = {}
    /\ builder = {}
    /\ beat = [c \in Clients |-> "none"]
    /\ promoted = [c \in Clients |-> {}]

Copied(set, c, d) == IF c \in set THEN set \cup {d} ELSE set

\* Faulty variant: no stop.
StoppedNot(c) == beat

\* StopHeartbeats closes the channel; the goroutine sees it when it gets there.
Stopped(c) == [beat EXCEPT ![c] = IF @ = "on" THEN "stopping" ELSE @]

\* startHeartbeats, which is only ever called on a new client.
Started(beats, d) ==
    IF d \in authed' /\ d \in timed' THEN [beats EXCEPT ![d] = "on"] ELSE beats

Makes(d) ==
    /\ d \notin made
    /\ made' = made \cup {d}

WithAuth(c, d) ==
    /\ Makes(d)
    /\ authed' = authed \cup {d}
    /\ timed' = Copied(timed, c, d)
    /\ builder' = Copied(builder, c, d)
    /\ beat' = Started(beat, d)
    /\ UNCHANGED promoted

\* The goroutine of c goes on with the old interval.
WithHeartbeatInterval(c, d) ==
    /\ Makes(d)
    /\ authed' = Copied(authed, c, d)
    /\ \/ timed' = timed \cup {d}
       \/ UNCHANGED timed
    /\ builder' = Copied(builder, c, d)
    /\ beat' = Started(beat, d)
    /\ UNCHANGED promoted

\* WithBuilderConfig and the others that set nothing a goroutine needs: the
\* new client has the interval and no goroutine.
Derive(c, d) ==
    /\ Makes(d)
    /\ authed' = Copied(authed, c, d)
    /\ timed' = Copied(timed, c, d)
    /\ \/ builder' = Copied(builder, c, d)
       \/ builder' = builder \cup {d}
    /\ UNCHANGED <<beat, promoted>>

PromoteToBuilder(c, d) ==
    /\ Makes(d)
    /\ authed' = Copied(authed, c, d)
    /\ timed' = Copied(timed, c, d)
    /\ builder' = builder \cup {d}
    /\ beat' = Started(Stopped(c), d)
    /\ promoted' = [promoted EXCEPT ![c] = @ \cup {d}]

StopHeartbeats(c) ==
    /\ beat' = Stopped(c)
    /\ UNCHANGED <<config, promoted>>

GoroutineEnds(c) ==
    /\ beat[c] = "stopping"
    /\ beat' = [beat EXCEPT ![c] = "ended"]
    /\ UNCHANGED <<config, promoted>>

Next ==
    \/ \E c \in made, d \in Clients :
          \/ WithAuth(c, d) \/ WithHeartbeatInterval(c, d) \/ Derive(c, d)
          \/ PromoteToBuilder(c, d)
    \/ \E c \in made : StopHeartbeats(c) \/ GoroutineEnds(c)

Fairness == \A c \in Clients : WF_vars(GoroutineEnds(c))

Spec == Init /\ [][Next]_vars
FairSpec == Spec /\ Fairness

-----------------------------------------------------------------------------
(* "prefer PromoteToBuilder so builder headers apply immediately and       *)
(* heartbeats restart with the new attribution config"                     *)
(* (docs/BUILDER_GUIDE.md:116): a client that was promoted never sends     *)
(* heartbeats again but for one already under way, whatever is derived     *)
(* from it later, and a client made by a promotion that can send           *)
(* heartbeats has started, with builder headers.                           *)
PromotionMovesBeats ==
    \A c, d \in Clients : d \in promoted[c] =>
        /\ beat[c] # "on"
        /\ d \in authed \cap timed => beat[d] # "none" /\ d \in builder
=============================================================================
