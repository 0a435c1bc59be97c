--------------------------- MODULE MCEventStreams ---------------------------
(* A small instance of EventStreams for TLC.                               *)
EXTENDS EventStreams, TLC

CONSTANTS a1, b1, books, states, reader, other

Kinds == (books :> "book") @@ (states :> "state")
Assets == (books :> {a1}) @@ (states :> {})

Event(assets) == [kind |-> "book", assets |-> assets, state |-> None]
Change(to) == [kind |-> "state", assets |-> {}, state |-> to]

\* The reader connects and reads two books; somebody else changes the
\* state at any time.
JobsOf ==
    (reader :> <<Change("connected"), Event({a1}), Event({a1, b1})>>)
    @@ (other :> <<Change("disconnected")>>)
=============================================================================
