------------------------------ MODULE SdkParts ------------------------------
(***************************************************************************)
(* The smaller parts of the SDK: a CLOB client reads lists page by page    *)
(* (Paging), sends heartbeats (ClobHeartbeats), places orders (Orders),    *)
(* which strategies name by keys (IdempotencyKeys), signs its requests     *)
(* (RequestSigning), and subscribes to the user channel with its           *)
(* credentials (WsUserChannel); strategies compute the waits between       *)
(* reconnects (Backoffs) and send transactions (ChainCalls).  The parts    *)
(* share no state here; a behaviour is about one of them.                  *)
(***************************************************************************)
EXTENDS Paging, Orders, IdempotencyKeys, ChainCalls, RequestSigning

CONSTANTS Clients, Root
CONSTANTS Markets, UserStreams, MarketsOf, ApiKeys, NoKey, MaxSwitches, MaxBreaks,
          MaxResubs
CONSTANTS Durations, Multipliers, Limits, LastAttempt, LongestDuration

ASSUME UserAssumption == MarketsOf \in [UserStreams -> SUBSET Markets]

ASSUME BackoffsAssumption ==
    /\ Durations \subseteq 0 .. LongestDuration
    /\ Multipliers \subseteq Nat \X (Nat \ {0})
    /\ Limits \subseteq Int
    /\ LastAttempt \in Nat \ {0}
    /\ LongestDuration \in Nat /\ LongestDuration >= 30

VARIABLES
    part,   \* what the behaviour is about
    made, authed, timed, builder, beat, promoted,
    apiKey, lastAuth, setter, switches, leftover, at, auth, naming, userRefs,
    link, redials, resubs, snaps, served, breaks,
    policy

beatVars == <<made, authed, timed, builder, beat, promoted>>
userVars == <<apiKey, lastAuth, setter, switches, leftover, at, auth, naming, userRefs,
              link, redials, resubs, snaps, served, breaks>>

Beats == INSTANCE ClobHeartbeats
User == INSTANCE WsUserChannel
Waits == INSTANCE Backoffs

partsVars ==
    <<part, vars, orderVars, beatVars, input, userVars, policy, chainVars, signingVars>>

\* The parts a behaviour is not about stay in one state.
PartsInit ==
    /\ part \in {"lists", "heartbeats", "orders", "keys", "user", "policies", "chain",
                 "signing"}
    /\ Init
    /\ part # "lists" => mode = "stream"
    /\ OrdersInit
    /\ part # "orders" =>
           /\ asked = [flaw |-> "none", expires |-> FALSE]
           /\ order.salt = 0 /\ order.fee = 0
           /\ market = [contract |-> "plain", fee |-> 0]
           /\ home = "v1" /\ live = "v1"
    /\ Beats!Init
    /\ input \in IF part = "keys" THEN Inputs ELSE {Plain}
    /\ User!UserInit
    /\ part # "user" => apiKey = NoKey
    /\ policy \in IF part = "policies" THEN Waits!Policies ELSE {Waits!DefaultPolicy}
    /\ ChainInit
    /\ SigningInit
    /\ part # "signing" =>
           /\ setup.kind = "trade" /\ setup.builder = "none" /\ setup.skew = 0
           /\ ~setup.serverTime /\ ~setup.quoted

ListsNext ==
    /\ part = "lists" /\ Next
    /\ UNCHANGED <<part, orderVars, beatVars, input, userVars, policy, chainVars, signingVars>>
BeatsNext ==
    /\ part = "heartbeats" /\ Beats!Next
    /\ UNCHANGED <<part, vars, orderVars, input, userVars, policy, chainVars, signingVars>>
PlacingNext ==
    /\ part = "orders" /\ OrdersNext
    /\ UNCHANGED <<part, vars, beatVars, input, userVars, policy, chainVars, signingVars>>
UserNext ==
    /\ part = "user" /\ User!UserNext
    /\ UNCHANGED <<part, vars, orderVars, beatVars, input, policy, chainVars, signingVars>>
SendingNext ==
    /\ part = "chain" /\ ChainNext
    /\ UNCHANGED <<part, vars, orderVars, beatVars, input, userVars, policy, signingVars>>
RequestsNext ==
    /\ part = "signing" /\ SigningNext
    /\ UNCHANGED <<part, vars, orderVars, beatVars, input, userVars, policy, chainVars>>

PartsNext == ListsNext \/ BeatsNext \/ PlacingNext \/ UserNext \/ SendingNext \/ RequestsNext

PartsSpec ==
    /\ PartsInit
    /\ [][PartsNext]_partsVars
    /\ WF_partsVars(/\ part = "lists" /\ Turns
                    /\ UNCHANGED <<part, orderVars, beatVars, input, userVars, policy,
                                   chainVars, signingVars>>)

-----------------------------------------------------------------------------
(* PromoteToBuilder stops the heartbeats of the old client for good and    *)
(* starts those of the new one (ClobHeartbeats!PromotionMovesBeats).       *)
PromotionMovesBeats == Beats!PromotionMovesBeats

(* No key but the one set last is remembered or about to be sent, except   *)
(* what calls had in hand at the change (WsUserChannel!KeysAreTheLastSet). *)
KeysAreTheLastSet == User!KeysAreTheLastSet

(* Open user streams are served after every reconnect                      *)
(* (WsUserChannel!UserStreamsServed).                                      *)
UserStreamsServed == User!UserStreamsServed

(* A client does what the policy it is made from tells the strategy        *)
(* (Backoffs!PolicyIsFollowed).                                            *)
PolicyIsFollowed == part = "policies" => Waits!PolicyIsFollowed
=============================================================================
