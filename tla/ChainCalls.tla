----------------------------- MODULE ChainCalls -----------------------------
(***************************************************************************)
(* Calls that send a transaction: those of pkg/ctf, which wait until it is *)
(* mined, and the transfers of pkg/bridge, which do not.  They share one   *)
(* account.  The node and bind.BoundContract are modelled from their use;  *)
(* callers repeat a call whose error says that nothing was sent.           *)
(***************************************************************************)
EXTENDS Naturals, FiniteSets

CONSTANTS
    Calls,          \* calls
    Waiting,        \* those of pkg/ctf, a subset
    MaxTries        \* bound: times a caller makes its call

ASSUME ChainAssumption ==
    /\ Waiting \subseteq Calls
    /\ MaxTries \in Nat \ {0}

VARIABLES
    doing,      \* what each call is doing: nothing, checked, ready, waiting or done
    tries,      \* how often it was made
    nonce,      \* the nonce of its transaction
    told,       \* what it returned: nothing, unsent, unsure, sent or mined
    pool,       \* transactions the node has: call and nonce
    mined,      \* transactions in blocks, with their status
    unheard     \* whether an answer of the node to a send was lost

tx == <<pool, mined>>
chainVars == <<doing, tries, nonce, told, tx, unheard>>

ChainInit ==
    /\ doing = [c \in Calls |-> "nothing"]
    /\ tries = [c \in Calls |-> 0]
    /\ nonce = [c \in Calls |-> 0]
    /\ told = [c \in Calls |-> "nothing"]
    /\ pool = {}
    /\ mined = {}
    /\ unheard = FALSE

Does(c, what) == doing' = [doing EXCEPT ![c] = what]

Returns(c, what) ==
    /\ Does(c, "done")
    /\ told' = [told EXCEPT ![c] = what]

Transaction(c) == [call |-> c, nonce |-> nonce[c]]

Final == Cardinality(mined)
Taken == {t.nonce : t \in pool} \cup (0 .. Final - 1)

\* A request is checked before anything is sent.
Checked(c) ==
    /\ doing[c] = "nothing"
    /\ tries[c] < MaxTries
    /\ tries' = [tries EXCEPT ![c] = @ + 1]
    /\ \/ Does(c, "checked") /\ UNCHANGED told
       \/ Returns(c, "unsent")
    /\ UNCHANGED <<nonce, tx, unheard>>

CheckContractCall(c) == c \in Waiting /\ Checked(c)

\* A deposit also asks the service for an address.
CheckTransfer(c) == c \notin Waiting /\ Checked(c)

\* The next nonce in the node's view; gas is estimated by trying the call.
Prepare(c) ==
    /\ doing[c] = "checked"
    /\ \/ /\ Does(c, "ready")
          /\ nonce' = [nonce EXCEPT ![c] = Cardinality(Taken)]
          /\ UNCHANGED told
       \/ Returns(c, "unsent") /\ UNCHANGED nonce
    /\ UNCHANGED <<tries, tx, unheard>>

\* The node takes one transaction per nonce; an error may also hide that it
\* did.
Send(c) ==
    /\ doing[c] = "ready"
    /\ \/ /\ nonce[c] \notin Taken
          /\ pool' = pool \cup {Transaction(c)}
          /\ IF c \in Waiting THEN Does(c, "waiting") /\ UNCHANGED told ELSE Returns(c, "sent")
          /\ UNCHANGED unheard
       \/ /\ nonce[c] \notin Taken
          /\ pool' = pool \cup {Transaction(c)}
          /\ Returns(c, "unsent")
          /\ unheard' = TRUE
       \/ Returns(c, "unsent") /\ UNCHANGED <<pool, unheard>>
    /\ UNCHANGED <<tries, nonce, mined>>

Mine(t) ==
    /\ t.nonce = Final
    /\ pool' = pool \ {t}
    /\ \E ok \in BOOLEAN : mined' = mined \cup {[call |-> t.call, nonce |-> t.nonce, ok |-> ok]}
    /\ UNCHANGED <<doing, tries, nonce, told, unheard>>

\* Faulty variant: the error of a send.
GivesUpWaitingAsUnsent(c) == Returns(c, "unsent")

GivesUpWaiting(c) == Returns(c, "unsure")

\* The receipt: its status is not looked at, but one that names no block is
\* an error.
WaitMined(c) ==
    /\ doing[c] = "waiting"
    /\ \E t \in mined : t.call = c /\ t.nonce = nonce[c]
    /\ Returns(c, "mined") \/ GivesUpWaiting(c)
    /\ UNCHANGED <<tries, nonce, tx, unheard>>

\* The context ends.
WaitEnds(c) ==
    /\ doing[c] = "waiting"
    /\ GivesUpWaiting(c)
    /\ UNCHANGED <<tries, nonce, tx, unheard>>

\* The caller.
CallAgain(c) ==
    /\ told[c] = "unsent"
    /\ told' = [told EXCEPT ![c] = "nothing"]
    /\ Does(c, "nothing")
    /\ UNCHANGED <<tries, nonce, tx, unheard>>

ChainNext ==
    \/ \E c \in Calls :
          \/ CheckContractCall(c) \/ CheckTransfer(c) \/ Prepare(c)
          \/ Send(c) \/ WaitMined(c) \/ WaitEnds(c) \/ CallAgain(c)
    \/ \E t \in pool : Mine(t)

ChainSpec == ChainInit /\ [][ChainNext]_chainVars

-----------------------------------------------------------------------------
(* A caller that repeats its call after errors of checking and sending,    *)
(* and not after one of waiting, has one transaction at most, whatever     *)
(* nonces calls take from each other, unless the node's answer to a send   *)
(* was lost; and a call reported mined is in a block.  (Mined is not       *)
(* executed: a transaction that reverts is reported like one that does     *)
(* not.)                                                                   *)
RepeatsAreSafe ==
    /\ ~unheard => \A t, u \in pool \cup mined : t.call = u.call => t.nonce = u.nonce
    /\ \A c \in Calls : told[c] = "mined" => \E t \in mined : t.call = c
=============================================================================
