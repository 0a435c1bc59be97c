--------------------------- MODULE RequestSigning ---------------------------
(***************************************************************************)
(* How a request gets its headers (doCall and serverTime of pkg/transport, *)
(* pkg/auth, cmd/signer-server), for two kinds of calls:                   *)
(*   trade   signed with the API key, once for each attempt, and by a      *)
(*           builder here or at a signing service                          *)
(*   key     CreateOrDeriveAPIKey of pkg/clob, whose two requests are      *)
(*           signed by the wallet once, before their attempts              *)
(* The exchange (external) has a clock of its own.  A signature is what it *)
(* was made of; hashes and encodings are left out.                         *)
(***************************************************************************)
EXTENDS Integers

CONSTANTS
    MaxRetries,     \* defaultMaxRetries
    Skews,          \* by how much the client's clock may be off
    MaxClock        \* bound: the exchange's clock

VARIABLES
    setup,      \* the call: kind, serverTime, builder, quoted (a ' in the body), skew
    now,        \* the exchange's clock
    stage,      \* idle, attempt, time, sign, builder, send, backoff or done
    asks,       \* of a key call: create or derive
    failures,   \* attempts that failed
    began,      \* when the failures began; of a key call, when it was signed
    headers,    \* stamp, and what was signed with the key and by the builder
    got,        \* the last request the exchange got
    hasKey,     \* whether it has a key for the wallet and nonce
    answered,   \* whether the client has an answer to its last request
    result      \* none, ok, refused or failed

call == <<setup, asks, failures, began, result>>
verifier == <<now, got, hasKey>>
signingVars == <<call, stage, headers, verifier, answered>>

Setups ==
    [kind : {"trade", "key"}, serverTime : BOOLEAN, builder : {"none", "local", "remote"},
     quoted : BOOLEAN, skew : Skews]

NotSigned == [stamp |-> 0, body |-> "unsigned"]
NoHeaders == [stamp |-> 0, own |-> NotSigned, builder |-> NotSigned]
NoRequest == [began |-> 0, headers |-> NoHeaders]

SigningInit ==
    /\ setup \in Setups
    /\ setup.kind = "key" =>
           setup.builder = "none" /\ ~setup.quoted /\ ~setup.serverTime
    /\ now = 1
    /\ stage = "idle"
    /\ asks = "create"
    /\ failures = 0
    /\ began = 0
    /\ headers = NoHeaders
    /\ got = NoRequest
    /\ hasKey \in BOOLEAN
    /\ setup.kind = "trade" => ~hasKey
    /\ answered = FALSE
    /\ result = "none"

Clock == now + setup.skew

\* The body in a message: ' is written as ".
Body == IF setup.quoted THEN "double quotes" ELSE "plain"

Message(stamp) == [stamp |-> stamp, body |-> Body]

-----------------------------------------------------------------------------
(* A call and its attempts.                                                *)

\* BuildL1Headers.
WalletSigns == headers' = [NoHeaders EXCEPT !.stamp = Clock]

Begin ==
    /\ stage = "idle"
    /\ stage' = "attempt"
    /\ failures' = 0
    /\ IF setup.kind = "key"
       THEN WalletSigns /\ began' = now
       ELSE UNCHANGED <<headers, began>>
    /\ answered' = FALSE
    /\ UNCHANGED <<setup, asks, result, verifier>>

\* Faulty variant: headers are made for the first attempt only.
SignsFirst == setup.kind = "trade" /\ failures = 0

\* Headers of the caller's that have a signature are left alone.
SignsAttempt == setup.kind = "trade"

Attempt ==
    /\ stage = "attempt"
    /\ IF SignsAttempt
       THEN /\ stage' = IF setup.serverTime THEN "time" ELSE "sign"
            /\ headers' = [NoHeaders EXCEPT !.stamp = IF setup.serverTime THEN 0 ELSE Clock]
       ELSE stage' = "send" /\ UNCHANGED headers
    /\ began' = IF setup.kind = "trade" THEN now ELSE began
    /\ UNCHANGED <<setup, asks, failures, result, verifier, answered>>

\* The next attempt, or the end of the request; CreateOrDeriveAPIKey asks
\* for the key when it could not create one.
Fallback(with) ==
    IF setup.kind = "key" /\ asks = "create"
    THEN asks' = "derive" /\ stage' = "idle" /\ UNCHANGED result
    ELSE stage' = "done" /\ result' = with /\ UNCHANGED asks

\* Faulty variant: only an error that is an answer makes it ask.
FailsAtOnce(with) == stage' = "done" /\ result' = with /\ UNCHANGED asks

RetriesRunOut(with) == Fallback(with)

NextAttempt ==
    /\ IF failures < MaxRetries
       THEN stage' = "backoff" /\ failures' = failures + 1 /\ UNCHANGED <<asks, result>>
       ELSE RetriesRunOut("failed") /\ UNCHANGED failures
    /\ UNCHANGED <<setup, began>>

WaitEnded ==
    /\ stage = "backoff"
    /\ stage' = "attempt"
    /\ UNCHANGED <<call, headers, verifier, answered>>

-----------------------------------------------------------------------------
(* Headers.                                                                *)

ServerTime ==
    /\ stage = "time"
    /\ \/ /\ headers' = [headers EXCEPT !.stamp = now]
          /\ stage' = "sign"
          /\ UNCHANGED call
       \/ NextAttempt /\ UNCHANGED headers
    /\ UNCHANGED <<verifier, answered>>

SignHeaders ==
    /\ stage = "sign"
    /\ headers' = [headers EXCEPT !.own = Message(headers.stamp)]
    /\ stage' = IF setup.builder = "none" THEN "send" ELSE "builder"
    /\ UNCHANGED <<call, verifier, answered>>

BuilderSignsHere ==
    /\ stage = "builder"
    /\ setup.builder = "local"
    /\ headers' = [headers EXCEPT !.builder = Message(headers.stamp)]
    /\ stage' = "send"
    /\ UNCHANGED <<call, verifier, answered>>

\* The service signs the body as it is.
HandleSign == [stamp |-> headers.stamp,
               body |-> IF setup.quoted THEN "single quotes" ELSE "plain"]

\* An error, or an answer that lacks a header, ends the call.
BuilderSignsThere ==
    /\ stage = "builder"
    /\ setup.builder = "remote"
    /\ \/ /\ headers' = [headers EXCEPT !.builder = HandleSign]
          /\ stage' = "send"
          /\ UNCHANGED result
       \/ stage' = "done" /\ result' = "failed" /\ UNCHANGED headers
    /\ UNCHANGED <<setup, asks, failures, began, verifier, answered>>

-----------------------------------------------------------------------------
(* The exchange.                                                           *)

Arrives ==
    /\ got' = [began |-> began, headers |-> headers]
    /\ hasKey' = (hasKey \/ (setup.kind = "key" /\ asks = "create"))

\* A key is created once and can be derived from then on.
KeyGranted == setup.kind = "key" => hasKey = (asks = "derive")

RequestAnswered ==
    /\ stage = "send"
    /\ Arrives
    /\ answered' = TRUE
    /\ IF KeyGranted
       THEN stage' = "done" /\ result' = "ok" /\ UNCHANGED asks
       ELSE Fallback("refused")
    /\ UNCHANGED <<setup, failures, began, headers, now>>

\* The request or its answer is lost, or the exchange is busy.
RequestLost ==
    /\ stage = "send"
    /\ Arrives \/ UNCHANGED <<got, hasKey>>
    /\ NextAttempt
    /\ UNCHANGED <<headers, now, answered>>

Tick ==
    /\ now < MaxClock
    /\ now' = now + 1
    /\ UNCHANGED <<call, stage, headers, got, hasKey, answered>>

SigningNext ==
    \/ Begin \/ Attempt \/ WaitEnded
    \/ ServerTime \/ SignHeaders \/ BuilderSignsHere \/ BuilderSignsThere
    \/ RequestAnswered \/ RequestLost \/ Tick

SigningSpec == SigningInit /\ [][SigningNext]_signingVars

-----------------------------------------------------------------------------
(* The exchange can verify what it gets, attempt after attempt: the        *)
(* signature is over the timestamp in the headers and the body, that       *)
(* timestamp is no older than the attempt, up to the skew of the client's  *)
(* clock unless it asks for the exchange's, and what the builder signed is *)
(* the same.  (A signing service does not replace the quotes in a body, so *)
(* for such a body it signs something else.)                               *)
RequestsVerify ==
    setup.kind = "trade" /\ got # NoRequest =>
        LET h == got.headers
            skew == IF setup.serverTime THEN 0 ELSE setup.skew
        IN  /\ h.own = Message(h.stamp)
            /\ got.began <= h.stamp - skew /\ h.stamp - skew <= now
            /\ setup.builder = "local" \/ (setup.builder = "remote" /\ ~setup.quoted) =>
                   h.builder = h.own

(* CreateOrDeriveAPIKey returns the key if the exchange has one or makes   *)
(* one, though answers are lost and it is asked to create the key again,   *)
(* unless it has no answer in the end.                                     *)
KeyIsFound ==
    setup.kind = "key" /\ stage = "done" /\ result # "ok" =>
        ~hasKey \/ (asks = "derive" /\ ~answered)
=============================================================================
