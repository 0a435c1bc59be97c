-------------------------- MODULE IdempotencyKeys --------------------------
(***************************************************************************)
(* The canonical form of idempotency keys (idempotency.go of               *)
(* pkg/execution): how it is built from its three parts and read back.  A  *)
(* string is a sequence of tokens; the digest, which is injective for any  *)
(* purpose here, is left out.                                              *)
(***************************************************************************)
EXTENDS Integers, Sequences, FiniteSets, SequencesExt

CONSTANTS MaxLength     \* longest part

ASSUME KeysAssumption == MaxLength \in Nat \ {0}

VARIABLE input      \* what a key is built from

Fields == {"tenant", "strategy", "client_order_id"}

Tokens == {"a", "A", " ", ";", "="}
Strings == UNION {[1 .. n -> Tokens] : n \in 0 .. MaxLength}

Plain == [f \in Fields |-> <<"a">>]

\* One part is any string, the others are plain.
Inputs == {[Plain EXCEPT ![f] = s] : f \in Fields, s \in Strings}

Trim(s) ==
    LET kept == {i \in DOMAIN s : s[i] # " "}
    IN  IF kept = {} THEN <<>> ELSE SubSeq(s, Min(kept), Max(kept))

Lower(s) == [i \in DOMAIN s |-> IF s[i] = "A" THEN "a" ELSE s[i]]

\* The order id keeps its case.
Normalized ==
    [f \in Fields |->
        IF f = "client_order_id" THEN Trim(input[f]) ELSE Lower(Trim(input[f]))]

Accepted == \A f \in Fields : Normalized[f] # <<>>

Canonical ==
    LET field(f) == <<f, "=">> \o Normalized[f]
    IN  field("tenant") \o <<";">> \o field("strategy") \o <<";">> \o field("client_order_id")

\* The parts of s between the tokens t.
Split(s, t) ==
    LET ends == {i \in DOMAIN s : s[i] = t} \cup {Len(s) + 1}
        start(e) == Max({0} \cup {i \in ends : i < e}) + 1
    IN  {SubSeq(s, start(e), e - 1) : e \in ends}

\* Faulty variant: the value ends at the next "=".
ValueToNext(part) ==
    LET eqs == {i \in DOMAIN part : part[i] = "="}
        first == Min(eqs)
    IN  SubSeq(part, first + 1, Min({i - 1 : i \in eqs \ {first}} \cup {Len(part)}))

\* What is behind the first "=".
Value(part) ==
    LET first == Min({i \in DOMAIN part : part[i] = "="})
    IN  SubSeq(part, first + 1, Len(part))

\* Three parts, each with a key and a value; a key that is there twice has
\* its last value, which three parts rule out.
Readable ==
    LET parts == Split(Canonical, ";")
    IN  /\ Cardinality({i \in DOMAIN Canonical : Canonical[i] = ";"}) = 2
        /\ \A p \in parts : "=" \in ToSet(p) /\ Trim(Value(p)) # <<>>
        /\ \A f \in Fields : \E p \in parts : p # <<>> /\ p[1] = f

Parsed ==
    [f \in Fields |-> Trim(Value(CHOOSE p \in Split(Canonical, ";") : p # <<>> /\ p[1] = f))]

-----------------------------------------------------------------------------
(* What is read back from a key is what it was built from: a part with the *)
(* separator in it makes the key unreadable and never another key's parts. *)
(* (Two keys may still be equal, if their parts have separators.)          *)
KeysReadBack == Accepted /\ Readable => Parsed = Normalized
=============================================================================
