------------------------------ MODULE Signature ------------------------------
(***************************************************************************)
(* ECDSA signatures as the contracts carry them.  What a signer produced   *)
(* is ideal: the pair (r, s) it computed for one message, which verifies   *)
(* for that message, and so does its twin (r, Order - s).  Around it is    *)
(* what the code checks itself: the encoding, the range of the scalars and *)
(* which of the two twins may be used.                                     *)
(***************************************************************************)
EXTENDS JsonBody, Integers

CONSTANT Order    \* of the group
ASSUME OrderAssumption == Order \in Nat /\ Order > 1 /\ Order % 2 = 1

Half == Order \div 2
Scalars == 1..(Order - 1)

\* A signature on the wire: is its encoding the canonical one, its numbers, and what
\* the signer did.
Signed(message, r, s) ==
    [canonical |-> TRUE, r |-> r, s |-> s, by |-> [message |-> message, r |-> r, s |-> s]]

Verifies(signature, message) ==
    /\ signature.by.message = message
    /\ signature.r = signature.by.r
    /\ signature.s \in {signature.by.s, Order - signature.by.s}

\* (a slip: the half that is allowed is the wrong one)
LowS_Upper(s) == IF s <= Half THEN Order - s ELSE s

LowS(s) == IF s > Half THEN Order - s ELSE s

InRange(signature) == signature.r \in Scalars /\ signature.s \in Scalars

\* What KMS returns is normalised, or refused: a sequence of at most one.
DerToRaw(der) ==
    IF der.canonical /\ InRange(der) THEN <<[der EXCEPT !.s = LowS(@)]>> ELSE <<>>

\* A client's signature is not normalised: only the low twin is accepted.
VerifySignature(signature, message) ==
    FirstOf(<<Unless(signature.canonical, "signature_encoding"),
              Unless(InRange(signature), "signature_scalar"),
              Unless(signature.s <= Half, "signature_malleability"),
              Unless(Verifies(signature, message), "signature_mismatch")>>)
=============================================================================
