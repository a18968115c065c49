-------------------------- MODULE AssignmentTicket --------------------------
(***************************************************************************)
(* The ticket that carries an assignment from the Hub to the cell, as      *)
(* tools/verify-assignment-ticket checks it: the parser of its claims, and *)
(* the typed parts that each of its fences digests.                        *)
(***************************************************************************)
EXTENDS JsonBody, Framing

CONSTANTS EnvironmentIds, Kids, Jtis, TicketAgents, TicketKeyIds, PublicKeys,
          Digests,        \* canonical texts of 32 bytes
          NotBefore,      \* how long before its issue a ticket is valid
          MaxLifetime,    \* and how long after
          HashBytes       \* length of a hash

----------------------------------------------------------------------------
\* Claims.

Number(n) == [type |-> "number", at |-> n]
IsInt(v) == v.type = "number" /\ "at" \in DOMAIN v

Numbers == {"v", "iat", "nbf", "exp", "assignment_generation", "endpoint_revision"}
RequiredClaims ==
    Numbers \cup {"iss", "aud", "environment_id", "kid", "jti", "agent_id",
                  "agent_public_key_b64", "credential_key_hash_b64", "credential_key_id",
                  "credential_kind", "credential_fence_b64", "placement_mode", "cell_id",
                  "cell_fence_b64"}
Claims == RequiredClaims \cup {"assignment_fence_b64"}
CredentialKinds == {"bootstrap", "connector_bootstrap", "account", "agent"}

At(v, claim) == Field(v, claim).at

Typed(v) == \A claim \in Keys(v) : IF claim \in Numbers THEN IsInt(Field(v, claim))
                                   ELSE Field(v, claim).type = "string"

\* Bytes that are not UTF-8 are replaced where they stand, and not refused.
Structure(body) ==
    FirstOf(<<Unless(body.flaw # "oversize", "size"),
              Unless(body.flaw \in {"none", "utf8"} /\ IsObject(body.value), "claims"),
              Unless(Keys(body.value) \subseteq Claims /\ RequiredClaims \subseteq Keys(body.value)
                     /\ Typed(body.value), "claims")>>)

Profile(v) ==
    /\ At(v, "v") = 1
    /\ Text(v, "iss") = "qurl-assignment-authority"
    /\ Text(v, "aud") = "qurl-agent-registration"

\* (a slip: the lifetime is counted from the instant the ticket becomes valid)
Window_FromNotBefore(v) ==
    /\ At(v, "iat") > NotBefore
    /\ At(v, "nbf") = At(v, "iat") - NotBefore
    /\ At(v, "exp") > At(v, "nbf")
    /\ At(v, "exp") - At(v, "nbf") <= MaxLifetime

Window(v) ==
    /\ At(v, "iat") > NotBefore
    /\ At(v, "nbf") = At(v, "iat") - NotBefore
    /\ At(v, "exp") > At(v, "iat")
    /\ At(v, "exp") - At(v, "iat") <= MaxLifetime

\* (a slip: the fence is looked at when it is there, and not asked for)
Placement_Optional(v) ==
    LET mode == Text(v, "placement_mode")
    IN  FirstOf(<<Unless(mode \in {"new", "existing"}, "claims"),
                  Unless(Has(v, "assignment_fence_b64") =>
                            Text(v, "assignment_fence_b64") \in Digests, "key_length")>>)

\* Only an existing placement has been fenced.
Placement(v) ==
    LET mode == Text(v, "placement_mode")
        fenced == Has(v, "assignment_fence_b64")
    IN  FirstOf(<<Unless(mode \in {"new", "existing"}, "claims"),
                  Unless(fenced <=> mode = "existing", "claims"),
                  Unless(fenced => Text(v, "assignment_fence_b64") \in Digests,
                         "key_length")>>)

ParseClaims(body) ==
    LET v == body.value
    IN  IF Structure(body) # Pass THEN Structure(body)
        ELSE FirstOf(<<
               Unless(Profile(v), "claims"),
               Unless(Text(v, "environment_id") \in EnvironmentIds
                      /\ Text(v, "kid") \in Kids, "claims"),
               Unless(Window(v), "time"),
               Unless(Text(v, "jti") \in Jtis, "key_length"),
               Unless(Text(v, "agent_id") \in TicketAgents
                      /\ Text(v, "credential_key_id") \in TicketKeyIds, "claims"),
               Unless(Text(v, "agent_public_key_b64") \in PublicKeys, "key_length"),
               Unless({Text(v, "credential_key_hash_b64"), Text(v, "credential_fence_b64"),
                       Text(v, "cell_fence_b64")} \subseteq Digests, "key_length"),
               Unless(/\ Text(v, "credential_kind") \in CredentialKinds
                      /\ At(v, "assignment_generation") >= 1
                      /\ At(v, "endpoint_revision") >= 1
                      /\ Text(v, "cell_id") # "", "claims"),
               Placement(v)>>)

\* The window as the verifier of a ticket applies it: nbf - 1 is too early, exp too late.
ValidAt(v, time) == At(v, "nbf") <= time /\ time < At(v, "exp")

----------------------------------------------------------------------------
\* Fences.  A part declares the bytes of its value; a value that its encoding does
\* not read has none, and 256 is no byte.

Part(name, encoding, value) ==
    [name |-> name, encoding |-> encoding, value |-> value, bytes |-> value]
Unreadable == <<256>>

ScopeNames == {"scope_0", "scope_1"}

PartClass(part, required) ==
    FirstOf(<<Unless(part.name = required.name, "required_part"),
              Unless(part.encoding = required.encoding, "encoding"),
              Unless(part.value # Unreadable,
                     IF part.encoding = "uint64_be" THEN "uint64" ELSE "encoding"),
              Unless(part.bytes = part.value, "bytes"),
              Unless(part.name = "credential_key_hash" => Len(part.value) = HashBytes,
                     "key_length")>>)

\* The order of two texts by their bytes.
Before(s, t) ==
    \/ IsStrictPrefix(s, t)
    \/ \E i \in DOMAIN s \cap DOMAIN t : s[i] < t[i] /\ \A j \in 1..(i - 1) : s[j] = t[j]

\* Where the scopes are.
Scopes(parts) == {i \in DOMAIN parts : parts[i].name \in ScopeNames}
ScopeCount(parts) ==
    IF \E part \in ToSet(parts) : part.name = "scope_count"
    THEN (CHOOSE part \in ToSet(parts) : part.name = "scope_count").value[1] ELSE 0

\* As many scopes as declared, none empty, and in their order without a repetition.
CanonicalScopes(parts) ==
    /\ Cardinality(Scopes(parts)) = ScopeCount(parts)
    /\ \A i \in Scopes(parts) :
          /\ parts[i].value # <<>>
          /\ \A j \in Scopes(parts) : i < j => Before(parts[i].value, parts[j].value)

\* The parts of a fence are those of its kind, in that order.
FenceBoundary(parts, required) ==
    IF Len(parts) # Len(required) THEN "required_part"
    ELSE LET class == FirstOf([i \in DOMAIN parts |-> PartClass(parts[i], required[i])])
         IN  IF class # Pass THEN class
             ELSE Unless(CanonicalScopes(parts), "canonical_scopes")

FencePreimage(domain, parts) == Framed(domain, [i \in DOMAIN parts |-> parts[i].bytes])
=============================================================================
