--------------------------- MODULE MCContractGates ---------------------------
\* The body gates of MCBodyGates and, beside them, the gates of single values, with
\* bytes that are 0, 1 or 2, texts of a few characters and a group of order 7.
EXTENDS ContractGates, MCBodyGates, Integers, TLC

AllMaxEdits == MCMaxEdits @@
    [json |-> 8, target_path |-> 5, user_agent |-> 6, crid |-> 3, der |-> 3,
     upload |-> 3, claims |-> 2, fence |-> 3]

----------------------------------------------------------------------------
\* Texts.  "x" is no hexadecimal digit; a key "x" may be spelled with an escape.

MCTextPieces ==
    [json |-> {<<t>> : t \in {J!Mark("{"), J!Mark("}"), J!Mark("["), J!Mark("]"),
                              J!Mark("scalar"), J!Quoted("x", "x"),
                              J!Quoted("x", "escaped"), J!Quoted("y", "y")}},
     target_path |-> {<<"/">>, <<".">>, <<"?">>, <<"%">>, <<"2">>, <<"!">>, <<"#">>,
                      <<"%", "2", "e">>, <<"%", "2", "2">>},
     user_agent |-> {<<w>> : w \in 0..3}]
MCAllowed == {"/", ".", "?", "%", "2", "e", "!"}
MCForbiddenInPath == {"!"}
MCHex == {"2", "e"}
MCDecodedEscape == [e \in MCHex \X MCHex |-> IF e = <<"2", "e">> THEN "." ELSE "x"]

----------------------------------------------------------------------------
\* Tickets.

MCEnvironmentIds == {"env"}
MCKids == {"kid"}
MCJtis == {"jti"}
MCPublicKeys == {"public"}
MCDigests == {"digest"}

Claimed(mode) ==
    Obj([v |-> Number(1), iss |-> Str("qurl-assignment-authority"),
         aud |-> Str("qurl-agent-registration"), environment_id |-> Str("env"),
         kid |-> Str("kid"), iat |-> Number(3), nbf |-> Number(2), exp |-> Number(6),
         jti |-> Str("jti"), agent_id |-> Str("agent"),
         agent_public_key_b64 |-> Str("public"),
         credential_key_hash_b64 |-> Str("digest"), credential_key_id |-> Str("key_id1"),
         credential_kind |-> Str("connector_bootstrap"),
         credential_fence_b64 |-> Str("digest"), placement_mode |-> Str(mode),
         cell_id |-> Str("cell"), assignment_generation |-> Number(1),
         endpoint_revision |-> Number(1), cell_fence_b64 |-> Str("digest")])
ClaimSeeds == {Claimed("new"), With(Claimed("existing"), "assignment_fence_b64", Str("digest"))}

Integer(numbers) == {Number(n) : n \in numbers} \cup {Num("1.5"), Str("1")}
ClaimLexicon ==
    [v |-> Integer({2}), iss |-> Texts({"x"}), environment_id |-> Texts({""}),
     iat |-> Integer({1, 2, 4}), nbf |-> Integer({1, 3}), exp |-> Integer({3, 4, 5, 7}),
     jti |-> Texts({"x"}), agent_id |-> Texts({"x"}), agent_public_key_b64 |-> Texts({"x"}),
     credential_kind |-> Texts({"tunnel_bootstrap"}), cell_fence_b64 |-> Texts({"x"}),
     placement_mode |-> Texts({"new", "existing", "x"}), cell_id |-> Texts({""}),
     assignment_generation |-> Integer({0}), otp |-> {Str("x")},
     assignment_fence_b64 |-> Texts({"digest", "x"})]

----------------------------------------------------------------------------
\* Fences.  Scopes and identifiers are bytes that may be read as lengths.

CredentialFence(hash, id, count, s, t, slug) ==
    <<Part("credential_key_hash", "raw_bytes_b64url", hash),
      Part("credential_key_id", "utf8", id),
      Part("scope_count", "uint64_be", count),
      Part("scope_0", "utf8", s), Part("scope_1", "utf8", t),
      Part("tunnel_slug", "utf8", slug)>>
CellFence(id, revision, host) ==
    <<Part("cell_id", "utf8", id), Part("endpoint_revision", "uint64_be", revision),
      Part("nhp_host", "utf8", host)>>

MCFences == [credential |-> CredentialFence(<<1, 1>>, <<1>>, <<2>>, <<1>>, <<2>>, <<2>>),
             cell |-> CellFence(<<1>>, <<1>>, <<2>>)]
ShortTexts == {<<>>, <<1>>, <<2>>, <<1, 1>>, <<1, 2>>}
MCOtherFences ==
    [credential |-> {CredentialFence(<<1, 1>>, id, <<2>>, s, t, slug) :
                        id \in {<<1>>, <<1, 2>>}, s, t \in ShortTexts,
                        slug \in {<<>>, <<1>>, <<2>>, <<1, 2>>}},
     cell |-> {CellFence(id, revision, host) :
                  id, host \in ShortTexts, revision \in {<<1>>, <<2>>}}]

TextParts(name) ==
    {Part(name, "utf8", text) : text \in ShortTexts \cup {Unreadable}}
MCParts ==
    [credential |->
        TextParts("scope_0") \cup TextParts("scope_1") \cup TextParts("credential_key_id")
        \cup TextParts("tunnel_slug")
        \cup {Part("credential_key_hash", "raw_bytes_b64url", h) : h \in {<<1>>, <<2, 1>>}}
        \cup {Part("scope_count", "uint64_be", n) : n \in {<<1>>, Unreadable}}
        \cup {Part("scope_count", "utf8", <<2>>),
              [Part("scope_0", "utf8", <<1>>) EXCEPT !.bytes = <<2>>]},
     cell |->
        TextParts("cell_id") \cup TextParts("nhp_host")
        \cup {Part("endpoint_revision", "uint64_be", n) : n \in {<<2>>, Unreadable}}]

----------------------------------------------------------------------------
\* Uploads.

MCMethod == [upload |-> <<1>>, refresh |-> <<2>>]
MCDomain == [upload |-> <<1>>, refresh |-> <<2>>]
MCStableDomain == [upload |-> <<1, 1>>, refresh |-> <<2, 1>>]
MCPath == <<2>>
MCAuthorities == {<<1>>, <<1, 2>>}
MCUploadNonces == {<<1>>, <<2>>}
MCAudiences == {<<1>>, <<2>>}

\* The body that is asked for, one for each field that it may say otherwise, and one
\* that is like it but for where one field ends.
MCContent ==
    [b \in {"asked", "shifted"} \cup BodyFields |->
        [field \in BodyFields |->
            CASE field = b -> <<2>>
              [] b = "shifted" /\ field = "handle" -> <<1, 1>>
              [] b = "shifted" /\ field = "batch" -> <<>>
              [] OTHER -> <<1>>]]
Bodies == <<"asked", "shifted", "handle", "batch", "ttl", "expires", "request_id", "file">>
MCDigest == [b \in ToSet(Bodies) |-> <<CHOOSE i \in DOMAIN Bodies : Bodies[i] = b>>]
MCLength == [b \in ToSet(Bodies) |-> IF b = "file" THEN <<2>> ELSE <<1>>]

Asked(operation, b) ==
    [field \in Fields[operation] \cup {"body", "forbidden"} |->
        CASE field = "body" -> b
          [] field = "forbidden" -> FALSE
          [] field = "method" -> MCMethod[operation]
          [] field = "path" -> MCPath
          [] field = "digest" -> MCDigest[b]
          [] field = "length" -> MCLength[b]
          [] operation = "refresh" /\ field \in BodyFields -> MCContent[b][field]
          [] OTHER -> <<1>>]
Golden == [operation \in Operations |-> Asked(operation, "asked")]

\* Requests that differ from the golden one in their body, in a field, or in where one
\* field ends and the next one begins.
MCUploads ==
    [operation \in Operations |->
        {request \in
            {Asked(operation, b) : b \in IF operation = "refresh" THEN DOMAIN MCContent
                                         ELSE {"asked", "file"}}
            \cup {[Golden[operation] EXCEPT ![field] = <<2>>] : field \in Carried[operation]}
            \cup {[Golden[operation] EXCEPT ![field] = <<1, 1>>, ![next] = <<>>] :
                     field, next \in Carried[operation]} :
         Consistent(operation, request)}]

SignedBy(operation, request, s) ==
    Signed(CanonicalBytes(operation, request), 1, s)
Sent(operation, request) ==
    [f \in DOMAIN request \cup {"signature"} |->
        IF f = "signature" THEN SignedBy(operation, request, 2) ELSE request[f]]

Signatures ==
    UNION {{SignedBy(operation, Golden[operation], 2),
            [SignedBy(operation, Golden[operation], 2) EXCEPT !.s = 5],
            [SignedBy(operation, Golden[operation], 2) EXCEPT !.s = 0],
            [SignedBy(operation, Golden[operation], 2) EXCEPT !.r = -1],
            [SignedBy(operation, Golden[operation], 2) EXCEPT !.canonical = FALSE],
            SignedBy(operation, Asked(operation, "handle"), 2),
            SignedBy(operation, [Golden[operation] EXCEPT !.authority = <<1, 2>>], 3)}
           \cup {SignedBy(operation, [Golden[operation] EXCEPT ![field] = <<2>>], 2) :
                    field \in {"nonce", "client", "request_id"}} :
              operation \in Operations}

----------------------------------------------------------------------------
MCRecords ==
    [crid |-> [alphabet |-> {FALSE}, length |-> {60, 47, 59}, canonical |-> {FALSE},
               checksum |-> {FALSE}, version |-> {0, 1, 2, 129, 130, 5, 200},
               digest |-> {"key2"}],
     der |-> [canonical |-> {FALSE}, r |-> {0, 3, 7}, s |-> -1..8],
     upload |-> [field \in AllFields \cup {"body", "forbidden", "signature"} |->
                    CASE field = "method" -> {<<1>>, <<2>>}
                      [] field = "path" -> {<<1>>}
                      [] field = "authority" -> {<<1, 2>>, <<>>}
                      [] field \in {"nonce", "audience"} -> {<<2>>, <<>>}
                      [] field = "digest" -> {MCDigest["handle"]}
                      [] field = "body" -> {"handle"}
                      [] field = "forbidden" -> {TRUE}
                      [] field = "signature" -> Signatures
                      [] OTHER -> {<<2>>}]]

ValueSeeds ==
    [json |-> {Seed("", <<>>)},
     target_path |-> {Seed(TRUE, <<>>), Seed(FALSE, <<>>)},
     user_agent |-> {Seed("", <<>>)},
     crid |-> {Seed("key1", L!Derive(version, "key1", length)) :
                  version \in {1, 129}, length \in {60}},
     der |-> {Seed(message, Signed("m", 1, s)) : message \in {"m", "n"}, s \in 1..6},
     upload |-> {Seed(operation, Sent(operation, Golden[operation])) :
                    operation \in Operations},
     claims |-> {Seed("", Body(v)) : v \in ClaimSeeds},
     fence |-> {Seed(fence, MCFences[fence]) : fence \in {"credential", "cell"}}]
AllSeeds == MCSeeds @@ ValueSeeds
AllLexicon == MCLexicon @@ [claims |-> ClaimLexicon]
=============================================================================
