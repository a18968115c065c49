---------------------------- MODULE ContractGates ----------------------------
(***************************************************************************)
(* The gates of single values beside those of bodies: JSON texts before    *)
(* they are decoded, target paths, user agents, CRIDs, assignment tickets, *)
(* fences and signatures.  Like a body, a value goes wrong step by step: a *)
(* text grows, a record has a field changed, a list of parts is reordered. *)
(***************************************************************************)
EXTENDS BodyGates, RawTexts, AssignmentTicket, PrivateUpload

CONSTANTS TextPieces,      \* [gate -> set of texts]: what a text may grow by
          Records,         \* [gate -> [field -> set of values]]
          Parts,           \* [fence -> set of parts that an edit may put in]
          Fences,          \* [fence -> sequence of parts]: the published positive input
          OtherFences,     \* [fence -> set of fences to compare with]
          Uploads          \* [operation -> set of requests to compare with]

TextGates == {"json", "target_path", "user_agent"}
RecordGates == {"crid", "der", "upload"}
ValueGateNames == TextGates \cup RecordGates \cup {"claims", "fence"}

\* The numbers of a ticket are whole, and a digest is longer than the empty text.
WholeNumber(v) == IsInt(v) => v.at \in Int
ASSUME TicketAssumption ==
    /\ NotBefore \in Nat /\ MaxLifetime \in Nat /\ "" \notin Digests
    /\ \A seed \in Seeds["claims"] :
          /\ seed.body = Body(seed.body.value)
          /\ \A k \in Keys(seed.body.value) : WholeNumber(seed.body.value.fields[k])
    /\ \A k \in DOMAIN Lexicon["claims"] :
          \A lexeme \in Lexicon["claims"][k] : WholeNumber(lexeme)

\* A signer computes scalars, and no edit changes what it did.
IsSignature(x) == /\ x = [canonical |-> x.canonical, r |-> x.r, s |-> x.s, by |-> x.by]
                  /\ x.by.s \in Scalars
ASSUME SignatureAssumption ==
    /\ \A seed \in Seeds["der"] : IsSignature(seed.body)
    /\ "by" \notin DOMAIN Records["der"]

\* The fields of a request are bytes, and the domains of the operations are two texts
\* without a zero byte.  A digest stands for one body, and so do the fields of a refresh.
AllFields == UNION {Fields[operation] : operation \in Operations}
FieldFits(field, value) == /\ field \in AllFields => value \in Seq(Nat)
                           /\ field = "signature" => IsSignature(value) /\ value.s \in Int
                           /\ field = "body" => value \in DOMAIN Digest
ASSUME UploadAssumption ==
    /\ \A operation \in Operations :
          /\ {Domain[operation], StableDomain[operation]} \subseteq Seq(Nat \ {0})
          /\ \A other \in Uploads[operation] :
                /\ other.body \in DOMAIN Digest /\ Consistent(operation, other)
                /\ \A field \in Fields[operation] : other[field] \in Seq(Nat)
    /\ Domain["upload"] # Domain["refresh"]
    /\ \A b, c \in DOMAIN Digest : Digest[b] = Digest[c] => b = c
    /\ DOMAIN Content \subseteq DOMAIN Digest
    /\ \A b, c \in DOMAIN Content :
          (\A field \in BodyFields : Content[b][field] = Content[c][field]) => b = c
    /\ \A seed \in Seeds["upload"] :
          /\ seed.about \in Operations
          /\ \A field \in Fields[seed.about] \cup {"signature", "body"} :
                field \in DOMAIN seed.body /\ FieldFits(field, seed.body[field])
    /\ \A field \in DOMAIN Records["upload"] : \A value \in Records["upload"][field] :
          FieldFits(field, value)

\* A JSON text is read from its beginning, token by token; a user agent is made of
\* widths, and a target path of characters.
PathTexts == TextPieces["target_path"] \cup {seed.body : seed \in Seeds["target_path"]}
PathChars == UNION {Chars(text) : text \in PathTexts}
ASSUME TextAssumption ==
    /\ \A seed \in Seeds["json"] : seed.body = <<>>
    /\ \A piece \in TextPieces["json"] : piece = <<piece[1]>>
    /\ UserAgentMaxBytes \in Nat
    /\ TextPieces["user_agent"] \cup {seed.body : seed \in Seeds["user_agent"]}
          \subseteq Seq(Nat)
    /\ PathTexts \subseteq Seq(PathChars)

\* A fence has one part of a name, and the values of parts are bytes.
FenceParts(fence) == Parts[fence] \cup Chars(Fences[fence])
ASSUME FenceAssumption ==
    /\ \A seed \in Seeds["fence"] :
          seed.about \in DOMAIN Fences /\ seed.body \in Seq(FenceParts(seed.about))
    /\ \A fence \in DOMAIN Fences :
          /\ Len(Fences[fence]) \in Nat /\ DOMAIN Fences[fence] = 1..Len(Fences[fence])
          /\ \A part \in FenceParts(fence) : part.value \in Seq(Nat)
          /\ \A i, j \in DOMAIN Fences[fence] :
                Fences[fence][i].name = Fences[fence][j].name => i = j
          /\ \A other \in OtherFences[fence] :
                DOMAIN other = 1..Len(other) /\ \A i \in DOMAIN other : other[i].value \in Seq(Nat)

ValueInit ==
    /\ gate \in ValueGateNames
    /\ \E seed \in Seeds[gate] : about = seed.about /\ body = seed.body
    /\ edits = 0

\* A JSON text that has been refused stays refused.
Unfinished == gate = "json" => J!Walk(body).status \in {"open", "done"}

Grow ==
    /\ gate \in TextGates /\ Unfinished
    /\ \E piece \in TextPieces[gate] : body' = body \o piece

Change ==
    /\ gate \in RecordGates
    /\ \E field \in DOMAIN Records[gate] \cap DOMAIN body : \E value \in Records[gate][field] :
          body' = [body EXCEPT ![field] = value]

EditClaims ==
    /\ gate = "claims"
    /\ \/ Edit
       \/ body.flaw = "none" /\ body' \in {Flawed(f, body.value) : f \in Flaws}

\* A part is replaced, dropped, or changes places with the next one.
EditFence ==
    /\ gate = "fence"
    /\ \E i \in DOMAIN body :
          \/ \E part \in Parts[about] : body' = [body EXCEPT ![i] = part]
          \/ body' = SubSeq(body, 1, i - 1) \o SubSeq(body, i + 1, Len(body))
          \/ /\ i < Len(body)
             /\ body' = [body EXCEPT ![i] = body[i + 1], ![i + 1] = body[i]]

ValueNext ==
    /\ gate \in ValueGateNames /\ edits < MaxEdits[gate]
    /\ Grow \/ Change \/ EditClaims \/ EditFence
    /\ edits' = edits + 1
    /\ UNCHANGED <<gate, about>>

GatesInit == BodyInit \/ ValueInit
GatesNext == BodyNext \/ ValueNext
GatesSpec == GatesInit /\ [][GatesNext]_gateVars

----------------------------------------------------------------------------
\* JSON texts.

\* A text is refused for a repeated key if one object has two keys of one name,
\* however spelled and whatever was nested between them, and never because an inner
\* object uses the name of an outer key (schema.go:3422).
KeysAreDistinct ==
    gate = "json" =>
        LET status == J!Walk(body).status
        IN  /\ status = "duplicate" => KeyRepeated(body)
            /\ status \in {"open", "done", "trailing"} => ~KeyRepeated(body)

----------------------------------------------------------------------------
\* Target paths.

\* An accepted path means the same to every library on its way: there is nothing in
\* it to decode, to resolve or to merge, so the resource that was authorised is the
\* one that is opened (target_path.go:370).
AcceptedPathIsFixed ==
    gate = "target_path" /\ about /\ Expectation(about, body) = Pass =>
        Tail(Segments(PathPart(body))) = Normalised(PathPart(body))

\* A well-formed query is carried along unread: it changes the verdict on no path,
\* dots, escapes, slashes and further question marks included (target_path.go:403).
QueryIsOpaque ==
    gate = "target_path" =>
        LET first == CHOOSE i \in 0..Len(body) :
                        /\ \A j \in 1..i : body[j] # "?"
                        /\ i < Len(body) => body[i + 1] = "?"
            path == SubSeq(body, 1, first)
            query == SubSeq(body, first + 1, Len(body))
        IN  /\ path # <<>> /\ Len(body) <= MaxBytes
            /\ Chars(query) \subseteq Allowed /\ ~Malformed(query)
            => TargetGate(body) = TargetGate(path)

----------------------------------------------------------------------------
\* User agents and CRIDs.

\* What is sent of a user agent is the longest beginning of it that fits and ends
\* between two code points (crid_link_knock.go:1067).
LongestBeginningIsSent ==
    gate = "user_agent" =>
        L!SentBytes(body) =
            IF 0 \in Chars(body) THEN 0
            ELSE LET fitting == {n \in 0..Len(body) :
                                    L!Bytes(SubSeq(body, 1, n)) <= UserAgentMaxBytes}
                     longest == CHOOSE n \in fitting : \A k \in fitting : k <= n
                 IN  L!Bytes(SubSeq(body, 1, longest))

\* The gates for one CRID agree: what the local gate refuses is used for nothing, and
\* a link is asked for only in an environment that is known; a version that nobody
\* has registered is forwarded, and no more (crid.go:485, 512, 538).
CridGatesAgree ==
    gate = "crid" =>
        LET local == L!ValueGate(body)
            asked == L!RequestGate(body)
            report == L!VersionReport(body)
        IN  /\ local # Pass =>
                  asked = local /\ report = "error" /\ ~L!KeyMatches(body, about)
            /\ asked = Pass => report \in {"test", "production"}
            /\ local = Pass /\ report \in {"unknown", "error"} => asked = "version"

----------------------------------------------------------------------------
\* Assignment tickets.

Taken == gate = "claims" /\ ParseClaims(body) = Pass

\* A ticket that parses can be used when it is issued, and at no time outside the
\* window around its issue (tools/verify-assignment-ticket/main.go:149).
TicketHasItsWindow ==
    Taken =>
        LET issue == At(body.value, "iat")
        IN  /\ ValidAt(body.value, issue)
            /\ \A time \in 0..(issue + 2 * MaxLifetime) : ValidAt(body.value, time) =>
                  issue - NotBefore <= time /\ time < issue + MaxLifetime

\* A ticket names the fence of an assignment exactly when there was an assignment to
\* fence, and every claim of it has a meaning (main.go:226).
FencedWhenExisting ==
    Taken =>
        LET v == body.value
        IN  /\ Text(v, "assignment_fence_b64") \in Digests
                  <=> Text(v, "placement_mode") = "existing"
            /\ \A k \in Keys(v) : Field(v, k).type \in {"string", "number"}

Meaning(parts) ==
    [scopes |-> {parts[i].value : i \in Scopes(parts)},
     other |-> {[name |-> part.name, value |-> part.value] :
                   part \in {p \in Chars(parts) : p.name \notin ScopeNames}}]

FenceTaken(fence, parts) == FenceBoundary(parts, Fences[fence]) = Pass

\* A fence changes if and only if something that it stands for has changed: two
\* inputs share a preimage exactly when they mean the same record
\* (main.go:422, fence_rejects.go:43).
FenceIsTheRecord ==
    gate = "fence" /\ FenceTaken(about, body) =>
        \A other \in OtherFences[about] :
            FenceTaken(about, other) =>
                (FencePreimage(<<>>, body) = FencePreimage(<<>>, other)
                    <=> Meaning(body) = Meaning(other))

----------------------------------------------------------------------------
\* Signatures.

\* Whichever of two twins KMS returns, the ticket carries the same one, it verifies
\* as the returned one did, and no verifier refuses it as malleable
\* (tools/verify-assignment-ticket/main.go:653).
NormalisedOnce ==
    gate = "der" =>
        LET raw == DerToRaw(body)
        IN  raw # <<>> =>
               /\ raw = DerToRaw([body EXCEPT !.s = Order - body.s])
               /\ VerifySignature(raw[1], about) =
                     Unless(Verifies(body, about), "signature_mismatch")

UploadClass == RejectClass(about, body)

\* A server acts on no request but the signed one: the operation, the body and
\* whatever the request line and the headers tell it are what the client signed, and
\* the signature has one spelling (private_upload_v1.go:83, 347, 536, 660).
UploadIsAsSigned ==
    gate = "upload" /\ UploadClass = Pass =>
        /\ body.signature.s = LowS(body.signature.by.s)
        /\ \A operation \in Operations : \A other \in Uploads[operation] :
              CanonicalBytes(operation, other) = body.signature.by.message =>
                  /\ operation = about /\ other.body = body.body
                  /\ \A field \in Carried[about] : other[field] = body[field]

\* Each check on its own.
UploadDefects ==
    {class \in Chars(Precedence) :
        CASE class = "method_path" -> body.method # Method[about] \/ body.path # Path
          [] class = "forbidden_header" -> body.forbidden
          [] class = "authority" -> body.authority \notin Authorities
          [] class = "nonce" -> body.nonce \notin UploadNonces
          [] class = "audience_key_id" ->
                about = "upload" /\ body.audience \notin Audiences
          [] class = "signature_encoding" -> ~body.signature.canonical
          [] class = "signature_scalar" -> ~InRange(body.signature)
          [] class = "signature_malleability" -> 2 * body.signature.s > Order
          [] class = "signature_mismatch" ->
                ~Verifies(body.signature, CanonicalBytes(about, body))
          [] OTHER -> Digest[body.body] # body.digest}

\* The class of a refused request is the first in the published precedence of all
\* that is wrong with it (private_upload_v1.go:660).
UploadDefectsInOrder ==
    gate = "upload" =>
        /\ UploadClass = Pass <=> UploadDefects = {}
        /\ \A i \in DOMAIN Precedence : UploadClass = Precedence[i] =>
              /\ Precedence[i] \in UploadDefects
              /\ \A j \in 1..(i - 1) : Precedence[j] \notin UploadDefects

\* What a client may choose anew when it tries again.
PerAttempt == {"method", "authority", "path", "timestamp", "nonce", "key"}

\* Two attempts, of whatever time, nonce, host and key, have one stable digest exactly
\* when they ask for the same thing under the same request id, so that a retry is known
\* and nothing else is taken for one (private_upload_v1.go:362, 377).
RetryIsTheSameUpload ==
    gate = "upload" /\ UploadClass = Pass /\ Consistent(about, body) =>
        \A other \in Uploads[about] :
            StableBytes(about, other) = StableBytes(about, body) <=>
                /\ other.body = body.body
                /\ \A field \in Carried[about] \ PerAttempt : other[field] = body[field]

----------------------------------------------------------------------------
\* What the gates promise together.

\* One wire form per meaning: a Hub, a cell and an agent take the encodings of what
\* may be asked and answered, and no other body.
OneWireForm == RequestsAreEncodings /\ ResultsAreEncodings /\ AssignmentsAreEncodings

\* The class of a refused body, link or upload is the first in the published order of
\* all that is wrong with it, so that two implementations report the same one.
FirstDefectIsReported ==
    StructureBeforeValues /\ LinkDefectsInOrder /\ UploadDefectsInOrder

\* A user is shown a link only for the CRID that was asked for, and beside it nothing
\* that the reply does not earn.
LinkIsEarned == LinkIsForTheCrid /\ NothingShownUnearned

\* Two readers of one text never take it for different things: two decoders of an
\* object, two parsers of a knock, the gates that a CRID passes.
ReadersAgree ==
    KeysAreDistinct /\ DamageIsNeverRead /\ ConnectorIsStricter /\ CridGatesAgree

\* What is accepted can be acted on: an error has a delay when it is tried again, a
\* success a session that is open, a ticket a window and the fence it needs.
AcceptedIsUsable ==
    /\ DelayTellsTheOutcome /\ SuccessRowsAreSound
    /\ TicketHasItsWindow /\ FencedWhenExisting

\* An authorised target path is changed by nothing it passes through, and its query
\* is none of its concern.
TargetIsExact == AcceptedPathIsFixed /\ QueryIsOpaque

\* A signature has one spelling and stands for one request.
SignedOnce == NormalisedOnce /\ UploadIsAsSigned

\* A digest is that of one record: fences differ when the records do, and a retry is
\* known by its stable digest although time, nonce, host and key are new.
DigestIsTheRecord == FenceIsTheRecord /\ RetryIsTheSameUpload
=============================================================================
