------------------------------ MODULE BodyGates ------------------------------
(***************************************************************************)
(* The body classifiers of the application contracts, each in front of a   *)
(* sender whose body goes wrong one step at a time: a key is dropped, a    *)
(* key is added or given another lexeme, or the bytes around the object    *)
(* are damaged.  A run starts from every body the contract can encode and  *)
(* reaches all bodies that are up to MaxEdits steps away from one.         *)
(***************************************************************************)
EXTENDS JsonBody, FiniteSets

CONSTANTS AgentIds, ConnectorIds, Nonces, ResourceKeys, RoutingIds, CRIDs,
          BadKnockIds, CridOf,                       \* ResourceBody
          AgentId, Integers,                         \* AssignmentBody
          RunIds, KnockId, SessionIds, OpenTimes, Spellings, KeyIds,   \* KnockBody
          UserAgentMaxBytes, LongTexts,              \* LinkKnock
          HeldCrids,   \* CRIDs a client may hold when it asks for a link
          LinkKeys,    \* resource keys that a link may carry
          Seeds,       \* [gate -> set of [about, body]]: the bodies before any edit
          Lexicon,     \* [gate -> [key -> set of lexemes an edit may put there]]
          MaxEdits     \* [gate -> Nat]

\* A long text is longer than the empty one, and no session has the id zero.
ASSUME LongTextsAssumption == "" \notin LongTexts
ASSUME SessionIdsAssumption == "0" \notin SessionIds

\* A member of a result may be spelled as it is published.
ASSUME SpellingsAssumption ==
    /\ DOMAIN Spellings = {"acTokens", "resHost", "preActions"}
    /\ \A member \in DOMAIN Spellings :
          /\ Len(Spellings[member]) \in Nat
          /\ DOMAIN Spellings[member] = 1..Len(Spellings[member])
          /\ \E i \in DOMAIN Spellings[member] : Spellings[member][i] = member

R == INSTANCE ResourceBody
A == INSTANCE AssignmentBody
K == INSTANCE KnockBody
L == INSTANCE LinkKnock

\* No identifier is empty, a key derives to a CRID, and a client asks in a name and for
\* a connector that it may have, in one of the phases of an enrollment, and for a link
\* with the CRID that it holds.
ASSUME IdentifiersAssumption ==
    /\ "" \notin AgentIds \cup CRIDs /\ AgentId # ""
    /\ CridOf \in [ResourceKeys -> CRIDs]
    /\ \A seed \in Seeds["resource_result"] :
          seed.about.agent \in AgentIds /\ seed.about.connector \in ConnectorIds
    /\ \A seed \in Seeds["assignment_request"] : seed.about \in A!Phases
    /\ \A seed \in Seeds["link"] : seed.about \in HeldCrids
    /\ HeldCrids \subseteq [alphabet : BOOLEAN, length : Nat, canonical : BOOLEAN,
                            checksum : BOOLEAN, version : Nat, digest : LinkKeys]

VARIABLES gate,    \* the classifier
          about,   \* what it knows beside the body: the peer, the request, the phase
          body,
          edits
gateVars == <<gate, about, body, edits>>

BodyGateNames ==
    {"resource_request", "resource_result", "assignment_request", "assignment_result",
     "assignment_error", "knock_request", "knock_reply", "link", "key_id"}

\* What the bodies of the gates are made of: spellings of their type, links, and
\* functions on keys, on the three levels that a gate reads the values of.
IsLexeme(v) ==
    /\ v.type # "absent"
    /\ IsObject(v) => v = Obj([k \in Keys(v) |-> v.fields[k]])
    /\ v.type \in {"string", "number"} => v = Scalar(v.type, v.text)
    /\ v.type = "boolean" => v \in {Bool("true"), Bool("false")}
    /\ v.type = "null" => v = Null
    /\ v.type = "link" => v.link.location \in L!Locations
HoldsLexemes(v) == IsLexeme(v) /\ \A k \in Keys(v) : IsLexeme(v.fields[k])
IsJson(v) == IsLexeme(v) /\ \A k \in Keys(v) : HoldsLexemes(v.fields[k])

ASSUME LexemesAssumption == \A g \in BodyGateNames :
    /\ \A seed \in Seeds[g] :
          seed.body = Body(seed.body.value) /\ IsJson(seed.body.value)
    /\ \A k \in DOMAIN Lexicon[g] : \A lexeme \in Lexicon[g][k] : IsJson(lexeme)

BodyInit ==
    /\ gate \in BodyGateNames
    /\ \E seed \in Seeds[gate] : about = seed.about /\ body = seed.body
    /\ gate = "link" => L!RequestGate(about) = Pass
    /\ edits = 0

\* One edit of an object, or of one inside it: a body has objects on four levels.
FlatEdits(v, lexicon) ==
    {Without(v, k) : k \in Keys(v)}
    \cup UNION {{With(v, k, lexeme) : lexeme \in lexicon[k]} : k \in DOMAIN lexicon}
EditsInside(v, editsOf) ==
    UNION {{With(v, k, inner) : inner \in editsOf[k]} :
              k \in {key \in Keys(v) : IsObject(Field(v, key))}}
Edited(v, lexicon) ==
    LET Fourth(w) == FlatEdits(w, lexicon)
        Third(w) ==
            FlatEdits(w, lexicon) \cup EditsInside(w, [k \in Keys(w) |-> Fourth(Field(w, k))])
        Second(w) ==
            FlatEdits(w, lexicon) \cup EditsInside(w, [k \in Keys(w) |-> Third(Field(w, k))])
    IN  FlatEdits(v, lexicon) \cup EditsInside(v, [k \in Keys(v) |-> Second(Field(v, k))])

Edit ==
    /\ edits < MaxEdits[gate] /\ body.flaw = "none" /\ IsObject(body.value)
    /\ \E v \in Edited(body.value, Lexicon[gate]) : body' = Body(v)

\* What can be wrong with the bytes: only the resource bodies are limited in size
\* and checked to be UTF-8, and a link reply reaches its gate as a JSON value.
FlawsAt(g) == CASE g \in {"resource_request", "resource_result"} -> Flaws
                [] g = "knock_reply" -> {"duplicate", "trailing", "sess_twice"}
                [] g = "link" -> {}
                [] OTHER -> {"duplicate", "trailing"}

Damage ==
    /\ edits < MaxEdits[gate] /\ body.flaw = "none"
    /\ \/ body' \in {Flawed(flaw, body.value) : flaw \in FlawsAt(gate)}
       \/ gate # "link" /\ body' = Body(Null)

BodyNext ==
    /\ gate \in BodyGateNames
    /\ Edit \/ Damage
    /\ edits' = edits + 1
    /\ UNCHANGED <<gate, about>>

Class ==
    CASE gate = "resource_request" -> R!ParseRequest(body, about)
      [] gate = "resource_result" -> R!ParseResult(body, about)
      [] gate = "assignment_request" ->
            A!ClassifyRequest(about, A!RequestHeader[about], body)
      [] gate = "assignment_result" -> A!ClassifyResult(about, body)
      [] gate = "assignment_error" -> A!ClassifyError(about, body)
      [] gate = "knock_request" -> K!ConnectorParse(body)
      [] gate = "knock_reply" -> K!EnvelopeClass(body)
      [] gate = "key_id" -> K!ReadKeyId(about, body)
      [] OTHER -> L!InterpretACK(about, body.value).class

Accepted == Class = Pass

----------------------------------------------------------------------------
\* One wire form per meaning.

RequestOf(v) ==
    [agent |-> Text(v, "usrId"), connector |-> Text(Field(v, "usrData"), "connector_id"),
     nonce |-> Text(Field(v, "usrData"), "request_nonce"),
     expected |-> Text(Field(v, "usrData"), "expected_crid")]

ProperRequest(r, agent) ==
    /\ r.agent = agent /\ r.agent \in AgentIds /\ r.connector \in ConnectorIds
    /\ r.nonce \in Nonces /\ r.expected \in CRIDs \cup {""}

\* A Hub takes exactly the encodings of the requests that the sender of the packet
\* may make: no other spelling of one, and no request in another agent's name
\* (connector_resource_lst_v1.go:849).
RequestsAreEncodings ==
    gate = "resource_request" =>
        (Accepted <=> /\ ProperRequest(RequestOf(body.value), about)
                      /\ body = R!EncodeRequest(RequestOf(body.value)))

SuccessOf(v) ==
    LET list == Field(v, "list")
    IN  [agent |-> Text(list, "agent_id"), connector |-> Text(list, "connector_id"),
         key |-> Text(list, "resource_public_key"),
         routing |-> Text(list, "connector_routing_id"),
         knock |-> Text(list, "knock_resource_id"), crid |-> Text(list, "crid"),
         found |-> Field(list, "found_existing") = Bool("true")]

\* What the Hub of this agent may answer: the three identifiers of a resource are
\* not mixed up, its CRID is the one of its key, and it is the pinned one if any.
ProperSuccess(s, request) ==
    /\ s.agent = request.agent /\ s.connector = request.connector
    /\ s.key \in ResourceKeys /\ s.routing \in RoutingIds
    /\ s.knock \notin BadKnockIds \cup {s.key, s.routing}
    /\ s.crid = CridOf[s.key]
    /\ request.expected \in {"", s.crid}

DelayOf(v) == IF Has(v, "retryAfterSeconds") THEN Field(v, "retryAfterSeconds").text ELSE ""

\* An agent takes exactly the encodings of the successes that answer its request
\* and of the errors with a delay where the code asks for one
\* (connector_resource_lst_v1.go:908).
ResultsAreEncodings ==
    gate = "resource_result" =>
        (Accepted <=>
            \/ /\ ProperSuccess(SuccessOf(body.value), about)
               /\ body = R!EncodeSuccess(SuccessOf(body.value))
            \/ LET code == Text(body.value, "errCode")
                   delay == DelayOf(body.value)
               IN  /\ code \in {"52500", "52501", "52502", "52503", "52504", "52505",
                                "52506"}
                   /\ delay # "" => code \in {"52500", "52505"} /\ delay \in {"1", "3600"}
                   /\ code = "52505" => delay # ""
                   /\ body = R!EncodeError(code, delay))

\* The encoding of what a body says in a phase, with every value a text but the
\* version of the list and OTP phases.
AssignmentEncoding(phase, v) ==
    LET data == Field(v, "usrData")
        Encoded(key) == IF key = "version" /\ phase # "assigned_cell_registration"
                        THEN Num("1") ELSE Str(Text(data, key))
    IN  Obj([k \in A!OuterKeys[phase] |->
                IF k = "usrData" THEN Obj([d \in A!DataKeys[phase] |-> Encoded(d)])
                                 ELSE Str(Text(v, k))])

\* The list phases name no user; the cell's phases name one and carry a secret.
ProperAssignment(phase, v) ==
    LET data == Field(v, "usrData")
    IN  /\ Text(v, "aspId") = "agent"
        /\ Text(v, "usrId") = "" <=> phase \in A!ListPhases
        /\ phase # "assigned_cell_otp" => Text(v, "devId") = AgentId
        /\ \A k \in {"devId", "pass", "otp"} \cap Keys(v) : Text(v, k) # ""
        /\ \A k \in {"credential", "assignment_ticket", "device_api_key"} \cap Keys(data) :
              Text(data, k) # ""
        /\ phase \in A!AssignmentPhases => Text(data, "request_nonce") \in Nonces

\* Whatever a Hub or a cell takes in a phase is the encoding of a request of that
\* phase, under a nonce it can remember it by; a null is taken for the empty user
\* id and for nothing else (schema.go:1927).
AssignmentsAreEncodings ==
    gate = "assignment_request" /\ Accepted =>
        LET encoding == AssignmentEncoding(about, body.value)
        IN  /\ body.flaw = "none" /\ ProperAssignment(about, body.value)
            /\ body.value \in {encoding, With(encoding, "usrId", Null)}

----------------------------------------------------------------------------
\* Structure.

\* Where the second value has an object, the first one has one with the same keys: at
\* the top, and on the three levels below it.
Alike(v, w) == IsObject(w) => IsObject(v) /\ Keys(v) = Keys(w)
SameKeys(v, w) ==
    /\ Alike(v, w)
    /\ \A i \in Keys(w) :
         LET first == Field(w, i)
         IN  /\ Alike(Field(v, i), first)
             /\ \A j \in Keys(first) :
                  LET second == Field(first, j)
                      other == Field(Field(v, i), j)
                  IN  /\ Alike(other, second)
                      /\ \A k \in Keys(second) : Alike(Field(other, k), Field(second, k))

\* The seeds are legitimate, and whatever a seed is about, each of the shapes that a
\* body may have is among them: with an optional key and without it.
ASSUME SeedsAssumption ==
    /\ \A seed \in Seeds["resource_request"] : \A optional \in BOOLEAN :
         \E other \in Seeds["resource_request"] :
            LET request == RequestOf(other.body.value)
            IN  /\ other.about = seed.about /\ other.body = R!EncodeRequest(request)
                /\ optional <=> request.expected # ""
    /\ \A seed \in Seeds["resource_result"] :
         /\ \E other \in Seeds["resource_result"] :
               /\ other.about = seed.about
               /\ other.body = R!EncodeSuccess(SuccessOf(other.body.value))
         /\ \A optional \in BOOLEAN : \E other \in Seeds["resource_result"] :
               LET v == other.body.value
               IN  /\ other.about = seed.about
                   /\ other.body = R!EncodeError(Text(v, "errCode"), DelayOf(v))
                   /\ optional <=> DelayOf(v) # ""
    /\ \A seed \in Seeds["assignment_request"] :
          seed.body.value = AssignmentEncoding(seed.about, seed.body.value)
    /\ \A seed \in Seeds["assignment_result"] :
          A!ClassifyResult(seed.about, seed.body) = Pass

ExactGates == {"resource_request", "resource_result", "assignment_request",
               "assignment_result"}
ValueClasses == {"semantic", "agent_binding", "request_binding", "resource_binding",
                 "crid_binding", "unknown_error_code", "retry_after_missing",
                 "retry_after_unexpected"}

\* Values are judged only in a body whose objects have, at every depth, the keys of
\* a legitimate one in its place: whatever else is wrong, a defect of the structure is
\* the one reported (connector_resource_lst_v1.go:849, schema.go:2044).
StructureBeforeValues ==
    gate \in ExactGates /\ Class \in ValueClasses =>
        /\ body.flaw = "none"
        /\ \E seed \in Seeds[gate] :
              seed.about = about /\ SameKeys(body.value, seed.body.value)

----------------------------------------------------------------------------
\* Errors.

\* What the agent does and whether it waits agree: only an outcome that is tried
\* again names a delay, and being rate limited always does (schema.go:2617).
DelayTellsTheOutcome ==
    gate = "assignment_error" /\ Accepted =>
        LET outcome == A!Outcome[Text(body.value, "errCode")]
            delayed == Field(body.value, "retryAfterSeconds").type = "number"
        IN  /\ delayed => /\ outcome \in {"retry", "rate_limited"}
                          /\ Field(body.value, "retryAfterSeconds").text \in {"1", "3600"}
            /\ outcome = "rate_limited" => delayed

----------------------------------------------------------------------------
\* Knocks.

\* The Connector is a stricter reader than the generic parser, never another one:
\* it takes nothing the other refuses, it refuses for the same reason, and what it
\* takes names a run (schema.go:3073).
ConnectorIsStricter ==
    gate = "knock_request" =>
        /\ K!GenericParse(body) # Pass => K!ConnectorParse(body) = K!GenericParse(body)
        /\ K!ConnectorParse(body) = Pass => Text(body.value, "runId") \in RunIds

\* A success that a row may promise for a body: any token, host, session and time.
Results == [token : {"token", "other"}, host : {"host", "other"},
            session : SessionIds \cup {"0"}, open : OpenTimes \cup {"0"}]
SuccessRows == [type : {2, 5, 7}, echoed : BOOLEAN, outcome : {"success"},
                class : {"", "server_deny"}, expected : {<<r>> : r \in Results}]

\* The members of a result that a body has, in whatever spelling.
MapsOf(v, member) == {K!Keyed(v, member, i) : i \in DOMAIN Spellings[member]}

\* A published success is one the agent can use: the body denies nothing, opens a
\* session that has an id, for a time that is not zero; the token and the host are
\* what it gives to the resource that was knocked for, under some spelling of the
\* member; and an action before access is asked for nowhere, or withdrawn by another
\* spelling.  So there is no doubt of a body that spells each member once
\* (schema.go:3179, 3268, 3373).
SuccessRowsAreSound ==
    gate = "knock_reply" =>
        \A row \in SuccessRows :
            K!RowFits(row, body) =>
                LET v == body.value
                    won == row.expected[1]
                IN  /\ body.flaw = "none" /\ row.echoed /\ row.type = 2
                    /\ Field(v, "errCode") \in {Null, Str(""), Str("0")}
                    /\ Field(v, "sessId") = Num(won.session) /\ won.session # "0"
                    /\ Field(v, "opnTime") = Num(won.open) /\ won.open # "0"
                    /\ \E map \in MapsOf(v, "acTokens") :
                          Text(map, KnockId.resId) = won.token
                    /\ \E map \in MapsOf(v, "resHost") :
                          Text(map, KnockId.resId) = won.host
                    /\ \A map \in MapsOf(v, "preActions") : \A r \in Keys(map) :
                          Field(map, r) # Null =>
                              \E other \in MapsOf(v, "preActions") :
                                  other = Null \/ Field(other, r) = Null

----------------------------------------------------------------------------
\* Links.

Reply == L!InterpretACK(about, body.value)

\* A link that reaches the user was issued under the code of a link, lies on the
\* origin, is signed, and its key is the one that the CRID of the request derives
\* from, in a version of CRID that is in use (crid_link_knock.go:1343).
LinkIsForTheCrid ==
    gate = "link" /\ Reply.link # <<>> =>
        LET link == Reply.link[1]
        IN  /\ Field(body.value, "errCode") = Str("52600")
            /\ link.origin /\ link.location \in {"none", "slash"}
            /\ link.transport /\ link.signed /\ link.readable
            /\ about \in {L!Derive(version, link.key, 60) : version \in {1, 129}}

\* Each check on its own, whatever the others say.
Defects ==
    LET redirect == Field(body.value, "redirectUrl")
        info == Field(body.value, "redirectInfo")
        echoed == Has(info, "crid") /\ Field(info, "crid") # L!CridText(about)
        link == redirect.link
    IN  IF redirect.type # "link" THEN {"missing_redirect"}
        ELSE {c \in {"origin", "path_or_query", "transport", "issuer_signature",
                     "crid_mismatch", "info_crid_mismatch"} :
                CASE c = "origin" -> ~link.origin \/ link.location = "authority"
                  [] c = "path_or_query" -> link.location \in {"path", "query"}
                  [] c = "transport" -> ~link.transport
                  [] c = "issuer_signature" -> ~link.signed \/ ~link.readable
                  [] c = "crid_mismatch" -> link.key # about.digest
                  [] OTHER -> echoed}

\* The class that is reported for a link is the first, in the published order, of
\* all that is wrong with it (crid_link_knock.go:1268, 1349).
LinkDefectsInOrder ==
    gate = "link" /\ Field(body.value, "errCode") = Str("52600") =>
        /\ Reply.class = Pass <=> Defects = {}
        /\ \A i \in DOMAIN L!RejectClasses :
              Reply.class = L!RejectClasses[i] =>
                  /\ L!RejectClasses[i] \in Defects
                  /\ \A j \in 1..(i - 1) : L!RejectClasses[j] \notin Defects

\* A publisher is shown as verified only beside a link, and only for the value
\* true; display text comes from where it belongs or not at all
\* (crid_link_knock.go:1205).
NothingShownUnearned ==
    gate = "link" =>
        /\ Reply.link = <<>> => Reply.info = L!NoInfo
        /\ Reply.info.verified =>
              Field(Field(Field(body.value, "redirectInfo"), "publisher"), "verified")
                  = Bool("true")
        /\ {Reply.info.id, Reply.info.name, Reply.info.expires} \cap LongTexts = {}

\* No gate takes a body with a key used twice or with bytes after the object, which
\* two decoders would read in two ways (schema.go:3413).
DamageIsNeverRead ==
    gate \in BodyGateNames \ {"link"} /\ Accepted => body.flaw = "none"
=============================================================================
