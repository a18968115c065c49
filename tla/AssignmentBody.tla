--------------------------- MODULE AssignmentBody ---------------------------
(***************************************************************************)
(* The classifiers of the agent-assignment artifact in schema.go: requests *)
(* and results of the five phases of an enrollment, and the errors of the  *)
(* LRT and RAK replies.  Keys are checked first, on the raw object; only   *)
(* then is the body decoded into Go types, where null leaves a field at    *)
(* its zero value and any other wrong type is a parse error.               *)
(***************************************************************************)
EXTENDS JsonBody

CONSTANTS AgentId,     \* "agent-conform", the one agent of the artifact
          Nonces,      \* canonical request nonces
          Integers     \* number lexemes that are integers; all contain "1"

Phases == {"initial_assignment", "refresh_assignment",
           "assigned_cell_registration", "assigned_cell_otp",
           "registration_completion"}
ListPhases == Phases \ {"assigned_cell_registration", "assigned_cell_otp"}
AssignmentPhases == {"initial_assignment", "refresh_assignment"}

\* Header of the request and of its result; the OTP request has no result.
RequestHeader == [p \in Phases |-> CASE p \in ListPhases -> "LST"
                                     [] p = "assigned_cell_otp" -> "OTP"
                                     [] OTHER -> "REG"]
ResultHeader == [p \in Phases |-> CASE p \in ListPhases -> "LRT"
                                    [] p = "assigned_cell_otp" -> ""
                                    [] OTHER -> "RAK"]

----------------------------------------------------------------------------
\* The key sets the phases close over.

Common == {"usrId", "devId", "aspId", "usrData"}
OuterKeys == [p \in Phases |-> CASE p = "assigned_cell_otp" -> Common \cup {"pass"}
                                 [] p = "assigned_cell_registration" ->
                                      Common \cup {"otp"}
                                 [] OTHER -> Common]
DataKeys ==
    [initial_assignment |-> {"query", "version", "mode", "request_nonce", "credential"},
     refresh_assignment |-> {"query", "version", "mode", "request_nonce"},
     assigned_cell_registration |-> {"hostname", "version", "assignment_ticket"},
     assigned_cell_otp |-> {"query", "version", "assignment_ticket"},
     registration_completion |-> {"query", "version", "device_api_key"}]

ListKeys ==
    [initial_assignment |-> {"query", "version", "mode", "agent_id", "registration",
                             "assignment", "assignment_ticket",
                             "assignment_ticket_expires_at"},
     refresh_assignment |-> {"query", "version", "mode", "agent_id", "assignment"},
     registration_completion |-> {"query", "version", "device_api_key_id"}]
RegistrationKeys == {"key_id", "key_kind"}
AssignmentKeys == {"cell_id", "assignment_generation", "endpoint_revision",
                   "lease_expires_at", "nhp_udp_endpoint"}
EndpointKeys == {"host", "port", "server_public_key_b64"}
PublicKeyKinds == {"bootstrap", "connector_bootstrap", "account", "agent"}

\* An object with exactly these keys; duplicates and trailing bytes come first.
Exact(v, keys) ==
    FirstOf(<<Unless(IsObject(v), "wrong_type"), ExactKeys(v, keys, keys)>>)

\* (a slip: the decoder stops after the first value)
WholeBody_First(body) == Unless(body.flaw # "duplicate", "body_parse")

WholeBody(body) == Unless(body.flaw = "none", "body_parse")

----------------------------------------------------------------------------
\* The typed decode.

Decodes(v, strings, integers) ==
    Unless(/\ \A k \in strings : Field(v, k).type \in {"string", "null"}
           /\ \A k \in integers : \/ Field(v, k).type = "null"
                                  \/ /\ Field(v, k).type = "number"
                                     /\ Field(v, k).text \in Integers, "body_parse")

IsOne(v) == Field(v, "version") = Num("1")
NonEmpty(v, key) == Text(v, key) # ""

\* (a slip: the request nonce only has to be there)
DataSemantics_AnyNonce(phase, d) ==
    CASE phase = "initial_assignment" ->
           /\ Text(d, "query") = "cell_assignment" /\ IsOne(d)
           /\ Text(d, "mode") = "enroll" /\ NonEmpty(d, "credential")
      [] phase = "refresh_assignment" ->
           /\ Text(d, "query") = "cell_assignment" /\ IsOne(d)
           /\ Text(d, "mode") = "refresh"
      [] OTHER ->
           /\ Text(d, "query") = "agent_registration_completion" /\ IsOne(d)
           /\ NonEmpty(d, "device_api_key")

DataSemantics(phase, d) ==
    CASE phase = "initial_assignment" ->
           /\ Text(d, "query") = "cell_assignment" /\ IsOne(d)
           /\ Text(d, "mode") = "enroll" /\ NonEmpty(d, "credential")
           /\ Text(d, "request_nonce") \in Nonces
      [] phase = "refresh_assignment" ->
           /\ Text(d, "query") = "cell_assignment" /\ IsOne(d)
           /\ Text(d, "mode") = "refresh" /\ Text(d, "request_nonce") \in Nonces
      [] OTHER ->
           /\ Text(d, "query") = "agent_registration_completion" /\ IsOne(d)
           /\ NonEmpty(d, "device_api_key")

DataIntegers(phase) == IF phase = "assigned_cell_registration" THEN {} ELSE {"version"}
DataStrings(phase) == DataKeys[phase] \ DataIntegers(phase)

RequestKeys(phase, body) ==
    LET data == Field(body.value, "usrData")
    IN  FirstOf(<<WholeBody(body),
                  Exact(body.value, OuterKeys[phase]),
                  Exact(data, DataKeys[phase]),
                  Unless(phase \in AssignmentPhases =>
                           Field(data, "request_nonce").type = "string", "wrong_type")>>)

Addressed(v) == Text(v, "devId") = AgentId /\ Text(v, "aspId") = "agent"

\* LST: the outer object is read, then the data of the phase.
ClassifyListRequest(phase, body) ==
    LET v == body.value
        data == Field(v, "usrData")
    IN  FirstOf(<<RequestKeys(phase, body),
                  Decodes(v, Common \ {"usrData"}, {}),
                  Unless(Text(v, "usrId") = "" /\ Addressed(v), "semantic"),
                  Decodes(data, DataStrings(phase), DataIntegers(phase)),
                  Unless(DataSemantics(phase, data), "semantic")>>)

\* REG and OTP: one struct, decoded whole.
ClassifyRegistration(body) ==
    LET v == body.value
        data == Field(v, "usrData")
    IN  FirstOf(<<RequestKeys("assigned_cell_registration", body),
                  Decodes(v, OuterKeys["assigned_cell_registration"] \ {"usrData"}, {}),
                  Decodes(data, DataStrings("assigned_cell_registration"), {}),
                  Unless(/\ NonEmpty(v, "usrId") /\ Addressed(v) /\ NonEmpty(v, "otp")
                         /\ \A k \in DataStrings("assigned_cell_registration") :
                               NonEmpty(data, k), "semantic")>>)

ClassifyOTP(body) ==
    LET v == body.value
        data == Field(v, "usrData")
    IN  FirstOf(<<RequestKeys("assigned_cell_otp", body),
                  Decodes(v, OuterKeys["assigned_cell_otp"] \ {"usrData"}, {}),
                  Decodes(data, {"query", "assignment_ticket"}, {"version"}),
                  Unless(/\ NonEmpty(v, "usrId") /\ NonEmpty(v, "devId")
                         /\ Text(v, "aspId") = "agent" /\ NonEmpty(v, "pass")
                         /\ Text(data, "query") = "agent_registration_otp"
                         /\ IsOne(data) /\ NonEmpty(data, "assignment_ticket"),
                         "semantic")>>)

\* A request under the header of another phase; OTP has a class of its own for it.
ClassifyRequest(phase, header, body) ==
    CASE phase = "assigned_cell_otp" ->
           FirstOf(<<Unless(header = RequestHeader[phase], "wrong_phase"),
                     ClassifyOTP(body)>>)
      [] phase = "assigned_cell_registration" ->
           FirstOf(<<Unless(header = RequestHeader[phase], "semantic"),
                     ClassifyRegistration(body)>>)
      [] OTHER ->
           FirstOf(<<Unless(header = RequestHeader[phase], "semantic"),
                     ClassifyListRequest(phase, body)>>)

----------------------------------------------------------------------------
\* Results.

ResultKeys(phase, body) ==
    LET list == Field(body.value, "list")
        assignment == Field(list, "assignment")
        endpoint == Field(assignment, "nhp_udp_endpoint")
    IN  IF phase = "assigned_cell_registration"
        THEN FirstOf(<<WholeBody(body), Exact(body.value, {"errCode", "aspId"})>>)
        ELSE FirstOf(<<WholeBody(body), Exact(body.value, {"errCode", "list"}),
                       Exact(list, ListKeys[phase]),
                       IF phase # "initial_assignment" THEN Pass
                       ELSE Exact(Field(list, "registration"), RegistrationKeys),
                       IF phase \notin AssignmentPhases THEN Pass
                       ELSE FirstOf(<<Exact(assignment, AssignmentKeys),
                                      Exact(endpoint, EndpointKeys)>>)>>)

PublicKind(registration) == Text(registration, "key_kind") \in PublicKeyKinds

ReadInitial(v, list) ==
    LET assignment == Field(list, "assignment")
        endpoint == Field(assignment, "nhp_udp_endpoint")
        registration == Field(list, "registration")
    IN  FirstOf(<<Unless(Field(v, "errCode") = Str("0"), "body_parse"),
                  Decodes(list, {"query", "mode", "agent_id", "assignment_ticket",
                                 "assignment_ticket_expires_at"}, {"version"}),
                  Decodes(registration, RegistrationKeys, {}),
                  Decodes(assignment, {"cell_id", "lease_expires_at"},
                          {"assignment_generation", "endpoint_revision"}),
                  Decodes(endpoint, {"host", "server_public_key_b64"}, {"port"}),
                  Unless(PublicKind(registration), "semantic")>>)

\* Only an initial result is decoded: its key kind decides how to register.
ClassifyResult(phase, body) ==
    LET list == Field(body.value, "list")
    IN  FirstOf(<<ResultKeys(phase, body),
                  IF phase = "initial_assignment" THEN ReadInitial(body.value, list)
                                                  ELSE Pass>>)

----------------------------------------------------------------------------
\* Errors: the outcome an agent acts on, and the codes that may name a delay.

AssignmentErrors == {"52200", "52201", "52202", "52203", "52204", "52205"}
CredentialErrors == {"52106", "52107", "52108", "52109"}
CompletionErrors == {"52300", "52301", "52302", "52303", "52304"}
RegistrationErrors == {"52103", "52110", "52111", "52112"}
ListErrors == AssignmentErrors \cup CredentialErrors \cup CompletionErrors

RetryPermitted == {"52200", "52204", "52300"}
RetryRequired == {"52204"}
Outcome == [c \in ListErrors \cup RegistrationErrors |->
              CASE c \in {"52200", "52300"} -> "retry"
                [] c = "52204" -> "rate_limited"
                [] c \in {"52201", "52301"} -> "identity_rejected"
                [] c = "52202" -> "reassignment_required"
                [] c \in {"52203", "52302", "52112"} -> "quota_exceeded"
                [] c \in {"52205", "52109", "52304"} -> "invalid_request"
                [] c = "52106" -> "key_rejected"
                [] c = "52107" -> "registration_disabled"
                [] c = "52108" -> "bootstrap_consumed"
                [] c = "52303" -> "credential_conflict"
                [] c = "52103" -> "identity_conflict"
                [] c = "52110" -> "ticket_invalid"
                [] OTHER -> "ticket_expired"]

\* Delay lexemes that are positive; zero and the negative ones are Integers too.
Positive == {"1", "3600"}

AllowedOnly(v, keys) ==
    FirstOf(<<Unless(IsObject(v), "wrong_type"), ExactKeys(v, {}, keys)>>)

ClassifyRegistrationError(body) ==
    LET v == body.value
    IN  FirstOf(<<WholeBody(body), AllowedOnly(v, {"errCode", "errMsg", "aspId"}),
                  Decodes(v, {"errCode", "errMsg", "aspId"} \cap Keys(v), {}),
                  Unless(NonEmpty(v, "errCode") /\ Text(v, "aspId") = "agent",
                         "body_parse"),
                  Unless(Text(v, "errCode") \in RegistrationErrors,
                         "unknown_error_code")>>)

\* A null delay is no delay at all.
Delayed(v) == Field(v, "retryAfterSeconds").type = "number"

\* (a slip: the policy of the code is not looked up for a delay that is there)
DelayFits_AnyCode(v) ==
    FirstOf(<<Unless(Text(v, "errCode") \in RetryRequired => Delayed(v),
                     "retry_after_missing"),
              Unless(Delayed(v) => Field(v, "retryAfterSeconds").text \in Positive,
                     "retry_after_invalid")>>)

DelayFits(v) ==
    FirstOf(<<Unless(Text(v, "errCode") \in RetryRequired => Delayed(v),
                     "retry_after_missing"),
              Unless(Delayed(v) => Field(v, "retryAfterSeconds").text \in Positive,
                     "retry_after_invalid"),
              Unless(Delayed(v) => Text(v, "errCode") \in RetryPermitted,
                     "retry_after_unexpected")>>)

\* (With two lexemes of a wrong type the first in the document decides; here
\* it is the delay.)
ClassifyListError(body) ==
    LET v == body.value
        keys == {"errCode", "errMsg", "retryAfterSeconds", "list"}
    IN  FirstOf(<<WholeBody(body), AllowedOnly(v, keys),
                  Unless(Decodes(v, {}, {"retryAfterSeconds"} \cap Keys(v)) = Pass,
                         "retry_after_invalid"),
                  Decodes(v, {"errCode", "errMsg"} \cap Keys(v), {}),
                  Unless(NonEmpty(v, "errCode"), "body_parse"),
                  Unless(Text(v, "errCode") \in ListErrors, "unknown_error_code"),
                  Unless(~Has(v, "list"), "list_on_error"),
                  DelayFits(v)>>)

ClassifyError(header, body) ==
    CASE header = "RAK" -> ClassifyRegistrationError(body)
      [] header = "LRT" -> ClassifyListError(body)
      [] OTHER -> "body_parse"
=============================================================================
