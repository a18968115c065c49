---------------------------- MODULE ResourceBody ----------------------------
(***************************************************************************)
(* The two classifiers of connector_resource_lst_v1.go: what a Hub does    *)
(* with a resource request body and what an agent does with a result body, *)
(* field by field and in the order in which the classes are reported.      *)
(* Identifiers are members of constant sets; a text outside its set breaks *)
(* the grammar of the field.                                               *)
(***************************************************************************)
EXTENDS JsonBody

CONSTANTS AgentIds, ConnectorIds, Nonces, ResourceKeys, RoutingIds, CRIDs,
          BadKnockIds,   \* blank, oversize or not transport safe
          CridOf         \* [ResourceKeys -> CRIDs]: the CRID a key derives to

AspId == "agent"
Query == "connector_resource"

NoRequest == [agent |-> "", connector |-> "", nonce |-> "", expected |-> ""]

IsVersion1(v) == Field(v, "version") = Num("1")

----------------------------------------------------------------------------
\* Requests.  expected is a CRID or "", when the request does not pin one.

RequestOuter == {"usrId", "devId", "aspId", "usrData"}
UserDataRequired == {"query", "version", "request_nonce", "connector_id"}
UserData == UserDataRequired \cup {"expected_crid"}

EncodeRequest(r) ==
    LET data == [query |-> Str(Query), version |-> Num("1"),
                 request_nonce |-> Str(r.nonce), connector_id |-> Str(r.connector)]
    IN  Body(Obj([usrId |-> Str(r.agent), devId |-> Str(r.agent), aspId |-> Str(AspId),
                  usrData |-> IF r.expected = "" THEN Obj(data)
                              ELSE With(Obj(data), "expected_crid", Str(r.expected))]))

\* A version that is no number is of the wrong type, another number is wrong.
RequestVersion(data) ==
    FirstOf(<<Unless(Field(data, "version").type = "number", "wrong_type"),
              Unless(IsVersion1(data), "semantic")>>)

\* (a slip: only one of the two identity fields is compared)
AgentBinding_UsrIdOnly(v, agent) ==
    Unless(Text(v, "usrId") = agent /\ agent \in AgentIds, "agent_binding")

\* Both identity fields name the agent whose key authenticated the packet.
AgentBinding(v, agent) ==
    Unless(/\ Text(v, "usrId") = agent /\ Text(v, "devId") = agent
           /\ agent \in AgentIds, "agent_binding")

RequestSemantics(v, data) ==
    Unless(/\ Text(v, "aspId") = AspId /\ Text(data, "query") = Query
           /\ Text(data, "request_nonce") \in Nonces
           /\ Text(data, "connector_id") \in ConnectorIds
           /\ Has(data, "expected_crid") => Text(data, "expected_crid") \in CRIDs,
           "semantic")

ParseRequest(body, agent) ==
    LET v == body.value
        data == Field(v, "usrData")
    IN  FirstOf(<<ExactObject(body, RequestOuter, RequestOuter),
                  AreStrings(v, {"usrId", "devId", "aspId"}),
                  Unless(IsObject(data), "wrong_type"),
                  ExactKeys(data, UserDataRequired, UserData),
                  AreStrings(data, {"query", "request_nonce", "connector_id"}),
                  AreStrings(data, {"expected_crid"} \cap Keys(data)),
                  RequestVersion(data),
                  AgentBinding(v, agent),
                  RequestSemantics(v, data)>>)

----------------------------------------------------------------------------
\* Successes.

ListFields == {"query", "version", "agent_id", "connector_id",
               "resource_public_key", "connector_routing_id",
               "knock_resource_id", "crid", "found_existing"}
ListStrings == ListFields \ {"version", "found_existing"}

EncodeSuccess(r) ==
    Body(Obj([errCode |-> Str("0"),
              list |-> Obj([query |-> Str(Query), version |-> Num("1"),
                            agent_id |-> Str(r.agent), connector_id |-> Str(r.connector),
                            resource_public_key |-> Str(r.key),
                            connector_routing_id |-> Str(r.routing),
                            knock_resource_id |-> Str(r.knock), crid |-> Str(r.crid),
                            found_existing |-> Bool(IF r.found THEN "true" ELSE "false")])]))

\* Unlike in a request, a negative version is of the wrong type.
ResultVersion(list) ==
    FirstOf(<<Unless(/\ Field(list, "version").type = "number"
                     /\ Field(list, "version").text # "-1", "wrong_type"),
              Unless(IsVersion1(list), "semantic")>>)

\* (a slip: the echo of the connector is not compared)
RequestBinding_AgentOnly(list, request) ==
    Unless(request # NoRequest => Text(list, "agent_id") = request.agent,
           "request_binding")

\* The result echoes the identity it was asked for; the nonce is not echoed.
RequestBinding(list, request) ==
    Unless(request # NoRequest => /\ Text(list, "agent_id") = request.agent
                                  /\ Text(list, "connector_id") = request.connector,
           "request_binding")

ListGrammar(list) ==
    Unless(/\ Text(list, "agent_id") \in AgentIds
           /\ Text(list, "connector_id") \in ConnectorIds
           /\ Text(list, "resource_public_key") \in ResourceKeys
           /\ Text(list, "connector_routing_id") \in RoutingIds
           /\ Text(list, "knock_resource_id") \notin BadKnockIds, "semantic")

\* (a slip: only the key is kept apart from the knock id)
NotCrossWired_KeyOnly(list) ==
    Unless(Text(list, "knock_resource_id") # Text(list, "resource_public_key"),
           "resource_binding")

NotCrossWired(list) ==
    Unless(Text(list, "knock_resource_id") \notin
             {Text(list, "resource_public_key"), Text(list, "connector_routing_id")},
           "resource_binding")

CridBinding(list) ==
    FirstOf(<<Unless(Text(list, "crid") \in CRIDs, "semantic"),
              Unless(/\ Text(list, "resource_public_key") \in ResourceKeys
                     /\ Text(list, "crid") = CridOf[Text(list, "resource_public_key")],
                     "crid_binding")>>)

\* (a slip: the assertion of the request is forgotten)
Continuity_NotChecked(list, request) == Pass

\* A request that pinned a CRID takes no other for its answer.
Continuity(list, request) ==
    Unless(request.expected # "" => Text(list, "crid") = request.expected,
           "resource_binding")

ParseSuccess(body, request) ==
    LET list == Field(body.value, "list")
    IN  FirstOf(<<ExactKeys(body.value, {"errCode", "list"}, {"errCode", "list"}),
                  Unless(IsObject(list), "wrong_type"),
                  ExactKeys(list, ListFields, ListFields),
                  AreStrings(list, ListStrings),
                  ResultVersion(list),
                  Unless(Field(list, "found_existing").type = "boolean", "wrong_type"),
                  Unless(Text(list, "query") = Query, "semantic"),
                  RequestBinding(list, request),
                  ListGrammar(list),
                  NotCrossWired(list),
                  CridBinding(list),
                  Continuity(list, request)>>)

----------------------------------------------------------------------------
\* Errors.

ErrorCodes == {"52500", "52501", "52502", "52503", "52504", "52505", "52506"}

\* unavailable may name a delay and rate limited has to; the others may not.
RetryPolicy == [c \in ErrorCodes |-> CASE c = "52500" -> "optional"
                                      [] c = "52505" -> "required"
                                      [] OTHER -> "forbidden"]
Retryable == {c \in ErrorCodes : RetryPolicy[c] # "forbidden"}

\* Lexemes of a delay: one second and the longest delay are in range.
ValidDelays == {"1", "3600"}

\* The message of a code is named by the code.
EncodeError(code, delay) ==
    LET error == Obj([errCode |-> Str(code), errMsg |-> Str(code)])
    IN  Body(IF delay = "" THEN error
             ELSE With(error, "retryAfterSeconds", Num(delay)))

\* A null delay is invalid, not absent.
DelayInRange(v) ==
    Unless(Has(v, "retryAfterSeconds") =>
             /\ Field(v, "retryAfterSeconds").type = "number"
             /\ Field(v, "retryAfterSeconds").text \in ValidDelays,
           "retry_after_invalid")

Policy(v) == IF Text(v, "errCode") \in ErrorCodes
             THEN RetryPolicy[Text(v, "errCode")] ELSE "optional"

\* (a slip: a code that forbids a delay tolerates one)
DelayPolicy_Lenient(v) ==
    Unless(Policy(v) = "required" => Has(v, "retryAfterSeconds"), "retry_after_missing")

DelayPolicy(v) ==
    FirstOf(<<Unless(Policy(v) = "required" => Has(v, "retryAfterSeconds"),
                     "retry_after_missing"),
              Unless(Policy(v) = "forbidden" => ~Has(v, "retryAfterSeconds"),
                     "retry_after_unexpected")>>)

ParseError(body) ==
    LET v == body.value
    IN  FirstOf(<<Unless(~Has(v, "list"), "list_on_error"),
                  ExactKeys(v, {"errCode", "errMsg"},
                            {"errCode", "errMsg", "retryAfterSeconds"}),
                  AreStrings(v, {"errMsg"}),
                  Unless(Text(v, "errCode") \in ErrorCodes, "unknown_error_code"),
                  DelayInRange(v),
                  Unless(Text(v, "errMsg") = Text(v, "errCode"), "semantic"),
                  DelayPolicy(v)>>)

IsSuccess(body) == Text(body.value, "errCode") = "0"

ParseResult(body, request) ==
    FirstOf(<<RawObject(body),
              Unless(Has(body.value, "errCode"), "missing_field"),
              AreStrings(body.value, {"errCode"}),
              IF IsSuccess(body) THEN ParseSuccess(body, request)
                                 ELSE ParseError(body)>>)
=============================================================================
