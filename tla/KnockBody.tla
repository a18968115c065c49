------------------------------ MODULE KnockBody ------------------------------
(***************************************************************************)
(* The agent-knock application contract of schema.go: how the generic      *)
(* parser and the native Connector read a knock body, what is wrong with   *)
(* the session envelope of an ACK, and which rows of the reply table may   *)
(* be published for a body.  Also the API-key ids of agent_api_key_id.go.  *)
(***************************************************************************)
EXTENDS JsonBody

CONSTANTS RunIds,      \* texts of sixteen lower-case hexadecimal digits
          KnockId,     \* [usrId, devId, aspId, resId]: the identity of the artifact
          SessionIds,  \* digit lexemes in the range of a uint64 and not zero
          OpenTimes,   \* digit lexemes in the range of a uint32 and not zero
          Spellings,   \* [member of a result -> sequence of keys]: see Standing
          KeyIds       \* canonical API-key ids

----------------------------------------------------------------------------
\* Requests.

Identity == {"usrId", "devId", "aspId", "resId"}
KnockKeys == Identity \cup {"headerType", "orgId", "runId", "results", "usrData"}

\* The fields that are carried for later and never looked at.
Tolerated(v) ==
    /\ Field(v, "orgId").type \in {"absent", "null", "string"}
    /\ \A k \in {"results", "usrData"} : Field(v, k).type \in {"absent", "null", "object"}

GenericParse(body) ==
    LET v == body.value
    IN  FirstOf(<<Unless(body.flaw = "none" /\ Keys(v) \subseteq KnockKeys, "body_parse"),
                  Unless(Tolerated(v), "body_parse"),
                  Unless(/\ Field(v, "headerType") = Num("1")
                         /\ \A k \in Identity : Text(v, k) = KnockId[k], "body_parse"),
                  Unless(Field(v, "runId").type \in {"absent", "string"}, "body_parse"),
                  Unless(Text(v, "runId") \in RunIds \cup {""}, "invalid_run_id")>>)

\* (a slip: only an absent run id is missed)
ConnectorParse_AbsentOnly(body) ==
    FirstOf(<<GenericParse(body), Unless(Has(body.value, "runId"), "missing_run_id")>>)

\* The generic parser takes an omitted or empty run id, the Connector does not.
ConnectorParse(body) ==
    FirstOf(<<GenericParse(body),
              Unless(Text(body.value, "runId") # "", "missing_run_id")>>)

----------------------------------------------------------------------------
\* The session envelope of an ACK.  "sess_twice" is a body with two session ids.

Denied(v) == Text(v, "errCode") \notin {"", "0"}
OpensNothing(v) == Field(v, "opnTime") \in {Null, Num("0")}

\* The session id is looked at first, in bytes that may not even be one object.
SessionIdFits(body) ==
    /\ body.flaw # "sess_twice"
    /\ Has(body.value, "sessId") => /\ Field(body.value, "sessId").type = "number"
                                    /\ Field(body.value, "sessId").text \in SessionIds

\* A success has a session id and a denial has none.
SessionPresence(v) == Denied(v) <=> ~Has(v, "sessId")

\* Among the defects of the pair, a denial with a session id comes before the
\* open time and a success without one after it.
EnvelopeClass(body) ==
    LET v == body.value
    IN  FirstOf(<<Unless(SessionIdFits(body), "session_id"),
                  Unless(body.flaw = "none" /\ IsObject(v), "body_parse"),
                  Unless(Field(v, "errCode").type \in {"string", "null"}, "body_parse"),
                  Unless(Denied(v) => SessionPresence(v), "session_id"),
                  Unless(\/ OpensNothing(v)
                         \/ /\ Field(v, "opnTime").type = "number"
                            /\ Field(v, "opnTime").text \in OpenTimes, "body_parse"),
                  Unless(Denied(v) => OpensNothing(v), "body_parse"),
                  Unless(SessionPresence(v), "session_id"),
                  Unless(Denied(v) \/ ~OpensNothing(v), "session_lifetime")>>)

\* What the session of a body is: a denial has none, and opens for no time.
SessionOf(v) == IF Denied(v) THEN "0" ELSE Field(v, "sessId").text
OpenTimeOf(v) == IF Denied(v) THEN "0" ELSE Field(v, "opnTime").text

----------------------------------------------------------------------------
\* Rows of the reply table: [type, echoed, outcome, class, expected], where echoed
\* says that the reply counter is the one of the request and expected is the
\* result of a success, in a sequence of at most one.

ACK == 2
COK == 7
ApplicationClasses == {"wrong_resource", "missing_token", "missing_host", "body_parse",
                       "unsupported_pre_access", "session_id", "session_lifetime"}

EnvelopeAgrees(row, body) ==
    row.type = ACK =>
        IF EnvelopeClass(body) # Pass
        THEN row.outcome = "reject" /\ row.class = EnvelopeClass(body)
        ELSE /\ row.class \notin {"session_id", "session_lifetime"}
             /\ row.outcome = "success" =>
                  /\ row.expected[1].session = SessionOf(body.value)
                  /\ row.expected[1].open = OpenTimeOf(body.value)

Disposition(row) ==
    CASE row.outcome = "success" -> row.class = "" /\ row.type = ACK /\ row.echoed
      [] row.outcome = "deny" -> row.class = "server_deny" /\ row.type = ACK /\ row.echoed
      [] row.outcome = "retry" -> row.class = "server_busy" /\ row.type = COK
      [] OTHER -> \/ row.class \in ApplicationClasses /\ row.type = ACK /\ row.echoed
                  \/ row.class = "counter" /\ row.type = ACK /\ ~row.echoed
                  \/ row.class = "reply_type" /\ row.type \notin {ACK, COK} /\ row.echoed

\* The decoder of a result takes a key in any case for its member.  Spellings are
\* the keys that it takes for one, in the order in which the body has them: the
\* maps are merged, a later entry replaces an earlier one, and a null empties the map.
Keyed(v, member, i) == Field(v, Spellings[member][i])

ResultDecodes(v) ==
    \A member \in DOMAIN Spellings : \A i \in DOMAIN Spellings[member] :
        LET given == Keyed(v, member, i)
        IN  /\ given.type \in {"absent", "null", "object"}
            /\ member # "preActions" =>
                  \A r \in Keys(given) : Field(given, r).type \in {"null", "string"}

\* What is left for a resource when the maps are merged: the last entry, or none.
Standing(v, member, r) ==
    {Field(Keyed(v, member, i), r) :
        i \in {i \in DOMAIN Spellings[member] :
                  /\ Has(Keyed(v, member, i), r)
                  /\ \A j \in DOMAIN Spellings[member] : i < j =>
                        Keyed(v, member, j) # Null /\ ~Has(Keyed(v, member, j), r)}}

Resources(v, member) == UNION {Keys(Keyed(v, member, i)) : i \in DOMAIN Spellings[member]}

\* (a slip: what the reply asks for another resource is not looked at)
ResultAgrees_OwnAction(row, v) ==
    /\ ResultDecodes(v)
    /\ Str(row.expected[1].token) \in Standing(v, "acTokens", KnockId.resId)
    /\ Str(row.expected[1].host) \in Standing(v, "resHost", KnockId.resId)
    /\ Standing(v, "preActions", KnockId.resId) \subseteq {Null}

\* The token and the host, neither of which is empty, are the ones of the resource that
\* was knocked for, and no resource of the reply asks for an action before access.
ResultAgrees(row, v) ==
    /\ ResultDecodes(v)
    /\ Str(row.expected[1].token) \in Standing(v, "acTokens", KnockId.resId)
    /\ Str(row.expected[1].host) \in Standing(v, "resHost", KnockId.resId)
    /\ \A r \in Resources(v, "preActions") : Standing(v, "preActions", r) \subseteq {Null}

ValidJSON(body) == body.flaw \in {"none", "duplicate", "sess_twice"}

\* (a slip: the zero open time is a result like another)
Promises_AnyTime(row) == row.outcome = "success" <=> row.expected # <<>>

\* A success, and no other row, promises a result, and no field of it is left out.
Promises(row) ==
    /\ row.outcome = "success" <=> row.expected # <<>>
    /\ \A i \in DOMAIN row.expected :
          LET won == row.expected[i]
          IN  won.token # "" /\ won.host # "" /\ won.session # "" /\ won.open # "0"

RowFits(row, body) ==
    /\ Promises(row)
    /\ ValidJSON(body) \/ (row.outcome = "reject" /\ row.class = "body_parse")
    /\ EnvelopeAgrees(row, body)
    /\ Disposition(row)
    /\ row.outcome = "success" => ResultAgrees(row, body.value)

----------------------------------------------------------------------------
\* API-key ids: the field of each surface that carries one.

Surfaces == [registration_info |-> "key_id", completion |-> "device_api_key_id"]

ReadKeyId(surface, body) ==
    LET id == Field(body.value, Surfaces[surface])
    IN  FirstOf(<<Unless(body.flaw = "none" /\ id.type = "string", "body_parse"),
                  Unless(Text(body.value, Surfaces[surface]) \in KeyIds, "invalid_id")>>)
=============================================================================
