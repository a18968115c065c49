---------------------------- MODULE MCBodyGates ----------------------------
\* BodyGates with the encodings of each contract as seeds and, for every key, the
\* lexemes that its checks tell apart.
EXTENDS BodyGates

MCAgentIds == {"agent", "other"}
MCConnectorIds == {"conn"}
MCNonces == {"nonce"}
MCResourceKeys == {"key1", "key2"}
MCRoutingIds == {"c-1"}
MCCRIDs == {"crid1", "crid2"}
MCBadKnockIds == {""}
MCCridOf == [key1 |-> "crid1", key2 |-> "crid2"]
MCIntegers == {"1", "0", "-1", "3600"}
MCRunIds == {"run"}
MCKnockId == [usrId |-> "user", devId |-> "device", aspId |-> "agent", resId |-> "res"]
MCSessionIds == {"7"}
MCOpenTimes == {"30"}
MCSpellings == [acTokens |-> <<"acTokens", "ACTokens">>, resHost |-> <<"RESHOST", "resHost">>,
                preActions |-> <<"preActions", "PreActions">>]
MCKeyIds == {"key_id1"}
MCLongTexts == {"long"}
MCLinkKeys == {"key1", "key2"}

MCHeldCrids ==
    {L!Derive(version, "key1", length) : version \in {0, 1, 2, 127, 129}, length \in {60, 47}}
    \cup {[L!Derive(1, "key1", 60) EXCEPT !.checksum = FALSE]}

\* The gates with short lexicons are taken one step further.
MCMaxEdits == [g \in BodyGateNames |-> IF g \in {"assignment_error", "knock_reply", "knock_request",
                                         "key_id"} THEN 3 ELSE 2]

Seed(context, encoding) == [about |-> context, body |-> encoding]

----------------------------------------------------------------------------
\* Seeds.

ResourceRequest(pin) ==
    [agent |-> "agent", connector |-> "conn", nonce |-> "nonce", expected |-> pin]
ResourceRequests == {ResourceRequest(""), ResourceRequest("crid1")}
ResourceSuccess ==
    [agent |-> "agent", connector |-> "conn", key |-> "key1", routing |-> "c-1",
     knock |-> "knock", crid |-> "crid1", found |-> FALSE]
ResourceResults == {R!EncodeSuccess(ResourceSuccess), R!EncodeError("52505", "1"),
                    R!EncodeError("52501", "")}

Outer(user, data) ==
    [usrId |-> Str(user), devId |-> Str("agent"), aspId |-> Str("agent"),
     usrData |-> Obj(data)]
AssignmentRequest(phase) ==
    CASE phase = "initial_assignment" ->
           Obj(Outer("", [query |-> Str("cell_assignment"), version |-> Num("1"),
                          mode |-> Str("enroll"), request_nonce |-> Str("nonce"),
                          credential |-> Str("x")]))
      [] phase = "refresh_assignment" ->
           Obj(Outer("", [query |-> Str("cell_assignment"), version |-> Num("1"),
                          mode |-> Str("refresh"), request_nonce |-> Str("nonce")]))
      [] phase = "assigned_cell_registration" ->
           With(Obj(Outer("key", [hostname |-> Str("x"), version |-> Str("x"),
                                  assignment_ticket |-> Str("x")])), "otp", Str("x"))
      [] phase = "assigned_cell_otp" ->
           With(Obj(Outer("key", [query |-> Str("agent_registration_otp"),
                                  version |-> Num("1"),
                                  assignment_ticket |-> Str("x")])), "pass", Str("x"))
      [] OTHER ->
           Obj(Outer("", [query |-> Str("agent_registration_completion"),
                          version |-> Num("1"), device_api_key |-> Str("x")]))

Listed(list) == Obj([errCode |-> Str("0"), list |-> Obj(list)])
Assigned == Obj([cell_id |-> Str("x"), assignment_generation |-> Num("1"),
                 endpoint_revision |-> Num("1"), lease_expires_at |-> Str("x"),
                 nhp_udp_endpoint |-> Obj([host |-> Str("x"), port |-> Num("1"),
                                           server_public_key_b64 |-> Str("x")])])
AssignmentResult(phase) ==
    CASE phase = "initial_assignment" ->
           Listed([query |-> Str("x"), version |-> Num("1"), mode |-> Str("x"),
                   agent_id |-> Str("agent"), assignment |-> Assigned,
                   registration |-> Obj([key_id |-> Str("x"), key_kind |-> Str("agent")]),
                   assignment_ticket |-> Str("x"),
                   assignment_ticket_expires_at |-> Str("x")])
      [] phase = "refresh_assignment" ->
           Listed([query |-> Str("x"), version |-> Num("1"), mode |-> Str("x"),
                   agent_id |-> Str("agent"), assignment |-> Assigned])
      [] phase = "registration_completion" ->
           Listed([query |-> Str("x"), version |-> Num("1"), device_api_key_id |-> Str("x")])
      [] OTHER -> Obj([errCode |-> Str("0"), aspId |-> Str("agent")])

KnockRequest ==
    Obj([headerType |-> Num("1"), usrId |-> Str("user"), devId |-> Str("device"),
         aspId |-> Str("agent"), resId |-> Str("res"), runId |-> Str("run")])
KnockSuccess ==
    Obj([errCode |-> Str("0"), sessId |-> Num("7"), opnTime |-> Num("30"),
         acTokens |-> Obj([res |-> Str("token")]), resHost |-> Obj([res |-> Str("host")])])
KnockDenial == Obj([errCode |-> Str("52002"), opnTime |-> Num("0")])

GoodLink == [origin |-> TRUE, location |-> "slash", transport |-> TRUE,
             signed |-> TRUE, readable |-> TRUE, key |-> "key1"]
LinkReply(crid) ==
    Obj([errCode |-> Str("52600"), redirectUrl |-> L!Link(GoodLink),
         redirectInfo |-> Obj([crid |-> L!CridText(crid), qurl_id |-> Str("x"),
                               publisher |-> Obj([name |-> Str("x"),
                                                  verified |-> Bool("true")])])])

MCSeeds ==
    [g \in BodyGateNames |->
       CASE g = "resource_request" ->
              {Seed("agent", R!EncodeRequest(r)) : r \in ResourceRequests}
         [] g = "resource_result" ->
              {Seed(r, b) : r \in ResourceRequests, b \in ResourceResults}
         [] g = "assignment_request" ->
              {Seed(p, Body(AssignmentRequest(p))) : p \in A!Phases}
         [] g = "assignment_result" ->
              {Seed(p, Body(AssignmentResult(p))) : p \in A!Phases \ {"assigned_cell_otp"}}
         [] g = "assignment_error" ->
              {Seed("LRT", Body(Obj([errCode |-> Str("52204"),
                                     retryAfterSeconds |-> Num("1")]))),
               Seed("RAK", Body(Obj([errCode |-> Str("52110"), aspId |-> Str("agent")])))}
         [] g = "knock_request" -> {Seed("", Body(KnockRequest))}
         [] g = "knock_reply" -> {Seed("", Body(KnockSuccess)), Seed("", Body(KnockDenial))}
         [] g = "key_id" ->
              {Seed("completion", Body(Obj([device_api_key_id |-> Str("key_id1")]))),
               Seed("registration_info", Body(Obj([key_id |-> Str("key_id1")])))}
         [] OTHER -> {Seed(c, Body(LinkReply(c))) : c \in HeldCrids}]

----------------------------------------------------------------------------
\* Lexemes.

Texts(texts) == {Str(t) : t \in texts} \cup {Null, Num("1")}

Links ==
    {[GoodLink EXCEPT ![part] = FALSE] :
        part \in {"origin", "transport", "signed", "readable"}}
    \cup {[GoodLink EXCEPT !.location = l] : l \in L!Locations}
    \cup {[GoodLink EXCEPT !.location = l, !.transport = FALSE, !.key = k] :
             l \in {"path", "authority", "none"}, k \in LinkKeys}
    \cup {[GoodLink EXCEPT !.signed = FALSE, !.key = "key2"], [GoodLink EXCEPT !.key = "key2"]}

MCLexicon ==
    [g \in BodyGateNames |->
       CASE g = "resource_request" ->
              [usrId |-> Texts({"agent", "other"}), devId |-> Texts({"other"}),
               aspId |-> Texts({"x"}), usrData |-> {Null}, extra |-> {Null},
               query |-> Texts({"x"}), version |-> {Num("2"), Num("-1"), Str("1"), Null},
               request_nonce |-> Texts({"x"}), connector_id |-> Texts({"x"}),
               expected_crid |-> Texts({"crid1", "crid2", ""})]
         [] g = "resource_result" ->
              [errCode |-> Texts({"0", "52505", "52501", "x"}), errMsg |-> Texts({"52505"}),
               retryAfterSeconds |-> {Null, Num("1"), Num("0"), Str("1")},
               list |-> {Null, Obj([extra |-> Null])}, extra |-> {Null},
               version |-> {Num("2"), Num("-1"), Str("1")},
               agent_id |-> Texts({"other"}), connector_id |-> Texts({"x"}),
               resource_public_key |-> Texts({"key2"}),
               connector_routing_id |-> Texts({"x", "knock"}),
               knock_resource_id |-> Texts({"", "key1", "c-1"}),
               crid |-> Texts({"crid2"}), found_existing |-> {Bool("true"), Str("true")}]
         [] g = "assignment_request" ->
              [usrId |-> Texts({"", "key"}), devId |-> Texts({"x"}), aspId |-> Texts({"x"}),
               usrData |-> {Null}, extra |-> {Null}, otp |-> Texts({""}), pass |-> Texts({""}),
               mode |-> Texts({"enroll", "refresh"}), request_nonce |-> Texts({"x"}),
               version |-> {Num("0"), Num("1.5"), Str("1"), Null},
               credential |-> Texts({"", "x"}), device_api_key |-> Texts({""})]
         [] g = "assignment_result" ->
              [errCode |-> Texts({"52200"}), list |-> {Null}, extra |-> {Null},
               key_id |-> Texts({"x"}), key_kind |-> Texts({"internal"}),
               registration |-> {Null}, nhp_udp_endpoint |-> {Null}, port |-> Texts({"x"}),
               version |-> {Num("1.5"), Null}]
         [] g = "assignment_error" ->
              [errCode |-> Texts({"52204", "52200", "52203", "52303", "52103", "x", ""}),
               errMsg |-> Texts({"x"}), aspId |-> Texts({"x", "agent"}), extra |-> {Null},
               retryAfterSeconds |-> {Null, Num("1"), Num("0"), Num("-1"), Str("1")},
               list |-> {Null}]
         [] g = "knock_request" ->
              [headerType |-> {Num("2"), Null, Str("1")}, usrId |-> Texts({"x", "user"}),
               devId |-> Texts({"x"}), aspId |-> Texts({"x"}), resId |-> Texts({"x"}),
               orgId |-> Texts({"x"}), usrData |-> {Null, Obj([extra |-> Null])},
               runID |-> {Str("run")}, runId |-> Texts({"", "x", "run"})]
         [] g = "knock_reply" ->
              [errCode |-> Texts({"0", "", "52002"}),
               sessId |-> {Num("7"), Num("0"), Num("1e3"), Str("7"), Null},
               opnTime |-> {Num("0"), Num("30"), Str("30"), Num("-1"), Null},
               acTokens |-> {Null, Obj([res |-> Str("token"), res2 |-> Str("other")]),
                             Obj([res2 |-> Str("token")]), Obj([res |-> Num("1")])},
               ACTokens |-> {Null, Obj([res |-> Str("other")])},
               resHost |-> {Null, Obj([res |-> Str("other")]), Obj([res2 |-> Str("host")])},
               RESHOST |-> {Obj([res |-> Str("host")]), Num("1")},
               preActions |-> {Null, Obj([res |-> Null]), Obj([res2 |-> Str("x")])},
               PreActions |-> {Null, Obj([res2 |-> Null])}]
         [] g = "key_id" ->
              [key_id |-> Texts({"key_id1", "x", ""}), key_kind |-> {Str("agent")},
               device_api_key_id |-> Texts({"key_id1", "x"}), keyId |-> {Str("key_id1")}]
         [] OTHER ->
              [errCode |-> {Num("52600"), Null, Str("0"), Str(""), Str("52601"), Str("52004")},
               redirectUrl |-> {L!Link(l) : l \in Links} \cup {Null, Num("1"), Str("")},
               redirectInfo |-> {Null, Str("x")}, publisher |-> {Null, Str("x")},
               crid |-> {L!CridText(c) : c \in HeldCrids} \cup {Null, Num("0")},
               qurl_id |-> {Str("long"), Null}, name |-> {Str("long"), Num("1")},
               verified |-> {Str("true"), Num("1"), Bool("false")}]]
=============================================================================
