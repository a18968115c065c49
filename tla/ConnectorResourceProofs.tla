----------------------- MODULE ConnectorResourceProofs -----------------------
(***************************************************************************)
(* For any agents, connectors, nonces, resources and bounds: the replay    *)
(* rule, the creation rule, one active resource per connector, and that an *)
(* agent persists the identity of a resource of its own.  The first three  *)
(* rest on what the Hub remembers, the last on what the agent reads.       *)
(***************************************************************************)
EXTENDS ConnectorResource, TLAPS, NaturalsInduction, WellFoundedInduction

\* A nonempty set of positions has a first one.
LEMMA FirstExists ==
    ASSUME NEW S \in SUBSET Nat, S # {}
    PROVE  \E i \in S : \A j \in S : i <= j
<1>. DEFINE Less == {p \in Nat \X Nat : p[1] < p[2]}
<1>1. IsWellFoundedOn(Less, Nat)
  BY NatLessThanWellFounded DEF OpToRel
<1>2. \E i \in S : \A j \in S : ~(<<j, i>> \in Less)
  BY <1>1, WFMin
<1>3. SUFFICES ASSUME NEW i \in S, \A j \in S : ~(<<j, i>> \in Less)
               PROVE  \A j \in S : i <= j
  BY <1>2
<1>4. SUFFICES ASSUME NEW j \in S, ~(i <= j)
               PROVE  <<j, i>> \in Less
  BY <1>3
<1>5. i \in Nat /\ j \in Nat /\ j < i
  BY <1>4
<1>. QED
  BY <1>5

\* A list of checks passes when every one of them does.
LEMMA PassesAll ==
    ASSUME NEW checks, Len(checks) \in Nat, FirstOf(checks) = Pass,
           NEW i \in 1..Len(checks)
    PROVE  checks[i] = Pass
<1>. DEFINE failing == {k \in 1..Len(checks) : checks[k] # Pass}
<1>1. CASE failing = {}
  BY <1>1
<1>2. CASE failing # {}
  <2>1. \E k \in failing : \A j \in failing : k <= j
    <3>1. failing \in SUBSET Nat
      OBVIOUS
    <3>. HIDE DEF failing
    <3>. QED
      BY <3>1, <1>2, FirstExists
  <2>2. PICK k \in failing : FirstOf(checks) = checks[k]
    BY <1>2, <2>1 DEF FirstOf
  <2>. QED
    BY <2>2
<1>. QED
  BY <1>1, <1>2
----------------------------------------------------------------------------
\* The fields of an encoded success are those of the result.
LEMMA EncodedSuccess ==
    ASSUME NEW r
    PROVE  LET v == EncodeSuccess(r).value
               list == Field(v, "list")
           IN  /\ Text(v, "errCode") = "0"
               /\ Text(list, "agent_id") = r.agent
               /\ Text(list, "connector_id") = r.connector
               /\ Text(list, "resource_public_key") = r.key
               /\ Text(list, "connector_routing_id") = r.routing
               /\ Text(list, "knock_resource_id") = r.knock
               /\ Text(list, "crid") = r.crid
<1>. DEFINE v == EncodeSuccess(r).value
            list == Field(v, "list")
            fields == [query |-> Str(Query), version |-> Num("1"),
                       agent_id |-> Str(r.agent), connector_id |-> Str(r.connector),
                       resource_public_key |-> Str(r.key),
                       connector_routing_id |-> Str(r.routing),
                       knock_resource_id |-> Str(r.knock), crid |-> Str(r.crid),
                       found_existing |-> Bool(IF r.found THEN "true" ELSE "false")]
<1>1. v = Obj([errCode |-> Str("0"), list |-> Obj(fields)])
  BY DEF EncodeSuccess, Body
<1>. HIDE DEF fields
<1>2. /\ IsObject(v) /\ Keys(v) = {"errCode", "list"}
      /\ Field(v, "errCode") = Str("0") /\ list = Obj(fields)
  BY <1>1 DEF Obj, IsObject, Keys, Field
<1>3. Text(v, "errCode") = "0"
  BY <1>2 DEF Text, Str, Scalar
<1>4. IsObject(list) /\ Keys(list) = DOMAIN fields /\ list.fields = fields
  BY <1>2 DEF Obj, IsObject, Keys
<1>. HIDE DEF v, list
<1>5. ASSUME NEW key \in DOMAIN fields, NEW text, fields[key] = Str(text)
      PROVE  Text(list, key) = text
  <2>1. Field(list, key) = Str(text)
    BY <1>4, <1>5 DEF Field
  <2>. QED
    BY <2>1 DEF Text, Str, Scalar
<1>. QED
  BY <1>3, <1>5 DEF v, list, fields

\* An agent that takes a success has found its own request in it, the knock id
\* apart from the identities, and the CRID of the key.
LEMMA SuccessTaken ==
    ASSUME NEW r, NEW q, q # NoRequest, ParseResult(EncodeSuccess(r), q) = Pass
    PROVE  /\ r.agent = q.agent /\ r.connector = q.connector
           /\ r.knock \notin {r.key, r.routing}
           /\ r.crid = CridOf[r.key]
           /\ q.expected # "" => r.crid = q.expected
<1>. DEFINE body == EncodeSuccess(r)
            v == body.value
            list == Field(v, "list")
<1>1. /\ Text(v, "errCode") = "0"
      /\ Text(list, "agent_id") = r.agent
      /\ Text(list, "connector_id") = r.connector
      /\ Text(list, "resource_public_key") = r.key
      /\ Text(list, "connector_routing_id") = r.routing
      /\ Text(list, "knock_resource_id") = r.knock
      /\ Text(list, "crid") = r.crid
  BY EncodedSuccess
<1>. HIDE DEF body
<1>2. ParseSuccess(body, q) = Pass
  <2>. DEFINE checks == <<RawObject(body),
                          Unless(Has(v, "errCode"), "missing_field"),
                          AreStrings(v, {"errCode"}),
                          IF IsSuccess(body) THEN ParseSuccess(body, q)
                                             ELSE ParseError(body)>>
  <2>1. FirstOf(checks) = Pass
    BY DEF ParseResult, body
  <2>2. Len(checks) = 4 /\ checks[4] = ParseSuccess(body, q)
    BY <1>1 DEF IsSuccess
  <2>. HIDE DEF checks
  <2>. QED
    BY <2>1, <2>2, PassesAll
<1>3. /\ RequestBinding(list, q) = Pass /\ NotCrossWired(list) = Pass
      /\ CridBinding(list) = Pass /\ Continuity(list, q) = Pass
  <2>. DEFINE checks == <<ExactKeys(v, {"errCode", "list"}, {"errCode", "list"}),
                          Unless(IsObject(list), "wrong_type"),
                          ExactKeys(list, ListFields, ListFields),
                          AreStrings(list, ListStrings),
                          ResultVersion(list),
                          Unless(Field(list, "found_existing").type = "boolean",
                                 "wrong_type"),
                          Unless(Text(list, "query") = Query, "semantic"),
                          RequestBinding(list, q),
                          ListGrammar(list),
                          NotCrossWired(list),
                          CridBinding(list),
                          Continuity(list, q)>>
  <2>1. FirstOf(checks) = Pass
    BY <1>2 DEF ParseSuccess
  <2>2. Len(checks) = 12
    OBVIOUS
  <2>3. /\ checks[8] = RequestBinding(list, q)
        /\ checks[10] = NotCrossWired(list) /\ checks[11] = CridBinding(list)
        /\ checks[12] = Continuity(list, q)
    OBVIOUS
  <2>. HIDE DEF checks, v, list
  <2>4. \A i \in 1..12 : checks[i] = Pass
    <3>1. Len(checks) \in Nat
      BY <2>2
    <3>2. \A i \in 1..Len(checks) : checks[i] = Pass
      BY <2>1, <3>1, PassesAll
    <3>. QED
      BY <2>2, <3>2
  <2>. QED
    BY <2>3, <2>4
<1>. HIDE DEF v, list
<1>4. r.agent = q.agent /\ r.connector = q.connector
  BY <1>1, <1>3 DEF RequestBinding, Unless, Pass
<1>5. r.knock \notin {r.key, r.routing}
  BY <1>1, <1>3 DEF NotCrossWired, Unless, Pass
<1>6. r.crid = CridOf[r.key]
  <2>. DEFINE checks == <<Unless(r.crid \in CRIDs, "semantic"),
                          Unless(r.key \in ResourceKeys /\ r.crid = CridOf[r.key],
                                 "crid_binding")>>
  <2>1. FirstOf(checks) = Pass
    BY <1>1, <1>3 DEF CridBinding
  <2>2. /\ Len(checks) = 2
        /\ checks[2] = Unless(r.key \in ResourceKeys /\ r.crid = CridOf[r.key],
                              "crid_binding")
    OBVIOUS
  <2>3. Unless(r.key \in ResourceKeys /\ r.crid = CridOf[r.key], "crid_binding") = Pass
    <3>. HIDE DEF checks
    <3>1. \A i \in 1..2 : checks[i] = Pass
      BY <2>1, <2>2, PassesAll
    <3>. QED
      BY <2>2, <3>1
  <2>. QED
    BY <2>3 DEF Unless, Pass
<1>7. q.expected # "" => r.crid = q.expected
  BY <1>1, <1>3 DEF Continuity, Unless, Pass
<1>. QED
  BY <1>4, <1>5, <1>6, <1>7

----------------------------------------------------------------------------
(***************************************************************************)
(* The inductive invariant.  A success is remembered, under its key alone, *)
(* and so is the creation of every resource; every success is about a      *)
(* resource of its request, and every success under way is one of those or *)
(* a cross-wired form of it.                                               *)
(***************************************************************************)
MemoAnswered ==
    /\ memo \subseteq answers
    /\ \A x \in answers : x = [request |-> x.request, says |-> x.says]

OneMemoPerKey == \A x, y \in memo : SameKey(x.request, y) => x = y

SuccessesKept == Successes \subseteq memo

CreationsKept ==
    \A i \in 1..Len(resources) :
        [request |-> resources[i].request,
         says |-> Success(resources[i].request, i, FALSE)] \in memo

Earned(x, i) ==
    /\ resources[i].request.agent = x.request.agent
    /\ resources[i].request.connector = x.request.connector
    /\ \/ x.says = Success(x.request, i, TRUE)
       \/ x.says = Success(x.request, i, FALSE) /\ x.request = resources[i].request

SuccessesEarned == \A x \in Successes : \E i \in 1..Len(resources) : Earned(x, i)

ResultsTraced ==
    \A r \in results : r.says.code = "0" =>
        \E x \in Successes : r.says \in {x.says} \cup Miswired(x.says)

PinsHeld ==
    \A a \in AgentIds : pending[a].expected # "" =>
        pending[a].expected = bound[a][pending[a].connector].crid

IInv == /\ TypeOK
        /\ MemoAnswered
        /\ OneMemoPerKey
        /\ SuccessesKept
        /\ CreationsKept
        /\ SuccessesEarned
        /\ ResultsTraced
        /\ PinsHeld
        /\ OneActiveResource
        /\ BindingIsReal

\* The resources of the Hub are within those the constants describe.
LEMMA ResourceFacts ==
    ASSUME TypeOK
    PROVE  /\ MaxResources \in Nat /\ Len(resources) \in Nat
           /\ 1..Len(resources) \subseteq 1..MaxResources
           /\ \A i \in 1..Len(resources) : resources[i].request \in Request
           /\ \A i \in 1..MaxResources : KeyOf[i] \in ResourceKeys
                                           /\ CridOf[KeyOf[i]] \in CRIDs
<1>1. MaxResources \in Nat /\ KeyOf \in [1..MaxResources -> ResourceKeys]
  BY ResourcesAssumption DEF MaxResources
<1>2. /\ Len(resources) \in Nat /\ Len(resources) <= MaxResources
      /\ \A i \in 1..Len(resources) :
            resources[i] \in [request : Request, active : BOOLEAN]
  <2>. DEFINE Resource == [request : Request, active : BOOLEAN]
  <2>1. resources \in Seq(Resource) /\ Len(resources) <= MaxResources
    BY DEF TypeOK
  <2>. HIDE DEF Resource
  <2>2. Len(resources) \in Nat /\ \A i \in 1..Len(resources) : resources[i] \in Resource
    BY <2>1
  <2>. QED
    BY <2>1, <2>2 DEF Resource
<1>3. \A i \in 1..MaxResources : KeyOf[i] \in ResourceKeys
  BY <1>1
<1>. QED
  BY <1>1, <1>2, <1>3, ResourcesAssumption

\* The invariant holds initially.
LEMMA InitInv == Init => IInv
<1>. SUFFICES ASSUME Init PROVE IInv
  OBVIOUS
<1>1. TypeOK
  BY ResourcesAssumption DEF Init, TypeOK, MaxResources
<1>2. /\ MemoAnswered /\ OneMemoPerKey /\ SuccessesKept /\ CreationsKept
      /\ SuccessesEarned /\ ResultsTraced /\ OneActiveResource
  BY DEF Init, MemoAnswered, OneMemoPerKey, SuccessesKept, CreationsKept,
         SuccessesEarned, ResultsTraced, OneActiveResource, Successes
<1>3. PinsHeld /\ BindingIsReal
  BY DEF Init, PinsHeld, BindingIsReal, NoRequest
<1>. QED
  BY <1>1, <1>2, <1>3 DEF IInv

----------------------------------------------------------------------------
\* What an agent takes is the identity of a resource of its own request, and of
\* the one it pinned.
LEMMA TakenIsReal ==
    ASSUME IInv, NEW a \in AgentIds, NEW r \in results, Accepted(a, r),
           r.says.code = "0"
    PROVE  \E i \in 1..Len(resources) :
              /\ BindingOf(i) = [key |-> r.says.key, routing |-> r.says.routing,
                                 knock |-> r.says.knock, crid |-> r.says.crid]
              /\ resources[i].request.agent = a
              /\ resources[i].request.connector = pending[a].connector
              /\ pending[a].expected # "" => pending[a].expected = CridOf[KeyOf[i]]
<1>. DEFINE s == r.says
            q == pending[a]
<1>1. q # NoRequest /\ q.agent = a
  BY DEF Accepted, IInv, TypeOK
<1>2. /\ s.agent = q.agent /\ s.connector = q.connector
      /\ s.knock \notin {s.key, s.routing}
      /\ s.crid = CridOf[s.key]
      /\ q.expected # "" => s.crid = q.expected
  <2>1. ParseResult(EncodeSuccess(s), q) = Pass
    BY DEF Accepted, Wire
  <2>. HIDE DEF s, q
  <2>. QED
    BY <1>1, <2>1, SuccessTaken
<1>3. PICK x \in Successes : s \in {x.says} \cup Miswired(x.says)
  BY DEF IInv, ResultsTraced
<1>4. PICK i \in 1..Len(resources) : Earned(x, i)
  BY <1>3 DEF IInv, SuccessesEarned
<1>5. PICK f \in BOOLEAN : x.says = Success(x.request, i, f)
  BY <1>4 DEF Earned
<1>6. s = x.says
  <2>1. SUFFICES ASSUME s \in Miswired(x.says) PROVE FALSE
    BY <1>3
  <2>2. CASE \E k \in {x.says.key, x.says.routing} : s = [x.says EXCEPT !.knock = k]
    BY <1>2, <1>5, <2>2 DEF Success
  <2>3. CASE \E c \in CRIDs \ {x.says.crid} : s = [x.says EXCEPT !.crid = c]
    <3>1. PICK c \in CRIDs \ {x.says.crid} : s = [x.says EXCEPT !.crid = c]
      BY <2>3
    <3>2. x.says.key = KeyOf[i] /\ x.says.crid = CridOf[KeyOf[i]]
      BY <1>5 DEF Success
    <3>3. s.crid = c /\ s.key = x.says.key
      BY <1>5, <3>1 DEF Success
    <3>. QED
      BY <1>2, <3>1, <3>2, <3>3
  <2>. QED
    BY <2>1, <2>2, <2>3 DEF Miswired
<1>7. /\ s.key = KeyOf[i] /\ s.routing = RoutingOf[i] /\ s.knock = KnockOf[i]
      /\ s.crid = CridOf[KeyOf[i]]
      /\ s.agent = x.request.agent /\ s.connector = x.request.connector
  BY <1>5, <1>6 DEF Success
<1>8. BindingOf(i) = [key |-> s.key, routing |-> s.routing,
                      knock |-> s.knock, crid |-> s.crid]
  BY <1>7 DEF BindingOf
<1>9. /\ resources[i].request.agent = a /\ resources[i].request.connector = q.connector
      /\ q.expected # "" => q.expected = CridOf[KeyOf[i]]
  BY <1>1, <1>2, <1>4, <1>7 DEF Earned
<1>. QED
  BY <1>8, <1>9

----------------------------------------------------------------------------
\* What rests on the Hub alone stays true while the Hub does nothing.
HubInv == /\ MemoAnswered /\ OneMemoPerKey /\ SuccessesKept
          /\ CreationsKept /\ SuccessesEarned /\ OneActiveResource

\* What leaves the records of the Hub alone keeps their invariant.
LEMMA HubFrame ==
    ASSUME IInv, UNCHANGED <<resources, memo, answers>>
    PROVE  HubInv'
<1>1. Successes' = Successes
  BY DEF Successes
<1>2. OneActiveResource'
  BY DEF IInv, OneActiveResource
<1>3. (MemoAnswered /\ OneMemoPerKey /\ CreationsKept)'
  BY DEF IInv, MemoAnswered, OneMemoPerKey, CreationsKept
<1>4. (SuccessesKept /\ SuccessesEarned)'
  BY <1>1 DEF IInv, SuccessesKept, SuccessesEarned, Earned
<1>. QED
  BY <1>2, <1>3, <1>4 DEF HubInv

\* A result under way stays traced when the successes only grow.
LEMMA ResultsFrame ==
    ASSUME IInv, UNCHANGED results, answers \subseteq answers'
    PROVE  ResultsTraced'
BY DEF IInv, ResultsTraced, Successes

\* The bindings stay real when the resources only grow.
LEMMA BindingFrame ==
    ASSUME IInv, UNCHANGED bound, Len(resources') \in Nat,
           Len(resources) <= Len(resources'),
           \A i \in 1..Len(resources) : resources'[i].request = resources[i].request
    PROVE  BindingIsReal'
<1>. SUFFICES ASSUME NEW a \in AgentIds, NEW c \in ConnectorIds,
                     bound[a][c] # NoBinding
              PROVE  \E i \in 1..Len(resources') :
                        /\ bound[a][c] = BindingOf(i)
                        /\ resources'[i].request.agent = a
                        /\ resources'[i].request.connector = c
  BY DEF BindingIsReal
<1>1. PICK i \in 1..Len(resources) : /\ bound[a][c] = BindingOf(i)
                                     /\ resources[i].request.agent = a
                                     /\ resources[i].request.connector = c
  BY DEF IInv, BindingIsReal
<1>2. Len(resources) \in Nat /\ i \in 1..Len(resources')
  BY ResourceFacts DEF IInv
<1>. QED
  BY <1>1, <1>2

\* Bindings stay real when nothing is bound and no resource changes.
LEMMA BindingUnchanged ==
    ASSUME IInv, UNCHANGED <<bound, resources>>
    PROVE  BindingIsReal'
<1>1. Len(resources) \in Nat
  BY ResourceFacts DEF IInv
<1>2. /\ Len(resources') \in Nat /\ Len(resources) <= Len(resources')
      /\ \A i \in 1..Len(resources) : resources'[i].request = resources[i].request
  BY <1>1
<1>. QED
  BY <1>2, BindingFrame

\* What an agent can pin is a CRID, if it is anything.
LEMMA HeldCrid ==
    ASSUME TypeOK, NEW a \in AgentIds, NEW c \in ConnectorIds
    PROVE  bound[a][c].crid \in CRIDs \cup {""}
<1>1. NoBinding.crid = "" /\ \A i \in 1..MaxResources : BindingOf(i).crid \in CRIDs
  BY ResourceFacts DEF NoBinding, BindingOf
<1>2. \/ bound[a][c] = NoBinding
      \/ \E i \in 1..MaxResources : bound[a][c] = BindingOf(i)
  BY DEF TypeOK
<1>. QED
  BY <1>1, <1>2

\* Asking: the new request pins what the agent holds, or nothing.
LEMMA AskInv ==
    ASSUME IInv, NEW a \in AgentIds, NEW c \in ConnectorIds, Ask(a, c)
    PROVE  IInv'
<1>1. PICK n \in Nonces, e \in {"", bound[a][c].crid} :
         LET m == [agent |-> a, connector |-> c, nonce |-> n, expected |-> e]
         IN  pending' = [pending EXCEPT ![a] = m] /\ requests' = requests \cup {m}
  BY DEF Ask
<1>. DEFINE m == [agent |-> a, connector |-> c, nonce |-> n, expected |-> e]
<1>2. UNCHANGED <<bound, results, resources, memo, answers>>
  BY DEF Ask
<1>3. m \in Request
  <2>1. e \in CRIDs \cup {""}
    BY HeldCrid DEF IInv
  <2>. QED
    BY <2>1 DEF Request
<1>4. TypeOK'
  <2>1. pending' \in [AgentIds -> Request \cup {NoRequest}]
    BY <1>1, <1>3 DEF IInv, TypeOK
  <2>2. \A b \in AgentIds : pending'[b] # NoRequest => pending'[b].agent = b
    BY <1>1, <1>3 DEF IInv, TypeOK
  <2>3. requests' \subseteq Request /\ requests \subseteq requests'
    BY <1>1, <1>3 DEF IInv, TypeOK
  <2>. QED
    BY <1>2, <2>1, <2>2, <2>3 DEF IInv, TypeOK
<1>5. PinsHeld'
  BY <1>1, <1>2 DEF IInv, TypeOK, PinsHeld
<1>6. BindingIsReal' /\ ResultsTraced' /\ HubInv'
  BY <1>2, BindingUnchanged, ResultsFrame, HubFrame
<1>. QED
  BY <1>4, <1>5, <1>6 DEF IInv, HubInv

\* Binding: what is persisted is what TakenIsReal says.
LEMMA BindInv ==
    ASSUME IInv, NEW a \in AgentIds, NEW r \in results, Bind(a, r)
    PROVE  IInv'
<1>1. PICK i \in 1..Len(resources) :
         /\ BindingOf(i) = [key |-> r.says.key, routing |-> r.says.routing,
                            knock |-> r.says.knock, crid |-> r.says.crid]
         /\ resources[i].request.agent = a
         /\ resources[i].request.connector = pending[a].connector
  BY TakenIsReal DEF Bind
<1>. DEFINE c == pending[a].connector
<1>2. /\ bound' = [bound EXCEPT ![a][c] = BindingOf(i)]
      /\ pending' = [pending EXCEPT ![a] = NoRequest]
      /\ UNCHANGED <<requests, results, resources, memo, answers>>
  BY <1>1 DEF Bind
<1>3. pending[a] \in Request /\ c \in ConnectorIds
  BY DEF IInv, TypeOK, Bind, Accepted, Request
<1>4. TypeOK'
  <2>1. BindingOf(i) \in {BindingOf(k) : k \in 1..MaxResources}
    BY ResourceFacts DEF IInv
  <2>. DEFINE Bindings == {NoBinding} \cup {BindingOf(k) : k \in 1..MaxResources}
  <2>2. BindingOf(i) \in Bindings /\ bound \in [AgentIds -> [ConnectorIds -> Bindings]]
    BY <2>1 DEF IInv, TypeOK
  <2>. HIDE DEF Bindings
  <2>3. bound' \in [AgentIds -> [ConnectorIds -> Bindings]]
    BY <1>2, <1>3, <2>2
  <2>4. pending' \in [AgentIds -> Request \cup {NoRequest}]
    BY <1>2 DEF IInv, TypeOK
  <2>5. \A b \in AgentIds : pending'[b] # NoRequest => pending'[b].agent = b
    BY <1>2 DEF IInv, TypeOK
  <2>. QED
    BY <1>2, <2>3, <2>4, <2>5 DEF IInv, TypeOK, Bindings
<1>5. PinsHeld'
  BY <1>2 DEF IInv, TypeOK, PinsHeld, NoRequest
<1>6. BindingIsReal'
  <2>. SUFFICES ASSUME NEW b \in AgentIds, NEW d \in ConnectorIds,
                       bound'[b][d] # NoBinding
                PROVE  \E k \in 1..Len(resources) :
                          /\ bound'[b][d] = BindingOf(k)
                          /\ resources[k].request.agent = b
                          /\ resources[k].request.connector = d
    BY <1>2 DEF BindingIsReal
  <2>1. CASE b = a /\ d = c
    <3>1. bound'[b][d] = BindingOf(i)
      BY <1>2, <1>3, <2>1 DEF IInv, TypeOK
    <3>. QED
      BY <1>1, <2>1, <3>1
  <2>2. CASE ~(b = a /\ d = c)
    <3>1. bound'[b][d] = bound[b][d]
      BY <1>2, <2>2 DEF IInv, TypeOK
    <3>. QED
      BY <3>1 DEF IInv, BindingIsReal
  <2>. QED
    BY <2>1, <2>2
<1>. QED
  BY <1>2, <1>4, <1>5, <1>6, ResultsFrame, HubFrame DEF IInv, HubInv

\* A terminal error ends the exchange: the agent waits for nothing.
LEMMA AbandonInv ==
    ASSUME IInv, NEW a \in AgentIds, NEW r \in results, Abandon(a, r)
    PROVE  IInv'
<1>1. /\ pending' = [pending EXCEPT ![a] = NoRequest]
      /\ UNCHANGED <<bound, requests, results, resources, memo, answers>>
  BY DEF Abandon
<1>2. TypeOK'
  <2>1. pending' \in [AgentIds -> Request \cup {NoRequest}]
    BY <1>1 DEF IInv, TypeOK
  <2>2. \A b \in AgentIds : pending'[b] # NoRequest => pending'[b].agent = b
    BY <1>1 DEF IInv, TypeOK
  <2>. QED
    BY <1>1, <2>1, <2>2 DEF IInv, TypeOK
<1>3. PinsHeld'
  BY <1>1 DEF IInv, TypeOK, PinsHeld, NoRequest
<1>4. BindingIsReal'
  BY <1>1 DEF IInv, BindingIsReal
<1>. QED
  BY <1>1, <1>2, <1>3, <1>4, ResultsFrame, HubFrame DEF IInv, HubInv

----------------------------------------------------------------------------
\* A reply that creates nothing keeps the invariant when a success it gives is
\* about a resource of the request and is remembered, and nothing else is
\* remembered under a key in use.
LEMMA ReplyInv ==
    ASSUME IInv, NEW m \in requests, NEW says, NEW kept \in BOOLEAN,
           Reply(m, says, kept), UNCHANGED resources,
           kept => Remembered(m) = {},
           says.code = "0" =>
               /\ \E i \in 1..Len(resources) : Earned([request |-> m, says |-> says], i)
               /\ kept \/ [request |-> m, says |-> says] \in memo
    PROVE  IInv'
<1>. DEFINE given == [request |-> m, says |-> says]
<1>1. /\ results' = results \cup {[to |-> m.agent, says |-> says]}
      /\ answers' = answers \cup {given}
      /\ memo' = IF kept THEN memo \cup {given} ELSE memo
      /\ UNCHANGED <<pending, bound, requests, resources>>
  BY DEF Reply
<1>2. m \in Request /\ m.agent \in AgentIds
  BY DEF IInv, TypeOK, Request
<1>3. given.request = m /\ given.says = says
  OBVIOUS
<1>. HIDE DEF given
<1>4. Successes' = IF says.code = "0" THEN Successes \cup {given} ELSE Successes
  BY <1>1, <1>3 DEF Successes
<1>5. TypeOK'
  <2>1. \A r \in results' : r.to \in AgentIds
    BY <1>1, <1>2 DEF IInv, TypeOK
  <2>2. \A x \in memo' \cup answers' : x.request \in requests'
    BY <1>1, <1>3 DEF IInv, TypeOK
  <2>. QED
    BY <1>1, <2>1, <2>2 DEF IInv, TypeOK
<1>6. MemoAnswered'
  <2>1. given = [request |-> given.request, says |-> given.says]
    BY DEF given
  <2>. QED
    BY <1>1, <2>1 DEF IInv, MemoAnswered
<1>7. OneMemoPerKey'
  <2>1. CASE kept
    <3>1. \A x \in memo : ~SameKey(m, x) /\ ~SameKey(x.request, given)
      BY <1>3, <2>1 DEF Remembered, SameKey
    <3>. QED
      BY <1>1, <1>3, <2>1, <3>1 DEF IInv, OneMemoPerKey, SameKey
  <2>2. CASE ~kept
    BY <1>1, <2>2 DEF IInv, OneMemoPerKey, SameKey
  <2>. QED
    BY <2>1, <2>2
<1>8. SuccessesKept'
  BY <1>1, <1>4 DEF IInv, SuccessesKept, given
<1>9. CreationsKept'
  BY <1>1 DEF IInv, CreationsKept
<1>10. SuccessesEarned'
  <2>. SUFFICES ASSUME NEW x \in Successes'
                PROVE  \E i \in 1..Len(resources) : Earned(x, i)
    BY <1>1 DEF SuccessesEarned, Earned
  <2>. QED
    BY <1>4 DEF IInv, SuccessesEarned, given
<1>11. ResultsTraced'
  <2>. SUFFICES ASSUME NEW r \in results', r.says.code = "0"
                PROVE  \E x \in Successes' : r.says \in {x.says} \cup Miswired(x.says)
    BY DEF ResultsTraced
  <2>1. CASE r \in results
    BY <1>4, <2>1 DEF IInv, ResultsTraced
  <2>2. CASE r = [to |-> m.agent, says |-> says]
    BY <1>3, <1>4, <2>2
  <2>. QED
    BY <1>1, <2>1, <2>2
<1>12. PinsHeld'
  BY <1>1 DEF IInv, PinsHeld
<1>13. OneActiveResource'
  <2>1. resources' = resources
    BY <1>1
  <2>2. OneActiveResource
    BY DEF IInv
  <2>. QED
    BY ONLY <2>1, <2>2 DEF OneActiveResource
<1>14. BindingIsReal'
  BY <1>1, BindingUnchanged
<1>. QED
  BY <1>5, <1>6, <1>7, <1>8, <1>9, <1>10, <1>11, <1>12, <1>13, <1>14 DEF IInv

\* A replay gives what is remembered, or an error that changes nothing.
LEMMA ReplayInv == ASSUME IInv, NEW m \in requests, Replay(m) PROVE IInv'
<1>1. PICK x \in Remembered(m) :
         Reply(m, IF x.request = m THEN x.says ELSE Error("52506"), FALSE)
  BY DEF Replay
<1>2. UNCHANGED resources
  BY DEF Replay
<1>3. CASE x.request = m
  <2>1. x \in memo /\ x = [request |-> m, says |-> x.says] /\ x \in answers
    BY <1>3 DEF Remembered, IInv, MemoAnswered
  <2>2. x.says.code = "0" => \E i \in 1..Len(resources) : Earned(x, i)
    BY <2>1 DEF IInv, SuccessesEarned, Successes
  <2>3. Reply(m, x.says, FALSE)
    BY <1>1, <1>3
  <2>. QED
    BY <1>2, <2>1, <2>2, <2>3, ReplyInv
<1>4. CASE x.request # m
  <2>1. Reply(m, Error("52506"), FALSE) /\ Error("52506").code # "0"
    BY <1>1, <1>4 DEF Error
  <2>. QED
    BY <1>2, <2>1, ReplyInv
<1>. QED
  BY <1>3, <1>4

\* A resource that exists is told as found under a fresh key.
LEMMA ResolveInv == ASSUME IInv, NEW m \in requests, Resolve(m) PROVE IInv'
<1>1. PICK i \in Active(m) : Reply(m, Success(m, i, TRUE), TRUE)
  BY DEF Resolve
<1>2. Remembered(m) = {} /\ UNCHANGED resources
  BY DEF Resolve
<1>3. i \in 1..Len(resources) /\ Earned([request |-> m, says |-> Success(m, i, TRUE)], i)
  BY DEF Active, Earned
<1>. QED
  BY <1>1, <1>2, <1>3, ReplyInv

\* A refusal creates nothing and gives no success.
LEMMA RefuseInv ==
    ASSUME IInv, NEW m \in requests, RefuseContinuity(m) \/ Refuse(m)
    PROVE  IInv'
<1>1. Remembered(m) = {} /\ UNCHANGED resources
  BY DEF RefuseContinuity, Refuse
<1>2. \E code \in {"52503", "52504", "52505"}, kept \in BOOLEAN :
         Reply(m, Error(code), kept)
  BY DEF RefuseContinuity, Refuse
<1>3. \A code \in {"52503", "52504", "52505"} : Error(code).code # "0"
  BY DEF Error
<1>. QED
  BY <1>1, <1>2, <1>3, ReplyInv

----------------------------------------------------------------------------
\* What appending does to the sequence of resources.
LEMMA Appended ==
    ASSUME NEW R, NEW s \in Seq(R), NEW e \in R, NEW n, n = Len(s) + 1
    PROVE  /\ Append(s, e) \in Seq(R)
           /\ Len(s) \in Nat /\ Len(Append(s, e)) = n
           /\ Append(s, e)[n] = e
           /\ \A i \in 1..Len(s) : Append(s, e)[i] = s[i]
           /\ 1..n = 1..Len(s) \cup {n} /\ n \notin 1..Len(s)
OBVIOUS

\* A creation: the resource is new, and the success that tells of it is remembered.
LEMMA CreateInv == ASSUME IInv, NEW m \in requests, Create(m) PROVE IInv'
<1>. DEFINE R == [request : Request, active : BOOLEAN]
<1>1. PICK n, says, given, new :
         /\ n = Len(resources) + 1
         /\ says = Success(m, n, FALSE)
         /\ given = [request |-> m, says |-> says]
         /\ new = [request |-> m, active |-> TRUE]
  OBVIOUS
<1>2. /\ resources' = Append(resources, new)
      /\ results' = results \cup {[to |-> m.agent, says |-> says]}
      /\ answers' = answers \cup {given}
      /\ memo' = memo \cup {given}
      /\ UNCHANGED <<pending, bound, requests>>
  BY <1>1 DEF Create, Reply
<1>3. /\ Len(resources) < MaxResources /\ Remembered(m) = {}
      /\ m.expected = "" /\ Active(m) = {}
  BY DEF Create, MayCreate
<1>4. /\ m \in Request /\ m.agent \in AgentIds
      /\ says.code = "0" /\ given.request = m /\ given.says = says
      /\ given = [request |-> given.request, says |-> given.says]
      /\ new \in R /\ new.request = m
  <2>1. m \in Request /\ m.agent \in AgentIds
    BY DEF IInv, TypeOK, Request
  <2>. QED
    BY <1>1, <2>1 DEF Success
<1>5. /\ resources' \in Seq(R)
      /\ Len(resources) \in Nat /\ Len(resources') = n
      /\ resources'[n] = new
      /\ \A i \in 1..Len(resources) : resources'[i] = resources[i]
      /\ 1..n = 1..Len(resources) \cup {n} /\ n \notin 1..Len(resources)
  <2>1. resources \in Seq(R)
    BY DEF IInv, TypeOK
  <2>2. n = Len(resources) + 1 /\ new \in R
    BY <1>1, <1>4
  <2>. HIDE DEF R
  <2>3. LET s == Append(resources, new)
        IN  /\ s \in Seq(R)
            /\ Len(resources) \in Nat /\ Len(s) = n
            /\ s[n] = new
            /\ \A i \in 1..Len(resources) : s[i] = resources[i]
            /\ 1..n = 1..Len(resources) \cup {n} /\ n \notin 1..Len(resources)
    BY <2>1, <2>2, Appended
  <2>. QED
    BY <1>2, <2>3
<1>. HIDE DEF R
<1>6. resources'[n].request = m
  BY <1>4, <1>5
<1>7. Successes' = Successes \cup {given}
  BY <1>2, <1>4 DEF Successes
<1>8. TypeOK'
  <2>1. \A r \in results' : r.to \in AgentIds
    BY <1>2, <1>4 DEF IInv, TypeOK
  <2>2. \A x \in memo' \cup answers' : x.request \in requests'
    BY <1>2, <1>4 DEF IInv, TypeOK
  <2>3. Len(resources') <= MaxResources
    <3>1. MaxResources \in Nat
      BY ResourceFacts DEF IInv
    <3>2. Len(resources) \in Nat /\ n = Len(resources) + 1 /\ Len(resources) < MaxResources
      BY <1>1, <1>3, <1>5
    <3>. QED
      BY <1>5, <3>1, <3>2
  <2>. QED
    BY <1>2, <1>5, <2>1, <2>2, <2>3 DEF IInv, TypeOK, R
<1>9. MemoAnswered'
  BY <1>2, <1>4 DEF IInv, MemoAnswered
<1>10. OneMemoPerKey'
  <2>1. \A x \in memo : ~SameKey(m, x) /\ ~SameKey(x.request, given)
    BY <1>3, <1>4 DEF Remembered, SameKey
  <2>. QED
    BY <1>2, <1>4, <2>1 DEF IInv, OneMemoPerKey, SameKey
<1>11. SuccessesKept'
  BY <1>2, <1>7 DEF IInv, SuccessesKept
<1>12. CreationsKept'
  <2>. SUFFICES ASSUME NEW i \in 1..n
                PROVE  [request |-> resources'[i].request,
                        says |-> Success(resources'[i].request, i, FALSE)] \in memo'
    BY <1>5 DEF CreationsKept
  <2>1. CASE i = n
    BY <1>1, <1>2, <1>6, <2>1
  <2>2. CASE i \in 1..Len(resources)
    <3>1. [request |-> resources[i].request,
           says |-> Success(resources[i].request, i, FALSE)] \in memo
      BY <2>2 DEF IInv, CreationsKept
    <3>2. resources'[i] = resources[i]
      BY <1>5, <2>2
    <3>. QED
      BY <1>2, <3>1, <3>2
  <2>. QED
    BY <1>5, <2>1, <2>2
<1>13. SuccessesEarned'
  <2>. SUFFICES ASSUME NEW x \in Successes \cup {given}
                PROVE  \E i \in 1..n : Earned(x, i)'
    BY <1>5, <1>7 DEF SuccessesEarned
  <2>1. CASE x = given
    <3>1. Earned(given, n)'
      <4>1. given.says = Success(given.request, n, FALSE)
        BY <1>1, <1>4
      <4>. QED
        BY <1>4, <1>6, <4>1 DEF Earned
    <3>2. n \in 1..n
      BY <1>5
    <3>. QED
      BY <2>1, <3>1, <3>2
  <2>2. CASE x \in Successes
    <3>1. PICK i \in 1..Len(resources) : Earned(x, i)
      BY <2>2 DEF IInv, SuccessesEarned
    <3>2. i \in 1..n /\ resources'[i] = resources[i]
      BY <1>5
    <3>. QED
      BY <3>1, <3>2 DEF Earned
  <2>. QED
    BY <2>1, <2>2
<1>14. ResultsTraced'
  <2>. SUFFICES ASSUME NEW r \in results', r.says.code = "0"
                PROVE  \E x \in Successes' : r.says \in {x.says} \cup Miswired(x.says)
    BY DEF ResultsTraced
  <2>1. CASE r \in results
    BY <1>7, <2>1 DEF IInv, ResultsTraced
  <2>2. CASE r = [to |-> m.agent, says |-> says]
    BY <1>4, <1>7, <2>2
  <2>. QED
    BY <1>2, <2>1, <2>2
<1>15. PinsHeld'
  BY <1>2 DEF IInv, PinsHeld
<1>16. OneActiveResource'
  <2>. DEFINE Apart(p, q) == \/ p.request.agent # q.request.agent
                             \/ p.request.connector # q.request.connector
  <2>1. \A k \in 1..Len(resources) : resources[k].active => Apart(new, resources[k])
    BY <1>3, <1>4 DEF Active
  <2>2. \A i, j \in 1..Len(resources) :
           /\ resources[i].request.expected = ""
           /\ resources[i].active /\ resources[j].active /\ i # j
                 => Apart(resources[i], resources[j])
    BY DEF IInv, OneActiveResource
  <2>3. \A p, q : Apart(p, q) => Apart(q, p)
    OBVIOUS
  <2>4. new.request.expected = ""
    BY <1>3, <1>4
  <2>. HIDE DEF Apart
  <2>5. \A i, j \in 1..n :
           /\ resources'[i].request.expected = ""
           /\ resources'[i].active /\ resources'[j].active /\ i # j
                 => Apart(resources'[i], resources'[j])
    BY <1>5, <2>1, <2>2, <2>3, <2>4
  <2>. QED
    BY <1>5, <2>5 DEF OneActiveResource, Apart
<1>17. BindingIsReal'
  <2>1. /\ Len(resources') \in Nat /\ Len(resources) <= Len(resources')
        /\ \A i \in 1..Len(resources) : resources'[i].request = resources[i].request
    BY <1>1, <1>5
  <2>2. UNCHANGED bound
    BY <1>2
  <2>. QED
    BY <2>1, <2>2, BindingFrame
<1>. QED
  BY <1>8, <1>9, <1>10, <1>11, <1>12, <1>13, <1>14, <1>15, <1>16, <1>17 DEF IInv

\* A revocation changes no request and revives nothing.
LEMMA RevokeInv ==
    ASSUME IInv, NEW k \in 1..Len(resources), Revoke(k)
    PROVE  IInv'
<1>1. /\ resources' = [resources EXCEPT ![k].active = FALSE]
      /\ UNCHANGED <<pending, bound, requests, results, memo, answers>>
  BY DEF Revoke
<1>. DEFINE R == [request : Request, active : BOOLEAN]
<1>2. resources \in Seq(R) /\ Len(resources) \in Nat
  BY ResourceFacts DEF IInv, TypeOK
<1>3. \A i \in 1..Len(resources) : resources[i] \in R
  <2>. HIDE DEF R
  <2>. QED
    BY <1>2
<1>4. [resources[k] EXCEPT !.active = FALSE] \in R
  BY <1>3
<1>5. resources' = [resources EXCEPT ![k] = [resources[k] EXCEPT !.active = FALSE]]
  BY <1>1
<1>6. resources' \in Seq(R) /\ Len(resources') = Len(resources)
  <2>. HIDE DEF R
  <2>. QED
    BY <1>2, <1>4, <1>5
<1>7. \A i \in 1..Len(resources) :
         /\ resources'[i].request = resources[i].request
         /\ resources'[i].active => resources[i].active
  <2>. SUFFICES ASSUME NEW i \in 1..Len(resources)
                PROVE  /\ resources'[i].request = resources[i].request
                       /\ resources'[i].active => resources[i].active
    OBVIOUS
  <2>0. DOMAIN resources = 1..Len(resources)
    BY <1>2
  <2>1. CASE i = k
    <3>1. resources'[i] = [resources[k] EXCEPT !.active = FALSE]
      <4>. HIDE DEF R
      <4>. QED
        BY <1>5, <2>0, <2>1
    <3>. QED
      BY <1>3, <2>1, <3>1
  <2>2. CASE i # k
    BY <1>5, <2>0, <2>2
  <2>. QED
    BY <2>1, <2>2
<1>8. TypeOK'
  BY <1>1, <1>6 DEF IInv, TypeOK
<1>. HIDE DEF R
<1>9. (MemoAnswered /\ OneMemoPerKey)'
  BY <1>1 DEF IInv, MemoAnswered, OneMemoPerKey
<1>10. Successes' = Successes /\ UNCHANGED results
  BY <1>1 DEF Successes
<1>11. (SuccessesKept /\ ResultsTraced)'
  BY <1>1, <1>10 DEF IInv, SuccessesKept, ResultsTraced
<1>12. CreationsKept'
  <2>. SUFFICES ASSUME NEW i \in 1..Len(resources)
                PROVE  [request |-> resources'[i].request,
                        says |-> Success(resources'[i].request, i, FALSE)] \in memo
    <3>1. 1..Len(resources') = 1..Len(resources) /\ memo' = memo
      BY <1>1, <1>6
    <3>. QED
      BY <3>1 DEF CreationsKept
  <2>1. resources'[i].request = resources[i].request
    BY <1>7
  <2>. QED
    BY <2>1 DEF IInv, CreationsKept
<1>13. SuccessesEarned'
  <2>. SUFFICES ASSUME NEW x \in Successes
                PROVE  \E i \in 1..Len(resources) : Earned(x, i)'
    BY <1>6, <1>10 DEF SuccessesEarned
  <2>1. PICK i \in 1..Len(resources) : Earned(x, i)
    BY DEF IInv, SuccessesEarned
  <2>. QED
    BY <1>7, <2>1 DEF Earned
<1>14. PinsHeld'
  BY <1>1 DEF IInv, PinsHeld
<1>15. OneActiveResource'
  <2>. DEFINE Apart(p, q) == \/ p.request.agent # q.request.agent
                             \/ p.request.connector # q.request.connector
  <2>1. \A i, j \in 1..Len(resources) :
           /\ resources[i].request.expected = ""
           /\ resources[i].active /\ resources[j].active /\ i # j
                 => Apart(resources[i], resources[j])
    BY DEF IInv, OneActiveResource
  <2>2. \A i, j \in 1..Len(resources) :
           Apart(resources[i], resources[j]) => Apart(resources'[i], resources'[j])
    BY <1>7
  <2>3. 1..Len(resources') = 1..Len(resources)
    BY <1>6
  <2>. HIDE DEF Apart
  <2>4. \A i, j \in 1..Len(resources') :
           /\ resources'[i].request.expected = ""
           /\ resources'[i].active /\ resources'[j].active /\ i # j
                 => Apart(resources'[i], resources'[j])
    BY <1>7, <2>1, <2>2, <2>3
  <2>. QED
    BY <2>4 DEF OneActiveResource, Apart
<1>16. BindingIsReal'
  <2>1. Len(resources') \in Nat /\ Len(resources) <= Len(resources')
    BY <1>2, <1>6
  <2>. QED
    BY <1>1, <1>7, <2>1, BindingFrame
<1>. QED
  BY <1>8, <1>9, <1>11, <1>12, <1>13, <1>14, <1>15, <1>16 DEF IInv

\* A cross-wired result is one of a success that was given.
LEMMA MiswireInv == ASSUME IInv, Miswire PROVE IInv'
<1>1. PICK x \in results : /\ x.says.code = "0"
                           /\ \E says \in Miswired(x.says) :
                                 results' = results \cup {[to |-> x.to, says |-> says]}
  BY DEF Miswire
<1>2. PICK says \in Miswired(x.says) :
         results' = results \cup {[to |-> x.to, says |-> says]}
  BY <1>1
<1>3. PICK y \in answers : x.says = y.says
  BY DEF Miswire
<1>4. UNCHANGED <<pending, bound, requests, resources, memo, answers>>
  BY DEF Miswire
<1>5. Successes' = Successes /\ y \in Successes
  BY <1>1, <1>3, <1>4 DEF Successes
<1>6. ResultsTraced'
  <2>. SUFFICES ASSUME NEW r \in results', r.says.code = "0"
                PROVE  \E z \in Successes : r.says \in {z.says} \cup Miswired(z.says)
    BY <1>5 DEF ResultsTraced
  <2>1. CASE r \in results
    BY <2>1 DEF IInv, ResultsTraced
  <2>2. CASE r = [to |-> x.to, says |-> says]
    BY <1>2, <1>3, <1>5, <2>2
  <2>. QED
    BY <1>2, <2>1, <2>2
<1>7. TypeOK'
  <2>1. \A r \in results' : r.to \in AgentIds
    BY <1>2 DEF IInv, TypeOK
  <2>. QED
    BY <1>4, <2>1 DEF IInv, TypeOK
<1>8. PinsHeld'
  BY <1>4 DEF IInv, PinsHeld
<1>. QED
  BY <1>4, <1>6, <1>7, <1>8, BindingUnchanged, HubFrame DEF IInv, HubInv

\* Every step keeps the invariant.
LEMMA StepInv == IInv /\ [Next]_vars => IInv'
<1>. SUFFICES ASSUME IInv, [Next]_vars PROVE IInv'
  OBVIOUS
<1>1. ASSUME NEW a \in AgentIds, Agent(a) PROVE IInv'
  BY <1>1, AskInv, BindInv, AbandonInv DEF Agent
<1>2. ASSUME NEW m \in requests, Serve(m) PROVE IInv'
  BY <1>2, ReplayInv, ResolveInv, CreateInv, RefuseInv DEF Serve
<1>3. CASE Miswire
  BY <1>3, MiswireInv
<1>4. ASSUME NEW k \in 1..Len(resources), Revoke(k) PROVE IInv'
  BY <1>4, RevokeInv
<1>5. CASE UNCHANGED vars
  <2>1. UNCHANGED <<pending, bound, requests, results, resources, memo, answers>>
    BY <1>5 DEF vars
  <2>2. TypeOK' /\ PinsHeld'
    BY <2>1 DEF IInv, TypeOK, PinsHeld
  <2>. QED
    BY <2>1, <2>2, BindingUnchanged, ResultsFrame, HubFrame DEF IInv, HubInv
<1>. QED
  BY <1>1, <1>2, <1>3, <1>4, <1>5 DEF Next, Hub, Owner

----------------------------------------------------------------------------
\* The inductive invariant holds of every reachable state.
THEOREM Invariance == Spec => []IInv
BY InitInv, StepInv, PTL DEF Spec

\* Every variable of agents and Hub keeps its type, the bindings included.
THEOREM TypeCorrect == Spec => []TypeOK
<1>1. IInv => TypeOK
  BY DEF IInv
<1>. QED
  BY <1>1, Invariance, PTL

\* exact_replay_rule: one result for one request under a replay key, for ever.
THEOREM ExactReplay == Spec => []ReplayIsIdentical
<1>1. IInv => ReplayIsIdentical
  BY DEF IInv, SuccessesKept, OneMemoPerKey, ReplayIsIdentical
<1>. QED
  BY <1>1, Invariance, PTL

\* found_existing_rule: a creation is told under the one key that made it.
THEOREM CreationRule == Spec => []CreationToldOnce
<1>1. ASSUME IInv, NEW x \in Successes, NEW i \in 1..Len(resources),
             x.says.key = KeyOf[i]
      PROVE  ~x.says.found <=> SameKey(x.request, resources[i])
  <2>1. PICK j \in 1..Len(resources) : Earned(x, j)
    BY <1>1 DEF IInv, SuccessesEarned
  <2>2. PICK f \in BOOLEAN : /\ x.says = Success(x.request, j, f)
                             /\ f = FALSE => x.request = resources[j].request
    BY <2>1 DEF Earned
  <2>3. x.says.key = KeyOf[j] /\ x.says.found = f
    BY <2>2 DEF Success
  <2>4. i = j
    <3>1. i \in 1..MaxResources /\ j \in 1..MaxResources
      BY <1>1, ResourceFacts DEF IInv
    <3>. QED
      BY <1>1, <2>3, <3>1, ResourcesAssumption
  <2>5. CASE f = FALSE
    BY <2>2, <2>3, <2>4, <2>5 DEF SameKey
  <2>6. CASE f = TRUE
    <3>1. SUFFICES ASSUME SameKey(x.request, resources[i]) PROVE FALSE
      BY <2>3, <2>6
    <3>. DEFINE told == [request |-> resources[i].request,
                         says |-> Success(resources[i].request, i, FALSE)]
    <3>2. told \in memo /\ x \in memo
      BY <1>1 DEF IInv, CreationsKept, SuccessesKept
    <3>3. SameKey(x.request, told)
      BY <3>1 DEF SameKey
    <3>4. x = told
      <4>. HIDE DEF told
      <4>. QED
        BY <1>1, <3>2, <3>3 DEF IInv, OneMemoPerKey
    <3>5. told.says.found = FALSE
      BY DEF Success
    <3>. QED
      BY <2>3, <2>6, <3>4, <3>5
  <2>. QED
    BY <2>5, <2>6
<1>2. IInv => CreationToldOnce
  BY <1>1 DEF CreationToldOnce
<1>. QED
  BY <1>2, Invariance, PTL

\* A connector of an agent has at most one active resource.
THEOREM OneActive == Spec => []OneActiveResource
<1>1. IInv => OneActiveResource
  BY DEF IInv
<1>. QED
  BY <1>1, Invariance, PTL

\* What an agent persists is the identity of a resource made for it: no late,
\* foreign or cross-wired result passes ParseResult.
THEOREM RealBinding == Spec => []BindingIsReal
<1>1. IInv => BindingIsReal
  BY DEF IInv
<1>. QED
  BY <1>1, Invariance, PTL

\* A pinned request never replaces the binding it pins: the result it takes has
\* the pinned CRID, and a CRID belongs to one resource.
THEOREM Continued == Spec => PinnedBindingStays
<1>1. ASSUME IInv, [Next]_vars, NEW a \in AgentIds, pending[a].expected # ""
      PROVE  bound'[a] = bound[a]
  <2>1. CASE \E b \in AgentIds, r \in results : Bind(b, r)
    <3>1. PICK b \in AgentIds, r \in results : Bind(b, r)
      BY <2>1
    <3>1a. IInv /\ Accepted(b, r) /\ r.says.code = "0"
      BY <1>1, <3>1 DEF Bind
    <3>2. PICK i \in 1..Len(resources) :
             /\ BindingOf(i) = [key |-> r.says.key, routing |-> r.says.routing,
                                knock |-> r.says.knock, crid |-> r.says.crid]
             /\ resources[i].request.agent = b
             /\ resources[i].request.connector = pending[b].connector
             /\ pending[b].expected # "" => pending[b].expected = CridOf[KeyOf[i]]
      BY <3>1a, TakenIsReal
    <3>. DEFINE c == pending[b].connector
                taken == BindingOf(i)
    <3>3. bound' = [bound EXCEPT ![b][c] = taken] /\ c \in ConnectorIds
      BY <1>1, <3>1, <3>2 DEF Bind, Accepted, IInv, TypeOK, Request
    <3>. HIDE DEF taken
    <3>4. CASE b # a
      BY <1>1, <3>3, <3>4 DEF IInv, TypeOK
    <3>5. CASE b = a
      <4>1. bound[a][c].crid = CridOf[KeyOf[i]] /\ bound[a][c].crid # ""
        BY <1>1, <3>2, <3>5 DEF IInv, PinsHeld
      <4>2. NoBinding.crid = "" /\ \A k \in 1..MaxResources :
                                     BindingOf(k).crid = CridOf[KeyOf[k]]
        BY DEF NoBinding, BindingOf
      <4>3. \/ bound[a][c] = NoBinding
            \/ \E k \in 1..MaxResources : bound[a][c] = BindingOf(k)
        <5>1. bound \in [AgentIds -> [ConnectorIds ->
                           {NoBinding} \cup {BindingOf(k) : k \in 1..MaxResources}]]
          BY <1>1 DEF IInv, TypeOK
        <5>2. bound[a][c] \in {NoBinding} \cup {BindingOf(k) : k \in 1..MaxResources}
          BY <3>3, <5>1
        <5>. QED
          BY <5>2
      <4>4. PICK k \in 1..MaxResources : bound[a][c] = BindingOf(k)
        BY <4>1, <4>2, <4>3
      <4>5. i \in 1..MaxResources
        BY <1>1, ResourceFacts DEF IInv
      <4>6. k = i
        BY <4>1, <4>2, <4>4, <4>5, ResourcesAssumption
      <4>7. bound[a][c] = taken
        BY <4>4, <4>6 DEF taken
      <4>. QED
        BY <1>1, <3>3, <3>5, <4>7 DEF IInv, TypeOK
    <3>. QED
      BY <3>4, <3>5
  <2>2. CASE ~ \E b \in AgentIds, r \in results : Bind(b, r)
    <3>1. UNCHANGED bound
      BY <1>1, <2>2 DEF Next, Agent, Hub, Owner, Ask, Abandon, Serve, Replay, Resolve,
                        Create, RefuseContinuity, Refuse, Reply, Revoke, Miswire, vars
    <3>. QED
      BY <3>1
  <2>. QED
    BY <2>1, <2>2
<1>2. IInv /\ [Next]_vars =>
         [\A a \in AgentIds : pending[a].expected # "" => bound'[a] = bound[a]]_vars
  BY <1>1
<1>. QED
  BY <1>2, Invariance, PTL DEF Spec, PinnedBindingStays
=============================================================================
