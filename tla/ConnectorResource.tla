------------------------- MODULE ConnectorResource -------------------------
(***************************************************************************)
(* Resolving or creating a Connector resource over LST/LRT, as the         *)
(* contract and the replay cases of connector_resource_lst_v1.go pin it: a *)
(* request is known by its replay key, the agent and the request nonce; an *)
(* exact replay gets the result of the first, other semantics under the    *)
(* key get 52506 and nothing happens; a fresh nonce resolves anew; a       *)
(* request that pins a CRID resolves that very resource or fails, and      *)
(* never creates.  The agent judges every result with ParseResult.         *)
(*                                                                         *)
(* The network delivers what was ever sent, any number of times and in any *)
(* order.  The packet counter that pairs an LRT with its LST belongs to    *)
(* the transport and is not used: what is shown rests on the bodies alone. *)
(***************************************************************************)
EXTENDS ResourceBody, FiniteSets

CONSTANTS KeyOf, RoutingOf, KnockOf,   \* of the resources, by number
          MaxRequests,  \* bound on the requests ever made
          MaxRefusals,  \* bound on the requests the Hub is not able to serve
          Faults    \* "reuse": a nonce drawn twice; "miswire": a Hub that
                    \* puts a field of another resource into a result

ASSUME FaultsAssumption == Faults \subseteq {"reuse", "miswire"}

MaxResources == Len(KeyOf)    \* bound on the resources ever created

\* A resource has a key of its own, and keys do not collide in their CRIDs.
ASSUME ResourcesAssumption ==
    /\ KeyOf \in Seq(ResourceKeys)
    /\ CridOf \in [ResourceKeys -> CRIDs]
    /\ \A i, j \in 1..MaxResources : CridOf[KeyOf[i]] = CridOf[KeyOf[j]] => i = j

VARIABLES
    pending,    \* the agents' requests, NoRequest when there is none
    bound,      \* the binding an agent holds for a connector
    requests,   \* every request ever sent
    results,    \* every result ever sent: its agent and what it says
    resources,  \* the Hub's resources: the request that created each, active
    memo,       \* what the Hub remembers of the requests it executed
    answers     \* history: every result the Hub gave, with its request

vars == <<pending, bound, requests, results, resources, memo, answers>>

Request == [agent : AgentIds, connector : ConnectorIds, nonce : Nonces,
            expected : CRIDs \cup {""}]
NoBinding == [key |-> "", routing |-> "", knock |-> "", crid |-> ""]

\* The identity a resource has for as long as it exists.
BindingOf(i) == [key |-> KeyOf[i], routing |-> RoutingOf[i], knock |-> KnockOf[i],
                 crid |-> CridOf[KeyOf[i]]]

Success(m, i, found) ==
    [code |-> "0", agent |-> m.agent, connector |-> m.connector,
     key |-> KeyOf[i], routing |-> RoutingOf[i], knock |-> KnockOf[i],
     crid |-> CridOf[KeyOf[i]], found |-> found]
Error(code) == [code |-> code]

TypeOK ==
    /\ pending \in [AgentIds -> Request \cup {NoRequest}]
    /\ \A a \in AgentIds : pending[a] # NoRequest => pending[a].agent = a
    /\ bound \in [AgentIds -> [ConnectorIds ->
                    {NoBinding} \cup {BindingOf(i) : i \in 1..MaxResources}]]
    /\ requests \subseteq Request
    /\ \A r \in results : r.to \in AgentIds
    /\ resources \in Seq([request : Request, active : BOOLEAN])
    /\ Len(resources) <= MaxResources
    /\ \A x \in memo \cup answers : x.request \in requests

Init ==
    /\ pending = [a \in AgentIds |-> NoRequest]
    /\ bound = [a \in AgentIds |-> [c \in ConnectorIds |-> NoBinding]]
    /\ requests = {} /\ results = {}
    /\ resources = <<>> /\ memo = {} /\ answers = {}

----------------------------------------------------------------------------
\* The agent.

Drawn(a) == {m.nonce : m \in {r \in requests : r.agent = a}}

\* A request has a nonce of its own; it may pin the CRID of the binding the
\* agent persisted.
Ask(a, c) ==
    /\ pending[a] = NoRequest /\ Cardinality(requests) < MaxRequests
    /\ \E n \in Nonces, e \in {"", bound[a][c].crid} :
          LET m == [agent |-> a, connector |-> c, nonce |-> n, expected |-> e]
          IN  /\ n \in Drawn(a) => "reuse" \in Faults /\ m \notin requests
              /\ pending' = [pending EXCEPT ![a] = m]
              /\ requests' = requests \cup {m}
    /\ UNCHANGED <<bound, results, resources, memo, answers>>

Wire(r) == IF r.code = "0" THEN EncodeSuccess(r)
           ELSE EncodeError(r.code, IF r.code = "52505" THEN "1" ELSE "")

Accepted(a, r) == /\ r.to = a /\ pending[a] # NoRequest
                  /\ ParseResult(Wire(r.says), pending[a]) = Pass

Bind(a, r) ==
    /\ Accepted(a, r) /\ r.says.code = "0"
    /\ bound' = [bound EXCEPT ![a][pending[a].connector] =
                   [key |-> r.says.key, routing |-> r.says.routing,
                    knock |-> r.says.knock, crid |-> r.says.crid]]
    /\ pending' = [pending EXCEPT ![a] = NoRequest]
    /\ UNCHANGED <<requests, results, resources, memo, answers>>

\* A terminal error ends the request; after a retryable one it stays pending
\* and is sent again.
Abandon(a, r) ==
    /\ Accepted(a, r) /\ r.says.code \in ErrorCodes \ Retryable
    /\ pending' = [pending EXCEPT ![a] = NoRequest]
    /\ UNCHANGED <<bound, requests, results, resources, memo, answers>>

----------------------------------------------------------------------------
\* The Hub.

SameKey(m, x) == x.request.agent = m.agent /\ x.request.nonce = m.nonce

\* (a slip: a request is known by its whole semantics, not by its key)
Remembered_Exact(m) == {x \in memo : x.request = m}

Remembered(m) == {x \in memo : SameKey(m, x)}

\* (a slip: a resource found is not remembered, only one created)
Reply_CreatedOnly(m, says, kept) ==
    /\ results' = results \cup {[to |-> m.agent, says |-> says]}
    /\ answers' = answers \cup {[request |-> m, says |-> says]}
    /\ memo' = IF kept /\ (says.code = "0" => ~says.found)
               THEN memo \cup {[request |-> m, says |-> says]} ELSE memo
    /\ UNCHANGED <<pending, bound, requests>>

Reply(m, says, kept) ==
    /\ results' = results \cup {[to |-> m.agent, says |-> says]}
    /\ answers' = answers \cup {[request |-> m, says |-> says]}
    /\ memo' = IF kept THEN memo \cup {[request |-> m, says |-> says]} ELSE memo
    /\ UNCHANGED <<pending, bound, requests>>

\* A request under a key the Hub has executed.
Replay(m) ==
    /\ \E x \in Remembered(m) :
          Reply(m, IF x.request = m THEN x.says ELSE Error("52506"), FALSE)
    /\ UNCHANGED resources

Active(m) == {i \in 1..Len(resources) :
                /\ resources[i].active
                /\ resources[i].request.agent = m.agent
                /\ resources[i].request.connector = m.connector}

Matches(m, i) == m.expected # "" => m.expected = CridOf[KeyOf[i]]

Resolve(m) ==
    /\ Remembered(m) = {}
    /\ \E i \in Active(m) : Matches(m, i) /\ Reply(m, Success(m, i, TRUE), TRUE)
    /\ UNCHANGED resources

\* (a slip: a fresh nonce creates without looking for what there is)
MayCreate_Anew(m) == m.expected = ""

MayCreate(m) == m.expected = "" /\ Active(m) = {}

Create(m) ==
    /\ Remembered(m) = {} /\ MayCreate(m)
    /\ Len(resources) < MaxResources
    /\ resources' = Append(resources, [request |-> m, active |-> TRUE])
    /\ Reply(m, Success(m, Len(resources) + 1, FALSE), TRUE)

\* The continuity assertion fails: absent, revoked or another resource.
RefuseContinuity(m) ==
    /\ Remembered(m) = {} /\ m.expected # ""
    /\ \A i \in Active(m) : ~Matches(m, i)
    /\ Reply(m, Error("52503"), TRUE)
    /\ UNCHANGED resources

\* Rate limited (with its delay), or over quota.  Sent again after a
\* retryable error, a request is executed; a terminal one is its result.
Refuse(m) ==
    /\ Remembered(m) = {}
    /\ Cardinality({x \in answers : x.says.code \in {"52504", "52505"}}) < MaxRefusals
    /\ Reply(m, Error("52505"), FALSE) \/ Reply(m, Error("52504"), TRUE)
    /\ UNCHANGED resources

Serve(m) ==
    /\ ParseRequest(EncodeRequest(m), m.agent) = Pass
    /\ Replay(m) \/ Resolve(m) \/ Create(m) \/ RefuseContinuity(m) \/ Refuse(m)

\* The owner revokes a resource; its results and its memo stay.
Revoke(i) ==
    /\ resources[i].active
    /\ resources' = [resources EXCEPT ![i].active = FALSE]
    /\ UNCHANGED <<pending, bound, requests, results, memo, answers>>

\* A result leaves the Hub cross-wired: an identity in the place of the knock
\* id, or the CRID of another resource.
Miswired(r) == {[r EXCEPT !.knock = k] : k \in {r.key, r.routing}}
               \cup {[r EXCEPT !.crid = c] : c \in CRIDs \ {r.crid}}

\* Bound: one such result.
Miswire ==
    /\ "miswire" \in Faults
    /\ \A x \in results : \E y \in answers : x.says = y.says
    /\ \E x \in results : /\ x.says.code = "0"
                          /\ \E says \in Miswired(x.says) :
                                results' = results \cup {[to |-> x.to, says |-> says]}
    /\ UNCHANGED <<pending, bound, requests, resources, memo, answers>>

----------------------------------------------------------------------------
Agent(a) == \/ \E c \in ConnectorIds : Ask(a, c)
            \/ \E r \in results : Bind(a, r) \/ Abandon(a, r)

Hub == (\E m \in requests : Serve(m)) \/ Miswire

Owner == \E i \in 1..Len(resources) : Revoke(i)

Next == (\E a \in AgentIds : Agent(a)) \/ Hub \/ Owner

Spec == Init /\ [][Next]_vars

----------------------------------------------------------------------------
Successes == {x \in answers : x.says.code = "0"}

(***************************************************************************)
(* exact_replay_rule and changed_replay_rule: however often, late and      *)
(* under whatever revocations a request is executed again, the successes   *)
(* given under one replay key are one result for one request.              *)
(***************************************************************************)
ReplayIsIdentical ==
    \A x, y \in Successes :
        SameKey(x.request, y) => x.request = y.request /\ x.says = y.says

(***************************************************************************)
(* found_existing_rule: "created" is said of a resource under the one key  *)
(* that created it, and under that key it is never said to have existed.   *)
(***************************************************************************)
CreationToldOnce ==
    \A x \in Successes, i \in 1..Len(resources) :
        x.says.key = KeyOf[i] =>
            (~x.says.found <=> SameKey(x.request, resources[i]))

(***************************************************************************)
(* A connector of an agent has at most one active resource, whatever nonces *)
(* and replays race, and none was created for a request that pinned a CRID. *)
(***************************************************************************)
OneActiveResource ==
    \A i, j \in 1..Len(resources) :
        /\ resources[i].request.expected = ""
        /\ resources[i].active /\ resources[j].active /\ i # j =>
              \/ resources[i].request.agent # resources[j].request.agent
              \/ resources[i].request.connector # resources[j].request.connector

(***************************************************************************)
(* What an agent persists for a connector is the identity of one resource  *)
(* the Hub created for that agent and that connector: late results, those  *)
(* of other requests and miswired ones are refused.                        *)
(***************************************************************************)
BindingIsReal ==
    \A a \in AgentIds, c \in ConnectorIds :
        bound[a][c] # NoBinding =>
            \E i \in 1..Len(resources) :
                /\ bound[a][c] = BindingOf(i)
                /\ resources[i].request.agent = a
                /\ resources[i].request.connector = c

(***************************************************************************)
(* expected_crid is a continuity assertion: no result for a request that   *)
(* pinned the binding of the agent replaces that binding.                  *)
(***************************************************************************)
PinnedBindingStays ==
    [][\A a \in AgentIds :
         pending[a].expected # "" => bound'[a] = bound[a]]_vars
=============================================================================
