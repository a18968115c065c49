# Verification of qurl-conformance

This directory holds TLA+ models of the qURL conformance repository, the TLC
configurations that check them on small instances, and proofs that TLAPS checks
for every value of the constants.

## The system

The repository publishes *vectors*: JSON artifacts that pin byte-exact
expectations for implementations of qURL and of the registered-agent protocol.
Three packages carry the same files (Go module, npm, Python). Around them there is
code of three kinds:

- **loaders** (`*.go` in the root): every artifact has a `Parse...` function that
  decodes it strictly and validates its contract, its goldens and its case tables.
  A loader is a sequential function without state of its own. What is hard is that
  it is *closed*: a document that lost, doubled or changed a case must not pass;
- **contracts**: the tables that the loaders insist on define protocols between
  other programs, with messages that are lost, repeated or late, addresses that
  change, keys that rotate and processes that restart. No test of this repository
  runs these protocols, since nothing here implements an endpoint;
- **tooling**: a generator that signs with a random nonce and rewrites two
  artifacts, a script that mirrors them into the packages, one that compares, and
  CI that decides what reaches the main branch.

### Inventory

| component | state | operations | what is hard | what makes it correct |
| --- | --- | --- | --- | --- |
| Closed case tables: the case loops of nearly all loaders | position, `seen` | length gate, one case, final pass | completeness follows from other tests, differently in four disciplines | accepted = exact cover of the table |
| Hub LST cookie (`connector_hub_lst_cookie.go`) | agent: request, counter, address; Hub: key slots, window, replay memory | LST, COK, proof LST, LRT; rotation, window change | repeats, roaming and rotation in flight | no Authority before a proof, at most one invocation, no amplification, overlap |
| Agent session control (`agent_session.go`) | agent: run attempt, counter, receipt; cell: sessions, cookies | KNK, COK, RKN, ACK, EXT, close ACK, denials | late ACKs, session ids used again, restarts | a receipt answers the knock in progress, only the exact session is retired |
| Share-safe transport (`schema.go`, `tools/gen/internal/genkit`) | cursor, counts, fields | encode, decode | digit-wise bound check, three independent limits | no index out of range, one spelling, round trip |
| Vector pipeline (`tools/gen`, `scripts`, CI, release checklist) | files in three directories, commit, main | generate, sync, compare, test, merge | commands that die, files left out of a commit | main holds one contract in three languages |
| Strict JSON (`schema.go`) | stack of open objects | walk tokens | the key set of each nesting level | exactly the documents without duplicate keys |
| Agent credential recovery (`agent_credential_recovery.go`) | agent: operation, sealed candidate and grant; platform: replay records, anchors, recorded replacements | issue, seal, complete, replay; revoke, withdraw, move | restarts, late answers, grants that expire before the answer is seen, the horizon | no recorded secret is lost, one replacement per episode, none after the horizon |
| Connector resource LST v1 | Hub: resources, replay memory; agent: pending request, persisted binding | ask, execute, replay, refuse, revoke, bind | the nonce is not echoed; revocations and other requests between a request and its replay | one result per replay key, one active resource, bindings are real, classes in order |
| Agent knock application (`schema.go`) | none | classify request, envelope, reply row | two readers of one body; a row states its result apart from its body | the Connector is only stricter, a published success is usable |
| Agent assignment (`schema.go`) | agent: phase, key, ticket, candidate; Hub: tickets; cell: challenges, spent, enrolled key | initial, OTP, REG, completion; retry, restart, change of key | tickets that run out, replies of earlier attempts, codes of earlier mails | one ticket per operation, spent once, earned by its code; the device key is the agent's |
| Assignment ticket (+ `tools/verify-assignment-ticket`) | none | parse claims, digest fences, normalise signatures | three times that bound each other, framing | the window is the published one, a fence is its record |
| CRID, CRID link knock | none | value, version, key, request and reply gates | order of refusals, reserved versions, display data | a link is for the CRID that was asked for |
| Target path, private upload, API key id | none | classify | a path that a library rewrites, what a signature covers, retries | an accepted path is a fixed point, an upload is as signed |
| Relay knock, registration goldens; embedding; npm and Python accessors | none | compare, read | - | - |
| Release workflow | tags, manifest | release, verify tag, publish | concurrency groups | a release commit has its root tag |

The components talk to each other in three ways. The tooling writes what is
embedded, and the loaders read it (`VectorPipeline` reduces the loaders to "parses,
and the bytes belong together"). Loaders compose artifacts: the Hub cookie loader
parses the assignment and ticket artifacts, the CRID link loader reconstructs the
transport link of the qv2 file with the decoder that `TransportCodec` models. All
loaders share the case loop of `ClosedCaseSet`, and all strict decoders the token walk
of `StrictJson`. A body classifier is used twice: alone, on every body a few edits away
from a legitimate one (`BodyGates`), and inside a protocol, where every message goes
through it (`ConnectorResource` uses `ResourceBody`).

## The modules

| module | models | abstract specification | checked by | proved in |
| --- | --- | --- | --- | --- |
| `ClosedCaseSet` | the case loop, four disciplines | `CaseVerdict` | `MCClosedCaseSet` | `VectorProofs` |
| `HubCookie` | Hub return-routability exchange | - | `MCHubCookie` | `HubCookieProofs` |
| `SessionControl` | KNK/COK/RKN/ACK and EXT/ACK | `ExactSession` | `MCSessionControl` | `SessionControlProofs` |
| `CredentialRecovery` | recovery of a device credential | `Replacement` | `MCCredentialRecovery` | `CredentialRecoveryProofs` |
| `ConnectorResource` | resolving or creating a resource over LST | - | `MCConnectorResource` | `ConnectorResourceProofs` |
| `AgentAssignment` | enrollment of an agent, LST to device key | - | `MCAgentAssignment` | `AgentAssignmentProofs` |
| `TransportCodec` | qv2t1 encoder and decoder | - | `MCTransportCodec` | `EncodingProofs` |
| `VectorPipeline` | generator, mirrors, CI, main | - | itself | `VectorProofs` |
| `JsonBody` | lexemes, key sets, lists of checks | - | through its users | through its users |
| `ResourceBody`, `AssignmentBody`, `KnockBody`, `Crid`, `LinkKnock` | body classifiers | predicates on the body | `BodyGates` in `MCContractGates` | `GateProofs`; `ResourceBody` in `ConnectorResourceProofs` too |
| `StrictJson`, `TargetPath` | classifiers of texts; `RawTexts` has what such a text means | predicates on the text | `ContractGates` in `MCContractGates` | `GateProofs`, on lemmas of `VectorProofs` |
| `AssignmentTicket`, `Framing`, `Signature`, `PrivateUpload` | classifiers of records | predicates on the value | `ContractGates` in `MCContractGates` | `GateProofs`, on lemmas of `VectorProofs` |

`ContractGates` extends the gates of bodies and every classifier of values, so that its
variables (`gate`, `about`, `body`, `edits`) and its specification (`GatesSpec`) are those
of all gates. `MCContractGates` gives the lexicons, with `MCBodyGates` for the bodies. Its
proofs need a long stock of lemmas about the operators (lists of checks, framing, loops
over texts), which come first in `VectorProofs`, together with the two parts that treat
the vectors themselves: the case loop of the loaders and the pipeline of the generator.

Definitions whose name has an underscore, such as `Opens_ActiveOnly`, are *slips*:
plausible bugs in the definition before the underscore. They take part in no
specification. Each property is shown to fail when a slip replaces the definition.

### ClosedCaseSet

`next` is the loop index (0 before the length test), `seen` the map of the same
name, `verdict` the returned error. Four disciplines occur. *counted* compares the
length and never looks for missing names (`validateNamedAssignmentCases`,
`validateAgentCredentialRecoveryClosedCases`, `validateAgentSessionFlowCases` and
most others); *required* makes a last pass over the table instead
(`validateAgentKnockRequestCases`); *unique* refuses only duplicates
(`validateConformanceTransportClass`); *bare* does not look at names
(`ParseVectorFile`). `Fits[n]` stands for the per-row test. The order of tests
within one row, and so the error text, is abstracted: every failed test returns.

`CaseVerdict` decides on the whole list in one step. `RefinesVerdict` shows that the
loops implement it, liveness included.

### HubCookie

The endpoints are not in this repository. Their behaviour is read from the contract
that `ParseConnectorHubLSTCookieFile` enforces: the constants and rules of
`validateConnectorHubLSTCookieContract` (slots, windows, size rule, proof limit), the
two flows (counters, bodies, invocations before and after the proof), the key cases
(which slots and windows open a cookie), the size cases (the strict gate), the reject
table (what the Hub drops) and the challenge table (what the client does with a COK).
The network, the operator and the client's timer are external. The HMAC is ideal: a
cookie is the record it was derived from. Every principal is honest; the model is
about delivery and timing. An agent that roams may move between the challenge and its
proof, which then leaves from an address that was never challenged.

Which faults a behaviour may meet is chosen in its first state (`Environments`), so
that one run covers the hostile network for safety and the calm one for liveness.

`minted`, `lsts`, `received` and `challenged` are history: no action reads them.
`newest` numbers the keys.

### SessionControl and ExactSession

One agent and one cell; the correlation rules are those of
`validateAgentSessionFlowBindings` and of the body classifiers. A request or reply
once sent may be delivered at any later time and any number of times (`requests` and
`replies` only grow). The wire counter of a COK is *any* counter: the contract calls
it unconstrained, the model takes it at its word. A receipt is session id, issuance
and run attempt; ids are used again, issuance times are not. `ExactSession` is the
session lease without packets. The refinement maps a receipt to the session it
names, `asked` to the receipts in EXT requests and `retired` to the sessions in
state closing or closed.

The cell is external: the contract pins its replies, not its scheduling. Whatever
it may do under the contract, it may do in the model at any time.

### CredentialRecovery and Replacement

The endpoints are not in this repository; the model is read from the protocol record
and the four tables of `agent_credential_recovery.go`. `memory` of an agent is lost when
it stops, `disk` is not. A grant is the record of what it is bound to. `IssueFirst`,
`IssueReplay` and `IssueRefused` are the Hub, `Commit`, `CommitReplay`, `Conflict` and
`Reject` the assigned cell, on one platform state. An answer "unavailable" or "rate
limited" changes nothing and is not modelled: the agent may repeat at any time. All
terminal Hub errors have the same effect on the agent and are one message. An agent
sends with a fresh counter each time and takes the answer to its last LST only;
answers to a process that died reach nobody, as their counters are old.

Where the tables leave something open, the model does both: a replayed completion
whose bindings have changed since may get the recorded outcome or a refusal, and an
agent whose grant was rejected may keep or forget its candidate. `CandidateNotLost`
therefore speaks only of a replacement whose bindings still hold. The replay record is
keyed by the request nonce, as the table has a row for the same id under another peer.
Two agents may draw the same nonce.

The agent checks the horizon against the expiry of the grant that it sealed, the
platform against the first grant of the episode (`agent_credential_recovery.go:321`), which
the agent cannot know: the answer with that grant may be the one that was lost. An agent
that stopped at the anchor would do less than the one modelled, so that what is proved of
the safety of this one holds of that one.

`Replacement` is the promise without packets: one secret recorded per episode, in
order, and only recorded secrets in use, under their own id.

### ConnectorResource

The protocol is that of `validateConnectorResourceLSTV1Contract` and of the replay
cases: `memo` is what the Hub remembers under a replay key (agent and nonce), `answers`
all it ever said, `results` what is under way, `pending` and `bound` the request an
agent waits for and what it has persisted. A Hub executes a request only if
`ParseRequest` passes its encoding, and an agent persists a result only if
`ParseResult` does; the counter that pairs an LRT with its LST is not used, so that
what is shown rests on the bodies. Everything sent may arrive any number of times.
`Miswire` is a Hub that puts a field of another resource into a result, which the CRID,
routing and knock checks of the loader are there for; `"reuse"` is a nonce drawn twice,
for which the contract has 52506. After a retryable error (52505) the request is
executed again; a terminal error is remembered like a success.

### AgentAssignment

The phases are those of the artifact's exchanges; `kind` is the kind of the
registration key, since only an account has a code mailed. A packet in flight is
delivered once or never; a retry is a new packet with its own counter, which the reply
echoes (`schema.go:1448`). `tickets` is the Hub, `challenges`, `spent` and `registered`
the cell, `installed` the device key; `mailed` and `activations` are history. The OTP
binding table has a row for the peer, the expiry and the remaining lifetime, which can
differ here; its rows for agent, key id, environment and cell are one comparison with
the ticket. The order in which REG is refused is not pinned: any refusal that applies
may be told. An agent does not change its Noise key while an assignment is under way,
since a retry carries the same body from the same peer.

### TransportCodec

`Chunks`, `Transport` and `Encodable` are `EncodeTransportFragment`. The state
machine is `decodeConformanceTransport`: one step per header test, count digit,
chunk and field, so that every index the Go code uses is visible in a state
(`part`, `taken`, `counts`). Bytes are numbers; strings split at dots are sequences
of parts. The slice `parts[part : part+count]` of the code is the range that
`NoSliceOutOfRange` speaks of.

### The gates: BodyGates and ContractGates

A classifier is a pure function, and what can be wrong with one is the *combination*
of defects a body has. So each stands behind a sender that starts from a legitimate
body and damages it, one edit per step: a key dropped, a key added or given another
lexeme, in any of the objects a body has on its four levels, or the bytes around the
object damaged (a duplicate key, a trailing value, too large, no UTF-8). `about` is what
the classifier knows beside the body. `Class` is the class it reports.

`JsonBody` keeps of a body its lexemes, so that null, a number, a string and an absent
key are different, and a classifier is the list of its checks in the order of the code,
of which the first that fails decides (`FirstOf`). `ResourceBody` is
`parseConnectorResourceLSTV1Request` and `...Result`, `AssignmentBody` the request,
result and error classifiers with the raw and the typed decode, `KnockBody` the two
readers of a knock, the session envelope and the reply rows, `LinkKnock` the request
gate, `interpretACK` with `linkRejectClass`, the cut of the user agent and the display
sanitiser, over `Crid`.

The result of a knock (`acTokens`, `resHost`, `preActions`) is read by
`json.Unmarshal` into a Go struct, which takes a key in any case for its member and merges
the maps it finds in the order of the body. `Spellings` lists, for each member, the keys
that are taken for it, in the order in which the body has them; `Standing` is what is left
of an entry: the last one, unless a null came after it and emptied the map. A body is a
function of its keys and so has no order of its own: the order is a constant, of which the
theorems take any, and TLC one in which a second spelling comes after the exact one twice
and before it once. The envelope, on the other hand, is read by exact key, because the code
takes `sessId`, `errCode` and `opnTime` from the token reader and from a map.

`ContractGates` adds the gates of values: `StrictJson` walks a token list that grows a
token at a time; `TargetPath` is `deriveTargetPathExpectation` on a text that grows a
character or an escape at a time; the others change the fields of a record or the parts
of a fence. `AssignmentTicket` has the claims parser and the typed fence parts,
`Signature` the range, malleability and normalisation rules in a group of odd order,
`Framing` the length-prefixed preimage, `PrivateUpload` the canonical and the stable
bytes of both operations and the reject precedence. An upload has the fourteen signed fields
of `PrivateUploadV1UploadCanonicalBytes`, a refresh the ten of its own; the stable digests
take eight and six, with the request id, which is the idempotency key, among them. Four of
the six of a refresh (handle, batch, lifetime and expiry) are not in its headers but
in its body, of which `Content` says what it holds. `UploadIsAsSigned` quantifies over all
that an operation carries, not over a list of its own; `RetryIsTheSameUpload` leaves out
what an attempt may choose anew, `PerAttempt`: method, path, host, time, nonce and key.

The properties of the gates do not repeat the checks. They say what the classifier is
for: what is accepted is the encoding of something (`RequestsAreEncodings`,
`ResultsAreEncodings`, `AssignmentsAreEncodings`), structure is judged before values,
two readers agree, a link is for the CRID of the request, the class reported is the
first in the published order of *all* the defects a value has (computed one by one),
two records have two digests. Each law is stated for its gates and checked as part of
one of nine: `OneWireForm` (requests, results and assignments are encodings),
`FirstDefectIsReported` (bodies, links, uploads), `LinkIsEarned`, `ReadersAgree`
(decoders, knock parsers, CRID gates), `AcceptedIsUsable` (delays, sessions, windows,
fences), `TargetIsExact`, `SignedOnce`, `DigestIsTheRecord`, `LongestBeginningIsSent`.

### VectorPipeline

A file is the generation of its accept bytes and whether its copies of the fragment
agree (`anchored`). `WriteFile` truncates before it writes, so that a run that dies
leaves `Torn`. Actions follow the system calls of `run()` in `tools/gen/main.go` and of
`scripts/sync-vectors.sh`. `TestsPass` is what the Go tests say of the files,
`InSync` the three complaints of `scripts/check-sync.sh`, in the order of
`ci.yml`: tests, then comparison. People regenerate, re-point the link file, give up
or take up a file, damage a fixture, restore the tree, and push, with one directory
forgotten or none. That only green commits are merged is an assumption about branch
protection, which the repository does not contain.

## What the runs check

| run | instance | states | properties |
| --- | --- | --- | --- |
| `closed_case_set` | all lists of up to 3 of 3 names x 2 rows, a table of 2, all disciplines | 3,663 | `AcceptedIsExactCover`, `RefinesVerdict` |
| `open_case_set` | as above, open disciplines | | `NoCaseDropsOut` is violated (finding) |
| `hub_cookie` | 1 agent, 2 requests, 2 addresses, 3 windows, 2 keys, 1 repeat; loss, repeats, roaming and timeouts, or repeats and removed keys, or no fault | 1,672,120 | `AuthorityOnce`, `NoAmplification`, `AuthorityAfterRoundTrip`, `HandshakeCompletes` |
| `transport_codec` | chunks of 2, 3/2/1 chunks, fields of 5/3/2, all short fragments, foreign bodies | 117,805 | `NoSliceOutOfRange`, `CodecIsExact` |
| `session_control` | 4 requests, 2 attempts, 2 sessions on one id, 1 cookie; all faults, or retries only | 767,518 | `TypeOK`, `ReceiptAnswersKnock`, `ReknockUsesItsChallenge`, `RefinesLease`, `SessionIsRetired` |
| `recovery` | 1 agent, 2 operations, 4 LSTs, 2 episodes, 2 assignments, lifetime 2, horizon 1, instants 0..3, all faults | 912,874 | `TypeOK`, `CandidateNotLost`, `HorizonHolds`, `RefinesReplacement` |
| `recovery_calm` | 2 agents, 2 nonces, 3 LSTs each, no fault | 44,502 | `OneGrantPerNonce`, `SealedIsInstalled` |
| `connector_resource` | 1 agent, 2 connectors, 2 resources, 3 nonces (symmetric), 4 requests, 1 refusal, a nonce drawn twice, a miswired result | 462,353 | `ReplayIsIdentical`, `CreationToldOnce`, `OneActiveResource`, `BindingIsReal`, `PinnedBindingStays` |
| `assignment` | 2 operations, 2 Noise keys, lifetime 3, minimum 2, instants 0..3, 7 packets (6 under faults), four sets of faults | 640,747 | `RegisteredOnce`, `OneTicketPerOperation`, `AgentInStep`, `DeviceKeyIsOurs`, `EnrollmentCompletes` |
| `contract_gates` | every gate, 2 or 3 edits of a body or record, texts of up to 8 tokens | 1,604,883 | `OneWireForm`, `FirstDefectIsReported`, `LinkIsEarned`, `ReadersAgree`, `AcceptedIsUsable`, `TargetIsExact`, `SignedOnce`, `DigestIsTheRecord`, `LongestBeginningIsSent` |
| `vector_pipeline` | 2 regenerations | 154,170 | `MainIsOneContract`, `ExitMeansDone` |
| `vector_pipeline_claim` | 1 regeneration | | `VerifiesBeforeWriting` is violated (finding) |

The types of every component that has variables of its own, the gates apart, are a
theorem; the runs of `SessionControl` and `CredentialRecovery` check them too. `AtMostOneProof` is a theorem too.

What the protocol runs show. *connector_resource*: however requests are repeated,
reordered and interleaved with revocations, one replay key has one result, a creation is
told under the key that made it and under no other, and what an agent persists is
a resource made for it although the nonce is not echoed. *assignment*: no interleaving of
retries, restarts, a changed key and codes of earlier mails registers a key without its
ticket and code; a ticket that runs out while its code is read is replaced, and the
enrollment that meets no fault always completes. *contract_gates*: each classifier
reports the class it is meant to for every body and value in reach of its edits.

Why the bounds are enough:

- *Case loops.* Two required names and a stranger; three cases are one more than
  the table, so that missing, doubled, surplus and drifted cases all occur, and
  combine.
- *Hub.* Three windows are one more than the two that are accepted, so that cookies
  expire; two keys are the current and the previous slot. 342 and 343 bytes are the two
  sides of the size gate. Two requests let answers to the first arrive during the
  second. That nothing more happens with more requests, keys or repeats is proved
  (`OneInvocation`, `OneProof`, `Unamplified`). Agents share no state at the Hub other
  than the keys, so one agent stands for many.
- *Recovery.* A grant of the second operation may expire after the horizon of the
  first (issued at 2, expiry 4, deadline 3), and a replay may come after the expiry and
  before the deadline (at 2). Two nonces and four LSTs hold two whole operations.
  Every datagram ever sent may arrive again. Nonces are symmetric: an agent draws any
  one it has not used.
- *Connector resources.* Two resources of two connectors are what a cross-wired result
  needs. Four requests hold a creation, its replay, a second connector and a pinned
  request after a revocation, or two races for one connector. Three nonces with one
  drawn twice give a changed replay. The theorems hold for any number of each.
- *Assignment.* Three units of lifetime and two that must remain stand for 900 s and
  630 s: a ticket can be just in time (at 1), too late for a code (at 2) and expired (at
  3). Two operations are the one in progress and the one that replaces it; six packets
  hold a whole enrollment and one retry, seven the replacement of a ticket that ran out.
  The sets of faults pair those that interact: a retry and a change of key, a restart
  and a code of an earlier mail, a change of key and an old code.
- *Gates.* Two edits make every pair of defects, which is what an order of checks is
  about; gates with short lexicons have three. The lexicon of a key has a lexeme
  for every class a check tells apart: another type, null, out of the set, a
  value that fits another field. Texts of seven characters hold a query, an escape and
  two segments; token lists of eight an object in an object with a repeated key. Of
  requests for an upload there is one that differs in each field, one for each pair of
  fields between which a byte moves, and for a refresh one body for each of its fields.
  A group of order 7 has three twins. All nine laws are proved for every lexicon, any number of
  edits, texts of any length and groups of any odd order (`GateProofs`).
- *Sessions.* Two sessions on a single id make every new session use the id of an
  old one. Four requests hold KNK, RKN, EXT and a second knock or a second EXT.
- *Transport.* The scaled contract has the proportions of the real one (the claims
  bound lies inside the last chunk). For the published constants the range of every
  slice (`SlicesInside`) and the exact round trip (`CodecExact`) are proved.
- *Pipeline.* Two generations are an old and a new one over a published one.

### Fairness

A loader is one sequential function: weak fairness of its step. In
`hub_cookie`, weak fairness of the Hub's step and of each agent's step: both
serve what reaches them; a new request, a rotation or a loss is never obliged to
happen, and `HandshakeCompletes` speaks of behaviours that meet no fault. In
`session_control`, weak fairness of each send and each acceptance and of the cell's
granting and retiring: a cell that could always answer does not answer one kind of
request only; `SessionIsRetired` allows retries but no other fault. In `recovery_calm`,
weak fairness of the Hub, of the cell and of the steps by which an operation in progress
goes on; beginning, repeating and resuming are never obliged to happen. In `assignment`,
weak fairness of the agent's own steps, of the operator who enters a mailed code and of
the servers, which take any packet in flight; retries, restarts, changes of key and time
are never obliged to happen, and `EnrollmentCompletes` speaks of enrollments without
faults. The other specifications are safety only and state no fairness.

`CHECK_DEADLOCK FALSE` is in every configuration, because all of these systems may
stop: a loader returns, an exchange ends, the bounded counters run out.

### Findings

1. `NoCaseDropsOut`: `README.md` says that the loaders' strictness keeps the contract
   from silently dropping out of a test suite. `ParseVectorFile` and
   `validateConformanceTransportClass` accept documents from which cases are missing.
   The closed loaders do not. (For the files in this repository the tests pin the
   names; a consumer that calls the loader has no such test.)
2. `VerifiesBeforeWriting`: the package comment of `tools/gen/main.go` says that it
   verifies every vector before writing. The fragment and transport vectors are
   built and checked after the signature file has been written; a refusal leaves a
   fresh signature file beside the old qv2 file. `MainIsOneContract` shows that CI
   stops such a pair.

## What is proved

All of the following hold for every value of the constants, under the named
assumptions of the modules (bounds are natural numbers, sets have the declared
types). TLC evaluates these assumptions in the runs.

- **`VectorProofs`**, the case loop: `TypeCorrect`, `ExactCover`, `Refinement`. The invariant
  says that `seen` is the set of names before `next`, that those names are distinct
  and required, and so that `Cardinality(seen) = next - 1`. For *counted* the length
  then forces `seen = Required` by cardinality; for *required* the last pass gives
  the inclusion and distinctness the length. `Refinement` is `Init` and the step
  simulation of `CaseVerdict`; its fairness is only model-checked.
- **`HubCookieProofs`**: `TypeCorrect`, `OneInvocation`, `OneProof`, `Unamplified`,
  `RoundTripFirst`: every property of its run but the liveness.
  None of the properties is inductive. The invariant ties counters to requests: a
  proof in flight carries a counter its agent has used, two proofs of one request
  have one counter, and a request is invoked only if the counter of its proof is in
  `replayed`. The LSTs of a request are counted by its phase. For `RoundTripFirst` it says
  that every cookie in a challenge, with an agent or in a proof was minted for that agent;
  that it opens then gives the address and the window.
- **`ConnectorResourceProofs`**: `TypeCorrect`, `ExactReplay`, `CreationRule`,
  `OneActive`, `RealBinding`, `Continued`: all that the run checks. None is
  inductive alone. The invariant says that a success is remembered, under its key alone,
  and so is the creation of every resource; that every success is about a resource of
  its request (`SuccessesEarned`); that every result under way is a success or a
  cross-wired form of one; and that a pin is what the agent holds. `SuccessTaken` then
  derives from the checks of `ParseResult` itself that no other success and no
  cross-wired form is persisted. For that `FirstOf` must be seen to pass only when every
  check does, which needs the least failing position of a list (`FirstExists`).
  `ResourcesAssumption` says that the CRIDs of different resources differ.
- **`AgentAssignmentProofs`**: `TypeCorrect`, `Earned`, `OneTicket`, `InStep`,
  `OwnDeviceKey`: every property of its run but the liveness. The invariant says that an operation has one key
  (packets and tickets), that the counter the agent waits for names the request of
  its operation, that a challenge was mailed in time, and that a completion under way
  carries the one candidate. `OneTicket` counts: tickets have operations of their own,
  all begun by the agent, so there are no more tickets than operations (by cardinality).
- **`SessionControlProofs`**: `TypeCorrect`, `OwnReceipt`, `OwnChallenge`,
  `LeaseImplemented`: every property of its run but the liveness. The invariant says that
  what the cell said stays true of its sessions and cookies, whatever it forgets since and
  however late it is heard (`Traced`), and that the request the agent waits for is the
  last it sent (`InProgress`), so that an ACK that echoes the counter answers that one.
  Each action is then a step of the lease, or one it does not see (`StepLeases`);
  `ExactSession` has no fairness, so the refinement is proved whole.
- **`CredentialRecoveryProofs`**: `TypeCorrect`, `NothingLost`, `WithinHorizon`,
  `GrantPerNonce`, `ReplacementHolds`: every property of both runs but the liveness.
  The platform side of the invariant says that its records only grow (`Forward`), that
  an anchor, once set, is never later than the expiry of a recorded grant, and that a
  commit was before the anchored horizon (`Issues`, `Anchors`, `Commits`). The agent side
  says that every grant held, sealed or under way is on record, that a candidate is
  proposed with one grant only, and, at the heart of it, that of all pairs an agent ever
  proposed *only the one on its disk can still be committed* (`OnlyPendingCommits`). A
  pair leaves the disk when it is recorded, or when it is spent: its bindings have changed
  or its grant ran out unrecorded, and both last (`SpentKept`). So the secret of a standing
  replacement is on the disk or in use, and replacements are recorded in the order of the
  candidates, which is the refinement. `Replacement` has no fairness: it is proved whole.
  `NoneAssumption` only says that the absence of a record is not itself a record.
- **`EncodingProofs`**: `TypeCorrect`, `SlicesInside`, `CodecExact`, all of
  `MCTransportCodec`. The digit loop keeps `value <= max` because of the two-part
  comparison (`DigitWithinMax`); the cursor is four plus the counts of the finished fields
  plus `taken`, and the part count was compared with the sum of all three. `SpellInv` says
  what the decoder has made true of the parts: a token read is the decimal of its count,
  and a field in the making consists of the chunks read, of which the last alone may be
  short. A field is determined by its chunks (`SameChunks`) and its length by their number
  (`CountIs`), so an accepted body is the transport of what is returned. The other way,
  `Coming` says that a transport is not turned down: each test of the decoder passes on
  what the encoder wrote. That the whole body is short enough needs the recursive
  `BodyLength`; its solution is shown to exist and to be the sum of the fields by climbing
  from part to part (`Climb`, which rests on the least element of a set of numbers).
  `LimitsAssumption` says that the limits of the contract agree, as the published ones do:
  26, 3 and 1 chunks of 240 hold 6144, 512 and 128 bytes, counts have at most two digits,
  and 6826 is the sum. `EncodedAssumption` says that an input with an origin is what the
  encoder made of a canonical fragment: the inputs without one are any lists at all.
- **`VectorProofs`**, the pipeline: `PipelineTypeCorrect`, `GreenIsOneContract`,
  `OneContractOnMain`, `DoneWhenItSaysSo`: all that its run checks.
  `Ongoing` says that whatever runs still has work to do, so that the next copy is a
  copy of a file. The invariant about main needs only the type of the working tree, and that CI remembers truthfully what
  the commit passed: commands and people may leave any tree at all. `DoneWhenItSaysSo`
  needs what is true half way (`Halfway`): a mirror differs from its source only in files
  whose copy is still to come.

- **`VectorProofs`**, laws of the classifiers. `NormalisedIsAccepted` and
  `OneTwinAccepted`, for a group of any odd order: exactly one of two twins is low.
  `RepeatedKeyIsFound`, for a token list of any length and depth: the walk of
  `StrictJson` answers "duplicate" exactly when one object has two keys of one name. The
  invariant of the loop (`Follows`) is that the frames on the stack are the objects and
  arrays that are open, each with the names of the keys read of it, and that in the
  innermost object a key comes next exactly when an even number of members was read.
- **`GateProofs`**: all nine properties of `contract_gates`, as theorems of `GatesSpec`:
  `OneForm`, `FirstReported`, `LinkEarned`, `OneReading`, `Usable`, `Exact`, `Once`,
  `Record`, `Longest`. The laws are about a single state, so what has to be inductive is
  what the edits keep of a body or value:
  - `Jsons`: however it was edited, a body is made of lexemes on the levels a gate looks
    at. Without it a "string" could carry fields that no decoder returns, and two
    different bodies could be the same encoding.
  - `FlawKnown`, `PhaseAsked`, `ResultAsked`, `LinkAsked`, `Introduced`: damage is one of
    the kinds that can reach the gate, and the peer, phase or CRID that the gate knows is
    one that a legitimate body was about. For links that includes that `RequestGate` let
    the CRID through, which `LinkEarned` needs for the version of the link.
  - `Signer`, `Request`, `Fence`: a signature keeps what its signer computed; fields stay
    sequences of bytes, and the parts of a fence those of its kind.
  - `JsonText`: a text is a list of tokens. `KeysAreDistinct` is inductive with it, by
    `RepeatedKeyIsFound`: a text grows only while it has no repeated key.

  Each law then follows from what the checks say. A classifier is `FirstOf` a list, and
  the lemmas `First1` to `First12` and `Passes2` to `Passes12` turn "the first that
  fails" into facts about the checks. `OneForm` composes them into equality with the encoding,
  level by level (`ExactObjectPass`). `FirstReported` needs that a class of a value is
  reported only past every check of structure (`StructureFirst`), and that a seed with
  the same keys exists (`SeedsAssumption`). `Exact` follows the three recursions of
  `Normalised` on a path that has no escape, no dot segment and no empty one
  (`Decoded`, `Segments` and `Resolved` leave it alone). `Record` rests on the
  injectivity of `Framed` sequences of any length, on the place that each part has in a
  fence, and on the one order in which scopes are listed; for uploads on the fact that
  what is not in the stable fields is in `PerAttempt` or follows from the body.
  `Usable` needs that an entry that stands is one that some spelling has (`StandingIsGiven`).
  `Longest` is about the loop
  that goes back from the limit to the start of a code point.

Assumptions of the gates. They name what the code's fixtures are and bound nothing:
`LexemesAssumption` (bodies and lexicons are JSON on the levels that matter),
`SpellingsAssumption` (each member of a knock result is spelled in some ways, its own name
among them),
`IdentifiersAssumption` (no identifier is empty, a key derives to a CRID, questions are
asked about known peers), `SeedsAssumption` (the seeds are encodings, with an optional key
and without), `LongTextsAssumption`, `SessionIdsAssumption`, `TicketAssumption` (numbers of
a ticket are whole), `SignatureAssumption` (no edit changes what the signer did),
`UploadAssumption` and `FenceAssumption` (fields are bytes, domains have no zero byte, a
digest stands for one body, a request says of its body what is so, and a refresh body has
one spelling), `TextAssumption`, `HexAssumption` and `OrderAssumption`. TLC
evaluates each of them in `contract_gates`.

Only model-checked: liveness and fairness (`HandshakeCompletes`, `SessionIsRetired`,
`SealedIsInstalled`, `EnrollmentCompletes`, and that every loop of `RefinesVerdict`
reaches a verdict), which need `ENABLED`. Every safety property of the passing runs, as
invariant, action property or refinement, is a theorem.

## What is not modelled

- Cryptography: HMAC, ECDSA, X25519, AEAD and SHA-256 are ideal or absent. The
  known-answer tests of the loaders recompute bytes; there is no behaviour to explore.
- Characters, except where a gate is about them (transport lengths and digits, target
  paths, user agents). Base32 and the checksum polynomial of a CRID, the
  grammar of file names and media types, base64url and Go's typed decode of artifacts
  into structs are abstracted to the classes their failures have. The one exception is
  the result of a knock, where the decoder's reading is part of what is decided. Bytes that
  are no UTF-8 are refused where the code looks for them; the claims parser does not
  (`encoding/json` replaces them), and `AssignmentTicket` takes them too.
- Field-by-field comparisons of an artifact with constants: goldens of packets and
  registrations, environment fixtures, member lists, packet size tables, key vectors.
- The composition of `AgentAssignment` with `HubCookie`, whose LST carries its
  requests: the two share no state but the packet counter, and the product is beyond
  TLC. Refresh of an assignment changes nothing on the servers; its bodies are classified
  in `AssignmentBody`.
- `tools/verify-assignment-fences.cjs` is a second implementation of the fence digests
  that `AssignmentTicket` models.
- The accessors of `embed.go` and of the npm and Python packages: one read each. The npm
  and Python smoke tests of CI, and its other gates: they add refusals to those modelled.
- The release workflow: what a concurrency group cancels is decided by GitHub Actions.
- The components marked `not_modelled` in `PROJECT.json`, for the reasons given there.

Three divergences between text and code were met that no run is about. The comment of
`ParseAgentKnockApplicationFile` (`schema.go:2830`) says that a success is checked against
the body's raw maps and that any non-null `preActions` value is rejected, while
`validateAgentKnockExpectedResult` (`schema.go:3373`) decodes into a struct and nothing before
it asks for exact keys: with `ACTokens` after `acTokens` a row is published whose token is
not that of `acTokens`. The README of the artifact (line 83) asks consumers for an exact-key
gate for this very reason. What does hold is `AcceptedIsUsable`: the token and the host are
those that some spelling gives the resource, and every action is withdrawn by another
spelling; of a body that spells each member once nothing is in doubt. The comment at
`schema.go:2968` says of the closed reply table that duplicates and missing names are
refused, while `ParseAgentKnockApplicationFile` also refuses unknown names. The note in
`vectors/agent_assignment_golden.json` counts a mismatch of a typed field as `wrong_type`,
while a failed decode into the Go struct is `body_parse`.

## Plan

1. `AgentAssignment` with the refresh exchange and the lease of an assignment.
2. The replay and cookie exchanges of `ConnectorResource` and `HubCookie` as one
   composition with a shared packet counter, by proof rather than by TLC.
