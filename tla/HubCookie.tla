----------------------------- MODULE HubCookie -----------------------------
(***************************************************************************)
(* The return-routability exchange in front of the public Hub: an agent    *)
(* sends an LST, the Hub answers with a stateless cookie challenge (COK),  *)
(* the agent repeats the same body in one proof LST, and only then does    *)
(* the Hub invoke Connector Authority and answer with an LRT.  The client  *)
(* and Hub follow the contract, the flows and the case tables pinned by    *)
(* connector_hub_lst_cookie.go; the network loses, repeats, delays and     *)
(* reorders datagrams, agents change address, windows pass and signing     *)
(* keys rotate while packets are in flight.                                *)
(*                                                                         *)
(* The HMAC is ideal: a cookie is the record of what it was derived from.  *)
(* Every principal is honest.                                              *)
(***************************************************************************)
EXTENDS Naturals, FiniteSets

CONSTANTS Clients,         \* agents, each one authenticated static key
          IPs,             \* source addresses
          Sizes,           \* LST packet lengths in bytes
          ChallengeBytes,  \* length of the sealed COK
          MaxWindow,       \* bound: the last cookie window
          MaxKey,          \* bound: signing keys ever installed
          MaxRequests,     \* bound: requests per agent
          MaxRepeats,      \* bound: datagrams the network repeats
          Environments     \* the sets of faults a behaviour may meet

AllFaults == {"lose", "repeat", "roam", "retire", "timeout"}

ASSUME SizesAssumption == Sizes \subseteq Nat /\ ChallengeBytes \in Nat
ASSUME BoundsAssumption ==
    /\ MaxWindow \in Nat \ {0} /\ MaxKey \in Nat \ {0}
    /\ MaxRequests \in Nat /\ MaxRepeats \in Nat
ASSUME FaultsAssumption == Environments \subseteq SUBSET AllFaults

NoKey == 0
Keys == 1..MaxKey
Windows == 1..MaxWindow
Counters == 1..(2 * MaxRequests)
Requests == 1..MaxRequests
Bodies == {"assignment", "other"}   \* "other": malformed or not an assignment

Cookie == [key : Keys, ip : IPs, peer : Clients, window : Windows]
NoCookie == [none |-> TRUE]         \* flags 0000; a cookie goes with flags 0004

LST == [type : {"LST"}, peer : Clients, ip : IPs, counter : Counters,
        nonce : Requests, body : Bodies, size : Sizes,
        cookie : Cookie \cup {NoCookie}]
COK == [type : {"COK"}, peer : Clients, ip : IPs, trxId : Counters,
        cookie : Cookie]
LRT == [type : {"LRT"}, peer : Clients, ip : IPs, counter : Counters]

VARIABLES
    \* the agents
    phase,        \* idle, unproven, proof, done or stopped
    nonce,        \* number of the current request; its request nonce
    body, size,   \* of that request, the same in both of its LSTs
    counter,      \* counter of the last LST sent
    at,           \* the address the agent sends from
    \* the Hub
    window,       \* the current cookie window
    active, previous,   \* the two signing-key slots
    newest,       \* the newest key ever installed
    replayed,     \* <<peer, counter>> of the proofs already honoured
    invocations,  \* Authority invocations per agent and request
    \* the network
    net, repeats,
    faults,       \* those of this behaviour
    \* history, read by the properties only
    minted,       \* the cookies of all challenges sent
    lsts,         \* LSTs sent per agent and request
    received, challenged   \* bytes of flag-0000 LSTs and of COKs, per address

agents == <<phase, nonce, body, size, counter, at>>
slots == <<active, previous, newest>>
history == <<minted, lsts, received, challenged>>
vars == <<agents, slots, window, replayed, invocations, net, repeats, faults,
          history>>

TypeOK ==
    /\ phase \in [Clients -> {"idle", "unproven", "proof", "done", "stopped"}]
    /\ nonce \in [Clients -> 0..MaxRequests]
    /\ body \in [Clients -> Bodies]
    /\ size \in [Clients -> Sizes]
    /\ counter \in [Clients -> 0..(2 * MaxRequests)]
    /\ at \in [Clients -> IPs]
    /\ window \in Windows
    /\ active \in {NoKey} \cup Keys /\ previous \in {NoKey} \cup Keys
    /\ replayed \subseteq Clients \X Counters
    /\ invocations \in [Clients -> [Requests -> Nat]]
    /\ net \subseteq LST \cup COK \cup LRT
    /\ repeats \in 0..MaxRepeats
    /\ faults \in Environments
    /\ minted \subseteq Cookie
    /\ newest \in Keys
    /\ lsts \in [Clients -> [Requests -> Nat]]
    /\ received \in [IPs -> Nat] /\ challenged \in [IPs -> Nat]

Init ==
    /\ phase = [c \in Clients |-> "idle"]
    /\ nonce = [c \in Clients |-> 0]
    /\ body \in [Clients -> {"assignment"}]
    /\ size \in [Clients -> Sizes]
    /\ counter = [c \in Clients |-> 0]
    /\ at \in [Clients -> IPs]
    /\ window = 1
    /\ active = 1 /\ previous = NoKey
    /\ replayed = {}
    /\ invocations = [c \in Clients |-> [n \in Requests |-> 0]]
    /\ net = {} /\ repeats = 0
    /\ faults \in Environments
    /\ minted = {}
    /\ newest = 1
    /\ lsts = [c \in Clients |-> [n \in Requests |-> 0]]
    /\ received = [i \in IPs |-> 0] /\ challenged = [i \in IPs |-> 0]

----------------------------------------------------------------------------
\* The network.

\* Delivery of m: it leaves the network, or its repetition stays behind.
Deliver(m, replies) ==
    /\ m \in net
    /\ \/ net' = (net \ {m}) \cup replies /\ UNCHANGED repeats
       \/ /\ "repeat" \in faults /\ repeats < MaxRepeats
          /\ net' = net \cup replies /\ repeats' = repeats + 1

Lose(m) ==
    /\ "lose" \in faults
    /\ m \in net
    /\ net' = net \ {m}
    /\ UNCHANGED <<agents, slots, window, replayed, invocations, repeats, history>>

----------------------------------------------------------------------------
\* The agent.

SendLST(c, i, n, b, s, cookie) ==
    [type |-> "LST", peer |-> c, ip |-> i, counter |-> counter[c] + 1,
     nonce |-> n, body |-> b, size |-> s, cookie |-> cookie]

\* A request starts with an LST that carries flags 0000.
Begin(c) ==
    /\ phase[c] \notin {"unproven", "proof"}
    /\ nonce[c] < MaxRequests
    /\ \E b \in Bodies, s \in Sizes :
          /\ body' = [body EXCEPT ![c] = b]
          /\ size' = [size EXCEPT ![c] = s]
          /\ net' = net \cup {SendLST(c, at[c], nonce[c] + 1, b, s, NoCookie)}
    /\ phase' = [phase EXCEPT ![c] = "unproven"]
    /\ nonce' = [nonce EXCEPT ![c] = @ + 1]
    /\ counter' = [counter EXCEPT ![c] = @ + 1]
    /\ lsts' = [lsts EXCEPT ![c][nonce[c] + 1] = @ + 1]
    /\ UNCHANGED <<at, slots, window, replayed, invocations, repeats, minted,
                   received, challenged>>

Reaches(m, c) == m.peer = c /\ m.ip = at[c]

\* An agent that roams may have moved between a reply and the answer to it.
Addresses(c) == IF "roam" \in faults THEN IPs ELSE {at[c]}

\* The challenge answers the pending LST: one proof with a fresh counter and
\* the same body.
\* (a slip: every authenticated challenge is answered with a proof)
Answers_AnyChallenge(m, c) == phase[c] \in {"unproven", "proof"}

Answers(m, c) == phase[c] = "unproven" /\ m.trxId = counter[c]

Prove(m, c) ==
    /\ m.type = "COK" /\ Reaches(m, c)
    /\ Answers(m, c)
    /\ \E i \in Addresses(c) :
          /\ at' = [at EXCEPT ![c] = i]
          /\ Deliver(m, {SendLST(c, i, nonce[c], body[c], size[c], m.cookie)})
    /\ phase' = [phase EXCEPT ![c] = "proof"]
    /\ counter' = [counter EXCEPT ![c] = @ + 1]
    /\ lsts' = [lsts EXCEPT ![c][nonce[c]] = @ + 1]
    /\ UNCHANGED <<nonce, body, size, slots, window, replayed, invocations,
                   minted, received, challenged>>

\* A challenge for another transaction, or any challenge once the proof is
\* out, ends the request without a third LST.
StopOnChallenge(m, c) ==
    /\ m.type = "COK" /\ Reaches(m, c)
    /\ phase[c] \in {"unproven", "proof"} /\ ~Answers(m, c)
    /\ Deliver(m, {})
    /\ phase' = [phase EXCEPT ![c] = "stopped"]
    /\ UNCHANGED <<nonce, body, size, counter, at, slots, window, replayed,
                   invocations, history>>

\* The result echoes the counter of the proof.
Fulfils(m, c) == phase[c] = "proof" /\ m.counter = counter[c]

Succeed(m, c) ==
    /\ m.type = "LRT" /\ Reaches(m, c)
    /\ Fulfils(m, c)
    /\ Deliver(m, {})
    /\ phase' = [phase EXCEPT ![c] = "done"]
    /\ UNCHANGED <<nonce, body, size, counter, at, slots, window, replayed,
                   invocations, history>>

\* A reply no pending request waits for, or one sent to an address the agent
\* has left.
Ignore(m, c) ==
    /\ m.type \in {"COK", "LRT"} /\ m.peer = c
    /\ Reaches(m, c) =>
          \/ phase[c] \notin {"unproven", "proof"}
          \/ m.type = "LRT" /\ ~Fulfils(m, c)
    /\ net' = net \ {m}
    /\ UNCHANGED <<agents, slots, window, replayed, invocations, repeats, history>>

Timeout(c) ==
    /\ "timeout" \in faults
    /\ phase[c] \in {"unproven", "proof"}
    /\ phase' = [phase EXCEPT ![c] = "stopped"]
    /\ UNCHANGED <<nonce, body, size, counter, at, slots, window, replayed,
                   invocations, net, repeats, history>>

Roam(c) ==
    /\ "roam" \in faults
    /\ \E i \in IPs \ {at[c]} : at' = [at EXCEPT ![c] = i]
    /\ UNCHANGED <<phase, nonce, body, size, counter, slots, window, replayed,
                   invocations, net, repeats, history>>

----------------------------------------------------------------------------
\* The Hub.

\* (a slip: a challenge as long as the request is let through)
ChallengeFits_Equal(m) == ChallengeBytes <= m.size

ChallengeFits(m) == ChallengeBytes < m.size

Received(m) == [received EXCEPT ![m.ip] = @ + m.size]

\* Only the active key mints, for the address, peer and window it sees.
MintedFor(m) == [key |-> active, ip |-> m.ip, peer |-> m.peer, window |-> window]

\* The body is not looked at: it stays opaque until the proof.
Challenge(m) ==
    /\ m.type = "LST" /\ m.cookie = NoCookie
    /\ active # NoKey /\ ChallengeFits(m)
    /\ Deliver(m, {[type |-> "COK", peer |-> m.peer, ip |-> m.ip,
                    trxId |-> m.counter, cookie |-> MintedFor(m)]})
    /\ minted' = minted \cup {MintedFor(m)}
    /\ received' = Received(m)
    /\ challenged' = [challenged EXCEPT ![m.ip] = @ + ChallengeBytes]
    /\ UNCHANGED <<agents, slots, window, replayed, invocations, lsts>>

DropUnproven(m) ==
    /\ m.type = "LST" /\ m.cookie = NoCookie
    /\ active = NoKey \/ ~ChallengeFits(m)
    /\ Deliver(m, {})
    /\ received' = Received(m)
    /\ UNCHANGED <<agents, slots, window, replayed, invocations, minted, lsts,
                   challenged>>

\* active_current, active_previous_window, previous_current and
\* previous_previous_window; none of them without an active key.
\* (slips: the previous key, or the previous window, is not tried)
Opens_ActiveOnly(cookie) ==
    /\ active # NoKey
    /\ cookie.key = active
    /\ window \in {cookie.window, cookie.window + 1}

Opens_CurrentWindowOnly(cookie) ==
    /\ active # NoKey
    /\ cookie.key \in {active, previous}
    /\ window = cookie.window

Opens(cookie) ==
    /\ active # NoKey
    /\ cookie.key \in {active, previous}
    /\ window \in {cookie.window, cookie.window + 1}

\* (a slip: the cookie is not compared with the packet's source address)
ProofValid_AnyAddress(m) == Opens(m.cookie) /\ m.cookie.peer = m.peer

ProofValid(m) == /\ Opens(m.cookie)
                 /\ m.cookie.ip = m.ip /\ m.cookie.peer = m.peer

\* (a slip: an exact packet replay is served again)
Replayed_NotRemembered(m) == FALSE

Replayed(m) == <<m.peer, m.counter>> \in replayed

Honourable(m) == ProofValid(m) /\ ~Replayed(m) /\ m.body = "assignment"

InvokeAuthority(m) ==
    /\ m.type = "LST" /\ m.cookie # NoCookie
    /\ Honourable(m)
    /\ Deliver(m, {[type |-> "LRT", peer |-> m.peer, ip |-> m.ip,
                    counter |-> m.counter]})
    /\ replayed' = replayed \cup {<<m.peer, m.counter>>}
    /\ invocations' = [invocations EXCEPT ![m.peer][m.nonce] = @ + 1]
    /\ UNCHANGED <<agents, slots, window, history>>

DropProof(m) ==
    /\ m.type = "LST" /\ m.cookie # NoCookie
    /\ ~Honourable(m)
    /\ Deliver(m, {})
    /\ UNCHANGED <<agents, slots, window, replayed, invocations, history>>

----------------------------------------------------------------------------
\* Time and the operator.

Tick == /\ window < MaxWindow
        /\ window' = window + 1
        /\ UNCHANGED <<agents, slots, replayed, invocations, net, repeats, history>>

Rotate == /\ active # NoKey /\ newest < MaxKey
          /\ newest' = newest + 1
          /\ active' = newest + 1 /\ previous' = active
          /\ UNCHANGED <<agents, window, replayed, invocations, net, repeats,
                         history>>

\* The previous slot is emptied, or the Hub is left without an active key ...
Retire == /\ "retire" \in faults
          /\ \/ previous # NoKey /\ previous' = NoKey /\ UNCHANGED active
             \/ active # NoKey /\ active' = NoKey /\ UNCHANGED previous
          /\ UNCHANGED <<newest, agents, window, replayed, invocations, net,
                         repeats, history>>

\* ... until one is installed again.
Install == /\ active = NoKey /\ newest < MaxKey
           /\ newest' = newest + 1 /\ active' = newest + 1
           /\ UNCHANGED <<previous, agents, window, replayed, invocations,
                          net, repeats, history>>

----------------------------------------------------------------------------
ClientStep(c) == /\ \/ \E m \in net : \/ Prove(m, c) \/ StopOnChallenge(m, c)
                                       \/ Succeed(m, c) \/ Ignore(m, c)
                    \/ Timeout(c)
                 /\ UNCHANGED faults

HubStep == /\ \E m \in net : \/ Challenge(m) \/ DropUnproven(m)
                             \/ InvokeAuthority(m) \/ DropProof(m)
           /\ UNCHANGED faults

Unforced == /\ \/ \E c \in Clients : Begin(c) \/ Roam(c)
               \/ \E m \in net : Lose(m)
               \/ Tick \/ Rotate \/ Retire \/ Install
            /\ UNCHANGED faults

Next == HubStep \/ (\E c \in Clients : ClientStep(c)) \/ Unforced

\* The Hub serves what reaches it and an agent acts on replies and on its
\* timer; nothing obliges a new request, a rotation or a loss.
Fairness == WF_vars(HubStep) /\ \A c \in Clients : WF_vars(ClientStep(c))

Spec == Init /\ [][Next]_vars /\ Fairness

----------------------------------------------------------------------------
(***************************************************************************)
(* authority_before_proof_allowed is false: a step that invokes Authority  *)
(* for a request consumes a proof sent from an address to which the Hub    *)
(* challenged that very agent in this window or the one before.            *)
(***************************************************************************)
ProofInFlight(c, n, i) ==
    \E m \in net : /\ m.type = "LST" /\ m.cookie # NoCookie
                   /\ m.peer = c /\ m.nonce = n /\ m.ip = i

InvokedAfterRoundTrip ==
    \A c \in Clients, n \in Requests :
        invocations'[c][n] # invocations[c][n] =>
            \E i \in IPs, k \in minted :
               /\ ProofInFlight(c, n, i)
               /\ k.peer = c /\ k.ip = i /\ window <= k.window + 1

AuthorityAfterRoundTrip == [][InvokedAfterRoundTrip]_vars

(***************************************************************************)
(* authority_invocations_after_proof is 1: whatever the network repeats    *)
(* and however windows and keys turn, a request reaches Authority at most  *)
(* once, and an agent that got its result got it for one invocation.       *)
(***************************************************************************)
AuthorityOnce ==
    \A c \in Clients : /\ \A n \in Requests : invocations[c][n] <= 1
                       /\ phase[c] = "done" => invocations[c][nonce[c]] = 1

(***************************************************************************)
(* challenge_size_rule: to no address has the Hub ever sent as many        *)
(* challenge bytes as that address sent it in unproven requests.           *)
(***************************************************************************)
NoAmplification ==
    \A i \in IPs : challenged[i] = 0 \/ challenged[i] < received[i]

(***************************************************************************)
(* proof_resend_limit is 1 and a second challenge stops the agent: no      *)
(* request sends a third LST, or a second one before a challenge.          *)
(***************************************************************************)
AtMostOneProof ==
    \A c \in Clients, n \in Requests :
        /\ lsts[c][n] <= 2
        /\ lsts[c][n] = 2 => \E k \in minted : k.peer = c

(***************************************************************************)
(* The two key slots and the two windows overlap: on a network that only   *)
(* delays, with at most one rotation and one window passing during the     *)
(* exchange, an assignment request long enough to be challenged gets its   *)
(* result.                                                                 *)
(***************************************************************************)
HandshakeCompletes ==
    \A c \in Clients :
        faults = {} /\ phase[c] = "unproven"
            /\ body[c] = "assignment" /\ size[c] > ChallengeBytes
        ~> phase[c] = "done" \/ window > 2 \/ newest > 2
=============================================================================
