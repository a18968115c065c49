-------------------------- MODULE AgentAssignment --------------------------
(***************************************************************************)
(* The enrollment of one agent as the agent-assignment artifact pins it in *)
(* schema.go and in its golden exchanges: the Hub answers an initial LST   *)
(* with a one-shot ticket bound to the Noise key it authenticated, an      *)
(* account key has a code mailed for that ticket (OTP has no reply), REG   *)
(* spends the ticket at the assigned cell, and completion installs the     *)
(* device key the agent drew and persisted.                                *)
(*                                                                         *)
(* The network holds packets in flight: each is delivered once, in any     *)
(* order, or stays there and is lost.  A retry is a fresh packet with its  *)
(* own counter, which the reply echoes.  Restarts and a change of the      *)
(* Noise key leave the packets of before under way.                        *)
(***************************************************************************)
EXTENDS Naturals, Sequences, FiniteSets

CONSTANTS Keys,          \* Noise keys, in the order the installation uses them
          MaxLifetime,   \* lifetime of a ticket (900 s)
          MinRemaining,  \* what must be left of it when a code is mailed (630 s)
          MaxTime,       \* bound on the clock
          MaxOperations, \* bound on assignment operations and so on tickets
          MaxPackets,    \* bound on the packets of the agent,
          MaxFaulty,     \* and on those of one that meets a fault
          Environments   \* the sets of faults an enrollment may meet

ASSUME LifetimeAssumption ==
    /\ MaxLifetime \in Nat /\ MinRemaining \in Nat /\ MaxTime \in Nat
    /\ 0 < MinRemaining /\ MinRemaining <= MaxLifetime
ASSUME BoundsAssumption ==
    /\ 1 \in Keys /\ Keys \subseteq Nat \ {0}
    /\ MaxOperations \in Nat /\ MaxPackets \in Nat /\ MaxFaulty \in 0..MaxPackets
ASSUME EnvironmentAssumption ==
    Environments \subseteq SUBSET {"retry", "restart", "rekey", "oldcode"}

VARIABLES
    faults,      \* what this enrollment may meet
    kind,        \* key_kind of the registration: only "account" uses OTP
    now,         \* the clock
    agent,       \* the installation: what it does, and what it has persisted
    network,     \* packets in flight, both ways
    counter,     \* the counter of the agent's last packet
    tickets,     \* the Hub's tickets, by number (jti)
    challenges,  \* the cell's challenge store, one per ticket
    spent,       \* the tickets consumed
    registered,  \* the key enrolled for the agent, 0 when there is none
    installed,   \* the device key candidate installed, 0 when there is none
    mailed,      \* history: the codes mailed, with the time
    activations  \* history: the registrations that took effect

hub == <<tickets>>
cell == <<challenges, spent, registered, mailed, activations>>
vars == <<faults, kind, now, agent, network, counter, hub, cell, installed>>

PublicKinds == {"account", "connector_bootstrap"}
Phases == {"idle", "asking", "assigned", "coded", "registering", "active",
           "complete", "stopped"}

Ticket == [operation : 1..MaxOperations, key : Keys, expires : Nat]
Challenge == [ticket : 1..MaxOperations, key : Keys, code : Nat]

TypeOK ==
    /\ faults \in Environments /\ kind \in PublicKinds
    /\ now \in 0..MaxTime /\ counter \in 0..MaxPackets
    /\ agent \in [phase : Phases, key : Keys, operation : 0..MaxOperations,
                  ticket : 0..MaxOperations, counter : 0..MaxPackets,
                  candidate : 0..MaxPackets + 1]
    /\ tickets \in Seq(Ticket) /\ Len(tickets) <= MaxOperations
    /\ challenges \subseteq Challenge
    /\ \A c, d \in challenges : c.ticket = d.ticket => c = d
    /\ spent \subseteq 1..Len(tickets)
    /\ registered \in Keys \cup {0} /\ installed \in 0..MaxPackets + 1
    /\ \A m \in mailed : m.ticket \in 1..Len(tickets) /\ m.at \in 0..now
    /\ \A x \in activations : x.ticket \in spent

Init ==
    /\ faults \in Environments /\ kind \in PublicKinds
    /\ now = 0
    /\ agent = [phase |-> "idle", key |-> 1, operation |-> 0, ticket |-> 0,
                counter |-> 0, candidate |-> 0]
    /\ network = {} /\ counter = 0
    /\ tickets = <<>> /\ challenges = {} /\ spent = {} /\ registered = 0
    /\ installed = 0 /\ mailed = {} /\ activations = {}

Tick == /\ now < MaxTime /\ now' = now + 1
        /\ UNCHANGED <<faults, kind, agent, network, counter, hub, cell, installed>>

----------------------------------------------------------------------------
\* Packets.  Every request has its own counter, and so every reply its request.

NextCounter == counter + 1

Packet(type, fields) ==
    [type |-> type, key |-> agent.key, counter |-> NextCounter, fields |-> fields]

Send(type, fields, next) ==
    /\ counter < IF faults = {} THEN MaxPackets ELSE MaxFaulty
    /\ counter' = NextCounter
    /\ network' = network \cup {Packet(type, fields)}
    /\ agent' = [next EXCEPT !.counter = NextCounter]
    /\ UNCHANGED <<faults, kind, now, hub, cell, installed>>

Reply(request, type, fields) ==
    network' = (network \ {request}) \cup
               {[type |-> type, key |-> request.key, counter |-> request.counter,
                 fields |-> fields]}

\* (a slip: the agent takes any reply of the kind it waits for)
Answers_AnyCounter(p, type) == p.type = type /\ p.key = agent.key

\* The transport pairs a reply with the request whose counter it echoes.
Answers(p, type) ==
    p.type = type /\ p.key = agent.key /\ p.counter = agent.counter

Read(p, next) ==
    /\ network' = network \ {p} /\ agent' = next
    /\ UNCHANGED <<faults, kind, now, counter, hub, cell, installed>>

----------------------------------------------------------------------------
\* The agent.

Idle(a) == [a EXCEPT !.phase = "idle", !.ticket = 0]

\* An operation has one nonce, its number here.
BeginAssignment ==
    /\ agent.phase = "idle" /\ agent.operation < MaxOperations
    /\ Send("initial", agent.operation + 1,
            [agent EXCEPT !.phase = "asking", !.operation = @ + 1])

\* (a slip: a retry draws a nonce of its own)
RetriedNonce_Fresh == agent.operation + 1

\* Every retry inside the operation carries the same body.
RetriedNonce == agent.operation

RetryAssignment ==
    /\ "retry" \in faults /\ agent.phase = "asking"
    /\ RetriedNonce <= MaxOperations
    /\ Send("initial", RetriedNonce, agent)

ReadAssignment ==
    \E p \in network :
        /\ agent.phase = "asking" /\ Answers(p, "assignment")
        /\ Read(p, [agent EXCEPT !.phase = "assigned", !.ticket = p.fields])

\* OTP is one way: the agent does not learn whether a code was mailed.
RequestCode ==
    /\ kind = "account"
    /\ \/ agent.phase = "assigned"
       \/ agent.phase = "coded" /\ "retry" \in faults
    /\ Send("otp", agent.ticket, [agent EXCEPT !.phase = "coded"])

\* The code of a mail the operator has; kinds other than account have none.
Codes == IF kind # "account" THEN {0}
         ELSE {m.code : m \in {n \in mailed : n.ticket = agent.ticket
                                             \/ "oldcode" \in faults}}

Register ==
    /\ \/ agent.phase = IF kind = "account" THEN "coded" ELSE "assigned"
       \/ agent.phase = "registering" /\ "retry" \in faults
    /\ \E code \in Codes :
          Send("reg", [ticket |-> agent.ticket, code |-> code],
               [agent EXCEPT !.phase = "registering"])

\* identity_conflict stops the agent; after any other refusal, the unknown
\* code of a wrong OTP among them, it begins again.
ReadRegistration ==
    \E p \in network :
        /\ agent.phase = "registering" /\ Answers(p, "rak")
        /\ Read(p, CASE p.fields = "0" -> [agent EXCEPT !.phase = "active"]
                     [] p.fields = "52103" -> [agent EXCEPT !.phase = "stopped"]
                     [] OTHER -> Idle(agent))

\* Too late for a code to be mailed: the operation is given up.
Abandon ==
    /\ agent.phase \in {"assigned", "coded"} /\ kind = "account"
    /\ tickets[agent.ticket].expires < now + MinRemaining
    /\ agent' = Idle(agent)
    /\ UNCHANGED <<faults, kind, now, network, counter, hub, cell, installed>>

\* (a slip: the candidate is drawn again for every send)
Candidate_Fresh == NextCounter

\* The candidate is persisted before it is sent for the first time.
Candidate == IF agent.candidate = 0 THEN NextCounter ELSE agent.candidate

Complete ==
    /\ agent.phase = "active"
    /\ agent.candidate = 0 \/ "retry" \in faults \/ "restart" \in faults
    /\ Send("completion", Candidate, [agent EXCEPT !.candidate = Candidate])

ReadCompletion ==
    \E p \in network :
        /\ agent.phase = "active" /\ Answers(p, "completed")
        /\ Read(p, [agent EXCEPT !.phase = IF p.fields = "0" THEN "complete"
                                           ELSE "stopped"])

\* What is not persisted is lost; an agent that is registered stays so.
Restart ==
    /\ "restart" \in faults
    /\ agent.phase \in {"asking", "assigned", "coded", "registering"}
    /\ agent' = Idle(agent)
    /\ UNCHANGED <<faults, kind, now, network, counter, hub, cell, installed>>

\* The installation takes another Noise key and goes on with the ticket it has.
Rekey ==
    /\ "rekey" \in faults /\ agent.key + 1 \in Keys
    /\ agent.phase \in {"idle", "assigned", "coded", "registering"}
    /\ agent' = [agent EXCEPT !.key = @ + 1]
    /\ UNCHANGED <<faults, kind, now, network, counter, hub, cell, installed>>

----------------------------------------------------------------------------
\* The Hub.

Issued(operation, key) ==
    {t \in 1..Len(tickets) : tickets[t].operation = operation /\ tickets[t].key = key}

\* One ticket for one operation: a retry gets the ticket of the first.
Assign(p) ==
    /\ p.type = "initial"
    /\ \/ /\ Issued(p.fields, p.key) = {} /\ Len(tickets) < MaxOperations
          /\ tickets' = Append(tickets, [operation |-> p.fields, key |-> p.key,
                                         expires |-> now + MaxLifetime])
          /\ Reply(p, "assignment", Len(tickets) + 1)
       \/ /\ \E t \in Issued(p.fields, p.key) : Reply(p, "assignment", t)
          /\ UNCHANGED tickets
    /\ UNCHANGED <<faults, kind, now, agent, counter, cell, installed>>

----------------------------------------------------------------------------
\* The assigned cell.

\* (slips: the minimum lifetime is forgotten; the bound is not inclusive)
Dispatchable_Unexpired(p, t) == p.key = t.key /\ now < t.expires
Dispatchable_Strict(p, t) == p.key = t.key /\ now + MinRemaining < t.expires

\* The binding cases that can differ here: peer, expiry and remaining lifetime.
Dispatchable(p, t) == p.key = t.key /\ now + MinRemaining <= t.expires

\* The store looks a challenge up by its ticket: a newer one takes its place.
Store(c) == {d \in challenges : d.ticket # c.ticket} \cup {c}

Dispatch(p) ==
    /\ p.type = "otp"
    /\ network' = network \ {p}
    /\ IF Dispatchable(p, tickets[p.fields])
       THEN LET c == [ticket |-> p.fields, key |-> p.key, code |-> p.counter]
            IN  /\ challenges' = Store(c)
                /\ mailed' = mailed \cup {[ticket |-> p.fields, key |-> p.key,
                                           code |-> p.counter, at |-> now]}
       ELSE UNCHANGED <<challenges, mailed>>
    /\ UNCHANGED <<faults, kind, now, agent, counter, hub, spent, registered,
                   activations, installed>>

Challenged(p) ==
    \E c \in challenges : /\ c.ticket = p.fields.ticket
                          /\ c.key = p.key /\ c.code = p.fields.code

EnrolledElsewhere(p) == registered \notin {0, p.key}

\* The order of the refusals is not pinned: any that applies may be told.
Refusals(p) ==
    LET t == tickets[p.fields.ticket]
    IN  (IF p.key # t.key \/ p.fields.ticket \in spent THEN {"52110"} ELSE {})
        \cup (IF now >= t.expires THEN {"52111"} ELSE {})
        \cup (IF kind = "account" /\ ~Challenged(p) THEN {"52100"} ELSE {})
        \cup (IF EnrolledElsewhere(p) THEN {"52103"} ELSE {})

\* (a slip: the ticket is not spent with the activation)
Spend_Nothing(p) == spent

Spend(p) == spent \cup {p.fields.ticket}

\* The atomic activation: the ticket is spent and the key enrolled.
Activate(p) ==
    /\ p.type = "reg"
    /\ IF Refusals(p) = {}
       THEN /\ spent' = Spend(p)
            /\ registered' = p.key
            /\ activations' = activations \cup
                 {[ticket |-> p.fields.ticket, key |-> p.key, code |-> p.fields.code,
                   counter |-> p.counter]}
            /\ challenges' = {c \in challenges : c.ticket # p.fields.ticket}
            /\ Reply(p, "rak", "0")
       ELSE /\ \E code \in Refusals(p) : Reply(p, "rak", code)
            /\ UNCHANGED <<spent, registered, activations, challenges>>
    /\ UNCHANGED <<faults, kind, now, agent, counter, hub, mailed, installed>>

Conflicts(p) == installed \notin {0, p.fields}

\* Completion is for the enrolled key; the same candidate has the same id.
Install(p) ==
    /\ p.type = "completion"
    /\ CASE registered # p.key -> Reply(p, "completed", "52301") /\ UNCHANGED installed
         [] registered = p.key /\ Conflicts(p) ->
              Reply(p, "completed", "52303") /\ UNCHANGED installed
         [] OTHER -> Reply(p, "completed", "0") /\ installed' = p.fields
    /\ UNCHANGED <<faults, kind, now, agent, counter, hub, cell>>

----------------------------------------------------------------------------
AgentNext == \/ BeginAssignment \/ RetryAssignment \/ ReadAssignment
             \/ RequestCode \/ Register \/ ReadRegistration
             \/ Abandon \/ Complete \/ ReadCompletion \/ Restart \/ Rekey

ServerNext == \E p \in network : Assign(p) \/ Dispatch(p) \/ Activate(p) \/ Install(p)

Next == Tick \/ AgentNext \/ ServerNext

Spec == Init /\ [][Next]_vars

(***************************************************************************)
(* Packets in flight are delivered and handled, the agent goes on, and the *)
(* operator enters the code that was mailed.                               *)
(***************************************************************************)
Fairness == /\ WF_vars(BeginAssignment) /\ WF_vars(ReadAssignment)
            /\ WF_vars(RequestCode) /\ WF_vars(Register)
            /\ WF_vars(ReadRegistration) /\ WF_vars(Abandon)
            /\ WF_vars(Complete) /\ WF_vars(ReadCompletion)
            /\ WF_vars(ServerNext)

FairSpec == Spec /\ Fairness

----------------------------------------------------------------------------
(***************************************************************************)
(* A registration takes effect only for the key the Hub authenticated when *)
(* it issued the ticket, and an account key only with a code mailed to     *)
(* that key for that ticket, with the minimum of its lifetime left.  No    *)
(* other kind of key ever has a code mailed.                               *)
(***************************************************************************)
RegistrationEarned ==
    /\ \A x \in activations :
          /\ tickets[x.ticket].key = x.key
          /\ kind = "account" =>
               \E m \in mailed :
                  /\ m.ticket = x.ticket /\ m.key = x.key /\ m.code = x.code
                  /\ m.at + MinRemaining <= tickets[x.ticket].expires
    /\ kind # "account" => mailed = {}

(***************************************************************************)
(* A ticket activates once, however often its REG is sent or replayed.     *)
(***************************************************************************)
TicketIsOneShot ==
    \A x, y \in activations : x.ticket = y.ticket => x = y

(***************************************************************************)
(* One ticket, one registration, and one that was earned: of what arrives  *)
(* twice or late, nothing registers a key a second time or without a code. *)
(***************************************************************************)
RegisteredOnce == RegistrationEarned /\ TicketIsOneShot

(***************************************************************************)
(* The retries inside an assignment operation cost no second ticket.       *)
(***************************************************************************)
OneTicketPerOperation == Len(tickets) <= agent.operation

(***************************************************************************)
(* The agent is in step with the servers whatever replies come late: the   *)
(* ticket it uses is of its current operation, and once it has read a      *)
(* success the key it holds is the one enrolled.                           *)
(***************************************************************************)
AgentInStep ==
    /\ agent.ticket # 0 => tickets[agent.ticket].operation = agent.operation
    /\ agent.phase \in {"active", "complete"} => registered = agent.key

(***************************************************************************)
(* The device key installed is the candidate the agent persisted, through  *)
(* restarts and retries of the completion, and is never contested.         *)
(***************************************************************************)
DeviceKeyIsOurs ==
    /\ installed # 0 => installed = agent.candidate
    /\ \A p \in network : p.type = "completed" => p.fields # "52303"

(***************************************************************************)
(* An enrollment that meets no fault completes, however long its packets   *)
(* and its code take: a ticket that runs out is replaced.                  *)
(***************************************************************************)
EnrollmentCompletes == faults = {} => <>(agent.phase = "complete")
=============================================================================
